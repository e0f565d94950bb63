------------------------------ MODULE RcaGraph ------------------------------
(***************************************************************************)
(* The analysis inside a worker (RcaJobQueue._run_rca, app/agents): a      *)
(* graph of LLM agents, router -> modalities in parallel -> report, under  *)
(* a time cap and with a second attempt.  All workers share one semaphore  *)
(* that limits the LLM calls in flight.                                    *)
(*                                                                         *)
(* A task is one node of one worker's graph.  "wait" and "call" are the    *)
(* two awaits of a node: for a permit, and for the LLM while holding one.  *)
(* Where a node is cancelled it still has to unwind: "leave" from the      *)
(* queue of the semaphore, "stop" from the call.                           *)
(***************************************************************************)
EXTENDS Naturals, Sequences, FiniteSets, SequencesExt

CONSTANTS
    Workers,     \* RcaJobQueue worker tasks, at most one _run_rca in each
    MODALITIES,  \* "log", "metric", "trace"
    Permits,     \* settings.openai_max_concurrency
    Bundles      \* the bundles a worker may meet: which modalities have
                 \* items, and which are in triggered_by

ASSUME WorkersFinite == IsFiniteSet(Workers)
ASSUME ModalitiesFinite ==
    /\ IsFiniteSet(MODALITIES) /\ MODALITIES # {}
    /\ "router" \notin MODALITIES /\ "report" \notin MODALITIES
ASSUME PermitsPositive == Permits \in Nat \ {0}
ASSUME BundlesType ==
    Bundles \subseteq [items : SUBSET MODALITIES, triggered : SUBSET MODALITIES]

VARIABLES
    run,       \* _run_rca of each worker; "ending" while an attempt that
               \* failed unwinds, "result" or "failed" when it is over
    attempt,   \* its loop variable
    bundle,    \* the bundle it analyses
    routes,    \* RcaState.routes of the current attempt
    evidence,  \* RcaState.log_ev, metric_ev, trace_ev: where each is from
    task,      \* progress of every node of the current attempt
    free,      \* the semaphore: permits not handed out
    waiting    \* the semaphore: FIFO of the tasks that asked for a permit

vars == <<run, attempt, bundle, routes, evidence, task, free, waiting>>

Nodes  == {"router", "report"} \cup MODALITIES
Tasks  == Workers \X Nodes
Depths == {"deep", "scan"}

NoRoutes   == [m \in MODALITIES |-> "none"]
AllDeep    == [m \in MODALITIES |-> "deep"]
NoEvidence == [m \in MODALITIES |-> "none"]
NoBundle   == [items |-> {}, triggered |-> {}]

TypeOK ==
    /\ run \in [Workers -> {"idle", "running", "ending", "result", "failed"}]
    /\ attempt \in [Workers -> {1, 2}]
    /\ bundle \in [Workers -> Bundles \cup {NoBundle}]
    /\ routes \in [Workers -> [MODALITIES -> Depths \cup {"none"}]]
    /\ evidence \in [Workers -> [MODALITIES -> Depths \cup {"none", "nodata", "failed"}]]
    /\ task \in [Tasks -> {"off", "wait", "call", "done", "leave", "stop"}]
    /\ free \in 0..Permits
    /\ waiting \in Seq(Tasks)

Init ==
    /\ run = [w \in Workers |-> "idle"]
    /\ attempt = [w \in Workers |-> 1]
    /\ bundle = [w \in Workers |-> NoBundle]
    /\ routes = [w \in Workers |-> NoRoutes]
    /\ evidence = [w \in Workers |-> NoEvidence]
    /\ task = [t \in Tasks |-> "off"]
    /\ free = Permits
    /\ waiting = <<>>

-----------------------------------------------------------------------------
(* asyncio.Semaphore, as `async with llm_limit()` uses it. *)

Waits(i) == task[waiting[i]] = "wait"

(* acquire: at once when a permit is free and nobody waits, else in line.  *)
(* A waiter that was cancelled but has not run since does not count.       *)
Acquire(t) ==
    IF free > 0 /\ ~\E i \in DOMAIN waiting : Waits(i)
    THEN /\ task' = [task EXCEPT ![t] = "call"]
         /\ free' = free - 1
         /\ UNCHANGED waiting
    ELSE /\ task' = [task EXCEPT ![t] = "wait"]
         /\ waiting' = Append(waiting, t)
         /\ UNCHANGED free

(* Mutant of Release: the permit goes back, but no waiter is woken. *)
Release_NoWake(t, pc) ==
    task' = [task EXCEPT ![t] = pc] /\ free' = free + 1 /\ UNCHANGED waiting

(* Mutant of Release: the permit is handed on and counted as free as well. *)
Release_WakeAndCount(t, pc) ==
    /\ free' = free + 1
    /\ \/ /\ ~\E i \in DOMAIN waiting : Waits(i)
          /\ task' = [task EXCEPT ![t] = pc]
          /\ UNCHANGED waiting
       \/ \E i \in DOMAIN waiting :
             /\ Waits(i) /\ \A k \in 1..(i - 1) : ~Waits(k)
             /\ task' = [task EXCEPT ![t] = pc, ![waiting[i]] = "call"]
             /\ waiting' = RemoveAt(waiting, i)

(* Task t leaves its call for pc.  Its permit goes to the first waiter that *)
(* has not been cancelled, which owns it from then on (also when it is     *)
(* cancelled before it runs).                                              *)
Release(t, pc) ==
    \/ /\ ~\E i \in DOMAIN waiting : Waits(i)
       /\ task' = [task EXCEPT ![t] = pc]
       /\ free' = free + 1
       /\ UNCHANGED waiting
    \/ \E i \in DOMAIN waiting :
          /\ Waits(i) /\ \A k \in 1..(i - 1) : ~Waits(k)
          /\ task' = [task EXCEPT ![t] = pc, ![waiting[i]] = "call"]
          /\ waiting' = RemoveAt(waiting, i)
          /\ UNCHANGED free

-----------------------------------------------------------------------------
(* _run_rca: every attempt is a new ainvoke of the graph, on a new state.  *)

TasksOf(w) == {w} \X Nodes

(* Mutant of Begin: the second attempt goes on with the state of the first. *)
Begin_SameState(w, n) ==
    /\ run' = [run EXCEPT ![w] = "running"]
    /\ attempt' = [attempt EXCEPT ![w] = n]
    /\ task' = [t \in Tasks |-> IF t[1] = w THEN "off" ELSE task[t]]
    /\ UNCHANGED <<routes, evidence, free, waiting>>

Begin(w, n) ==
    /\ run' = [run EXCEPT ![w] = "running"]
    /\ attempt' = [attempt EXCEPT ![w] = n]
    /\ routes' = [routes EXCEPT ![w] = NoRoutes]
    /\ evidence' = [evidence EXCEPT ![w] = NoEvidence]
    /\ task' = [t \in Tasks |-> IF t[1] = w THEN "off" ELSE task[t]]
    /\ UNCHANGED <<free, waiting>>

(* A worker that has done with one job starts the analysis of the next. *)
TakeJob(w) ==
    /\ run[w] \in {"idle", "result", "failed"}
    /\ \E b \in Bundles : bundle' = [bundle EXCEPT ![w] = b]
    /\ Begin(w, 1)

(* What becomes of a node at either of its awaits. *)
Cancelled(pc) ==
    IF pc = "wait" THEN "leave" ELSE IF pc = "call" THEN "stop" ELSE pc

(* asyncio.wait_for: the cap may strike at any await and cancels all the   *)
(* tasks of the graph.                                                     *)
Timeout(w) ==
    /\ run[w] = "running"
    /\ run' = [run EXCEPT ![w] = "ending"]
    /\ task' = [t \in Tasks |->
                  IF t[1] = w THEN Cancelled(task[t]) ELSE task[t]]
    /\ UNCHANGED <<attempt, bundle, routes, evidence, free, waiting>>

(* A cancelled task that was waiting takes itself out of the queue. *)
Leave(t) ==
    /\ task[t] = "leave"
    /\ \E i \in DOMAIN waiting : waiting[i] = t /\ waiting' = RemoveAt(waiting, i)
    /\ task' = [task EXCEPT ![t] = "done"]
    /\ UNCHANGED <<run, attempt, bundle, routes, evidence, free>>

(* Mutant of Stop: acquire, call, release without a `finally`. *)
Stop_KeepsPermit(t) ==
    /\ task[t] = "stop"
    /\ task' = [task EXCEPT ![t] = "done"]
    /\ UNCHANGED <<run, attempt, bundle, routes, evidence, free, waiting>>

(* A cancelled call leaves its `async with`. *)
Stop(t) ==
    /\ task[t] = "stop"
    /\ Release(t, "done")
    /\ UNCHANGED <<run, attempt, bundle, routes, evidence>>

(* Mutant of Again: the second attempt does not count. *)
Again_Uncounted(w) == Begin(w, 1)

Again(w) == attempt[w] = 1 /\ Begin(w, 2)

(* Mutant of AttemptEnds: no second attempt. *)
AttemptEnds_AtOnce(w) ==
    /\ run[w] = "ending"
    /\ \A t \in TasksOf(w) : task[t] \notin {"leave", "stop"}
    /\ run' = [run EXCEPT ![w] = "failed"]
    /\ UNCHANGED <<attempt, bundle, routes, evidence, task, free, waiting>>

(* The attempt has failed and its tasks are gone (wait_for returns only    *)
(* then): once more from the router, or the last exception is raised.      *)
AttemptEnds(w) ==
    /\ run[w] = "ending"
    /\ \A t \in TasksOf(w) : task[t] \notin {"leave", "stop"}
    /\ \/ Again(w) /\ UNCHANGED bundle
       \/ /\ attempt[w] = 2
          /\ run' = [run EXCEPT ![w] = "failed"]
          /\ UNCHANGED <<attempt, bundle, routes, evidence, task, free, waiting>>

-----------------------------------------------------------------------------
(* The nodes.  Each prepares its messages, which may raise, before it asks *)
(* for a permit.                                                           *)

Starts(w, n) == run[w] = "running" /\ task[<<w, n>>] = "off"
Calls(w, n)  == run[w] = "running" /\ task[<<w, n>>] = "call"
Skip(t)      == task' = [task EXCEPT ![t] = "done"] /\ UNCHANGED <<free, waiting>>

(* Mutant of Guarded: the decision of the router as it is. *)
Guarded_Unpromoted(b, decision) == decision

(* route_with_guardrails: a triggered modality is promoted to deep. *)
Guarded(b, decision) ==
    [m \in MODALITIES |-> IF m \in b.triggered THEN "deep" ELSE decision[m]]

(* The routes of the attempt.  A router that raises counts as AllDeep. *)
Route(w, decision) == routes' = [routes EXCEPT ![w] = Guarded(bundle[w], decision)]

RouterStart(w) ==
    /\ Starts(w, "router")
    /\ \/ Acquire(<<w, "router">>) /\ UNCHANGED routes
       \/ Skip(<<w, "router">>) /\ Route(w, AllDeep)
    /\ UNCHANGED <<run, attempt, bundle, evidence>>

RouterAnswer(w) ==
    /\ Calls(w, "router")
    /\ Release(<<w, "router">>, "done")
    /\ \E decision \in [MODALITIES -> Depths] : Route(w, decision)
    /\ UNCHANGED <<run, attempt, bundle, evidence>>

Conclude(w, m, e) == evidence' = [evidence EXCEPT ![w][m] = e]

(* No items: evidence without an LLM.  An exception: evidence that says so. *)
ModalityStart(w, m) ==
    /\ Starts(w, m)
    /\ task[<<w, "router">>] = "done"
    /\ \/ /\ m \notin bundle[w].items
          /\ Conclude(w, m, "nodata")
          /\ Skip(<<w, m>>)
       \/ /\ m \in bundle[w].items
          /\ \/ Acquire(<<w, m>>) /\ UNCHANGED evidence
             \/ Skip(<<w, m>>) /\ Conclude(w, m, "failed")
    /\ UNCHANGED <<run, attempt, bundle, routes>>

ModalityAnswer(w, m) ==
    /\ Calls(w, m)
    /\ Release(<<w, m>>, "done")
    /\ \E e \in {routes[w][m], "failed"} : Conclude(w, m, e)
    /\ UNCHANGED <<run, attempt, bundle, routes>>

(* The report joins the three pieces of evidence.  What it raises is not   *)
(* caught in the graph and fails the attempt.                              *)
ReportStart(w) ==
    /\ Starts(w, "report")
    /\ \A m \in MODALITIES : task[<<w, m>>] = "done"
    /\ \/ Acquire(<<w, "report">>) /\ UNCHANGED run
       \/ Skip(<<w, "report">>) /\ run' = [run EXCEPT ![w] = "ending"]
    /\ UNCHANGED <<attempt, bundle, routes, evidence>>

ReportAnswer(w) ==
    /\ Calls(w, "report")
    /\ Release(<<w, "report">>, "done")
    /\ \E r \in {"result", "ending"} : run' = [run EXCEPT ![w] = r]
    /\ UNCHANGED <<attempt, bundle, routes, evidence>>

-----------------------------------------------------------------------------
Unwinds(w) == AttemptEnds(w) \/ \E t \in TasksOf(w) : Leave(t) \/ Stop(t)
NodeStarts(w) ==
    RouterStart(w) \/ ReportStart(w) \/ \E m \in MODALITIES : ModalityStart(w, m)
LlmAnswers(w) ==
    RouterAnswer(w) \/ ReportAnswer(w) \/ \E m \in MODALITIES : ModalityAnswer(w, m)

Next == \E w \in Workers :
    TakeJob(w) \/ Timeout(w) \/ Unwinds(w) \/ NodeStarts(w) \/ LlmAnswers(w)

Spec == Init /\ [][Next]_vars

(* The timer of wait_for fires; no LLM call need ever return. *)
CapFires == \A w \in Workers : WF_vars(Timeout(w)) /\ WF_vars(Unwinds(w))

(* Every LLM request returns (make_llm caps each of its attempts); the     *)
(* timer need not fire.                                                    *)
LlmReturns ==
    \A w \in Workers :
        /\ WF_vars(Unwinds(w)) /\ WF_vars(RouterStart(w) \/ RouterAnswer(w))
        /\ WF_vars(ReportStart(w) \/ ReportAnswer(w))
        /\ \A m \in MODALITIES : WF_vars(ModalityStart(w, m) \/ ModalityAnswer(w, m))

-----------------------------------------------------------------------------
(* The permits out are those of the calls in flight: none is lost when a   *)
(* call fails or is cancelled, none is handed out twice (llm.py lines 6,   *)
(* 58), however the attempts of the workers end.                           *)
InFlight == {t \in Tasks : task[t] \in {"call", "stop"}}
PermitsConserved == free + Cardinality(InFlight) = Permits

(* No waiter is forgotten: who waits is in the queue once, and nobody      *)
(* waits while a permit is free, also when cancellations and releases of   *)
(* different workers cross.                                                *)
NoLostWakeup ==
    /\ \A t \in Tasks : task[t] \in {"wait", "leave"} <=> \E i \in DOMAIN waiting : waiting[i] = t
    /\ \A i, k \in DOMAIN waiting : waiting[i] = waiting[k] => i = k
    /\ \A t \in Tasks : task[t] = "wait" => free = 0

(* The report sees the whole evidence of its own attempt: a conclusion of  *)
(* the code where there are no items, the depth that was decided or an     *)
(* honest failure where there are, and never a mere scan of a modality     *)
(* that was in triggered_by (graph.py lines 7-10, router.py lines 3-6).    *)
Informed(w, m) ==
    /\ evidence[w][m] \in IF m \in bundle[w].items THEN {routes[w][m], "failed"}
                                                   ELSE {"nodata"}
    /\ m \in bundle[w].triggered => routes[w][m] = "deep"
ReportIsInformed ==
    \A w \in Workers :
        run[w] \in {"running", "result"} /\ task[<<w, "report">>] # "off"
            => \A m \in MODALITIES : Informed(w, m)

(* A piece of evidence is that of the current attempt.  Nothing is left of *)
(* an attempt that was cancelled.                                          *)
EvidenceIsCurrent ==
    \A w \in Workers, m \in MODALITIES :
        evidence[w][m] # "none" =>
            /\ task[<<w, "router">>] = "done"
            /\ task[<<w, m>>] = "done"

(* Every analysis ends in a result or an error: by the cap alone, when the *)
(* LLM is dead; and by the answers of the LLM alone, since nobody starves  *)
(* on the semaphore or holds a permit while waiting for another node.      *)
RunEnds == \A w \in Workers : run[w] = "running" ~> run[w] \in {"result", "failed"}
EndsByCap == CapFires => RunEnds
EndsByAnswers == LlmReturns => RunEnds

(* What the job queue relies on: at most two attempts, and failure only    *)
(* after the second.                                                       *)
Abstract == INSTANCE RcaRun
    WITH run <- [w \in Workers |-> IF run[w] = "ending" THEN "running" ELSE run[w]]
RunSpec == Abstract!Spec

=============================================================================
