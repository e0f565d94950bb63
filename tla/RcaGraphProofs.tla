--------------------------- MODULE RcaGraphProofs ---------------------------
(***************************************************************************)
(* What holds of the analysis for any number of workers, modalities and    *)
(* permits.                                                                *)
(***************************************************************************)
EXTENDS RcaGraph, FiniteSetTheorems, SequenceTheorems, TLAPS

-----------------------------------------------------------------------------
(* The inductive invariant: typing, the semaphore, and per worker how far  *)
(* its nodes may be and what they have concluded.                          *)

Over(w) == run[w] \in {"idle", "result", "failed"}

(* Which tasks may be where, given the run. *)
Quiet(w) ==
    /\ Over(w) => \A n \in Nodes : task[<<w, n>>] \in {"off", "done"}
    /\ run[w] = "ending" => \A n \in Nodes : task[<<w, n>>] \notin {"wait", "call"}
    /\ run[w] = "running" => \A n \in Nodes : task[<<w, n>>] \notin {"leave", "stop"}

(* The edges of the graph. *)
Ordered(w) ==
    run[w] \in {"running", "result"} =>
        /\ \A m \in MODALITIES :
              task[<<w, m>>] # "off" => task[<<w, "router">>] = "done"
        /\ task[<<w, "report">>] # "off" => \A m \in MODALITIES : task[<<w, m>>] = "done"
        /\ task[<<w, "report">>] # "off" => task[<<w, "router">>] = "done"

(* What is known once a node is done. *)
Concluded(w) ==
    run[w] \in {"running", "result"} =>
        /\ task[<<w, "router">>] = "done" =>
              /\ routes[w] \in [MODALITIES -> Depths]
              /\ \A m \in bundle[w].triggered : routes[w][m] = "deep"
        /\ \A m \in MODALITIES : task[<<w, m>>] = "done" => Informed(w, m)

(* No evidence before its node is done. *)
Current(w) ==
    \A m \in MODALITIES : evidence[w][m] # "none" =>
        task[<<w, "router">>] = "done" /\ task[<<w, m>>] = "done"

(* A modality without items has no use for the LLM. *)
Sparing(w) ==
    \A m \in MODALITIES \ bundle[w].items : task[<<w, m>>] \notin {"wait", "call"}

WorkerInv(w) == Sparing(w) /\ Quiet(w) /\ Ordered(w) /\ Concluded(w) /\ Current(w)

GraphInv == TypeOK /\ PermitsConserved /\ \A w \in Workers : WorkerInv(w)

TaskPCs == {"off", "wait", "call", "done", "leave", "stop"}

(* What the semaphore keeps in order by itself. *)
SemaphoreOK ==
    /\ task \in [Tasks -> TaskPCs]
    /\ free \in 0..Permits
    /\ waiting \in Seq(Tasks)
    /\ PermitsConserved

(* The rest of the state. *)
RunsOK ==
    /\ run \in [Workers -> {"idle", "running", "ending", "result", "failed"}]
    /\ attempt \in [Workers -> {1, 2}]
    /\ bundle \in [Workers -> Bundles \cup {NoBundle}]
    /\ routes \in [Workers -> [MODALITIES -> Depths \cup {"none"}]]
    /\ evidence \in [Workers -> [MODALITIES -> Depths \cup {"none", "nodata", "failed"}]]

LEMMA InvParts ==
    GraphInv <=> SemaphoreOK /\ RunsOK /\ \A w \in Workers : WorkerInv(w)
  BY DEF GraphInv, TypeOK, SemaphoreOK, RunsOK, TaskPCs

-----------------------------------------------------------------------------
(* The semaphore. *)

LEMMA TasksFinite == IsFiniteSet(Tasks)
<1>1. IsFiniteSet({"router", "report"})
  <2>1. IsFiniteSet({} \cup {"router"})  BY FS_EmptySet, FS_AddElement
  <2>2. IsFiniteSet(({} \cup {"router"}) \cup {"report"})  BY <2>1, FS_AddElement
  <2>3. {"router", "report"} = ({} \cup {"router"}) \cup {"report"}  OBVIOUS
  <2> QED  BY <2>2, <2>3
<1>2. IsFiniteSet(Nodes)  BY <1>1, ModalitiesFinite, FS_Union DEF Nodes
<1> QED  BY <1>2, WorkersFinite, FS_Product DEF Tasks

LEMMA InFlightFinite == IsFiniteSet(InFlight) /\ Cardinality(InFlight) \in Nat
<1>1. InFlight \in SUBSET Tasks  BY DEF InFlight
<1>2. IsFiniteSet(InFlight)  BY <1>1, TasksFinite, FS_Subset
<1> QED  BY <1>2, FS_CardinalityType

(* Neither the permits nor the calls in flight change. *)
LEMMA SamePermits ==
    ASSUME SemaphoreOK, UNCHANGED <<free, waiting>>,
           task' \in [Tasks -> TaskPCs],
           \A t \in Tasks : task[t] \in {"call", "stop"} <=> task'[t] \in {"call", "stop"}
    PROVE  SemaphoreOK'
<1>1. InFlight' = InFlight  BY DEF InFlight
<1> QED  BY <1>1 DEF SemaphoreOK, PermitsConserved

LEMMA RemoveAtType ==
    ASSUME waiting \in Seq(Tasks), NEW i \in DOMAIN waiting
    PROVE  RemoveAt(waiting, i) \in Seq(Tasks)
  BY DEF RemoveAt

LEMMA AcquireOK ==
    ASSUME SemaphoreOK, NEW t \in Tasks, task[t] = "off", Acquire(t)
    PROVE  /\ SemaphoreOK'
           /\ task'[t] \in {"call", "wait"}
           /\ \A u \in Tasks \ {t} : task'[u] = task[u]
<1>1. CASE free > 0 /\ ~\E i \in DOMAIN waiting : Waits(i)
  <2>1. /\ task' = [task EXCEPT ![t] = "call"]
        /\ free' = free - 1
        /\ waiting' = waiting
    BY <1>1 DEF Acquire
  <2>2. InFlight' = InFlight \cup {t} /\ t \notin InFlight
    BY <2>1 DEF InFlight, SemaphoreOK
  <2>3. Cardinality(InFlight') = Cardinality(InFlight) + 1
    BY <2>2, InFlightFinite, FS_AddElement
  <2>4. free' \in 0..Permits /\ free' + Cardinality(InFlight') = Permits
    BY <1>1, <2>1, <2>3, InFlightFinite, PermitsPositive DEF SemaphoreOK, PermitsConserved
  <2> QED  BY <2>1, <2>4 DEF SemaphoreOK, PermitsConserved, TaskPCs
<1>2. CASE ~(free > 0 /\ ~\E i \in DOMAIN waiting : Waits(i))
  <2>1. /\ task' = [task EXCEPT ![t] = "wait"]
        /\ waiting' = Append(waiting, t)
        /\ free' = free
    BY <1>2 DEF Acquire
  <2>2. InFlight' = InFlight  BY <2>1 DEF InFlight, SemaphoreOK
  <2> QED  BY <2>1, <2>2 DEF SemaphoreOK, PermitsConserved, TaskPCs
<1> QED  BY <1>1, <1>2

(* A permit that is handed on changes its owner, not the number of owners. *)
LEMMA ReleaseOK ==
    ASSUME SemaphoreOK, NEW t \in Tasks, task[t] \in {"call", "stop"}, Release(t, "done")
    PROVE  /\ SemaphoreOK'
           /\ task'[t] = "done"
           /\ \A u \in Tasks \ {t} :
                 task'[u] = task[u] \/ (task[u] = "wait" /\ task'[u] = "call")
<1>1. t \in InFlight /\ Cardinality(InFlight \ {t}) = Cardinality(InFlight) - 1
  BY InFlightFinite, FS_RemoveElement DEF InFlight
<1>2. Cardinality(InFlight) \in Nat /\ Cardinality(InFlight \ {t}) \in Nat
  BY InFlightFinite, FS_RemoveElement, FS_CardinalityType
<1>3. CASE /\ task' = [task EXCEPT ![t] = "done"]
           /\ free' = free + 1
           /\ UNCHANGED waiting
  <2>1. InFlight' = InFlight \ {t}  BY <1>3 DEF InFlight, SemaphoreOK
  <2>2. free' \in 0..Permits /\ free' + Cardinality(InFlight') = Permits
    BY <1>1, <1>2, <1>3, <2>1, PermitsPositive DEF SemaphoreOK, PermitsConserved
  <2> QED  BY <1>3, <2>2 DEF SemaphoreOK, PermitsConserved, TaskPCs
<1>4. ASSUME NEW i \in DOMAIN waiting, Waits(i),
             task' = [task EXCEPT ![t] = "done", ![waiting[i]] = "call"],
             waiting' = RemoveAt(waiting, i), UNCHANGED free
      PROVE  /\ SemaphoreOK'
             /\ task'[t] = "done"
             /\ \A u \in Tasks \ {t} :
                   task'[u] = task[u] \/ (task[u] = "wait" /\ task'[u] = "call")
  <2> DEFINE h == waiting[i]
  <2>1. h \in Tasks /\ task[h] = "wait" /\ h # t
    BY <1>4 DEF Waits, SemaphoreOK
  <2>2. InFlight' = (InFlight \ {t}) \cup {h} /\ h \notin InFlight \ {t}
    BY <1>4, <2>1 DEF InFlight, SemaphoreOK
  <2>3. Cardinality(InFlight') = Cardinality(InFlight \ {t}) + 1
    BY <2>2, InFlightFinite, FS_RemoveElement, FS_AddElement
  <2>4. free' + Cardinality(InFlight') = Permits
    BY <1>1, <1>2, <1>4, <2>3 DEF SemaphoreOK, PermitsConserved
  <2>5. waiting' \in Seq(Tasks)  BY <1>4, RemoveAtType DEF SemaphoreOK
  <2> QED  BY <1>4, <2>1, <2>4, <2>5 DEF SemaphoreOK, PermitsConserved, TaskPCs
<1> QED  BY <1>3, <1>4 DEF Release

-----------------------------------------------------------------------------
(* A step of one worker leaves the others as they were, except that one of *)
(* their waiters may get the permit it gives back.                         *)

Spared(v) ==
    /\ run'[v] = run[v] /\ bundle'[v] = bundle[v]
    /\ routes'[v] = routes[v] /\ evidence'[v] = evidence[v]
    /\ \A n \in Nodes : \/ task'[<<v, n>>] = task[<<v, n>>]
                        \/ task[<<v, n>>] = "wait" /\ task'[<<v, n>>] = "call"

LEMMA Bystander ==
    ASSUME NEW v \in Workers, WorkerInv(v), Spared(v)
    PROVE  WorkerInv(v)'
<1>1. Quiet(v)'  BY DEF WorkerInv, Quiet, Over, Spared
<1>2. \A n \in Nodes :
         /\ task'[<<v, n>>] = "off" <=> task[<<v, n>>] = "off"
         /\ task'[<<v, n>>] = "done" <=> task[<<v, n>>] = "done"
  BY DEF Spared
<1>3. MODALITIES \subseteq Nodes /\ "router" \in Nodes /\ "report" \in Nodes
  BY DEF Nodes
<1>4. Ordered(v)'  BY <1>2, <1>3 DEF WorkerInv, Ordered, Spared
<1>5. \A m \in MODALITIES : Informed(v, m)' <=> Informed(v, m)
  BY DEF Spared, Informed
<1>6. Concluded(v)'  BY <1>2, <1>3, <1>5 DEF WorkerInv, Concluded, Spared
<1>7. Current(v)'  BY <1>2, <1>3 DEF WorkerInv, Current, Spared
<1>8. Sparing(v)'  BY <1>3 DEF WorkerInv, Sparing, Spared
<1> QED  BY <1>1, <1>4, <1>6, <1>7, <1>8 DEF WorkerInv

(* The obligations that are left for a step of worker w. *)
LEMMA StepOf ==
    ASSUME GraphInv, NEW w \in Workers, SemaphoreOK', RunsOK', WorkerInv(w)',
           \A v \in Workers \ {w} : Spared(v)
    PROVE  GraphInv'
<1>1. \A v \in Workers \ {w} : WorkerInv(v)'  BY Bystander DEF GraphInv
<1>2. \A v \in Workers : WorkerInv(v)'  BY <1>1
<1> QED  BY <1>2 DEF GraphInv, TypeOK, SemaphoreOK, RunsOK, TaskPCs

LEMMA NodesOfTasks ==
    /\ MODALITIES \subseteq Nodes /\ "router" \in Nodes /\ "report" \in Nodes
    /\ \A w \in Workers, n \in Nodes : <<w, n>> \in Tasks
    /\ \A m \in MODALITIES : m # "router" /\ m # "report"
  BY ModalitiesFinite DEF Nodes, Tasks

-----------------------------------------------------------------------------
(* Beginning and ending. *)

(* An attempt begins when no node of the last one is in the semaphore. *)
LEMMA BeginOK ==
    ASSUME GraphInv, NEW w \in Workers, NEW n \in {1, 2}, Begin(w, n),
           \A k \in Nodes : task[<<w, k>>] \in {"off", "done"},
           bundle' \in [Workers -> Bundles \cup {NoBundle}],
           \A v \in Workers \ {w} : bundle'[v] = bundle[v]
    PROVE  GraphInv'
<1>0. SemaphoreOK /\ RunsOK /\ WorkerInv(w)  BY InvParts
<1>1. task' = [t \in Tasks |-> IF t[1] = w THEN "off" ELSE task[t]]  BY DEF Begin
<1>2. SemaphoreOK'
  <2>1. \A t \in Tasks : t[1] = w => task[t] \in {"off", "done"}  BY DEF Tasks
  <2>2. task' \in [Tasks -> TaskPCs]  BY <1>0, <1>1 DEF SemaphoreOK, TaskPCs
  <2>3. \A t \in Tasks : task[t] \in {"call", "stop"} <=> task'[t] \in {"call", "stop"}
    BY <1>1, <2>1
  <2> QED  BY <1>0, <2>2, <2>3, SamePermits DEF Begin
<1>3. RunsOK'  BY <1>0 DEF RunsOK, Begin, NoRoutes, NoEvidence
<1>4. WorkerInv(w)'
  <2>1. \A k \in Nodes : task'[<<w, k>>] = "off"  BY <1>1, NodesOfTasks
  <2>2. run'[w] = "running" /\ evidence'[w] = NoEvidence  BY <1>0 DEF Begin, RunsOK
  <2> QED  BY <2>1, <2>2, NodesOfTasks
           DEF WorkerInv, Sparing, Quiet, Over, Ordered, Concluded, Current, NoEvidence
<1>5. \A v \in Workers \ {w} : Spared(v)
  BY <1>0, <1>1, NodesOfTasks DEF Spared, Begin, RunsOK
<1> QED  BY <1>2, <1>3, <1>4, <1>5, StepOf

LEMMA TakeJobOK ==
    ASSUME GraphInv, NEW w \in Workers, TakeJob(w)
    PROVE  GraphInv'
<1>1. \A k \in Nodes : task[<<w, k>>] \in {"off", "done"}
  BY DEF GraphInv, WorkerInv, Quiet, Over, TakeJob
<1>2. PICK b \in Bundles : bundle' = [bundle EXCEPT ![w] = b]  BY DEF TakeJob
<1>3. /\ bundle' \in [Workers -> Bundles \cup {NoBundle}]
      /\ \A v \in Workers \ {w} : bundle'[v] = bundle[v]
  BY <1>2 DEF GraphInv, TypeOK
<1> QED  BY <1>1, <1>3, BeginOK DEF TakeJob

LEMMA AttemptEndsOK ==
    ASSUME GraphInv, NEW w \in Workers, AttemptEnds(w)
    PROVE  GraphInv'
<1>1. \A k \in Nodes : task[<<w, k>>] \in {"off", "done"}
  <2>1. \A k \in Nodes : <<w, k>> \in TasksOf(w)  BY DEF TasksOf
  <2>2. \A k \in Nodes : task[<<w, k>>] \notin {"wait", "call", "leave", "stop"}
    BY <2>1 DEF GraphInv, WorkerInv, Quiet, AttemptEnds
  <2> QED  BY <2>2, NodesOfTasks DEF GraphInv, TypeOK
<1>2. CASE Again(w) /\ UNCHANGED bundle
  BY <1>1, <1>2, BeginOK DEF Again, GraphInv, TypeOK
<1>3. CASE /\ run' = [run EXCEPT ![w] = "failed"]
           /\ UNCHANGED <<attempt, bundle, routes, evidence, task, free, waiting>>
  <2>0. SemaphoreOK /\ RunsOK /\ WorkerInv(w)  BY InvParts
  <2>1. SemaphoreOK'  BY <1>3, <2>0 DEF SemaphoreOK, PermitsConserved, InFlight
  <2>2. RunsOK'  BY <1>3, <2>0 DEF RunsOK
  <2>3. WorkerInv(w)'
    BY <1>1, <1>3, <2>0, NodesOfTasks
       DEF RunsOK, WorkerInv, Sparing, Quiet, Over, Ordered, Concluded, Current
  <2>4. \A v \in Workers \ {w} : Spared(v)  BY <1>3, <2>0 DEF Spared, RunsOK
  <2> QED  BY <2>1, <2>2, <2>3, <2>4, StepOf
<1> QED  BY <1>2, <1>3 DEF AttemptEnds

(* The cap moves every task of one worker off its await at once. *)
LEMMA TimeoutOK ==
    ASSUME GraphInv, NEW w \in Workers, Timeout(w)
    PROVE  GraphInv'
<1>0. SemaphoreOK /\ RunsOK /\ WorkerInv(w)  BY InvParts
<1>1. \A t \in Tasks : task'[t] = IF t[1] = w THEN Cancelled(task[t]) ELSE task[t]
  BY DEF Timeout
<1>2. SemaphoreOK'
  <2>1. task' \in [Tasks -> TaskPCs]
    BY <1>0 DEF Timeout, Cancelled, SemaphoreOK, TaskPCs
  <2>2. \A t \in Tasks : task[t] \in {"call", "stop"} <=> task'[t] \in {"call", "stop"}
    BY <1>1 DEF Cancelled
  <2> QED  BY <1>0, <2>1, <2>2, SamePermits DEF Timeout
<1>3. RunsOK'  BY <1>0 DEF RunsOK, Timeout
<1>4. WorkerInv(w)'
  <2>1. run'[w] = "ending" /\ evidence' = evidence  BY <1>0 DEF Timeout, RunsOK
  <2>2. \A n \in Nodes : /\ task'[<<w, n>>] \notin {"wait", "call"}
                         /\ task[<<w, n>>] = "done" => task'[<<w, n>>] = "done"
    BY <1>1, NodesOfTasks DEF Cancelled
  <2>3. Sparing(w)' /\ Quiet(w)' /\ Ordered(w)' /\ Concluded(w)'
    BY <2>1, <2>2, NodesOfTasks DEF Sparing, Quiet, Over, Ordered, Concluded
  <2>4. Current(w)'
    BY <1>0, <2>1, <2>2, NodesOfTasks DEF WorkerInv, Current
  <2> QED  BY <2>3, <2>4 DEF WorkerInv
<1>5. \A v \in Workers \ {w} : Spared(v)
  BY <1>0, <1>1, NodesOfTasks DEF Spared, Timeout, RunsOK
<1> QED  BY <1>2, <1>3, <1>4, <1>5, StepOf

-----------------------------------------------------------------------------
(* Steps of one node. *)

(* Node n of worker w goes to one of pcs; a waiter may be served. *)
Moved(w, n, pcs) ==
    /\ SemaphoreOK'
    /\ task'[<<w, n>>] \in pcs
    /\ \A u \in Tasks \ {<<w, n>>} :
          task'[u] = task[u] \/ (task[u] = "wait" /\ task'[u] = "call")

LEMMA AcquireMoves ==
    ASSUME GraphInv, NEW w \in Workers, NEW n \in Nodes,
           task[<<w, n>>] = "off", Acquire(<<w, n>>)
    PROVE  Moved(w, n, {"call", "wait"})
  BY InvParts, NodesOfTasks, AcquireOK DEF Moved

LEMMA ReleaseMoves ==
    ASSUME GraphInv, NEW w \in Workers, NEW n \in Nodes,
           task[<<w, n>>] \in {"call", "stop"}, Release(<<w, n>>, "done")
    PROVE  Moved(w, n, {"done"})
  BY InvParts, NodesOfTasks, ReleaseOK DEF Moved

LEMMA SkipMoves ==
    ASSUME GraphInv, NEW w \in Workers, NEW n \in Nodes,
           task[<<w, n>>] \in {"off", "leave"}, free' = free, waiting' \in Seq(Tasks),
           task' = [task EXCEPT ![<<w, n>>] = "done"]
    PROVE  Moved(w, n, {"done"})
<1>1. SemaphoreOK  BY InvParts
<1>2. task' \in [Tasks -> TaskPCs]  BY <1>1 DEF SemaphoreOK, TaskPCs
<1>3. InFlight' = InFlight  BY <1>1 DEF InFlight, SemaphoreOK
<1>4. SemaphoreOK'  BY <1>1, <1>2, <1>3 DEF SemaphoreOK, PermitsConserved
<1> QED  BY <1>1, <1>4, NodesOfTasks DEF Moved, SemaphoreOK

(* What is left to show when node n of worker w moves. *)
LEMMA NodeStep ==
    ASSUME GraphInv, NEW w \in Workers, NEW n \in Nodes, NEW pcs, Moved(w, n, pcs),
           RunsOK', WorkerInv(w)',
           \A v \in Workers \ {w} :
              /\ run'[v] = run[v] /\ bundle'[v] = bundle[v]
              /\ routes'[v] = routes[v] /\ evidence'[v] = evidence[v]
    PROVE  GraphInv'
<1>1. \A v \in Workers \ {w}, k \in Nodes : <<v, k>> \in Tasks \ {<<w, n>>}
  BY NodesOfTasks
<1>2. \A v \in Workers \ {w} : Spared(v)  BY <1>1 DEF Moved, Spared
<1> QED  BY <1>2, StepOf DEF Moved

(* The other nodes of the same worker. *)
LEMMA Siblings ==
    ASSUME NEW w \in Workers, NEW n \in Nodes, NEW pcs, Moved(w, n, pcs),
           NEW k \in Nodes, k # n
    PROVE  /\ \/ task'[<<w, k>>] = task[<<w, k>>]
              \/ task[<<w, k>>] = "wait" /\ task'[<<w, k>>] = "call"
           /\ task'[<<w, k>>] = "off" <=> task[<<w, k>>] = "off"
           /\ task'[<<w, k>>] = "done" <=> task[<<w, k>>] = "done"
<1>1. <<w, k>> \in Tasks \ {<<w, n>>}  BY NodesOfTasks
<1> QED  BY <1>1 DEF Moved

(* A cancelled node unwinds. *)
LEMMA UnwindOK ==
    ASSUME GraphInv, NEW w \in Workers, NEW t \in TasksOf(w), Leave(t) \/ Stop(t)
    PROVE  GraphInv'
<1>0. SemaphoreOK /\ RunsOK /\ WorkerInv(w)  BY InvParts
<1>1. PICK n \in Nodes : t = <<w, n>>  BY DEF TasksOf
<1>2. task[<<w, n>>] \in {"leave", "stop"} /\ UNCHANGED <<run, attempt, bundle, routes, evidence>>
  BY <1>1 DEF Leave, Stop
<1>3. run[w] = "ending"
  <2>1. ~Over(w) /\ run[w] # "running"
    BY <1>0, <1>2 DEF WorkerInv, Quiet
  <2> QED  BY <1>0, <2>1 DEF RunsOK, Over
<1>4. Moved(w, n, {"done"})
  <2>1. CASE Leave(t)
    <3>1. waiting' \in Seq(Tasks)
      BY <1>0, <2>1, RemoveAtType DEF Leave, SemaphoreOK
    <3> QED  BY <1>1, <1>2, <2>1, <3>1, SkipMoves DEF Leave
  <2>2. CASE Stop(t)  BY <1>1, <1>2, <2>2, ReleaseMoves DEF Stop
  <2> QED  BY <2>1, <2>2
<1>5. WorkerInv(w)'
  <2>1. \A k \in Nodes : /\ task[<<w, k>>] \notin {"wait", "call"}
                         /\ task[<<w, k>>] = "done" <=> (task'[<<w, k>>] = "done" /\ k # n)
    BY <1>0, <1>2, <1>3, <1>4, Siblings DEF WorkerInv, Quiet
  <2>2. \A k \in Nodes : /\ task'[<<w, k>>] \notin {"wait", "call"}
                         /\ task[<<w, k>>] = "done" => task'[<<w, k>>] = "done"
    BY <1>4, <2>1, Siblings DEF Moved
  <2>3. Sparing(w)' /\ Quiet(w)' /\ Ordered(w)' /\ Concluded(w)'
    BY <1>2, <1>3, <2>2, NodesOfTasks DEF Sparing, Quiet, Over, Ordered, Concluded
  <2>4. Current(w)'
    BY <1>0, <1>2, <2>2, NodesOfTasks DEF WorkerInv, Current
  <2> QED  BY <2>3, <2>4 DEF WorkerInv
<1>6. RunsOK'  BY <1>0, <1>2 DEF RunsOK
<1> QED  BY <1>2, <1>4, <1>5, <1>6, NodeStep

(* While the run goes on, a node that moves on keeps it quiet and sparing. *)
LEMMA RunningQuiet ==
    ASSUME GraphInv, NEW w \in Workers, NEW n \in Nodes,
           NEW pcs \in SUBSET {"call", "wait", "done"}, Moved(w, n, pcs),
           run[w] = "running", run'[w] = "running", bundle' = bundle,
           n \in MODALITIES \ bundle[w].items => task'[<<w, n>>] = "done"
    PROVE  Sparing(w)' /\ Quiet(w)'
<1>1. \A k \in Nodes : task[<<w, k>>] \notin {"leave", "stop"}
  BY DEF GraphInv, WorkerInv, Quiet
<1>2. \A k \in Nodes : task'[<<w, k>>] \notin {"leave", "stop"}
  BY <1>1, Siblings DEF Moved
<1>3. \A m \in MODALITIES \ bundle[w].items : task'[<<w, m>>] \notin {"wait", "call"}
  <2> SUFFICES ASSUME NEW m \in MODALITIES \ bundle[w].items
               PROVE  task'[<<w, m>>] \notin {"wait", "call"}
    OBVIOUS
  <2>1. task[<<w, m>>] \notin {"wait", "call"}
    BY DEF GraphInv, WorkerInv, Sparing
  <2> QED  BY <2>1, Siblings, NodesOfTasks
<1> QED  BY <1>2, <1>3 DEF Sparing, Quiet, Over

(* Whatever the router decides, a triggered modality is analysed in depth. *)
LEMMA GuardedDeep ==
    ASSUME NEW b, NEW decision \in [MODALITIES -> Depths]
    PROVE  /\ Guarded(b, decision) \in [MODALITIES -> Depths]
           /\ \A m \in MODALITIES \cap b.triggered : Guarded(b, decision)[m] = "deep"
  BY DEF Guarded, Depths

LEMMA TriggeredType ==
    ASSUME RunsOK, NEW w \in Workers
    PROVE  bundle[w].triggered \subseteq MODALITIES
<1>1. bundle[w] \in Bundles \/ bundle[w] = NoBundle  BY DEF RunsOK
<1>2. CASE bundle[w] = NoBundle  BY <1>2 DEF NoBundle
<1>3. CASE bundle[w] \in Bundles  BY <1>3, BundlesType
<1> QED  BY <1>1, <1>2, <1>3

(* The router is not done, so nothing after it has begun. *)
LEMMA RouterOK ==
    ASSUME GraphInv, NEW w \in Workers, RouterStart(w) \/ RouterAnswer(w)
    PROVE  GraphInv'
<1>0. SemaphoreOK /\ RunsOK /\ WorkerInv(w)  BY InvParts
<1>1. /\ run[w] = "running" /\ task[<<w, "router">>] \in {"off", "call"}
      /\ UNCHANGED <<run, attempt, bundle, evidence>>
  BY DEF RouterStart, RouterAnswer, Starts, Calls
<1>2. \/ Moved(w, "router", {"call", "wait"}) /\ UNCHANGED routes
      \/ /\ Moved(w, "router", {"done"})
         /\ \E decision \in [MODALITIES -> Depths] : Route(w, decision)
  <2>1. CASE RouterAnswer(w)
    BY <2>1, NodesOfTasks, ReleaseMoves DEF RouterAnswer, Calls
  <2>2. CASE Starts(w, "router") /\ Acquire(<<w, "router">>) /\ UNCHANGED routes
    BY <2>2, NodesOfTasks, AcquireMoves DEF Starts
  <2>3. CASE Starts(w, "router") /\ Skip(<<w, "router">>) /\ Route(w, AllDeep)
    <3>1. AllDeep \in [MODALITIES -> Depths]  BY DEF AllDeep, Depths
    <3>2. waiting' \in Seq(Tasks)  BY <1>0, <2>3 DEF Skip, SemaphoreOK
    <3> QED  BY <2>3, <3>1, <3>2, NodesOfTasks, SkipMoves DEF Starts, Skip
  <2> QED  BY <2>1, <2>2, <2>3 DEF RouterStart
<1>3. PICK pcs \in SUBSET {"call", "wait", "done"} : Moved(w, "router", pcs)
  BY <1>2
<1>4. \A m \in MODALITIES : task[<<w, m>>] = "off" /\ evidence[w][m] = "none"
  BY <1>0, <1>1 DEF WorkerInv, Ordered, Current
<1>5. task[<<w, "report">>] = "off"
  BY <1>0, <1>1 DEF WorkerInv, Ordered
<1>6. /\ \A m \in MODALITIES : task'[<<w, m>>] = "off"
      /\ task'[<<w, "report">>] = "off"
  BY <1>3, <1>4, <1>5, NodesOfTasks, Siblings
<1>7. task'[<<w, "router">>] = "done" =>
         /\ routes'[w] \in [MODALITIES -> Depths]
         /\ \A m \in bundle[w].triggered : routes'[w][m] = "deep"
  BY <1>0, <1>2, GuardedDeep, TriggeredType DEF Route, RunsOK, Moved
<1>8. WorkerInv(w)'
  <2>1. Sparing(w)' /\ Quiet(w)'
    BY <1>1, <1>3, NodesOfTasks, RunningQuiet
  <2>2. Ordered(w)' /\ Concluded(w)'  BY <1>1, <1>6, <1>7 DEF Ordered, Concluded
  <2>3. Current(w)'  BY <1>1, <1>4 DEF Current
  <2> QED  BY <2>1, <2>2, <2>3 DEF WorkerInv
<1>9. RunsOK' /\ \A v \in Workers \ {w} : routes'[v] = routes[v]
  <2>1. CASE UNCHANGED routes  BY <1>0, <1>1, <2>1 DEF RunsOK
  <2>2. ASSUME NEW decision \in [MODALITIES -> Depths], Route(w, decision)
        PROVE  RunsOK' /\ \A v \in Workers \ {w} : routes'[v] = routes[v]
    <3>1. Guarded(bundle[w], decision) \in [MODALITIES -> Depths \cup {"none"}]
      BY GuardedDeep
    <3> QED  BY <1>0, <1>1, <2>2, <3>1 DEF RunsOK, Route
  <2> QED  BY <1>2, <2>1, <2>2
<1> QED  BY <1>1, <1>3, <1>8, <1>9, NodesOfTasks, NodeStep

(* Node m concludes, or goes on to its call. *)
LEMMA ModalityOK ==
    ASSUME GraphInv, NEW w \in Workers, NEW m \in MODALITIES,
           ModalityStart(w, m) \/ ModalityAnswer(w, m)
    PROVE  GraphInv'
<1> DEFINE Possible == IF m \in bundle[w].items THEN {routes[w][m], "failed"} ELSE {"nodata"}
<1>0. SemaphoreOK /\ RunsOK /\ WorkerInv(w)  BY InvParts
<1>1. /\ run[w] = "running" /\ task[<<w, m>>] \in {"off", "call"}
      /\ UNCHANGED <<run, attempt, bundle, routes>>
  BY DEF ModalityStart, ModalityAnswer, Starts, Calls
<1>2. task[<<w, "router">>] = "done"
  <2>1. CASE ModalityStart(w, m)  BY <2>1 DEF ModalityStart
  <2>2. CASE ModalityAnswer(w, m)
    BY <1>0, <1>1, <2>2 DEF WorkerInv, Ordered, ModalityAnswer, Calls
  <2> QED  BY <2>1, <2>2
<1>3. /\ routes[w] \in [MODALITIES -> Depths]
      /\ \A k \in bundle[w].triggered : routes[w][k] = "deep"
  BY <1>0, <1>1, <1>2 DEF WorkerInv, Concluded
<1>4. \/ /\ Moved(w, m, {"call", "wait"}) /\ UNCHANGED evidence
         /\ m \in bundle[w].items
      \/ Moved(w, m, {"done"}) /\ \E e \in Possible : Conclude(w, m, e)
  <2>1. CASE ModalityAnswer(w, m)
    <3>1. m \in bundle[w].items
      BY <1>0, <2>1 DEF ModalityAnswer, Calls, WorkerInv, Sparing
    <3>2. Moved(w, m, {"done"})
      BY <2>1, NodesOfTasks, ReleaseMoves DEF ModalityAnswer, Calls
    <3> QED  BY <2>1, <3>1, <3>2 DEF ModalityAnswer
  <2>2. CASE /\ Starts(w, m) /\ Acquire(<<w, m>>) /\ UNCHANGED evidence
             /\ m \in bundle[w].items
    BY <2>2, NodesOfTasks, AcquireMoves DEF Starts
  <2>3. CASE Starts(w, m) /\ Skip(<<w, m>>) /\ \E e \in Possible : Conclude(w, m, e)
    <3>1. waiting' \in Seq(Tasks)  BY <1>0, <2>3 DEF Skip, SemaphoreOK
    <3> QED  BY <2>3, <3>1, NodesOfTasks, SkipMoves DEF Starts, Skip
  <2> QED  BY <2>1, <2>2, <2>3 DEF ModalityStart
<1>5. PICK pcs \in SUBSET {"call", "wait", "done"} : Moved(w, m, pcs)
  BY <1>4
<1>6. /\ evidence' \in [Workers -> [MODALITIES -> Depths \cup {"none", "nodata", "failed"}]]
      /\ \A v \in Workers \ {w} : evidence'[v] = evidence[v]
      /\ \A k \in MODALITIES \ {m} : evidence'[w][k] = evidence[w][k]
  <2>1. CASE UNCHANGED evidence  BY <1>0, <2>1 DEF RunsOK
  <2>2. ASSUME NEW e \in Possible, Conclude(w, m, e)
        PROVE  <1>6!1 /\ <1>6!2 /\ <1>6!3
    <3>1. e \in Depths \cup {"none", "nodata", "failed"}  BY <1>3
    <3> QED  BY <1>0, <2>2, <3>1 DEF Conclude, RunsOK
  <2> QED  BY <1>4, <2>1, <2>2
<1>7. Sparing(w)' /\ Quiet(w)'
  <2>1. m \in MODALITIES \ bundle[w].items => task'[<<w, m>>] = "done"
    BY <1>4 DEF Moved
  <2> QED  BY <1>1, <1>5, <2>1, NodesOfTasks, RunningQuiet
<1>8. /\ task'[<<w, "router">>] = "done" /\ task'[<<w, "report">>] = "off"
      /\ \A k \in MODALITIES \ {m} : task'[<<w, k>>] = "done" <=> task[<<w, k>>] = "done"
  <2>1. task[<<w, "report">>] = "off"
    BY <1>0, <1>1 DEF WorkerInv, Ordered
  <2> QED  BY <1>2, <1>5, <2>1, NodesOfTasks, Siblings
<1>9. /\ task'[<<w, m>>] = "done" => Informed(w, m)'
      /\ evidence'[w][m] # "none" => task'[<<w, m>>] = "done"
  <2>1. CASE Moved(w, m, {"call", "wait"}) /\ UNCHANGED evidence
    <3>1. task'[<<w, m>>] # "done"  BY <2>1 DEF Moved
    <3>2. evidence[w][m] = "none"  BY <1>0, <1>1 DEF WorkerInv, Current
    <3> QED  BY <2>1, <3>1, <3>2
  <2>2. ASSUME Moved(w, m, {"done"}), NEW e \in Possible, Conclude(w, m, e)
        PROVE  Informed(w, m)' /\ task'[<<w, m>>] = "done"
    <3>1. evidence'[w][m] = e  BY <1>0, <2>2 DEF Conclude, RunsOK
    <3>2. task'[<<w, m>>] = "done"  BY <2>2 DEF Moved
    <3>3. Informed(w, m)'  BY <1>1, <1>3, <3>1 DEF Informed
    <3> QED  BY <3>2, <3>3
  <2> QED  BY <1>4, <2>1, <2>2
<1>10. WorkerInv(w)'
  <2>1. Ordered(w)'  BY <1>8 DEF Ordered
  <2>2. \A k \in MODALITIES : task'[<<w, k>>] = "done" => Informed(w, k)'
    <3> SUFFICES ASSUME NEW k \in MODALITIES \ {m}, task'[<<w, k>>] = "done"
                 PROVE  Informed(w, k)'
      BY <1>9
    <3>1. Informed(w, k)  BY <1>0, <1>1, <1>8 DEF WorkerInv, Concluded
    <3> QED  BY <1>1, <1>6, <3>1 DEF Informed
  <2>3. Concluded(w)'  BY <1>1, <1>3, <2>2 DEF Concluded
  <2>4. Current(w)'  BY <1>0, <1>6, <1>8, <1>9 DEF WorkerInv, Current
  <2> QED  BY <1>7, <2>1, <2>3, <2>4 DEF WorkerInv
<1>11. RunsOK'  BY <1>0, <1>1, <1>6 DEF RunsOK
<1> QED  BY <1>1, <1>5, <1>6, <1>10, <1>11, NodesOfTasks, NodeStep

(* The report follows everything else; what it raises ends the attempt. *)
LEMMA ReportOK ==
    ASSUME GraphInv, NEW w \in Workers, ReportStart(w) \/ ReportAnswer(w)
    PROVE  GraphInv'
<1>0. SemaphoreOK /\ RunsOK /\ WorkerInv(w)  BY InvParts
<1>1. /\ run[w] = "running" /\ task[<<w, "report">>] \in {"off", "call"}
      /\ UNCHANGED <<attempt, bundle, routes, evidence>>
  BY DEF ReportStart, ReportAnswer, Starts, Calls
<1>2. \/ Moved(w, "report", {"call", "wait"}) /\ UNCHANGED run
      \/ /\ Moved(w, "report", {"done"})
         /\ \E r \in {"result", "ending"} : run' = [run EXCEPT ![w] = r]
  <2>1. CASE ReportAnswer(w)
    BY <2>1, NodesOfTasks, ReleaseMoves DEF ReportAnswer, Calls
  <2>2. CASE Starts(w, "report") /\ Acquire(<<w, "report">>) /\ UNCHANGED run
    BY <2>2, NodesOfTasks, AcquireMoves DEF Starts
  <2>3. CASE /\ Starts(w, "report") /\ Skip(<<w, "report">>)
             /\ run' = [run EXCEPT ![w] = "ending"]
    <3>1. waiting' \in Seq(Tasks)  BY <1>0, <2>3 DEF Skip, SemaphoreOK
    <3> QED  BY <2>3, <3>1, NodesOfTasks, SkipMoves DEF Starts, Skip
  <2> QED  BY <2>1, <2>2, <2>3 DEF ReportStart
<1>3. PICK pcs \in SUBSET {"call", "wait", "done"} : Moved(w, "report", pcs)
  BY <1>2
<1>4. /\ task[<<w, "router">>] = "done"
      /\ \A m \in MODALITIES : task[<<w, m>>] = "done"
  <2>1. \A m \in MODALITIES : task[<<w, m>>] = "done"
    BY <1>0, <1>1 DEF WorkerInv, Ordered, ReportStart, ReportAnswer, Calls
  <2>2. PICK m \in MODALITIES : TRUE  BY ModalitiesFinite
  <2>3. task[<<w, "router">>] = "done"
    BY <1>0, <1>1, <2>1, <2>2 DEF WorkerInv, Ordered
  <2> QED  BY <2>1, <2>3
<1>5. /\ task'[<<w, "router">>] = "done"
      /\ \A m \in MODALITIES : task'[<<w, m>>] = "done"
  BY <1>3, <1>4, NodesOfTasks, Siblings
<1>6. RunsOK' /\ \A v \in Workers \ {w} : run'[v] = run[v]
  BY <1>0, <1>1, <1>2 DEF RunsOK
<1>7. Sparing(w)' /\ Ordered(w)' /\ Concluded(w)' /\ Current(w)'
  <2>1. Sparing(w)' /\ Ordered(w)' /\ Current(w)'  BY <1>5 DEF Sparing, Ordered, Current
  <2>2. \A m \in MODALITIES : Informed(w, m)'
    BY <1>0, <1>1, <1>4 DEF WorkerInv, Concluded, Informed
  <2>3. Concluded(w)'
    BY <1>0, <1>1, <1>4, <2>2 DEF WorkerInv, Concluded
  <2> QED  BY <2>1, <2>3
<1>8. Quiet(w)'
  <2>1. CASE Moved(w, "report", {"call", "wait"}) /\ UNCHANGED run
    BY <1>1, <2>1, NodesOfTasks, RunningQuiet
  <2>2. ASSUME Moved(w, "report", {"done"}), NEW r \in {"result", "ending"},
               run' = [run EXCEPT ![w] = r]
        PROVE  Quiet(w)'
    <3>1. \A n \in Nodes : task'[<<w, n>>] = "done"  BY <1>5, <2>2 DEF Moved, Nodes
    <3>2. run'[w] # "running"  BY <1>0, <2>2 DEF RunsOK
    <3> QED  BY <3>1, <3>2 DEF Quiet
  <2> QED  BY <1>2, <2>1, <2>2
<1> QED  BY <1>1, <1>3, <1>6, <1>7, <1>8, NodesOfTasks, NodeStep DEF WorkerInv

-----------------------------------------------------------------------------
(* The theorems. *)

LEMMA InitOK == Init => GraphInv
<1> SUFFICES ASSUME Init PROVE GraphInv  OBVIOUS
<1>1. InFlight = {}  BY DEF Init, InFlight
<1>2. PermitsConserved
  BY <1>1, FS_EmptySet, PermitsPositive DEF Init, PermitsConserved
<1>3. TypeOK
  BY PermitsPositive DEF Init, TypeOK, NoBundle, NoRoutes, NoEvidence
<1>4. \A w \in Workers : WorkerInv(w)
  BY NodesOfTasks
     DEF Init, WorkerInv, Sparing, Quiet, Over, Ordered, Concluded, Current, NoEvidence
<1> QED  BY <1>2, <1>3, <1>4 DEF GraphInv

LEMMA NextOK == GraphInv /\ [Next]_vars => GraphInv'
<1> SUFFICES ASSUME GraphInv, [Next]_vars PROVE GraphInv'  OBVIOUS
<1>1. CASE UNCHANGED vars
  <2>1. TypeOK'  BY <1>1 DEF GraphInv, TypeOK, vars
  <2>2. PermitsConserved'  BY <1>1 DEF GraphInv, PermitsConserved, InFlight, vars
  <2>3. \A w \in Workers : Spared(w)  BY <1>1 DEF Spared, vars
  <2>4. \A w \in Workers : WorkerInv(w)'  BY <2>3, Bystander DEF GraphInv
  <2> QED  BY <2>1, <2>2, <2>4 DEF GraphInv
<1>2. ASSUME NEW w \in Workers, TakeJob(w)     PROVE GraphInv'  BY <1>2, TakeJobOK
<1>3. ASSUME NEW w \in Workers, Timeout(w)     PROVE GraphInv'  BY <1>3, TimeoutOK
<1>4. ASSUME NEW w \in Workers, Unwinds(w)     PROVE GraphInv'
  BY <1>4, AttemptEndsOK, UnwindOK DEF Unwinds
<1>5. ASSUME NEW w \in Workers, NodeStarts(w)  PROVE GraphInv'
  BY <1>5, RouterOK, ModalityOK, ReportOK DEF NodeStarts
<1>6. ASSUME NEW w \in Workers, LlmAnswers(w)  PROVE GraphInv'
  BY <1>6, RouterOK, ModalityOK, ReportOK DEF LlmAnswers
<1> QED  BY <1>1, <1>2, <1>3, <1>4, <1>5, <1>6 DEF Next

(* GraphInv is an invariant of the analysis. *)
THEOREM GraphCorrect == Spec => []GraphInv
  BY InitOK, NextOK, PTL DEF Spec

(* The types of the graph's state, among them that the semaphore never has *)
(* fewer than no or more than all of its permits.                          *)
THEOREM GraphTypeCorrect == Spec => []TypeOK
<1>1. GraphInv => TypeOK  BY DEF GraphInv
<1> QED  BY <1>1, GraphCorrect, PTL

(* Whatever fails, is cancelled or crosses, each permit is either free or  *)
(* with one call in flight.                                                *)
THEOREM PermitsCorrect == Spec => []PermitsConserved
<1>1. GraphInv => PermitsConserved  BY DEF GraphInv
<1> QED  BY <1>1, GraphCorrect, PTL

(* So there are never more LLM calls in flight than permits (llm.py line   *)
(* 6): what openai_max_concurrency is for.                                 *)
THEOREM CallsBounded == Spec => [](Cardinality(InFlight) <= Permits)
<1>1. GraphInv => Cardinality(InFlight) <= Permits
  <2> SUFFICES ASSUME GraphInv PROVE Cardinality(InFlight) <= Permits  OBVIOUS
  <2>1. Cardinality(InFlight) \in Nat  BY InFlightFinite
  <2> QED  BY <2>1, PermitsPositive DEF GraphInv, TypeOK, PermitsConserved
<1> QED  BY <1>1, GraphCorrect, PTL

(* The report reads the evidence of every modality, of this attempt, and   *)
(* in depth for the triggered ones.                                        *)
THEOREM ReportCorrect == Spec => []ReportIsInformed
<1>1. GraphInv => ReportIsInformed
  <2> SUFFICES ASSUME GraphInv, NEW w \in Workers,
                      run[w] \in {"running", "result"}, task[<<w, "report">>] # "off",
                      NEW m \in MODALITIES
               PROVE  Informed(w, m)
    BY DEF ReportIsInformed
  <2>1. task[<<w, m>>] = "done"  BY DEF GraphInv, WorkerInv, Ordered
  <2> QED  BY <2>1 DEF GraphInv, WorkerInv, Concluded
<1> QED  BY <1>1, GraphCorrect, PTL

(* A second attempt finds nothing of the first one's evidence. *)
THEOREM EvidenceCorrect == Spec => []EvidenceIsCurrent
<1>1. GraphInv => EvidenceIsCurrent
  BY DEF GraphInv, WorkerInv, Current, EvidenceIsCurrent
<1> QED  BY <1>1, GraphCorrect, PTL

-----------------------------------------------------------------------------
(* The analysis implements RcaRun. *)

AbsRun == [w \in Workers |-> IF run[w] = "ending" THEN "running" ELSE run[w]]

(* Worker w's run becomes r and its attempt n, and nobody else's changes. *)
LEMMA AbstractSet ==
    ASSUME RunsOK, NEW w \in Workers, NEW r, NEW n,
           run' = [run EXCEPT ![w] = r], attempt' = [attempt EXCEPT ![w] = n],
           r # "ending"
    PROVE  Abstract!Set(w, r, n)
<1>1. AbsRun' = [AbsRun EXCEPT ![w] = r]  BY DEF AbsRun, RunsOK
<1> QED  BY <1>1 DEF Abstract!Set, AbsRun

LEMMA AbstractStutter ==
    ASSUME RunsOK, NEW w \in Workers, UNCHANGED attempt,
           \/ UNCHANGED run
           \/ run[w] = "running" /\ run' = [run EXCEPT ![w] = "ending"]
    PROVE  UNCHANGED Abstract!vars
<1>1. AbsRun' = AbsRun  BY DEF AbsRun, RunsOK
<1> QED  BY <1>1 DEF Abstract!vars, AbsRun

LEMMA AbstractStep ==
    ASSUME GraphInv, NEW w \in Workers,
           TakeJob(w) \/ Timeout(w) \/ Unwinds(w) \/ NodeStarts(w) \/ LlmAnswers(w)
    PROVE  [Abstract!Next]_(Abstract!vars)
<1>0. RunsOK  BY InvParts
<1>1. CASE TakeJob(w)
  <2>1. Abstract!Set(w, "running", 1)
    BY <1>0, <1>1, AbstractSet DEF TakeJob, Begin
  <2>2. Abstract!Start(w)  BY <1>1, <2>1 DEF TakeJob, Abstract!Start
  <2> QED  BY <2>2 DEF Abstract!Next
<1>2. CASE Timeout(w)
  BY <1>0, <1>2, AbstractStutter DEF Timeout
<1>3. CASE AttemptEnds(w)
  <2>1. CASE Again(w)
    <3>1. Abstract!Set(w, "running", 2)
      BY <1>0, <2>1, AbstractSet DEF Again, Begin
    <3>2. Abstract!Retry(w)
      BY <1>3, <2>1, <3>1 DEF AttemptEnds, Again, Abstract!Retry
    <3> QED  BY <3>2 DEF Abstract!Next, Abstract!Goes
  <2>2. CASE attempt[w] = 2 /\ run' = [run EXCEPT ![w] = "failed"] /\ UNCHANGED attempt
    <3>1. attempt' = [attempt EXCEPT ![w] = 2]  BY <1>0, <2>2 DEF RunsOK
    <3>2. Abstract!Set(w, "failed", 2)  BY <1>0, <2>2, <3>1, AbstractSet
    <3>3. Abstract!Fail(w)  BY <1>3, <2>2, <3>2 DEF AttemptEnds, Abstract!Fail
    <3> QED  BY <3>3 DEF Abstract!Next, Abstract!Goes
  <2> QED  BY <1>3, <2>1, <2>2 DEF AttemptEnds
<1>4. CASE \E t \in TasksOf(w) : Leave(t) \/ Stop(t)
  BY <1>0, <1>4, AbstractStutter DEF Leave, Stop
<1>5. CASE \/ RouterStart(w) \/ RouterAnswer(w)
           \/ \E m \in MODALITIES : ModalityStart(w, m) \/ ModalityAnswer(w, m)
  BY <1>0, <1>5, AbstractStutter
     DEF RouterStart, RouterAnswer, ModalityStart, ModalityAnswer
<1>6. CASE ReportStart(w)
  BY <1>0, <1>6, AbstractStutter DEF ReportStart, Starts
<1>7. CASE ReportAnswer(w)
  <2>1. CASE run' = [run EXCEPT ![w] = "ending"]
    BY <1>0, <1>7, <2>1, AbstractStutter DEF ReportAnswer, Calls
  <2>2. CASE run' = [run EXCEPT ![w] = "result"]
    <3>0. PICK n : n = attempt[w]  OBVIOUS
    <3>1. attempt' = [attempt EXCEPT ![w] = n]
      BY <1>0, <1>7, <3>0 DEF RunsOK, ReportAnswer
    <3>2. Abstract!Set(w, "result", n)  BY <1>0, <2>2, <3>1, AbstractSet
    <3>3. Abstract!Succeed(w)
      BY <1>7, <3>0, <3>2 DEF ReportAnswer, Calls, Abstract!Succeed, Abstract!Set
    <3> QED  BY <3>3 DEF Abstract!Next, Abstract!Goes
  <2> QED  BY <1>7, <2>1, <2>2 DEF ReportAnswer
<1> QED  BY <1>1, <1>2, <1>3, <1>4, <1>5, <1>6, <1>7 DEF Unwinds, NodeStarts, LlmAnswers

(* An analysis is tried at most twice, succeeds in either attempt and      *)
(* fails only in the second: the promise the job queue builds on.          *)
THEOREM GraphImplementsRun == Spec => RunSpec
<1>1. Init => Abstract!Init  BY DEF Init, Abstract!Init
<1>2. GraphInv /\ [Next]_vars => [Abstract!Next]_(Abstract!vars)
  <2>1. CASE UNCHANGED vars  BY <2>1 DEF vars, Abstract!vars
  <2>2. ASSUME GraphInv, Next PROVE [Abstract!Next]_(Abstract!vars)
    BY <2>2, AbstractStep DEF Next
  <2> QED  BY <2>1, <2>2
<1> QED  BY <1>1, <1>2, GraphCorrect, PTL DEF Spec, RunSpec, Abstract!Spec

-----------------------------------------------------------------------------
(* No waiter of the semaphore is forgotten. *)

InLine(t) == \E i \in DOMAIN waiting : waiting[i] = t

(* What the semaphore does to its queue in a step. *)

(* A step that leaves the semaphore alone; a waiter may be cancelled. *)
LEMMA SameQueue ==
    ASSUME NoLostWakeup, UNCHANGED <<free, waiting>>,
           \A t \in Tasks :
              /\ task[t] \in {"wait", "leave"} <=> task'[t] \in {"wait", "leave"}
              /\ task'[t] = "wait" => task[t] = "wait"
    PROVE  NoLostWakeup'
  BY DEF NoLostWakeup

(* A new waiter is in line once, behind the others. *)
LEMMA AcquireWakes ==
    ASSUME SemaphoreOK, NoLostWakeup, NEW t \in Tasks, task[t] = "off", Acquire(t)
    PROVE  NoLostWakeup'
<1>1. CASE free > 0 /\ ~\E i \in DOMAIN waiting : Waits(i)
  <2>1. task' = [task EXCEPT ![t] = "call"] /\ waiting' = waiting
    BY <1>1 DEF Acquire
  <2>2. \A u \in Tasks : task'[u] # "wait"
    BY <1>1, <2>1 DEF SemaphoreOK, NoLostWakeup, Waits
  <2>3. \A u \in Tasks : task[u] \in {"wait", "leave"} <=> task'[u] \in {"wait", "leave"}
    BY <2>1 DEF SemaphoreOK
  <2> QED  BY <2>1, <2>2, <2>3 DEF NoLostWakeup
<1>2. CASE ~(free > 0 /\ ~\E i \in DOMAIN waiting : Waits(i))
  <2>1. /\ task' = [task EXCEPT ![t] = "wait"]
        /\ waiting' = Append(waiting, t)
        /\ free' = free
    BY <1>2 DEF Acquire
  <2>2. free = 0
    BY <1>2, PermitsPositive DEF SemaphoreOK, NoLostWakeup, Waits
  <2>3. ~InLine(t)  BY DEF NoLostWakeup, InLine
  <2>4. /\ Len(waiting) \in Nat /\ DOMAIN waiting = 1..Len(waiting)
        /\ DOMAIN waiting' = 1..(Len(waiting) + 1)
        /\ waiting'[Len(waiting) + 1] = t
        /\ \A i \in DOMAIN waiting : waiting'[i] = waiting[i]
    BY <2>1 DEF SemaphoreOK
  <2>5. \A u \in Tasks : (\E i \in DOMAIN waiting' : waiting'[i] = u) <=> u = t \/ InLine(u)
    BY <2>4 DEF InLine
  <2>6. \A u \in Tasks : task'[u] \in {"wait", "leave"} <=> u = t \/ InLine(u)
    BY <2>1 DEF SemaphoreOK, NoLostWakeup, InLine
  <2>7. \A i, k \in DOMAIN waiting' : waiting'[i] = waiting'[k] => i = k
    BY <2>3, <2>4 DEF NoLostWakeup, InLine
  <2> QED  BY <2>1, <2>2, <2>5, <2>6, <2>7 DEF NoLostWakeup
<1> QED  BY <1>1, <1>2

(* Who is taken out of the queue is no longer in it, and everybody else    *)
(* still is, once.                                                         *)
LEMMA RemovedFromQueue ==
    ASSUME waiting \in Seq(Tasks), NEW i \in DOMAIN waiting,
           \A k, l \in DOMAIN waiting : waiting[k] = waiting[l] => k = l,
           waiting' = RemoveAt(waiting, i)
    PROVE  /\ \A u \in Tasks : (\E k \in DOMAIN waiting' : waiting'[k] = u)
                                  <=> u # waiting[i] /\ InLine(u)
           /\ \A k, l \in DOMAIN waiting' : waiting'[k] = waiting'[l] => k = l
<1> DEFINE n == Len(waiting)
           old(k) == IF k < i THEN k ELSE k + 1
<1>1. n \in Nat /\ DOMAIN waiting = 1..n /\ i \in 1..n  OBVIOUS
<1>2. /\ DOMAIN waiting' = 1..(n - 1)
      /\ \A k \in 1..(n - 1) : waiting'[k] = waiting[old(k)]
  <2> DEFINE a == SubSeq(waiting, 1, i - 1)
             b == SubSeq(waiting, i + 1, n)
  <2>1. /\ a \in Seq(Tasks) /\ Len(a) = i - 1
        /\ \A k \in 1..(i - 1) : a[k] = waiting[k]
    BY <1>1
  <2>2. /\ b \in Seq(Tasks) /\ Len(b) = n - i
        /\ \A k \in 1..(n - i) : b[k] = waiting[i + k]
    BY <1>1
  <2>3. waiting' = a \o b  BY DEF RemoveAt
  <2> HIDE DEF n, a, b
  <2>4. /\ a \o b \in Seq(Tasks) /\ Len(a \o b) = n - 1
        /\ \A k \in 1..(n - 1) :
              (a \o b)[k] = IF k < i THEN a[k] ELSE b[k - (i - 1)]
    <3>1. /\ a \o b \in Seq(Tasks) /\ Len(a \o b) = Len(a) + Len(b)
          /\ \A k \in 1..(Len(a) + Len(b)) :
                (a \o b)[k] = IF k <= Len(a) THEN a[k] ELSE b[k - Len(a)]
      <4>1. a \in Seq(Tasks) /\ b \in Seq(Tasks)  BY <2>1, <2>2
      <4> QED  BY ONLY <4>1, ConcatProperties, Zenon
    <3>2. Len(a) + Len(b) = n - 1 /\ \A k \in Nat : k <= Len(a) <=> k < i
      BY <1>1, <2>1, <2>2
    <3> QED  BY <2>1, <3>1, <3>2
  <2>5. ASSUME NEW k \in 1..(n - 1) PROVE (a \o b)[k] = waiting[old(k)]
    <3>1. CASE k < i  BY <1>1, <2>1, <2>4, <3>1
    <3>2. CASE ~(k < i)
      <4>1. k - (i - 1) \in 1..(n - i) /\ i + (k - (i - 1)) = k + 1  BY <1>1, <3>2
      <4> QED  BY <2>2, <2>4, <3>2, <4>1
    <3> QED  BY <3>1, <3>2
  <2>6. DOMAIN (a \o b) = 1..(n - 1)  BY <2>4
  <2> HIDE DEF old
  <2> QED  BY <2>3, <2>5, <2>6
<1>3. \A k \in 1..(n - 1) : old(k) \in 1..n /\ old(k) # i
  BY <1>1
<1>4. \A j \in 1..n : j # i => \E k \in 1..(n - 1) : old(k) = j
  <2> SUFFICES ASSUME NEW j \in 1..n, j # i PROVE \E k \in 1..(n - 1) : old(k) = j
    OBVIOUS
  <2>1. CASE j < i
    <3>1. j \in 1..(n - 1) /\ old(j) = j  BY <1>1, <2>1
    <3> QED  BY <3>1
  <2>2. CASE j > i
    <3>1. j - 1 \in 1..(n - 1) /\ old(j - 1) = j  BY <1>1, <2>2
    <3> QED  BY <3>1
  <2> QED  BY <1>1, <2>1, <2>2
<1>5. ASSUME NEW u \in Tasks
      PROVE  (\E k \in DOMAIN waiting' : waiting'[k] = u) <=> u # waiting[i] /\ InLine(u)
  <2> HIDE DEF old
  <2>1. ASSUME NEW k \in DOMAIN waiting', waiting'[k] = u
        PROVE  u # waiting[i] /\ InLine(u)
    BY <1>1, <1>2, <1>3, <2>1 DEF InLine
  <2>2. ASSUME u # waiting[i], NEW j \in DOMAIN waiting, waiting[j] = u
        PROVE  \E k \in DOMAIN waiting' : waiting'[k] = u
    BY <1>1, <1>2, <1>4, <2>2
  <2> QED  BY <2>1, <2>2 DEF InLine
<1>6. \A k, l \in 1..(n - 1) : old(k) = old(l) => k = l
  BY <1>1
<1>7. \A k, l \in DOMAIN waiting' : waiting'[k] = waiting'[l] => k = l
  <2> HIDE DEF old
  <2> QED  BY <1>1, <1>2, <1>3, <1>6
<1> QED  BY <1>5, <1>7

(* A permit becomes free only when nobody waits for it. *)
LEMMA ReleaseWakes ==
    ASSUME SemaphoreOK, NoLostWakeup, NEW t \in Tasks, task[t] \in {"call", "stop"},
           Release(t, "done")
    PROVE  NoLostWakeup'
<1>1. CASE /\ ~\E i \in DOMAIN waiting : Waits(i)
           /\ task' = [task EXCEPT ![t] = "done"]
           /\ UNCHANGED waiting
  <2>1. \A u \in Tasks : task'[u] # "wait"
    BY <1>1 DEF SemaphoreOK, NoLostWakeup, Waits
  <2>2. \A u \in Tasks : task[u] \in {"wait", "leave"} <=> task'[u] \in {"wait", "leave"}
    BY <1>1 DEF SemaphoreOK
  <2> QED  BY <1>1, <2>1, <2>2 DEF NoLostWakeup
<1>2. ASSUME NEW i \in DOMAIN waiting, Waits(i),
             task' = [task EXCEPT ![t] = "done", ![waiting[i]] = "call"],
             waiting' = RemoveAt(waiting, i), UNCHANGED free
      PROVE  NoLostWakeup'
  <2> DEFINE h == waiting[i]
  <2>1. h \in Tasks /\ task[h] = "wait" /\ h # t
    BY <1>2 DEF Waits, SemaphoreOK
  <2>2. /\ task'[h] = "call" /\ task'[t] = "done"
        /\ \A u \in Tasks \ {h, t} : task'[u] = task[u]
    BY <1>2, <2>1 DEF SemaphoreOK
  <2>3. /\ \A u \in Tasks : (\E k \in DOMAIN waiting' : waiting'[k] = u)
                               <=> u # h /\ InLine(u)
        /\ \A k, l \in DOMAIN waiting' : waiting'[k] = waiting'[l] => k = l
    BY <1>2, RemovedFromQueue DEF SemaphoreOK, NoLostWakeup
  <2>4. \A u \in Tasks : task'[u] \in {"wait", "leave"} <=> u # h /\ InLine(u)
    BY <2>1, <2>2 DEF NoLostWakeup, InLine
  <2>5. \A u \in Tasks : task'[u] = "wait" => free' = 0
    BY <1>2, <2>2 DEF NoLostWakeup
  <2> QED  BY <2>3, <2>4, <2>5 DEF NoLostWakeup
<1> QED  BY <1>1, <1>2 DEF Release

(* A cancelled waiter takes itself out and nobody else. *)
LEMMA LeaveWakes ==
    ASSUME SemaphoreOK, NoLostWakeup, NEW t \in Tasks, Leave(t)
    PROVE  NoLostWakeup'
<1>1. PICK i \in DOMAIN waiting : waiting[i] = t /\ waiting' = RemoveAt(waiting, i)
  BY DEF Leave
<1>2. /\ task'[t] = "done" /\ free' = free
      /\ \A u \in Tasks \ {t} : task'[u] = task[u]
  BY DEF Leave, SemaphoreOK
<1>3. /\ \A u \in Tasks : (\E k \in DOMAIN waiting' : waiting'[k] = u)
                             <=> u # t /\ InLine(u)
      /\ \A k, l \in DOMAIN waiting' : waiting'[k] = waiting'[l] => k = l
  BY <1>1, RemovedFromQueue DEF SemaphoreOK, NoLostWakeup
<1>4. \A u \in Tasks : task'[u] \in {"wait", "leave"} <=> u # t /\ InLine(u)
  BY <1>2 DEF NoLostWakeup, InLine
<1>5. \A u \in Tasks : task'[u] = "wait" => free' = 0
  BY <1>2 DEF NoLostWakeup
<1> QED  BY <1>3, <1>4, <1>5 DEF NoLostWakeup

-----------------------------------------------------------------------------
(* The steps of the analysis. *)

LEMMA SkipWakes ==
    ASSUME SemaphoreOK, NoLostWakeup, NEW t \in Tasks, task[t] = "off", Skip(t)
    PROVE  NoLostWakeup'
<1>1. \A u \in Tasks : task'[u] = IF u = t THEN "done" ELSE task[u]
  BY DEF Skip, SemaphoreOK
<1> QED  BY <1>1, SameQueue DEF Skip

(* A node starts, and asks for a permit or not, or gives back its own. *)
LEMMA NodeWakes ==
    ASSUME GraphInv, NoLostWakeup, NEW w \in Workers, NodeStarts(w) \/ LlmAnswers(w)
    PROVE  NoLostWakeup'
<1>1. \E n \in Nodes :
         \/ task[<<w, n>>] = "off" /\ (Acquire(<<w, n>>) \/ Skip(<<w, n>>))
         \/ task[<<w, n>>] = "call" /\ Release(<<w, n>>, "done")
  <2>1. CASE NodeStarts(w)
    BY <2>1, NodesOfTasks
       DEF NodeStarts, RouterStart, ReportStart, ModalityStart, Starts
  <2>2. CASE LlmAnswers(w)
    BY <2>2, NodesOfTasks
       DEF LlmAnswers, RouterAnswer, ReportAnswer, ModalityAnswer, Calls
  <2> QED  BY <2>1, <2>2
<1> QED  BY <1>1, InvParts, NodesOfTasks, AcquireWakes, SkipWakes, ReleaseWakes

(* An attempt begins when none of the worker's nodes is in line. *)
LEMMA BeginWakes ==
    ASSUME NoLostWakeup, NEW w \in Workers, NEW n, Begin(w, n),
           \A k \in Nodes : task[<<w, k>>] \notin {"wait", "leave"}
    PROVE  NoLostWakeup'
<1>1. \A t \in Tasks : t[1] = w => task[t] \notin {"wait", "leave"}  BY DEF Tasks
<1>2. \A t \in Tasks : task'[t] = IF t[1] = w THEN "off" ELSE task[t]  BY DEF Begin
<1> QED  BY <1>1, <1>2, SameQueue DEF Begin

LEMMA TakeJobWakes ==
    ASSUME GraphInv, NoLostWakeup, NEW w \in Workers, TakeJob(w)
    PROVE  NoLostWakeup'
<1>1. \A k \in Nodes : task[<<w, k>>] \notin {"wait", "leave"}
  BY DEF GraphInv, WorkerInv, Quiet, Over, TakeJob
<1> QED  BY <1>1, BeginWakes DEF TakeJob

LEMMA TimeoutWakes ==
    ASSUME NoLostWakeup, NEW w \in Workers, Timeout(w)
    PROVE  NoLostWakeup'
<1>1. \A t \in Tasks : task'[t] = IF t[1] = w THEN Cancelled(task[t]) ELSE task[t]
  BY DEF Timeout
<1> QED  BY <1>1, SameQueue DEF Timeout, Cancelled

LEMMA UnwindsWakes ==
    ASSUME GraphInv, NoLostWakeup, NEW w \in Workers, Unwinds(w)
    PROVE  NoLostWakeup'
<1>0. SemaphoreOK  BY InvParts
<1>1. CASE \E t \in TasksOf(w) : Leave(t) \/ Stop(t)
  <2>1. TasksOf(w) \subseteq Tasks  BY DEF TasksOf, Tasks
  <2> QED  BY <1>0, <1>1, <2>1, LeaveWakes, ReleaseWakes DEF Stop
<1>2. CASE AttemptEnds(w)
  <2>1. \A k \in Nodes : task[<<w, k>>] \notin {"wait", "leave"}
    BY <1>2 DEF GraphInv, WorkerInv, Quiet, AttemptEnds, TasksOf
  <2>2. CASE Again(w)  BY <2>1, <2>2, BeginWakes DEF Again
  <2>3. CASE UNCHANGED <<task, free, waiting>>  BY <2>3, SameQueue
  <2> QED  BY <1>2, <2>2, <2>3 DEF AttemptEnds
<1> QED  BY <1>1, <1>2 DEF Unwinds

(* However the cancellations of one worker and the releases of another     *)
(* cross, who waits is in line once and nobody waits beside a free permit: *)
(* what `async with llm_limit()` relies on, and why the analyses end       *)
(* without the cap.                                                        *)
THEOREM WakeupsCorrect == Spec => []NoLostWakeup
<1>1. Init => NoLostWakeup  BY DEF Init, NoLostWakeup
<1>2. GraphInv /\ NoLostWakeup /\ [Next]_vars => NoLostWakeup'
  <2> SUFFICES ASSUME GraphInv, NoLostWakeup, [Next]_vars PROVE NoLostWakeup'
    OBVIOUS
  <2>1. CASE UNCHANGED vars  BY <2>1, SameQueue DEF vars
  <2>2. ASSUME NEW w \in Workers, TakeJob(w) PROVE NoLostWakeup'  BY <2>2, TakeJobWakes
  <2>3. ASSUME NEW w \in Workers, Timeout(w) PROVE NoLostWakeup'  BY <2>3, TimeoutWakes
  <2>4. ASSUME NEW w \in Workers, Unwinds(w) PROVE NoLostWakeup'  BY <2>4, UnwindsWakes
  <2>5. ASSUME NEW w \in Workers, NodeStarts(w) \/ LlmAnswers(w)
        PROVE  NoLostWakeup'
    BY <2>5, NodeWakes
  <2> QED  BY <2>1, <2>2, <2>3, <2>4, <2>5 DEF Next
<1> QED  BY <1>1, <1>2, GraphCorrect, PTL DEF Spec
=============================================================================
