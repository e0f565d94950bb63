--------------------------- MODULE StuckJobReaper ---------------------------
(***************************************************************************)
(* StuckJobReaper (app/services/stuck_job_reaper.py): recovers jobs left   *)
(* RUNNING, once at start-up (phase "starting", without a cutoff and after *)
(* re-queueing PENDING jobs) and then periodically (phase "serving").      *)
(***************************************************************************)
EXTENDS JobQueue

(* The call returns or raises.  lifespan logs an exception of              *)
(* recover_on_startup and goes on to serve; _loop logs one and sleeps.     *)
ReaperReturn ==
    /\ reaper' = ReaperIdle
    /\ phase' = IF phase = "starting" THEN "serving" ELSE phase

(* Mutant of Pending: the cutoff of the RUNNING rows is applied to them. *)
Pending_Cutoff == {j \in Jobs : status[j] = "PENDING" /\ j \in due}

Pending == {j \in Jobs : status[j] = "PENDING"}

(* _requeue_pending: SELECT the ids, then enqueue them without suspending. *)
ReaperSelectPending ==
    /\ reaper.pc = "selectPending"
    /\ \/ /\ reaper' = [reaper EXCEPT !.pc = "enqueuePending", !.enq = Pending]
          /\ UNCHANGED <<phase, faults>>
       \/ Fault /\ ReaperReturn
    /\ UNCHANGED <<rowVars, file, spring, queue, ingest, workerVars, reconciler, cleaner, starts>>

ReaperEnqueuePending ==
    /\ reaper.pc = "enqueuePending"
    /\ \E s \in SetToSeqs(reaper.enq) : Enqueue(s)
    /\ reaper' = [reaper EXCEPT !.pc = "selectRunning", !.enq = {}]
    /\ UNCHANGED <<rowVars, file, spring, phase, ingest, workerVars, reconciler, cleaner,
                   starts, faults>>

(* _recover_running: SELECT the RUNNING rows, with the cutoff unless at    *)
(* start-up.  A periodic pass that selects nothing, or fails here, changes *)
(* nothing.  Mutants of Stuck: no cutoff; exhausted jobs left alone; all   *)
(* unfinished jobs.                                                        *)
Stuck_NoCutoff == {j \in Jobs : status[j] = "RUNNING"}

Stuck_Retryable ==
    {j \in Jobs : /\ status[j] = "RUNNING" /\ (phase = "serving" => j \in due)
                  /\ requeue[j] < MaxRequeue}

Stuck_AllUnfinished ==
    {j \in Jobs : status[j] \in {"PENDING", "RUNNING"} /\ (phase = "serving" => j \in due)}

Stuck == {j \in Jobs : status[j] = "RUNNING" /\ (phase = "serving" => j \in due)}

ReaperSelectRunning ==
    /\ \/ reaper.pc = "selectRunning"
       \/ phase = "serving" /\ reaper.pc = "sleep" /\ Stuck # {}
    /\ \/ /\ Stuck # {}
          /\ reaper' = [reaper EXCEPT !.pc = "commit", !.take = Stuck]
          /\ UNCHANGED <<phase, faults>>
       \/ Stuck = {} /\ ReaperReturn /\ UNCHANGED faults
       \/ reaper.pc = "selectRunning" /\ Fault /\ ReaperReturn
    /\ UNCHANGED <<rowVars, file, spring, queue, ingest, workerVars, reconciler, cleaner, starts>>

(* Back to PENDING while requeue_count allows it, FAILED otherwise; one    *)
(* transaction for all selected rows.  Mutant of Again: an off-by-one.     *)
Again_OffByOne == {j \in reaper.take : requeue[j] <= MaxRequeue}

Again == {j \in reaper.take : requeue[j] < MaxRequeue}

Reclaim ==
    /\ status' = [j \in Jobs |-> CASE j \in Again       -> "PENDING"
                                   [] j \in reaper.take \ Again -> "FAILED"
                                   [] OTHER             -> status[j]]
    /\ requeue' = [j \in Jobs |-> IF j \in Again THEN requeue[j] + 1 ELSE requeue[j]]
    /\ due' = due \ reaper.take
    /\ UNCHANGED analysed

ReaperCommit ==
    /\ reaper.pc = "commit"
    /\ \/ /\ Reclaim
          /\ reaper' = [reaper EXCEPT !.pc = "enqueue", !.take = {},
                                      !.enq = Again, !.fail = reaper.take \ Again]
          /\ UNCHANGED <<phase, faults>>
       \/ /\ Fault
          /\ Reclaim \/ UNCHANGED rowVars
          /\ ReaperReturn
    /\ UNCHANGED <<file, spring, queue, ingest, workerVars, reconciler, cleaner, starts>>

(* After the commit: enqueue what is to run again, then one by one tell    *)
(* Spring of a failed job (best effort) and discard its file.              *)
ReaperEnqueue ==
    /\ reaper.pc = "enqueue"
    /\ \E s \in SetToSeqs(reaper.enq) : Enqueue(s)
    /\ IF reaper.fail = {} THEN ReaperReturn
       ELSE reaper' = [reaper EXCEPT !.pc = "notify", !.enq = {}] /\ UNCHANGED phase
    /\ UNCHANGED <<rowVars, file, spring, ingest, workerVars, reconciler, cleaner,
                   starts, faults>>

ReaperNotify ==
    /\ reaper.pc = "notify"
    /\ \E j \in reaper.fail : \E a \in Meets(j, file[j] # "none") :
          /\ Store(j, "failure", a)
          /\ reaper' = [reaper EXCEPT !.pc = "discard", !.cur = j]
    /\ UNCHANGED <<rowVars, file, phase, queue, ingest, workerVars, reconciler, cleaner,
                   starts, faults>>

ReaperDiscard ==
    LET left == reaper.fail \ {reaper.cur} IN
    /\ reaper.pc = "discard"
    /\ DiscardFile(reaper.cur)
    /\ IF left = {} THEN ReaperReturn
       ELSE /\ reaper' = [reaper EXCEPT !.pc = "notify", !.fail = left, !.cur = NoJob]
            /\ UNCHANGED phase
    /\ UNCHANGED <<rowVars, spring, queue, ingest, workerVars, reconciler, cleaner, starts>>

Reaper ==
    \/ ReaperSelectPending \/ ReaperEnqueuePending \/ ReaperSelectRunning
    \/ ReaperCommit \/ ReaperEnqueue \/ ReaperNotify \/ ReaperDiscard

=============================================================================
