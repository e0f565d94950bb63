----------------------------- MODULE AiBackend -----------------------------
(***************************************************************************)
(* The whole backend: every task of the process on the shared state, the   *)
(* process life cycle of app/main.py (lifespan), crashes, and time.        *)
(***************************************************************************)
EXTENDS StuckJobReaper, DeliveryReconciler, JobCleaner, Ingest

Init ==
    /\ status = [j \in Jobs |-> "absent"]
    /\ analysed = {}
    /\ requeue = [j \in Jobs |-> 0]
    /\ due = {}
    /\ file = [j \in Jobs |-> "none"]
    /\ spring = [k \in Keys |-> NoReport]
    /\ phase = "down"
    /\ queue = <<>>
    /\ ingest = [j \in Jobs |-> "new"]
    /\ wpc = [w \in Workers |-> "get"]
    /\ wjob = [w \in Workers |-> NoJob]
    /\ wread = [w \in Workers |-> "absent"]
    /\ reaper = ReaperIdle
    /\ reconciler = ReconcilerIdle
    /\ cleaner = CleanerIdle
    /\ starts = 0
    /\ faults = 0

-----------------------------------------------------------------------------
(* lifespan: the workers run from job_queue.start() on, while              *)
(* recover_on_startup is still at work; the loops start after it, and      *)
(* requests are served after that.                                         *)
Start ==
    /\ phase = "down"
    /\ starts < MaxStarts
    /\ starts' = starts + 1
    /\ phase' = "starting"
    /\ reaper' = [ReaperIdle EXCEPT !.pc = "selectPending"]
    /\ UNCHANGED <<rowVars, file, spring, queue, ingest, workerVars, reconciler, cleaner, faults>>

(* Shutdown: the server waits for its requests, then lifespan cancels the  *)
(* three loops wherever they are and lets the workers empty the queue.     *)
Stop ==
    /\ phase = "serving"
    /\ starts < MaxStarts
    /\ \A j \in Jobs : ingest[j] \notin InFlight
    /\ phase' = "stopping"
    /\ reaper' = ReaperIdle
    /\ reconciler' = ReconcilerIdle
    /\ cleaner' = CleanerIdle
    /\ UNCHANGED <<rowVars, file, spring, queue, ingest, workerVars, starts, faults>>

(* RcaJobQueue.stop: queue.join() returns when every id taken was done. *)
Exit ==
    /\ phase = "stopping"
    /\ queue = <<>>
    /\ \A w \in Workers : wpc[w] = "get"
    /\ phase' = "down"
    /\ UNCHANGED <<rowVars, file, spring, queue, ingest, workerVars, loopVars, starts, faults>>

(* The process dies: memory is lost, the table and the files stay. *)
Crash ==
    /\ phase # "down"
    /\ starts < MaxStarts
    /\ phase' = "down"
    /\ queue' = <<>>
    /\ ingest' = [j \in Jobs |-> IF ingest[j] \in InFlight THEN "lost" ELSE ingest[j]]
    /\ wpc' = [w \in Workers |-> "get"]
    /\ wjob' = [w \in Workers |-> NoJob]
    /\ wread' = [w \in Workers |-> "absent"]
    /\ reaper' = ReaperIdle
    /\ reconciler' = ReconcilerIdle
    /\ cleaner' = CleanerIdle
    /\ UNCHANGED <<rowVars, file, spring, starts, faults>>

-----------------------------------------------------------------------------
(* Time.  Row j gets past its cutoff: the 30s grace when DELIVERING, the   *)
(* 1500s of stuck_job_after_seconds when RUNNING, the 24h retention when   *)
(* DONE or FAILED.  The time caps of _run_rca (2 x 600s) keep a worker     *)
(* that marked a job RUNNING from holding it for 1500s, and no task holds  *)
(* a finished job for a day.                                               *)
Analysing == {"rca", "commitDelivering", "commitNone", "commitFailed", "commitAgain"}

Held(j) ==
    \/ \E w \in Workers : wjob[w] = j
    \/ j \in reaper.take \cup reaper.fail \cup reconciler.todo

Elapse(j) ==
    /\ j \notin due
    /\ \/ status[j] = "DELIVERING"
       \/ status[j] = "RUNNING" /\ ~\E w \in Workers : wjob[w] = j /\ wpc[w] \in Analysing
       \/ status[j] \in TERMINAL_STATUSES /\ ~Held(j)
    /\ due' = due \cup {j}
    /\ UNCHANGED <<status, analysed, requeue, file, spring, phase, queue, ingest, workerVars,
                   loopVars, starts, faults>>

(* A signal file gets older than bundle_orphan_max_age_hours (24h), longer *)
(* than any request and than a pass of the cleaner.                        *)
FileAges(j) ==
    /\ file[j] = "fresh"
    /\ ingest[j] \notin InFlight
    /\ cleaner.pc # "sweep"
    /\ file' = [file EXCEPT ![j] = "old"]
    /\ UNCHANGED <<rowVars, spring, phase, queue, ingest, workerVars, loopVars, starts, faults>>

-----------------------------------------------------------------------------
Next ==
    \/ Start \/ Stop \/ Exit \/ Crash
    \/ \E w \in Workers : Worker(w)
    \/ Reaper \/ Reconciler \/ Cleaner
    \/ \E j \in Jobs : IngestBundle(j) \/ Elapse(j) \/ FileAges(j)

Spec == Init /\ [][Next]_vars

(* Every task that can run runs, time passes, a stopped process is started *)
(* again, and a job that is sent over and over is eventually answered.     *)
Fairness ==
    /\ WF_vars(Start) /\ WF_vars(Exit)
    /\ \A w \in Workers : WF_vars(Worker(w))
    /\ WF_vars(Reaper) /\ WF_vars(Reconciler) /\ WF_vars(Cleaner)
    /\ \A j \in Jobs : WF_vars(Elapse(j)) /\ WF_vars(ingest[j] \in InFlight /\ IngestBundle(j))
    /\ \A j \in Jobs : SF_vars(ReconcilerPost /\ reconciler'.cur = j)

FairSpec == Spec /\ Fairness

-----------------------------------------------------------------------------
(* Safety, in every run. *)

(* A DELIVERING row has its result (delivery_reconciler.py line 75 counts  *)
(* on it): without one it would never be sent and never end.               *)
DeliveringHasResult == \A j \in Jobs : status[j] = "DELIVERING" => j \in analysed

Stored(j) == spring[TriggerTime[j]] # NoReport

(* A DONE job of the default runner, which always produces a report, has a *)
(* report stored in Spring under its triggerTime, whatever was lost on the *)
(* way: no report is dropped silently.                                     *)
DoneIsReported ==
    \A j \in Jobs : status[j] = "DONE" =>
        Stored(j) \/ "none" \in RcaOutcomes

(* The inductive strengthening of the two: whoever is about to mark a job  *)
(* DONE has seen Spring take a report, and nothing takes it back.          *)
DeliveryInv ==
    /\ DeliveringHasResult
    /\ DoneIsReported
    /\ \A w \in Workers : wpc[w] \in {"readDone", "writeDone"} => Stored(wjob[w])
    /\ \A w \in Workers : wpc[w] = "commitNone" => "none" \in RcaOutcomes
    /\ reconciler.pc \in {"readDone", "writeDone"} => Stored(reconciler.cur)

(* A job waits for its analysis in one place at a time: in the queue, with *)
(* a worker that has not marked it RUNNING yet, on the reaper's list, or   *)
(* about to be enqueued by its request.  Two recoveries (of PENDING and of *)
(* RUNNING rows), the requests and the workers share the line, and the     *)
(* recovery at a start runs while the workers already do.                  *)
Early == {"load", "restore", "commitMissing", "commitRunning"}

Queued(j)   == \E i \in DOMAIN queue : queue[i] = j
Taken(j)    == \E w \in Workers : wpc[w] \in Early /\ wjob[w] = j
Recorded(j) == ingest[j] = "recorded"

QueuedOnce == \A a, b \in DOMAIN queue : queue[a] = queue[b] => a = b

TakenOnce ==
    \A v, w \in Workers :
        wpc[v] \in Early /\ wpc[w] \in Early /\ wjob[v] = wjob[w] => v = w

WaitsOnce ==
    /\ QueuedOnce
    /\ TakenOnce
    /\ \A j \in Jobs :
          /\ Queued(j) => ~Taken(j) /\ j \notin reaper.enq /\ ~Recorded(j)
          /\ Taken(j) => j \notin reaper.enq /\ ~Recorded(j)
          /\ j \in reaper.enq => ~Recorded(j)

-----------------------------------------------------------------------------
(* While one process lives. *)

(* The signal file of an unfinished job exists until its report or its     *)
(* failure reason was sent (bundle_store.py lines 11-13): neither another  *)
(* task's discard nor the sweep of orphans takes it away.                  *)
FileKept ==
    \A j \in Jobs : status[j] \in ACTIVE_STATUSES /\ ingest[j] \notin {"rollback", "rejected"}
                    => file[j] # "none"

(* A job is in one place at a time: once in the queue, or with one worker, *)
(* or about to be enqueued by its request or by the reaper.  A second copy *)
(* would be analysed, and written over the row, a second time.             *)
Copies(j) ==
    Cardinality({i \in DOMAIN queue : queue[i] = j})
    + Cardinality({w \in Workers : wjob[w] = j})
    + (IF j \in reaper.enq THEN 1 ELSE 0)
    + (IF ingest[j] = "recorded" THEN 1 ELSE 0)

AtMostOneCopy == \A j \in Jobs : Copies(j) <= 1

(* The row and Spring agree on a finished job: DONE when Spring holds its  *)
(* report, FAILED only when Spring does not.                               *)
RowAndSpringAgree ==
    \A j \in Jobs :
        LET own == [kind |-> "report", job |-> j] IN
        /\ status[j] = "DONE"   => spring[TriggerTime[j]] = own
        /\ status[j] = "FAILED" => spring[TriggerTime[j]] # own

(* The pipeline implements the life cycle of a job. *)
Lifecycle == INSTANCE JobLifecycle
    WITH reported <- {j \in Jobs : Stored(j)}
LifecycleSpec == Lifecycle!Spec

(* A PENDING job is on its way to a worker: queued, taken by a worker that *)
(* has not marked it yet, or about to be enqueued.  Nothing else would     *)
(* ever look at it before the next start.  (Once an operation has failed   *)
(* the code does leave a PENDING row to that.)                             *)
PendingHasCarrier ==
    phase = "serving" /\ faults = 0 =>
    \A j \in Jobs : status[j] = "PENDING" =>
        Queued(j) \/ Taken(j) \/ j \in reaper.enq \/ Recorded(j)

-----------------------------------------------------------------------------
(* Liveness. *)

(* A RUNNING row whose worker failed to save the outcome does not stay.    *)
RunningEnds == \A j \in Jobs : status[j] = "RUNNING" ~> status[j] # "RUNNING"

(* A report that could not be delivered at first is delivered or refused   *)
(* in the end (delivery_reconciler.py lines 3-5).  A job whose payload     *)
(* cannot be assembled (Unbuildable) refutes that: nothing ever gives up.  *)
DeliveringEnds == \A j \in Jobs : status[j] = "DELIVERING" ~> status[j] # "DELIVERING"

(* A job the collector was given a 201 for ends, over crashes as well.     *)
(* Only a failed operation may leave it PENDING (until the next start).    *)
AcceptedSettles ==
    \A j \in Jobs : ingest[j] = "accepted" ~>
        status[j] \in TERMINAL_STATUSES \cup {"absent"} \/ faults > 0

(* A shutdown that empties the queue comes to its end.                     *)
ShutdownEnds == phase = "stopping" ~> phase = "down"

-----------------------------------------------------------------------------
(* Claims of the source that its code does not keep.                       *)

(* stuck_job_reaper.py lines 18-19: at a restart nobody works on a RUNNING *)
(* job, so recover_on_startup may take them all.                           *)
StartupTakesOrphans ==
    phase = "starting" /\ reaper.pc = "commit" =>
    \A j \in reaper.take, w \in Workers : ~(wjob[w] = j /\ wpc[w] \in Analysing)

=============================================================================
