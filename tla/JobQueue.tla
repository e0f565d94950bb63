------------------------------ MODULE JobQueue ------------------------------
(***************************************************************************)
(* RcaJobQueue (app/services/job_queue.py): workers that take job ids from *)
(* the queue, analyse the bundle, and hand the report to Spring.           *)
(***************************************************************************)
EXTENDS SpringClient

(* The worker goes on to pc; at "get" it has left _process and drops its job. *)
Goto(w, pc) ==
    /\ wpc' = [wpc EXCEPT ![w] = pc]
    /\ wjob' = IF pc = "get" THEN [wjob EXCEPT ![w] = NoJob] ELSE wjob
    /\ wread' = IF pc = "commitRunning" \/ pc = "commitMissing" THEN wread
                ELSE [wread EXCEPT ![w] = "absent"]

Enqueue(s) == queue' = queue \o s

(* Mutant of WorkerGet: the workers stop before queue.join() has returned. *)
WorkerGet_StopsFirst(w) ==
    /\ wpc[w] = "get"
    /\ queue # <<>> /\ phase # "stopping"
    /\ queue' = Tail(queue)
    /\ wjob' = [wjob EXCEPT ![w] = Head(queue)]
    /\ wpc' = [wpc EXCEPT ![w] = "load"]
    /\ UNCHANGED <<rowVars, file, spring, phase, ingest, wread, loopVars, starts, faults>>

(* _worker: job_id = await self._queue.get() *)
WorkerGet(w) ==
    /\ wpc[w] = "get"
    /\ queue # <<>>
    /\ queue' = Tail(queue)
    /\ wjob' = [wjob EXCEPT ![w] = Head(queue)]
    /\ wpc' = [wpc EXCEPT ![w] = "load"]
    /\ UNCHANGED <<rowVars, file, spring, phase, ingest, wread, loopVars, starts, faults>>

(* SELECT the row.  A missing row is skipped; its status is not looked at. *)
WorkerLoad(w) ==
    LET j == wjob[w] IN
    /\ wpc[w] = "load"
    /\ \/ /\ status[j] = "absent"
          /\ Goto(w, "get")
          /\ UNCHANGED faults
       \/ /\ status[j] # "absent"
          /\ wpc' = [wpc EXCEPT ![w] = "restore"]
          /\ wread' = [wread EXCEPT ![w] = status[j]]
          /\ UNCHANGED <<wjob, faults>>
       \/ Fault /\ Goto(w, "get")
    /\ UNCHANGED <<rowVars, file, spring, phase, queue, ingest, loopVars, starts>>

(* restore_bundle: a missing file raises SignalsMissing; any other error   *)
(* (OSError, ValidationError) leaves _process with the row untouched.      *)
WorkerRestore(w) ==
    /\ wpc[w] = "restore"
    /\ \/ /\ Goto(w, IF file[wjob[w]] = "none" THEN "commitMissing" ELSE "commitRunning")
          /\ UNCHANGED faults
       \/ Fault /\ Goto(w, "get")
    /\ UNCHANGED <<rowVars, file, spring, phase, queue, ingest, loopVars, starts>>

(* Mutant of SaveResult: DELIVERING is committed without the result. *)
SaveResult_Skipped(j, new) == UNCHANGED analysed

(* The result column is set along with DELIVERING. *)
SaveResult(j, new) ==
    analysed' = IF new = "DELIVERING" THEN analysed \cup {j} ELSE analysed

(* UPDATE the status from the one the session knows to `new` and COMMIT,   *)
(* going on to `ok`, or to `raised` when it raises: because the row is     *)
(* gone, or because the database failed, before or after it committed.     *)
WorkerCommit(w, read, new, ok, raised) ==
    LET j == wjob[w]
        Apply == /\ CanSave(j, read, new)
                 /\ SaveStatus(j, read, new)
                 /\ SaveResult(j, new)
    IN
    /\ \/ Apply /\ Goto(w, ok) /\ UNCHANGED faults
       \/ /\ ~CanSave(j, read, new)
          /\ Goto(w, raised)
          /\ UNCHANGED <<status, due, analysed, faults>>
       \/ /\ Fault
          /\ Goto(w, raised)
          /\ Apply \/ UNCHANGED <<status, due, analysed>>
    /\ UNCHANGED <<requeue, file, spring, phase, queue, ingest, loopVars, starts>>

(* The file is gone: FAILED with a new error text.  On a row that is FAILED *)
(* already the text may be the only change ("absent" forces the UPDATE), or *)
(* may be the same.                                                        *)
WorkerCommitMissing(w) ==
    /\ wpc[w] = "commitMissing"
    /\ \E read \in {wread[w], "absent"} : WorkerCommit(w, read, "FAILED", "notify", "get")

WorkerCommitRunning(w) ==
    wpc[w] = "commitRunning" /\ WorkerCommit(w, wread[w], "RUNNING", "rca", "get")

(* _run_rca: both attempts, with their time caps and validation; RcaRun is  *)
(* what happens inside.                                                    *)
WorkerRca(w) ==
    /\ wpc[w] = "rca"
    /\ \/ "result" \in RcaOutcomes /\ Goto(w, "commitDelivering")
       \/ "none"   \in RcaOutcomes /\ Goto(w, "commitNone")
       \/ "error"  \in RcaOutcomes /\ Goto(w, "commitFailed")
    /\ UNCHANGED <<rowVars, file, spring, phase, queue, ingest, loopVars, starts, faults>>

(* The commits after the analysis share one try, whose except clause       *)
(* commits FAILED.                                                         *)
WorkerCommitDelivering(w) ==
    wpc[w] = "commitDelivering"
    /\ WorkerCommit(w, "RUNNING", "DELIVERING", "post", "commitAgain")

WorkerCommitNone(w) ==
    wpc[w] = "commitNone" /\ WorkerCommit(w, "RUNNING", "DONE", "discard", "commitAgain")

WorkerCommitFailed(w) ==
    wpc[w] = "commitFailed" /\ WorkerCommit(w, "RUNNING", "FAILED", "notify", "get")

(* The same FAILED commit, reached because a commit raised.  Nothing has   *)
(* rolled the session back, so SQLAlchemy refuses it: it raises again, out *)
(* of _process, and the row stays as it is.                                *)
WorkerCommitAgain(w) ==
    /\ wpc[w] = "commitAgain"
    /\ Goto(w, "get")
    /\ UNCHANGED <<rowVars, file, spring, phase, queue, ingest, loopVars, starts, faults>>

(* _deliver_and_finalize: a transient failure leaves the row DELIVERING    *)
(* and keeps the file for the reconciler.                                  *)
WorkerPost(w) ==
    /\ wpc[w] = "post"
    /\ \E a \in Meets(wjob[w], TRUE) :
          /\ Store(wjob[w], "report", a)
          /\ Goto(w, CASE Verdict(wjob[w], a) = "ok"        -> "readDone"
                       [] Verdict(wjob[w], a) = "permanent" -> "readFailed"
                       [] OTHER                             -> "get")
    /\ UNCHANGED <<rowVars, file, phase, queue, ingest, loopVars, starts, faults>>

(* _mark_done, _mark_failed: SELECT, return unless DELIVERING, then UPDATE *)
(* and COMMIT in a later await.  _deliver_and_finalize returns True either *)
(* way, so the file is discarded also when nothing was marked.             *)
WorkerMarkRead(w) ==
    /\ wpc[w] \in {"readDone", "readFailed"}
    /\ \/ /\ Goto(w, CASE status[wjob[w]] # "DELIVERING" -> "discard"
                       [] wpc[w] = "readDone"            -> "writeDone"
                       [] OTHER                          -> "writeFailed")
          /\ UNCHANGED faults
       \/ Fault /\ Goto(w, "get")
    /\ UNCHANGED <<rowVars, file, spring, phase, queue, ingest, loopVars, starts>>

WorkerMarkWrite(w) ==
    \/ wpc[w] = "writeDone"   /\ WorkerCommit(w, "DELIVERING", "DONE", "discard", "get")
    \/ wpc[w] = "writeFailed" /\ WorkerCommit(w, "DELIVERING", "FAILED", "discard", "get")

(* _deliver_failure: best effort, whatever Spring answers.  Without the     *)
(* file it was SignalsMissing that led here, or the file went since.       *)
WorkerNotify(w) ==
    /\ wpc[w] = "notify"
    /\ \E signals \in {TRUE, file[wjob[w]] # "none"} :
          \E a \in Meets(wjob[w], signals) : Store(wjob[w], "failure", a)
    /\ Goto(w, "discard")
    /\ UNCHANGED <<rowVars, file, phase, queue, ingest, loopVars, starts, faults>>

WorkerDiscard(w) ==
    /\ wpc[w] = "discard"
    /\ DiscardFile(wjob[w])
    /\ Goto(w, "get")
    /\ UNCHANGED <<rowVars, spring, phase, queue, ingest, loopVars, starts>>

Worker(w) ==
    \/ WorkerGet(w) \/ WorkerLoad(w) \/ WorkerRestore(w)
    \/ WorkerCommitMissing(w) \/ WorkerCommitRunning(w) \/ WorkerRca(w)
    \/ WorkerCommitDelivering(w) \/ WorkerCommitNone(w) \/ WorkerCommitFailed(w)
    \/ WorkerCommitAgain(w)
    \/ WorkerPost(w) \/ WorkerMarkRead(w) \/ WorkerMarkWrite(w)
    \/ WorkerNotify(w) \/ WorkerDiscard(w)

=============================================================================
