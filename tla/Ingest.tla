------------------------------- MODULE Ingest -------------------------------
(***************************************************************************)
(* POST /ingest (app/api/ingest.py, ingest_bundle): write the signal file, *)
(* record the job, enqueue it.  When recording fails the file is discarded *)
(* and the collector gets a 503.                                           *)
(***************************************************************************)
EXTENDS JobQueue

IngestGoto(j, pc) == ingest' = [ingest EXCEPT ![j] = pc]

(* split_and_save writes a temporary file and renames it. *)
IngestWrite(j) ==
    /\ phase = "serving"
    /\ ingest[j] = "new"
    /\ \/ /\ file' = [file EXCEPT ![j] = "fresh"]
          /\ IngestGoto(j, "written")
          /\ UNCHANGED faults
       \/ Fault /\ IngestGoto(j, "rejected") /\ UNCHANGED file
    /\ UNCHANGED <<rowVars, spring, phase, queue, workerVars, loopVars, starts>>

(* db.commit and db.refresh: either may raise, the latter (or a COMMIT     *)
(* whose acknowledgement is lost) with the row already committed.          *)
IngestRecord(j) ==
    LET Insert == SetStatus(j, "PENDING") /\ UNCHANGED <<analysed, requeue>> IN
    /\ ingest[j] = "written"
    /\ \/ Insert /\ IngestGoto(j, "recorded") /\ UNCHANGED faults
       \/ Fault /\ IngestGoto(j, "rollback") /\ (Insert \/ UNCHANGED rowVars)
    /\ UNCHANGED <<file, spring, phase, queue, workerVars, loopVars, starts>>

(* db.rollback cannot undo a commit; the file is discarded all the same. *)
IngestRollback(j) ==
    /\ ingest[j] = "rollback"
    /\ DiscardFile(j)
    /\ IngestGoto(j, "rejected")
    /\ UNCHANGED <<rowVars, spring, phase, queue, workerVars, loopVars, starts>>

IngestEnqueue(j) ==
    /\ ingest[j] = "recorded"
    /\ Enqueue(<<j>>)
    /\ IngestGoto(j, "accepted")
    /\ UNCHANGED <<rowVars, file, spring, phase, workerVars, loopVars, starts, faults>>

IngestBundle(j) ==
    IngestWrite(j) \/ IngestRecord(j) \/ IngestRollback(j) \/ IngestEnqueue(j)

=============================================================================
