----------------------------- MODULE JobCleaner -----------------------------
(***************************************************************************)
(* JobCleaner (app/services/job_cleanup.py) and the file sweep of          *)
(* bundle_store.py: purges expired terminal rows, then the old files no    *)
(* unfinished job uses.                                                    *)
(***************************************************************************)
EXTENDS Pipeline

(* Mutant of Expired: the age decides alone. *)
Expired_AnyStatus == due

Expired == {j \in due : status[j] \in TERMINAL_STATUSES}

(* purge_once: one DELETE of the terminal rows past the retention time. *)
CleanerPurge ==
    /\ phase = "serving"
    /\ cleaner.pc = "purge"
    /\ status'   = [j \in Jobs |-> IF j \in Expired THEN "absent" ELSE status[j]]
    /\ requeue'  = [j \in Jobs |-> IF j \in Expired THEN 0 ELSE requeue[j]]
    /\ analysed' = analysed \ Expired
    /\ due'      = due \ Expired
    /\ cleaner'  = [cleaner EXCEPT !.pc = "filesInUse"]
    /\ UNCHANGED <<file, spring, phase, queue, ingest, workerVars, reaper, reconciler,
                   starts, faults>>

(* Mutant of InUse: an active status is forgotten. *)
InUse_NotDelivering == {j \in Jobs : status[j] \in {"PENDING", "RUNNING"}}

(* files_in_use: the files of the rows whose status is active. *)
InUse == {j \in Jobs : status[j] \in ACTIVE_STATUSES}

CleanerFilesInUse ==
    /\ cleaner.pc = "filesInUse"
    /\ cleaner' = [pc |-> "sweep", keep |-> InUse]
    /\ UNCHANGED <<rowVars, file, spring, phase, queue, ingest, workerVars, reaper,
                   reconciler, starts, faults>>

(* _sweep_sync, in a thread: unlink what is old and not kept.  An OSError  *)
(* on a file leaves it to the next pass, which is as if it were not yet    *)
(* old.                                                                    *)
CleanerSweep ==
    /\ cleaner.pc = "sweep"
    /\ file' = [j \in Jobs |-> IF file[j] = "old" /\ j \notin cleaner.keep THEN "none"
                               ELSE file[j]]
    /\ cleaner' = CleanerIdle
    /\ UNCHANGED <<rowVars, spring, phase, queue, ingest, workerVars, reaper, reconciler,
                   starts, faults>>

(* A failed query ends the pass (_loop catches it). *)
CleanerFails ==
    /\ cleaner.pc = "filesInUse"
    /\ Fault
    /\ cleaner' = CleanerIdle
    /\ UNCHANGED <<rowVars, file, spring, phase, queue, ingest, workerVars, reaper,
                   reconciler, starts>>

Cleaner == CleanerPurge \/ CleanerFilesInUse \/ CleanerSweep \/ CleanerFails

=============================================================================
