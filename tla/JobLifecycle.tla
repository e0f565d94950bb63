---------------------------- MODULE JobLifecycle ----------------------------
(***************************************************************************)
(* What the pipeline promises of a job, whoever works on it: the state     *)
(* machine of RcaJobQueue._process with the recovery of StuckJobReaper and *)
(* the retention of JobCleaner.  A terminal status is final until the row  *)
(* is purged, an unfinished job is never purged, a job is put back at most *)
(* MaxRequeue times, and a report is DONE only once Spring has it.         *)
(***************************************************************************)
EXTENDS Naturals

CONSTANTS Jobs, MaxRequeue

VARIABLES
    status,     \* the status of each job, "absent" when there is no row
    requeue,    \* how often the job was put back after it got stuck
    reported    \* the jobs whose incident Spring holds a report of

Init ==
    /\ status = [j \in Jobs |-> "absent"]
    /\ requeue = [j \in Jobs |-> 0]
    /\ reported = {}

(* Job j moves from one status to another, its count unchanged. *)
Moves(j, from, to) ==
    status[j] \in from /\ status'[j] \in to /\ requeue'[j] = requeue[j]

Accept(j)  == Moves(j, {"absent"}, {"PENDING"})
Begin(j)   == Moves(j, {"PENDING"}, {"RUNNING", "FAILED"})
Analyse(j) == Moves(j, {"RUNNING"}, {"DELIVERING", "DONE", "FAILED"})
Deliver(j) == Moves(j, {"DELIVERING"}, {"DONE"}) /\ j \in reported
Refuse(j)  == Moves(j, {"DELIVERING"}, {"FAILED"})
PutBack(j) ==
    /\ status[j] = "RUNNING" /\ status'[j] = "PENDING"
    /\ requeue[j] < MaxRequeue /\ requeue'[j] = requeue[j] + 1
Purge(j) ==
    status[j] \in {"DONE", "FAILED"} /\ status'[j] = "absent" /\ requeue'[j] = 0
Stay(j)    == status'[j] = status[j] /\ requeue'[j] = requeue[j]

(* One commit may move several rows. *)
Next ==
    /\ \A j \in Jobs : \/ Accept(j) \/ Begin(j) \/ Analyse(j) \/ Deliver(j)
                       \/ Refuse(j) \/ PutBack(j) \/ Purge(j) \/ Stay(j)
    /\ reported \subseteq reported'

Spec == Init /\ [][Next]_<<status, requeue, reported>>

=============================================================================
