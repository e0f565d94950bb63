------------------------------ MODULE Pipeline ------------------------------
(***************************************************************************)
(* The state the components of the AI backend share: the `ingest_job`      *)
(* table, the signal files, the in-memory queue, and the reports Spring    *)
(* holds; with the local state of every asyncio task that works on them.   *)
(*                                                                         *)
(* The backend is one process with one event loop.  A step of a task runs  *)
(* from one await to the next and is atomic; a SELECT, a COMMIT, a file    *)
(* operation or a POST takes effect at one instant inside its await, so    *)
(* each of them is one action and everything else may run in between.      *)
(***************************************************************************)
EXTENDS Naturals, Sequences, FiniteSets, SequencesExt

CONSTANTS
    Jobs,          \* ids of ingest_job rows; one POST /ingest creates each
    Workers,       \* RcaJobQueue worker tasks (rca_worker_concurrency)
    Keys,          \* triggerTime values, Spring's UNIQUE idempotency key
    TriggerTime,   \* the triggerTime of the bundle of each job
    BadPayload,    \* jobs whose payload Spring refuses with a 4xx
    Unbuildable,   \* jobs whose signals make the assembly of the payload raise
    SpringAnswers, \* what a POST may meet: see SpringClient
    RcaOutcomes,   \* how _run_rca may end: "result", "none", "error"
    MaxRequeue,    \* settings.max_job_requeue
    MaxStarts,     \* bound: number of process starts
    MaxFaults,     \* bound: number of failed DB or disk operations
    NoJob

ASSUME JobsFinite == IsFiniteSet(Jobs) /\ NoJob \notin Jobs
ASSUME TriggerTimeType == TriggerTime \in [Jobs -> Keys]
ASSUME BadPayloadType == BadPayload \subseteq Jobs /\ Unbuildable \subseteq Jobs
ASSUME SpringAnswersType ==
    SpringAnswers \subseteq {"answered", "lost", "down", "unauthorized"}
ASSUME RcaOutcomesType == RcaOutcomes \subseteq {"result", "none", "error"}
ASSUME BoundsType == MaxRequeue \in Nat /\ MaxStarts \in Nat /\ MaxFaults \in Nat

VARIABLES
    (* the ingest_job table (durable) *)
    status,     \* status column, "absent" when there is no row
    analysed,   \* jobs whose result column is set
    requeue,    \* requeue_count column
    due,        \* jobs whose updated_at is past the cutoff for their status
    (* bundle_storage_dir (durable) *)
    file,       \* the signal file of each job: "none", "fresh", "old"
    (* Spring's reports (external, durable) *)
    spring,     \* per triggerTime, what Spring stored
    (* the process *)
    phase,      \* lifespan: "down", "starting", "serving", "stopping"
    queue,      \* RcaJobQueue._queue, an unbounded FIFO of job ids
    ingest,     \* progress of each POST /ingest
    wpc, wjob, wread,   \* per worker: next await, job held, status it loaded
    reaper, reconciler, cleaner,    \* the three background loops
    (* bounds *)
    starts, faults

rowVars    == <<status, analysed, requeue, due>>
workerVars == <<wpc, wjob, wread>>
loopVars   == <<reaper, reconciler, cleaner>>
vars == <<rowVars, file, spring, phase, queue, ingest, workerVars, loopVars,
          starts, faults>>

TERMINAL_STATUSES == {"DONE", "FAILED"}
ACTIVE_STATUSES   == {"PENDING", "RUNNING", "DELIVERING"}
Statuses == TERMINAL_STATUSES \cup ACTIVE_STATUSES \cup {"absent"}

WorkerPCs == {"get", "load", "restore", "commitMissing", "commitRunning", "rca",
              "commitDelivering", "commitNone", "commitFailed",
              "commitAgain", "post",
              "readDone", "writeDone", "readFailed", "writeFailed",
              "notify", "discard"}
ReaperPCs == {"sleep", "selectPending", "enqueuePending", "selectRunning",
              "commit", "enqueue", "notify", "discard"}
ReconcilerPCs == {"sleep", "post", "readDone", "writeDone", "readFailed",
                  "writeFailed", "discard"}
IngestPCs == {"new", "written", "recorded", "rollback", "accepted", "rejected",
              "lost"}
InFlight == {"written", "recorded", "rollback"}

NoReport == [kind |-> "none"]
Reports  == [kind : {"report", "failure"}, job : Jobs]

DurableOK ==
    /\ status \in [Jobs -> Statuses]
    /\ analysed \in SUBSET Jobs
    /\ requeue \in [Jobs -> Nat]
    /\ due \in SUBSET Jobs
    /\ file \in [Jobs -> {"none", "fresh", "old"}]
    /\ spring \in [Keys -> Reports \cup {NoReport}]

ProcessOK ==
    /\ phase \in {"down", "starting", "serving", "stopping"}
    /\ queue \in Seq(Jobs)
    /\ ingest \in [Jobs -> IngestPCs]
    /\ starts \in Nat
    /\ faults \in Nat

WorkersOK ==
    /\ wpc \in [Workers -> WorkerPCs]
    /\ wjob \in [Workers -> Jobs \cup {NoJob}]
    /\ wread \in [Workers -> Statuses]
    /\ \A w \in Workers : wpc[w] # "get" => wjob[w] \in Jobs

LoopsOK ==
    /\ reaper \in [pc : ReaperPCs, take : SUBSET Jobs, enq : SUBSET Jobs,
                   fail : SUBSET Jobs, cur : Jobs \cup {NoJob}]
    /\ reaper.pc = "discard" => reaper.cur \in Jobs
    /\ reconciler \in [pc : ReconcilerPCs, todo : SUBSET Jobs,
                       cur : Jobs \cup {NoJob}]
    /\ reconciler.pc \notin {"sleep", "post"} => reconciler.cur \in Jobs
    /\ cleaner \in [pc : {"purge", "filesInUse", "sweep"}, keep : SUBSET Jobs]

(* The type invariant of the whole backend. *)
TypeOK == DurableOK /\ ProcessOK /\ WorkersOK /\ LoopsOK

ReaperIdle     == [pc |-> "sleep", take |-> {}, enq |-> {}, fail |-> {}, cur |-> NoJob]
ReconcilerIdle == [pc |-> "sleep", todo |-> {}, cur |-> NoJob]
CleanerIdle    == [pc |-> "purge", keep |-> {}]

(* A failed database or disk operation, rationed by MaxFaults. *)
Fault == faults < MaxFaults /\ faults' = faults + 1

-----------------------------------------------------------------------------
(* Database writes (models.py, session.py).  SQLAlchemy writes the columns *)
(* whose value differs from the one loaded, by primary key and whatever    *)
(* the row holds by then; any such UPDATE moves updated_at to now.         *)

SetStatus(j, new) ==
    /\ status' = [status EXCEPT ![j] = new]
    /\ due' = due \ {j}

(* Setting the status a session loaded: no UPDATE when it is the same. *)
SaveStatus(j, read, new) ==
    IF read = new THEN UNCHANGED <<status, due>> ELSE SetStatus(j, new)

(* The UPDATE finds its row, or there is nothing to UPDATE. *)
CanSave(j, read, new) == read = new \/ status[j] # "absent"

-----------------------------------------------------------------------------
(* Signal files (bundle_store.py).                                         *)

(* discard: unlink, silent when there is no file; an OSError is swallowed. *)
DiscardFile(j) ==
    \/ file' = [file EXCEPT ![j] = "none"] /\ UNCHANGED faults
    \/ Fault /\ UNCHANGED file

=============================================================================
