-------------------------- MODULE AiBackendProofs --------------------------
(***************************************************************************)
(* Theorems about AiBackend for every value of its constants.              *)
(***************************************************************************)
EXTENDS AiBackend, FiniteSetTheorems, SequenceTheorems, TLAPS

USE DEF vars, rowVars, workerVars, loopVars

-----------------------------------------------------------------------------
(* Typing.  First the operators several actions are built from.            *)

(* Any ordering of a set of jobs is a sequence of jobs. *)
LEMMA OrderingIsSeq ==
    ASSUME NEW S \in SUBSET Jobs, NEW s \in SetToSeqs(S)
    PROVE  s \in Seq(Jobs)
<1>1. Cardinality(S) \in Nat
  BY JobsFinite, FS_Subset, FS_CardinalityType
<1>2. s \in [1..Cardinality(S) -> Jobs]
  BY DEF SetToSeqs
<1> QED
  BY <1>1, <1>2, IsASeq

(* What a POST leaves in Spring. *)
LEMMA StoreType ==
    ASSUME DurableOK, NEW j \in Jobs, NEW kind \in {"report", "failure"},
           NEW a, Store(j, kind, a)
    PROVE  spring' \in [Keys -> Reports \cup {NoReport}]
<1>1. [kind |-> kind, job |-> j] \in Reports
  BY DEF Reports
<1> QED
  BY <1>1, TriggerTimeType DEF DurableOK, Store, Handled

(* Where a worker that left "get" goes on. *)
LEMMA GotoType ==
    ASSUME WorkersOK, NEW w \in Workers, NEW pc \in WorkerPCs, wpc[w] # "get",
           Goto(w, pc)
    PROVE  WorkersOK'
  BY DEF WorkersOK, Goto, Statuses

(* A status written by primary key. *)
LEMMA SaveStatusType ==
    ASSUME DurableOK, NEW j \in Jobs, NEW new \in Statuses, NEW read,
           SaveStatus(j, read, new)
    PROVE  status' \in [Jobs -> Statuses] /\ due' \in SUBSET Jobs
<1>1. status' = status \/ status' = [status EXCEPT ![j] = new]
  BY DEF SaveStatus, SetStatus
<1>2. due' = due \/ due' = due \ {j}
  BY DEF SaveStatus, SetStatus
<1> QED
  BY <1>1, <1>2 DEF DurableOK

(* A file discarded, or not. *)
LEMMA DiscardType ==
    ASSUME DurableOK, ProcessOK, NEW j \in Jobs, DiscardFile(j)
    PROVE  file' \in [Jobs -> {"none", "fresh", "old"}] /\ faults' \in Nat
<1>1. faults' \in Nat
  BY DEF ProcessOK, DiscardFile, Fault
<1>2. file' \in [Jobs -> {"none", "fresh", "old"}]
  <2>1. CASE file' = [file EXCEPT ![j] = "none"]  BY <2>1 DEF DurableOK
  <2>2. CASE file' = file  BY <2>2 DEF DurableOK
  <2> QED  BY <2>1, <2>2 DEF DiscardFile
<1> QED  BY <1>1, <1>2

(* A commit of a worker, with the place it goes to either way. *)
LEMMA WorkerCommitType ==
    ASSUME TypeOK, NEW w \in Workers, wpc[w] # "get", NEW read, NEW new \in Statuses,
           NEW ok \in WorkerPCs, NEW raised \in WorkerPCs,
           WorkerCommit(w, read, new, ok, raised)
    PROVE  TypeOK'
<1> DEFINE j == wjob[w]
<1>1. j \in Jobs
  BY DEF TypeOK, WorkersOK
<1>2. WorkersOK'
  BY GotoType DEF WorkerCommit, TypeOK
<1>3. DurableOK'
  <2>1. status' \in [Jobs -> Statuses] /\ due' \in SUBSET Jobs
    BY <1>1, SaveStatusType DEF WorkerCommit, TypeOK, DurableOK
  <2>2. analysed' \in SUBSET Jobs
    BY <1>1 DEF WorkerCommit, SaveResult, TypeOK, DurableOK
  <2> QED
    BY <2>1, <2>2 DEF WorkerCommit, TypeOK, DurableOK
<1>4. ProcessOK'
  BY DEF WorkerCommit, TypeOK, ProcessOK, Fault
<1>5. LoopsOK'
  BY DEF WorkerCommit, TypeOK, LoopsOK
<1> QED
  BY <1>2, <1>3, <1>4, <1>5 DEF TypeOK

LEMMA WorkerType ==
    ASSUME TypeOK, NEW w \in Workers, Worker(w)
    PROVE  TypeOK'
<1> USE DEF TypeOK
<1> DEFINE j == wjob[w]
<1>a. wpc[w] # "get" => j \in Jobs
  BY DEF WorkersOK
<1>b. \A pc : pc \in {"get", "restore", "commitMissing", "commitRunning", "rca",
                     "commitDelivering", "commitNone", "commitFailed", "commitAgain",
                     "post", "readDone", "writeDone", "readFailed", "writeFailed",
                     "notify", "discard"} => pc \in WorkerPCs
  BY DEF WorkerPCs
<1>c. \A s : s \in {"RUNNING", "DELIVERING", "DONE", "FAILED"} => s \in Statuses
  BY DEF Statuses, TERMINAL_STATUSES, ACTIVE_STATUSES
<1>1. CASE WorkerGet(w)
  <2>1. queue # <<>> /\ queue \in Seq(Jobs)
    BY <1>1 DEF WorkerGet, ProcessOK
  <2>2. Head(queue) \in Jobs /\ Tail(queue) \in Seq(Jobs)
    BY <2>1, HeadTailProperties
  <2>3. WorkersOK'
    BY <1>1, <2>2 DEF WorkerGet, WorkersOK, WorkerPCs
  <2> QED
    BY <1>1, <2>2, <2>3 DEF WorkerGet, DurableOK, ProcessOK, LoopsOK
<1>2. CASE WorkerLoad(w)
  <2>1. WorkersOK'
    <3>1. CASE Goto(w, "get")
      BY <1>2, <1>b, <3>1, GotoType DEF WorkerLoad
    <3>2. CASE /\ wpc' = [wpc EXCEPT ![w] = "restore"]
               /\ wread' = [wread EXCEPT ![w] = status[j]]
               /\ wjob' = wjob
      BY <1>2, <1>a, <3>2 DEF WorkerLoad, WorkersOK, DurableOK, WorkerPCs
    <3> QED
      BY <1>2, <3>1, <3>2 DEF WorkerLoad
  <2> QED
    BY <1>2, <2>1 DEF WorkerLoad, DurableOK, ProcessOK, LoopsOK, Fault
<1>3. CASE WorkerRestore(w)
  <2>1. WorkersOK'
    <3>1. CASE Goto(w, "get")
      BY <1>3, <1>b, <3>1, GotoType DEF WorkerRestore
    <3>2. CASE Goto(w, "commitMissing")
      BY <1>3, <1>b, <3>2, GotoType DEF WorkerRestore
    <3>3. CASE Goto(w, "commitRunning")
      BY <1>3, <1>b, <3>3, GotoType DEF WorkerRestore
    <3> QED
      BY <1>3, <3>1, <3>2, <3>3 DEF WorkerRestore
  <2> QED
    BY <1>3, <2>1 DEF WorkerRestore, DurableOK, ProcessOK, LoopsOK, Fault
<1>4. CASE WorkerCommitMissing(w)
  BY <1>4, <1>b, <1>c, WorkerCommitType DEF WorkerCommitMissing
<1>5. CASE WorkerCommitRunning(w)
  BY <1>5, <1>b, <1>c, WorkerCommitType DEF WorkerCommitRunning
<1>6. CASE WorkerRca(w)
  <2>1. WorkersOK'
    BY <1>6, <1>b, GotoType DEF WorkerRca
  <2> QED
    BY <1>6, <2>1 DEF WorkerRca, DurableOK, ProcessOK, LoopsOK
<1>7. CASE WorkerCommitDelivering(w)
  BY <1>7, <1>b, <1>c, WorkerCommitType DEF WorkerCommitDelivering
<1>8. CASE WorkerCommitNone(w)
  BY <1>8, <1>b, <1>c, WorkerCommitType DEF WorkerCommitNone
<1>9. CASE WorkerCommitFailed(w)
  BY <1>9, <1>b, <1>c, WorkerCommitType DEF WorkerCommitFailed
<1>10. CASE WorkerCommitAgain(w)
  <2>1. WorkersOK'
    BY <1>10, <1>b, GotoType DEF WorkerCommitAgain
  <2> QED
    BY <1>10, <2>1 DEF WorkerCommitAgain, DurableOK, ProcessOK, LoopsOK
<1>11. CASE WorkerPost(w)
  <2>1. wpc[w] # "get" /\ j \in Jobs
    BY <1>11, <1>a DEF WorkerPost
  <2>2. PICK a \in SpringAnswers \cup {"down"} :
          /\ Store(j, "report", a)
          /\ Goto(w, CASE Verdict(j, a) = "ok"        -> "readDone"
                       [] Verdict(j, a) = "permanent" -> "readFailed"
                       [] OTHER                       -> "get")
    BY <1>11 DEF WorkerPost, Meets
  <2>3. spring' \in [Keys -> Reports \cup {NoReport}]
    BY <2>1, <2>2, StoreType
  <2>4. WorkersOK'
    BY <1>b, <2>1, <2>2, GotoType
  <2> QED
    BY <1>11, <2>3, <2>4 DEF WorkerPost, DurableOK, ProcessOK, LoopsOK
<1>12. CASE WorkerMarkRead(w)
  <2>1. WorkersOK'
    <3>1. PICK pc \in {"discard", "writeDone", "writeFailed", "get"} : Goto(w, pc)
      BY <1>12 DEF WorkerMarkRead
    <3> QED
      BY <1>12, <1>b, <3>1, GotoType DEF WorkerMarkRead
  <2> QED
    BY <1>12, <2>1 DEF WorkerMarkRead, DurableOK, ProcessOK, LoopsOK, Fault
<1>13. CASE WorkerMarkWrite(w)
  BY <1>13, <1>b, <1>c, WorkerCommitType DEF WorkerMarkWrite
<1>14. CASE WorkerNotify(w)
  <2>1. wpc[w] # "get" /\ j \in Jobs
    BY <1>14, <1>a DEF WorkerNotify
  <2>2. spring' \in [Keys -> Reports \cup {NoReport}]
    BY <1>14, <2>1, StoreType DEF WorkerNotify
  <2>3. WorkersOK'
    BY <1>14, <1>b, GotoType DEF WorkerNotify
  <2> QED
    BY <1>14, <2>2, <2>3 DEF WorkerNotify, DurableOK, ProcessOK, LoopsOK
<1>15. CASE WorkerDiscard(w)
  <2>1. wpc[w] # "get" /\ j \in Jobs
    BY <1>15, <1>a DEF WorkerDiscard
  <2>2. file' \in [Jobs -> {"none", "fresh", "old"}] /\ faults' \in Nat
    BY <1>15, <2>1, DiscardType DEF WorkerDiscard
  <2>3. WorkersOK'
    BY <1>15, <1>b, GotoType DEF WorkerDiscard
  <2> QED
    BY <1>15, <2>2, <2>3 DEF WorkerDiscard, DurableOK, ProcessOK, LoopsOK
<1> QED
  BY <1>1, <1>2, <1>3, <1>4, <1>5, <1>6, <1>7, <1>8, <1>9, <1>10, <1>11, <1>12, <1>13,
     <1>14, <1>15 DEF Worker

(* The reaper's call ends, normally or not. *)
LEMMA ReaperReturnType ==
    ASSUME TypeOK, ReaperReturn,
           UNCHANGED <<reconciler, cleaner>>
    PROVE  LoopsOK' /\ phase' \in {"down", "starting", "serving", "stopping"}
  BY DEF TypeOK, ProcessOK, LoopsOK, ReaperReturn, ReaperIdle, ReaperPCs

LEMMA ReaperType ==
    ASSUME TypeOK, Reaper
    PROVE  TypeOK'
<1> USE DEF TypeOK
<1>a. /\ reaper.take \in SUBSET Jobs /\ reaper.enq \in SUBSET Jobs
      /\ reaper.fail \in SUBSET Jobs
      /\ reaper.pc = "discard" => reaper.cur \in Jobs
  BY DEF LoopsOK
<1>1. CASE ReaperSelectPending
  <2>1. LoopsOK' /\ phase' \in {"down", "starting", "serving", "stopping"}
    <3>1. CASE ReaperReturn
      BY <1>1, <3>1, ReaperReturnType DEF ReaperSelectPending
    <3>2. CASE /\ reaper' = [reaper EXCEPT !.pc = "enqueuePending",
                                          !.enq = Pending]
               /\ UNCHANGED phase
      BY <1>1, <3>2 DEF ReaperSelectPending, Pending, LoopsOK, ReaperPCs, ProcessOK
    <3> QED
      BY <1>1, <3>1, <3>2 DEF ReaperSelectPending
  <2> QED
    BY <1>1, <2>1 DEF ReaperSelectPending, DurableOK, ProcessOK, WorkersOK, Fault
<1>2. CASE ReaperEnqueuePending
  <2>1. queue' \in Seq(Jobs)
    BY <1>2, <1>a, OrderingIsSeq, ConcatProperties DEF ReaperEnqueuePending, Enqueue, ProcessOK
  <2>2. LoopsOK'
    BY <1>2 DEF ReaperEnqueuePending, LoopsOK, ReaperPCs
  <2> QED
    BY <1>2, <2>1, <2>2 DEF ReaperEnqueuePending, DurableOK, ProcessOK, WorkersOK
<1>3. CASE ReaperSelectRunning
  <2>1. LoopsOK' /\ phase' \in {"down", "starting", "serving", "stopping"}
    <3>1. CASE ReaperReturn
      BY <1>3, <3>1, ReaperReturnType DEF ReaperSelectRunning
    <3>2. CASE reaper' = [reaper EXCEPT !.pc = "commit", !.take = Stuck] /\ UNCHANGED phase
      BY <1>3, <3>2 DEF ReaperSelectRunning, LoopsOK, ReaperPCs, ProcessOK, Stuck
    <3> QED
      BY <1>3, <3>1, <3>2 DEF ReaperSelectRunning
  <2> QED
    BY <1>3, <2>1 DEF ReaperSelectRunning, DurableOK, ProcessOK, WorkersOK, Fault
<1>4. CASE ReaperCommit
  <2>1. DurableOK'
    <3>1. CASE Reclaim
      BY <1>4, <3>1 DEF ReaperCommit, Reclaim, DurableOK, Statuses, ACTIVE_STATUSES,
                        TERMINAL_STATUSES, Again
    <3>2. CASE UNCHANGED rowVars
      BY <1>4, <3>2 DEF ReaperCommit, DurableOK
    <3> QED
      BY <1>4, <3>1, <3>2 DEF ReaperCommit
  <2>2. LoopsOK' /\ phase' \in {"down", "starting", "serving", "stopping"}
    <3>1. CASE ReaperReturn
      BY <1>4, <3>1, ReaperReturnType DEF ReaperCommit
    <3>2. CASE /\ reaper' = [reaper EXCEPT !.pc = "enqueue", !.take = {},
                                          !.enq = Again, !.fail = reaper.take \ Again]
               /\ UNCHANGED phase
      BY <1>4, <1>a, <3>2 DEF ReaperCommit, LoopsOK, ReaperPCs, ProcessOK, Again
    <3> QED
      BY <1>4, <3>1, <3>2 DEF ReaperCommit
  <2> QED
    BY <1>4, <2>1, <2>2 DEF ReaperCommit, ProcessOK, WorkersOK, Fault
<1>5. CASE ReaperEnqueue
  <2>1. queue' \in Seq(Jobs)
    BY <1>5, <1>a, OrderingIsSeq, ConcatProperties DEF ReaperEnqueue, Enqueue, ProcessOK
  <2>2. LoopsOK' /\ phase' \in {"down", "starting", "serving", "stopping"}
    <3>1. CASE ReaperReturn
      BY <1>5, <3>1, ReaperReturnType DEF ReaperEnqueue
    <3>2. CASE reaper' = [reaper EXCEPT !.pc = "notify", !.enq = {}] /\ UNCHANGED phase
      BY <1>5, <3>2 DEF ReaperEnqueue, LoopsOK, ReaperPCs, ProcessOK
    <3> QED
      BY <1>5, <3>1, <3>2 DEF ReaperEnqueue
  <2> QED
    BY <1>5, <2>1, <2>2 DEF ReaperEnqueue, DurableOK, ProcessOK, WorkersOK
<1>6. CASE ReaperNotify
  <2>1. PICK j \in reaper.fail, a \in SpringAnswers \cup {"down"} :
          /\ Store(j, "failure", a)
          /\ reaper' = [reaper EXCEPT !.pc = "discard", !.cur = j]
    BY <1>6 DEF ReaperNotify, Meets
  <2>2. spring' \in [Keys -> Reports \cup {NoReport}]
    BY <1>a, <2>1, StoreType
  <2>3. LoopsOK'
    BY <1>6, <1>a, <2>1 DEF ReaperNotify, LoopsOK, ReaperPCs
  <2> QED
    BY <1>6, <2>2, <2>3 DEF ReaperNotify, DurableOK, ProcessOK, WorkersOK
<1>7. CASE ReaperDiscard
  <2>1. file' \in [Jobs -> {"none", "fresh", "old"}] /\ faults' \in Nat
    BY <1>7, <1>a, DiscardType DEF ReaperDiscard
  <2>2. LoopsOK' /\ phase' \in {"down", "starting", "serving", "stopping"}
    <3>1. CASE ReaperReturn
      BY <1>7, <3>1, ReaperReturnType DEF ReaperDiscard
    <3>2. CASE /\ reaper' = [reaper EXCEPT !.pc = "notify",
                                          !.fail = reaper.fail \ {reaper.cur}, !.cur = NoJob]
               /\ UNCHANGED phase
      BY <1>7, <1>a, <3>2 DEF ReaperDiscard, LoopsOK, ReaperPCs, ProcessOK
    <3> QED
      BY <1>7, <3>1, <3>2 DEF ReaperDiscard
  <2> QED
    BY <1>7, <2>1, <2>2 DEF ReaperDiscard, DurableOK, ProcessOK, WorkersOK
<1> QED
  BY <1>1, <1>2, <1>3, <1>4, <1>5, <1>6, <1>7 DEF Reaper

LEMMA ReconcilerNextType ==
    ASSUME LoopsOK, NEW j, ReconcilerNext(j), UNCHANGED <<reaper, cleaner>>
    PROVE  LoopsOK'
  BY DEF LoopsOK, ReconcilerNext, ReconcilerIdle, ReconcilerPCs

LEMMA ReconcilerType ==
    ASSUME TypeOK, Reconciler
    PROVE  TypeOK'
<1> USE DEF TypeOK
<1>a. reconciler.todo \in SUBSET Jobs
  BY DEF LoopsOK
<1>1. CASE ReconcilerSelect
  BY <1>1 DEF ReconcilerSelect, DurableOK, ProcessOK, WorkersOK, LoopsOK, ReconcilerPCs
<1>2. CASE ReconcilerPost
  <2>1. PICK j \in reconciler.todo, a \in SpringAnswers \cup {"down"} :
          /\ Store(j, "report", a)
          /\ \/ reconciler' = [reconciler EXCEPT !.pc = "readDone", !.cur = j]
             \/ reconciler' = [reconciler EXCEPT !.pc = "readFailed", !.cur = j]
             \/ ReconcilerNext(j)
    BY <1>2 DEF ReconcilerPost, Meets
  <2>2. spring' \in [Keys -> Reports \cup {NoReport}]
    BY <1>a, <2>1, StoreType
  <2>3. LoopsOK'
    BY <1>2, <1>a, <2>1, ReconcilerNextType DEF ReconcilerPost, LoopsOK, ReconcilerPCs
  <2> QED
    BY <1>2, <2>2, <2>3 DEF ReconcilerPost, DurableOK, ProcessOK, WorkersOK
<1>3. CASE ReconcilerMarkRead
  <2>1. LoopsOK'
    <3>1. CASE ReconcilerNext(reconciler.cur)
      BY <1>3, <3>1, ReconcilerNextType DEF ReconcilerMarkRead
    <3>2. CASE ReconcilerGoto(IF reconciler.pc = "readDone" THEN "writeDone" ELSE "writeFailed")
      BY <1>3, <3>2 DEF ReconcilerMarkRead, ReconcilerGoto, LoopsOK, ReconcilerPCs
    <3>3. CASE reconciler' = ReconcilerIdle
      BY <1>3, <3>3 DEF ReconcilerMarkRead, ReconcilerIdle, LoopsOK, ReconcilerPCs
    <3> QED
      BY <1>3, <3>1, <3>2, <3>3 DEF ReconcilerMarkRead
  <2> QED
    BY <1>3, <2>1 DEF ReconcilerMarkRead, DurableOK, ProcessOK, WorkersOK, Fault
<1>4. CASE ReconcilerMarkWrite
  <2> DEFINE new == IF reconciler.pc = "writeDone" THEN "DONE" ELSE "FAILED"
  <2>1. DurableOK'
    BY <1>4 DEF ReconcilerMarkWrite, SetStatus, DurableOK, Statuses, TERMINAL_STATUSES
  <2>2. LoopsOK'
    BY <1>4 DEF ReconcilerMarkWrite, ReconcilerGoto, ReconcilerIdle, LoopsOK, ReconcilerPCs
  <2> QED
    BY <1>4, <2>1, <2>2 DEF ReconcilerMarkWrite, ProcessOK, WorkersOK, Fault
<1>5. CASE ReconcilerDiscard
  <2>1. reconciler.cur \in Jobs
    BY <1>5 DEF ReconcilerDiscard, LoopsOK
  <2>2. file' \in [Jobs -> {"none", "fresh", "old"}] /\ faults' \in Nat
    BY <1>5, <2>1, DiscardType DEF ReconcilerDiscard
  <2>3. LoopsOK'
    BY <1>5, ReconcilerNextType DEF ReconcilerDiscard
  <2> QED
    BY <1>5, <2>2, <2>3 DEF ReconcilerDiscard, DurableOK, ProcessOK, WorkersOK
<1> QED
  BY <1>1, <1>2, <1>3, <1>4, <1>5 DEF Reconciler

LEMMA CleanerType ==
    ASSUME TypeOK, Cleaner
    PROVE  TypeOK'
<1> USE DEF TypeOK
<1>1. CASE CleanerPurge
  BY <1>1 DEF CleanerPurge, DurableOK, ProcessOK, WorkersOK, LoopsOK, Statuses
<1>2. CASE CleanerFilesInUse
  BY <1>2 DEF CleanerFilesInUse, InUse, DurableOK, ProcessOK, WorkersOK, LoopsOK
<1>3. CASE CleanerSweep
  BY <1>3 DEF CleanerSweep, CleanerIdle, DurableOK, ProcessOK, WorkersOK, LoopsOK
<1>4. CASE CleanerFails
  BY <1>4 DEF CleanerFails, CleanerIdle, Fault, DurableOK, ProcessOK, WorkersOK, LoopsOK
<1> QED
  BY <1>1, <1>2, <1>3, <1>4 DEF Cleaner

LEMMA IngestType ==
    ASSUME TypeOK, NEW j \in Jobs, IngestBundle(j)
    PROVE  TypeOK'
<1> USE DEF TypeOK
<1>1. CASE IngestWrite(j)
  <2>1. DurableOK'
    BY <1>1 DEF IngestWrite, DurableOK
  <2>2. ProcessOK'
    BY <1>1 DEF IngestWrite, IngestGoto, Fault, ProcessOK, IngestPCs
  <2> QED
    BY <1>1, <2>1, <2>2 DEF IngestWrite, WorkersOK, LoopsOK
<1>2. CASE IngestRecord(j)
  <2>1. DurableOK'
    BY <1>2 DEF IngestRecord, SetStatus, DurableOK, Statuses, ACTIVE_STATUSES
  <2>2. ProcessOK'
    BY <1>2 DEF IngestRecord, IngestGoto, Fault, ProcessOK, IngestPCs
  <2> QED
    BY <1>2, <2>1, <2>2 DEF IngestRecord, WorkersOK, LoopsOK
<1>3. CASE IngestRollback(j)
  <2>1. file' \in [Jobs -> {"none", "fresh", "old"}] /\ faults' \in Nat
    BY <1>3, DiscardType DEF IngestRollback
  <2> QED
    BY <1>3, <2>1 DEF IngestRollback, IngestGoto, DurableOK, ProcessOK, WorkersOK, LoopsOK,
                      IngestPCs
<1>4. CASE IngestEnqueue(j)
  <2>1. queue' \in Seq(Jobs)
    BY <1>4, ConcatProperties DEF IngestEnqueue, Enqueue, ProcessOK
  <2> QED
    BY <1>4, <2>1 DEF IngestEnqueue, IngestGoto, DurableOK, ProcessOK, WorkersOK, LoopsOK,
                      IngestPCs
<1> QED
  BY <1>1, <1>2, <1>3, <1>4 DEF IngestBundle

LEMMA LifespanType ==
    ASSUME TypeOK, Start \/ Stop \/ Exit \/ Crash
    PROVE  TypeOK'
<1> USE DEF TypeOK
<1>1. CASE Start
  <2>1. reaper' = [ReaperIdle EXCEPT !.pc = "selectPending"]
    BY <1>1 DEF Start
  <2>2. LoopsOK'
    BY <1>1, <2>1 DEF Start, ReaperIdle, ReaperPCs, LoopsOK
  <2> QED
    BY <1>1, <2>2 DEF Start, DurableOK, ProcessOK, WorkersOK
<1>2. CASE Stop
  BY <1>2 DEF Stop, ReaperIdle, ReaperPCs, ReconcilerIdle, ReconcilerPCs, CleanerIdle,
              DurableOK, ProcessOK, WorkersOK, LoopsOK
<1>3. CASE Exit
  BY <1>3 DEF Exit, DurableOK, ProcessOK, WorkersOK, LoopsOK
<1>4. CASE Crash
  <2>1. LoopsOK'
    BY <1>4 DEF Crash, ReaperIdle, ReaperPCs, ReconcilerIdle, ReconcilerPCs, CleanerIdle,
                LoopsOK
  <2>2. ProcessOK'
    BY <1>4, EmptySeq DEF Crash, ProcessOK, IngestPCs
  <2> QED
    BY <1>4, <2>1, <2>2 DEF Crash, DurableOK, WorkersOK, WorkerPCs, Statuses
<1> QED
  BY <1>1, <1>2, <1>3, <1>4

LEMMA TimeType ==
    ASSUME TypeOK, NEW j \in Jobs, Elapse(j) \/ FileAges(j)
    PROVE  TypeOK'
  BY DEF TypeOK, DurableOK, ProcessOK, WorkersOK, LoopsOK, Elapse, FileAges

LEMMA NextType ==
    ASSUME TypeOK, [Next]_vars
    PROVE  TypeOK'
<1>1. CASE UNCHANGED vars
  BY <1>1 DEF TypeOK, DurableOK, ProcessOK, WorkersOK, LoopsOK
<1> QED
  BY <1>1, WorkerType, ReaperType, ReconcilerType, CleanerType, IngestType, LifespanType,
     TimeType DEF Next

(* Every reachable state is well typed: in particular a worker, the reaper *)
(* and the reconciler always know which job they are about to commit.      *)
THEOREM TypeCorrect == Spec => []TypeOK
<1>1. Init => TypeOK
  BY DEF Init, TypeOK, DurableOK, ProcessOK, WorkersOK, LoopsOK, Statuses, WorkerPCs,
         ReaperPCs, ReconcilerPCs, IngestPCs, ReaperIdle, ReconcilerIdle, CleanerIdle
<1>2. TypeOK /\ [Next]_vars => TypeOK'
  BY NextType
<1> QED
  BY <1>1, <1>2, PTL DEF Spec

-----------------------------------------------------------------------------
(* Delivery.  What Spring stored under a triggerTime stays.                *)

LEMMA StoreKeeps ==
    ASSUME TypeOK, NEW i \in Jobs, NEW j \in Jobs, NEW kind \in {"report", "failure"},
           NEW a, Store(i, kind, a), Stored(j)
    PROVE  Stored(j)'
<1>1. [kind |-> kind, job |-> i] # NoReport
  BY DEF NoReport
<1>2. TriggerTime[i] \in Keys /\ TriggerTime[j] \in Keys
  BY TriggerTimeType
<1> QED
  BY <1>1, <1>2 DEF TypeOK, DurableOK, Store, Handled, Stored

(* A sending that is taken for delivered was stored, now or before. *)
LEMMA OkIsStored ==
    ASSUME TypeOK, NEW j \in Jobs, NEW a, Store(j, "report", a), Verdict(j, a) = "ok"
    PROVE  Stored(j)'
<1>1. [kind |-> "report", job |-> j] # NoReport
  BY DEF NoReport
<1>2. TriggerTime[j] \in Keys
  BY TriggerTimeType
<1>3. a = "answered" /\ j \notin BadPayload
  BY DEF Verdict
<1> QED
  BY <1>1, <1>2, <1>3 DEF TypeOK, DurableOK, Store, Handled, Stored

(* The four who send to Spring. *)
LEMMA WhoStores ==
    ASSUME Next, ~UNCHANGED spring
    PROVE  \/ \E w \in Workers : WorkerPost(w) \/ WorkerNotify(w)
           \/ ReaperNotify \/ ReconcilerPost
<1>1. ~(Start \/ Stop \/ Exit \/ Crash)
  BY DEF Start, Stop, Exit, Crash
<1>2. ASSUME NEW w \in Workers, Worker(w)
      PROVE  WorkerPost(w) \/ WorkerNotify(w)
  BY <1>2 DEF Worker, WorkerGet, WorkerLoad, WorkerRestore, WorkerCommitMissing,
     WorkerCommitRunning, WorkerRca, WorkerCommitDelivering, WorkerCommitNone,
     WorkerCommitFailed, WorkerCommitAgain, WorkerMarkRead, WorkerMarkWrite,
     WorkerDiscard, WorkerCommit
<1>3. Reaper => ReaperNotify
  BY DEF Reaper, ReaperSelectPending, ReaperEnqueuePending, ReaperSelectRunning,
     ReaperCommit, ReaperEnqueue, ReaperDiscard
<1>4. Reconciler => ReconcilerPost
  BY DEF Reconciler, ReconcilerSelect, ReconcilerMarkRead, ReconcilerMarkWrite,
     ReconcilerDiscard
<1>5. ~Cleaner
  BY DEF Cleaner, CleanerPurge, CleanerFilesInUse, CleanerSweep, CleanerFails
<1>6. ~\E i \in Jobs : IngestBundle(i) \/ Elapse(i) \/ FileAges(i)
  BY DEF IngestBundle, IngestWrite, IngestRecord, IngestRollback, IngestEnqueue,
     Elapse, FileAges
<1> QED
  BY <1>1, <1>2, <1>3, <1>4, <1>5, <1>6 DEF Next

LEMMA StoredStays ==
    ASSUME TypeOK, [Next]_vars, NEW j \in Jobs, Stored(j)
    PROVE  Stored(j)'
<1>1. CASE UNCHANGED spring
  BY <1>1 DEF Stored
<1>2. ASSUME NEW w \in Workers, WorkerPost(w) \/ WorkerNotify(w)
      PROVE  Stored(j)'
  <2>1. wjob[w] \in Jobs
    BY <1>2 DEF WorkerPost, WorkerNotify, TypeOK, WorkersOK
  <2> QED
    BY <1>2, <2>1, StoreKeeps DEF WorkerPost, WorkerNotify
<1>3. CASE ReaperNotify
  <2>1. reaper.fail \in SUBSET Jobs
    BY DEF TypeOK, LoopsOK
  <2> QED
    BY <1>3, <2>1, StoreKeeps DEF ReaperNotify
<1>4. CASE ReconcilerPost
  <2>1. reconciler.todo \in SUBSET Jobs
    BY DEF TypeOK, LoopsOK
  <2> QED
    BY <1>4, <2>1, StoreKeeps DEF ReconcilerPost
<1> QED
  BY <1>1, <1>2, <1>3, <1>4, WhoStores

(* The conjuncts of DeliveryInv about the workers and about the reconciler. *)
WorkersKnow ==
    /\ \A w \in Workers : wpc[w] \in {"readDone", "writeDone"} => Stored(wjob[w])
    /\ \A w \in Workers : wpc[w] = "commitNone" => "none" \in RcaOutcomes

ReconcilerKnows == reconciler.pc \in {"readDone", "writeDone"} => Stored(reconciler.cur)

RowsTell == DeliveringHasResult /\ DoneIsReported

LEMMA DeliveryParts ==
    /\ DeliveryInv <=> RowsTell /\ WorkersKnow /\ ReconcilerKnows
    /\ DeliveryInv' <=> RowsTell' /\ WorkersKnow' /\ ReconcilerKnows'
  BY DEF DeliveryInv, RowsTell, WorkersKnow, ReconcilerKnows

LEMMA WorkersKnowKept ==
    ASSUME TypeOK, [Next]_vars, WorkersKnow, UNCHANGED workerVars
    PROVE  WorkersKnow'
<1>1. ASSUME NEW w \in Workers, wpc[w] \in {"readDone", "writeDone"}
      PROVE  Stored(wjob[w])'
  BY <1>1, StoredStays DEF WorkersKnow, TypeOK, WorkersOK
<1> QED
  BY <1>1 DEF WorkersKnow, Stored

LEMMA ReconcilerKnowsKept ==
    ASSUME TypeOK, [Next]_vars, ReconcilerKnows, UNCHANGED reconciler
    PROVE  ReconcilerKnows'
  BY StoredStays DEF ReconcilerKnows, TypeOK, LoopsOK, Stored

LEMMA RowsTellKept ==
    ASSUME TypeOK, [Next]_vars, RowsTell, UNCHANGED <<status, analysed>>
    PROVE  RowsTell'
  BY StoredStays DEF RowsTell, DeliveringHasResult, DoneIsReported, Stored

(* A worker that goes on to mark a job DONE must know that it was stored.  *)
LEMMA GotoKnows ==
    ASSUME TypeOK, [Next]_vars, WorkersKnow, NEW w \in Workers, NEW pc, Goto(w, pc),
           pc \in {"readDone", "writeDone"} => Stored(wjob[w])',
           pc = "commitNone" => "none" \in RcaOutcomes
    PROVE  WorkersKnow'
<1>1. ASSUME NEW v \in Workers, (wpc[v] \in {"readDone", "writeDone"})'
      PROVE  Stored(wjob[v])'
  <2>1. CASE v = w
    BY <1>1, <2>1 DEF Goto, TypeOK, WorkersOK, Stored
  <2>2. CASE v # w
    <3>1. wpc[v] \in {"readDone", "writeDone"} /\ wjob'[v] = wjob[v] /\ wjob[v] \in Jobs
      BY <1>1, <2>2 DEF Goto, TypeOK, WorkersOK
    <3> QED
      BY <3>1, StoredStays DEF WorkersKnow, Stored
  <2> QED
    BY <2>1, <2>2
<1>2. ASSUME NEW v \in Workers, (wpc[v] = "commitNone")'
      PROVE  "none" \in RcaOutcomes
  BY <1>2 DEF Goto, TypeOK, WorkersOK, WorkersKnow
<1> QED
  BY <1>1, <1>2 DEF WorkersKnow

(* A commit of a worker: DELIVERING is saved with the result, DONE only    *)
(* for a job that was stored.                                              *)
LEMMA CommitTells ==
    ASSUME TypeOK, [Next]_vars, RowsTell, NEW w \in Workers, wpc[w] # "get",
           NEW read, NEW new, NEW ok, NEW raised, WorkerCommit(w, read, new, ok, raised),
           new = "DONE" => Stored(wjob[w]) \/ "none" \in RcaOutcomes
    PROVE  RowsTell'
<1>1. wjob[w] \in Jobs
  BY DEF TypeOK, WorkersOK
<1>2. UNCHANGED spring
  BY DEF WorkerCommit
<1>3. \/ UNCHANGED <<status, analysed>>
      \/ /\ status' = status
         /\ analysed' = analysed \cup {wjob[w]}
      \/ /\ status' = [status EXCEPT ![wjob[w]] = new]
         /\ analysed' = IF new = "DELIVERING" THEN analysed \cup {wjob[w]} ELSE analysed
  BY DEF WorkerCommit, SaveStatus, SetStatus, SaveResult
<1> QED
  BY <1>1, <1>2, <1>3 DEF RowsTell, DeliveringHasResult, DoneIsReported, Stored, TypeOK,
                          DurableOK

LEMMA WorkerDelivery ==
    ASSUME TypeOK, [Next]_vars, DeliveryInv, NEW w \in Workers, Worker(w)
    PROVE  DeliveryInv'
<1>a. RowsTell /\ WorkersKnow /\ ReconcilerKnows
  BY DeliveryParts
<1>b. ReconcilerKnows'
  <2>1. UNCHANGED reconciler
    BY DEF Worker, WorkerGet, WorkerLoad, WorkerRestore, WorkerCommitMissing,
       WorkerCommitRunning, WorkerRca, WorkerCommitDelivering, WorkerCommitNone,
       WorkerCommitFailed, WorkerCommitAgain, WorkerPost, WorkerMarkRead, WorkerMarkWrite,
       WorkerNotify, WorkerDiscard, WorkerCommit
  <2> QED
    BY <1>a, <2>1, ReconcilerKnowsKept
<1>c. RowsTell' /\ WorkersKnow'
  <2>1. CASE WorkerGet(w)
    <3>1. RowsTell'
      BY <1>a, <2>1, RowsTellKept DEF WorkerGet
    <3>2. WorkersKnow'
      <4>1. ASSUME NEW v \in Workers
            PROVE  /\ (wpc[v] \in {"readDone", "writeDone"})' => Stored(wjob[v])'
                   /\ (wpc[v] = "commitNone")' => "none" \in RcaOutcomes
        BY <1>a, <2>1 DEF WorkerGet, WorkersKnow, TypeOK, WorkersOK, Stored
      <4> QED
        BY <4>1 DEF WorkersKnow
    <3> QED
      BY <3>1, <3>2
  <2>2. CASE WorkerLoad(w)
    <3>1. RowsTell'
      BY <1>a, <2>2, RowsTellKept DEF WorkerLoad
    <3>2. WorkersKnow'
      <4>1. CASE Goto(w, "get")
        BY <1>a, <4>1, GotoKnows
      <4>2. CASE wpc' = [wpc EXCEPT ![w] = "restore"] /\ UNCHANGED <<wjob, spring>>
        BY <1>a, <4>2 DEF WorkersKnow, TypeOK, WorkersOK, Stored
      <4> QED
        BY <2>2, <4>1, <4>2 DEF WorkerLoad
    <3> QED
      BY <3>1, <3>2
  <2>3. CASE WorkerRestore(w) \/ WorkerCommitAgain(w) \/ WorkerNotify(w) \/ WorkerDiscard(w)
    <3>1. PICK pc \in {"get", "commitMissing", "commitRunning", "discard"} : Goto(w, pc)
      BY <2>3 DEF WorkerRestore, WorkerCommitAgain, WorkerNotify, WorkerDiscard
    <3>2. WorkersKnow'
      BY <1>a, <3>1, GotoKnows
    <3>3. UNCHANGED <<status, analysed>>
      BY <2>3 DEF WorkerRestore, WorkerCommitAgain, WorkerNotify, WorkerDiscard
    <3> QED
      BY <1>a, <3>2, <3>3, RowsTellKept
  <2>4. CASE WorkerRca(w)
    <3>1. PICK pc \in {"commitDelivering", "commitNone", "commitFailed"} :
            Goto(w, pc) /\ (pc = "commitNone" => "none" \in RcaOutcomes)
      BY <2>4 DEF WorkerRca
    <3>2. WorkersKnow'
      BY <1>a, <3>1, GotoKnows
    <3> QED
      BY <1>a, <2>4, <3>2, RowsTellKept DEF WorkerRca
  <2>5. CASE WorkerPost(w)
    <3>1. PICK a \in SpringAnswers \cup {"down"} :
            /\ Store(wjob[w], "report", a)
            /\ Goto(w, CASE Verdict(wjob[w], a) = "ok"        -> "readDone"
                         [] Verdict(wjob[w], a) = "permanent" -> "readFailed"
                         [] OTHER                             -> "get")
      BY <2>5 DEF WorkerPost, Meets
    <3>2. PICK j \in Jobs : j = wjob[w]
      BY <2>5 DEF WorkerPost, TypeOK, WorkersOK
    <3>3. PICK pc \in {"readDone", "readFailed", "get"} :
            Goto(w, pc) /\ (pc = "readDone" => Verdict(j, a) = "ok")
      BY <3>1, <3>2
    <3>4. WorkersKnow'
      <4>1. pc = "readDone" => Stored(j)'
        BY <3>1, <3>2, <3>3, OkIsStored
      <4>2. pc = "readDone" => wjob'[w] = j
        BY <3>2, <3>3 DEF Goto
      <4>3. pc = "readDone" => Stored(wjob[w])'
        BY <4>1, <4>2 DEF Stored
      <4> QED
        BY <1>a, <3>3, <4>3, GotoKnows
    <3> QED
      BY <1>a, <2>5, <3>4, RowsTellKept DEF WorkerPost
  <2>6. CASE WorkerMarkRead(w)
    <3>1. PICK pc \in {"discard", "writeDone", "writeFailed", "get"} :
            Goto(w, pc) /\ (pc = "writeDone" => wpc[w] = "readDone")
      BY <2>6 DEF WorkerMarkRead
    <3>2. PICK j \in Jobs : j = wjob[w]
      BY <2>6 DEF WorkerMarkRead, TypeOK, WorkersOK
    <3>3. WorkersKnow'
      <4>1. pc = "writeDone" => Stored(j)'
        BY <1>a, <3>1, <3>2, StoredStays DEF WorkersKnow
      <4>2. pc = "writeDone" => wjob'[w] = j
        BY <3>1, <3>2 DEF Goto
      <4>3. pc = "writeDone" => Stored(wjob[w])'
        BY <4>1, <4>2 DEF Stored
      <4> QED
        BY <1>a, <3>1, <4>3, GotoKnows
    <3> QED
      BY <1>a, <2>6, <3>3, RowsTellKept DEF WorkerMarkRead
  <2>7. ASSUME NEW read, NEW new, NEW ok \in {"notify", "rca", "post", "discard"},
               NEW raised \in {"get", "commitAgain"}, wpc[w] # "get",
               WorkerCommit(w, read, new, ok, raised),
               new = "DONE" => Stored(wjob[w]) \/ "none" \in RcaOutcomes
        PROVE  RowsTell' /\ WorkersKnow'
    <3>1. RowsTell'
      BY <1>a, <2>7, CommitTells
    <3>2. PICK pc \in {"notify", "rca", "post", "discard", "get", "commitAgain"} : Goto(w, pc)
      BY <2>7 DEF WorkerCommit
    <3> QED
      BY <1>a, <3>1, <3>2, GotoKnows
  <2>8. CASE \/ WorkerCommitMissing(w) \/ WorkerCommitRunning(w)
             \/ WorkerCommitDelivering(w) \/ WorkerCommitFailed(w)
    BY <2>7, <2>8 DEF WorkerCommitMissing, WorkerCommitRunning, WorkerCommitDelivering,
                      WorkerCommitFailed
  <2>9. CASE WorkerCommitNone(w)
    BY <1>a, <2>7, <2>9 DEF WorkerCommitNone, WorkersKnow
  <2>10. CASE WorkerMarkWrite(w)
    BY <1>a, <2>7, <2>10 DEF WorkerMarkWrite, WorkersKnow
  <2> QED
    BY <2>1, <2>2, <2>3, <2>4, <2>5, <2>6, <2>8, <2>9, <2>10 DEF Worker
<1> QED
  BY <1>b, <1>c, DeliveryParts

(* Commits that make no job DELIVERING or DONE. *)
LEMMA RowsTellLess ==
    ASSUME TypeOK, [Next]_vars, RowsTell,
           \A j \in Jobs : status'[j] \in {"DELIVERING", "DONE"} =>
                              status'[j] = status[j] /\ (j \in analysed => j \in analysed')
    PROVE  RowsTell'
  BY StoredStays DEF RowsTell, DeliveringHasResult, DoneIsReported, Stored

LEMMA ReaperDelivery ==
    ASSUME TypeOK, [Next]_vars, DeliveryInv, Reaper
    PROVE  DeliveryInv'
<1>a. RowsTell /\ WorkersKnow /\ ReconcilerKnows
  BY DeliveryParts
<1>1. UNCHANGED <<workerVars, reconciler>>
  BY DEF Reaper, ReaperSelectPending, ReaperEnqueuePending, ReaperSelectRunning,
         ReaperCommit, ReaperEnqueue, ReaperNotify, ReaperDiscard
<1>2. RowsTell'
  <2>1. CASE ReaperCommit
    <3>1. CASE Reclaim
      BY <1>a, <3>1, RowsTellLess DEF Reclaim, TypeOK, DurableOK
    <3>2. CASE UNCHANGED rowVars
      BY <1>a, <3>2, RowsTellKept
    <3> QED
      BY <2>1, <3>1, <3>2 DEF ReaperCommit
  <2>2. CASE Reaper /\ ~ReaperCommit
    <3>1. UNCHANGED <<status, analysed>>
      BY <2>2 DEF Reaper, ReaperSelectPending, ReaperEnqueuePending, ReaperSelectRunning,
                  ReaperEnqueue, ReaperNotify, ReaperDiscard
    <3> QED
      BY <1>a, <3>1, RowsTellKept
  <2> QED
    BY <2>1, <2>2
<1> QED
  BY <1>a, <1>1, <1>2, WorkersKnowKept, ReconcilerKnowsKept, DeliveryParts

LEMMA ReconcilerDelivery ==
    ASSUME TypeOK, [Next]_vars, DeliveryInv, Reconciler
    PROVE  DeliveryInv'
<1>a. RowsTell /\ WorkersKnow /\ ReconcilerKnows
  BY DeliveryParts
<1>b. UNCHANGED workerVars
  BY DEF Reconciler, ReconcilerSelect, ReconcilerPost, ReconcilerMarkRead,
         ReconcilerMarkWrite, ReconcilerDiscard
<1>c. WorkersKnow'
  BY <1>a, <1>b, WorkersKnowKept
<1>1. CASE ReconcilerSelect \/ ReconcilerDiscard
  <2>1. reconciler'.pc \in {"sleep", "post"}
    <3>1. CASE ReconcilerSelect
      BY <3>1 DEF ReconcilerSelect, TypeOK, LoopsOK
    <3>2. CASE ReconcilerDiscard
      BY <3>2 DEF ReconcilerDiscard, ReconcilerNext, ReconcilerIdle
    <3> QED
      BY <1>1, <3>1, <3>2
  <2> QED
    BY <1>a, <1>c, <1>1, <2>1, RowsTellKept, DeliveryParts
    DEF ReconcilerSelect, ReconcilerDiscard, ReconcilerKnows
<1>2. CASE ReconcilerPost
  <2>1. PICK j \in reconciler.todo, a \in SpringAnswers \cup {"down"} :
          /\ Store(j, "report", a)
          /\ \/ /\ Verdict(j, a) = "ok"
                /\ reconciler' = [reconciler EXCEPT !.pc = "readDone", !.cur = j]
             \/ reconciler' = [reconciler EXCEPT !.pc = "readFailed", !.cur = j]
             \/ ReconcilerNext(j)
    BY <1>2 DEF ReconcilerPost, Meets
  <2>2. j \in Jobs
    BY <2>1 DEF TypeOK, LoopsOK
  <2>3. ReconcilerKnows'
    <3>1. CASE /\ Verdict(j, a) = "ok"
               /\ reconciler' = [reconciler EXCEPT !.pc = "readDone", !.cur = j]
      <4>1. Stored(j)'
        BY <2>1, <2>2, <3>1, OkIsStored
      <4>2. reconciler'.cur = j
        BY <3>1 DEF TypeOK, LoopsOK
      <4> QED
        BY <4>1, <4>2 DEF ReconcilerKnows, Stored
    <3>2. CASE reconciler' = [reconciler EXCEPT !.pc = "readFailed", !.cur = j]
      BY <3>2 DEF ReconcilerKnows, TypeOK, LoopsOK
    <3>3. CASE ReconcilerNext(j)
      BY <3>3 DEF ReconcilerKnows, ReconcilerNext, ReconcilerIdle
    <3> QED
      BY <2>1, <3>1, <3>2, <3>3
  <2> QED
    BY <1>a, <1>c, <1>2, <2>3, RowsTellKept, DeliveryParts DEF ReconcilerPost
<1>3. CASE ReconcilerMarkRead
  <2>1. ReconcilerKnows'
    <3>1. CASE ReconcilerNext(reconciler.cur) \/ reconciler' = ReconcilerIdle
      BY <3>1 DEF ReconcilerKnows, ReconcilerNext, ReconcilerIdle
    <3>2. CASE ReconcilerGoto(IF reconciler.pc = "readDone" THEN "writeDone" ELSE "writeFailed")
      <4>1. CASE reconciler.pc = "readDone"
        <5>1. PICK j \in Jobs : j = reconciler.cur
          BY <4>1 DEF TypeOK, LoopsOK
        <5>2. Stored(j)'
          BY <1>a, <4>1, <5>1, StoredStays DEF ReconcilerKnows
        <5>3. reconciler'.cur = j
          BY <3>2, <5>1 DEF ReconcilerGoto, TypeOK, LoopsOK
        <5> QED
          BY <5>2, <5>3 DEF ReconcilerKnows, Stored
      <4>2. CASE reconciler.pc # "readDone"
        BY <3>2, <4>2 DEF ReconcilerGoto, ReconcilerKnows, TypeOK, LoopsOK
      <4> QED
        BY <4>1, <4>2
    <3> QED
      BY <1>3, <3>1, <3>2 DEF ReconcilerMarkRead
  <2> QED
    BY <1>a, <1>c, <1>3, <2>1, RowsTellKept, DeliveryParts DEF ReconcilerMarkRead
<1>4. CASE ReconcilerMarkWrite
  <2>1. PICK j \in Jobs : j = reconciler.cur
    BY <1>4 DEF ReconcilerMarkWrite, TypeOK, LoopsOK
  <2>2. ReconcilerKnows'
    BY <1>4 DEF ReconcilerMarkWrite, ReconcilerGoto, ReconcilerIdle, ReconcilerKnows,
                TypeOK, LoopsOK
  <2>3. RowsTell'
    <3>1. CASE UNCHANGED status
      BY <1>a, <1>4, <3>1, RowsTellKept DEF ReconcilerMarkWrite
    <3>2. CASE status' = [status EXCEPT ![j] = "DONE"] /\ reconciler.pc = "writeDone"
      <4>1. Stored(j)'
        BY <1>a, <2>1, <3>2, StoredStays DEF ReconcilerKnows
      <4> QED
        BY <1>a, <1>4, <3>2, <4>1, StoredStays
        DEF ReconcilerMarkWrite, RowsTell, DeliveringHasResult, DoneIsReported, Stored,
            TypeOK, DurableOK
    <3>3. CASE status' = [status EXCEPT ![j] = "FAILED"]
      BY <1>a, <1>4, <3>3, RowsTellLess DEF ReconcilerMarkWrite, TypeOK, DurableOK
    <3> QED
      BY <1>4, <2>1, <3>1, <3>2, <3>3 DEF ReconcilerMarkWrite, SetStatus
  <2> QED
    BY <1>c, <2>2, <2>3, DeliveryParts
<1> QED
  BY <1>1, <1>2, <1>3, <1>4 DEF Reconciler

(* The cleaner and the requests leave the tasks that deliver alone. *)
LEMMA OthersDelivery ==
    ASSUME TypeOK, [Next]_vars, DeliveryInv,
           Cleaner \/ \E j \in Jobs : IngestBundle(j) \/ Elapse(j) \/ FileAges(j)
    PROVE  DeliveryInv'
<1>a. RowsTell /\ WorkersKnow /\ ReconcilerKnows
  BY DeliveryParts
<1>1. UNCHANGED <<workerVars, reconciler>>
  BY DEF Cleaner, CleanerPurge, CleanerFilesInUse, CleanerSweep, CleanerFails, IngestBundle,
         IngestWrite, IngestRecord, IngestRollback, IngestEnqueue, Elapse, FileAges
<1>2. RowsTell'
  <2>1. CASE UNCHANGED <<status, analysed>>
    BY <1>a, <2>1, RowsTellKept
  <2>2. CASE CleanerPurge
    BY <1>a, <2>2, RowsTellLess DEF CleanerPurge
  <2>3. ASSUME NEW j \in Jobs, status' = [status EXCEPT ![j] = "PENDING"], UNCHANGED analysed
        PROVE  RowsTell'
    BY <1>a, <2>3, RowsTellLess DEF TypeOK, DurableOK
  <2>4. \/ UNCHANGED <<status, analysed>>
        \/ CleanerPurge
        \/ \E j \in Jobs : status' = [status EXCEPT ![j] = "PENDING"] /\ UNCHANGED analysed
    BY DEF Cleaner, CleanerFilesInUse, CleanerSweep, CleanerFails, IngestBundle,
           IngestWrite, IngestRecord, SetStatus, IngestRollback, IngestEnqueue, Elapse, FileAges
  <2> QED
    BY <2>1, <2>2, <2>3, <2>4
<1> QED
  BY <1>a, <1>1, <1>2, WorkersKnowKept, ReconcilerKnowsKept, DeliveryParts

(* Whatever a crash makes the tasks forget, the table and Spring keep. *)
LEMMA LifespanDelivery ==
    ASSUME TypeOK, [Next]_vars, DeliveryInv, Start \/ Stop \/ Exit \/ Crash
    PROVE  DeliveryInv'
<1>a. RowsTell /\ WorkersKnow /\ ReconcilerKnows
  BY DeliveryParts
<1>1. RowsTell'
  BY <1>a, RowsTellKept DEF Start, Stop, Exit, Crash
<1>2. WorkersKnow'
  <2>1. CASE Crash
    BY <2>1 DEF Crash, WorkersKnow
  <2>2. CASE UNCHANGED workerVars
    BY <1>a, <2>2, WorkersKnowKept
  <2> QED
    BY <2>1, <2>2 DEF Start, Stop, Exit
<1>3. ReconcilerKnows'
  <2>1. CASE reconciler' = ReconcilerIdle
    BY <2>1 DEF ReconcilerKnows, ReconcilerIdle
  <2>2. CASE UNCHANGED reconciler
    BY <1>a, <2>2, ReconcilerKnowsKept
  <2> QED
    BY <2>1, <2>2 DEF Start, Stop, Exit, Crash
<1> QED
  BY <1>1, <1>2, <1>3, DeliveryParts

LEMMA NextDelivery ==
    ASSUME TypeOK, [Next]_vars, DeliveryInv
    PROVE  DeliveryInv'
<1>1. CASE UNCHANGED vars
  BY <1>1 DEF DeliveryInv, DeliveringHasResult, DoneIsReported, Stored
<1> QED
  BY <1>1, WorkerDelivery, ReaperDelivery, ReconcilerDelivery, OthersDelivery,
     LifespanDelivery DEF Next

(* The delivery invariant: the result is committed with DELIVERING, and a  *)
(* worker or a reconciler that is about to mark a job DONE has had a 2xx   *)
(* or a 409 for it, so that Spring holds a report of its incident.         *)
THEOREM DeliveryCorrect == Spec => []DeliveryInv
<1>1. Init => DeliveryInv
  BY DEF Init, DeliveryInv, DeliveringHasResult, DoneIsReported, ReconcilerIdle
<1>2. TypeOK /\ DeliveryInv /\ [Next]_vars => DeliveryInv'
  BY NextDelivery
<1> QED
  BY <1>1, <1>2, TypeCorrect, PTL DEF Spec

(* A row that delivery_reconciler.py selects as DELIVERING always has the  *)
(* result it restores, across crashes and failed commits.                  *)
THEOREM ResultSurvives == Spec => []DeliveringHasResult
<1>1. DeliveryInv => DeliveringHasResult
  BY DEF DeliveryInv
<1> QED
  BY <1>1, DeliveryCorrect, PTL

(* _mark_done never hides a report that was lost: with a runner that       *)
(* always produces a report, a DONE job has one stored in Spring, for any  *)
(* number of jobs, workers, restarts and failed operations.                *)
THEOREM NoReportDropped == Spec => []DoneIsReported
<1>1. DeliveryInv => DoneIsReported
  BY DEF DeliveryInv
<1> QED
  BY <1>1, DeliveryCorrect, PTL

=============================================================================
