---------------------------- MODULE OneLifeProofs ----------------------------
(***************************************************************************)
(* While one process lives (MaxStarts = 1: no crash, no shutdown), for any *)
(* number of jobs, workers and failed operations: a job is in one place,   *)
(* its file is there until it has ended, and its row, the steps it takes   *)
(* and what Spring holds agree.                                            *)
(***************************************************************************)
EXTENDS CarrierProofs

USE DEF vars, rowVars, workerVars, loopVars

-----------------------------------------------------------------------------
(* Where a job is. *)

Works(j) == \E w \in Workers : wjob[w] = j

Sending == {"post", "readDone", "writeDone", "readFailed", "writeFailed"}
Sent    == {"DELIVERING", "DONE", "FAILED"}

(* Requests are served in the one life only, and nothing is left of one    *)
(* before it.                                                              *)
OnceUp ==
    /\ phase # "serving" => \A j \in Jobs : status[j] = "absent" /\ ingest[j] = "new"
    /\ phase # "down" => starts = 1
    /\ phase # "stopping"

(* The place a worker is at tells the status of its job. *)
WorkerRow(w) ==
    LET j == wjob[w] IN
    /\ wpc[w] = "get" => j = NoJob
    /\ wpc[w] \in Early => status[j] = "PENDING"
    /\ wpc[w] \in Early \ {"load"} => wread[w] = "PENDING"
    /\ wpc[w] \in Analysing \ {"commitAgain"} => status[j] = "RUNNING"
    /\ wpc[w] \in Analysing /\ status[j] = "RUNNING" => j \notin due
    /\ wpc[w] = "commitAgain" => status[j] \in {"RUNNING"} \cup Sent
    /\ wpc[w] \in Sending => status[j] \in Sent
    /\ wpc[w] = "notify" => status[j] = "FAILED" /\ j \notin reconciler.todo
    /\ wpc[w] = "discard" => status[j] \in TERMINAL_STATUSES

WorkerRows == \A w \in Workers : WorkerRow(w)

WorksOnce == \A v, w \in Workers : wjob[v] = wjob[w] /\ wjob[v] # NoJob => v = w

(* A job a worker holds is on no list of the reaper. *)
WorksApart ==
    \A j \in Jobs : Works(j) =>
        /\ ~Queued(j) /\ ~Recorded(j)
        /\ j \notin reaper.enq /\ j \notin reaper.take /\ j \notin reaper.fail

(* So does the list a job is on. *)
ListsTell ==
    /\ \A j \in Jobs : Carried(j) => status[j] = "PENDING"
    /\ \A j \in reaper.take : status[j] = "RUNNING"
    /\ \A j \in reaper.fail : status[j] = "FAILED" /\ j \notin reconciler.todo
    /\ \A j \in reconciler.todo : status[j] \in Sent
    /\ reaper.pc = "discard" => reaper.cur \in reaper.fail
    /\ CurInTodo
    /\ reconciler.pc = "discard" => status[reconciler.cur] \in TERMINAL_STATUSES

(* Nobody works on a row that may be purged. *)
DueFree == \A j \in due : status[j] \in TERMINAL_STATUSES => ~Held(j)

PlaceInv == OnceUp /\ WorkerRows /\ WorksOnce /\ WorksApart /\ ListsTell /\ DueFree

(* A worker that does not move, whose row stays or is ended by another. *)
LEMMA RowStands ==
    ASSUME NEW v, WorkerRow(v), wpc'[v] = wpc[v], wjob'[v] = wjob[v], wread'[v] = wread[v],
           NEW j, j = wjob[v],
           \/ wpc[v] = "get"
           \/ status'[j] = status[j]
           \/ j \in reconciler.todo /\ status[j] \in Sent /\ status'[j] \in TERMINAL_STATUSES,
           j \in due' => \/ j \in due \/ status'[j] # "RUNNING" \/ wpc[v] \notin Analysing,
           j \in reconciler'.todo => j \in reconciler.todo \/ status[j] = "DELIVERING"
    PROVE  WorkerRow(v)'
<1>1. wjob'[v] = j
  OBVIOUS
<1>2. CASE wpc[v] = "get"
  BY <1>2 DEF WorkerRow, Early, Analysing, Sending
<1>3. CASE status'[j] = status[j]
  BY <1>1, <1>3 DEF WorkerRow, Analysing
<1>4. CASE j \in reconciler.todo /\ status[j] \in Sent /\ status'[j] \in TERMINAL_STATUSES
  BY <1>1, <1>4 DEF WorkerRow, Analysing, Early, Sending, Sent, TERMINAL_STATUSES
<1> QED
  BY <1>2, <1>3, <1>4

(* A worker that lets go of its job. *)
LEMMA GetRow ==
    ASSUME TypeOK, NEW w \in Workers, Goto(w, "get")
    PROVE  WorkerRow(w)'
<1>1. wpc'[w] = "get" /\ wjob'[w] = NoJob
  BY DEF Goto, TypeOK, WorkersOK
<1> QED
  BY <1>1 DEF WorkerRow, Early, Analysing, Sending

(* A commit of another status than the one the session has read. *)
LEMMA CommitOutcome ==
    ASSUME TypeOK, NEW w \in Workers, wpc[w] # "get", NEW j, j = wjob[w], status[j] # "absent",
           NEW read, NEW s, read # s, NEW ok, NEW raised, WorkerCommit(w, read, s, ok, raised)
    PROVE  \/ Goto(w, ok) /\ status'[j] = s /\ j \notin due'
           \/ /\ Goto(w, raised)
              /\ \/ status'[j] = s /\ j \notin due'
                 \/ UNCHANGED <<status, due>>
  BY DEF WorkerCommit, CanSave, SaveStatus, SetStatus, TypeOK, DurableOK, WorkersOK

(* What a worker may do to the row of the job it holds. *)
RowEnds(j) ==
    \/ status'[j] = status[j]
    \/ status[j] = "PENDING" /\ status'[j] \in {"RUNNING", "FAILED"}
    \/ status[j] = "RUNNING" /\ status'[j] \in Sent
    \/ status[j] \in Sent /\ status'[j] \in TERMINAL_STATUSES

LEMMA OwnRow ==
    ASSUME TypeOK, PlaceInv, NEW w \in Workers, Worker(w), wpc[w] # "get",
           NEW j \in Jobs, j = wjob[w]
    PROVE  WorkerRow(w)' /\ RowEnds(j)
<1> USE DEF Sent, TERMINAL_STATUSES
<1>a. WorkerRow(w)
  BY DEF PlaceInv, WorkerRows
<1>b. reconciler' = reconciler
  BY WorkerHolds
<1>c. \A i \in reconciler.todo : status[i] \in Sent
  BY DEF PlaceInv, ListsTell
<1>d. ASSUME NEW pc, pc # "get", Goto(w, pc)
      PROVE  /\ wpc'[w] = pc /\ wjob'[w] = j
             /\ pc \in {"commitMissing", "commitRunning"} => wread'[w] = wread[w]
  BY <1>d DEF Goto, TypeOK, WorkersOK
<1>1. CASE WorkerLoad(w)
  <2>1. CASE Goto(w, "get")
    BY <1>1, <2>1, GetRow DEF WorkerLoad, RowEnds
  <2>2. CASE /\ wpc' = [wpc EXCEPT ![w] = "restore"]
             /\ wread' = [wread EXCEPT ![w] = status[j]]
             /\ wjob' = wjob
    <3>1. wpc'[w] = "restore" /\ wread'[w] = status[j] /\ wjob'[w] = j
      BY <2>2 DEF TypeOK, WorkersOK
    <3>2. status[j] = "PENDING" /\ UNCHANGED <<status, due>>
      BY <1>a, <1>1 DEF WorkerLoad, WorkerRow, Early
    <3> QED
      BY <3>1, <3>2 DEF WorkerRow, RowEnds, Early, Analysing, Sending
  <2> QED
    BY <1>1, <2>1, <2>2 DEF WorkerLoad
<1>2. CASE WorkerRestore(w)
  <2>1. status[j] = "PENDING" /\ wread[w] = "PENDING" /\ UNCHANGED <<status, due>>
    BY <1>a, <1>2 DEF WorkerRestore, WorkerRow, Early
  <2>2. ASSUME NEW pc \in {"commitMissing", "commitRunning"}, Goto(w, pc)
        PROVE  WorkerRow(w)'
    <3>1. wpc'[w] = pc /\ wjob'[w] = j /\ wread'[w] = wread[w]
      BY <1>d, <2>2
    <3> QED
      BY <2>1, <2>2, <3>1 DEF WorkerRow, Early, Analysing, Sending
  <2> QED
    BY <1>2, <2>1, <2>2, GetRow DEF WorkerRestore, RowEnds
<1>3. CASE WorkerRca(w)
  <2>1. status[j] = "RUNNING" /\ j \notin due /\ UNCHANGED <<status, due>>
    BY <1>a, <1>3 DEF WorkerRca, WorkerRow, Analysing
  <2>2. PICK pc \in {"commitDelivering", "commitNone", "commitFailed"} : Goto(w, pc)
    BY <1>3 DEF WorkerRca
  <2>3. wpc'[w] = pc /\ wjob'[w] = j
    BY <1>d, <2>2
  <2> QED
    BY <2>1, <2>3 DEF WorkerRow, RowEnds, Early, Analysing, Sending
<1>4. CASE WorkerCommitAgain(w)
  BY <1>4, GetRow DEF WorkerCommitAgain, RowEnds
<1>5. CASE WorkerPost(w) \/ WorkerMarkRead(w)
  <2>1. wpc[w] \in Sending /\ status[j] \in Sent /\ UNCHANGED <<status, due>>
    BY <1>a, <1>5 DEF WorkerPost, WorkerMarkRead, WorkerRow, Sending
  <2>2. PICK pc \in {"readDone", "readFailed", "get", "writeDone", "writeFailed", "discard"} :
            Goto(w, pc) /\ (pc = "discard" => status[j] # "DELIVERING")
    <3>1. CASE WorkerPost(w)
      BY <3>1 DEF WorkerPost
    <3>2. CASE WorkerMarkRead(w)
      BY <3>2 DEF WorkerMarkRead
    <3> QED
      BY <1>5, <3>1, <3>2
  <2>3. CASE pc = "get"
    BY <2>1, <2>2, <2>3, GetRow DEF RowEnds
  <2>4. CASE pc # "get"
    <3>1. wpc'[w] = pc /\ wjob'[w] = j
      BY <1>d, <2>2, <2>4
    <3> QED
      BY <2>1, <2>2, <2>4, <3>1 DEF WorkerRow, RowEnds, Early, Analysing, Sending
  <2> QED
    BY <2>3, <2>4
<1>6. CASE WorkerNotify(w)
  <2>1. status[j] = "FAILED" /\ UNCHANGED <<status, due>> /\ Goto(w, "discard")
    BY <1>a, <1>6 DEF WorkerNotify, WorkerRow
  <2>2. wpc'[w] = "discard" /\ wjob'[w] = j
    BY <1>d, <2>1
  <2> QED
    BY <2>1, <2>2 DEF WorkerRow, RowEnds, Early, Analysing, Sending
<1>7. CASE WorkerDiscard(w)
  BY <1>7, GetRow DEF WorkerDiscard, RowEnds
<1>8. CASE WorkerCommitMissing(w)
  <2>1. PICK read \in {wread[w], "absent"} : WorkerCommit(w, read, "FAILED", "notify", "get")
    BY <1>8 DEF WorkerCommitMissing
  <2>2. status[j] = "PENDING" /\ wread[w] = "PENDING"
    BY <1>a, <1>8 DEF WorkerCommitMissing, WorkerRow, Early
  <2>3. \/ Goto(w, "notify") /\ status'[j] = "FAILED"
        \/ Goto(w, "get") /\ (status'[j] = "FAILED" \/ status' = status)
    BY <2>1, <2>2, CommitOutcome
  <2>4. CASE Goto(w, "notify") /\ status'[j] = "FAILED"
    <3>1. wpc'[w] = "notify" /\ wjob'[w] = j
      BY <1>d, <2>4
    <3>2. j \notin reconciler'.todo
      BY <1>b, <1>c, <2>2
    <3> QED
      BY <2>2, <2>4, <3>1, <3>2 DEF WorkerRow, RowEnds, Early, Analysing, Sending
  <2> QED
    BY <2>2, <2>3, <2>4, GetRow DEF RowEnds
<1>9. CASE WorkerCommitRunning(w)
  <2>1. WorkerCommit(w, wread[w], "RUNNING", "rca", "get")
    BY <1>9 DEF WorkerCommitRunning
  <2>2. status[j] = "PENDING" /\ wread[w] = "PENDING"
    BY <1>a, <1>9 DEF WorkerCommitRunning, WorkerRow, Early
  <2>3. \/ Goto(w, "rca") /\ status'[j] = "RUNNING" /\ j \notin due'
        \/ Goto(w, "get") /\ (status'[j] = "RUNNING" \/ status' = status)
    BY <2>1, <2>2, CommitOutcome
  <2>4. CASE Goto(w, "rca") /\ status'[j] = "RUNNING" /\ j \notin due'
    <3>1. wpc'[w] = "rca" /\ wjob'[w] = j
      BY <1>d, <2>4
    <3> QED
      BY <2>2, <2>4, <3>1 DEF WorkerRow, RowEnds, Early, Analysing, Sending
  <2> QED
    BY <2>2, <2>3, <2>4, GetRow DEF RowEnds
<1>10. ASSUME NEW s \in Sent, NEW ok \in {"post", "discard", "notify"},
              wpc[w] \in {"commitDelivering", "commitNone", "commitFailed"},
              NEW raised \in {"get", "commitAgain"}, WorkerCommit(w, "RUNNING", s, ok, raised),
              s = "DELIVERING" <=> ok = "post", s = "FAILED" <=> ok = "notify"
       PROVE  WorkerRow(w)' /\ RowEnds(j)
  <2>1. status[j] = "RUNNING" /\ j \notin due /\ j \notin reconciler'.todo
    BY <1>a, <1>b, <1>c, <1>10 DEF WorkerRow, Analysing
  <2>2. \/ Goto(w, ok) /\ status'[j] = s
        \/ Goto(w, raised) /\ (status'[j] = s \/ UNCHANGED <<status, due>>)
    BY <1>10, <2>1, CommitOutcome
  <2>3. CASE Goto(w, ok) /\ status'[j] = s
    <3>1. wpc'[w] = ok /\ wjob'[w] = j
      BY <1>d, <1>10, <2>3
    <3> QED
      BY <1>10, <2>1, <2>3, <3>1 DEF WorkerRow, RowEnds, Early, Analysing, Sending
  <2>4. CASE Goto(w, "get") /\ (status'[j] = s \/ UNCHANGED <<status, due>>)
    BY <2>1, <2>4, GetRow DEF RowEnds
  <2>5. CASE Goto(w, "commitAgain") /\ (status'[j] = s \/ UNCHANGED <<status, due>>)
    <3>1. wpc'[w] = "commitAgain" /\ wjob'[w] = j
      BY <1>d, <2>5
    <3> QED
      BY <2>1, <2>5, <3>1 DEF WorkerRow, RowEnds, Early, Analysing, Sending
  <2> QED
    BY <1>10, <2>2, <2>3, <2>4, <2>5
<1>11. CASE WorkerCommitDelivering(w)
  BY <1>10, <1>11 DEF WorkerCommitDelivering
<1>12. CASE WorkerCommitNone(w)
  BY <1>10, <1>12 DEF WorkerCommitNone
<1>13. CASE WorkerCommitFailed(w)
  BY <1>10, <1>13 DEF WorkerCommitFailed
<1>14. CASE WorkerMarkWrite(w)
  <2>1. PICK s \in {"DONE", "FAILED"} : WorkerCommit(w, "DELIVERING", s, "discard", "get")
    BY <1>14 DEF WorkerMarkWrite
  <2>2. status[j] \in Sent
    BY <1>a, <1>14 DEF WorkerMarkWrite, WorkerRow, Sending
  <2>3. \/ Goto(w, "discard") /\ status'[j] = s
        \/ Goto(w, "get") /\ (status'[j] = s \/ status' = status)
    BY <2>1, <2>2, CommitOutcome
  <2>4. CASE Goto(w, "discard") /\ status'[j] = s
    <3>1. wpc'[w] = "discard" /\ wjob'[w] = j
      BY <1>d, <2>4
    <3> QED
      BY <2>2, <2>4, <3>1 DEF WorkerRow, RowEnds, Early, Analysing, Sending
  <2> QED
    BY <2>2, <2>3, <2>4, GetRow DEF RowEnds
<1>15. ~WorkerGet(w)
  BY DEF WorkerGet
<1> QED
  BY <1>1, <1>2, <1>3, <1>4, <1>5, <1>6, <1>7, <1>8, <1>9, <1>11, <1>12, <1>13, <1>14, <1>15
  DEF Worker

(* A worker takes a job from the queue. *)
LEMMA GetPlace ==
    ASSUME TypeOK, CarrierInv, PlaceInv, NEW w \in Workers, WorkerGet(w)
    PROVE  PlaceInv'
<1> PICK h : h = Head(queue)
  OBVIOUS
<1>1. queue \in Seq(Jobs) /\ queue # <<>> /\ queue' = Tail(queue) /\ h \in Jobs
  BY HeadTailProperties DEF WorkerGet, TypeOK, ProcessOK
<1>2. /\ Queued(h) /\ ~Queued(h)'
      /\ \A j : j # h => (Queued(j)' <=> Queued(j))
  BY <1>1, HeadLeaves DEF CarrierInv, LineInv, WaitsOnce
<1>3. /\ wpc[w] = "get" /\ wpc'[w] = "load" /\ wjob'[w] = h /\ wjob[w] = NoJob
      /\ \A v \in Workers : v # w => wpc'[v] = wpc[v] /\ wjob'[v] = wjob[v]
      /\ wread' = wread
  BY DEF WorkerGet, TypeOK, WorkersOK, PlaceInv, WorkerRows, WorkerRow
<1>4. UNCHANGED <<status, due, ingest, reaper, reconciler, phase, starts>>
  BY DEF WorkerGet
<1>5. status[h] = "PENDING"
  BY <1>1, <1>2 DEF PlaceInv, ListsTell, Carried
<1>6. ~Works(h) /\ ~Recorded(h) /\ h \notin reaper.enq \cup reaper.take \cup reaper.fail
  BY <1>1, <1>2, <1>5 DEF PlaceInv, WorksApart, ListsTell, CarrierInv, LineInv, WaitsOnce
<1>7. \A j : Works(j)' => Works(j) \/ j = h
  BY <1>3 DEF Works
<1>8. \A j : Carried(j)' => Carried(j)
  BY <1>2, <1>3, <1>4 DEF Carried, Taken, Recorded
<1>9. OnceUp'
  BY <1>4 DEF PlaceInv, OnceUp
<1>10. WorkerRows'
  <2>1. WorkerRow(w)'
    BY <1>3, <1>4, <1>5 DEF WorkerRow, Early, Analysing, Sending
  <2>2. ASSUME NEW v \in Workers, v # w  PROVE WorkerRow(v)'
    <3>1. WorkerRow(v)
      BY DEF PlaceInv, WorkerRows
    <3> QED
      BY <1>3, <1>4, <2>2, <3>1, RowStands
  <2> QED
    BY <2>1, <2>2 DEF WorkerRows
<1>11. WorksOnce'
  BY <1>3, <1>6 DEF PlaceInv, WorksOnce, Works
<1>12. WorksApart'
  BY <1>2, <1>4, <1>6, <1>7 DEF PlaceInv, WorksApart, Recorded
<1>13. ListsTell'
  BY <1>4, <1>8 DEF PlaceInv, ListsTell, CurInTodo
<1>14. DueFree'
  <2>1. \A j : Held(j)' => Held(j) \/ j = h
    BY <1>3, <1>4 DEF Held
  <2> QED
    BY <1>4, <1>5, <2>1 DEF PlaceInv, DueFree, TERMINAL_STATUSES
<1> QED
  BY <1>9, <1>10, <1>11, <1>12, <1>13, <1>14 DEF PlaceInv

LEMMA WorkerPlace ==
    ASSUME TypeOK, CarrierInv, PlaceInv, NEW w \in Workers, Worker(w)
    PROVE  PlaceInv'
<1>1. CASE wpc[w] = "get"
  <2>1. WorkerGet(w)
    BY <1>1 DEF Worker, WorkerLoad, WorkerRestore, WorkerCommitMissing, WorkerCommitRunning,
       WorkerRca, WorkerCommitDelivering, WorkerCommitNone, WorkerCommitFailed,
       WorkerCommitAgain, WorkerPost, WorkerMarkRead, WorkerMarkWrite, WorkerNotify,
       WorkerDiscard
  <2> QED
    BY <2>1, GetPlace
<1>2. CASE wpc[w] # "get"
  <2> PICK h \in Jobs : h = wjob[w]
    BY <1>2 DEF TypeOK, WorkersOK
  <2>1. /\ UNCHANGED <<queue, ingest, phase, reaper, reconciler>>
        /\ \A v \in Workers : v # w => wpc'[v] = wpc[v] /\ wjob'[v] = wjob[v]
                                                        /\ wread'[v] = wread[v]
        /\ wjob'[w] = h \/ wjob'[w] = NoJob
    BY <1>2, WorkerHolds
  <2>2. /\ \A j \in Jobs : j # h => status'[j] = status[j]
        /\ due' \subseteq due
        /\ status'[h] # status[h] => h \notin due'
    BY WorkerMoves DEF RowMoves, SetStatus, TypeOK, DurableOK
  <2>3. WorkerRow(w)' /\ RowEnds(h)
    BY <1>2, OwnRow
  <2>4. Works(h) /\ h # NoJob
    BY JobsFinite DEF Works
  <2>5. \A v \in Workers : v # w => wjob[v] # h
    BY <2>4 DEF PlaceInv, WorksOnce
  <2>6. \A j : j # NoJob /\ Works(j)' => Works(j)
    BY <2>1, <2>4 DEF Works
  <2>7. OnceUp'
    <3>1. starts' = starts
      BY DEF Worker, WorkerGet, WorkerLoad, WorkerRestore, WorkerCommitMissing,
         WorkerCommitRunning, WorkerRca, WorkerCommitDelivering, WorkerCommitNone,
         WorkerCommitFailed, WorkerCommitAgain, WorkerPost, WorkerMarkRead, WorkerMarkWrite,
         WorkerNotify, WorkerDiscard, WorkerCommit
    <3>2. status[h] = "absent" => status' = status
      BY WorkerMoves DEF RowMoves
    <3>3. status[h] # "absent"
      BY <1>2 DEF PlaceInv, WorkerRows, WorkerRow, WorkersOK, TypeOK, WorkerPCs, Early, Analysing,
                  Sending, Sent, TERMINAL_STATUSES
    <3> QED
      BY <2>1, <3>1, <3>3 DEF PlaceInv, OnceUp
  <2>8. WorkerRows'
    <3>1. ASSUME NEW v \in Workers, v # w  PROVE WorkerRow(v)'
      <4>1. WorkerRow(v) /\ wjob[v] # h /\ (wpc[v] = "get" \/ wjob[v] \in Jobs)
        BY <2>5, <3>1 DEF PlaceInv, WorkerRows, TypeOK, WorkersOK
      <4> QED
        BY <2>1, <2>2, <3>1, <4>1, RowStands
    <3> QED
      BY <2>3, <3>1 DEF WorkerRows
  <2>9. WorksOnce'
    BY <2>1, <2>5 DEF PlaceInv, WorksOnce
  <2>10. WorksApart'
    <3>1. \A j : (Queued(j)' <=> Queued(j)) /\ (Recorded(j)' <=> Recorded(j))
      BY <2>1 DEF Queued, Recorded
    <3> QED
      BY <2>1, <2>6, <3>1, JobsFinite DEF PlaceInv, WorksApart
  <2>11. ListsTell'
    <3>1. ASSUME NEW j \in Jobs, Carried(j)'  PROVE status'[j] = "PENDING"
      <4>1. CASE Taken(j)'
        <5>1. PICK v \in Workers : wpc'[v] \in Early /\ wjob'[v] = j
          BY <4>1 DEF Taken
        <5> QED
          BY <2>8, <5>1 DEF WorkerRows, WorkerRow
      <4>2. CASE ~Taken(j)'
        <5>1. Queued(j) \/ Recorded(j) \/ j \in reaper.enq
          BY <2>1, <3>1, <4>2 DEF Carried, Queued, Recorded
        <5>2. j # h
          BY <2>4, <5>1 DEF PlaceInv, WorksApart
        <5> QED
          BY <2>2, <5>1, <5>2 DEF PlaceInv, ListsTell, Carried
      <4> QED
        BY <4>1, <4>2
    <3>2. h \notin reaper.take /\ h \notin reaper.fail
      BY <2>4 DEF PlaceInv, WorksApart
    <3>a. reconciler.todo \in SUBSET Jobs /\ reaper.take \in SUBSET Jobs /\ reaper.fail \in SUBSET Jobs
      BY DEF TypeOK, LoopsOK
    <3>3. \A j \in reconciler.todo : status'[j] \in Sent
      BY <2>2, <2>3, <3>a DEF PlaceInv, ListsTell, RowEnds, Sent, TERMINAL_STATUSES
    <3>4. reconciler.pc = "discard" => status'[reconciler.cur] \in TERMINAL_STATUSES
      BY <2>2, <2>3, <3>a DEF PlaceInv, ListsTell, CurInTodo, RowEnds, Sent, TERMINAL_STATUSES
    <3> QED
      BY <2>1, <2>2, <3>1, <3>2, <3>3, <3>4, <3>a DEF PlaceInv, ListsTell, CurInTodo
  <2>12. DueFree'
    <3>1. \A j \in Jobs : Held(j)' => Held(j)
      BY <2>1, <2>6, JobsFinite DEF Held, Works
    <3>2. due' \subseteq Jobs
      BY <2>2 DEF TypeOK, DurableOK
    <3> QED
      BY <2>2, <3>1, <3>2 DEF PlaceInv, DueFree
  <2> QED
    BY <2>7, <2>8, <2>9, <2>10, <2>11, <2>12 DEF PlaceInv
<1> QED
  BY <1>1, <1>2

(* A job that is held has a row. *)
LEMMA WorksOnRow ==
    ASSUME TypeOK, PlaceInv, NEW j \in Jobs, Works(j)
    PROVE  status[j] # "absent"
<1>1. PICK w \in Workers : wjob[w] = j
  BY DEF Works
<1>2. wpc[w] \in WorkerPCs /\ WorkerRow(w) /\ wpc[w] # "get"
  BY <1>1, JobsFinite DEF PlaceInv, WorkerRows, WorkerRow, TypeOK, WorkersOK
<1> QED
  BY <1>1, <1>2 DEF WorkerRow, WorkerPCs, Early, Analysing, Sending, Sent, TERMINAL_STATUSES

(* Nobody works on a job the reaper finds stuck. *)
LEMMA StuckIsFree ==
    ASSUME PlaceInv, TypeOK, NEW j \in Stuck
    PROVE  status[j] = "RUNNING" /\ ~Works(j)
<1>1. j \in Jobs /\ status[j] = "RUNNING" /\ j \in due
  BY DEF Stuck, PlaceInv, OnceUp
<1>2. ASSUME NEW w \in Workers, wjob[w] = j  PROVE FALSE
  <2>1. wpc[w] \in WorkerPCs /\ WorkerRow(w) /\ wpc[w] # "get"
    BY <1>1, <1>2, JobsFinite DEF PlaceInv, WorkerRows, WorkerRow, TypeOK, WorkersOK
  <2> QED
    BY <1>1, <1>2, <2>1 DEF WorkerRow, WorkerPCs, Early, Analysing, Sending, Sent,
                            TERMINAL_STATUSES
<1> QED
  BY <1>1, <1>2 DEF Works

(* The workers stay, and no row moves but those on the reaper's list. *)
LEMMA WorkersStand ==
    ASSUME TypeOK, PlaceInv, UNCHANGED <<workerVars, reconciler>>, due' \subseteq due,
           \A j \in Jobs : status'[j] = status[j] \/ j \in reaper.take
    PROVE  WorkerRows' /\ WorksOnce' /\ \A j : Works(j)' <=> Works(j)
<1>1. ASSUME NEW v \in Workers  PROVE WorkerRow(v)'
  <2>1. WorkerRow(v) /\ (wpc[v] = "get" \/ wjob[v] \in Jobs)
    BY DEF PlaceInv, WorkerRows, TypeOK, WorkersOK
  <2>2. wpc[v] = "get" \/ status'[wjob[v]] = status[wjob[v]]
    BY <2>1 DEF PlaceInv, WorksApart, Works
  <2> QED
    BY <2>1, <2>2, RowStands
<1> QED
  BY <1>1 DEF WorkerRows, PlaceInv, WorksOnce, Works

(* The reaper's lists only get shorter. *)
LEMMA ListsShrink ==
    ASSUME TypeOK, PlaceInv, UNCHANGED <<status, due, ingest, workerVars, reconciler>>, OnceUp',
           \A j : Queued(j)' => Queued(j) \/ j \in reaper.enq,
           reaper'.enq \subseteq reaper.enq, reaper'.take \subseteq reaper.take,
           reaper'.fail \subseteq reaper.fail,
           reaper'.pc = "discard" => reaper'.cur \in reaper'.fail
    PROVE  PlaceInv'
<1>1. WorkerRows' /\ WorksOnce' /\ \A j : Works(j)' <=> Works(j)
  BY WorkersStand
<1>2. \A j : (Recorded(j)' <=> Recorded(j)) /\ (Taken(j)' <=> Taken(j))
  BY DEF Recorded, Taken
<1>3. \A j : Carried(j)' => Carried(j)
  BY <1>2 DEF Carried
<1>4. WorksApart'
  BY <1>1, <1>2 DEF PlaceInv, WorksApart
<1>5. ListsTell'
  BY <1>3 DEF PlaceInv, ListsTell, CurInTodo
<1>6. DueFree'
  BY DEF PlaceInv, DueFree, Held
<1> QED
  BY <1>1, <1>4, <1>5, <1>6 DEF PlaceInv

LEMMA ReaperPlace ==
    ASSUME TypeOK, CarrierInv, PlaceInv, Reaper
    PROVE  PlaceInv'
<1>a. /\ UNCHANGED <<ingest, workerVars, reconciler, starts>>
      /\ phase' = phase \/ (phase = "starting" /\ phase' = "serving")
  BY DEF Reaper, ReaperSelectPending, ReaperEnqueuePending, ReaperSelectRunning, ReaperCommit,
         ReaperEnqueue, ReaperNotify, ReaperDiscard, ReaperReturn
<1>b. ASSUME UNCHANGED status  PROVE OnceUp'
  BY <1>a, <1>b DEF PlaceInv, OnceUp
<1>c. ASSUME UNCHANGED queue  PROVE \A j : Queued(j)' <=> Queued(j)
  BY <1>c DEF Queued
<1>d. ASSUME ReaperReturn
      PROVE  /\ reaper'.enq = {} /\ reaper'.take = {} /\ reaper'.fail = {}
             /\ reaper'.pc # "discard"
  BY <1>d DEF ReaperReturn, ReaperIdle
<1>e. /\ reaper.take \in SUBSET Jobs /\ reaper.enq \in SUBSET Jobs
      /\ reaper.fail \in SUBSET Jobs /\ reconciler.todo \in SUBSET Jobs
  BY DEF TypeOK, LoopsOK
<1>1. CASE ReaperSelectPending
  <2>1. UNCHANGED <<status, due, queue>>
    BY <1>1 DEF ReaperSelectPending
  <2>2. CASE ReaperReturn
    BY <1>a, <1>b, <1>c, <1>d, <2>1, <2>2, ListsShrink
  <2>3. CASE reaper' = [reaper EXCEPT !.pc = "enqueuePending", !.enq = Pending]
    <3>1. phase = "starting"
      BY <1>1 DEF ReaperSelectPending, CarrierInv, PhaseInv
    <3>2. Pending = {}
      BY <3>1 DEF Pending, PlaceInv, OnceUp
    <3>3. /\ reaper'.enq = {} /\ reaper'.take = reaper.take /\ reaper'.fail = reaper.fail
          /\ reaper'.pc # "discard"
      BY <2>3, <3>2 DEF TypeOK, LoopsOK
    <3> QED
      BY <1>a, <1>b, <1>c, <2>1, <3>3, ListsShrink
  <2> QED
    BY <1>1, <2>2, <2>3 DEF ReaperSelectPending
<1>2. CASE ReaperEnqueuePending \/ ReaperEnqueue
  <2>1. PICK s \in SetToSeqs(reaper.enq) : Enqueue(s)
    BY <1>2 DEF ReaperEnqueuePending, ReaperEnqueue
  <2>2. s \in Seq(Jobs) /\ \A j : (\E k \in DOMAIN s : s[k] = j) <=> j \in reaper.enq
    BY <1>e, OrderingIsSeq, OrderingCovers
  <2>3. \A j : Queued(j)' => Queued(j) \/ j \in reaper.enq
    BY <2>1, <2>2, EnqueueQueues DEF TypeOK, ProcessOK
  <2>4. /\ reaper'.enq = {} /\ reaper'.take \in {reaper.take, {}}
        /\ reaper'.fail \in {reaper.fail, {}} /\ reaper'.pc # "discard"
    <3>1. CASE ReaperReturn
      BY <1>d, <3>1
    <3>2. CASE ~ReaperReturn
      BY <1>2, <3>2 DEF ReaperEnqueuePending, ReaperEnqueue, TypeOK, LoopsOK
    <3> QED
      BY <3>1, <3>2
  <2>5. UNCHANGED <<status, due>>
    BY <1>2 DEF ReaperEnqueuePending, ReaperEnqueue
  <2> QED
    BY <1>a, <1>b, <2>3, <2>4, <2>5, ListsShrink
<1>3. CASE ReaperSelectRunning
  <2>1. UNCHANGED <<status, due, queue>>
    BY <1>3 DEF ReaperSelectRunning
  <2>2. CASE ReaperReturn
    BY <1>a, <1>b, <1>c, <1>d, <2>1, <2>2, ListsShrink
  <2>3. CASE reaper' = [reaper EXCEPT !.pc = "commit", !.take = Stuck]
    <3>1. /\ reaper'.enq = reaper.enq /\ reaper'.take = Stuck /\ reaper'.fail = reaper.fail
          /\ reaper'.pc = "commit"
      BY <2>3 DEF TypeOK, LoopsOK
    <3>2. \A j \in Stuck : j \in Jobs /\ status[j] = "RUNNING" /\ ~Works(j)
      BY StuckIsFree DEF Stuck
    <3>3. WorkerRows' /\ WorksOnce' /\ \A j : Works(j)' <=> Works(j)
      BY <1>a, <2>1, WorkersStand
    <3>4. \A j : (Carried(j)' <=> Carried(j)) /\ (Queued(j)' <=> Queued(j))
                                              /\ (Recorded(j)' <=> Recorded(j))
      BY <1>a, <2>1, <3>1 DEF Carried, Queued, Taken, Recorded
    <3>5. WorksApart'
      BY <3>1, <3>2, <3>3, <3>4 DEF PlaceInv, WorksApart
    <3>6. ListsTell'
      BY <1>a, <2>1, <3>1, <3>2, <3>4 DEF PlaceInv, ListsTell, CurInTodo
    <3>7. DueFree'
      BY <1>a, <2>1, <3>1, <3>2 DEF PlaceInv, DueFree, Held, TERMINAL_STATUSES
    <3> QED
      BY <1>b, <2>1, <3>3, <3>5, <3>6, <3>7 DEF PlaceInv
  <2> QED
    BY <1>3, <2>2, <2>3 DEF ReaperSelectRunning
<1>4. CASE ReaperCommit
  <2>1. UNCHANGED queue
    BY <1>4 DEF ReaperCommit
  <2>2. CASE UNCHANGED rowVars /\ ReaperReturn
    BY <1>a, <1>b, <1>c, <1>d, <2>1, <2>2, ListsShrink
  <2>3. CASE Reclaim /\ reaper'.take = {}
             /\ reaper'.enq \in {Again, {}} /\ reaper'.fail \in {reaper.take \ Again, {}}
             /\ reaper'.pc # "discard"
    <3>1. /\ due' = due \ reaper.take
          /\ \A j \in Jobs : status'[j] = CASE j \in Again               -> "PENDING"
                                            [] j \in reaper.take \ Again -> "FAILED"
                                            [] OTHER                     -> status[j]
          /\ Again \subseteq reaper.take
      BY <2>3 DEF Reclaim, Again
    <3>2. \A j \in reaper.take : status[j] = "RUNNING" /\ ~Works(j)
      BY <1>e DEF PlaceInv, WorksApart, ListsTell
    <3>3. WorkerRows' /\ WorksOnce' /\ \A j : Works(j)' <=> Works(j)
      <4>1. \A j \in Jobs : status'[j] = status[j] \/ j \in reaper.take
        BY <3>1
      <4> QED
        BY <1>a, <3>1, <4>1, WorkersStand
    <3>4. \A j : (Queued(j)' <=> Queued(j)) /\ (Taken(j)' <=> Taken(j))
                                            /\ (Recorded(j)' <=> Recorded(j))
      BY <1>a, <2>1 DEF Queued, Taken, Recorded
    <3>5. OnceUp'
      BY <1>a, <1>e, <3>1, <3>2 DEF PlaceInv, OnceUp
    <3>6. WorksApart'
      BY <2>3, <3>1, <3>2, <3>3, <3>4 DEF PlaceInv, WorksApart
    <3>7. ListsTell'
      <4>1. ASSUME NEW j \in Jobs, Carried(j)'  PROVE status'[j] = "PENDING"
        <5>1. CASE j \in reaper'.enq
          BY <2>3, <3>1, <5>1
        <5>2. CASE Carried(j)
          BY <3>1, <3>2, <5>2 DEF PlaceInv, ListsTell
        <5> QED
          BY <3>4, <4>1, <5>1, <5>2 DEF Carried
      <4>2. \A j \in reaper'.fail : status'[j] = "FAILED" /\ j \notin reconciler'.todo
        BY <1>a, <1>e, <2>3, <3>1, <3>2 DEF PlaceInv, ListsTell, Sent
      <4>3. \A j \in reconciler.todo : j \notin reaper.take
        BY <3>2 DEF PlaceInv, ListsTell, Sent
      <4>4. \A j \in reconciler.todo : status'[j] = status[j]
        BY <1>e, <3>1, <4>3
      <4> QED
        BY <1>a, <2>3, <4>1, <4>2, <4>4 DEF PlaceInv, ListsTell, CurInTodo
    <3>8. DueFree'
      <4> SUFFICES ASSUME NEW j \in due', status'[j] \in TERMINAL_STATUSES, Held(j)'
                   PROVE  FALSE
        BY DEF DueFree
      <4>1. j \in Jobs /\ j \in due /\ status'[j] = status[j] /\ j \notin reaper.take
        BY <3>1 DEF TypeOK, DurableOK
      <4>2. Held(j)
        BY <1>a, <2>3, <4>1 DEF Held
      <4> QED
        BY <4>1, <4>2 DEF PlaceInv, DueFree
    <3> QED
      BY <3>3, <3>5, <3>6, <3>7, <3>8 DEF PlaceInv
  <2> QED
    <3>1. CASE /\ Reclaim
               /\ reaper' = [reaper EXCEPT !.pc = "enqueue", !.take = {},
                                           !.enq = Again, !.fail = reaper.take \ Again]
      <4>1. /\ reaper'.take = {} /\ reaper'.enq = Again /\ reaper'.fail = reaper.take \ Again
            /\ reaper'.pc = "enqueue"
        BY <3>1 DEF TypeOK, LoopsOK
      <4> QED
        BY <2>3, <3>1, <4>1
    <3>2. CASE Reclaim /\ ReaperReturn
      BY <1>d, <2>3, <3>2
    <3> QED
      BY <1>4, <2>2, <3>1, <3>2 DEF ReaperCommit
<1>5. CASE ReaperNotify \/ ReaperDiscard
  <2>1. UNCHANGED <<status, due, queue>>
    BY <1>5 DEF ReaperNotify, ReaperDiscard
  <2>2. /\ reaper'.enq \in {reaper.enq, {}} /\ reaper'.take \in {reaper.take, {}}
        /\ reaper'.fail \subseteq reaper.fail
        /\ reaper'.pc = "discard" => reaper'.cur \in reaper'.fail
    <3>1. CASE ReaperNotify
      <4>1. PICK j \in reaper.fail : reaper' = [reaper EXCEPT !.pc = "discard", !.cur = j]
        BY <3>1 DEF ReaperNotify
      <4> QED
        BY <1>e, <4>1 DEF TypeOK, LoopsOK
    <3>2. CASE ReaperReturn
      BY <1>d, <3>2
    <3>3. CASE ReaperDiscard /\ ~ReaperReturn
      <4>1. reaper' = [reaper EXCEPT !.pc = "notify", !.fail = reaper.fail \ {reaper.cur},
                                     !.cur = NoJob]
        BY <3>3 DEF ReaperDiscard
      <4> QED
        BY <4>1 DEF TypeOK, LoopsOK
    <3> QED
      BY <1>5, <3>1, <3>2, <3>3
  <2> QED
    BY <1>a, <1>b, <1>c, <2>1, <2>2, ListsShrink
<1> QED
  BY <1>1, <1>2, <1>3, <1>4, <1>5 DEF Reaper

LEMMA ReconcilerPlace ==
    ASSUME TypeOK, PlaceInv, Reconciler
    PROVE  PlaceInv'
<1>a. UNCHANGED <<queue, phase, ingest, workerVars, reaper, starts>>
  BY DEF Reconciler, ReconcilerSelect, ReconcilerPost, ReconcilerMarkRead,
         ReconcilerMarkWrite, ReconcilerDiscard
<1>b. CurInTodo /\ CurInTodo'
  BY ReconcilerList DEF PlaceInv, ListsTell
<1>c. \A j \in reconciler'.todo : j \in reconciler.todo \/ (j \in Jobs /\ status[j] = "DELIVERING")
  BY <1>b, ReconcilerList
<1>d. PICK h : /\ RowMoves(h, {"DONE", "FAILED"})
               /\ h \in reconciler.todo \/ UNCHANGED <<status, due>>
  BY <1>b, ReconcilerMoves
<1>e. /\ \A j \in Jobs : \/ status'[j] = status[j]
                         \/ /\ j \in reconciler.todo
                            /\ status[j] \in Sent /\ status'[j] \in TERMINAL_STATUSES
      /\ due' \subseteq due
      /\ \A j \in Jobs : j \in due' => status'[j] = status[j]
  <2>1. CASE UNCHANGED <<status, due>>
    BY <2>1
  <2>2. CASE h \in reconciler.todo /\ \E s \in {"DONE", "FAILED"} : SetStatus(h, s)
    <3>1. h \in Jobs /\ status[h] \in Sent
      BY <2>2 DEF TypeOK, LoopsOK, PlaceInv, ListsTell
    <3> QED
      BY <2>2, <3>1 DEF SetStatus, TERMINAL_STATUSES, TypeOK, DurableOK
  <2> QED
    BY <1>d, <2>1, <2>2 DEF RowMoves
<1>f. /\ reaper.take \in SUBSET Jobs /\ reaper.fail \in SUBSET Jobs
      /\ reconciler.todo \in SUBSET Jobs /\ reconciler'.todo \in SUBSET Jobs
      /\ due \in SUBSET Jobs
  BY <1>c DEF TypeOK, LoopsOK, DurableOK
<1>1. OnceUp'
  BY <1>a, <1>e DEF PlaceInv, OnceUp, Sent
<1>2. WorkerRows'
  <2> SUFFICES ASSUME NEW v \in Workers  PROVE WorkerRow(v)'
    BY DEF WorkerRows
  <2>1. WorkerRow(v) /\ (wpc[v] = "get" \/ wjob[v] \in Jobs)
    BY DEF PlaceInv, WorkerRows, TypeOK, WorkersOK
  <2>2. wjob[v] \in reconciler'.todo =>
            wjob[v] \in reconciler.todo \/ status[wjob[v]] = "DELIVERING"
    BY <1>c
  <2> QED
    BY <1>a, <1>e, <2>1, <2>2, RowStands
<1>3. WorksOnce' /\ WorksApart'
  BY <1>a DEF PlaceInv, WorksOnce, WorksApart, Works, Queued, Recorded
<1>4. \A j : Carried(j)' <=> Carried(j)
  BY <1>a DEF Carried, Queued, Taken, Recorded
<1>5. reconciler'.pc = "discard" => status'[reconciler'.cur] \in TERMINAL_STATUSES
  <2>1. CASE ReconcilerMarkWrite
    <3>1. CASE ReconcilerGoto("discard")
      <4>1. \E s \in {"DONE", "FAILED"} : SetStatus(reconciler.cur, s)
        BY <2>1, <3>1 DEF ReconcilerMarkWrite, ReconcilerGoto, ReconcilerIdle, TypeOK, LoopsOK
      <4>2. reconciler.cur \in Jobs /\ reconciler'.cur = reconciler.cur
        BY <2>1, <3>1 DEF ReconcilerMarkWrite, ReconcilerGoto, TypeOK, LoopsOK
      <4> QED
        BY <4>1, <4>2 DEF SetStatus, TERMINAL_STATUSES, TypeOK, DurableOK
    <3>2. CASE reconciler' = ReconcilerIdle
      BY <3>2 DEF ReconcilerIdle
    <3> QED
      BY <2>1, <3>1, <3>2 DEF ReconcilerMarkWrite
  <2>2. CASE ~ReconcilerMarkWrite
    <3>1. ASSUME NEW j, ReconcilerNext(j)  PROVE reconciler'.pc # "discard"
      BY <3>1 DEF ReconcilerNext, ReconcilerIdle
    <3>2. ReconcilerSelect => reconciler'.pc # "discard"
      BY DEF ReconcilerSelect, TypeOK, LoopsOK
    <3>3. CASE ReconcilerPost
      <4>1. PICK j : \/ reconciler' = [reconciler EXCEPT !.pc = "readDone", !.cur = j]
                     \/ reconciler' = [reconciler EXCEPT !.pc = "readFailed", !.cur = j]
                     \/ ReconcilerNext(j)
        BY <3>3 DEF ReconcilerPost
      <4> QED
        BY <3>1, <4>1 DEF TypeOK, LoopsOK
    <3>4. ReconcilerMarkRead => reconciler'.pc # "discard"
      BY <3>1 DEF ReconcilerMarkRead, ReconcilerGoto, ReconcilerIdle, TypeOK, LoopsOK
    <3>5. ReconcilerDiscard => reconciler'.pc # "discard"
      BY <3>1 DEF ReconcilerDiscard
    <3> QED
      BY <2>2, <3>2, <3>3, <3>4, <3>5 DEF Reconciler
  <2> QED
    BY <2>1, <2>2
<1>6. ListsTell'
  <2>1. \A j \in Jobs : status[j] \in {"PENDING", "RUNNING"} => status'[j] = status[j]
    BY <1>e DEF Sent
  <2>2. \A j \in reaper.fail : status'[j] = "FAILED" /\ j \notin reconciler'.todo
    BY <1>c, <1>e, <1>f DEF PlaceInv, ListsTell
  <2>3. \A j \in reconciler'.todo : status'[j] \in Sent
    BY <1>c, <1>e, <1>f DEF PlaceInv, ListsTell, Sent, TERMINAL_STATUSES
  <2> QED
    BY <1>a, <1>b, <1>4, <1>5, <1>f, <2>1, <2>2, <2>3 DEF PlaceInv, ListsTell
<1>7. DueFree'
  <2> SUFFICES ASSUME NEW j \in due', status'[j] \in TERMINAL_STATUSES, Held(j)'
               PROVE  FALSE
    BY DEF DueFree
  <2>1. j \in Jobs /\ j \in due /\ status'[j] = status[j]
    BY <1>e, <1>f
  <2>2. Held(j)
    BY <1>a, <1>c, <2>1 DEF Held, TERMINAL_STATUSES
  <2> QED
    BY <2>1, <2>2 DEF PlaceInv, DueFree
<1> QED
  BY <1>1, <1>2, <1>3, <1>6, <1>7 DEF PlaceInv

LEMMA CleanerPlace ==
    ASSUME TypeOK, PlaceInv, Cleaner
    PROVE  PlaceInv'
<1>a. UNCHANGED <<queue, phase, ingest, workerVars, reaper, reconciler, starts>>
  BY DEF Cleaner, CleanerPurge, CleanerFilesInUse, CleanerSweep, CleanerFails
<1>b. /\ due' \subseteq due
      /\ \A j \in Jobs : status'[j] = status[j] \/ (j \in Expired /\ status'[j] = "absent")
  BY DEF Cleaner, CleanerPurge, CleanerFilesInUse, CleanerSweep, CleanerFails
<1>c. \A j \in Expired : status[j] \in TERMINAL_STATUSES /\ ~Held(j)
  BY DEF PlaceInv, DueFree, Expired
<1>1. OnceUp'
  BY <1>a, <1>b DEF PlaceInv, OnceUp
<1>2. WorkerRows'
  <2> SUFFICES ASSUME NEW v \in Workers  PROVE WorkerRow(v)'
    BY DEF WorkerRows
  <2>1. WorkerRow(v) /\ (wpc[v] = "get" \/ wjob[v] \in Jobs)
    BY DEF PlaceInv, WorkerRows, TypeOK, WorkersOK
  <2>2. wpc[v] = "get" \/ status'[wjob[v]] = status[wjob[v]]
    BY <1>b, <1>c, <2>1 DEF Held
  <2> QED
    BY <1>a, <1>b, <2>1, <2>2, RowStands
<1>3. WorksOnce' /\ WorksApart'
  BY <1>a DEF PlaceInv, WorksOnce, WorksApart, Works, Queued, Recorded
<1>4. ListsTell'
  <2>1. \A j : Carried(j)' <=> Carried(j)
    BY <1>a DEF Carried, Queued, Taken, Recorded
  <2>2. \A j \in Jobs : status[j] = "PENDING" \/ Held(j) => status'[j] = status[j]
    BY <1>b, <1>c DEF TERMINAL_STATUSES
  <2>3. \A j \in reaper.take \cup reaper.fail \cup reconciler.todo : j \in Jobs /\ Held(j)
    BY DEF Held, TypeOK, LoopsOK
  <2> QED
    BY <1>a, <2>1, <2>2, <2>3 DEF PlaceInv, ListsTell, CurInTodo
<1>5. DueFree'
  <2>1. \A j : Held(j)' <=> Held(j)
    BY <1>a DEF Held
  <2>2. \A j \in due : j \in Jobs
    BY DEF TypeOK, DurableOK
  <2> QED
    BY <1>b, <2>1, <2>2 DEF PlaceInv, DueFree, TERMINAL_STATUSES
<1> QED
  BY <1>1, <1>2, <1>3, <1>4, <1>5 DEF PlaceInv

LEMMA TimePlace ==
    ASSUME TypeOK, PlaceInv, NEW h \in Jobs, Elapse(h) \/ FileAges(h)
    PROVE  PlaceInv'
<1>1. CASE FileAges(h)
  <2>1. UNCHANGED <<status, due, queue, phase, ingest, workerVars, reaper, reconciler, starts>>
    BY <1>1 DEF FileAges
  <2>2. OnceUp' /\ \A j : Queued(j)' <=> Queued(j)
    BY <2>1 DEF PlaceInv, OnceUp, Queued
  <2>3. reaper.pc = "discard" => reaper.cur \in reaper.fail
    BY DEF PlaceInv, ListsTell
  <2> QED
    BY <2>1, <2>2, <2>3, ListsShrink
<1>2. CASE Elapse(h)
  <2>1. /\ UNCHANGED <<status, queue, phase, ingest, workerVars, reaper, reconciler, starts>>
        /\ due' = due \cup {h}
        /\ status[h] = "RUNNING" => \A w \in Workers : wjob[w] = h => wpc[w] \notin Analysing
        /\ status[h] \in TERMINAL_STATUSES => ~Held(h)
    BY <1>2 DEF Elapse, TERMINAL_STATUSES
  <2>2. OnceUp' /\ WorksOnce' /\ WorksApart'
    BY <2>1 DEF PlaceInv, OnceUp, WorksOnce, WorksApart, Works, Queued, Recorded
  <2>3. WorkerRows'
    <3> SUFFICES ASSUME NEW v \in Workers  PROVE WorkerRow(v)'
      BY DEF WorkerRows
    <3>1. WorkerRow(v)
      BY DEF PlaceInv, WorkerRows
    <3> QED
      BY <2>1, <3>1, RowStands
  <2>4. ListsTell'
    <3>1. \A j : Carried(j)' <=> Carried(j)
      BY <2>1 DEF Carried, Queued, Taken, Recorded
    <3> QED
      BY <2>1, <3>1 DEF PlaceInv, ListsTell, CurInTodo
  <2>5. DueFree'
    BY <2>1 DEF PlaceInv, DueFree, Held
  <2> QED
    BY <2>2, <2>3, <2>4, <2>5 DEF PlaceInv
<1> QED
  BY <1>1, <1>2

LEMMA IngestPlace ==
    ASSUME TypeOK, CarrierInv, PlaceInv, NEW h \in Jobs, IngestBundle(h)
    PROVE  PlaceInv'
<1>a. UNCHANGED <<phase, workerVars, reaper, reconciler, starts>>
  BY DEF IngestBundle, IngestWrite, IngestRecord, IngestRollback, IngestEnqueue
<1>b. \A j \in Jobs : j # h => ingest'[j] = ingest[j]
  BY DEF IngestBundle, IngestWrite, IngestRecord, IngestRollback, IngestEnqueue, IngestGoto,
         TypeOK, ProcessOK
<1>c. \/ UNCHANGED <<status, due>>
      \/ /\ ingest[h] = "written" /\ status[h] = "absent"
         /\ status' = [status EXCEPT ![h] = "PENDING"] /\ due' = due \ {h}
  BY DEF IngestBundle, IngestWrite, IngestRecord, IngestRollback, IngestEnqueue, SetStatus,
         CarrierInv, LineInv, FreshAlone
<1>d. /\ due' \subseteq due
      /\ \A j \in Jobs : \/ status'[j] = status[j]
                         \/ j = h /\ status[h] = "absent" /\ status'[h] = "PENDING"
  BY <1>c DEF TypeOK, DurableOK
<1>e. \A j : (Works(j)' <=> Works(j)) /\ (Taken(j)' <=> Taken(j)) /\ (Held(j)' <=> Held(j))
  BY <1>a DEF Works, Taken, Held
<1>f. ingest'[h] = "recorded" => ingest[h] = "written" /\ status'[h] = "PENDING"
  BY DEF IngestBundle, IngestWrite, IngestRecord, IngestRollback, IngestEnqueue, IngestGoto,
         SetStatus, TypeOK, ProcessOK, DurableOK
<1>1. OnceUp'
  <2>1. phase = "serving"
    BY DEF IngestBundle, IngestWrite, IngestRecord, IngestRollback, IngestEnqueue, PlaceInv, OnceUp
  <2> QED
    BY <1>a, <2>1 DEF PlaceInv, OnceUp
<1>2. WorkerRows'
  <2> SUFFICES ASSUME NEW v \in Workers  PROVE WorkerRow(v)'
    BY DEF WorkerRows
  <2>1. WorkerRow(v) /\ (wpc[v] = "get" \/ wjob[v] \in Jobs)
    BY DEF PlaceInv, WorkerRows, TypeOK, WorkersOK
  <2>2. wpc[v] = "get" \/ status'[wjob[v]] = status[wjob[v]]
    BY <1>d, <2>1, WorksOnRow DEF Works
  <2> QED
    BY <1>a, <1>d, <2>1, <2>2, RowStands
<1>3. WorksOnce'
  BY <1>a DEF PlaceInv, WorksOnce
<1>4. \A j \in Jobs : Queued(j)' => Queued(j) \/ (j = h /\ Recorded(h))
  <2>1. CASE IngestEnqueue(h)
    <3> PICK s : s = <<h>>
      OBVIOUS
    <3>1. s \in Seq(Jobs) /\ DOMAIN s = {1} /\ s[1] = h /\ Enqueue(s) /\ Recorded(h)
      BY <2>1 DEF IngestEnqueue, Recorded
    <3>2. \A j : Queued(j)' <=> Queued(j) \/ \E k \in DOMAIN s : s[k] = j
      BY <3>1, EnqueueQueues DEF TypeOK, ProcessOK
    <3> QED
      BY <3>1, <3>2
  <2>2. CASE UNCHANGED queue
    BY <2>2 DEF Queued
  <2> QED
    BY <2>1, <2>2 DEF IngestBundle, IngestWrite, IngestRecord, IngestRollback
<1>5. WorksApart'
  <2> SUFFICES ASSUME NEW j \in Jobs, Works(j)
               PROVE  /\ ~Queued(j)' /\ ~Recorded(j)'
                      /\ j \notin reaper.enq /\ j \notin reaper.take /\ j \notin reaper.fail
    BY <1>a, <1>e DEF WorksApart
  <2>1. /\ ~Queued(j) /\ ~Recorded(j)
        /\ j \notin reaper.enq /\ j \notin reaper.take /\ j \notin reaper.fail
    BY DEF PlaceInv, WorksApart
  <2>2. ~Recorded(j)'
    <3>1. CASE j = h /\ ingest'[h] = "recorded"
      BY <1>c, <1>f, <3>1, WorksOnRow DEF CarrierInv, LineInv, FreshAlone
    <3> QED
      BY <1>b, <2>1, <3>1 DEF Recorded
  <2> QED
    BY <1>4, <2>1, <2>2
<1>6. ListsTell'
  <2>1. ASSUME NEW j \in Jobs, Carried(j)'  PROVE status'[j] = "PENDING"
    <3>1. CASE Recorded(j)'
      <4>1. CASE j = h
        BY <1>f, <3>1, <4>1 DEF Recorded
      <4>2. CASE j # h
        BY <1>b, <1>d, <3>1, <4>2 DEF Recorded, PlaceInv, ListsTell, Carried
      <4> QED
        BY <4>1, <4>2
    <3>2. CASE ~Recorded(j)'
      BY <1>a, <1>d, <1>e, <1>4, <2>1, <3>2 DEF Carried, PlaceInv, ListsTell
    <3> QED
      BY <3>1, <3>2
  <2>2. \A j \in reaper.take \cup reaper.fail \cup reconciler.todo : j \in Jobs
    BY DEF TypeOK, LoopsOK
  <2>3. \A j \in reaper.take \cup reaper.fail \cup reconciler.todo : status'[j] = status[j]
    BY <1>d, <2>2 DEF PlaceInv, ListsTell, Sent
  <2> QED
    BY <1>a, <2>1, <2>3 DEF PlaceInv, ListsTell, CurInTodo
<1>7. DueFree'
  <2>1. \A j \in due : j \in Jobs
    BY DEF TypeOK, DurableOK
  <2> QED
    BY <1>d, <1>e, <2>1 DEF PlaceInv, DueFree, TERMINAL_STATUSES
<1> QED
  BY <1>1, <1>2, <1>3, <1>5, <1>6, <1>7 DEF PlaceInv

(* One start; it finds an empty table. *)
LEMMA StartPlace ==
    ASSUME MaxStarts = 1, TypeOK, CarrierInv, PlaceInv, Start \/ Stop \/ Exit \/ Crash
    PROVE  PlaceInv'
<1>1. Start
  BY DEF Stop, Exit, Crash, PlaceInv, OnceUp
<1>2. /\ UNCHANGED <<status, due, queue, ingest, workerVars, reconciler>>
      /\ starts' = 1 /\ phase' = "starting" /\ phase = "down"
      /\ reaper'.enq = {} /\ reaper'.take = {} /\ reaper'.fail = {}
      /\ reaper'.pc = "selectPending"
  BY <1>1 DEF Start, ReaperIdle, TypeOK, ProcessOK
<1>3. OnceUp' /\ \A j : Queued(j)' <=> Queued(j)
  BY <1>2 DEF PlaceInv, OnceUp, Queued
<1> QED
  BY <1>2, <1>3, ListsShrink

LEMMA NextPlace ==
    ASSUME MaxStarts = 1, TypeOK, CarrierInv, PlaceInv, [Next]_vars
    PROVE  PlaceInv'
<1>1. CASE UNCHANGED vars
  BY <1>1 DEF PlaceInv, OnceUp, WorkerRows, WorkerRow, WorksOnce, WorksApart, ListsTell, CurInTodo,
              DueFree, Works, Queued, Recorded, Taken, Carried, Held
<1> QED
  BY <1>1, WorkerPlace, ReaperPlace, ReconcilerPlace, CleanerPlace, TimePlace, IngestPlace,
     StartPlace DEF Next

THEOREM PlaceCorrect ==
    ASSUME MaxStarts = 1
    PROVE  Spec => []PlaceInv
<1>1. Init => PlaceInv
  BY JobsFinite, EmptySeq
  DEF Init, PlaceInv, OnceUp, WorkerRows, WorkerRow, WorksOnce, WorksApart, ListsTell, CurInTodo,
      DueFree, Works, Queued, Recorded, Taken, Carried, Early, Analysing, Sending,
      ReaperIdle, ReconcilerIdle
<1>2. TypeOK /\ CarrierInv /\ PlaceInv /\ [Next]_vars => PlaceInv'
  BY NextPlace
<1> QED
  BY <1>1, <1>2, TypeCorrect, CarrierCorrect, PTL DEF Spec

LEMMA AtMostOneElement ==
    ASSUME NEW S, \A a, b \in S : a = b
    PROVE  Cardinality(S) = IF S = {} THEN 0 ELSE 1
<1>1. CASE S = {}
  BY <1>1, FS_EmptySet
<1>2. CASE S # {}
  <2>1. PICK a : S = {a}
    BY <1>2
  <2> QED
    BY <1>2, <2>1, FS_Singleton
<1> QED
  BY <1>1, <1>2

(* A job has one copy in memory, whatever the requests, the workers and    *)
(* the recovery of stuck jobs do to each other: it is not analysed twice   *)
(* at the same time.                                                       *)
THEOREM OneCopy ==
    ASSUME MaxStarts = 1
    PROVE  Spec => []AtMostOneCopy
<1>1. CarrierInv /\ PlaceInv => AtMostOneCopy
  <2> SUFFICES ASSUME CarrierInv, PlaceInv, NEW j \in Jobs  PROVE Copies(j) <= 1
    BY DEF AtMostOneCopy
  <2> DEFINE Q == {i \in DOMAIN queue : queue[i] = j}
             W == {w \in Workers : wjob[w] = j}
             e == IF j \in reaper.enq THEN 1 ELSE 0
             r == IF ingest[j] = "recorded" THEN 1 ELSE 0
  <2>1. Cardinality(Q) = IF Queued(j) THEN 1 ELSE 0
    <3>1. \A a, b \in Q : a = b
      BY DEF CarrierInv, LineInv, WaitsOnce, QueuedOnce
    <3>2. Q = {} <=> ~Queued(j)
      BY DEF Queued
    <3> HIDE DEF Q
    <3> QED
      BY <3>1, <3>2, AtMostOneElement
  <2>2. Cardinality(W) = IF Works(j) THEN 1 ELSE 0
    <3>1. \A a, b \in W : a = b
      BY JobsFinite DEF PlaceInv, WorksOnce
    <3>2. W = {} <=> ~Works(j)
      BY DEF Works
    <3> HIDE DEF W
    <3> QED
      BY <3>1, <3>2, AtMostOneElement
  <2>3. /\ Works(j) => ~Queued(j) /\ ~Recorded(j) /\ j \notin reaper.enq
        /\ Queued(j) => j \notin reaper.enq /\ ~Recorded(j)
        /\ j \in reaper.enq => ~Recorded(j)
    BY DEF PlaceInv, WorksApart, CarrierInv, LineInv, WaitsOnce
  <2>4. Copies(j) = Cardinality(Q) + Cardinality(W) + e + r
    BY DEF Copies
  <2> HIDE DEF Q, W
  <2> QED
    BY <2>1, <2>2, <2>3, <2>4 DEF Recorded
<1> QED
  BY <1>1, CarrierCorrect, PlaceCorrect, PTL

-----------------------------------------------------------------------------
(* What the steps of a row are, whoever takes them.                        *)

RowSteps(j) ==
    \/ status'[j] = status[j] /\ requeue'[j] = requeue[j]
    \/ status[j] = "absent" /\ status'[j] = "PENDING" /\ ingest[j] = "written"
       /\ requeue'[j] = requeue[j]
    \/ RowEnds(j) /\ requeue'[j] = requeue[j]
    \/ status[j] = "RUNNING" /\ status'[j] = "PENDING"
       /\ requeue[j] < MaxRequeue /\ requeue'[j] = requeue[j] + 1
    \/ status[j] \in TERMINAL_STATUSES /\ status'[j] = "absent" /\ requeue'[j] = 0

LEMMA StepsOfRows ==
    ASSUME TypeOK, CarrierInv, PlaceInv, [Next]_vars, NEW j \in Jobs
    PROVE  RowSteps(j)
<1>1. CASE UNCHANGED <<status, requeue>>
  BY <1>1 DEF RowSteps
<1>2. ASSUME NEW w \in Workers, Worker(w)  PROVE RowSteps(j)
  <2>1. UNCHANGED requeue
    BY <1>2, WorkerHolds
  <2>2. CASE WorkerGet(w)
    BY <2>2 DEF WorkerGet, RowSteps
  <2>3. CASE wpc[w] # "get" /\ wjob[w] = j
    <3>1. RowEnds(j)
      BY <1>2, <2>3, OwnRow
    <3> QED
      BY <2>1, <3>1 DEF RowSteps
  <2>4. CASE wjob[w] # j
    BY <1>2, <2>1, <2>4, WorkerMoves DEF RowMoves, SetStatus, RowSteps, TypeOK, DurableOK
  <2>5. wpc[w] = "get" => WorkerGet(w)
    BY <1>2 DEF Worker, WorkerLoad, WorkerRestore, WorkerCommitMissing, WorkerCommitRunning,
       WorkerRca, WorkerCommitDelivering, WorkerCommitNone, WorkerCommitFailed,
       WorkerCommitAgain, WorkerPost, WorkerMarkRead, WorkerMarkWrite, WorkerNotify,
       WorkerDiscard
  <2> QED
    BY <2>2, <2>3, <2>4, <2>5
<1>3. CASE Reaper
  <2>1. CASE Reclaim /\ reaper.pc = "commit"
    <3>1. j \in reaper.take => status[j] = "RUNNING"
      BY DEF PlaceInv, ListsTell
    <3> QED
      BY <2>1, <3>1 DEF Reclaim, Again, RowSteps, RowEnds, Sent, TERMINAL_STATUSES
  <2>2. CASE UNCHANGED <<status, requeue>>
    BY <1>1, <2>2
  <2> QED
    BY <1>3, <2>1, <2>2 DEF Reaper, ReaperSelectPending, ReaperEnqueuePending,
       ReaperSelectRunning, ReaperCommit, ReaperEnqueue, ReaperNotify, ReaperDiscard
<1>4. CASE Reconciler
  <2>1. UNCHANGED requeue
    BY <1>4 DEF Reconciler, ReconcilerSelect, ReconcilerPost, ReconcilerMarkRead,
                ReconcilerMarkWrite, ReconcilerDiscard
  <2>2. PICK h : /\ RowMoves(h, {"DONE", "FAILED"})
                 /\ h \in reconciler.todo \/ UNCHANGED <<status, due>>
    BY <1>4, ReconcilerMoves DEF PlaceInv, ListsTell
  <2>3. h \in reconciler.todo => status[h] \in Sent
    BY DEF PlaceInv, ListsTell
  <2> QED
    BY <2>1, <2>2, <2>3
    DEF RowMoves, SetStatus, RowSteps, RowEnds, TERMINAL_STATUSES, TypeOK, DurableOK
<1>5. CASE Cleaner
  BY <1>5 DEF Cleaner, CleanerPurge, CleanerFilesInUse, CleanerSweep, CleanerFails, Expired, RowSteps
<1>6. ASSUME NEW h \in Jobs, IngestBundle(h) \/ Elapse(h) \/ FileAges(h)  PROVE RowSteps(j)
  <2>1. UNCHANGED requeue
    BY <1>6 DEF IngestBundle, IngestWrite, IngestRecord, IngestRollback, IngestEnqueue, Elapse,
                FileAges
  <2>2. \/ UNCHANGED status
        \/ ingest[h] = "written" /\ SetStatus(h, "PENDING")
    BY <1>6 DEF IngestBundle, IngestWrite, IngestRecord, IngestRollback, IngestEnqueue, Elapse,
                FileAges
  <2>3. ingest[h] = "written" => status[h] = "absent"
    BY DEF CarrierInv, LineInv, FreshAlone
  <2> QED
    BY <2>1, <2>2, <2>3 DEF SetStatus, RowSteps, TypeOK, DurableOK
<1>7. CASE Start \/ Stop \/ Exit \/ Crash
  BY <1>1, <1>7 DEF Start, Stop, Exit, Crash
<1>8. CASE UNCHANGED vars
  BY <1>1, <1>8
<1> QED
  BY <1>2, <1>3, <1>4, <1>5, <1>6, <1>7, <1>8 DEF Next

-----------------------------------------------------------------------------
(* The signal files. *)

FileOf(j) ==
    /\ ingest[j] # "lost"
    /\ ingest[j] = "new" => file[j] = "none"
    /\ ingest[j] \in {"written", "recorded"} => file[j] = "fresh"
    /\ file[j] = "old" => ingest[j] \in {"accepted", "rejected"}
    /\ status[j] \in ACTIVE_STATUSES /\ ingest[j] = "accepted" =>
          /\ file[j] # "none"
          /\ cleaner.pc = "sweep" /\ file[j] = "old" => j \in cleaner.keep

FileInv == \A j \in Jobs : FileOf(j)

(* What a step may do to the file of a job that was or was not accepted. *)
Untouched(j) == file'[j] = file[j] /\ ingest'[j] = ingest[j] /\ cleaner' = cleaner

Discarded(j) ==
    /\ status[j] \in TERMINAL_STATUSES /\ file'[j] \in {file[j], "none"}
    /\ ingest'[j] = ingest[j] /\ cleaner' = cleaner

Swept(j) ==
    /\ cleaner.pc = "sweep" /\ cleaner'.pc # "sweep" /\ ingest'[j] = ingest[j]
    /\ file'[j] = file[j] \/ (file[j] = "old" /\ j \notin cleaner.keep /\ file'[j] = "none")

Listed(j) ==
    /\ file'[j] = file[j] /\ ingest'[j] = ingest[j] /\ status'[j] = status[j]
    /\ \/ cleaner'.pc # "sweep"
       \/ status[j] \in ACTIVE_STATUSES => j \in cleaner'.keep

Purged(j) == file'[j] = file[j] /\ ingest'[j] = ingest[j] /\ cleaner'.pc # "sweep"

Aged(j) ==
    /\ file[j] = "fresh" /\ file'[j] = "old" /\ ingest[j] \notin InFlight /\ cleaner.pc # "sweep"
    /\ ingest'[j] = ingest[j] /\ cleaner' = cleaner

Ingested(j) ==
    /\ cleaner' = cleaner
    /\ \/ /\ ingest[j] = "new"
          /\ \/ ingest'[j] = "written" /\ file'[j] = "fresh"
             \/ ingest'[j] = "rejected" /\ file'[j] = file[j]
       \/ ingest[j] = "written" /\ ingest'[j] \in {"recorded", "rollback"} /\ file'[j] = file[j]
       \/ ingest[j] = "rollback" /\ ingest'[j] = "rejected" /\ file'[j] \in {file[j], "none"}
       \/ ingest[j] = "recorded" /\ ingest'[j] = "accepted" /\ file'[j] = file[j]

FileSteps(j) ==
    Untouched(j) \/ Discarded(j) \/ Swept(j) \/ Listed(j) \/ Purged(j) \/ Aged(j) \/ Ingested(j)

LEMMA StepsOfFiles ==
    ASSUME MaxStarts = 1, TypeOK, PlaceInv, [Next]_vars, NEW j \in Jobs
    PROVE  FileSteps(j)
<1>1. CASE UNCHANGED <<file, ingest, cleaner>>
  BY <1>1 DEF FileSteps, Untouched
<1>2. ASSUME NEW h, DiscardFile(h), status[h] \in TERMINAL_STATUSES, UNCHANGED <<ingest, cleaner>>
      PROVE  FileSteps(j)
  BY <1>2 DEF DiscardFile, FileSteps, Untouched, Discarded, TypeOK, DurableOK
<1>3. ASSUME NEW w \in Workers, Worker(w)  PROVE FileSteps(j)
  <2>1. UNCHANGED <<ingest, cleaner>>
    BY <1>3, WorkerHolds
  <2>2. CASE WorkerDiscard(w)
    <3>1. status[wjob[w]] \in TERMINAL_STATUSES
      BY <2>2 DEF WorkerDiscard, PlaceInv, WorkerRows, WorkerRow
    <3> QED
      BY <1>2, <2>1, <2>2, <3>1 DEF WorkerDiscard
  <2>3. CASE ~WorkerDiscard(w)
    <3>1. UNCHANGED file
      BY <1>3, <2>3 DEF Worker, WorkerGet, WorkerLoad, WorkerRestore, WorkerCommitMissing,
         WorkerCommitRunning, WorkerRca, WorkerCommitDelivering, WorkerCommitNone,
         WorkerCommitFailed, WorkerCommitAgain, WorkerPost, WorkerMarkRead, WorkerMarkWrite,
         WorkerNotify, WorkerCommit
    <3> QED
      BY <1>1, <2>1, <3>1
  <2> QED
    BY <2>2, <2>3
<1>4. CASE Reaper
  <2>1. UNCHANGED <<ingest, cleaner>>
    BY <1>4 DEF Reaper, ReaperSelectPending, ReaperEnqueuePending, ReaperSelectRunning,
                ReaperCommit, ReaperEnqueue, ReaperNotify, ReaperDiscard
  <2>2. CASE ReaperDiscard
    <3>1. status[reaper.cur] \in TERMINAL_STATUSES
      BY <2>2 DEF ReaperDiscard, PlaceInv, ListsTell, TERMINAL_STATUSES
    <3> QED
      BY <1>2, <2>1, <2>2, <3>1 DEF ReaperDiscard
  <2>3. CASE UNCHANGED file
    BY <1>1, <2>1, <2>3
  <2> QED
    BY <1>4, <2>2, <2>3 DEF Reaper, ReaperSelectPending, ReaperEnqueuePending,
       ReaperSelectRunning, ReaperCommit, ReaperEnqueue, ReaperNotify
<1>5. CASE Reconciler
  <2>1. UNCHANGED <<ingest, cleaner>>
    BY <1>5 DEF Reconciler, ReconcilerSelect, ReconcilerPost, ReconcilerMarkRead,
                ReconcilerMarkWrite, ReconcilerDiscard
  <2>2. CASE ReconcilerDiscard
    <3>1. status[reconciler.cur] \in TERMINAL_STATUSES
      BY <2>2 DEF ReconcilerDiscard, PlaceInv, ListsTell
    <3> QED
      BY <1>2, <2>1, <2>2, <3>1 DEF ReconcilerDiscard
  <2>3. CASE UNCHANGED file
    BY <1>1, <2>1, <2>3
  <2> QED
    BY <1>5, <2>2, <2>3 DEF Reconciler, ReconcilerSelect, ReconcilerPost, ReconcilerMarkRead,
                            ReconcilerMarkWrite
<1>6. CASE Cleaner
  <2>1. CASE CleanerPurge
    BY <2>1 DEF CleanerPurge, FileSteps, Purged, TypeOK, LoopsOK
  <2>2. CASE CleanerFilesInUse
    BY <2>2 DEF CleanerFilesInUse, InUse, FileSteps, Listed
  <2>3. CASE CleanerSweep
    BY <2>3 DEF CleanerSweep, CleanerIdle, FileSteps, Swept
  <2>4. CASE CleanerFails
    BY <2>4 DEF CleanerFails, CleanerIdle, FileSteps, Purged
  <2> QED
    BY <1>6, <2>1, <2>2, <2>3, <2>4 DEF Cleaner
<1>7. ASSUME NEW h \in Jobs, IngestBundle(h)  PROVE FileSteps(j)
  <2>1. UNCHANGED cleaner
    BY <1>7 DEF IngestBundle, IngestWrite, IngestRecord, IngestRollback, IngestEnqueue
  <2>2. CASE h = j
    <3>1. CASE IngestWrite(h)
      BY <2>1, <2>2, <3>1 DEF IngestWrite, IngestGoto, FileSteps, Ingested, TypeOK, ProcessOK, DurableOK
    <3>2. CASE IngestRecord(h) \/ IngestEnqueue(h)
      BY <2>1, <2>2, <3>2
      DEF IngestRecord, IngestEnqueue, IngestGoto, FileSteps, Ingested, TypeOK, ProcessOK
    <3>3. CASE IngestRollback(h)
      BY <2>1, <2>2, <3>3
      DEF IngestRollback, IngestGoto, DiscardFile, FileSteps, Ingested, TypeOK, ProcessOK, DurableOK
    <3> QED
      BY <1>7, <3>1, <3>2, <3>3 DEF IngestBundle
  <2>3. CASE h # j
    BY <1>7, <2>1, <2>3
    DEF IngestBundle, IngestWrite, IngestRecord, IngestRollback, IngestEnqueue, IngestGoto,
        DiscardFile, FileSteps, Untouched, TypeOK, ProcessOK, DurableOK
  <2> QED
    BY <2>2, <2>3
<1>8. ASSUME NEW h \in Jobs, Elapse(h) \/ FileAges(h)  PROVE FileSteps(j)
  BY <1>8 DEF Elapse, FileAges, FileSteps, Untouched, Aged, TypeOK, DurableOK
<1>9. CASE Start \/ Stop \/ Exit \/ Crash
  <2>1. Start
    BY <1>9 DEF Stop, Exit, Crash, PlaceInv, OnceUp
  <2> QED
    BY <1>1, <2>1 DEF Start
<1>10. CASE UNCHANGED vars
  BY <1>1, <1>10
<1> QED
  BY <1>3, <1>4, <1>5, <1>6, <1>7, <1>8, <1>9, <1>10 DEF Next

LEMMA NextFiles ==
    ASSUME MaxStarts = 1, TypeOK, CarrierInv, PlaceInv, FileInv, [Next]_vars
    PROVE  FileInv'
<1> SUFFICES ASSUME NEW j \in Jobs  PROVE FileOf(j)'
  BY DEF FileInv
<1>1. FileOf(j) /\ FileSteps(j) /\ RowSteps(j)
  BY StepsOfFiles, StepsOfRows DEF FileInv
<1>2. /\ ingest[j] \in {"new", "written"} => status[j] = "absent"
      /\ ingest[j] = "recorded" => status[j] = "PENDING"
  BY DEF CarrierInv, LineInv, FreshAlone, PlaceInv, ListsTell, Carried, Recorded
<1>3. status'[j] \in ACTIVE_STATUSES => status[j] \in ACTIVE_STATUSES \/ ingest[j] = "written"
  BY <1>1 DEF RowSteps, RowEnds, ACTIVE_STATUSES, TERMINAL_STATUSES, Sent
<1>4. CASE Untouched(j)
  BY <1>1, <1>3, <1>4 DEF Untouched, FileOf
<1>5. CASE Discarded(j)
  <2>1. status'[j] \notin ACTIVE_STATUSES
    BY <1>2, <1>3, <1>5 DEF Discarded, ACTIVE_STATUSES, TERMINAL_STATUSES
  <2> QED
    BY <1>1, <1>2, <1>5, <2>1 DEF Discarded, FileOf, TERMINAL_STATUSES
<1>6. CASE Swept(j) \/ Purged(j)
  BY <1>1, <1>3, <1>6 DEF Swept, Purged, FileOf
<1>7. CASE Listed(j)
  BY <1>1, <1>7 DEF Listed, FileOf
<1>8. CASE Aged(j)
  BY <1>1, <1>3, <1>8 DEF Aged, FileOf, InFlight, TypeOK, ProcessOK, IngestPCs
<1>9. CASE Ingested(j)
  BY <1>1, <1>2, <1>3, <1>9 DEF Ingested, FileOf
<1> QED
  BY <1>1, <1>4, <1>5, <1>6, <1>7, <1>8, <1>9 DEF FileSteps

THEOREM FilesCorrect ==
    ASSUME MaxStarts = 1
    PROVE  Spec => []FileInv
<1>1. Init => FileInv
  BY DEF Init, FileInv, FileOf
<1>2. TypeOK /\ CarrierInv /\ PlaceInv /\ FileInv /\ [Next]_vars => FileInv'
  BY NextFiles
<1> QED
  BY <1>1, <1>2, TypeCorrect, CarrierCorrect, PlaceCorrect, PTL DEF Spec

(* bundle_store.py, lines 11-13: the signal file of a job that has not     *)
(* ended is there, whichever of the four tasks that remove files runs when. *)
THEOREM FilesAreKept ==
    ASSUME MaxStarts = 1
    PROVE  Spec => []FileKept
<1>1. TypeOK /\ CarrierInv /\ FileInv => FileKept
  BY DEF FileKept, FileInv, FileOf, CarrierInv, LineInv, FreshAlone, ACTIVE_STATUSES, TypeOK,
         ProcessOK, IngestPCs
<1> QED
  BY <1>1, TypeCorrect, CarrierCorrect, FilesCorrect, PTL

-----------------------------------------------------------------------------
(* The verdict.  Spring answers the same for a job every time (the shared  *)
(* secrets agree: no 401), so that those who send it cannot disagree.      *)

Ended(j) ==
    /\ status[j] = "DONE"   => j \notin BadPayload
    /\ status[j] = "FAILED" => j \in BadPayload

WorkerTells(w) ==
    /\ wpc[w] \in Sending => Ended(wjob[w])
    /\ wpc[w] \in {"readDone", "writeDone"} => wjob[w] \notin BadPayload
    /\ wpc[w] \in {"readFailed", "writeFailed"} => wjob[w] \in BadPayload

LoopTells ==
    /\ \A j \in reconciler.todo : Ended(j)
    /\ reconciler.pc \in {"readDone", "writeDone"} => reconciler.cur \notin BadPayload
    /\ reconciler.pc \in {"readFailed", "writeFailed"} => reconciler.cur \in BadPayload

VerdictInv == (\A w \in Workers : WorkerTells(w)) /\ LoopTells

(* A row that was to be sent ends as its verdict is; DONE when it is stored. *)
LEMMA SentEnds ==
    ASSUME TypeOK, CarrierInv, PlaceInv, DeliveryInv, VerdictInv, [Next]_vars,
           NEW j \in Jobs, status[j] \in Sent,
           status'[j] # status[j], status'[j] \in TERMINAL_STATUSES
    PROVE  Ended(j) /\ Ended(j)' /\ (status'[j] = "DONE" => Stored(j))
<1>1. ASSUME NEW w \in Workers, Worker(w)
      PROVE  Ended(j) /\ Ended(j)' /\ (status'[j] = "DONE" => Stored(j))
  <2>1. wjob[w] = j
    BY <1>1, WorkerMoves DEF RowMoves, SetStatus, TypeOK, DurableOK
  <2>2. WorkerRow(w) /\ WorkerTells(w) /\ j # NoJob
    BY JobsFinite DEF PlaceInv, WorkerRows, VerdictInv
  <2>3. CASE WorkerMarkWrite(w)
    <3>1. CASE WorkerCommit(w, "DELIVERING", "DONE", "discard", "get") /\ wpc[w] = "writeDone"
      <4>1. RowMoves(j, {"DONE"})
        BY <2>1, <3>1, CommitMoves
      <4>2. status'[j] = "DONE"
        BY <4>1 DEF RowMoves, SetStatus, TypeOK, DurableOK
      <4> QED
        BY <2>1, <2>2, <3>1, <4>2 DEF WorkerTells, Sending, Ended, DeliveryInv
    <3>2. CASE WorkerCommit(w, "DELIVERING", "FAILED", "discard", "get") /\ wpc[w] = "writeFailed"
      <4>1. RowMoves(j, {"FAILED"})
        BY <2>1, <3>2, CommitMoves
      <4>2. status'[j] = "FAILED"
        BY <4>1 DEF RowMoves, SetStatus, TypeOK, DurableOK
      <4> QED
        BY <2>1, <2>2, <3>2, <4>2 DEF WorkerTells, Sending, Ended
    <3> QED
      BY <2>3, <3>1, <3>2 DEF WorkerMarkWrite
  <2>4. CASE \/ WorkerCommitMissing(w) \/ WorkerCommitRunning(w) \/ WorkerCommitDelivering(w)
             \/ WorkerCommitNone(w) \/ WorkerCommitFailed(w)
    BY <2>1, <2>2, <2>4
    DEF WorkerCommitMissing, WorkerCommitRunning, WorkerCommitDelivering, WorkerCommitNone,
        WorkerCommitFailed, WorkerRow, Early, Analysing, Sent
  <2>5. CASE UNCHANGED status
    BY <2>5
  <2> QED
    BY <1>1, <2>3, <2>4, <2>5
    DEF Worker, WorkerGet, WorkerLoad, WorkerRestore, WorkerRca, WorkerCommitAgain, WorkerPost,
        WorkerMarkRead, WorkerNotify, WorkerDiscard
<1>2. CASE Reconciler
  <2>1. ReconcilerMarkWrite /\ reconciler.cur = j
    BY <1>2 DEF Reconciler, ReconcilerSelect, ReconcilerPost, ReconcilerMarkRead,
                ReconcilerMarkWrite, ReconcilerDiscard, SetStatus, TypeOK, DurableOK
  <2>2. Ended(j) /\ LoopTells
    BY <2>1 DEF ReconcilerMarkWrite, PlaceInv, ListsTell, CurInTodo, VerdictInv, LoopTells
  <2>3. /\ reconciler.pc = "writeDone" => status'[j] = "DONE"
        /\ reconciler.pc = "writeFailed" => status'[j] = "FAILED"
        /\ reconciler.pc \in {"writeDone", "writeFailed"}
    BY <2>1 DEF ReconcilerMarkWrite, SetStatus, TypeOK, DurableOK
  <2> QED
    BY <2>1, <2>2, <2>3 DEF LoopTells, Ended, DeliveryInv
<1>3. CASE Reaper
  <2>1. j \notin reaper.take
    BY DEF PlaceInv, ListsTell, Sent
  <2>2. status'[j] = status[j]
    BY <1>3, <2>1 DEF Reaper, ReaperSelectPending, ReaperEnqueuePending, ReaperSelectRunning,
       ReaperCommit, Reclaim, Again, ReaperEnqueue, ReaperNotify, ReaperDiscard
  <2> QED
    BY <2>2
<1>4. CASE Cleaner
  BY <1>4 DEF Cleaner, CleanerPurge, CleanerFilesInUse, CleanerSweep, CleanerFails,
              TERMINAL_STATUSES
<1>5. ASSUME NEW h \in Jobs, IngestBundle(h) \/ Elapse(h) \/ FileAges(h)
      PROVE  FALSE
  BY <1>5 DEF IngestBundle, IngestWrite, IngestRecord, IngestRollback, IngestEnqueue, Elapse,
              FileAges, SetStatus, TERMINAL_STATUSES, TypeOK, DurableOK
<1>6. ~(Start \/ Stop \/ Exit \/ Crash \/ UNCHANGED vars)
  BY DEF Start, Stop, Exit, Crash
<1> QED
  BY <1>1, <1>2, <1>3, <1>4, <1>5, <1>6 DEF Next

LEMMA EndedStays ==
    ASSUME TypeOK, CarrierInv, PlaceInv, DeliveryInv, VerdictInv, [Next]_vars,
           NEW j \in Jobs, status[j] \in Sent, Ended(j)
    PROVE  Ended(j)'
<1>1. RowSteps(j)
  BY StepsOfRows
<1>2. CASE status'[j] = status[j] \/ status'[j] = "absent"
  BY <1>2 DEF Ended
<1>3. CASE status'[j] # status[j] /\ status'[j] \in TERMINAL_STATUSES
  BY <1>3, SentEnds
<1> QED
  BY <1>1, <1>2, <1>3 DEF RowSteps, RowEnds, Sent

(* What a worker that sends has heard. *)
LEMMA OwnTells ==
    ASSUME "unauthorized" \notin SpringAnswers,
           TypeOK, CarrierInv, PlaceInv, DeliveryInv, VerdictInv, [Next]_vars,
           NEW w \in Workers, Worker(w)
    PROVE  WorkerTells(w)'
<1>a. WorkerRow(w) /\ WorkerTells(w)
  BY DEF PlaceInv, WorkerRows, VerdictInv
<1>b. ASSUME NEW pc, pc # "get", Goto(w, pc)  PROVE wpc'[w] = pc /\ wjob'[w] = wjob[w]
  BY <1>b DEF Goto, TypeOK, WorkersOK
<1>c. ASSUME wpc'[w] \notin Sending  PROVE WorkerTells(w)'
  BY <1>c DEF WorkerTells, Sending
<1>d. ASSUME NEW pc, pc \notin Sending, Goto(w, pc)  PROVE wpc'[w] \notin Sending
  BY <1>d DEF Goto, TypeOK, WorkersOK
<1>1. CASE WorkerPost(w) \/ WorkerMarkRead(w)
  <2> PICK j \in Jobs : j = wjob[w]
    BY <1>1 DEF WorkerPost, WorkerMarkRead, TypeOK, WorkersOK
  <2>1. Ended(j)'
    <3>1. wpc[w] \in Sending
      BY <1>1 DEF WorkerPost, WorkerMarkRead, Sending
    <3>2. status[j] \in Sent /\ Ended(j)
      BY <1>a, <3>1 DEF WorkerRow, WorkerTells
    <3> QED
      BY <3>2, EndedStays
  <2>2. PICK pc : /\ Goto(w, pc)
                  /\ \/ pc \in {"get", "discard"}
                     \/ pc \in {"readDone", "writeDone"} /\ j \notin BadPayload
                     \/ pc \in {"readFailed", "writeFailed"} /\ j \in BadPayload
    <3>1. CASE WorkerPost(w)
      <4>1. PICK a \in Meets(j, TRUE) :
              Goto(w, CASE Verdict(j, a) = "ok"        -> "readDone"
                        [] Verdict(j, a) = "permanent" -> "readFailed"
                        [] OTHER                       -> "get")
        BY <3>1 DEF WorkerPost
      <4>2. a # "unauthorized"
        BY DEF Meets
      <4> QED
        BY <4>1, <4>2 DEF Verdict
    <3>2. CASE WorkerMarkRead(w)
      <4>1. PICK pc \in {"discard", "writeDone", "writeFailed", "get"} :
              /\ Goto(w, pc)
              /\ pc = "writeDone" => wpc[w] = "readDone"
              /\ pc = "writeFailed" => wpc[w] = "readFailed"
        BY <3>2 DEF WorkerMarkRead
      <4> QED
        BY <1>a, <4>1 DEF WorkerTells
    <3> QED
      BY <1>1, <3>1, <3>2
  <2>3. CASE pc \in {"get", "discard"}
    BY <1>c, <1>d, <2>2, <2>3 DEF Sending
  <2>4. CASE pc \notin {"get", "discard"}
    <3>1. wpc'[w] = pc /\ wjob'[w] = j
      BY <1>b, <2>2, <2>4
    <3> QED
      BY <2>1, <2>2, <3>1 DEF WorkerTells, Ended
  <2> QED
    BY <2>3, <2>4
<1>2. CASE WorkerCommitDelivering(w)
  <2> PICK j \in Jobs : j = wjob[w]
    BY <1>2 DEF WorkerCommitDelivering, TypeOK, WorkersOK
  <2>1. status[j] = "RUNNING" /\ wpc[w] # "get"
    BY <1>a, <1>2 DEF WorkerCommitDelivering, WorkerRow, Analysing
  <2>2. WorkerCommit(w, "RUNNING", "DELIVERING", "post", "commitAgain")
    BY <1>2 DEF WorkerCommitDelivering
  <2>3. (Goto(w, "post") /\ status'[j] = "DELIVERING") \/ Goto(w, "commitAgain")
    BY <2>1, <2>2, CommitOutcome
  <2>4. CASE Goto(w, "post") /\ status'[j] = "DELIVERING"
    <3>1. wpc'[w] = "post" /\ wjob'[w] = j
      BY <1>b, <2>4
    <3> QED
      BY <2>4, <3>1 DEF WorkerTells, Ended
  <2>5. CASE Goto(w, "commitAgain")
    BY <1>c, <1>d, <2>5 DEF Sending
  <2> QED
    BY <2>3, <2>4, <2>5
<1>3. CASE WorkerGet(w)
  BY <1>3, <1>c DEF WorkerGet, Sending, TypeOK, WorkersOK
<1>4. CASE WorkerLoad(w)
  <2>1. CASE Goto(w, "get")
    BY <1>c, <1>d, <2>1 DEF Sending
  <2>2. CASE wpc' = [wpc EXCEPT ![w] = "restore"]
    BY <1>c, <2>2 DEF Sending, TypeOK, WorkersOK
  <2> QED
    BY <1>4, <2>1, <2>2 DEF WorkerLoad
<1>5. ASSUME NEW read, NEW s, NEW ok \in {"notify", "rca", "discard"},
             NEW raised \in {"get", "commitAgain"}, WorkerCommit(w, read, s, ok, raised)
      PROVE  WorkerTells(w)'
  <2>1. Goto(w, ok) \/ Goto(w, raised)
    BY <1>5 DEF WorkerCommit
  <2> QED
    BY <1>c, <1>d, <2>1 DEF Sending
<1>6. CASE \/ WorkerCommitMissing(w) \/ WorkerCommitRunning(w) \/ WorkerCommitNone(w)
           \/ WorkerCommitFailed(w) \/ WorkerMarkWrite(w)
  BY <1>5, <1>6 DEF WorkerCommitMissing, WorkerCommitRunning, WorkerCommitNone,
                    WorkerCommitFailed, WorkerMarkWrite
<1>7. CASE \/ WorkerRestore(w) \/ WorkerRca(w) \/ WorkerCommitAgain(w) \/ WorkerNotify(w)
           \/ WorkerDiscard(w)
  <2>1. PICK pc \in {"get", "commitMissing", "commitRunning", "commitDelivering", "commitNone",
                     "commitFailed", "discard"} : Goto(w, pc)
    BY <1>7 DEF WorkerRestore, WorkerRca, WorkerCommitAgain, WorkerNotify, WorkerDiscard
  <2> QED
    BY <1>c, <1>d, <2>1 DEF Sending
<1> QED
  BY <1>1, <1>2, <1>3, <1>4, <1>6, <1>7 DEF Worker

(* Neither does a worker that stands still forget it. *)
LEMMA TellsStands ==
    ASSUME TypeOK, CarrierInv, PlaceInv, DeliveryInv, VerdictInv, [Next]_vars,
           NEW v \in Workers, wpc'[v] = wpc[v], wjob'[v] = wjob[v]
    PROVE  WorkerTells(v)'
<1>1. WorkerRow(v) /\ WorkerTells(v)
  BY DEF PlaceInv, WorkerRows, VerdictInv
<1>2. CASE wpc[v] \in Sending
  <2>1. wjob[v] \in Jobs /\ status[wjob[v]] \in Sent /\ Ended(wjob[v])
    BY <1>1, <1>2 DEF WorkerRow, WorkerTells, Sending, TypeOK, WorkersOK
  <2>2. Ended(wjob[v])'
    BY <2>1, EndedStays
  <2> QED
    BY <1>1, <2>2 DEF WorkerTells, Ended
<1> QED
  BY <1>2 DEF WorkerTells, Sending

LEMMA ListTells ==
    ASSUME TypeOK, CarrierInv, PlaceInv, DeliveryInv, VerdictInv, [Next]_vars,
           \A j \in reconciler'.todo : j \in reconciler.todo \/ (j \in Jobs /\ status[j] = "DELIVERING")
    PROVE  \A j \in reconciler'.todo : Ended(j)'
<1> SUFFICES ASSUME NEW j \in reconciler'.todo  PROVE Ended(j)'
  OBVIOUS
<1>1. j \in Jobs /\ status[j] \in Sent /\ Ended(j)
  BY DEF PlaceInv, ListsTell, VerdictInv, LoopTells, Ended, Sent, TypeOK, LoopsOK
<1> QED
  BY <1>1, EndedStays

(* What the reconciler has heard. *)
LEMMA LoopHears ==
    ASSUME "unauthorized" \notin SpringAnswers, TypeOK, LoopTells, Reconciler
    PROVE  /\ reconciler'.pc \in {"readDone", "writeDone"} => reconciler'.cur \notin BadPayload
           /\ reconciler'.pc \in {"readFailed", "writeFailed"} => reconciler'.cur \in BadPayload
<1>1. ASSUME NEW h, ReconcilerNext(h)  PROVE reconciler'.pc \in {"sleep", "post"}
  BY <1>1 DEF ReconcilerNext, ReconcilerIdle
<1>2. CASE ReconcilerPost
  <2> PICK j \in reconciler.todo : \E a \in Meets(j, file[j] # "none") :
            CASE Verdict(j, a) = "ok" ->
                    reconciler' = [reconciler EXCEPT !.pc = "readDone", !.cur = j]
              [] Verdict(j, a) = "permanent" ->
                    reconciler' = [reconciler EXCEPT !.pc = "readFailed", !.cur = j]
              [] OTHER -> ReconcilerNext(j)
    BY <1>2 DEF ReconcilerPost
  <2>1. PICK a \in Meets(j, file[j] # "none") :
            CASE Verdict(j, a) = "ok" ->
                    reconciler' = [reconciler EXCEPT !.pc = "readDone", !.cur = j]
              [] Verdict(j, a) = "permanent" ->
                    reconciler' = [reconciler EXCEPT !.pc = "readFailed", !.cur = j]
              [] OTHER -> ReconcilerNext(j)
    OBVIOUS
  <2>2. a # "unauthorized"
    BY DEF Meets
  <2>3. CASE Verdict(j, a) = "ok"
    BY <2>1, <2>2, <2>3 DEF Verdict, TypeOK, LoopsOK
  <2>4. CASE Verdict(j, a) = "permanent"
    BY <2>1, <2>2, <2>4 DEF Verdict, TypeOK, LoopsOK
  <2>5. CASE Verdict(j, a) = "transient"
    BY <1>1, <2>1, <2>5
  <2> QED
    BY <2>3, <2>4, <2>5 DEF Verdict
<1>3. CASE ReconcilerMarkRead
  <2>1. \/ ReconcilerNext(reconciler.cur) \/ reconciler' = ReconcilerIdle
        \/ ReconcilerGoto(IF reconciler.pc = "readDone" THEN "writeDone" ELSE "writeFailed")
    BY <1>3 DEF ReconcilerMarkRead
  <2>2. CASE ReconcilerGoto(IF reconciler.pc = "readDone" THEN "writeDone" ELSE "writeFailed")
    BY <1>3, <2>2 DEF ReconcilerMarkRead, ReconcilerGoto, LoopTells, TypeOK, LoopsOK
  <2> QED
    BY <1>1, <2>1, <2>2 DEF ReconcilerIdle
<1>4. CASE ReconcilerSelect \/ ReconcilerMarkWrite
  <2>1. reconciler'.pc \in {"post", "discard", "sleep"}
    <3>1. CASE ReconcilerSelect
      BY <3>1 DEF ReconcilerSelect, TypeOK, LoopsOK
    <3>2. CASE ReconcilerMarkWrite
      <4>1. ReconcilerGoto("discard") \/ reconciler' = ReconcilerIdle
        BY <3>2 DEF ReconcilerMarkWrite
      <4> QED
        BY <4>1 DEF ReconcilerGoto, ReconcilerIdle, TypeOK, LoopsOK
    <3> QED
      BY <1>4, <3>1, <3>2
  <2> QED
    BY <2>1
<1>5. CASE ReconcilerDiscard
  BY <1>1, <1>5 DEF ReconcilerDiscard
<1> QED
  BY <1>2, <1>3, <1>4, <1>5 DEF Reconciler

LEMMA NextVerdict ==
    ASSUME MaxStarts = 1, "unauthorized" \notin SpringAnswers,
           TypeOK, CarrierInv, PlaceInv, DeliveryInv, VerdictInv, [Next]_vars
    PROVE  VerdictInv'
<1>1. ASSUME UNCHANGED <<wpc, wjob>>
      PROVE  \A v \in Workers : WorkerTells(v)'
  BY <1>1, TellsStands
<1>2. ASSUME UNCHANGED reconciler
      PROVE  LoopTells'
  <2>1. \A j \in reconciler'.todo : Ended(j)'
    BY <1>2, ListTells
  <2> QED
    BY <1>2, <2>1 DEF VerdictInv, LoopTells
<1>3. ASSUME NEW w \in Workers, Worker(w)  PROVE VerdictInv'
  <2>1. \A v \in Workers : v # w => wpc'[v] = wpc[v] /\ wjob'[v] = wjob[v]
    BY <1>3, WorkerHolds
  <2>2. \A v \in Workers : v # w => WorkerTells(v)'
    BY <2>1, TellsStands
  <2>3. WorkerTells(w)'
    BY <1>3, OwnTells
  <2>4. LoopTells'
    BY <1>2, <1>3, WorkerHolds
  <2> QED
    BY <2>2, <2>3, <2>4 DEF VerdictInv
<1>4. CASE Reconciler
  <2>1. UNCHANGED <<wpc, wjob>>
    BY <1>4 DEF Reconciler, ReconcilerSelect, ReconcilerPost, ReconcilerMarkRead,
                ReconcilerMarkWrite, ReconcilerDiscard
  <2>2. \A j \in reconciler'.todo : Ended(j)'
    BY <1>4, ReconcilerList, ListTells DEF PlaceInv, ListsTell
  <2> QED
    BY <1>1, <1>4, <2>1, <2>2, LoopHears DEF VerdictInv, LoopTells
<1>5. CASE UNCHANGED <<wpc, wjob, reconciler>>
  BY <1>1, <1>2, <1>5 DEF VerdictInv
<1>6. CASE Reaper
  BY <1>5, <1>6 DEF Reaper, ReaperSelectPending, ReaperEnqueuePending, ReaperSelectRunning,
     ReaperCommit, ReaperEnqueue, ReaperNotify, ReaperDiscard
<1>7. CASE Cleaner
  BY <1>5, <1>7 DEF Cleaner, CleanerPurge, CleanerFilesInUse, CleanerSweep, CleanerFails
<1>8. ASSUME NEW h \in Jobs, IngestBundle(h) \/ Elapse(h) \/ FileAges(h)  PROVE VerdictInv'
  BY <1>5, <1>8 DEF IngestBundle, IngestWrite, IngestRecord, IngestRollback, IngestEnqueue,
     Elapse, FileAges
<1>9. CASE Start
  BY <1>5, <1>9 DEF Start
<1>10. ~(Stop \/ Exit \/ Crash)
  BY DEF Stop, Exit, Crash, PlaceInv, OnceUp
<1>11. CASE UNCHANGED vars
  BY <1>5, <1>11
<1> QED
  BY <1>3, <1>4, <1>6, <1>7, <1>8, <1>9, <1>10, <1>11 DEF Next

(* Everyone who sends a job has heard the same of it: no task is about to  *)
(* mark a job FAILED that another one marks DONE, whoever of the worker    *)
(* and the reconciler sends it first, and whatever answer was lost.        *)
THEOREM VerdictCorrect ==
    ASSUME MaxStarts = 1, "unauthorized" \notin SpringAnswers
    PROVE  Spec => []VerdictInv
<1>1. Init => VerdictInv
  BY DEF Init, VerdictInv, WorkerTells, LoopTells, Sending, ReconcilerIdle
<1>2. TypeOK /\ CarrierInv /\ PlaceInv /\ DeliveryInv /\ VerdictInv /\ [Next]_vars => VerdictInv'
  BY NextVerdict
<1> QED
  BY <1>1, <1>2, TypeCorrect, CarrierCorrect, PlaceCorrect, DeliveryCorrect, PTL DEF Spec

-----------------------------------------------------------------------------
(* The life cycle of a job.                                                *)

LEMMA StepsOfLife ==
    ASSUME TypeOK, CarrierInv, PlaceInv, DeliveryInv, VerdictInv, [Next]_vars, NEW j \in Jobs
    PROVE  \/ Lifecycle!Accept(j) \/ Lifecycle!Begin(j) \/ Lifecycle!Analyse(j)
           \/ Lifecycle!Deliver(j) \/ Lifecycle!Refuse(j) \/ Lifecycle!PutBack(j)
           \/ Lifecycle!Purge(j) \/ Lifecycle!Stay(j)
<1>1. RowSteps(j)
  BY StepsOfRows
<1>2. CASE status'[j] = status[j] /\ requeue'[j] = requeue[j]
  BY <1>2 DEF Lifecycle!Stay
<1>3. CASE RowEnds(j) /\ requeue'[j] = requeue[j] /\ status'[j] # status[j]
  <2>1. CASE status[j] = "PENDING" /\ status'[j] \in {"RUNNING", "FAILED"}
    BY <1>3, <2>1 DEF Lifecycle!Begin, Lifecycle!Moves
  <2>2. CASE status[j] = "RUNNING" /\ status'[j] \in Sent
    BY <1>3, <2>2 DEF Lifecycle!Analyse, Lifecycle!Moves, Sent
  <2>3. CASE status[j] \in Sent /\ status'[j] \in TERMINAL_STATUSES
    <3>1. Ended(j) /\ Ended(j)' /\ (status'[j] = "DONE" => Stored(j))
      BY <1>3, <2>3, SentEnds
    <3>2. status[j] = "DELIVERING"
      BY <1>3, <2>3, <3>1 DEF Ended, Sent, TERMINAL_STATUSES
    <3> QED
      BY <1>3, <2>3, <3>1, <3>2
      DEF Lifecycle!Deliver, Lifecycle!Refuse, Lifecycle!Moves, TERMINAL_STATUSES
  <2> QED
    BY <1>3, <2>1, <2>2, <2>3 DEF RowEnds
<1>4. CASE status[j] = "absent" /\ status'[j] = "PENDING" /\ requeue'[j] = requeue[j]
  BY <1>4 DEF Lifecycle!Accept, Lifecycle!Moves
<1>5. CASE /\ status[j] = "RUNNING" /\ status'[j] = "PENDING"
           /\ requeue[j] < MaxRequeue /\ requeue'[j] = requeue[j] + 1
  BY <1>5 DEF Lifecycle!PutBack
<1>6. CASE status[j] \in TERMINAL_STATUSES /\ status'[j] = "absent" /\ requeue'[j] = 0
  BY <1>6 DEF Lifecycle!Purge, TERMINAL_STATUSES
<1> QED
  BY <1>1, <1>2, <1>3, <1>4, <1>5, <1>6 DEF RowSteps

(* The pipeline implements the life cycle: whatever the workers, the two   *)
(* loops and the requests do between one another's SELECT and COMMIT, no   *)
(* status that has ended changes before its row is purged, no unfinished   *)
(* row goes, a job is put back at most MaxRequeue times, and a row that    *)
(* was to be sent is DONE only when Spring has a report of its incident.   *)
THEOREM ImplementsLifecycle ==
    ASSUME MaxStarts = 1, "unauthorized" \notin SpringAnswers
    PROVE  Spec => LifecycleSpec
<1>1. Init => Lifecycle!Init
  BY TriggerTimeType DEF Init, Lifecycle!Init, Stored
<1>2. TypeOK /\ CarrierInv /\ PlaceInv /\ DeliveryInv /\ VerdictInv /\ [Next]_vars
          => [Lifecycle!Next]_<<status, requeue, {j \in Jobs : Stored(j)}>>
  <2> SUFFICES ASSUME TypeOK, CarrierInv, PlaceInv, DeliveryInv, VerdictInv, [Next]_vars
               PROVE  Lifecycle!Next
    OBVIOUS
  <2>1. {j \in Jobs : Stored(j)} \subseteq {j \in Jobs : Stored(j)}'
    BY StoredStays
  <2> QED
    BY <2>1, StepsOfLife DEF Lifecycle!Next
<1> QED
  BY <1>1, <1>2, TypeCorrect, CarrierCorrect, PlaceCorrect, DeliveryCorrect, VerdictCorrect, PTL
  DEF Spec, LifecycleSpec, Lifecycle!Spec

-----------------------------------------------------------------------------
(* The rows and Spring, when every incident has a triggerTime of its own.  *)

OwnReport(j)  == [kind |-> "report", job |-> j]
OwnFailure(j) == [kind |-> "failure", job |-> j]

SpringOf(j) ==
    LET r == spring[TriggerTime[j]] IN
    /\ r \in {NoReport, OwnReport(j), OwnFailure(j)}
    /\ r = OwnReport(j)  => j \notin BadPayload /\ status[j] \in {"DELIVERING", "DONE", "absent"}
    /\ r = OwnFailure(j) => status[j] \in {"FAILED", "absent"}
    /\ r # NoReport => ingest[j] \notin {"new", "written"}
    /\ status[j] = "DONE" => r = OwnReport(j)

SpringInv == \A j \in Jobs : SpringOf(j)

(* A report is sent of a job that waits for it or has ended well, a        *)
(* failure of a job that has FAILED.                                       *)
MaySend(h, kind) ==
    \/ kind = "report" /\ status[h] \in Sent /\ Ended(h)
    \/ kind = "failure" /\ status[h] = "FAILED"

LEMMA SpringMoves ==
    ASSUME TypeOK, PlaceInv, VerdictInv, [Next]_vars, ~UNCHANGED spring
    PROVE  /\ UNCHANGED <<status, ingest>>
           /\ \E h \in Jobs, kind \in {"report", "failure"} :
                 MaySend(h, kind) /\ spring' = Handled(h, kind)
<1>a. ASSUME NEW h, NEW kind, NEW a, Store(h, kind, a)  PROVE spring' = Handled(h, kind)
  BY <1>a DEF Store
<1>1. ASSUME NEW w \in Workers, WorkerPost(w)
      PROVE  /\ UNCHANGED <<status, ingest>>
             /\ \E h \in Jobs, kind \in {"report", "failure"} :
                   MaySend(h, kind) /\ spring' = Handled(h, kind)
  <2>1. wjob[w] \in Jobs /\ wpc[w] = "post"
    BY <1>1 DEF WorkerPost, TypeOK, WorkersOK
  <2>2. WorkerRow(w) /\ WorkerTells(w)
    BY DEF PlaceInv, WorkerRows, VerdictInv
  <2>3. MaySend(wjob[w], "report")
    BY <2>1, <2>2 DEF WorkerRow, WorkerTells, Sending, MaySend
  <2>4. UNCHANGED <<status, ingest>> /\ \E a : Store(wjob[w], "report", a)
    BY <1>1 DEF WorkerPost
  <2> QED
    BY <1>a, <2>1, <2>3, <2>4
<1>2. ASSUME NEW w \in Workers, WorkerNotify(w)
      PROVE  /\ UNCHANGED <<status, ingest>>
             /\ \E h \in Jobs, kind \in {"report", "failure"} :
                   MaySend(h, kind) /\ spring' = Handled(h, kind)
  <2>1. wjob[w] \in Jobs /\ wpc[w] = "notify"
    BY <1>2 DEF WorkerNotify, TypeOK, WorkersOK
  <2>2. MaySend(wjob[w], "failure")
    BY <2>1 DEF PlaceInv, WorkerRows, WorkerRow, MaySend
  <2>3. UNCHANGED <<status, ingest>> /\ \E a : Store(wjob[w], "failure", a)
    BY <1>2 DEF WorkerNotify
  <2> QED
    BY <1>a, <2>1, <2>2, <2>3
<1>3. CASE ReaperNotify
  <2>1. PICK h \in reaper.fail : \E a : Store(h, "failure", a)
    BY <1>3 DEF ReaperNotify
  <2>2. h \in Jobs /\ MaySend(h, "failure")
    BY DEF PlaceInv, ListsTell, MaySend, TypeOK, LoopsOK
  <2>3. UNCHANGED <<status, ingest>>
    BY <1>3 DEF ReaperNotify
  <2> QED
    BY <1>a, <2>1, <2>2, <2>3
<1>4. CASE ReconcilerPost
  <2>1. PICK h \in reconciler.todo : \E a : Store(h, "report", a)
    BY <1>4 DEF ReconcilerPost
  <2>2. h \in Jobs /\ MaySend(h, "report")
    BY DEF PlaceInv, ListsTell, VerdictInv, LoopTells, MaySend, TypeOK, LoopsOK
  <2>3. UNCHANGED <<status, ingest>>
    BY <1>4 DEF ReconcilerPost
  <2> QED
    BY <1>a, <2>1, <2>2, <2>3
<1> QED
  BY <1>1, <1>2, <1>3, <1>4, WhoStores

LEMMA RequestsMoveOn ==
    ASSUME TypeOK, PlaceInv, MaxStarts = 1, [Next]_vars, NEW j \in Jobs,
           ingest'[j] \in {"new", "written"}
    PROVE  ingest[j] \in {"new", "written"}
<1>1. CASE UNCHANGED ingest
  BY <1>1
<1>2. ASSUME NEW w \in Workers, Worker(w)  PROVE UNCHANGED ingest
  BY <1>2, WorkerHolds
<1>3. Reaper => UNCHANGED ingest
  BY DEF Reaper, ReaperSelectPending, ReaperEnqueuePending, ReaperSelectRunning, ReaperCommit,
     ReaperEnqueue, ReaperNotify, ReaperDiscard
<1>4. Reconciler => UNCHANGED ingest
  BY DEF Reconciler, ReconcilerSelect, ReconcilerPost, ReconcilerMarkRead, ReconcilerMarkWrite,
     ReconcilerDiscard
<1>5. Cleaner => UNCHANGED ingest
  BY DEF Cleaner, CleanerPurge, CleanerFilesInUse, CleanerSweep, CleanerFails
<1>6. ASSUME NEW h \in Jobs, Elapse(h) \/ FileAges(h)  PROVE UNCHANGED ingest
  BY <1>6 DEF Elapse, FileAges
<1>7. ASSUME NEW h \in Jobs, IngestBundle(h)  PROVE ingest[j] \in {"new", "written"}
  <2>1. /\ \A i \in Jobs : i # h => ingest'[i] = ingest[i]
        /\ ingest'[h] \notin {"new", "written"} \/ ingest[h] = "new"
    BY <1>7 DEF IngestBundle, IngestWrite, IngestRecord, IngestRollback, IngestEnqueue,
       IngestGoto, TypeOK, ProcessOK
  <2> QED
    BY <2>1
<1>8. Start => UNCHANGED ingest
  BY DEF Start
<1>9. ~(Stop \/ Exit \/ Crash)
  BY DEF Stop, Exit, Crash, PlaceInv, OnceUp
<1> QED
  BY <1>1, <1>2, <1>3, <1>4, <1>5, <1>6, <1>7, <1>8, <1>9 DEF Next

(* A report or a failure arrives at Spring. *)
LEMMA SpringTakes ==
    ASSUME TypeOK, CarrierInv, SpringInv,
           \A i, j \in Jobs : TriggerTime[i] = TriggerTime[j] => i = j,
           UNCHANGED <<status, ingest>>, NEW h \in Jobs, NEW kind \in {"report", "failure"},
           MaySend(h, kind), spring' = Handled(h, kind)
    PROVE  SpringInv'
<1> SUFFICES ASSUME NEW j \in Jobs  PROVE SpringOf(j)'
  BY DEF SpringInv
<1>1. SpringOf(j) /\ TriggerTime[j] \in Keys /\ TriggerTime[h] \in Keys
  BY TriggerTimeType DEF SpringInv
<1>2. CASE spring'[TriggerTime[j]] = spring[TriggerTime[j]]
  BY <1>1, <1>2 DEF SpringOf
<1>3. CASE /\ h = j /\ j \notin BadPayload /\ spring[TriggerTime[j]] = NoReport
           /\ spring'[TriggerTime[j]] = [kind |-> kind, job |-> j]
  <2>1. ingest[j] \notin {"new", "written"}
    BY <1>3 DEF CarrierInv, LineInv, FreshAlone, MaySend, Sent
  <2>2. CASE kind = "report"
    BY <1>1, <1>3, <2>1, <2>2 DEF SpringOf, MaySend, Sent, Ended, OwnReport, OwnFailure, NoReport
  <2>3. CASE kind = "failure"
    BY <1>1, <1>3, <2>1, <2>3 DEF SpringOf, MaySend, OwnReport, OwnFailure, NoReport
  <2> QED
    BY <2>2, <2>3
<1> QED
  BY <1>1, <1>2, <1>3 DEF Handled, TypeOK, DurableOK

(* A row moves, and Spring stays. *)
LEMMA SpringStays ==
    ASSUME MaxStarts = 1, "none" \notin RcaOutcomes,
           TypeOK, CarrierInv, PlaceInv, DeliveryInv, VerdictInv, SpringInv, [Next]_vars,
           UNCHANGED spring, NEW j \in Jobs
    PROVE  SpringOf(j)'
<1> DEFINE r == spring[TriggerTime[j]]
<1>1. SpringOf(j) /\ r' = r
  BY DEF SpringInv
<1>2. r # NoReport => ingest'[j] \notin {"new", "written"}
  BY <1>1, RequestsMoveOn DEF SpringOf
<1>3. OwnReport(j) # NoReport /\ OwnFailure(j) # NoReport /\ OwnReport(j) # OwnFailure(j)
  BY DEF OwnReport, OwnFailure, NoReport
<1>4. status'[j] = "DONE" => r # NoReport
  BY NextDelivery DEF DeliveryInv, DoneIsReported, Stored
<1> HIDE DEF r
<1>5. RowSteps(j)
  BY StepsOfRows
<1>6. SpringOf(j) <=>
        /\ r \in {NoReport, OwnReport(j), OwnFailure(j)}
        /\ r = OwnReport(j)  => j \notin BadPayload /\ status[j] \in {"DELIVERING", "DONE", "absent"}
        /\ r = OwnFailure(j) => status[j] \in {"FAILED", "absent"}
        /\ r # NoReport => ingest[j] \notin {"new", "written"}
        /\ status[j] = "DONE" => r = OwnReport(j)
  BY DEF SpringOf, r
<1>7. SUFFICES /\ r = OwnReport(j)  => status'[j] \in {"DELIVERING", "DONE", "absent"}
               /\ r = OwnFailure(j) => status'[j] \in {"FAILED", "absent"}
               /\ status'[j] = "DONE" => r = OwnReport(j)
  BY <1>1, <1>2, <1>6 DEF SpringOf, r, OwnReport, OwnFailure
<1>8. CASE status'[j] = status[j] \/ status'[j] = "absent"
  BY <1>1, <1>6, <1>8
<1>9. CASE status[j] \in {"absent", "PENDING", "RUNNING"} /\ status'[j] # "absent"
           /\ (status[j] = "absent" => ingest[j] = "written")
  BY <1>1, <1>3, <1>4, <1>6, <1>9
<1>10. CASE status[j] \in Sent /\ status'[j] \in TERMINAL_STATUSES /\ status'[j] # status[j]
  <2>1. Ended(j) /\ Ended(j)' /\ (status'[j] = "DONE" => Stored(j))
    BY <1>10, SentEnds
  <2> QED
    BY <1>1, <1>3, <1>4, <1>6, <1>10, <2>1 DEF Ended, Sent, TERMINAL_STATUSES
<1> QED
  BY <1>5, <1>8, <1>9, <1>10 DEF RowSteps, RowEnds, Sent, TERMINAL_STATUSES

LEMMA NextSpring ==
    ASSUME MaxStarts = 1, "none" \notin RcaOutcomes,
           \A i, j \in Jobs : TriggerTime[i] = TriggerTime[j] => i = j,
           TypeOK, CarrierInv, PlaceInv, DeliveryInv, VerdictInv, SpringInv, [Next]_vars
    PROVE  SpringInv'
<1>1. CASE UNCHANGED spring
  BY <1>1, SpringStays DEF SpringInv
<1>2. CASE ~UNCHANGED spring
  BY <1>2, SpringMoves, SpringTakes
<1> QED
  BY <1>1, <1>2

(* The row and Spring agree on a job that has ended, over lost answers and *)
(* the two senders racing: DONE is never written without the report, and   *)
(* FAILED never over a report that Spring shows.                           *)
THEOREM RowsAndSpringAgree ==
    ASSUME MaxStarts = 1, "none" \notin RcaOutcomes, "unauthorized" \notin SpringAnswers,
           \A i, j \in Jobs : TriggerTime[i] = TriggerTime[j] => i = j
    PROVE  Spec => []RowAndSpringAgree
<1>1. Init => SpringInv
  BY TriggerTimeType DEF Init, SpringInv, SpringOf, OwnReport, OwnFailure, NoReport
<1>2. TypeOK /\ CarrierInv /\ PlaceInv /\ DeliveryInv /\ VerdictInv /\ SpringInv /\ [Next]_vars
          => SpringInv'
  BY NextSpring
<1>3. SpringInv => RowAndSpringAgree
  BY DEF SpringInv, SpringOf, RowAndSpringAgree, OwnReport
<1> QED
  BY <1>1, <1>2, <1>3, TypeCorrect, CarrierCorrect, PlaceCorrect, DeliveryCorrect,
     VerdictCorrect, PTL DEF Spec

=============================================================================
