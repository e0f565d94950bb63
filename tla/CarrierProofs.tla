---------------------------- MODULE CarrierProofs ----------------------------
(***************************************************************************)
(* Who is to analyse a waiting job: for any number of jobs, workers,       *)
(* process starts and failed operations, a job waits in one place at a     *)
(* time, and no PENDING job is forgotten while nothing has failed.         *)
(***************************************************************************)
EXTENDS AiBackendProofs, CrashLoop

USE DEF vars, rowVars, workerVars, loopVars

-----------------------------------------------------------------------------
(* The inductive invariant. *)

Carried(j) == Queued(j) \/ Taken(j) \/ j \in reaper.enq \/ Recorded(j)

(* A job that waits is not RUNNING and is not about to be recovered. *)
WaitsApart ==
    \A j \in Jobs : Carried(j) =>
        status[j] # "RUNNING" /\ j \notin reaper.take /\ ingest[j] \notin {"new", "written"}

(* A request that has not recorded its job has no row. *)
FreshAlone ==
    \A j \in Jobs : ingest[j] \in {"new", "written"} =>
        status[j] = "absent" /\ j \notin reaper.take

(* The status a worker has read is the one the row still waits in. *)
ReadFirst ==
    \A w \in Workers : wpc[w] \in Early \ {"load"} =>
        /\ wread[w] \notin {"RUNNING", "absent"}
        /\ wread[w] # "PENDING" => status[wjob[w]] # "PENDING"

(* The recovery at the start has looked for PENDING rows. *)
Ready == phase = "serving" \/ (phase = "starting" /\ reaper.pc # "selectPending")

PendingCarried ==
    faults = 0 /\ Ready => \A j \in Jobs : status[j] = "PENDING" => Carried(j)

LineInv == WaitsOnce /\ WaitsApart /\ FreshAlone /\ ReadFirst /\ PendingCarried

(* What the life cycle of the process keeps apart: nothing is queued and   *)
(* no worker is at work before the PENDING rows are enqueued.              *)
WorkersIdle == \A w \in Workers : wpc[w] = "get"

PhaseInv ==
    /\ phase = "down" => queue = <<>> /\ WorkersIdle /\ reaper = ReaperIdle
    /\ phase = "stopping" => reaper = ReaperIdle
    /\ phase # "serving" => \A j \in Jobs : ingest[j] \notin InFlight
    /\ reaper.pc \in {"selectPending", "enqueuePending", "selectRunning"} => phase = "starting"
    /\ reaper.pc \in {"selectPending", "enqueuePending"} => queue = <<>> /\ WorkersIdle
    /\ phase = "starting" => reaper.pc # "sleep"
    /\ reaper.pc # "commit" => reaper.take = {}
    /\ reaper.pc \notin {"enqueue", "enqueuePending"} => reaper.enq = {}

CarrierInv == LineInv /\ PhaseInv

-----------------------------------------------------------------------------
(* The queue. *)

(* Any ordering of a set of jobs holds each of them once, and no other. *)
LEMMA OrderingCovers ==
    ASSUME NEW S \in SUBSET Jobs, NEW s \in SetToSeqs(S)
    PROVE  /\ \A a, b \in DOMAIN s : s[a] = s[b] => a = b
           /\ \A j : (\E k \in DOMAIN s : s[k] = j) <=> j \in S
<1> DEFINE n == Cardinality(S)
<1>1. IsFiniteSet(S) /\ n \in Nat
  BY JobsFinite, FS_Subset, FS_CardinalityType
<1>2. s \in [1..n -> S] /\ \A a, b \in 1..n : a # b => s[a] # s[b]
  BY DEF SetToSeqs
<1>3. s \in Injection(1..n, S)
  BY <1>2 DEF Injection, IsInjective
<1>4. IsFiniteSet(1..n) /\ Cardinality(1..n) = n
  <2> HIDE DEF n
  <2> QED BY <1>1, FS_Interval
<1>5. s \in Surjection(1..n, S)
  BY <1>1, <1>3, <1>4, FS_Injection
<1>6. \A j \in S : \E k \in 1..n : s[k] = j
  BY <1>5 DEF Surjection
<1> QED
  BY <1>2, <1>6

(* Enqueuing some jobs that were not queued, each once. *)
LEMMA EnqueueQueues ==
    ASSUME queue \in Seq(Jobs), NEW s \in Seq(Jobs), Enqueue(s)
    PROVE  /\ \A j : Queued(j)' <=> Queued(j) \/ \E k \in DOMAIN s : s[k] = j
           /\ QueuedOnce /\ (\A a, b \in DOMAIN s : s[a] = s[b] => a = b)
                 /\ (\A k \in DOMAIN s : ~Queued(s[k])) => QueuedOnce'
<1> DEFINE m == Len(queue)
           n == Len(s)
<1>1. queue' = queue \o s
  BY DEF Enqueue
<1>2. m \in Nat /\ n \in Nat /\ DOMAIN queue = 1..m /\ DOMAIN s = 1..n
  OBVIOUS
<1>3. DOMAIN queue' = 1..(m + n)
  BY <1>1, ConcatProperties
<1>4. \A i \in 1..m : queue'[i] = queue[i] /\ i \in DOMAIN queue'
  BY <1>1, <1>2, <1>3, ConcatProperties
<1>5. \A k \in 1..n : queue'[m + k] = s[k] /\ m + k \in DOMAIN queue'
  <2> SUFFICES ASSUME NEW k \in 1..n
               PROVE  queue'[m + k] = s[k] /\ m + k \in DOMAIN queue'
    OBVIOUS
  <2>1. m + k \in 1..(m + n) /\ ~(m + k <= m) /\ (m + k) - m = k
    BY <1>2
  <2> QED
    BY <1>1, <1>3, <2>1, ConcatProperties
<1>6. \A i \in DOMAIN queue' : i \in 1..m \/ \E k \in 1..n : i = m + k
  <2> SUFFICES ASSUME NEW i \in DOMAIN queue', i \notin 1..m
               PROVE  i - m \in 1..n /\ i = m + (i - m)
    OBVIOUS
  <2> HIDE DEF m, n
  <2> QED
    BY <1>2, <1>3
<1> HIDE DEF m, n
<1>7. \A j : Queued(j)' <=> Queued(j) \/ \E k \in DOMAIN s : s[k] = j
  <2> SUFFICES ASSUME NEW j  PROVE Queued(j)' <=> Queued(j) \/ \E k \in DOMAIN s : s[k] = j
    OBVIOUS
  <2>1. ASSUME NEW i \in DOMAIN queue', queue'[i] = j
        PROVE  Queued(j) \/ \E k \in DOMAIN s : s[k] = j
    <3>1. CASE i \in 1..m
      BY <1>2, <1>4, <2>1, <3>1 DEF Queued
    <3>2. ASSUME NEW k \in 1..n, i = m + k  PROVE s[k] = j /\ k \in DOMAIN s
      BY <1>2, <1>5, <2>1, <3>2
    <3> QED
      BY <1>6, <3>1, <3>2
  <2>2. Queued(j) => Queued(j)'
    BY <1>2, <1>4 DEF Queued
  <2>3. (\E k \in DOMAIN s : s[k] = j) => Queued(j)'
    BY <1>2, <1>5 DEF Queued
  <2>4. Queued(j)' => Queued(j) \/ \E k \in DOMAIN s : s[k] = j
    BY <2>1 DEF Queued
  <2> QED
    BY <2>2, <2>3, <2>4
<1>8. ASSUME QueuedOnce, \A a, b \in DOMAIN s : s[a] = s[b] => a = b,
             \A k \in DOMAIN s : ~Queued(s[k]),
             NEW a \in DOMAIN queue', NEW b \in DOMAIN queue', queue'[a] = queue'[b]
      PROVE  a = b
  <2>1. CASE a \in 1..m /\ b \in 1..m
    <3>1. a \in DOMAIN queue /\ b \in DOMAIN queue /\ queue[a] = queue[b]
      BY <1>2, <1>4, <1>8, <2>1
    <3>2. \A k, l \in DOMAIN queue : queue[k] = queue[l] => k = l
      BY <1>8 DEF QueuedOnce
    <3> QED
      BY ONLY <3>1, <3>2
  <2>2. ASSUME NEW i \in 1..m, NEW k \in 1..n  PROVE queue'[i] # queue'[m + k]
    <3>1. queue'[m + k] = s[k] /\ k \in DOMAIN s /\ queue'[i] = queue[i] /\ i \in DOMAIN queue
      BY <1>2, <1>4, <1>5
    <3>2. Queued(queue[i]) /\ ~Queued(s[k])
      BY <1>8, <3>1 DEF Queued
    <3> QED
      BY <3>1, <3>2
  <2>3. ASSUME NEW k \in 1..n, NEW l \in 1..n, a = m + k, b = m + l  PROVE a = b
    BY <1>2, <1>5, <1>8, <2>3
  <2> QED
    BY <1>6, <1>8, <2>1, <2>2, <2>3
<1> QED
  BY <1>7, <1>8 DEF QueuedOnce

(* Taking the head. *)
LEMMA HeadLeaves ==
    ASSUME queue \in Seq(Jobs), queue # <<>>, queue' = Tail(queue), QueuedOnce,
           NEW h, h = Head(queue)
    PROVE  /\ QueuedOnce' /\ Queued(h) /\ ~Queued(h)'
           /\ \A j : j # h => (Queued(j)' <=> Queued(j))
<1> DEFINE n == Len(queue)
<1>1. n \in Nat /\ n >= 1 /\ DOMAIN queue = 1..n /\ h = queue[1]
  OBVIOUS
<1>2. DOMAIN queue' = 1..(n - 1) /\ \A i \in 1..(n - 1) : queue'[i] = queue[i + 1]
  BY HeadTailProperties
<1> HIDE DEF n
<1>3. \A i \in DOMAIN queue' : i + 1 \in DOMAIN queue /\ i + 1 # 1 /\ queue'[i] = queue[i + 1]
  BY <1>1, <1>2
<1>4. \A i \in DOMAIN queue : i = 1 \/ (i - 1 \in DOMAIN queue' /\ queue'[i - 1] = queue[i])
  <2> SUFFICES ASSUME NEW i \in DOMAIN queue, i # 1
               PROVE  i - 1 \in DOMAIN queue' /\ queue'[i - 1] = queue[i]
    OBVIOUS
  <2>1. i - 1 \in 1..(n - 1) /\ (i - 1) + 1 = i
    BY <1>1
  <2> QED
    BY <1>2, <2>1
<1>5. 1 \in DOMAIN queue
  BY <1>1
<1>6. QueuedOnce'
  <2> SUFFICES ASSUME NEW a \in DOMAIN queue', NEW b \in DOMAIN queue', queue'[a] = queue'[b]
               PROVE  a = b
    BY DEF QueuedOnce
  <2>1. a + 1 = b + 1
    BY <1>3 DEF QueuedOnce
  <2> QED
    BY <1>2, <2>1
<1>7. ~Queued(h)'
  <2> SUFFICES ASSUME NEW i \in DOMAIN queue', queue'[i] = h
               PROVE  FALSE
    BY <1>1 DEF Queued
  <2> QED
    BY <1>3, <1>5 DEF QueuedOnce
<1>8. ASSUME NEW j, j # h  PROVE Queued(j)' <=> Queued(j)
  <2>1. Queued(j)' => Queued(j)
    BY <1>3 DEF Queued
  <2>2. ASSUME NEW i \in DOMAIN queue, queue[i] = j  PROVE Queued(j)'
    <3>1. i # 1
      BY <1>1, <1>8, <2>2
    <3> QED
      BY <1>4, <2>2, <3>1 DEF Queued
  <2> QED
    BY <2>1, <2>2 DEF Queued
<1>9. Queued(h)
  BY <1>1, <1>5 DEF Queued
<1> QED
  BY <1>6, <1>7, <1>8, <1>9

-----------------------------------------------------------------------------
(* The line, whatever the life cycle of the process.                       *)

(* The line stands; rows only come to rest. *)
LEMMA LineRests ==
    ASSUME TypeOK, LineInv, UNCHANGED <<queue, workerVars, ingest>>,
           reaper'.enq = reaper.enq, reaper'.take \in {reaper.take, {}},
           faults' = 0 /\ Ready' => faults = 0 /\ Ready,
           \A j \in Jobs : \/ status'[j] = status[j]
                           \/ status[j] # "absent" /\ status'[j] \notin {"PENDING", "RUNNING"}
    PROVE  LineInv'
<1>1. \A j : /\ Queued(j)' <=> Queued(j)
             /\ Taken(j)' <=> Taken(j)
             /\ Recorded(j)' <=> Recorded(j)
             /\ Carried(j)' <=> Carried(j)
  BY DEF Queued, Taken, Recorded, Carried
<1>2. WaitsOnce'
  <2>1. QueuedOnce' /\ TakenOnce'
    BY DEF LineInv, WaitsOnce, QueuedOnce, TakenOnce
  <2> QED
    BY <1>1, <2>1 DEF LineInv, WaitsOnce
<1>3. WaitsApart'
  BY <1>1 DEF LineInv, WaitsApart
<1>4. FreshAlone'
  BY DEF LineInv, FreshAlone
<1>5. ReadFirst'
  <2>1. \A w \in Workers : wpc[w] \in Early \ {"load"} => wjob[w] \in Jobs
    BY DEF Early, TypeOK, WorkersOK
  <2> QED
    BY <2>1 DEF LineInv, ReadFirst
<1>6. PendingCarried'
  BY <1>1 DEF LineInv, PendingCarried
<1> QED
  BY <1>2, <1>3, <1>4, <1>5, <1>6 DEF LineInv

(* A worker takes the head of the queue. *)
LEMMA GetKeepsLine ==
    ASSUME TypeOK, LineInv, NEW w \in Workers, WorkerGet(w)
    PROVE  LineInv'
<1> PICK h : h = Head(queue)
  OBVIOUS
<1>1. queue \in Seq(Jobs) /\ queue # <<>> /\ queue' = Tail(queue) /\ h \in Jobs
  BY HeadTailProperties DEF WorkerGet, TypeOK, ProcessOK
<1>2. /\ QueuedOnce' /\ Queued(h) /\ ~Queued(h)'
      /\ \A j : j # h => (Queued(j)' <=> Queued(j))
  BY <1>1, HeadLeaves DEF LineInv, WaitsOnce
<1>3. /\ wpc[w] = "get" /\ wpc'[w] = "load" /\ wjob'[w] = h
      /\ \A v \in Workers : v # w => wpc'[v] = wpc[v] /\ wjob'[v] = wjob[v]
      /\ wread' = wread
  BY DEF WorkerGet, TypeOK, WorkersOK
<1>4. UNCHANGED <<status, ingest, reaper, phase, faults>>
  BY DEF WorkerGet
<1>5. "get" \notin Early /\ "load" \in Early
  BY DEF Early
<1>6. \A j : Taken(j)' <=> Taken(j) \/ j = h
  BY <1>3, <1>5 DEF Taken
<1>7. \A j : Recorded(j)' <=> Recorded(j)
  BY <1>4 DEF Recorded
<1>8. \A j : Carried(j)' <=> Carried(j)
  BY <1>2, <1>4, <1>6, <1>7 DEF Carried
<1>9. TakenOnce'
  <2>1. ASSUME NEW v \in Workers, v # w, wpc[v] \in Early  PROVE wjob[v] # h
    BY <1>1, <1>2, <2>1 DEF LineInv, WaitsOnce, Taken
  <2> QED
    BY <1>3, <2>1 DEF LineInv, WaitsOnce, TakenOnce
<1>10. WaitsOnce'
  BY <1>1, <1>2, <1>4, <1>6, <1>7, <1>9 DEF LineInv, WaitsOnce
<1>11. WaitsApart' /\ FreshAlone'
  BY <1>4, <1>8 DEF LineInv, WaitsApart, FreshAlone
<1>12. ReadFirst'
  BY <1>3, <1>4 DEF LineInv, ReadFirst
<1>13. PendingCarried'
  BY <1>4, <1>8 DEF LineInv, PendingCarried, Ready
<1> QED
  BY <1>10, <1>11, <1>12, <1>13 DEF LineInv

(* A worker goes on before it has marked its job. *)
LEMMA EarlyKeepsLine ==
    ASSUME TypeOK, LineInv, NEW w \in Workers, NEW pc \in Early \ {"load"}, wpc[w] \in Early,
           wpc' = [wpc EXCEPT ![w] = pc], wjob' = wjob,
           \A v \in Workers : v # w => wread'[v] = wread[v],
           wread'[w] \notin {"RUNNING", "absent"},
           wread'[w] # "PENDING" => status[wjob[w]] # "PENDING",
           UNCHANGED <<status, queue, ingest, reaper, phase, faults>>
    PROVE  LineInv'
<1>1. \A v \in Workers : wpc'[v] = IF v = w THEN pc ELSE wpc[v]
  BY DEF TypeOK, WorkersOK
<1>2. \A v \in Workers : wpc'[v] \in Early <=> wpc[v] \in Early
  BY <1>1
<1>3. \A j : /\ Queued(j)' <=> Queued(j)
             /\ Taken(j)' <=> Taken(j)
             /\ Recorded(j)' <=> Recorded(j)
             /\ Carried(j)' <=> Carried(j)
  BY <1>2 DEF Queued, Taken, Recorded, Carried
<1>4. WaitsOnce'
  <2>1. QueuedOnce' /\ TakenOnce'
    BY <1>2 DEF LineInv, WaitsOnce, QueuedOnce, TakenOnce
  <2> QED
    BY <1>3, <2>1 DEF LineInv, WaitsOnce
<1>5. WaitsApart' /\ FreshAlone'
  BY <1>3 DEF LineInv, WaitsApart, FreshAlone
<1>6. ReadFirst'
  BY <1>1 DEF LineInv, ReadFirst
<1>7. PendingCarried'
  BY <1>3 DEF LineInv, PendingCarried, Ready
<1> QED
  BY <1>4, <1>5, <1>6, <1>7 DEF LineInv

(* A worker leaves the line: it marks its job, or lets go of it. *)
LEMMA LeaveKeepsLine ==
    ASSUME TypeOK, LineInv, NEW w \in Workers, NEW pc \in WorkerPCs \ Early, Goto(w, pc),
           NEW h \in Jobs, h = wjob[w], NEW s \in Statuses \ {"PENDING"},
           UNCHANGED <<queue, ingest, reaper, phase>>,
           \/ status' = status
           \/ /\ status' = [status EXCEPT ![h] = s] /\ status[h] # "absent"
              /\ s = "RUNNING" => wpc[w] \in Early,
           faults' = 0 => faults = 0 /\ (wpc[w] \in Early => status'[h] # "PENDING")
    PROVE  LineInv'
<1>1. /\ wpc'[w] = pc /\ pc \notin Early
      /\ \A v \in Workers : v # w => wpc'[v] = wpc[v] /\ wjob'[v] = wjob[v] /\ wread'[v] = wread[v]
  BY DEF Goto, TypeOK, WorkersOK
<1>2. \A j \in Jobs : status'[j] = status[j] \/ (j = h /\ status[h] # "absent" /\ status'[j] = s)
  BY DEF TypeOK, DurableOK
<1>3. \A j : /\ Queued(j)' <=> Queued(j)
             /\ Taken(j)' => Taken(j)
             /\ Recorded(j)' <=> Recorded(j)
             /\ Carried(j)' => Carried(j)
  BY <1>1 DEF Queued, Taken, Recorded, Carried
<1>4. TakenOnce'
  BY <1>1 DEF LineInv, WaitsOnce, TakenOnce
<1>5. WaitsOnce'
  <2>1. QueuedOnce'
    BY DEF LineInv, WaitsOnce, QueuedOnce
  <2> QED
    BY <1>3, <1>4, <2>1 DEF LineInv, WaitsOnce
<1>6. wpc[w] \in Early => ~Carried(h)'
  <2> SUFFICES ASSUME wpc[w] \in Early  PROVE ~Carried(h)'
    OBVIOUS
  <2>1. Taken(h)
    BY DEF Taken
  <2>2. ~Taken(h)'
    <3> SUFFICES ASSUME NEW v \in Workers, wpc'[v] \in Early, wjob'[v] = h  PROVE FALSE
      BY DEF Taken
    <3> QED
      BY <1>1 DEF LineInv, WaitsOnce, TakenOnce
  <2> QED
    BY <1>3, <2>1, <2>2 DEF LineInv, WaitsOnce, Carried
<1>7. WaitsApart'
  <2> SUFFICES ASSUME NEW j \in Jobs, Carried(j)'
               PROVE  /\ status'[j] # "RUNNING" /\ j \notin reaper'.take
                      /\ ingest'[j] \notin {"new", "written"}
    BY DEF WaitsApart
  <2>1. status[j] # "RUNNING" /\ j \notin reaper.take /\ ingest[j] \notin {"new", "written"}
    BY <1>3 DEF LineInv, WaitsApart
  <2>2. CASE j = h /\ status' = [status EXCEPT ![h] = s]
    BY <1>6, <2>1, <2>2 DEF TypeOK, DurableOK
  <2>3. CASE j # h \/ status' = status
    BY <1>2, <2>1, <2>3
  <2> QED
    BY <2>1, <2>2, <2>3
<1>8. FreshAlone'
  BY <1>2 DEF LineInv, FreshAlone
<1>9. ReadFirst'
  <2> SUFFICES ASSUME NEW v \in Workers, v # w, wpc[v] \in Early \ {"load"}
               PROVE  /\ wread[v] \notin {"RUNNING", "absent"}
                      /\ wread[v] # "PENDING" => status'[wjob[v]] # "PENDING"
    BY <1>1 DEF ReadFirst
  <2>1. wjob[v] \in Jobs
    BY DEF Early, TypeOK, WorkersOK
  <2> QED
    BY <1>2, <2>1 DEF LineInv, ReadFirst
<1>10. PendingCarried'
  <2> SUFFICES ASSUME faults' = 0, Ready', NEW j \in Jobs, status'[j] = "PENDING"
               PROVE  Carried(j)'
    BY DEF PendingCarried
  <2>1. status[j] = "PENDING" /\ Carried(j)
    BY <1>2 DEF LineInv, PendingCarried, Ready
  <2>2. Taken(j) => Taken(j)'
    BY <1>1 DEF Taken
  <2> QED
    BY <1>3, <2>1, <2>2 DEF Carried
<1> QED
  BY <1>5, <1>7, <1>8, <1>9, <1>10 DEF LineInv

(* A commit of a worker that holds a job, with the places it may lead to. *)
LEMMA CommitKeepsLine ==
    ASSUME TypeOK, LineInv, NEW w \in Workers, wpc[w] # "get",
           NEW read \in Statuses, NEW s \in Statuses \ {"PENDING", "absent"},
           NEW ok \in WorkerPCs \ Early, NEW raised \in WorkerPCs \ Early,
           WorkerCommit(w, read, s, ok, raised),
           s = "RUNNING" => wpc[w] \in Early,
           wpc[w] \in Early /\ status[wjob[w]] = "PENDING" => read # s
    PROVE  LineInv'
<1> PICK h \in Jobs : h = wjob[w]
  BY DEF TypeOK, WorkersOK
<1>1. PICK pc \in {ok, raised} : Goto(w, pc)
  BY DEF WorkerCommit
<1>2. UNCHANGED <<queue, ingest, reaper, phase>>
  BY DEF WorkerCommit
<1>3. \/ status' = status
      \/ status' = [status EXCEPT ![h] = s] /\ status[h] # "absent"
  BY DEF WorkerCommit, CanSave, SaveStatus, SetStatus
<1>4. faults' = 0 => faults = 0 /\ (wpc[w] \in Early => status'[h] # "PENDING")
  <2> SUFFICES ASSUME faults' = 0
               PROVE  faults = 0 /\ (wpc[w] \in Early => status'[h] # "PENDING")
    OBVIOUS
  <2>1. ~Fault
    BY DEF Fault, TypeOK, ProcessOK
  <2>2. faults' = faults
    BY <2>1 DEF WorkerCommit
  <2>3. CASE CanSave(h, read, s) /\ SaveStatus(h, read, s)
    BY <2>2, <2>3 DEF SaveStatus, SetStatus, TypeOK, DurableOK
  <2>4. CASE ~CanSave(h, read, s) /\ status' = status
    BY <2>2, <2>4 DEF CanSave
  <2> QED
    BY <2>1, <2>3, <2>4 DEF WorkerCommit
<1>5. pc \in WorkerPCs \ Early
  OBVIOUS
<1> QED
  BY <1>1, <1>2, <1>3, <1>4, <1>5, LeaveKeepsLine

(* A worker that lets go of its job, or goes on after it was marked. *)
LEMMA PassKeepsLine ==
    ASSUME TypeOK, LineInv, NEW w \in Workers, wpc[w] # "get",
           NEW pc \in WorkerPCs \ Early, Goto(w, pc),
           UNCHANGED <<status, queue, ingest, reaper, phase>>,
           faults' = 0 => faults = 0 /\ (wpc[w] \in Early => status[wjob[w]] # "PENDING")
    PROVE  LineInv'
<1> PICK h \in Jobs : h = wjob[w]
  BY DEF TypeOK, WorkersOK
<1>1. "absent" \in Statuses \ {"PENDING"}
  BY DEF Statuses
<1> QED
  BY <1>1, LeaveKeepsLine

LEMMA WorkerLine ==
    ASSUME TypeOK, LineInv, NEW w \in Workers, Worker(w)
    PROVE  LineInv'
<1> DEFINE j == wjob[w]
<1>a. \A pc : pc \in {"get", "rca", "commitDelivering", "commitNone", "commitFailed",
                     "commitAgain", "post", "readDone", "writeDone", "readFailed",
                     "writeFailed", "notify", "discard"} => pc \in WorkerPCs \ Early
  BY DEF WorkerPCs, Early
<1>b. \A s : s \in {"RUNNING", "DELIVERING", "DONE", "FAILED"} =>
                s \in Statuses \ {"PENDING", "absent"}
  BY DEF Statuses, TERMINAL_STATUSES, ACTIVE_STATUSES
<1>c. wread[w] \in Statuses /\ "absent" \in Statuses /\ (wpc[w] # "get" => j \in Jobs)
  BY DEF TypeOK, WorkersOK, Statuses
<1>d. Fault => ~(faults' = 0)
  BY DEF Fault, TypeOK, ProcessOK
<1>1. CASE WorkerGet(w)
  BY <1>1, GetKeepsLine
<1>2. CASE WorkerLoad(w)
  <2>1. CASE Goto(w, "get") /\ ((status[j] = "absent" /\ UNCHANGED faults) \/ Fault)
    BY <1>2, <1>a, <1>d, <2>1, PassKeepsLine DEF WorkerLoad
  <2>2. CASE /\ status[j] # "absent"
             /\ wpc' = [wpc EXCEPT ![w] = "restore"]
             /\ wread' = [wread EXCEPT ![w] = status[j]]
             /\ UNCHANGED <<wjob, faults>>
    <3>1. Taken(j) /\ j \in Jobs /\ wpc[w] \in Early /\ "restore" \in Early \ {"load"}
      BY <1>2, <1>c DEF WorkerLoad, Taken, Early
    <3>2. status[j] # "RUNNING"
      BY <3>1 DEF LineInv, WaitsApart, Carried
    <3>3. /\ \A v \in Workers : v # w => wread'[v] = wread[v]
          /\ wread'[w] = status[j]
      BY <2>2 DEF TypeOK, WorkersOK
    <3> QED
      BY <1>2, <2>2, <3>1, <3>2, <3>3, EarlyKeepsLine DEF WorkerLoad
  <2> QED
    BY <1>2, <2>1, <2>2 DEF WorkerLoad
<1>3. CASE WorkerRestore(w)
  <2>1. CASE Fault /\ Goto(w, "get")
    BY <1>3, <1>a, <1>d, <2>1, PassKeepsLine DEF WorkerRestore
  <2>2. ASSUME NEW pc \in {"commitMissing", "commitRunning"}, Goto(w, pc), UNCHANGED faults
        PROVE  LineInv'
    <3>1. wpc[w] \in Early \ {"load"} /\ pc \in Early \ {"load"}
      BY <1>3 DEF WorkerRestore, Early
    <3>2. /\ wread[w] \notin {"RUNNING", "absent"}
          /\ wread[w] # "PENDING" => status[j] # "PENDING"
      BY <3>1 DEF LineInv, ReadFirst
    <3>3. wpc' = [wpc EXCEPT ![w] = pc] /\ wjob' = wjob /\ wread' = wread
      BY <2>2 DEF Goto
    <3> QED
      BY <1>3, <2>2, <3>1, <3>2, <3>3, EarlyKeepsLine DEF WorkerRestore
  <2> QED
    BY <1>3, <2>1, <2>2 DEF WorkerRestore
<1>4. CASE WorkerCommitMissing(w)
  <2>1. PICK read \in {wread[w], "absent"} : WorkerCommit(w, read, "FAILED", "notify", "get")
    BY <1>4 DEF WorkerCommitMissing
  <2>2. wpc[w] \in Early \ {"load"}
    BY <1>4 DEF WorkerCommitMissing, Early
  <2>3. status[j] = "PENDING" => read # "FAILED"
    BY <2>1, <2>2 DEF LineInv, ReadFirst
  <2> QED
    BY <1>a, <1>b, <1>c, <2>1, <2>2, <2>3, CommitKeepsLine DEF Early
<1>5. CASE WorkerCommitRunning(w)
  <2>1. wpc[w] \in Early \ {"load"}
    BY <1>5 DEF WorkerCommitRunning, Early
  <2>2. wread[w] # "RUNNING"
    BY <2>1 DEF LineInv, ReadFirst
  <2> QED
    BY <1>5, <1>a, <1>b, <1>c, <2>1, <2>2, CommitKeepsLine DEF WorkerCommitRunning
<1>6. CASE \/ WorkerRca(w) \/ WorkerCommitAgain(w) \/ WorkerPost(w)
           \/ WorkerMarkRead(w) \/ WorkerNotify(w) \/ WorkerDiscard(w)
  <2>1. wpc[w] \notin Early /\ wpc[w] # "get"
    BY <1>6 DEF WorkerRca, WorkerCommitAgain, WorkerPost, WorkerMarkRead, WorkerNotify,
                WorkerDiscard, Early
  <2>2. PICK pc \in {"get", "commitDelivering", "commitNone", "commitFailed", "readDone",
                     "readFailed", "writeDone", "writeFailed", "discard"} : Goto(w, pc)
    <3>1. CASE WorkerPost(w)
      BY <3>1 DEF WorkerPost
    <3>2. CASE WorkerMarkRead(w)
      BY <3>2 DEF WorkerMarkRead
    <3> QED
      BY <1>6, <3>1, <3>2 DEF WorkerRca, WorkerCommitAgain, WorkerNotify, WorkerDiscard
  <2>3. UNCHANGED <<status, queue, ingest, reaper, phase>> /\ (faults' = 0 => faults = 0)
    <3>1. CASE WorkerMarkRead(w)
      BY <1>d, <3>1 DEF WorkerMarkRead
    <3>2. CASE WorkerDiscard(w)
      BY <1>d, <3>2 DEF WorkerDiscard, DiscardFile
    <3> QED
      BY <1>6, <3>1, <3>2 DEF WorkerRca, WorkerCommitAgain, WorkerPost, WorkerNotify
  <2> QED
    BY <1>a, <2>1, <2>2, <2>3, PassKeepsLine
<1>7. ASSUME NEW s \in {"DELIVERING", "DONE", "FAILED"}, NEW read \in {"RUNNING", "DELIVERING"},
             NEW ok \in {"post", "discard", "notify"}, NEW raised \in {"commitAgain", "get"},
             wpc[w] \notin Early, wpc[w] # "get", WorkerCommit(w, read, s, ok, raised)
      PROVE  LineInv'
  <2>1. read \in Statuses
    BY DEF Statuses, ACTIVE_STATUSES
  <2>2. s \in Statuses \ {"PENDING", "absent"} /\ s # "RUNNING"
    BY <1>b
  <2>3. ok \in WorkerPCs \ Early /\ raised \in WorkerPCs \ Early
    BY <1>a
  <2> QED
    BY <1>7, <2>1, <2>2, <2>3, CommitKeepsLine
<1>8. CASE WorkerCommitDelivering(w)
  BY <1>7, <1>8 DEF WorkerCommitDelivering, Early
<1>9. CASE WorkerCommitNone(w)
  BY <1>7, <1>9 DEF WorkerCommitNone, Early
<1>10. CASE WorkerCommitFailed(w)
  BY <1>7, <1>10 DEF WorkerCommitFailed, Early
<1>11. CASE WorkerMarkWrite(w)
  BY <1>7, <1>11 DEF WorkerMarkWrite, Early
<1> QED
  BY <1>1, <1>2, <1>3, <1>4, <1>5, <1>6, <1>8, <1>9, <1>10, <1>11 DEF Worker

(* The reaper.  A call that ends puts nothing in the line. *)
LEMMA ReaperLine ==
    ASSUME TypeOK, CarrierInv, Reaper
    PROVE  LineInv'
<1>a. Fault => ~(faults' = 0)
  BY DEF Fault, TypeOK, ProcessOK
<1>b. ReaperReturn => reaper'.enq = {} /\ reaper'.take = {}
  BY DEF ReaperReturn, ReaperIdle
<1>c. reaper.take \in SUBSET Jobs /\ reaper.enq \in SUBSET Jobs
  BY DEF TypeOK, LoopsOK
<1>1. CASE ReaperSelectPending
  <2>1. queue = <<>> /\ (\A w \in Workers : wpc[w] = "get") /\ phase = "starting"
    BY <1>1 DEF CarrierInv, PhaseInv, WorkersIdle, ReaperSelectPending
  <2>2. \A j \in Jobs : ~Queued(j) /\ ~Taken(j) /\ ~Recorded(j)
    BY <2>1 DEF CarrierInv, PhaseInv, Queued, Taken, Recorded, Early, InFlight
  <2>3. \A j \in Jobs : ~Queued(j)' /\ ~Taken(j)' /\ ~Recorded(j)'
    BY <1>1, <2>1, <2>2 DEF ReaperSelectPending, Queued, Taken, Recorded
  <2>4. UNCHANGED <<status, ingest, workerVars, queue>>
    BY <1>1 DEF ReaperSelectPending
  <2>5. reaper'.take = {} /\ reaper'.enq \in {{}, Pending}
    <3>1. reaper.take = {}
      BY <1>1 DEF ReaperSelectPending, CarrierInv, PhaseInv
    <3> QED
      BY <1>1, <1>b, <3>1 DEF ReaperSelectPending, TypeOK, LoopsOK
  <2>6. WaitsOnce'
    <3>1. QueuedOnce' /\ TakenOnce'
      BY <2>4 DEF CarrierInv, LineInv, WaitsOnce, QueuedOnce, TakenOnce
    <3> QED
      BY <2>3, <3>1 DEF WaitsOnce
  <2>7. \A j \in Jobs : Carried(j)' => status[j] = "PENDING"
    BY <2>3, <2>5 DEF Carried, Pending
  <2>8. WaitsApart' /\ FreshAlone'
    BY <2>4, <2>5, <2>7 DEF CarrierInv, LineInv, WaitsApart, FreshAlone
  <2>9. ReadFirst'
    BY <2>4 DEF CarrierInv, LineInv, ReadFirst
  <2>10. PendingCarried'
    <3>1. faults' = 0 => reaper'.enq = Pending
      BY <1>1, <1>a DEF ReaperSelectPending, TypeOK, LoopsOK
    <3> QED
      BY <2>4, <3>1 DEF PendingCarried, Carried, Pending
  <2> QED
    BY <2>6, <2>8, <2>9, <2>10 DEF LineInv
<1>2. ASSUME NEW s \in SetToSeqs(reaper.enq), Enqueue(s), reaper'.enq = {},
             reaper'.take = reaper.take, UNCHANGED <<status, ingest, workerVars, faults>>,
             Ready' => Ready
      PROVE  LineInv'
  <2>1. s \in Seq(Jobs) /\ queue \in Seq(Jobs)
    BY <1>c, OrderingIsSeq DEF TypeOK, ProcessOK
  <2>2. /\ \A a, b \in DOMAIN s : s[a] = s[b] => a = b
        /\ \A j : (\E k \in DOMAIN s : s[k] = j) <=> j \in reaper.enq
    BY <1>c, OrderingCovers
  <2>3. \A j : Queued(j)' <=> Queued(j) \/ j \in reaper.enq
    BY <1>2, <2>1, <2>2, EnqueueQueues
  <2>4. QueuedOnce'
    <3>1. \A k \in DOMAIN s : ~Queued(s[k])
      BY <1>c, <2>2 DEF CarrierInv, LineInv, WaitsOnce
    <3>2. QueuedOnce
      BY DEF CarrierInv, LineInv, WaitsOnce
    <3> QED
      BY <1>2, <2>1, <2>2, <3>1, <3>2, EnqueueQueues
  <2>5. \A j : (Taken(j)' <=> Taken(j)) /\ (Recorded(j)' <=> Recorded(j))
    BY <1>2 DEF Taken, Recorded
  <2>6. TakenOnce'
    BY <1>2 DEF CarrierInv, LineInv, WaitsOnce, TakenOnce
  <2>7. WaitsOnce'
    BY <1>2, <2>3, <2>4, <2>5, <2>6 DEF CarrierInv, LineInv, WaitsOnce
  <2>8. \A j : Carried(j)' <=> Carried(j)
    BY <1>2, <2>3, <2>5 DEF Carried
  <2>9. WaitsApart' /\ FreshAlone'
    BY <1>2, <2>8 DEF CarrierInv, LineInv, WaitsApart, FreshAlone
  <2>10. ReadFirst'
    BY <1>2 DEF CarrierInv, LineInv, ReadFirst
  <2>11. PendingCarried'
    BY <1>2, <2>8 DEF CarrierInv, LineInv, PendingCarried
  <2> QED
    BY <2>7, <2>9, <2>10, <2>11 DEF LineInv
<1>3. CASE ReaperEnqueuePending
  <2>1. PICK s \in SetToSeqs(reaper.enq) : Enqueue(s)
    BY <1>3 DEF ReaperEnqueuePending
  <2>2. reaper'.enq = {} /\ reaper'.take = reaper.take
    BY <1>3 DEF ReaperEnqueuePending, TypeOK, LoopsOK
  <2>3. Ready' => Ready
    BY <1>3 DEF ReaperEnqueuePending, Ready
  <2> QED
    BY <1>2, <1>3, <2>1, <2>2, <2>3 DEF ReaperEnqueuePending
<1>4. CASE ReaperEnqueue
  <2>1. PICK s \in SetToSeqs(reaper.enq) : Enqueue(s)
    BY <1>4 DEF ReaperEnqueue
  <2>2. reaper'.enq = {} /\ reaper'.take = reaper.take
    <3>1. reaper.take = {}
      BY <1>4 DEF ReaperEnqueue, CarrierInv, PhaseInv
    <3> QED
      BY <1>4, <1>b, <3>1 DEF ReaperEnqueue, TypeOK, LoopsOK
  <2>3. Ready' => Ready
    BY <1>4 DEF ReaperEnqueue, ReaperReturn, Ready
  <2> QED
    BY <1>2, <1>4, <2>1, <2>2, <2>3 DEF ReaperEnqueue
<1>5. CASE ReaperSelectRunning
  <2>1. UNCHANGED <<status, ingest, workerVars, queue>>
    BY <1>5 DEF ReaperSelectRunning
  <2>2. reaper.enq = {} /\ reaper'.enq = {} /\ reaper'.take \in {{}, Stuck}
    <3>1. reaper.enq = {}
      BY <1>5 DEF ReaperSelectRunning, CarrierInv, PhaseInv
    <3> QED
      BY <1>5, <1>b, <3>1 DEF ReaperSelectRunning, TypeOK, LoopsOK
  <2>3. faults' = 0 /\ Ready' => faults = 0 /\ Ready
    BY <1>5, <1>a DEF ReaperSelectRunning, ReaperReturn, Ready
  <2>4. \A j : /\ Queued(j)' <=> Queued(j)
               /\ Taken(j)' <=> Taken(j)
               /\ Recorded(j)' <=> Recorded(j)
               /\ Carried(j)' <=> Carried(j)
    BY <2>1, <2>2 DEF Queued, Taken, Recorded, Carried
  <2>5. WaitsOnce'
    <3>1. QueuedOnce' /\ TakenOnce'
      BY <2>1 DEF CarrierInv, LineInv, WaitsOnce, QueuedOnce, TakenOnce
    <3> QED
      BY <2>2, <2>4, <3>1 DEF CarrierInv, LineInv, WaitsOnce
  <2>6. \A j \in reaper'.take : status[j] = "RUNNING"
    BY <2>2 DEF Stuck
  <2>7. WaitsApart' /\ FreshAlone'
    BY <2>1, <2>4, <2>6 DEF CarrierInv, LineInv, WaitsApart, FreshAlone
  <2>8. ReadFirst'
    BY <2>1 DEF CarrierInv, LineInv, ReadFirst
  <2>9. PendingCarried'
    BY <2>1, <2>3, <2>4 DEF CarrierInv, LineInv, PendingCarried
  <2> QED
    BY <2>5, <2>7, <2>8, <2>9 DEF LineInv
<1>6. CASE ReaperCommit
  <2>a. UNCHANGED <<ingest, workerVars, queue>> /\ reaper.pc = "commit" /\ reaper.enq = {}
    BY <1>6 DEF ReaperCommit, CarrierInv, PhaseInv
  <2>b. \A j : /\ Queued(j)' <=> Queued(j)
               /\ Taken(j)' <=> Taken(j)
               /\ Recorded(j)' <=> Recorded(j)
    BY <2>a DEF Queued, Taken, Recorded
  <2>c. faults' = 0 /\ Ready' => faults = 0 /\ Ready
    BY <1>6, <1>a, <2>a DEF ReaperCommit, Ready
  <2>1. CASE UNCHANGED rowVars /\ ReaperReturn
    BY <1>b, <2>1, <2>a, <2>c, LineRests DEF CarrierInv
  <2>2. CASE Reclaim /\ reaper'.take = {} /\ reaper'.enq \in {{}, Again}
                     /\ (faults' = 0 => reaper'.enq = Again)
    <3>1. /\ Again \subseteq reaper.take
          /\ \A j \in Jobs : status'[j] = CASE j \in Again -> "PENDING"
                                            [] j \in reaper.take \ Again -> "FAILED"
                                            [] OTHER -> status[j]
      BY <2>2 DEF Reclaim, Again
    <3>2. \A j \in Jobs : j \in reaper.take => ~Carried(j) /\ ingest[j] \notin {"new", "written"}
      BY DEF CarrierInv, LineInv, WaitsApart, FreshAlone
    <3>3. WaitsOnce'
      <4>1. QueuedOnce' /\ TakenOnce'
        BY <2>a DEF CarrierInv, LineInv, WaitsOnce, QueuedOnce, TakenOnce
      <4> QED
        BY <2>2, <2>b, <3>1, <3>2, <4>1 DEF CarrierInv, LineInv, WaitsOnce, Carried
    <3>4. \A j \in Jobs : Carried(j)' => Carried(j) \/ j \in Again
      BY <2>2, <2>b DEF Carried
    <3>5. WaitsApart'
      BY <2>2, <2>a, <3>1, <3>2, <3>4 DEF CarrierInv, LineInv, WaitsApart
    <3>6. FreshAlone'
      BY <2>2, <2>a, <3>1, <3>2 DEF CarrierInv, LineInv, FreshAlone
    <3>7. ReadFirst'
      <4> SUFFICES ASSUME NEW w \in Workers, wpc[w] \in Early \ {"load"}
                   PROVE  /\ wread[w] \notin {"RUNNING", "absent"}
                          /\ wread[w] # "PENDING" => status'[wjob[w]] # "PENDING"
        BY <2>a DEF ReadFirst
      <4>1. wjob[w] \in Jobs /\ Taken(wjob[w])
        BY DEF Taken, Early, TypeOK, WorkersOK
      <4>2. wjob[w] \notin reaper.take
        BY <3>2, <4>1 DEF Carried
      <4> QED
        BY <3>1, <4>1, <4>2 DEF CarrierInv, LineInv, ReadFirst
    <3>8. PendingCarried'
      <4> SUFFICES ASSUME faults' = 0, Ready', NEW j \in Jobs, status'[j] = "PENDING"
                   PROVE  Carried(j)'
        BY DEF PendingCarried
      <4>1. CASE j \in Again
        BY <2>2, <4>1 DEF Carried
      <4>2. CASE j \notin Again
        <5>1. status[j] = "PENDING"
          BY <3>1, <4>2
        <5>2. Carried(j)
          BY <2>c, <5>1 DEF CarrierInv, LineInv, PendingCarried
        <5> QED
          BY <2>a, <2>b, <5>2 DEF Carried
      <4> QED
        BY <4>1, <4>2
    <3> QED
      BY <3>3, <3>5, <3>6, <3>7, <3>8 DEF LineInv
  <2> QED
    <3>1. CASE /\ Reclaim
               /\ reaper' = [reaper EXCEPT !.pc = "enqueue", !.take = {},
                                           !.enq = Again, !.fail = reaper.take \ Again]
      BY <2>2, <3>1 DEF TypeOK, LoopsOK
    <3>2. CASE Fault /\ Reclaim /\ ReaperReturn
      BY <1>a, <1>b, <2>2, <3>2
    <3> QED
      BY <1>6, <2>1, <3>1, <3>2 DEF ReaperCommit
<1>7. CASE ReaperNotify \/ ReaperDiscard
  <2>1. reaper.take = {} /\ reaper.enq = {} /\ reaper.pc \in {"notify", "discard"}
    BY <1>7 DEF ReaperNotify, ReaperDiscard, CarrierInv, PhaseInv
  <2>2. reaper'.take = {} /\ reaper'.enq = {}
    BY <1>7, <1>b, <2>1 DEF ReaperNotify, ReaperDiscard, TypeOK, LoopsOK
  <2>3. faults' = 0 /\ Ready' => faults = 0 /\ Ready
    BY <1>7, <1>a, <2>1 DEF ReaperNotify, ReaperDiscard, DiscardFile, ReaperReturn, Ready
  <2>4. UNCHANGED <<queue, workerVars, ingest, status>>
    BY <1>7 DEF ReaperNotify, ReaperDiscard
  <2> QED
    BY <2>1, <2>2, <2>3, <2>4, LineRests DEF CarrierInv
<1> QED
  BY <1>1, <1>3, <1>4, <1>5, <1>6, <1>7 DEF Reaper

(* A request records its job, and enqueues it once it has. *)
LEMMA IngestLine ==
    ASSUME TypeOK, LineInv, NEW h \in Jobs, IngestBundle(h)
    PROVE  LineInv'
<1>a. Fault => ~(faults' = 0)
  BY DEF Fault, TypeOK, ProcessOK
<1>b. UNCHANGED <<workerVars, reaper, phase>> /\ (faults' = 0 => faults = 0)
  BY <1>a DEF IngestBundle, IngestWrite, IngestRecord, IngestRollback, IngestEnqueue, DiscardFile
<1>c. \A j \in Jobs : j # h => ingest'[j] = ingest[j]
  BY DEF IngestBundle, IngestWrite, IngestRecord, IngestRollback, IngestEnqueue, IngestGoto,
         TypeOK, ProcessOK
<1>d. \A j : Taken(j)' <=> Taken(j)
  BY <1>b DEF Taken
<1>e. TakenOnce'
  BY <1>b DEF LineInv, WaitsOnce, TakenOnce
<1>f. ASSUME UNCHANGED status  PROVE ReadFirst'
  BY <1>b, <1>f DEF LineInv, ReadFirst
<1>1. CASE IngestWrite(h) \/ IngestRollback(h)
  <2>1. /\ UNCHANGED <<status, queue>>
        /\ ingest[h] \in {"new", "rollback"} /\ ingest'[h] \in {"written", "rejected"}
        /\ ingest'[h] = "written" => ingest[h] = "new"
    BY <1>1 DEF IngestWrite, IngestRollback, IngestGoto, TypeOK, ProcessOK
  <2>2. QueuedOnce' /\ \A j : Queued(j)' <=> Queued(j)
    BY <2>1 DEF LineInv, WaitsOnce, QueuedOnce, Queued
  <2>3. \A j \in Jobs : Recorded(j)' <=> Recorded(j)
    BY <1>c, <2>1 DEF Recorded
  <2>4. \A j \in Jobs : Carried(j)' <=> Carried(j)
    BY <1>b, <1>d, <2>2, <2>3 DEF Carried
  <2>5. WaitsOnce'
    BY <1>b, <1>d, <1>e, <2>2, <2>3 DEF LineInv, WaitsOnce
  <2>6. WaitsApart' /\ FreshAlone'
    BY <1>b, <1>c, <2>1, <2>4 DEF LineInv, WaitsApart, FreshAlone
  <2>7. PendingCarried'
    BY <1>b, <2>1, <2>4 DEF LineInv, PendingCarried, Ready
  <2> QED
    BY <1>f, <2>1, <2>5, <2>6, <2>7 DEF LineInv
<1>2. CASE IngestRecord(h)
  <2>1. /\ UNCHANGED queue
        /\ ingest[h] = "written" /\ ingest'[h] \in {"recorded", "rollback"}
        /\ faults' = 0 => ingest'[h] = "recorded"
        /\ \/ status' = [status EXCEPT ![h] = "PENDING"]
           \/ status' = status /\ ingest'[h] = "rollback"
    BY <1>2, <1>a DEF IngestRecord, IngestGoto, SetStatus, TypeOK, ProcessOK
  <2>2. status[h] = "absent" /\ h \notin reaper.take /\ ~Carried(h)
    BY <2>1 DEF LineInv, FreshAlone, WaitsApart
  <2>3. QueuedOnce' /\ \A j : Queued(j)' <=> Queued(j)
    BY <2>1 DEF LineInv, WaitsOnce, QueuedOnce, Queued
  <2>4. \A j \in Jobs : j # h => (Recorded(j)' <=> Recorded(j)) /\ (Carried(j)' <=> Carried(j))
    BY <1>b, <1>c, <1>d, <2>3 DEF Recorded, Carried
  <2>5. \A j \in Jobs : j # h => status'[j] = status[j]
    BY <2>1 DEF TypeOK, DurableOK
  <2>6. status'[h] \in {"PENDING", "absent"}
    BY <2>1, <2>2 DEF TypeOK, DurableOK
  <2>7. WaitsOnce'
    BY <1>b, <1>d, <1>e, <2>2, <2>3, <2>4 DEF LineInv, WaitsOnce, Carried
  <2>8. WaitsApart' /\ FreshAlone'
    BY <1>b, <1>c, <2>1, <2>2, <2>4, <2>5, <2>6 DEF LineInv, WaitsApart, FreshAlone
  <2>9. ReadFirst'
    <3> SUFFICES ASSUME NEW w \in Workers, wpc[w] \in Early \ {"load"}
                 PROVE  /\ wread[w] \notin {"RUNNING", "absent"}
                        /\ wread[w] # "PENDING" => status'[wjob[w]] # "PENDING"
      BY <1>b DEF ReadFirst
    <3>1. wjob[w] \in Jobs /\ Taken(wjob[w])
      BY DEF Taken, Early, TypeOK, WorkersOK
    <3>2. wjob[w] # h
      BY <2>2, <3>1 DEF Carried
    <3> QED
      BY <2>5, <3>1, <3>2 DEF LineInv, ReadFirst
  <2>10. PendingCarried'
    <3> SUFFICES ASSUME faults' = 0, Ready', NEW j \in Jobs, status'[j] = "PENDING"
                 PROVE  Carried(j)'
      BY DEF PendingCarried
    <3>1. CASE j = h
      BY <2>1, <3>1 DEF Carried, Recorded
    <3>2. CASE j # h
      BY <1>b, <2>4, <2>5, <3>2 DEF LineInv, PendingCarried, Ready
    <3> QED
      BY <3>1, <3>2
  <2> QED
    BY <2>7, <2>8, <2>9, <2>10 DEF LineInv
<1>3. CASE IngestEnqueue(h)
  <2>1. /\ UNCHANGED status /\ Enqueue(<<h>>)
        /\ ingest[h] = "recorded" /\ ingest'[h] = "accepted"
    BY <1>3 DEF IngestEnqueue, IngestGoto, TypeOK, ProcessOK
  <2> PICK s : s = <<h>>
    OBVIOUS
  <2>2. s \in Seq(Jobs) /\ DOMAIN s = {1} /\ s[1] = h /\ Enqueue(s)
    BY <2>1
  <2>q. queue \in Seq(Jobs)
    BY DEF TypeOK, ProcessOK
  <2>3. Recorded(h) /\ ~Queued(h) /\ ~Taken(h) /\ h \notin reaper.enq /\ ~Recorded(h)'
    BY <2>1 DEF LineInv, WaitsOnce, Recorded
  <2>4. \A j : Queued(j)' <=> Queued(j) \/ j = h
    <3>1. \A j : Queued(j)' <=> Queued(j) \/ \E k \in DOMAIN s : s[k] = j
      BY <2>2, <2>q, EnqueueQueues
    <3> QED
      BY <2>2, <3>1
  <2>5. QueuedOnce'
    <3>1. QueuedOnce
      BY DEF LineInv, WaitsOnce
    <3>2. \A a, b \in DOMAIN s : s[a] = s[b] => a = b
      BY <2>2
    <3>3. \A k \in DOMAIN s : ~Queued(s[k])
      BY <2>2, <2>3
    <3> QED
      BY <2>2, <2>q, <3>1, <3>2, <3>3, EnqueueQueues
  <2>6. \A j \in Jobs : j # h => (Recorded(j)' <=> Recorded(j))
    BY <1>c DEF Recorded
  <2>7. \A j \in Jobs : Carried(j)' <=> Carried(j)
    BY <1>b, <1>d, <2>3, <2>4, <2>6 DEF Carried
  <2>8. WaitsOnce'
    BY <1>b, <1>d, <1>e, <2>3, <2>4, <2>5, <2>6 DEF LineInv, WaitsOnce
  <2>9. WaitsApart' /\ FreshAlone'
    BY <1>b, <1>c, <2>1, <2>7 DEF LineInv, WaitsApart, FreshAlone
  <2>10. PendingCarried'
    BY <1>b, <2>1, <2>7 DEF LineInv, PendingCarried, Ready
  <2> QED
    BY <1>f, <2>1, <2>8, <2>9, <2>10 DEF LineInv
<1> QED
  BY <1>1, <1>2, <1>3 DEF IngestBundle

(* The reconciler, the cleaner and time bring rows to rest at most. *)
LEMMA OthersLine ==
    ASSUME TypeOK, LineInv,
           Reconciler \/ Cleaner \/ \E j \in Jobs : Elapse(j) \/ FileAges(j)
    PROVE  LineInv'
<1>1. UNCHANGED <<queue, workerVars, ingest, phase, reaper>>
  BY DEF Reconciler, ReconcilerSelect, ReconcilerPost, ReconcilerMarkRead,
         ReconcilerMarkWrite, ReconcilerDiscard, Cleaner, CleanerPurge, CleanerFilesInUse,
         CleanerSweep, CleanerFails, Elapse, FileAges
<1>2. faults' = 0 => faults = 0
  <2>1. faults' = faults \/ faults' = faults + 1
    BY DEF Reconciler, ReconcilerSelect, ReconcilerPost, ReconcilerMarkRead,
           ReconcilerMarkWrite, ReconcilerDiscard, DiscardFile, Cleaner, CleanerPurge,
           CleanerFilesInUse, CleanerSweep, CleanerFails, Elapse, FileAges, Fault
  <2> QED
    BY <2>1 DEF TypeOK, ProcessOK
<1>3. \A j \in Jobs : \/ status'[j] = status[j]
                      \/ status[j] # "absent" /\ status'[j] \notin {"PENDING", "RUNNING"}
  <2>1. CASE ReconcilerMarkWrite
    BY <2>1 DEF ReconcilerMarkWrite, SetStatus, TypeOK, DurableOK
  <2>2. CASE CleanerPurge
    BY <2>2 DEF CleanerPurge, Expired, TERMINAL_STATUSES
  <2>3. CASE UNCHANGED status
    BY <2>3
  <2> QED
    BY <2>1, <2>2, <2>3
    DEF Reconciler, ReconcilerSelect, ReconcilerPost, ReconcilerMarkRead, ReconcilerDiscard,
        Cleaner, CleanerFilesInUse, CleanerSweep, CleanerFails, Elapse, FileAges
<1> QED
  BY <1>1, <1>2, <1>3, LineRests DEF Ready

(* A start, a shutdown and a crash leave nobody in the line. *)
LEMMA LifespanLine ==
    ASSUME TypeOK, CarrierInv, Start \/ Stop \/ Exit \/ Crash
    PROVE  LineInv'
<1>a. ~Ready' /\ UNCHANGED <<status, faults>>
  BY DEF Start, Stop, Exit, Crash, Ready, ReaperIdle
<1>b. reaper'.enq = {} /\ reaper'.take = {}
  BY DEF Start, Stop, Exit, Crash, ReaperIdle, CarrierInv, PhaseInv
<1>c. \/ UNCHANGED <<queue, workerVars>>
      \/ queue' = <<>> /\ \A w \in Workers : wpc'[w] = "get"
  BY DEF Start, Stop, Exit, Crash
<1>d. \A j \in Jobs : \/ ingest'[j] = ingest[j]
                      \/ ingest'[j] = "lost"
  BY DEF Start, Stop, Exit, Crash
<1>e. \A j \in Jobs : /\ Queued(j)' => Queued(j)
                      /\ Taken(j)' => Taken(j)
                      /\ Recorded(j)' => Recorded(j)
  BY <1>c, <1>d DEF Queued, Taken, Recorded, Early
<1>1. WaitsOnce'
  <2>1. QueuedOnce' /\ TakenOnce'
    BY <1>c DEF CarrierInv, LineInv, WaitsOnce, QueuedOnce, TakenOnce, Early
  <2> QED
    BY <1>b, <1>e, <2>1 DEF CarrierInv, LineInv, WaitsOnce
<1>2. \A j \in Jobs : Carried(j)' => Carried(j)
  BY <1>b, <1>e DEF Carried
<1>3. WaitsApart' /\ FreshAlone'
  BY <1>a, <1>b, <1>d, <1>2 DEF CarrierInv, LineInv, WaitsApart, FreshAlone
<1>4. ReadFirst'
  BY <1>a, <1>c DEF CarrierInv, LineInv, ReadFirst, Early
<1>5. PendingCarried'
  BY <1>a DEF PendingCarried
<1> QED
  BY <1>1, <1>3, <1>4, <1>5 DEF LineInv

-----------------------------------------------------------------------------
(* The life cycle of the process. *)

(* Steps that leave the reaper and the phase alone, and let no one to work *)
(* before the PENDING rows are enqueued.                                   *)
LEMMA PhasesKept ==
    ASSUME PhaseInv, UNCHANGED <<reaper, phase>>,
           \A j \in Jobs : ingest'[j] \in InFlight => phase = "serving" \/ ingest[j] \in InFlight,
           queue = <<>> /\ WorkersIdle => phase = "serving" \/ (queue' = <<>> /\ WorkersIdle')
    PROVE  PhaseInv'
  BY DEF PhaseInv

LEMMA NextPhases ==
    ASSUME TypeOK, CarrierInv, Next
    PROVE  PhaseInv'
<1>a. PhaseInv
  BY DEF CarrierInv
<1>1. ASSUME NEW w \in Workers, Worker(w)  PROVE PhaseInv'
  <2>1. UNCHANGED <<reaper, phase, ingest>>
    BY <1>1 DEF Worker, WorkerGet, WorkerLoad, WorkerRestore, WorkerCommitMissing,
                WorkerCommitRunning, WorkerRca, WorkerCommitDelivering, WorkerCommitNone,
                WorkerCommitFailed, WorkerCommitAgain, WorkerPost, WorkerMarkRead,
                WorkerMarkWrite, WorkerNotify, WorkerDiscard, WorkerCommit
  <2>2. ~(queue = <<>> /\ WorkersIdle)
    BY <1>1 DEF Worker, WorkerGet, WorkerLoad, WorkerRestore, WorkerCommitMissing,
                WorkerCommitRunning, WorkerRca, WorkerCommitDelivering, WorkerCommitNone,
                WorkerCommitFailed, WorkerCommitAgain, WorkerPost, WorkerMarkRead,
                WorkerMarkWrite, WorkerNotify, WorkerDiscard, WorkersIdle
  <2> QED
    BY <1>a, <2>1, <2>2, PhasesKept
<1>2. CASE Reconciler \/ Cleaner \/ \E j \in Jobs : Elapse(j) \/ FileAges(j)
  <2>1. UNCHANGED <<queue, workerVars, ingest, phase, reaper>>
    BY <1>2 DEF Reconciler, ReconcilerSelect, ReconcilerPost, ReconcilerMarkRead,
                ReconcilerMarkWrite, ReconcilerDiscard, Cleaner, CleanerPurge,
                CleanerFilesInUse, CleanerSweep, CleanerFails, Elapse, FileAges
  <2>2. WorkersIdle => WorkersIdle'
    BY <2>1 DEF WorkersIdle
  <2> QED
    BY <1>a, <2>1, <2>2, PhasesKept
<1>3. ASSUME NEW h \in Jobs, IngestBundle(h)  PROVE PhaseInv'
  <2>1. UNCHANGED <<workerVars, phase, reaper>> /\ (phase = "serving" \/ ingest[h] \in InFlight)
    BY <1>3 DEF IngestBundle, IngestWrite, IngestRecord, IngestRollback, IngestEnqueue, InFlight
  <2>2. phase = "serving"
    BY <1>a, <2>1 DEF PhaseInv
  <2> QED
    BY <1>a, <2>1, <2>2, PhasesKept
<1>4. CASE Reaper
  <2>a. phase' \in {phase, "serving"} /\ UNCHANGED <<workerVars, ingest>>
    BY <1>4 DEF Reaper, ReaperSelectPending, ReaperEnqueuePending, ReaperSelectRunning,
                ReaperCommit, ReaperEnqueue, ReaperNotify, ReaperDiscard, ReaperReturn
  <2>b. phase \in {"starting", "serving"}
    <3>1. reaper.pc # "sleep" \/ phase = "serving"
      BY <1>4 DEF Reaper, ReaperSelectPending, ReaperEnqueuePending, ReaperSelectRunning,
                  ReaperCommit, ReaperEnqueue, ReaperNotify, ReaperDiscard
    <3>2. reaper # ReaperIdle => phase \notin {"down", "stopping"}
      BY <1>a DEF PhaseInv
    <3>3. phase \in {"down", "starting", "serving", "stopping"} /\ ReaperIdle.pc = "sleep"
      BY DEF TypeOK, ProcessOK, ReaperIdle
    <3> QED
      BY <3>1, <3>2, <3>3
  <2>c. \A j \in Jobs : phase' # "serving" => ingest'[j] \notin InFlight
    BY <1>a, <2>a DEF PhaseInv
  <2>1. CASE ReaperReturn
    <3>1. phase' = "serving" /\ reaper' = ReaperIdle
      BY <2>1, <2>b DEF ReaperReturn
    <3> QED
      BY <3>1 DEF PhaseInv, ReaperIdle
  <2>2. CASE ReaperSelectPending /\ ~ReaperReturn
    <3>1. /\ reaper' = [reaper EXCEPT !.pc = "enqueuePending", !.enq = Pending]
          /\ UNCHANGED <<phase, queue, workerVars, ingest>> /\ reaper.pc = "selectPending"
      BY <2>2 DEF ReaperSelectPending
    <3>2. queue = <<>> /\ WorkersIdle' /\ phase = "starting" /\ reaper.take = {}
      BY <1>a, <3>1 DEF PhaseInv, WorkersIdle
    <3>3. reaper'.pc = "enqueuePending" /\ reaper'.take = {}
      BY <3>1, <3>2 DEF TypeOK, LoopsOK
    <3> QED
      BY <1>a, <2>c, <3>1, <3>2, <3>3 DEF PhaseInv
  <2>3. CASE ReaperEnqueuePending
    <3>1. phase = "starting" /\ reaper.take = {} /\ phase' = phase
      BY <1>a, <2>3 DEF ReaperEnqueuePending, PhaseInv
    <3>2. reaper'.pc = "selectRunning" /\ reaper'.take = {} /\ reaper'.enq = {}
      BY <2>3, <3>1 DEF ReaperEnqueuePending, TypeOK, LoopsOK
    <3> QED
      BY <2>c, <3>1, <3>2 DEF PhaseInv
  <2>4. CASE ReaperSelectRunning /\ ~ReaperReturn
    <3>1. reaper.enq = {} /\ phase' = phase
      BY <1>a, <2>4 DEF ReaperSelectRunning, PhaseInv
    <3>2. reaper'.pc = "commit" /\ reaper'.enq = {}
      BY <2>4, <3>1 DEF ReaperSelectRunning, TypeOK, LoopsOK
    <3> QED
      BY <2>b, <2>c, <3>1, <3>2 DEF PhaseInv
  <2>5. CASE ReaperCommit /\ ~ReaperReturn
    <3>1. phase' = phase
      BY <2>5 DEF ReaperCommit
    <3>2. reaper'.pc = "enqueue" /\ reaper'.take = {}
      BY <2>5 DEF ReaperCommit, TypeOK, LoopsOK
    <3> QED
      BY <2>b, <2>c, <3>1, <3>2 DEF PhaseInv
  <2>6. CASE (ReaperEnqueue \/ ReaperNotify \/ ReaperDiscard) /\ ~ReaperReturn
    <3>1. reaper.take = {} /\ phase' = phase /\ (reaper.pc # "enqueue" => reaper.enq = {})
      BY <1>a, <2>6 DEF ReaperEnqueue, ReaperNotify, ReaperDiscard, PhaseInv
    <3>2. reaper'.pc \in {"notify", "discard"} /\ reaper'.take = {} /\ reaper'.enq = {}
      BY <2>6, <3>1 DEF ReaperEnqueue, ReaperNotify, ReaperDiscard, TypeOK, LoopsOK
    <3> QED
      BY <2>b, <2>c, <3>1, <3>2 DEF PhaseInv
  <2> QED
    BY <1>4, <2>1, <2>2, <2>3, <2>4, <2>5, <2>6 DEF Reaper
<1>5. CASE Start
  <2>1. phase = "down" /\ UNCHANGED <<queue, workerVars, ingest>> /\ phase' = "starting"
        /\ reaper' = [ReaperIdle EXCEPT !.pc = "selectPending"]
    BY <1>5 DEF Start
  <2>2. queue' = <<>> /\ WorkersIdle'
    BY <1>a, <2>1 DEF PhaseInv, WorkersIdle
  <2> QED
    BY <1>a, <2>1, <2>2 DEF PhaseInv, ReaperIdle
<1>6. CASE Stop
  BY <1>6 DEF Stop, PhaseInv, ReaperIdle
<1>7. CASE Exit
  <2>1. reaper' = ReaperIdle /\ phase' = "down" /\ queue' = <<>> /\ UNCHANGED <<ingest, workerVars>>
    BY <1>7, <1>a DEF Exit, PhaseInv
  <2>2. WorkersIdle' /\ phase # "serving"
    BY <1>7, <2>1 DEF Exit, WorkersIdle
  <2> QED
    BY <1>a, <2>1, <2>2 DEF PhaseInv, ReaperIdle
<1>8. CASE Crash
  <2>1. WorkersIdle' /\ queue' = <<>> /\ reaper' = ReaperIdle /\ phase' = "down"
    BY <1>8 DEF Crash, WorkersIdle
  <2>2. \A j \in Jobs : ingest'[j] \notin InFlight
    BY <1>8 DEF Crash, InFlight
  <2> QED
    BY <2>1, <2>2 DEF PhaseInv, ReaperIdle
<1> QED
  BY <1>1, <1>2, <1>3, <1>4, <1>5, <1>6, <1>7, <1>8 DEF Next

(* Nothing happens to the line when nothing happens. *)
LEMMA LineStutters ==
    ASSUME CarrierInv, UNCHANGED vars
    PROVE  CarrierInv'
<1>1. \A j : /\ Queued(j)' <=> Queued(j)
             /\ Taken(j)' <=> Taken(j)
             /\ Recorded(j)' <=> Recorded(j)
             /\ Carried(j)' <=> Carried(j)
  BY DEF Queued, Taken, Recorded, Carried
<1>2. WaitsOnce'
  <2>1. QueuedOnce' /\ TakenOnce'
    BY DEF CarrierInv, LineInv, WaitsOnce, QueuedOnce, TakenOnce
  <2> QED
    BY <1>1, <2>1 DEF CarrierInv, LineInv, WaitsOnce
<1>3. WaitsApart' /\ FreshAlone' /\ ReadFirst'
  BY <1>1 DEF CarrierInv, LineInv, WaitsApart, FreshAlone, ReadFirst
<1>4. PendingCarried'
  BY <1>1 DEF CarrierInv, LineInv, PendingCarried, Ready
<1>5. PhaseInv'
  BY DEF CarrierInv, PhaseInv, WorkersIdle
<1> QED
  BY <1>2, <1>3, <1>4, <1>5 DEF CarrierInv, LineInv

(* Each job waits in one place, whatever the starts and the failures. *)
THEOREM CarrierCorrect == Spec => []CarrierInv
<1>1. Init => CarrierInv
  <2> SUFFICES ASSUME Init  PROVE CarrierInv
    OBVIOUS
  <2>1. /\ queue = <<>> /\ reaper = ReaperIdle /\ phase = "down"
        /\ \A w \in Workers : wpc[w] = "get"
        /\ \A j \in Jobs : ingest[j] = "new" /\ status[j] = "absent"
    BY DEF Init
  <2>2. \A j \in Jobs : ~Queued(j) /\ ~Taken(j) /\ ~Recorded(j)
    BY <2>1 DEF Queued, Taken, Recorded, Early
  <2>3. WaitsOnce
    BY <2>1, <2>2 DEF WaitsOnce, QueuedOnce, TakenOnce, Early, ReaperIdle
  <2>4. WaitsApart /\ FreshAlone /\ PendingCarried
    BY <2>1, <2>2 DEF WaitsApart, Carried, FreshAlone, PendingCarried, ReaperIdle
  <2>5. ReadFirst
    BY <2>1 DEF ReadFirst, Early
  <2>6. PhaseInv
    BY <2>1 DEF PhaseInv, WorkersIdle, InFlight, ReaperIdle
  <2> QED
    BY <2>3, <2>4, <2>5, <2>6 DEF CarrierInv, LineInv
<1>2. TypeOK /\ CarrierInv /\ [Next]_vars => CarrierInv'
  <2> SUFFICES ASSUME TypeOK, CarrierInv, [Next]_vars  PROVE CarrierInv'
    OBVIOUS
  <2>1. CASE UNCHANGED vars
    BY <2>1, LineStutters
  <2>2. CASE Next
    <3>1. LineInv'
      BY <2>2, WorkerLine, ReaperLine, IngestLine, OthersLine, LifespanLine
      DEF Next, CarrierInv
    <3> QED
      BY <2>2, <3>1, NextPhases DEF CarrierInv
  <2> QED
    BY <2>1, <2>2
<1> QED
  BY <1>1, <1>2, TypeCorrect, PTL DEF Spec

(* A job waits in one place at a time (job_queue.py, stuck_job_reaper.py): *)
(* the recovery at the start neither enqueues a job twice nor takes one    *)
(* that a request has just enqueued.                                       *)
THEOREM WaitsInOnePlace == Spec => []WaitsOnce
<1>1. CarrierInv => WaitsOnce
  BY DEF CarrierInv, LineInv
<1> QED
  BY <1>1, CarrierCorrect, PTL

(* While no operation has failed, a PENDING row of a process that serves   *)
(* is on its way to a worker, over any number of crashes.                  *)
THEOREM PendingIsCarried == Spec => []PendingHasCarrier
<1>1. CarrierInv => PendingHasCarrier
  BY DEF CarrierInv, LineInv, PendingCarried, PendingHasCarrier, Carried, Ready
<1> QED
  BY <1>1, CarrierCorrect, PTL

-----------------------------------------------------------------------------
(* What a worker's step leaves alone.                                      *)

(* Nothing is written, or the row of h, which is there. *)
RowMoves(h, S) ==
    \/ UNCHANGED <<status, due>>
    \/ \E s \in S : status[h] # "absent" /\ SetStatus(h, s)

LEMMA CommitMoves ==
    ASSUME NEW w, NEW read, NEW s, NEW ok, NEW raised, WorkerCommit(w, read, s, ok, raised)
    PROVE  RowMoves(wjob[w], {s})
  BY DEF WorkerCommit, RowMoves, CanSave, SaveStatus

LEMMA WorkerMoves ==
    ASSUME NEW w, Worker(w)
    PROVE  RowMoves(wjob[w], {"RUNNING", "DELIVERING", "DONE", "FAILED"})
<1>1. ASSUME UNCHANGED rowVars
      PROVE  RowMoves(wjob[w], {"RUNNING", "DELIVERING", "DONE", "FAILED"})
  BY <1>1 DEF RowMoves
<1>2. ASSUME NEW read, NEW s \in {"RUNNING", "DELIVERING", "DONE", "FAILED"}, NEW ok, NEW raised,
             WorkerCommit(w, read, s, ok, raised)
      PROVE  RowMoves(wjob[w], {"RUNNING", "DELIVERING", "DONE", "FAILED"})
  BY <1>2, CommitMoves DEF RowMoves
<1>3. CASE WorkerCommitMissing(w)
  BY <1>2, <1>3 DEF WorkerCommitMissing
<1>4. CASE WorkerCommitRunning(w)
  BY <1>2, <1>4 DEF WorkerCommitRunning
<1>5. CASE WorkerCommitDelivering(w)
  BY <1>2, <1>5 DEF WorkerCommitDelivering
<1>6. CASE WorkerCommitNone(w)
  BY <1>2, <1>6 DEF WorkerCommitNone
<1>7. CASE WorkerCommitFailed(w)
  BY <1>2, <1>7 DEF WorkerCommitFailed
<1>8. CASE WorkerMarkWrite(w)
  BY <1>2, <1>8 DEF WorkerMarkWrite
<1> QED
  BY <1>1, <1>3, <1>4, <1>5, <1>6, <1>7, <1>8
  DEF Worker, WorkerGet, WorkerLoad, WorkerRestore, WorkerRca, WorkerCommitAgain, WorkerPost,
      WorkerMarkRead, WorkerNotify, WorkerDiscard

(* A worker keeps its job until it drops it, and takes the next from the   *)
(* head of the queue.                                                      *)
LEMMA WorkerHolds ==
    ASSUME TypeOK, NEW w \in Workers, Worker(w)
    PROVE  /\ UNCHANGED <<requeue, ingest, phase, loopVars>>
           /\ \A v \in Workers : v # w => wpc'[v] = wpc[v] /\ wjob'[v] = wjob[v]
                                                           /\ wread'[v] = wread[v]
           /\ \/ /\ wpc[w] = "get" /\ queue # <<>> /\ queue' = Tail(queue)
                 /\ wjob'[w] = Head(queue) /\ wpc'[w] = "load"
              \/ /\ wpc[w] # "get" /\ queue' = queue /\ wpc'[w] # "load"
                 /\ wjob'[w] = IF wpc'[w] = "get" THEN NoJob ELSE wjob[w]
<1>1. CASE WorkerGet(w)
  BY <1>1 DEF WorkerGet, TypeOK, WorkersOK
<1>2. ASSUME NEW pc, pc # "load", Goto(w, pc), wpc[w] # "get", UNCHANGED queue
      PROVE  /\ \A v \in Workers : v # w => wpc'[v] = wpc[v] /\ wjob'[v] = wjob[v]
                                                             /\ wread'[v] = wread[v]
             /\ wpc[w] # "get" /\ queue' = queue /\ wpc'[w] # "load"
             /\ wjob'[w] = IF wpc'[w] = "get" THEN NoJob ELSE wjob[w]
  BY <1>2 DEF Goto, TypeOK, WorkersOK
<1>3. CASE WorkerLoad(w)
  <2>1. CASE Goto(w, "get")
    BY <1>2, <1>3, <2>1 DEF WorkerLoad
  <2>2. CASE /\ wpc' = [wpc EXCEPT ![w] = "restore"]
             /\ wread' = [wread EXCEPT ![w] = status[wjob[w]]] /\ wjob' = wjob
    BY <1>3, <2>2 DEF WorkerLoad, TypeOK, WorkersOK
  <2> QED
    BY <1>3, <2>1, <2>2 DEF WorkerLoad
<1>4. CASE \/ WorkerRestore(w) \/ WorkerRca(w) \/ WorkerCommitAgain(w) \/ WorkerPost(w)
           \/ WorkerMarkRead(w) \/ WorkerNotify(w) \/ WorkerDiscard(w)
  <2>1. PICK pc : pc # "load" /\ Goto(w, pc)
    <3>1. CASE WorkerPost(w)
      BY <3>1 DEF WorkerPost
    <3>2. CASE WorkerMarkRead(w)
      BY <3>2 DEF WorkerMarkRead
    <3>3. CASE WorkerRestore(w)
      BY <3>3 DEF WorkerRestore
    <3> QED
      BY <1>4, <3>1, <3>2, <3>3 DEF WorkerRca, WorkerCommitAgain, WorkerNotify, WorkerDiscard
  <2>2. wpc[w] # "get" /\ UNCHANGED <<queue, requeue, ingest, phase, loopVars>>
    BY <1>4 DEF WorkerRestore, WorkerRca, WorkerCommitAgain, WorkerPost, WorkerMarkRead,
                WorkerNotify, WorkerDiscard
  <2> QED
    BY <1>2, <2>1, <2>2
<1>5. ASSUME NEW read, NEW s, NEW ok \in {"notify", "rca", "post", "discard"},
             NEW raised \in {"get", "commitAgain"},
             wpc[w] # "get", WorkerCommit(w, read, s, ok, raised)
      PROVE  /\ UNCHANGED <<requeue, ingest, phase, loopVars, queue>>
             /\ \E pc : pc # "load" /\ Goto(w, pc)
  BY <1>5 DEF WorkerCommit
<1>6. CASE \/ WorkerCommitMissing(w) \/ WorkerCommitRunning(w) \/ WorkerCommitDelivering(w)
           \/ WorkerCommitNone(w) \/ WorkerCommitFailed(w) \/ WorkerMarkWrite(w)
  <2>1. wpc[w] # "get"
    BY <1>6 DEF WorkerCommitMissing, WorkerCommitRunning, WorkerCommitDelivering,
                WorkerCommitNone, WorkerCommitFailed, WorkerMarkWrite
  <2>2. /\ UNCHANGED <<requeue, ingest, phase, loopVars, queue>>
        /\ \E pc : pc # "load" /\ Goto(w, pc)
    <3>1. CASE WorkerCommitMissing(w)
      BY <1>5, <2>1, <3>1 DEF WorkerCommitMissing
    <3>2. CASE WorkerCommitRunning(w)
      BY <1>5, <2>1, <3>2 DEF WorkerCommitRunning
    <3>3. CASE WorkerCommitDelivering(w)
      BY <1>5, <2>1, <3>3 DEF WorkerCommitDelivering
    <3>4. CASE WorkerCommitNone(w)
      BY <1>5, <2>1, <3>4 DEF WorkerCommitNone
    <3>5. CASE WorkerCommitFailed(w)
      BY <1>5, <2>1, <3>5 DEF WorkerCommitFailed
    <3>6. CASE WorkerMarkWrite(w)
      BY <1>5, <2>1, <3>6 DEF WorkerMarkWrite
    <3> QED
      BY <1>6, <3>1, <3>2, <3>3, <3>4, <3>5, <3>6
  <2> QED
    BY <1>2, <2>1, <2>2
<1> QED
  BY <1>1, <1>3, <1>4, <1>6 DEF Worker

-----------------------------------------------------------------------------
(* Crash loops. *)

(* Rows the reaper is recovering and the reconciler is at work on. *)
TakeStays ==
    \A j \in reaper.take : status[j] # "absent" /\ (status[j] \in TERMINAL_STATUSES => j \notin due)

CurInTodo == reconciler.pc \notin {"sleep", "post"} => reconciler.cur \in reconciler.todo

(* Nobody runs job j again, unless the reaper puts it back. *)
Over(j) ==
    /\ status[j] \in {"RUNNING", "FAILED"} /\ ~Carried(j)
    /\ \A w \in Workers : wjob[w] # j
    /\ j \notin reconciler.todo

(* A job has been cut short once more than it was put back at most, and    *)
(* once it has been it is over, until it is put back.                      *)
CutsOf(j) == cut[j]["RUNNING"]

Bounded(j) ==
    /\ requeue[j] <= MaxRequeue
    /\ CutsOf(j) \in Nat /\ CutsOf(j) <= MaxRequeue + 1
    /\ status[j] # "absent" => CutsOf(j) <= requeue[j] + 1
    /\ status[j] # "absent" /\ CutsOf(j) > requeue[j] => Over(j)
    /\ ingest[j] \in {"new", "written"} => CutsOf(j) = 0

CutInv ==
    /\ TakeStays
    /\ CurInTodo
    /\ \A j \in Jobs : Bounded(j)

(* A job whose count does not move. *)
LEMMA BoundedKept ==
    ASSUME TypeOK, NEW j \in Jobs, Bounded(j), cut' = cut, requeue'[j] = requeue[j],
           ingest'[j] \in {"new", "written"} => ingest[j] \in {"new", "written"},
           status'[j] # "absent" => status[j] # "absent" \/ ingest[j] = "written",
           Over(j) => Over(j)'
    PROVE  Bounded(j)'
<1>1. CutsOf(j)' = CutsOf(j) /\ requeue[j] \in Nat /\ CutsOf(j) \in Nat
  BY DEF CutsOf, Bounded, TypeOK, DurableOK
<1>2. status'[j] # "absent" => CutsOf(j) <= requeue[j] + 1
  BY <1>1 DEF Bounded
<1>3. status'[j] # "absent" /\ CutsOf(j) > requeue[j] => Over(j)'
  BY <1>1 DEF Bounded
<1> QED
  BY <1>1, <1>2, <1>3 DEF Bounded

(* Nobody takes up a job that is over. *)
LEMMA OverStays ==
    ASSUME NEW j \in Jobs, Over(j), status'[j] = status[j],
           Carried(j)' => Carried(j),
           \A w \in Workers : wjob'[w] = j => wjob[w] = j \/ Carried(j),
           j \in reconciler'.todo => j \in reconciler.todo \/ status[j] = "DELIVERING"
    PROVE  Over(j)'
  BY DEF Over

LEMMA WorkerCuts ==
    ASSUME TypeOK, CutInv, NEW w \in Workers, Worker(w), cut' = cut
    PROVE  CutInv'
<1>a. /\ UNCHANGED <<requeue, ingest, reaper, reconciler>>
      /\ \A v \in Workers : v # w => wpc'[v] = wpc[v] /\ wjob'[v] = wjob[v]
      /\ \/ /\ wpc[w] = "get" /\ queue # <<>> /\ queue' = Tail(queue)
            /\ wjob'[w] = Head(queue) /\ wpc'[w] = "load"
         \/ /\ wpc[w] # "get" /\ queue' = queue /\ wpc'[w] # "load"
            /\ wjob'[w] = IF wpc'[w] = "get" THEN NoJob ELSE wjob[w]
  BY WorkerHolds
<1>b. RowMoves(wjob[w], {"RUNNING", "DELIVERING", "DONE", "FAILED"})
  BY WorkerMoves
<1>c. /\ \A j \in Jobs : j # wjob[w] => status'[j] = status[j] /\ (j \in due' => j \in due)
      /\ \A j \in Jobs : \/ status'[j] = status[j] /\ (j \in due' => j \in due)
                         \/ status[j] # "absent" /\ status'[j] # "absent" /\ j \notin due'
  BY <1>b DEF RowMoves, SetStatus, TypeOK, DurableOK
<1>1. TakeStays'
  BY <1>a, <1>c DEF CutInv, TakeStays, TypeOK, LoopsOK
<1>2. CurInTodo'
  BY <1>a DEF CutInv, CurInTodo
<1>3. ASSUME NEW j \in Jobs  PROVE Bounded(j)'
  <2>1. Over(j) => Over(j)'
    <3> SUFFICES ASSUME Over(j)  PROVE Over(j)'
      OBVIOUS
    <3>1. j # wjob[w] /\ ~Carried(j)
      BY DEF Over
    <3>2. \A v \in Workers : wjob'[v] = j => wjob[v] = j \/ Carried(j)
      <4>1. CASE wpc[w] = "get"
        <5>1. wjob'[w] \in Jobs /\ Queued(wjob'[w])
          <6>1. queue \in Seq(Jobs) /\ queue # <<>> /\ wjob'[w] = Head(queue)
            BY <1>a, <4>1 DEF TypeOK, ProcessOK
          <6>2. 1 \in DOMAIN queue /\ Head(queue) = queue[1] /\ queue[1] \in Jobs
            BY <6>1
          <6> QED
            BY <6>1, <6>2 DEF Queued
        <5> QED
          BY <1>a, <5>1 DEF Carried
      <4>2. CASE wpc[w] # "get"
        BY <1>a, <3>1, <4>2, JobsFinite
      <4> QED
        BY <4>1, <4>2
    <3>3. Queued(j)' => Queued(j)
      <4>1. CASE queue' = Tail(queue) /\ queue # <<>>
        <5>1. queue \in Seq(Jobs)
          BY DEF TypeOK, ProcessOK
        <5>2. \A i \in DOMAIN queue' : i + 1 \in DOMAIN queue /\ queue'[i] = queue[i + 1]
          BY <4>1, <5>1, HeadTailProperties
        <5> QED
          BY <5>2 DEF Queued
      <4>2. CASE queue' = queue
        BY <4>2 DEF Queued
      <4> QED
        BY <1>a, <4>1, <4>2
    <3>4. Taken(j)' => Taken(j) \/ Carried(j)
      <4> SUFFICES ASSUME NEW v \in Workers, wpc'[v] \in Early, wjob'[v] = j
                   PROVE  Taken(j) \/ Carried(j)
        BY DEF Taken
      <4>1. wjob[v] = j \/ Carried(j)
        BY <3>2
      <4> QED
        BY <4>1 DEF Over
    <3>5. Carried(j)' => Carried(j)
      BY <1>a, <3>3, <3>4 DEF Carried, Recorded
    <3> QED
      BY <1>a, <1>c, <3>1, <3>2, <3>5, OverStays
  <2> QED
    BY <1>a, <1>c, <2>1, BoundedKept DEF CutInv
<1> QED
  BY <1>1, <1>2, <1>3 DEF CutInv

LEMMA ReaperCuts ==
    ASSUME TypeOK, CarrierInv, CutInv, Reaper, cut' = cut
    PROVE  CutInv'
<1>a. UNCHANGED <<workerVars, ingest, reconciler>>
  BY DEF Reaper, ReaperSelectPending, ReaperEnqueuePending, ReaperSelectRunning,
         ReaperCommit, ReaperEnqueue, ReaperNotify, ReaperDiscard
<1>b. \A j : (Taken(j)' <=> Taken(j)) /\ (Recorded(j)' <=> Recorded(j))
  BY <1>a DEF Taken, Recorded
<1>c. reaper.take \in SUBSET Jobs /\ reaper.enq \in SUBSET Jobs
  BY DEF TypeOK, LoopsOK
<1>d. ReaperReturn => reaper'.take = {} /\ reaper'.enq = {}
  BY DEF ReaperReturn, ReaperIdle
<1>e. CurInTodo'
  BY <1>a DEF CutInv, CurInTodo
<1>f. ASSUME UNCHANGED rowVars, reaper'.take \in {{}, reaper.take, Stuck},
             \A j \in Jobs : Over(j) => (Carried(j)' => Carried(j))
      PROVE  CutInv'
  <2>1. TakeStays'
    BY <1>f DEF CutInv, TakeStays, Stuck, TERMINAL_STATUSES
  <2>2. ASSUME NEW j \in Jobs  PROVE Bounded(j)'
    <3>1. Over(j) => Over(j)'
      BY <1>a, <1>f, OverStays DEF Over
    <3> QED
      BY <1>a, <1>f, <3>1, BoundedKept DEF CutInv
  <2> QED
    BY <1>e, <2>1, <2>2 DEF CutInv
<1>1. CASE ReaperSelectPending
  <2>1. UNCHANGED <<rowVars, queue>> /\ reaper.take = {}
    BY <1>1 DEF ReaperSelectPending, CarrierInv, PhaseInv
  <2>2. reaper'.take = {} /\ reaper'.enq \in {{}, Pending}
    BY <1>1, <1>d, <2>1 DEF ReaperSelectPending, TypeOK, LoopsOK
  <2>3. ASSUME NEW j \in Jobs, Over(j)  PROVE Carried(j)' => Carried(j)
    <3>1. j \notin reaper'.enq
      BY <2>2, <2>3 DEF Over, Pending
    <3>2. Queued(j)' <=> Queued(j)
      BY <2>1 DEF Queued
    <3> QED
      BY <1>b, <3>1, <3>2 DEF Carried
  <2> QED
    BY <1>f, <2>1, <2>2, <2>3
<1>2. CASE ReaperEnqueuePending \/ ReaperEnqueue
  <2>1. PICK s \in SetToSeqs(reaper.enq) : Enqueue(s)
    BY <1>2 DEF ReaperEnqueuePending, ReaperEnqueue
  <2>2. /\ UNCHANGED rowVars
        /\ reaper' = [reaper EXCEPT !.pc = "selectRunning", !.enq = {}] \/ ReaperReturn
              \/ reaper' = [reaper EXCEPT !.pc = "notify", !.enq = {}]
    BY <1>2 DEF ReaperEnqueuePending, ReaperEnqueue
  <2>3. reaper'.take \in {{}, reaper.take} /\ reaper'.enq = {}
    BY <1>d, <2>2 DEF TypeOK, LoopsOK
  <2>4. \A j : Queued(j)' => Queued(j) \/ j \in reaper.enq
    <3>1. s \in Seq(Jobs) /\ queue \in Seq(Jobs)
      BY <1>c, OrderingIsSeq DEF TypeOK, ProcessOK
    <3>2. \A j : Queued(j)' <=> Queued(j) \/ \E k \in DOMAIN s : s[k] = j
      BY <2>1, <3>1, EnqueueQueues
    <3>3. \A j : (\E k \in DOMAIN s : s[k] = j) <=> j \in reaper.enq
      BY <1>c, OrderingCovers
    <3> QED
      BY <3>2, <3>3
  <2>5. \A j : Carried(j)' => Carried(j)
    BY <1>b, <2>3, <2>4 DEF Carried
  <2> QED
    BY <1>f, <2>2, <2>3, <2>5
<1>3. CASE ReaperSelectRunning \/ ReaperNotify \/ ReaperDiscard
  <2>1. UNCHANGED <<rowVars, queue>> /\ reaper.enq = {}
    BY <1>3 DEF ReaperSelectRunning, ReaperNotify, ReaperDiscard, CarrierInv, PhaseInv
  <2>2. reaper'.take \in {{}, reaper.take, Stuck} /\ reaper'.enq = {}
    <3>1. CASE ReaperReturn
      BY <1>d, <3>1
    <3>2. CASE reaper' = [reaper EXCEPT !.pc = "commit", !.take = Stuck]
      BY <2>1, <3>2 DEF TypeOK, LoopsOK
    <3>3. CASE ReaperNotify
      BY <2>1, <3>3 DEF ReaperNotify, TypeOK, LoopsOK
    <3>4. CASE reaper' = [reaper EXCEPT !.pc = "notify",
                               !.fail = reaper.fail \ {reaper.cur}, !.cur = NoJob]
      BY <2>1, <3>4 DEF TypeOK, LoopsOK
    <3> QED
      BY <1>3, <3>1, <3>2, <3>3, <3>4 DEF ReaperSelectRunning, ReaperDiscard
  <2>3. \A j : Queued(j)' <=> Queued(j)
    BY <2>1 DEF Queued
  <2>4. \A j : Carried(j)' => Carried(j)
    BY <1>b, <2>2, <2>3 DEF Carried
  <2> QED
    BY <1>f, <2>1, <2>2, <2>4
<1>4. CASE ReaperCommit
  <2>a. reaper.enq = {} /\ queue' = queue
    BY <1>4 DEF ReaperCommit, CarrierInv, PhaseInv
  <2>b. \A j : Queued(j)' <=> Queued(j)
    BY <2>a DEF Queued
  <2>1. CASE UNCHANGED rowVars /\ ReaperReturn
    <3>1. \A j : Carried(j)' => Carried(j)
      BY <1>b, <1>d, <2>1, <2>b DEF Carried
    <3> QED
      BY <1>d, <1>f, <2>1, <3>1
  <2>2. CASE Reclaim /\ reaper'.take = {} /\ reaper'.enq \subseteq Again
    <3>1. /\ \A j \in Jobs \ reaper.take : status'[j] = status[j] /\ requeue'[j] = requeue[j]
          /\ \A j \in Again : status'[j] = "PENDING" /\ requeue'[j] = requeue[j] + 1
          /\ \A j \in reaper.take \ Again : status'[j] = "FAILED" /\ requeue'[j] = requeue[j]
      BY <1>c, <2>2 DEF Reclaim, Again
    <3>2. \A j \in Again : j \in reaper.take /\ requeue[j] < MaxRequeue
      BY DEF Again
    <3>3. ASSUME NEW j \in Jobs  PROVE Bounded(j)'
      <4>a. /\ CutsOf(j)' = CutsOf(j) /\ CutsOf(j) \in Nat /\ requeue[j] \in Nat
            /\ MaxRequeue \in Nat /\ Bounded(j)
        BY BoundsType DEF CutsOf, CutInv, Bounded, TypeOK, DurableOK
      <4>b. j \notin Again => (Carried(j)' => Carried(j))
        BY <1>b, <2>2, <2>b DEF Carried
      <4>1. CASE j \in Again
        <5>1. requeue'[j] = requeue[j] + 1 /\ requeue'[j] <= MaxRequeue
          BY <3>1, <3>2, <4>1, <4>a
        <5>2. CutsOf(j) <= requeue[j] + 1
          BY <3>2, <4>1, <4>a DEF Bounded, CutInv, TakeStays
        <5> QED
          BY <1>a, <4>a, <5>1, <5>2 DEF Bounded
      <4>2. CASE j \notin reaper.take
        <5>1. status'[j] = status[j] /\ requeue'[j] = requeue[j] /\ j \notin Again
          BY <3>1, <3>2, <4>2
        <5>2. Over(j) => Over(j)'
          BY <1>a, <4>b, <5>1, OverStays
        <5> QED
          BY <1>a, <4>a, <5>1, <5>2, BoundedKept
      <4>3. CASE j \in reaper.take \ Again
        <5>1. status'[j] = "FAILED" /\ requeue'[j] = requeue[j]
          BY <3>1, <4>3
        <5>2. Over(j) => Over(j)'
          BY <1>a, <4>3, <4>b, <5>1 DEF Over
        <5>3. status[j] # "absent"
          BY <4>3 DEF CutInv, TakeStays
        <5> QED
          BY <1>a, <4>a, <5>1, <5>2, <5>3, BoundedKept
      <4> QED
        BY <4>1, <4>2, <4>3
    <3>4. TakeStays'
      BY <2>2 DEF TakeStays
    <3> QED
      BY <1>e, <3>3, <3>4 DEF CutInv
  <2> QED
    <3>1. CASE /\ Reclaim
               /\ reaper' = [reaper EXCEPT !.pc = "enqueue", !.take = {},
                                           !.enq = Again, !.fail = reaper.take \ Again]
      <4>1. reaper'.take = {} /\ reaper'.enq = Again
        BY <3>1 DEF TypeOK, LoopsOK
      <4> QED
        BY <2>2, <3>1, <4>1
    <3>2. CASE Reclaim /\ ReaperReturn
      BY <1>d, <2>2, <3>2
    <3> QED
      BY <1>4, <2>1, <3>1, <3>2 DEF ReaperCommit
<1> QED
  BY <1>1, <1>2, <1>3, <1>4 DEF Reaper

(* The list of the reconciler only shrinks once it is made, and the row it *)
(* is at work on is on it.                                                 *)
LEMMA ReconcilerList ==
    ASSUME TypeOK, CurInTodo, Reconciler
    PROVE  /\ CurInTodo'
           /\ \A j \in reconciler'.todo :
                 j \in reconciler.todo \/ (j \in Jobs /\ status[j] = "DELIVERING")
<1>1. \A j \in reconciler'.todo : j \in reconciler.todo \/ (j \in Jobs /\ status[j] = "DELIVERING")
  <2>1. CASE ReconcilerSelect
    <3>1. reconciler'.todo = {j \in due \cap analysed : status[j] = "DELIVERING"}
      BY <2>1 DEF ReconcilerSelect, TypeOK, LoopsOK
    <3> QED
      BY <3>1 DEF TypeOK, DurableOK
  <2>2. ASSUME NEW h, ReconcilerNext(h)  PROVE reconciler'.todo \subseteq reconciler.todo
    BY <2>2 DEF ReconcilerNext, ReconcilerIdle
  <2>3. CASE ReconcilerPost
    <3>1. PICK h : \/ reconciler' = [reconciler EXCEPT !.pc = "readDone", !.cur = h]
                   \/ reconciler' = [reconciler EXCEPT !.pc = "readFailed", !.cur = h]
                   \/ ReconcilerNext(h)
      BY <2>3 DEF ReconcilerPost
    <3> QED
      BY <2>2, <3>1 DEF TypeOK, LoopsOK
  <2>4. CASE ReconcilerMarkRead
    BY <2>2, <2>4 DEF ReconcilerMarkRead, ReconcilerGoto, ReconcilerIdle, TypeOK, LoopsOK
  <2>5. CASE ReconcilerMarkWrite
    BY <2>5 DEF ReconcilerMarkWrite, ReconcilerGoto, ReconcilerIdle, TypeOK, LoopsOK
  <2>6. CASE ReconcilerDiscard
    BY <2>2, <2>6 DEF ReconcilerDiscard
  <2> QED
    BY <2>1, <2>3, <2>4, <2>5, <2>6 DEF Reconciler
<1>2. CurInTodo'
  <2>1. CASE ReconcilerSelect
    BY <2>1 DEF ReconcilerSelect, CurInTodo, TypeOK, LoopsOK
  <2>2. ASSUME NEW h, ReconcilerNext(h)  PROVE CurInTodo'
    BY <2>2 DEF ReconcilerNext, ReconcilerIdle, CurInTodo
  <2>3. CASE ReconcilerPost
    <3>1. PICK h \in reconciler.todo :
                   \/ reconciler' = [reconciler EXCEPT !.pc = "readDone", !.cur = h]
                   \/ reconciler' = [reconciler EXCEPT !.pc = "readFailed", !.cur = h]
                   \/ ReconcilerNext(h)
      BY <2>3 DEF ReconcilerPost
    <3> QED
      BY <2>2, <3>1 DEF TypeOK, LoopsOK, CurInTodo
  <2>4. CASE ReconcilerMarkRead
    BY <2>2, <2>4
    DEF ReconcilerMarkRead, ReconcilerGoto, ReconcilerIdle, TypeOK, LoopsOK, CurInTodo
  <2>5. CASE ReconcilerMarkWrite
    BY <2>5
    DEF ReconcilerMarkWrite, ReconcilerGoto, ReconcilerIdle, TypeOK, LoopsOK, CurInTodo
  <2>6. CASE ReconcilerDiscard
    BY <2>2, <2>6 DEF ReconcilerDiscard
  <2> QED
    BY <2>1, <2>3, <2>4, <2>5, <2>6 DEF Reconciler
<1> QED
  BY <1>1, <1>2

(* It moves a row that is on its list, if any. *)
LEMMA ReconcilerMoves ==
    ASSUME CurInTodo, Reconciler
    PROVE  \E h : /\ RowMoves(h, {"DONE", "FAILED"})
                  /\ h \in reconciler.todo \/ UNCHANGED <<status, due>>
<1>1. CASE ReconcilerMarkWrite
  <2>1. reconciler.cur \in reconciler.todo
    BY <1>1 DEF ReconcilerMarkWrite, CurInTodo
  <2>2. RowMoves(reconciler.cur, {"DONE", "FAILED"})
    BY <1>1 DEF ReconcilerMarkWrite, RowMoves
  <2> QED
    BY <2>1, <2>2
<1>2. CASE UNCHANGED <<status, due>>
  BY <1>2 DEF RowMoves
<1> QED
  BY <1>1, <1>2 DEF Reconciler, ReconcilerSelect, ReconcilerPost, ReconcilerMarkRead,
                    ReconcilerDiscard

LEMMA ReconcilerCuts ==
    ASSUME TypeOK, CutInv, Reconciler, cut' = cut
    PROVE  CutInv'
<1>a. UNCHANGED <<requeue, ingest, queue, workerVars, reaper>>
  BY DEF Reconciler, ReconcilerSelect, ReconcilerPost, ReconcilerMarkRead,
         ReconcilerMarkWrite, ReconcilerDiscard
<1>b. \A j : Carried(j)' <=> Carried(j)
  BY <1>a DEF Carried, Queued, Taken, Recorded
<1>c. \A j \in reconciler'.todo : j \in reconciler.todo \/ (j \in Jobs /\ status[j] = "DELIVERING")
  BY ReconcilerList DEF CutInv
<1>1. CurInTodo'
  BY ReconcilerList DEF CutInv
<1>2. PICK h : /\ RowMoves(h, {"DONE", "FAILED"})
               /\ h \in reconciler.todo \/ UNCHANGED <<status, due>>
  BY ReconcilerMoves DEF CutInv
<1>3. /\ \A j \in Jobs : j # h => status'[j] = status[j] /\ (j \in due' => j \in due)
      /\ \A j \in Jobs : \/ status'[j] = status[j] /\ (j \in due' => j \in due)
                         \/ /\ status[j] # "absent" /\ status'[j] # "absent" /\ j \notin due'
                            /\ j \in reconciler.todo
  BY <1>2 DEF RowMoves, SetStatus, TypeOK, DurableOK
<1>4. TakeStays'
  BY <1>a, <1>3 DEF CutInv, TakeStays, TypeOK, LoopsOK
<1>5. ASSUME NEW j \in Jobs  PROVE Bounded(j)'
  <2>1. Over(j) => Over(j)'
    BY <1>a, <1>b, <1>c, <1>3, OverStays DEF Over
  <2> QED
    BY <1>a, <1>3, <2>1, BoundedKept DEF CutInv
<1> QED
  BY <1>1, <1>4, <1>5 DEF CutInv

(* Requests, the cleaner, time and an orderly life cycle run nothing twice. *)
LEMMA OthersCuts ==
    ASSUME TypeOK, CarrierInv, CutInv, cut' = cut,
           \/ Cleaner \/ Start \/ Stop \/ Exit
           \/ \E j \in Jobs : IngestBundle(j) \/ Elapse(j) \/ FileAges(j)
    PROVE  CutInv'
<1>1. ASSUME UNCHANGED <<rowVars, queue, workerVars, ingest>>,
             reconciler' \in {reconciler, ReconcilerIdle},
             reaper' = reaper \/ (reaper'.take = {} /\ reaper'.enq = {})
      PROVE  CutInv'
  <2>1. TakeStays' /\ CurInTodo'
    BY <1>1 DEF CutInv, TakeStays, CurInTodo, ReconcilerIdle
  <2>2. \A j : Carried(j)' => Carried(j)
    BY <1>1 DEF Carried, Queued, Taken, Recorded
  <2>3. ASSUME NEW j \in Jobs  PROVE Bounded(j)'
    <3>1. Over(j) => Over(j)'
      BY <1>1, <2>2, OverStays DEF Over, ReconcilerIdle
    <3> QED
      BY <1>1, <3>1, BoundedKept DEF CutInv
  <2> QED
    BY <2>1, <2>3 DEF CutInv
<1>2. CASE Start \/ Stop \/ Exit
  BY <1>1, <1>2 DEF Start, Stop, Exit, ReaperIdle
<1>3. CASE CleanerFilesInUse \/ CleanerSweep \/ CleanerFails \/ \E j \in Jobs : FileAges(j)
  BY <1>1, <1>3 DEF CleanerFilesInUse, CleanerSweep, CleanerFails, FileAges
<1>4. CASE CleanerPurge
  <2>1. UNCHANGED <<queue, workerVars, ingest, reaper, reconciler>>
    BY <1>4 DEF CleanerPurge
  <2>2. \A j \in Jobs : IF j \in Expired THEN status'[j] = "absent" /\ requeue'[j] = 0
                        ELSE /\ status'[j] = status[j] /\ requeue'[j] = requeue[j]
                             /\ j \in due' => j \in due
    BY <1>4 DEF CleanerPurge
  <2>3. TakeStays' /\ CurInTodo'
    BY <2>1, <2>2 DEF CutInv, TakeStays, CurInTodo, Expired, TypeOK, LoopsOK
  <2>4. \A j : Carried(j)' => Carried(j)
    BY <2>1 DEF Carried, Queued, Taken, Recorded
  <2>5. ASSUME NEW j \in Jobs  PROVE Bounded(j)'
    <3>1. CASE j \in Expired
      <4>1. CutsOf(j)' = CutsOf(j) /\ status'[j] = "absent" /\ requeue'[j] = 0
        BY <2>2, <3>1 DEF CutsOf
      <4> QED
        BY <2>1, <4>1, BoundsType DEF CutInv, Bounded
    <3>2. CASE j \notin Expired
      <4>1. Over(j) => Over(j)'
        BY <2>1, <2>2, <2>4, <3>2, OverStays DEF Over
      <4> QED
        BY <2>1, <2>2, <3>2, <4>1, BoundedKept DEF CutInv
    <3> QED
      BY <3>1, <3>2
  <2> QED
    BY <2>3, <2>5 DEF CutInv
<1>5. ASSUME NEW h \in Jobs, Elapse(h)  PROVE CutInv'
  <2>1. /\ UNCHANGED <<status, requeue, queue, workerVars, ingest, reaper, reconciler>>
        /\ due' = due \cup {h}
        /\ status[h] \in TERMINAL_STATUSES => h \notin reaper.take
    BY <1>5 DEF Elapse, Held, TERMINAL_STATUSES
  <2>2. TakeStays' /\ CurInTodo'
    BY <2>1 DEF CutInv, TakeStays, CurInTodo
  <2>3. \A j : Carried(j)' => Carried(j)
    BY <2>1 DEF Carried, Queued, Taken, Recorded
  <2>4. ASSUME NEW j \in Jobs  PROVE Bounded(j)'
    <3>1. Over(j) => Over(j)'
      BY <2>1, <2>3, OverStays DEF Over
    <3> QED
      BY <2>1, <3>1, BoundedKept DEF CutInv
  <2> QED
    BY <2>2, <2>4 DEF CutInv
<1>6. ASSUME NEW h \in Jobs, IngestBundle(h)  PROVE CutInv'
  <2>1. UNCHANGED <<requeue, workerVars, reaper, reconciler>>
    BY <1>6 DEF IngestBundle, IngestWrite, IngestRecord, IngestRollback, IngestEnqueue
  <2>2. \A j \in Jobs : /\ j # h => ingest'[j] = ingest[j]
                        /\ ingest'[j] \in {"new", "written"} => ingest[j] \in {"new", "written"}
    BY <1>6 DEF IngestBundle, IngestWrite, IngestRecord, IngestRollback, IngestEnqueue,
                IngestGoto, TypeOK, ProcessOK
  <2>3. \/ UNCHANGED <<status, due>>
        \/ ingest[h] = "written" /\ SetStatus(h, "PENDING")
    BY <1>6 DEF IngestBundle, IngestWrite, IngestRecord, IngestRollback, IngestEnqueue
  <2>4. ingest[h] = "written" => status[h] = "absent" /\ h \notin reaper.take /\ ~Over(h)
    BY DEF CarrierInv, LineInv, FreshAlone, Over
  <2>5. \A j \in Jobs : \/ status'[j] = status[j] /\ (j \in due' => j \in due)
                        \/ j = h /\ ingest[h] = "written"
    BY <2>3 DEF SetStatus, TypeOK, DurableOK
  <2>6. TakeStays' /\ CurInTodo'
    BY <2>1, <2>4, <2>5 DEF CutInv, TakeStays, CurInTodo, TypeOK, LoopsOK
  <2>7. \A j \in Jobs : Carried(j)' => Carried(j) \/ (j = h /\ ingest[h] = "written")
    <3>1. \A j : Taken(j)' => Taken(j)
      BY <2>1 DEF Taken
    <3>2. \A j \in Jobs : Recorded(j)' => Recorded(j) \/ (j = h /\ ingest[h] = "written")
      BY <1>6, <2>2 DEF IngestBundle, IngestWrite, IngestRecord, IngestRollback, IngestEnqueue,
                        IngestGoto, Recorded, TypeOK, ProcessOK
    <3>3. \A j : Queued(j)' => Queued(j) \/ (j = h /\ Recorded(h))
      <4>1. CASE IngestEnqueue(h)
        <5> PICK s : s = <<h>>
          OBVIOUS
        <5>1. s \in Seq(Jobs) /\ DOMAIN s = {1} /\ s[1] = h /\ Enqueue(s) /\ Recorded(h)
          BY <4>1 DEF IngestEnqueue, Recorded
        <5>2. \A j : Queued(j)' <=> Queued(j) \/ \E k \in DOMAIN s : s[k] = j
          BY <5>1, EnqueueQueues DEF TypeOK, ProcessOK
        <5> QED
          BY <5>1, <5>2
      <4>2. CASE UNCHANGED queue
        BY <4>2 DEF Queued
      <4> QED
        BY <1>6, <4>1, <4>2 DEF IngestBundle, IngestWrite, IngestRecord, IngestRollback
    <3> QED
      BY <2>1, <3>1, <3>2, <3>3 DEF Carried
  <2>8. ASSUME NEW j \in Jobs  PROVE Bounded(j)'
    <3>1. Over(j) => Over(j)'
      BY <2>1, <2>4, <2>5, <2>7, OverStays
    <3> QED
      BY <2>1, <2>2, <2>5, <3>1, BoundedKept DEF CutInv
  <2> QED
    BY <2>6, <2>8 DEF CutInv
<1> QED
  BY <1>2, <1>3, <1>4, <1>5, <1>6 DEF Cleaner

(* A crash cuts short what runs; nobody runs it then. *)
LEMMA CrashCuts ==
    ASSUME TypeOK, CarrierInv, CutInv, Crash, CountCuts
    PROVE  CutInv'
<1>1. /\ UNCHANGED <<status, requeue>> /\ queue' = <<>>
      /\ \A w \in Workers : wpc'[w] = "get" /\ wjob'[w] = NoJob
      /\ reaper' = ReaperIdle /\ reconciler' = ReconcilerIdle
      /\ \A j \in Jobs : ingest'[j] = ingest[j] \/ ingest'[j] = "lost"
      /\ \A j \in Jobs : ingest'[j] # "recorded"
  BY DEF Crash, InFlight
<1>2. TakeStays' /\ CurInTodo'
  BY <1>1 DEF TakeStays, CurInTodo, ReaperIdle, ReconcilerIdle
<1>3. ASSUME NEW j \in Jobs  PROVE Bounded(j)'
  <2>1. Bounded(j) /\ requeue[j] \in Nat /\ MaxRequeue \in Nat
    BY BoundsType DEF CutInv, TypeOK, DurableOK
  <2>2. CutsOf(j)' = IF Attempted(j, "RUNNING") THEN CutsOf(j) + 1 ELSE CutsOf(j)
    <3>1. cut'[j]["RUNNING"] = IF Attempted(j, "RUNNING") THEN cut[j]["RUNNING"] + 1
                               ELSE cut[j]["RUNNING"]
      BY DEF CountCuts
    <3> QED
      BY <3>1 DEF CutsOf
  <2>3. ~Carried(j)' /\ (\A w \in Workers : wjob'[w] # j) /\ j \notin reconciler'.todo
    BY <1>1, JobsFinite DEF Carried, Queued, Taken, Recorded, Early, ReaperIdle, ReconcilerIdle
  <2>4. status[j] \in {"RUNNING", "FAILED"} => Over(j)'
    BY <1>1, <2>3 DEF Over
  <2>5. CASE Attempted(j, "RUNNING")
    <3>1. status[j] = "RUNNING" /\ ~Over(j)
      BY <2>5 DEF Attempted, Over
    <3>2. CutsOf(j) <= requeue[j] /\ CutsOf(j)' = CutsOf(j) + 1 /\ CutsOf(j) \in Nat
      BY <2>1, <2>2, <2>5, <3>1 DEF Bounded
    <3>3. Over(j)' /\ ingest'[j] \notin {"new", "written"}
      BY <1>1, <2>4, <3>1 DEF CarrierInv, LineInv, FreshAlone
    <3> QED
      BY <1>1, <2>1, <3>1, <3>2, <3>3 DEF Bounded
  <2>6. CASE ~Attempted(j, "RUNNING")
    BY <1>1, <2>1, <2>2, <2>4, <2>6 DEF Bounded, Over
  <2> QED
    BY <2>5, <2>6
<1> QED
  BY <1>2, <1>3 DEF CutInv

LEMMA SpecCutImplies == SpecCut => Spec
<1>1. InitCut => Init
  BY DEF InitCut
<1>2. [Next /\ CountCuts]_<<vars, cut>> => [Next]_vars
  OBVIOUS
<1> QED
  BY <1>1, <1>2, PTL DEF SpecCut, Spec

THEOREM CutsCorrect == SpecCut => []CutInv
<1>1. InitCut => CutInv
  <2> SUFFICES ASSUME InitCut  PROVE CutInv
    OBVIOUS
  <2>1. /\ reaper = ReaperIdle /\ reconciler = ReconcilerIdle
        /\ \A j \in Jobs : status[j] = "absent" /\ requeue[j] = 0 /\ CutsOf(j) = 0
    BY DEF InitCut, Init, CutsOf
  <2> QED
    BY <2>1, BoundsType DEF CutInv, TakeStays, CurInTodo, Bounded, ReaperIdle, ReconcilerIdle
<1>2. TypeOK /\ CarrierInv /\ CutInv /\ [Next /\ CountCuts]_<<vars, cut>> => CutInv'
  <2> SUFFICES ASSUME TypeOK, CarrierInv, CutInv, [Next /\ CountCuts]_<<vars, cut>>
               PROVE  CutInv'
    OBVIOUS
  <2>1. CASE UNCHANGED <<vars, cut>>
    <3>1. TakeStays' /\ CurInTodo'
      BY <2>1 DEF CutInv, TakeStays, CurInTodo
    <3>2. \A j : Carried(j)' => Carried(j)
      BY <2>1 DEF Carried, Queued, Taken, Recorded
    <3>3. ASSUME NEW j \in Jobs  PROVE Bounded(j)'
      <4>1. Over(j) => Over(j)'
        BY <2>1, <3>2, OverStays DEF Over
      <4> QED
        BY <2>1, <4>1, BoundedKept DEF CutInv
    <3> QED
      BY <3>1, <3>3 DEF CutInv
  <2>2. CASE Next /\ CountCuts /\ Crash
    BY <2>2, CrashCuts
  <2>3. CASE Next /\ CountCuts /\ ~Crash
    <3>1. cut' = cut
      BY <2>3 DEF CountCuts
    <3> QED
      BY <2>3, <3>1, WorkerCuts, ReaperCuts, ReconcilerCuts, OthersCuts DEF Next
  <2> QED
    BY <2>1, <2>2, <2>3
<1> QED
  BY <1>1, <1>2, SpecCutImplies, TypeCorrect, CarrierCorrect, PTL DEF SpecCut

(* stuck_job_reaper.py, lines 10-12: a job whose analysis crashes the      *)
(* process is analysed once and MaxRequeue times again, and never more,    *)
(* whatever the number of starts and however they race.                    *)
THEOREM CrashLoopEnds == SpecCut => []AnalysisCrashesBounded
<1>1. CutInv => AnalysisCrashesBounded
  BY DEF CutInv, Bounded, CutsOf, AnalysisCrashesBounded
<1> QED
  BY <1>1, CutsCorrect, PTL

=============================================================================
