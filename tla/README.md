# CHOK v2 AI backend: TLA+ models, model checks and proofs

The repository is a FastAPI service. A collector posts *incident bundles* (logs, metrics,
traces around a trigger) to `POST /ingest`; the service records each one as a job,
analyses it with a graph of LLM agents (root cause analysis, RCA), and posts the report to
a Spring service. This directory models the service, checks the models with TLC and proves
part of what they promise with TLAPS.

## 1. Inventory

| component | state | operations | interacts by |
|---|---|---|---|
| ingest API, `app/api/ingest.py` | none of its own | `ingest_bundle`, `get_job_status` | writes a signal file, inserts a row, enqueues its id |
| RCA job queue, `app/services/job_queue.py` | in-memory FIFO of ids, N worker tasks | `enqueue`, `_worker`, `_process`, `_run_rca`, `_deliver_and_finalize`, `_mark_done`, `_mark_failed`, `start`, `stop` | rows, files, Spring |
| stuck job reaper, `app/services/stuck_job_reaper.py` | one loop task | `recover_on_startup`, `reap_once` | RUNNING and PENDING rows, queue, Spring, files |
| delivery reconciler, `app/services/delivery_reconciler.py` | one loop task | `redeliver_once`, `_mark_done`, `_mark_failed` | DELIVERING rows, Spring, files |
| job cleaner, `app/services/job_cleanup.py` | one loop task | `purge_once`, `files_in_use`, sweep | terminal rows, old files |
| bundle store, `app/services/bundle_store.py` | a directory | `split_and_save`, `restore_bundle`, `discard`, `sweep_orphans` | called by all of the above |
| Spring client, `app/services/spring_client.py` | none | `save_result`, `save_failure`, payload assembly | HTTP, 409 as idempotency answer |
| lifespan, `app/main.py` | the process | start: workers, recovery, loops; stop: loops, queue | owns the tasks |
| job table, `app/db/models.py` | `ingest_job` | | shared by all |
| RCA graph, `app/agents/*` | shared LLM semaphore | router, three modality agents, report | called by the worker under a time cap |
| signal selection, `signal_selector.py` | none | `select_signals` | called by the Spring client |
| payload assembly, `spring_client.py`, `raw_normalizer.py` | none | note of the selection, times, normalisation of raw lines | called before every POST, also a repeated one |
| digests, `bundle_parser.py`, `bundle_compression.py`, `llm.truncate_input` | a Drain miner per service and call | `compress_logs`, `compress_metrics`, `compress_traces`, truncation | called by the modality agents |
| baseline profile, `scripts/analyze_baseline.py` | `baseline/log_profile.json` | `build_profile` | read by `compress_logs` |
| report facts, `agents/report_llm.py` | none | `service_liveness`, `_fill_affected_errors` | called around the report's LLM call |
| validation, contracts, auth, error handlers, health, `eval/` | none | | |

What is hard in it:

* one event loop with N workers, three loops and the requests, all of which may run at
  every `await` of any of them, on rows that are written by primary key, without a lock, a
  version or a condition;
* a queue that is lost with the process, while rows and files stay;
* a Spring service that may store a report and lose its answer;
* database and disk operations that fail before or after they took effect;
* clean-up by age next to work that takes time;
* one bundle that is read by five readers (three digests, the selector, the normaliser), each
  with rules of its own about what an error, an outlier or a time is;
* texts that are ordered by importance, cut by length, and expected to keep a moment in time.

What makes the components correct: no accepted job is lost (`PendingHasCarrier`,
`AcceptedSettles`, `RunningEnds`, `DeliveringEnds`), no report is silently dropped
(`DoneIsReported`, `DeliveringHasResult`), a job waits in one place (`WaitsOnce`) and is
worked on once at a time (`AtMostOneCopy`), its file is there while it is needed (`FileKept`), the row says what
Spring knows (`RowAndSpringAgree`), statuses only move along the life cycle
(`LifecycleSpec`), attempts are bounded (`AnalysisCrashesBounded`), and the service can be
stopped (`ShutdownEnds`). The permits of the LLM semaphore are neither lost nor doubled
(`PermitsConserved`, `NoLostWakeup`), and a report is made from what its own attempt found
(`ReportIsInformed`, `EvidenceIsCurrent`). A selection is as large as the cap allows
(`CapFilled`), gives every group its turn (`NoFavourites`) and keeps the worst (`WorstKept`);
a payload is the same each time it is posted (`SameEachTime`), in order (`ShownInOrder`) and
says what the selector saw (`ErrorShown`). An agent's text fits the model (`WithinLimit`),
still has the trigger (`TriggerKept`), puts what is new or out of range first
(`NewBeforeChronic`, `OutliersFirst`), and its numbers agree with those of the other readers
(`ErrorCountsAgree`, `DeviantsAgree`, `DelaysInOrder`, `ExemplarsTell`, `StrongestSignal`).
`PROJECT.json` lists the hazards line by line.

## 2. Modules

```
Pipeline            constants, shared state, typing, row writes, file discard
  SpringClient      _post: what Spring keeps, how an answer is classified
    JobQueue        the worker, one action per await
      StuckJobReaper
      Ingest
    DeliveryReconciler
  JobCleaner
AiBackend           all of them, lifespan, crash, time, fairness, the properties
CrashLoop           AiBackend with a history variable
JobLifecycle        abstract specification: what the pipeline promises of a job
RcaGraph            what happens inside one step of the worker: _run_rca and the agents
RcaRun              abstract specification: what _run_rca promises the worker
Ordering            sorted(): tuples compared, a set put in order; used below
SignalSelector      what one assembly of a payload selects: select_signals
  RawNormalizer     what Spring is told of a raw line
    SpringPayload   the assembly of a payload, once per attempt to post a job
LlmInput            truncate_input
  Digest            a bundle, its items, a table, rows of a text, the cut
    LogDigest       compress_logs, with Drain and the baseline profile
      ReportFacts   service_liveness, service_error_counts, assemble
    MetricDigest    compress_metrics
    TraceDigest     compress_traces
AgentInput          all readers of one bundle, and what they agree on
MCAiBackend, MCCrashLoop, MCRcaGraph, MCSpringPayload, MCAgentInput    instances for TLC
AiBackendProofs, CarrierProofs, OneLifeProofs, RcaGraphProofs, CollectionProofs,
SignalSelectorProofs, SpringPayloadProofs, AgentInputProofs             theorems
```

**Correspondence.** A task is a record or a function with a program counter whose values
name the next `await`: a SELECT, a COMMIT, a file operation, a POST. Code between two
awaits is atomic (asyncio), and each of the operations takes effect at one instant inside
its await, so one action is one operation together with the code that follows it up to the
next await. Names follow the source.

* `status`, `analysed` (`result` is set), `requeue` (`requeue_count`) and `due` (below) are
  the row; `file` the signal file by age; `spring` what Spring holds per `triggerTime`.
* Writes follow SQLAlchemy as `app/db/session.py` sets it up (`expire_on_commit=False`):
  an UPDATE carries only the columns whose value differs from the one loaded
  (`SaveStatus`), finds its row by primary key alone (`SetStatus` overwrites whatever the
  status is by then), raises when the row is gone (`CanSave`), and moves `updated_at`. A
  session whose commit raised refuses another commit until it is rolled back, which
  `_process` never does: hence `WorkerCommitAgain`.
* A failed operation (`Fault`) happens before or after it took effect: both disjuncts are
  there for every COMMIT.
* `restore_bundle` raises `SignalsMissing` for a missing file. For a damaged one it does
  too, but `os.replace` keeps a half-written file from ever having the final name.

**The analysis.** `WorkerRca` of `JobQueue` is one step with a chosen outcome; `RcaGraph` is
what that step stands for, and `RcaRun` the interface between the two: an analysis is tried
at most twice and gives a result, or an error after the second attempt. A node of the graph has two awaits, for a permit of the semaphore
(`llm.py`) and for the LLM, and so three actions at most: it starts (and may raise, or have
nothing to do), it gets a permit when another call releases one, it has its answer.
`run`, `attempt`, `bundle` are the locals of `_run_rca`; `routes` and `evidence` the
`RcaState` of the current `ainvoke`; `free` and `waiting` the `asyncio.Semaphore`, whose
hand-over is modelled as CPython 3.12 does it: a release gives the permit to the first waiter
that is not cancelled, and a waiter that is cancelled still has to take itself out of the
queue (`Leave`). A cancelled node writes no evidence, since `except Exception` does not catch
`CancelledError`. `wait_for` returns when all nodes have unwound, hence the guard of
`AttemptEnds`. `validate_rca_result` passes an `RcaResult` on as it is, and the graph returns
nothing else. The cap may strike at any await: durations are left out.

**The selection.** `SignalSelector` runs `select_signals` on one bundle, one action per
iteration of the loops of `_round_robin`. An item is what the three groupings read off its
raw line (a log's cluster and level, a metric's series and value and whether it precedes the
trigger, a span's operation, error and duration), and its time. Grouping and ordering are one
action each with the tuples of the source as sort keys (every key ends in the item's index,
so that no two are equal, and `Ordering` gives each member its place by the number of those
before it); `3 * sigma` is decided over the
integers by squaring. The pipeline knows the selection by one fact, that for some bundles it
raises: a point with a time zone against a trigger without one, or a JSON duration that is
no number, in a bundle larger than the cap; or the duration of a selected span is infinite,
and the normaliser overflows. These jobs are the constant `Unbuildable`, and
`Meets` of `SpringClient` says that no attempt to send one gets anywhere while its signals
are loaded.

**The payload.** `SpringPayload` puts around the selection what `_result_payload` and
`_failure_payload` do with it, one action per call: `Annotate` (the note, on a copy of the
stored result), `Stamp` (every time to UTC) and `Normalize`. `attempts` records what each
attempt of the worker or the reconciler to post the job came to; each starts from the stored
bundle again. A time is a wall clock with an offset, or without one; `Zones` says what zones
a bundle's times have. A payload has three modalities that do not meet, so an instance has
one of them. `RawNormalizer` works on which keys a raw line has and which level word is found
where; trace ids, from, to, threshold and exceeded are left out, and so are the times of the
window, the trigger and the intervals, which `_to_spring_ts` converts like those of the items.

**The digests.** A digest reads items into a table (`groups`), one action per item, and then
puts the table in order as `rows` of a text, which `Cut` (`build_user_message`,
`truncate_input`) cuts. A row records which part of the text it is in, what it is of, and
which items' times are written in it (`shows`); all rows have `Width` characters, which
`TextSize` and `Part` count as the source counts them. What stays of a text is `window`, in
characters, and `Kept`, in rows. The heading lines of a text are left out. What the regular
expressions find in a raw line (level, words, label and value pairs, operation, duration,
error) is given with the item. `Template` is Drain as far as the source relies on it: lines
of one pattern are in one cluster, and a word in which two of them differ is `<*>` from then
on; `Profile` counts every line of normal operation under the template of that moment, as
`build_profile` does, with one log file per service. Sigma, surprise and score are quotients or roots in
the source and are compared here by cross multiplication and squares. `Raise` is an
exception that makes the agent fail (a naive time against an aware one, a duration that is no
number); `RcaGraph` has what follows. Left out: the digest of a bundle whose trigger time
cannot be parsed (the contract refuses it at `/ingest`), a modality without items (`(없음)`),
the summary of intervals, and how `service_liveness` gets a service from a file name.

**Time.** `due` holds the rows whose `updated_at` is older than the cutoff that applies to
their status; `Elapse` puts a row there and every UPDATE takes it out. What the code's
settings order is a guard, and all else may happen at any time: a worker that marked a job
RUNNING cannot hold it for 1500s (`config.py:48-57`: two attempts of at most 600s each), so
a RUNNING row gets due only when no worker analyses it; a terminal row gets due (24h) only
when no task still holds it; a file ages (24h) neither during its request nor during one
pass of the cleaner. The start-up recovery uses no cutoff, as in the code.

**Bounds.** `MaxStarts` process starts, where the last one is neither stopped nor crashed;
`MaxFaults` failed database or disk operations. Both are guards of the actions they bound.
The queue, the counts and the rest are bounded by the finitely many jobs, each posted once.

**Left out of these modules.** The error text; temporary files of an interrupted write;
rows from before `signals_path` existed; a `rollback()` that raises; the read-only status
endpoint.

## 3. Checks

Passing runs (`MaxRequeue = 1`, the default of `config.py:57`, in all of them):

| run | instance | shows |
|---|---|---|
| `recovery` | 1 job, 2 workers, 4 starts, 1 fault, every answer of Spring | `TypeOK`, `DeliveringHasResult`, `DoneIsReported`, `PendingHasCarrier`, `WaitsOnce`, `AnalysisCrashesBounded` |
| `steady` | 2 jobs (Spring refuses one), 2 workers, 1 start, 2 faults | `FileKept`, `AtMostOneCopy`, `RowAndSpringAgree`, `LifecycleSpec`, with every put-back and its end |
| `live` | 1 job, 2 workers, 2 starts, 1 fault, fair | `RunningEnds`, `DeliveringEnds`, `ShutdownEnds`, `AcceptedSettles` |
| `graph` | 2 workers, 2 modalities, 2 permits, 2 bundles | `TypeOK`, `PermitsConserved`, `NoLostWakeup`, `ReportIsInformed`, `EvidenceIsCurrent`, `RunSpec` (refinement of `RcaRun`), `EndsByCap`, `EndsByAnswers` |
| `payload` | bundles of 0, 2 and 5 items, a cap of 3, posted twice | `TypeOK`, `CapFilled`, `NoFavourites`, `WorstKept`, `SameEachTime`, `ShownInOrder`, `ErrorShown`, `Terminates` |
| `digest` | bundles of 3 and 4 items, rows of 4 characters, a limit of 14 | `TypeOK`, `WithinLimit`, `TriggerKept`, `ErrorCountsAgree`, `NewBeforeChronic`, `OutliersFirst`, `DeviantsAgree`, `ExemplarsTell`, `DelaysInOrder`, `StrongestSignal` |

Why the bounds are enough to mean something: two workers and the reaper or the reconciler
are all that can meet on one row; four starts have a recovery after a recovery, and one
more crash than the cap allows; two faults exhaust `MaxRequeue = 1` (two lost attempts). Two jobs let jobs meet in the queue, in one pass of a loop, and under one
`triggerTime`. In the graph, two permits for up to four calls in flight make every call wait
somewhere, and give a release and a cancellation of different workers the chance to cross;
a modality only matters by being triggered or not and having items or not, and `SomeBundles`
has all four combinations. Five items against a cap of three have more groups than the cap,
groups that run out while others go on, and passes that end at the cap; the smaller bundles
go through unchanged. The times run against the collector's order, so that the last sort has
something to do, and every other one has a zone of its own. Two sendings are enough for the
second to find what the first left behind. In the digests, four rows of four characters
exceed the limit of 14, so texts are cut at the top, at the end and at both; a bundle has
lines before, at and after the trigger, series that never moved, and spans without a duration.

`WorstKept` speaks of the groups of logs and metrics only: `_trace_buckets` replaces the
grade of a span by its rank in the bucket (`signal_selector.py:194`), so that the best grade
of every bucket is 0 and the size alone decides which groups are represented.
`ErrorShown` speaks of lines where the two modules read the same thing (`Plain`). They differ
where a log line has a level key or a message key (the selector searches the whole line, the
normaliser the key), and where a span has an empty `status` before its code (the selector
goes on to the code, the normaliser sends the empty status). `NewBeforeChronic` compares a new pattern with
one that occurred in the bundle before the trigger; what the profile contributes to it is
the subject of the run `baseline`. `DeviantsAgree` is about lines with one label: of others,
the selector reads the first label only.

`FileKept`, `AtMostOneCopy`, `RowAndSpringAgree` and `LifecycleSpec` are checked over one process
life: the start-up race below breaks them, on the code as it is, across a restart.
`FileKept` also leaves out the requests that failed: a commit that was applied but raised
makes `ingest_bundle` discard the file of a row that stays PENDING. `PendingHasCarrier`
says nothing once an operation has failed, and `AcceptedSettles` promises nothing once one has
failed: then the code leaves a PENDING row to the next start.
`RowAndSpringAgree` is checked without 401: a changed secret may come between a stored
report and its repetition, and then the row is FAILED by design; and if that happens while
worker and reconciler have both read DELIVERING, the later commit overwrites the earlier.
Two bundles of one `triggerTime` share one report in Spring, since the 409 of the second
counts as success: `DoneIsReported` is about the incident.

Runs that end in a violation, each a sentence of the source against its code:

| run | claim | what happens |
|---|---|---|
| `startup_race` | nobody works on a RUNNING job at a restart (`stuck_job_reaper.py:18-19`) | workers start before the recovery, which re-queues PENDING jobs first: one is RUNNING in a worker when the recovery takes it |
| `crash_loop` | the cap ends crash loops (`stuck_job_reaper.py:12`) | a crash before the RUNNING commit is re-queued uncounted; `AnalysisCrashesBounded` is the part that holds |
| `unbuildable` | the reconciler makes a DELIVERING job DONE in the end (`delivery_reconciler.py:3-5`) | the assembly of the payload raises each time, which counts as a transient failure of Spring |
| `baseline` | the profile tells chronic patterns from new ones, its templates match those of a bundle (`analyze_baseline.py:90-91`, `bundle_compression.py:197`) | the profile has the generalised template, the bundle's first line makes a literal one: looked up in vain |
| `around` | the surroundings of the trigger are kept first (`llm.py:84`, `docs/agent-design.md:98`) | the text is in the order of surprise; no row shows the second of the trigger, and the middle is kept (5 lines, of which one is within 3s) |
| `zero_errors` | a service in the log gets its count, 0 included (`report_llm.py:133`) | a service without error lines has no count, so the LLM's number stays |

**Fairness** (`FairSpec`). Weak fairness of every task: the event loop runs what is ready,
and no task blocks it (file I/O is in threads, each network operation of a POST has a time
limit of 10s, an attempt at the RCA one of 600s). Weak fairness of `Elapse`: time passes. Weak fairness of `Start` and
`Exit`: the container is restarted, shutdown goes on. Strong fairness of a definite answer
of Spring for a job that is posted again and again: an outage ends. (A job in `Unbuildable`
never is posted; `live` has none, `unbuildable` is about one.) Nothing is assumed of
`Stop`, `Crash` or new requests. A request in flight goes on, none has to arrive.
In the graph, `EndsByCap` assumes (`CapFires`) that the timer of `wait_for` fires and that
cancelled nodes unwind, and nothing of the LLM; `EndsByAnswers` assumes (`LlmReturns`) that a
node which may go on does and that a call returns (`make_llm` limits each request and the
number of its repetitions), and nothing of the timer. Neither assumes that a waiter is
served: the FIFO of the semaphore does that. `Terminates` of the selection (`FairPayload`)
assumes that the program goes on.

**Abstract specification.** `JobLifecycle` is the life of a job with no tasks in it:
accepted, begun, analysed, delivered or refused, put back at most `MaxRequeue` times, purged
when it ended, DONE after delivery only when Spring has a report of the incident.
`AiBackend` implements it (`LifecycleSpec`) under the mapping `reported <-` the jobs
whose `triggerTime` Spring holds.

## 4. Proofs

`AiBackendProofs` proves, for all values of the constants that satisfy the assumptions of
`Pipeline` (finitely many jobs, any number of workers, starts, faults and answers):

* `TypeCorrect`: `TypeOK` is inductive by itself. It contains what the actions rely on: a
  worker past `get` holds a job, and so do the reaper and the reconciler where they commit
  or discard.
* `DeliveryCorrect`: the invariant `DeliveryInv`, and from it `ResultSurvives`
  (`DeliveringHasResult`) and `NoReportDropped` (`DoneIsReported`). `DoneIsReported` is not
  inductive: the commit that writes DONE happens two awaits after the POST. `DeliveryInv`
  adds what the tasks know in between (a worker or a reconciler about to mark a job DONE
  had a 2xx or a 409 for it) and that only a runner that may return `None` leads to the
  other DONE. The lemmas under it: what Spring stored stays (`StoreKeeps`, `StoredStays`), a
  POST that is classified ok was stored (`OkIsStored`), and per task that its steps keep the
  three parts of the invariant. A crash only forgets what the tasks know.

`CarrierProofs` proves, under the same assumptions, what holds across any number of
restarts, crashes and failures:

* `WaitsInOnePlace` (`WaitsOnce`) and `PendingIsCarried` (`PendingHasCarrier`), from the
  invariant `CarrierInv` (`CarrierCorrect`). Neither is inductive. `LineInv` follows a job
  from the request that accepts it, through the recovery's and the reaper's lists, into the
  queue: these places exclude each other, and whoever is about to take a job in writes its
  row in the same step, so that no second list can find it. `PhaseInv` says which task may
  do something in which phase of the process: the recovery works while there is no other
  reaper, the loops and requests only once it has ended, and nothing survives an exit. A
  PENDING row is then carried because each step that takes a job off one place puts it on
  the next, and a step that may fail to do so counts as a fault.
* `CrashLoopEnds` (`AnalysisCrashesBounded`), from `CutInv` (`CutsCorrect`): a job was cut
  short at most once more than it was put back (`Bounded`); when it was, nobody runs it
  again until the reaper puts it back, which `requeue_count` counts (`Over`).

`OneLifeProofs` proves what the start-up race breaks across a restart, for one process life
(`MaxStarts = 1`, the restriction of the run `steady`) and any number of jobs, workers and
failed operations:

* `OneCopy` (`AtMostOneCopy`), from `PlaceInv` (`PlaceCorrect`): the place a worker is at
  tells the status of its job (`WorkerRow`), so does each list of a loop (`ListsTell`); no
  two workers hold one job, and a job that a worker holds is in no list of the reaper. What
  makes it inductive is that a RUNNING row a worker analyses is not `due`, and the reaper
  takes by `due`.
* `FilesAreKept` (`FileKept`), from `FileInv` (`FilesCorrect`): what a task still needs is
  named by a row that `files_in_use` returns, or is younger than the cleaner's pass.
* `ImplementsLifecycle` (`LifecycleSpec`): every step of the pipeline is a step of
  `JobLifecycle` or a stutter. `RowSteps` says per job what a step does to the row, and
  `StepsOfRows` makes a step of the abstract specification out of that; the rest is one
  lemma per task, which `PlaceInv` and `VerdictInv` (`VerdictCorrect`) feed. It holds for a
  secret that does not change (no 401 among `SpringAnswers`), as in `steady`: a 401 after a
  timeout under which Spring stored the report makes a row FAILED that the abstract job
  would have to deliver.
* `RowsAndSpringAgree` (`RowAndSpringAgree`), from `SpringInv`, beside this where an
  analysis never returns `None` (the graph returns an `RcaResult` or raises, `graph.py:137`;
  only another runner could) and each job has a `triggerTime` of its own: a job that shares one is DONE by a 409 for the other's
  report, and a failed one finds a report of the incident in Spring.

Left to TLC in the pipeline are the liveness properties, which are beyond the prover.

`RcaGraphProofs` proves, for any finite set of workers, any finite non-empty set of
modalities, any number of permits and any bundles, the invariant `GraphInv` (`GraphCorrect`)
and from it `GraphTypeCorrect`, `PermitsCorrect`, `CallsBounded`, `ReportCorrect` and
`EvidenceCorrect`. The argument has two halves. The semaphore keeps `PermitsConserved` by
itself: `AcquireOK` and `ReleaseOK` count the calls in flight, and need that a permit is
handed to a task that waits, which is not in flight yet. The graph keeps an invariant per
worker (`WorkerInv`): which tasks may be where while the run goes on, ends or is over
(`Quiet`; without it a new attempt could wipe out a task that holds a permit), the edges
of the graph (`Ordered`), what a done node has concluded (`Concluded`), that nothing is
concluded before (`Current`) and that a modality without items never calls (`Sparing`).
A step of one worker touches another one's tasks only by handing a permit on, which
`Bystander` shows to be harmless. `GraphImplementsRun` is the refinement of `RcaRun`
(`RunSpec`): the end of a run is a step of it, a cap that strikes is a stutter.

The module also proves `NoLostWakeup` (`WakeupsCorrect`). It is inductive
beside `GraphInv`, which says who may act: an attempt begins only when none of its worker's
nodes is in line (`Quiet`). One lemma per operation of the semaphore (`AcquireWakes`,
`ReleaseWakes`, `LeaveWakes`) rests on what taking one waiter out does to the queue
(`RemovedFromQueue`): everybody else is still in it, once. A permit becomes free only when
the queue has no waiter that counts, and a permit is denied only when none is free or
somebody waits, in which case none is free either.

`CollectionProofs` has the lemmas about sorting and adding up that the next modules cite.
The place of a member is the number of those before it; `RanksTell` says that these numbers
are 0 to n - 1, differ, and are in the order of the keys, which needs that the keys tell the
members apart and that `Before` is transitive (`BeforeTransitive`, `TuplesOrdered`). From it
come `SortedByKey` (the sequence has every member once, in the order of the keys) and
`SortedSize`; `FirstPartDecides` says that what comes first has no larger first part of its
key. A sum is a fold of the community modules, a recursion over a set. `SetInduction`, an
induction over finite sets with the predicate given as a set (so that no operator is passed),
shows that the recursion defines what it says (`FoldExists`), and from that what a sum does
when a member is left out (`SumWithout`), that items counted key by key are all counted
(`SumOfParts`), and that a variance is not negative (`VarianceOfSums`). `QuotientsRank` says
that the number of larger quotients, compared by cross multiplication, orders quotients as
their values do.

`SignalSelectorProofs` proves, for every bundle and every cap, all safety properties of the
selection, from the invariant `SelectorInv`:

* `SelectorTypeCorrect` (`TypeOK`): the loops never hold more than the cap.
* `RoundRobinFair` (`NoFavourites`). The property is not inductive: `Even` says that every
  cursor is at the number of turns its group has had (`Turns`: one less behind the place of
  the pass), or at the end of a group that has run out; `TakeKeeps` and `SkipKeeps` are the
  two turns a group may have.
* `SelectionFull` (`CapFilled`). The groups split the bundle: every item is in one of them,
  once (`GroupsPart`). `Picking` says that what is picked is what the cursors have gone
  past, one by one, so nothing is picked twice; `Ending`, that a pass that took nothing
  found every group exhausted, so that a selection below the cap has everything.
* `SelectionKeepsTheWorst` (`WorstKept`). Within a group this is the order of its items.
  Between groups it takes the order of the groups and the fairness of the passes: a group
  without an item in the selection is behind all that have one (`Even`), and so no
  worse than any of them (`GradeTellsSeverity`).

`SpringPayloadProofs` carries the four over to `SpringPayload` (`PayloadTypeCorrect`,
`PayloadFair`, `PayloadFull`, `PayloadKeepsTheWorst`): a step of the selection keeps them,
the other steps leave it alone, and a new attempt starts it again from a state in which they
hold. It adds

* `PostedTheSame` (`SameEachTime`). Two attempts share nothing but the bundle, and run a
  program with loops; that they come to the same is no invariant of either. `Chosen` says
  what a finished selection is, in terms of the bundle alone: group by group, the items
  below a bound that the cap fixes (`ChosenOne`: there is only one such set), in the order
  of their times (`ChosenByTime`: and only one such sequence). `Building` then gives the
  payload at every stage as a function of it.
* `PostedInOrder` (`ShownInOrder`): the order the selection gives to the original times
  survives their conversion.
* `PostedAsError` (`ErrorShown`): what the selector read off the raw line and what the
  normaliser writes into the fields agree on plain lines.

Beside the shape of the bundle (`BundleType`) they assume: a span's error is a truth value
and its duration a number (`SpanType`), the error is that of its status, or else of its code
(`ErrType`, `span_fields`), a time without a zone counts as UTC (`ZonesType`,
`_to_spring_ts`).

`AgentInputProofs` proves, for every bundle, every order of rows, every width and every
limit that has room for two notices (`LimitType`):

* `PromptFits` (`WithinLimit`) and `TriggerSurvives` (`TriggerKept`), from the invariant
  `DigestInv`: once a text is cut, `window` is what `Truncated` makes of it. The rest is
  about `Part`: it has the budget's length (`TruncatedFits`), which leaves room for the
  notices (`BudgetFits`), and it contains its focus (`PartHasFocus`); the focus is the first
  character of the first row that shows the second of the trigger, and a row of which one
  character is kept is in the text. That the rows are a sequence is all the proof needs of
  the digests (`TextsAreSequences`).
* `LivenessStrongest` (`StrongestSignal`), from the invariant `ReportInv`: of the intervals
  read so far, none is stronger than what is said, and what is said is the status of one of
  them. `ObserveKeeps` is the step: the rank of a modality's status never falls.

* The properties of the tables and texts, from `TextInv`. Its first part, `TableInv`, says
  what the table of each digest tells of the items read so far: the log's entries count the
  lines of a pattern before and after the trigger (`LogTable`), a series has exactly the
  points with its label (`MetricTable`), an operation has a first span and numbers for its
  counts and delays (`TraceTable`); `LineRead`, `PointRead` and `SpanRead` are the step from one item to the
  next. Its second part says that a text that is written `Tells` what it has to, of all items
  (`LogText`, `MetricText`, `TraceText`), and that nothing changes that afterwards
  (`SaidOfSame`). In between are the orders: that each sort key tells the rows apart
  (`LogKeys`, `SeriesKeys`, `OperationKeys`, `SlowKeys`), and that the place of a row in the
  text follows its key (`PlacesFollowKeys`).
  `NewPatternsFirst` (`NewBeforeChronic`) and `OutliersListedFirst` (`OutliersFirst`) then
  are facts about quotients (`ScoreType`: an outlier's score is above 0, because a variance
  is not below it). `QuotedSpansTell` (`ExemplarsTell`) follows the first error and the
  slowest span through the removal of duplicates (`ExemplarsOf`), and `DelaysAscend`
  (`DelaysInOrder`) counts the delays on either side of the rounded rank (`MedianPlace`,
  `HighPlace`, `Middle`). `ErrorsCountedTheSame` (`ErrorCountsAgree`) adds up the table, and
  `DeviantsAreOutliers` (`DeviantsAgree`) shows the selector's peers of a point to be its
  series. `AgentInputTypeCorrect` is `TypeOK`.

These assume what the parsers and the contract give: a metric line has finitely many pairs,
with values that are integers and names that are numbers in their order (`PairsType`), a span has a truth value for an error
and a number for a duration (`SpanType`), `_EXEMPLAR_LIMIT` is not 0 (`ExemplarType`), and
lists are finite (`HistoryType`, `IntervalsType`).

Model-checked only are the liveness properties (`Terminates` and those of the pipeline and
the graph), which are beyond the prover, and the counterexamples to the six claims that the
code breaks.

## 5. Not modelled

* The regular expressions and JSON shapes of `bundle_compression.py` and `raw_normalizer.py`
  (`metric_pairs`, `span_fields`, masks): their results are inputs of the models. What each
  does to one line is a matter for unit tests; what the models are about is how the results
  are put together.
* The wording of prompts, headings and notes; `render_interval`; `make_llm`.
* `contracts.py` beyond the shape of a bundle, `auth.py` (one comparison of a header), the
  error and log handlers, the health endpoint: no state.
* The evaluation harness (`eval/`), migrations and container files.

What would be worth adding: the theorems of `OneLifeProofs` hold within one process life;
across a restart they would need the start-up recovery to run before the workers
(`startup_race`), or a property that says which copy of a job wins.
