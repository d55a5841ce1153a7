# A verification project for langgraph-runtime-inmem

The repository is the in-memory backend of the LangGraph API server: it keeps
threads, runs, assistants and crons in process memory, executes queued runs as
asyncio tasks, streams their output, expires old data, and persists everything
to pickle files.  This directory holds TLA+ models of its concurrent core, the
TLC instances that check them, and machine-checked proofs of every safety property
that those instances check: of the run queue, run control, streams, the TTL sweeps of
threads and of the store, the sizes and states of checkpoints, assistants and crons,
the files, and deployments.
All paths below are relative to `src/src/langgraph_runtime_inmem/`.

Contents: [the system](#1-the-system) · [how code becomes
actions](#2-how-code-becomes-actions) · [modules](#3-modules) ·
[runs](#4-runs-and-bounds) · [fairness](#5-fairness) ·
[proofs](#6-proofs) · [findings](#7-where-code-and-documentation-disagree) ·
[limits](#8-what-is-not-modelled) · [plan](#9-plan)

## 1. The system

The components, with the state each keeps, what it does, what is hard about it
and what makes it correct.

| component | state | operations | hard behaviour | what must hold |
|---|---|---|---|---|
| **Run queue and scheduler** (`queue.py`; `Runs.next/put/delete/cancel/sweep`, `Threads.put/patch/delete/set_joint_status` in `ops.py`) | `store["runs"]`, `store["threads"]`, the retry counter, the token queue `runners`, `WORKERS` | requests put, cancel, roll back and delete runs and threads; the loop of `queue()` selects due pending runs and creates worker tasks; workers report with `set_joint_status`; a done callback returns the token | requests suspend between reading and writing; a scan suspends in the middle; worker loops on threads of their own; a limit taken before a sleep; restart | one running run per thread; tokens conserved and sufficient; nothing started twice; finished runs stay finished; the life of a run is the abstract one; FIFO per thread; every due run leaves the queue |
| **Run control and streams** (`inmem_stream.py`; `Runs.enter`, `listen_for_cancellation`, `Runs.cancel`, `Runs.Stream`) | control keys, control queues, stream queues, message stores, one `ValueEvent` per worker | cancel, enter, listen, publish, subscribe, join, replay, stop | a message sent before its listener exists, messages of an earlier attempt, subscribers at any time, listener time-out | a cancellation is not lost on its way; a retry is not stopped by old messages; every joiner ends; a client that resumes gets all events, new ones in order |
| **Thread TTL** (`thread_ttl.py`; `Threads.sweep_ttl`, `_set_thread_ttl_override`) | `store["thread_ttls"]`, the sweep in progress | override, sweep (delete / keep_latest), the sweep loop | a custom checkpointer suspends the sweep; limits and batches | active threads spared; pruned once per update; every expired thread swept |
| **Checkpoint saver** (`checkpoint.py`, `size_tracking.py`) | storage, writes, blobs, size aggregates | put, put_writes, prune, delete, copy | delta ancestors, incremental totals, writes of a worker whose thread was deleted | an unpruned checkpoint can be rebuilt; the estimate equals what is stored |
| **Long-term store** (`store.py`) | items, vectors, expirations, sizes, the operation lock | batch (get, search, put, delete), sweep, close | embeddings awaited under the lock, synchronous batches without it, a TTL of 0, three files | searches are current; nothing is swept early; items, records and sizes agree; what expires is swept |
| **Persistence and life cycle** (`_persistence.py`, `database.py`, `lifespan.py`) | the registry `_stores`, pickle files, background tasks | periodic flush, start and stop of the pool, lifespan | a flush thread that pickles live dicts, drops empty ones and may have a store closed under it; replaced stores and savers; crashes at any point | an orderly stop saves everything; what is in a file stays there, but for one race of the store; runs and threads are flushed |
| **Assistants** (`ops.py`, `database.py`) | assistants, versions | put, patch, delete, set_latest, search | deletion beside a suspended `Runs.put`; partial restore of a version | the assistant equals one of its versions |
| **Crons** (`ops.py`) | crons | put, update, delete, next, set_next_run_date | the scheduler iterates and awaits; a date computed from an old schedule | one run per due date; deleted crons do not run |
| **Thread state and search** (`ops.py`) | none of its own | State.get/post/bulk/list, search, count | delegation to the graph library | -- |
| **Auth filters** (`ops.py`) | none | `_check_filter_match`, `is_jsonb_contained` | nested operators | the filter means its definition |
| **Deploy routes** (`routes.py`) | `_current_op`, the buffer and tasks of each operation | start a deployment sub-process, read its output, time it out, stream its events | check, then await, then set; three tasks on one buffer; resumption | streams resume exactly; stderr before the outcome, nothing after it; every deployment ends |
| **Helpers** (`retry.py`, `metrics.py`, `__init__.py`) | none | -- | -- | -- |

Interaction: requests and scheduler share the global store on one event loop;
the scheduler calls the worker (`langgraph_api`, external), which calls back
`Runs.enter`, `Runs.Stream.publish` and `Threads.set_joint_status`, by default
on the same loop and with `BG_JOB_ISOLATED_LOOPS` from a loop on another thread;
`Runs.cancel` reaches a worker through the stream manager; the TTL loop uses
`Threads.delete` and the saver; the flush thread pickles whatever it finds.

## 2. How code becomes actions

An asyncio coroutine runs until it really suspends.  Most `await`s of this code
do not: an `async def` that only reads and writes the store runs through.  What
suspends is an auth handler (`Authenticated.handle_event` with a configured
handler), the `a`-methods of structlog (`logger.ainfo`, `awarning`), `sleep`,
`Queue.get`, `to_thread`, and a custom checkpointer.  An action is the code
between two such points, and what a handler read before a suspension is kept in
its client's record and used, stale or not, afterwards.

* **The scan.** Between `asyncio.sleep` and the return to `runners.wait()`,
  `Runs.next` and `queue()` suspend only in the "missing thread" warning.  So
  `sched.pc = "scan"` disables requests, callbacks and workers of the same loop
  (`LoopFree`), except workers on isolated loops.
* **Reports.**  On the scheduler's loop `set_joint_status` runs through.  A worker on a
  loop of its own shares the store with the other threads: its report writes the run
  (`ops.py:1370-1377`), computes the thread's status from the other runs (`1379-1382`) and
  writes it (`1393`) in three steps, and anything of the main loop may come between them.
  A segment of the main loop is still one step for the workers' threads; that is an
  assumption.
* **Thread objects are references.** `Runs.put` keeps the dict it fetched;
  `Threads.patch` replaces the list element by a deep copy.  A thread object
  therefore has a `key` which its copy does not share, and a write through an
  old key is lost (`WithStatus`).
* **Positions are stale.** `Threads.patch` and `Threads.delete` keep a list
  index across the auth handler.
* **Time is order.** `created_at` becomes a rank, 0 while it lies in the
  future; `now` becomes the rank reached (`horizon`).

What is assumed of code outside `src/` (the worker of `langgraph_api`): every graph run
that the queue starts ends, with one report or with the failure of that report; and a
task does nothing more for its run once it has reported. Report and end of the task are
two steps in RunQueue (`ending`): the run that a task has requeued may be dispatched
again beside it. RunControl requeues only after `Runs.enter` has been left, and shows
why that is needed: the "done" message of a block goes to *every* control queue of the
run, and would stop the next attempt if that had begun.

A crash in RunQueue is a death of the process just after a flush that saw a
consistent store; the restart finds that store.  What the flush thread writes and
when is the subject of Persistence, which counts the writes a file holds.

## 3. Modules

### RunQueue

| model | code |
|---|---|
| `stored`, `status`, `on`, `createdAt` | the objects of `store["runs"]`: presence, `status`, `thread_id`, `created_at` |
| `attempt` | the retry counter of each run |
| `threads`, `made` | `store["threads"]` in list order; identity of the next object |
| `free`, `live`, `ending` | tokens in `runners`; runs with a task that has still to report; tasks (run, attempt, where they are) that report or wind down and whose token is not back |
| `sched` | where `queue()` and `Runs.next` are: limit, `now`, the runs still to be looked at |
| `client` | a request suspended in its handler, with the thread, run and reference or position that it read |

| action | code |
|---|---|
| `PutFetch`, `PutInflight`, `PutInsert` | `Runs.put` up to its second suspension; then the inflight answer or the new run; the thread is created or marked busy through the fetched reference |
| `ComesDue` | the `created_at` of an `after_seconds` run passes |
| `CreateThread`, `PatchBegin/Commit`, `DeleteBegin/Commit` | `Threads.put`, `patch`, `delete` around their auth handler |
| `DeleteRun`, `Interrupt`, `RollbackBegin/Commit` | `Runs.delete`, the two ways of `Runs.cancel` |
| `NextStart`, `NextSelect`, `NextOrphan`, `NextWarned`, `NextSkip`, `Dispatch`, `NextEnd` | the loop of `queue()` and the body of `Runs.next`, one step per run looked at |
| `JointStatus`, `JointRollback`, `JointNotFound` | `Threads.set_joint_status` by the worker: all of it on the scheduler's loop, on a loop of its own up to the write of the run |
| `ReportComputes`, `ReportWrites` | the rest of it on a loop of its own: the thread's status computed, then written through the reference found at first |
| `SetStatus` | `Threads.set_status` after `State.post` or `State.bulk` |
| `Cleanup` | the end of the task and its done callback |
| `Crash` | restart on the flushed store |

`Runs.sweep` is empty in the code and has therefore no action of its own
(`NextEnd` covers its call).  Requests whose guard fails (404, 409) change
nothing and are not steps.

Between its removal of the runs and its pop, `Threads.delete` suspends only with
a custom checkpointer; RunQueue takes the built-in one, ThreadTTL has both.

### RunControl

One run, its attempts, its control key and queues, the listener of each attempt,
cancel requests whose messages are still to be sent (`outbox`), and subscribers.
`Enter`, `BlockEnds`, `SignalDone`, `Leave` are the segments of `Runs.enter`;
`Report`/`ReportFails` are `set_joint_status`; `Cancel`, `CancelSends`,
`CancelDeletes` are `Runs.cancel`, which gathers its messages and deletions at
the end; `ListenerStarts`, `ListenerHears`, `ListenerTimesOut` are
`listen_for_cancellation`; `Subscribe`, `Receive`, `TimesOut`, `Disconnect` are
`Runs.Stream.subscribe` and `join`.  A cancel that does not name the thread
(`keyed = FALSE`) puts its message under the thread-less key, where no queue of
this run is registered.  `Publish` is not bounded: a run publishes as long as it likes, and
`MaxPending` bounds only the messages that wait in the queue of one subscriber.  The
message stores, replay and thread streams are in StreamReplay.

### RunLifecycle

What the queue promises its callers: a run is submitted to a thread, started by one
worker while no other run of the thread is running, stopped (ended, requeued, rolled
back), cancelled, removed; a restart ends all execution. No thread objects, tokens,
scan, references or time. `RunQueue!Promise` is the refinement mapping: `phase` is the
status of a run, or "gone" once its object has left `store["runs"]`; `executing` is the
set of runs with a worker that has still to report. `Start` allows a run that is "gone":
the scan holds references, and one that was deleted while the scan was suspended is
dispatched from the stale list. Its worker finds no thread or no run to report to.

### StreamReplay

The runs of a thread publish resumable messages.  `Put` is `StreamManager.put`
(an id, the message store, every registered queue) and `put_thread`.  A reader is
a client of `Runs.Stream.join`: `Connect` is `subscribe`, which registers its queue
before anything else, then come the authorization, the replay over the *live* list of
`restore_messages`, and the queue.  A watcher is a client of
`Threads.Stream.join_event_streaming`: `WatchStarts` looks up and sorts all that is
to be replayed (`Restored`: by id, a run's own messages in order; of two runs' messages
in one millisecond either may be first), `WatchSubscribes` adds queues for runs it has
not seen, `WatchDrains` empties one queue after the other.  A message is its source and number;
its id is a millisecond that several may share, as in `_generate_ms_seq_id`.  `Put` stores
and queues a message in one step; in the code `gather` fills the queues an iteration of
the loop later (`inmem_stream.py:113-121`), but which queues those are is settled at the put,
and the loop delivers in the order of the puts.

### ThreadTTL

Threads with `updated_at`, active runs, the TTL records, one sweep and delete
requests.  `SweepBegin` is the selection (expired, not active, by expiry, the
first `Limit`), `NextBatch`/`Prune` the batches of keep_latest threads,
`MarkSwept` the record written back, `SweepDeletes`/`SweepPops` the
`Threads.delete` of an expired thread, `SweepFails` an exception, after which the
loop logs and waits.  With the built-in checkpointer (`custom = FALSE`) nothing
runs during a sweep; with a custom one everything may run at its two
suspensions.  `pruned` is a history variable: the `updated_at` for which a thread
was last pruned.

### CheckpointSaver

The three dictionaries of `InMemorySaver` as sets of records (`storage`, `writes`,
`blobs`), the size aggregates (`tracked` per thread, `total`), and writers: a run
or a state update loads a checkpoint (`Load`) and puts its own on top of it later
(`Put`), overwrites it (`PutAgain`) or adds writes (`PutWrites`), whatever has
happened to the history meanwhile.  `Prune` is `prune` with keep_latest,
`DeleteThread` `delete_thread`, `DeleteRun` `_delete_checkpoints_for_thread` with a
run, `Copy` the checkpoint part of `Threads.copy`, `Clear` is `clear`, `Restart` the construction of
the saver on the loaded files with `_rebuild_size_tracking`.  None of these
suspends, so each is one step.

A channel's value at a checkpoint is a blob, or "empty" for a delta channel that is to
be rebuilt from the writes of the ancestors. What a reader makes of it is the graph
library's business (external); `State` says what it has to go by, and `PruneKeepsState`
that this is the same after pruning. `HistoriesGrow` is the part of the inductive
invariant that makes `Lineage`, the chain of ancestors, well defined. Sizes are numbers:
a payload's serialization is not modelled, only that an entry's size is added when it is
stored and taken away with it.

### Assistants

Assistants in list order, their version records, crons, the scheduler of the crons
(external, from how it uses `Crons.next` and `set_next_run_date`), and requests
that are suspended between reading and writing: `Assistants.delete`
(`DeleteStart`, `DeleteFinish`) and `Crons.put` with a thread (`PutCronStart`,
`PutCronFinish`).  `Put`, `Patch`, `SetLatest`, `PutCron`, `DeleteCron` and the
updates of a cron (`Reschedule`, `RescheduleRejected`, `Switch`) are one step each.
`Restart` is the part of `start_pool` on assistants, followed by the putting of the
graphs' assistants; `Truncate` is `GlobalStore.clear`.  What a loop leaves of a list,
in the order of the list, is `Only(list, ids)`.  The cascade of
`Assistants.delete` to threads is `DeleteThread`, which may happen at any time.

### Deploy

`PostCheck` and `PostStart` are the two halves of `start_deploy`, between which the
request body and the sub-process are awaited, so that two requests may pass the
check.  Each operation keeps its status, exit code, buffer (`events`, `total`),
stderr tail, and where its three tasks are: the reader (`ReadLine`, `ReadEnd`,
`ReaderEnds`; `ReaderCloses` is the end of its `finally`), the drainer (`Drain`),
the watchdog (`TimesOut`, `GraceEnds`).  An exception while the drainer reads ends it (the
second half of `Drain`, `routes.py:109-111`).  A pipe is taken to end with its process; a
grandchild that holds it open is not modelled.  `Snapshot` is the arithmetic of absolute
ids on the rotating buffer; `Poll`, `Emit`, `EmitEnds`, `StreamEnds` are the
segments of the generator between its yields; `Connect` resumes from the id seen
last.  The sub-process is external (`Writes`, `Exits`, and the signals it gets).

### Persistence

Three files: `ops` (`GLOBAL_STORE`), `store` (the long-term store's data) and `ckpt`
(the saver's). A dictionary or file is the number of writes that it holds. `pc` walks
through import, replacement of the store, `start_pool` and `stop_pool`; `registry` is
`_stores`, a weak reference per file name that may name the dictionary in use, a closed
one, a temporary saver's, or one that is gone. The flush thread looks at a dictionary,
dumps it into a temporary file and renames that: `FlushBegins`, `Look` (the truth test;
`Held` is what passes it), `Dump`, `Rename`, `RenameFindsNoFile`, `Drop`, `FlushEnds`,
`FlushFails`. `CloseOldStore` and `OldStoreClosed` (or `CloseFindsNoFile`) are the
`close` of the store that `set_store_config` replaces: it dumps into a temporary file of
the same name (`scratch`), renames it, and clears the dictionary, which the flush thread
may hold at that moment ("retired"). The flush thread runs beside all of it. The
specification is `FilesSpec`, with fairness `FilesFairSpec`, so that Assistants and
Persistence can be extended by one module of proofs. `MakeTemporary` ... `DropTemporary`
is `Checkpointer()` with an unpack_hook.

### StoreTTL

Items, vectors, TTL records and the size tracker's keys; the operation lock; a
batch that is suspended for an embedding under the lock (`BeginPut`/`FinishPut`,
`BeginSearch`/`FinishSearch`, `BatchFails`), `Get` and `Delete`, which do not
suspend; `BatchedStore.batch` on threads, without the lock and in steps
(`ThreadPut`, `ThreadDelete`, `ThreadGet`, `ThreadSearch`, `ThreadReads`, `ThreadWrites`,
`ThreadTracks`); the sweep, item by
item; the three files, each flushed by itself; restarts on files of different ages
(`Crash`) or on those that `close` wrote (`Stop`), which drop orphaned records.
`promised`, `given` and `raced` are history variables.

### Naming

An operator `X_Y` just before `X` is `X` with a plausible defect, used only to
show that a property can fail (`PROJECT.json`, "mutants").  `MC*` modules hold
the values that a `.cfg` cannot express.

## 4. Runs and bounds

| run | instance | shows |
|---|---|---|
| `queue_hazards` | 2 runs, 2 threads, 2 requests, 2 tokens, 2 attempts, 2 thread objects, 1 restart with nothing put or deleted after it, isolated loops, one run that is removed; put, create, thread deletion, interrupt | `OneRunningPerThread`, `TokensConserved`, `TokensCoverScan`, `OneTaskPerAttempt`, `SettledIsFinal`, and that RunQueue implements RunLifecycle (`KeepsPromise`) |
| `queue_steady` | 3 runs, 2 threads, 1 request, 2 tokens, 2 attempts, shared loops, one run that is removed; put (with creation), delay, patch, run deletion, rollback, state update | `RunningHasWorker`, `ActiveKeepsThreadBusy`, `FifoPerThread` |
| `queue_live` | 3 runs, 2 threads, 1 request, 2 tokens, shared loops; put, create; fair | `DueRunLeavesQueue` |
| `queue_delete` | the smallest instance that shows it | a violation, section 7 |
| `control` | 2 attempts, 1 subscriber, 2 cancels of either kind, 1 time-out, any number of events of which 2 may wait; fair | `TypeOK`, `RetryIsNotStopped`, `CancellationIsKept`, `JoinEnds` |
| `thread_ttl` | 3 threads, 1 delete request, limit 2, batches of 2, clock 0..3, a configured policy and two overrides, both kinds of checkpointer; fair | `TTLInv` (types, no thread listed twice, what a sweep rests on), `ActiveIsSpared`, `PrunedOnce`, `ExpiredIsSwept` |
| `checkpoints` | 3 checkpoints, 2 channels, 1 writer, 1 group of writes, a thread and its copy, 2 other steps (overwrite, prune, delete, copy, clear, restart) | `TypeOK`, `SizesAgree`, `PruneKeepsState`, `CopyHasState`, `StaysWhole` |
| `assistants` | 1 client's and 1 system assistant, 2 versions, 1 cron, 1 thread, 2 zones, 1 suspended request, 1 restart or truncation | `AssistantsInv` (types, `VersionsAreNumbered`, `AssistantIsItsVersion`), `NoCronLeftBehind`, `DateFollowsPlan` |
| `deploy` | 2 POSTs, 1 client, 2 operations, 1 line of output, a buffer of 2 and a stderr tail of 1 | `ResumesExactly`, `StderrComesBeforeStatus`, `RunningIsBounded`, `NothingAfterTheEnd` |
| `persistence` | 3 files, 2 writes, 2 starts, all operations; fair | `CleanStopSaves`, `SavedStaysSaved`, `OpsAreFlushed` |
| `streams` | 2 runs, 1 reader, 1 watcher, 3 messages of a run (2 and 1 of the thread for the watcher), 2 milliseconds | `ReplayInv` (types, growing ids, no gaps), `EventsArrive`, `NewInOrder`, `ThreadInOrder` |
| `store` | 2 keys, 1 suspended batch, 1 thread, TTLs 0 and 2, clock 0..3, 2 operations, 1 restart; fair | `StoreInv` (types, `SearchIsCurrent`, `NothingLeftBehind`, `RecordsArePromises`, `RecordsAreGiven`), `NotSweptEarly`, `ExpiredIsSwept` |

Why these bounds are enough.  The queue: mutual exclusion involves two runs of
one thread; a lost token shows with two tokens, since `TokensConserved` is an
equation; a stale list or position needs two requests or one request and the
scheduler; overtaking needs a third run beside the one that is passed and the one
that blocks; starvation by the cut-off of the scan needs more pending runs than
tokens, hence three runs and two tokens; a run that is removed while another overtakes or
blocks a third takes one removal; a restart is met by runs, tokens and tasks in every
state that the requests before it have left; a retry beside the task that asked for it takes
two attempts and two tokens.  Control: the second attempt is what may
meet the first one's messages; a third meets nothing new, as each enters with a
queue of its own.  TTL: three threads and a limit of two make the limit cut; the
clock lets a thread expire, be updated and expire again.  Checkpoints: two channels
whose last values lie at different checkpoints take three checkpoints, and so do a
fork and a walk that ends at a pruned parent; the second step of maintenance meets
what the first one left.  Threads share only the totals, so one that is written to
and one that holds the copy are enough.  Assistants: to number a version twice it
takes a patch, a `set_latest` and a patch; the cron is put, moved and removed at
every point of the deletion of its assistant and of the scheduler's turn.

Deployments: operations do not share anything but `_current_op`; one line, on
either pipe, together with the two messages of the watchdog, overflows the buffer of
two, and a client that resumes at every id meets every cut.  Files: the second start
meets what any point of the first left; two writes tell an old dump from a newer
one.  Streams: the reader's and the watcher's parts do not touch each other, so a
behaviour has one of the two (constraint `OneKind` in MCStreamReplay); three
messages in two milliseconds have two that share an id before or after a third, and a
done message between two events.  Store: there is one suspended batch, since the lock
admits one; two operations of any kind meet each other, a sweep, a thread and a
restart.  For the theorems of section 6 bounds carry no weight.

Operations are switched by `Ops` in RunQueue and Persistence. Two of the properties of
`queue_steady` state in their comments what they presuppose, and that run leaves out
what would break the presupposition: deleting a thread beneath its running run,
interrupting a pending run (which sets its thread idle although another of its runs may
be active, `ops.py:3168`), a crash, workers on loops of their own (one writes the status
that it computed before a put over the mark of that put, `ops.py:1393`), and requests
that overlap (a patch between the second suspension of `Runs.put` and its write replaces
the object that the put marks busy, `ops.py:2845`). `queue_hazards` has no delay, patch,
rollback or run deletion, and `queue_steady` no thread deletion, which keeps each small;
between them every action is taken, and the refinement is *proved* for all operations
together.

Some properties name the steps that may break what they are about, and the
exceptions are real.  `StaysWhole`: deleting a run's checkpoints takes away ancestors
of later deltas, and a writer whose base was pruned puts a checkpoint without its
history.  `DateFollowsPlan`: the scheduler writes back a date of the schedule it
copied.  `CancellationIsKept`: a subscription.  `EventsArrive` and `NewInOrder`:
messages of one millisecond.  `ResumesExactly`: a buffer that has rotated.
`SavedStaysSaved`: a file that the start cannot read, and for the store's file a flush that
dumps a dictionary closed after the flush had looked at it (`DumpsRetired`).  `JoinEnds`: a
worker that publishes for ever.  `NotSweptEarly`: once a thread
has called `batch`, an item whose value is newer than its record may go with it, but
never one that no put gave a TTL.

Deadlock is checked except in RunControl, CheckpointSaver and Persistence.  In the
first, one run that has ended, with its subscribers gone and the bounds used up, is a
state in which the system stops; in the second, the bounds leave nothing to do; in the
third, a process that is down may stay down.

## 5. Fairness

* RunQueue: weak fairness of the scheduler (its loop never waits for anything but
  a token, and `runners.wait` is woken when one is put) and of `ComesDue` (time
  passes).  Strong fairness of `WindDown` (the rest of a report, and `Cleanup`) and of the report of
  each worker: they are
  disabled during every scan but enabled again after it, and asyncio serves its
  ready queue in order, so a callback is not passed over for ever.  That every
  graph run ends is an assumption about user code; without it nothing can be said
  about the runs queued behind it.  No request is fair.
* RunControl: the listener's start and its wake-up, the sending half of a cancel,
  and a joiner's loop are tasks that are ready.  The graph run is *not* fair: it
  may last for ever, and publish for ever.  `JoinEnds` says that a joiner of a run that is
  over ends, or that `Publish` happens again and again.
* ThreadTTL: the sweep loop is fair; failures, requests and the clock are not.
* Persistence: the flush thread, which the operating system runs as long as it
  lives.  Nothing else: `OpsAreFlushed` excepts a stop, a crash and the exception that
  ends the thread.
* StoreTTL: the sweeper's loop and the threads; a suspended batch ends, because its
  embedding is computed or fails (an assumption about user code).  `SweepBegins` is
  strongly fair: the lock may be taken again and again, but an `asyncio.Lock` serves
  its waiters in order.
* StreamReplay and Deploy have no liveness property: a client may read as slowly as
  it likes, and a generator is suspended while it does.

`JoinEnds`, `DueRunLeavesQueue`, `OpsAreFlushed` and both `ExpiredIsSwept` hold as
leads-to under these; that of ThreadTTL with the built-in checkpointer (a custom one
may fail in each sweep).

## 6. Proofs

All constants are arbitrary within the named assumptions of the modules: any
(finite) set of runs, any threads, requests, clients, subscribers, keys, channels,
any number of tokens, attempts, lines, messages, writes and restarts, any sizes, any
subset of the operations.  Three theorems about the queue have hypotheses; they are
stated below, with the reason.

| module | theorem | statement |
|---|---|---|
| `RunQueueProofs` | `QueueInvariant` | `Spec => []QueueInv` |
| | `TypeCorrect`, `OneTaskForEachAttempt` | `Spec => []TypeOK`, `Spec => []OneTaskPerAttempt` |
| | `MutualExclusionOfRuns` | `Spec => []OneRunningPerThread` |
| | `TokenConservation`, `TokensSuffice` | `Spec => []TokensConserved`, `Spec => []TokensCoverScan` |
| | `FinishedStaysFinished` | `Spec => SettledIsFinal` |
| | `QueueKeepsPromise` | `Spec => KeepsPromise`, which is `Promise!LifeSpec` |
| | `WorkersRemain` | `Spec => []RunningHasWorker`, without deletion of threads and without a crash |
| | `OldestStartsFirst` | `Spec => FifoPerThread`, without deletion of threads and isolated loops |
| | `BusyWhileActive` | `Spec => []ActiveKeepsThreadBusy`, for shared loops, one client, without interrupts, with one way to create threads |
| `RunControlProofs` | `ControlInvariant` | `Spec => []ControlInv` |
| | `TypesOfControl` | `Spec => []TypeOK` |
| | `RetriesRun`, `CancellationsStay` | `Spec => []RetryIsNotStopped`, `Spec => CancellationIsKept` |
| `StreamReplayProofs` | `ReplayInvariant` | `Spec => []ReplayInv` |
| | `AllEventsArrive`, `EventsInOrder` | `Spec => []EventsArrive`, `Spec => NewInOrder` |
| | `WatchInvariant`, `ThreadsInOrder` | `Spec => []WatchInv`, `Spec => []ThreadInOrder` |
| `ThreadTTLProofs` | `TTLInvariant` | `Spec => []TTLInv` |
| | `ActiveThreadsSpared`, `PruneOnce` | `Spec => ActiveIsSpared`, `Spec => PrunedOnce` |
| `CheckpointSaverProofs` | `TypesHold`, `SizesNeverDrift` | `Spec => []TypeOK`, `Spec => []SizesAgree` |
| | `HistoriesOnlyGrow`, `PruningKeepsState` | `Spec => []HistoriesGrow`, `Spec => PruneKeepsState` |
| | `CopiesHaveState`, `StatesStayWhole` | `Spec => CopyHasState`, `Spec => StaysWhole` |
| `StoreTTLProofs` | `StoreInvariant`, `SweptInTime` | `Spec => []StoreInv`, `Spec => NotSweptEarly` |
| `DeployProofs` | `DeployInvariant` | `Spec => []DeployInv` |
| | `DeploymentsEnd`, `StderrFirst` | `Spec => []RunningIsBounded`, `Spec => []StderrComesBeforeStatus` |
| | `TerminalIsLast`, `StreamsResumeExactly` | `Spec => NothingAfterTheEnd`, `Spec => []ResumesExactly` |
| `DurableProofs` (files) | `FilesInvariant` | `FilesSpec => []FilesInv` |
| | `StopSaves`, `SavedIsKept` | `FilesSpec => []CleanStopSaves`, `FilesSpec => SavedStaysSaved` |
| `DurableProofs` (assistants) | `AssistantsInductive`, `AssistantsInvariant` | `Spec => []AllInv`, `Spec => []AssistantsInv` |
| | `CronsGoToo`, `DatesFollowPlans` | `Spec => NoCronLeftBehind`, `Spec => DateFollowsPlan` |

Each inductive invariant was first checked by TLC on the instance of its component.

**Run queue.**  The argument is one inductive invariant:

    QueueInv == TypeOK /\ OneRunningPerThread /\ Lifecycle /\ CreationOrder
                  /\ TokensConserved /\ TokensCoverScan /\ AttemptsGrow

* `OneRunningPerThread` alone is not inductive: `PutInsert` adds a run to the
  store, and nothing would exclude that the run is already running or has a
  worker.  `Lifecycle` says that a run not yet in the store has no trace
  elsewhere.
* `TokensCoverScan` needs that a selection has at most `limit` members.  That is
  lemma `OldestBound`: the map from a selected run to the number of older ones
  is an injection into `0..limit-1`, provided `created_at` tells runs apart, which is
  `CreationOrder`.  From the selection on, each `Dispatch` spends one token and one
  member of the list, and `Cleanup` only adds tokens.
* `Dispatch` must find the run neither live (or the token count would be off by
  one, since `live` is a set) nor out of attempts: the second half of `Lifecycle`.  A task
  of the run may still be winding down; `AttemptsGrow` says that no task has an attempt
  above the run's counter, and the dispatch counts it up, so that the two are tasks of
  different attempts (`OneTaskPerAttempt`) and two elements of `ending` when both wind down.
* `SettledIsFinal` is an action property that follows from `QueueInv` step by step:
  only the worker of a live run and a cancellation of an active one write a
  status, and `Dispatch` re-checks `"pending"`.

The proof has one lemma per action or group of actions that disturb the same
conjuncts, and three frame lemmas (`RunsFrame`, `PoolFrame`, `RemovalFrame`) for
the others.

**Order, workers and busy threads.**  Three further invariants, each proved beside
`QueueInv`.  Their hypotheses exclude steps of the code that break what is claimed
(sections 4 and 7); an instance that satisfies all of them is `queue_steady`.

* `OldestStartsFirst` rests on `OlderGoFirst`: during a scan, of the runs of a thread
  that are older than one still to be examined, each is still to be examined too, or the
  thread has a running run.  Hypotheses: no thread is deleted (the warning about a missing
  thread suspends the scan with an old list), and workers run on the scheduler's loop
  (one on a loop of its own may end its run in the middle of a scan, and a later run
  starts although an older one of its thread has just been passed over).
* `WorkersRemain` needs only that stored runs are on known threads (`KnownThreads`), so
  that no report fails for want of one.  Hypotheses: no thread is deleted (its worker's
  report fails), and no crash (a run flushed as running has no worker afterwards).
* `BusyWhileActive` rests on `ReferencesHold`: a thread id and a key name one object, and
  the reference or position that a suspended request holds is still that of its thread.
  Hypotheses: workers on the scheduler's loop, since one on a loop of
  its own may write an "idle" that a put has made untrue; one client, so that no patch
  replaces the object which a put has fetched;
  no interrupt of a pending run, which writes "idle" on a thread whose other run may be
  active; and not both ways of creating a thread, since one that `Threads.put` creates
  while a put with `if_not_exists` is suspended is created again, as a second object of
  its id.  Deletion of threads and crashes are included.

**Refinement.**  Under `QueueInv`, each action of RunQueue maps to one action of
RunLifecycle or to a stutter: `PutInsert` to `Submit`, `Dispatch` to `Start` (the
guard `~Blocked` is the abstract one, because the mapped phase is "running" only for
stored runs), the three reports of a worker to `Stop`, `Interrupt` to `Cancel`, the
deletions to `Remove`, `Crash` to `Restart`; everything else leaves phase, thread and
workers alone.

**Run control.**  `ControlInv` adds to the types that a new attempt starts only after
the former one has left its block and reported (`OneAttempt`), that a done message is
in the queue of no attempt that still executes (`DoneMeansEnded`, the heart of
`RetryIsNotStopped`), and that a listener which is over has said what it heard
(`ListenerSays`, without which a time-out could swallow a cancellation).  A subscriber
takes over what is in the control queues, one after the other (`FlattenSeq`, a recursive
function): that the result is a sequence of messages is `FlattenType`.

**Streams of runs.**  `ReplayInv` says that a reader has no gap: whatever lies between
what its client resumed from and the latest message it has, it has (or the message is a
done, or shares its millisecond with an earlier one it has: `Accounted`), and what is
still to come begins where that ends.  The queue of a connection is the tail of its
stream, because it is registered before the replay begins; ids grow with the numbers
(`IdsGrow`), so that the replay, which compares ids with a cursor, passes over nothing
but what the client has and events of that millisecond.  When the replay runs off the
end of the live list, it has therefore reached the beginning of the queue.

**Streams of threads.**  `WatchInv` says of a watcher that what it has still to be
replayed of a run comes after all it was told of that run (`Ahead`), and that a queue holds
the end of its source while what lies between the subscription and that end has been told
(`UpTo`).  Two facts keep this true: no source has a second queue, which is what
`seen_runs` is for (a source told from two queues would be told out of order); and
queues exist only when the replay is over, so that a message is never both in a queue and
still to be replayed.

**Thread TTL.**  With the built-in checkpointer no request runs during a sweep, so what
the sweep read stays true (`SweepIsCurrent`): its threads are inactive and not updated,
their policies are those of the records, and the position found for a deletion is that
of the thread.  Between the removal of the checkpoints and the write of the record a
thread is pruned but not recorded; `PrunesAreRecorded` says that this is so only for the
batch at hand.  Types and the absence of repetitions in the list hold for a custom
checkpointer too, with stale positions.

**Store.**  `TypeOK` says who holds the lock, which keeps a suspended batch and a sweep
apart; as long as no thread has called `batch`, what a record says is what was promised
(`RecordsArePromises`), and what a sweep has still to remove has expired.  Threads break
that, but not `RecordsAreGiven`: a record, in memory, in a file or in a thread's hands,
goes back to a put with a TTL.

**Sizes.**  `Bytes(S)` is a sum over a set, which no prover here has an induction for.
It is defined as the cardinality of a set of units, one per byte of each entry; what is
added and what is taken away is then counted by the theorems on the cardinality of
unions, differences and bijections.  Every operation changes one thread (`OneThread`), so
that the total moves by what that thread's estimate does, and cutting the estimate off at
zero (`max(0, ...)`) never cuts anything.

**Histories.**  The state of a checkpoint is found along its lineage, a function defined
by recursion on the ids.  `HistoriesGrow` says why there is exactly one such function
(a parent has a smaller id) and what else the walk needs:

* a child has a version of each channel its parent has one of.  So below a checkpoint that
  names no version of a channel there is no value of it either, and pruning may stop
  looking there;
* a blob's version is no newer than the newest checkpoint, so that a put never gives an
  existing version a second value;
* the versions a writer goes on from are those of its base, as long as that is stored.

Pruning keeps, of the newest checkpoint's lineage, the part from the nearest value of every
channel upwards (`KeptLine`, `UpCut`): a walk that looks for a value ends in it
(`RebuiltFromKept`).  A copy maps each checkpoint to one whose lineage is the image of the
original's (`UpMirrored`, `CopyState`).  A put adds one checkpoint on top of a lineage
(`UpOnTop`).  The steps `StaysWhole` names as exceptions are those that break the
lineage below a value.

**Deployments.**  `DeployInv` adds `EndsInOrder`: the reader, which alone assigns the
final status, does so when the drainer is done and the watchdog is, or is being
cancelled; hence no task is left that could append.  The buffer lemmas
(`BoundedType` and those after it) say what a deque with a maximal length keeps.

For the clients of a stream `StreamsInOrder` joins what a client has been sent and what
its generator has still to hand over into one sequence.  That sequence goes up by ids
(one by one while the buffer is whole: `OneByOne`) and ends where the next snapshot
begins (`EndsAt`): at the cursor while the generator sleeps, at the total it saw while it
emits.  `SnapshotExtends` is the step: a snapshot from there continues the sequence, for
every total and after every rotation.  A resumption starts from the id of the last event
sent, which is the end of what was sent before.

**Files.**  `FilesInv` compares what is loaded, what is being dumped and what is on
disk: a dictionary that is registered is not behind its file once it is loaded
(`LoadedCoversDisk`); a dump that waits in a temporary file for its rename is between file
and dictionary, unless it is of a dictionary that was closed meanwhile
(`DumpCoversDisk`); no pass is under way during a stop (`QuietStop`); and during a
stop what it began with is in memory or in the file (`StopKeeps`).  A pass that holds a
closed dictionary can only be one of the store: nothing else is closed beside the flush
thread.

**Assistants and crons.**  Lists lose and gain members in the middle, so that positions say
nothing.  `SameRecords(new, old, id)` says that two lists hold the same records of one
assistant, at whatever places.  Each operation changes the records of one assistant and
leaves those of every other the same; for the one, the new list is computed: a patch adds
version `max + 1` to versions that are `1..n` (`Numbered`) and sets the assistant to it
(`Described`), a deletion leaves none.  A start removes only system assistants, and the
loop that passes over every second one (`Remaining`) has therefore nothing to say about a
client's.  `NoCronLeftBehind` and `DateFollowsPlan` are steps of the same operations, with
what a suspended request and the scheduler hold in their hands (`HandIsKnown`).

**Recursion.**  `FlattenSeq` and `Lineage` are recursive functions.  The library's
induction theorems take an operator as a parameter, which no prover here can instantiate;
what is claimed of *every* argument is proved instead from the least element of the set
of counterexamples (`WFMin` of WellFoundedInduction, for the relation `<` on the natural
numbers), which is a set like any other.

Every invariant and every action property of a passing run is stated by one of these
theorems, three of them under the hypotheses given above.

Only model-checked:

* all liveness (`DueRunLeavesQueue`, `JoinEnds`, `OpsAreFlushed`, both `ExpiredIsSwept`),
  which is beyond the prover.

## 7. Where code and documentation disagree

One is a run that TLC ends with a counterexample (`PROJECT.json` quotes the lines):

* `queue_delete` -- `Threads.delete` pops the position that it found before its
  auth handler.  After another deletion a different thread goes.

The others shape the models and the exceptions of properties:

* `Runs.cancel` writes "interrupted" on a *running* run, although its docstring leaves
  that to the worker (`ops.py:3050`, `3170`).  `Runs.next` looks for status "running"
  only, so the next run of the thread is dispatched while the cancelled worker winds
  down: two workers on one thread.  `RunLifecycle!Cancel` therefore leaves
  `executing` alone.
* With `BG_JOB_ISOLATED_LOOPS` a worker's report computes "idle" (`ops.py:1379-1382`) and
  writes it (`1393`) over the "busy" of a `Runs.put` in between; the thread shows idle until
  the new run's report.  `ActiveKeepsThreadBusy` is about shared loops.
* `Runs.Stream.join` looks whether the run is over only after half a second without a
  message (`ops.py:3350-3398`).  An interrupted run whose worker never heard of it (a cancel
  without the thread, `3151`) and goes on publishing keeps its joiners; `JoinEnds` names
  that.
* `Runs.sweep` ("Sweep runs that are no longer running") is `pass` (`ops.py:2717`): a
  run flushed as running blocks its thread for good after a restart.
* A subscriber that arrives between the cancel message and the listener takes the
  message out of the worker's control queue (`ops.py:3292`); `CancellationIsKept`
  excepts `Subscribe`.
* "Does not prune a thread while it has a pending or running run" (`src/README.md:20`)
  fails when a custom checkpointer lets a run be put between two batches
  (`ops.py:1753`); `ActiveIsSpared` is about the set that the sweep computed.  A policy that
  an override sets meanwhile is lost when the record is written back (`1769`).
* "Periodic flushing for all PersistentDict stores" (`_persistence.py:1`): the loop takes
  an empty dictionary for one that was collected and drops it from the registry
  (`56`).  A store or saver that is empty when the first pass comes is not flushed
  again until the stop; a crash loses all of it.  The same happens to MEMORY's
  dictionaries after a read with an unpack_hook, whose saver takes their place
  (`checkpoint.py:662`).  `OpsAreFlushed` holds for `GLOBAL_STORE`, which is never empty;
  `CleanStopSaves` holds for all.
* The flush thread tests a dictionary (`_persistence.py:56`) and then dumps it (`57`).
  `set_store_config` may close the store in between (`store.py:435`), which saves and clears
  it: the emptied dictionary is then dumped over the file.  Both use one temporary file; if
  the flush renames it first, `close` fails and with it the start, and the other way round
  the flush thread ends.  `SavedStaysSaved` excepts the first for the store's file, and
  nothing else of the kind.

## 8. What is not modelled

* Auth filters (`_check_filter_match`, `is_jsonb_contained`) are pure functions; thread
  search, count and state reads change nothing.
* Auth decisions: a handler is a point of suspension, its refusal is a request that
  does not happen.
* Stream-mode filters and the stream codec; `start_stream` and `stop_stream`, at whose
  time the process starts or ends.  In Deploy, lines of JSON without a message, which
  leave no event.
* In the store, batches of several operations, namespaces, the values of items and
  vectors, and the start and stop of the sweeper's task: a sweep may happen at any time.
* In `Threads.copy` the thread record and its TTL record (only checkpoints are), in
  `Threads.prune` the access check; stateless run clean-up by the worker; a custom
  checkpointer except where ThreadTTL has one.
* Of the files: `/internal/truncate`, a route for tests, which removes the ops file
  (`database.py:155`) and the checkpointer's (`checkpoint.py:396`) and leaves `GLOBAL_STORE`
  empty for a moment (`database.py:97`).  It is `Truncate` in Assistants and `Clear` in
  CheckpointSaver, there as one step though `clear` runs in a thread.  A dump is one step: a
  crash in two dumps into one temporary file that overlap may leave a torn file.
* A grandchild that keeps a deployment's pipe open after the process has ended.
* Shutdown of `queue()`: cancellation of the workers and the wait for them.  The start
  of the services of `langgraph_api` in `lifespan`.
* The handler of unexpected exceptions in the scheduler's loop, which calls
  `exit.aclose()` (`queue.py:255`), an attribute the builtin does not have; RunQueue shows
  that the one exception the queue could cause by itself (`QueueEmpty`) does not occur.
* Noted while reading, and not the subject of a run:
  - `start_pool` removes system assistants from the list over which it iterates
    (`database.py:199`), so that of two adjacent ones the second is kept.  The model
    has the loop as it is (`Remaining`).  The version records of the removed ones
    stay, and get a second version 1 when the assistant is put again;
    `VersionsAreNumbered` therefore speaks of clients' assistants.
  - `set_latest` restores neither `graph_id` nor `context` (`ops.py:723`), though
    `put` and `patch` "keep config and context up to date with one another".  The
    model has it (`Recorded`); `AssistantIsItsVersion` leaves these two aside.
  - After `GlobalStore.clear`, `patch` of a system assistant fails in `max()` as soon
    as another assistant has a version (`ops.py:539`).
  - `Crons.put` with a thread may append a cron for an assistant that was deleted
    while it was suspended (`ops.py:3612`).
  - `prune` passes over a thread without entries in storage: writes and blobs that
    `Runs.delete` left behind stay until the thread is deleted (`checkpoint.py:433`).
  - The storage of a copied thread is a plain dict after its trip through JSON
    (`ops.py:1616`, `851`); whether a new namespace can be put there is up to the base class.
  - A subscriber that comes after the "done" message is not told: `subscribe` reads the
    control queues and not the control key (`ops.py:3277`); its time-out ends the wait.
  - The listener gives up after 240 seconds without a message (`ops.py:3478`); a run that
    takes longer can no longer be cancelled.
  - What runs publish between a thread watcher's look into the message stores and its
    subscription never reaches it (`ops.py:2316`, `2362`).
  - A thread watcher that leaves looks for its thread queue among the queues of runs
    (`ops.py:2447`, `inmem_stream.py:178`): it stays in `thread_streams` and goes on filling.
  - The clean-up after an unreadable ops file removes the retry counter's file too, and
    fails if there is none (`database.py:189`).
  - The loop of `stop_stream` that is to send "done" iterates over the run ids of a
    thread where it means their queues, and swallows the exception (`inmem_stream.py:255`).

## 9. Plan

What remains, in order of importance:

| subject | content |
|---|---|
| `RunQueue` | `ActiveKeepsThreadBusy` for overlapping requests, as far as it holds |
| `RunControl` | subscribers of several runs; shutdown of `queue()` |
