------------------------------ MODULE RunQueue ------------------------------
(***************************************************************************)
(* The run queue of the in-memory runtime: store["runs"], store["threads"] *)
(* and the scheduler loop of queue.py that turns pending runs into worker  *)
(* tasks.                                                                  *)
(*                                                                         *)
(* All code runs on asyncio, so a handler is atomic between two points     *)
(* where it really suspends (an auth handler, a structlog a-method, a      *)
(* sleep).  Each action below is one such segment.  A client whose handler *)
(* is suspended keeps what it read in client[c].  While the scheduler is   *)
(* inside the body of Runs.next (sched.pc = "scan") nothing else runs on   *)
(* the loop; with BG_JOB_ISOLATED_LOOPS workers have threads of their own  *)
(* (Isolated): they may still move, and whatever runs on the loop may come *)
(* between the reads and writes of their reports.                          *)
(*                                                                         *)
(* Time is logical: clock counts the runs whose created_at has passed and  *)
(* createdAt[r] is r's place in that order, 0 while created_at lies in the *)
(* future (after_seconds).                                                 *)
(***************************************************************************)
EXTENDS Integers, Sequences, SequencesExt, FiniteSets

CONSTANTS
  Runs,         \* run ids
  Threads,      \* thread ids
  Clients,      \* API requests that can be in progress together
  None,         \* absent thread or run in a client's locals
  Concurrency,  \* N_JOBS_PER_WORKER, the number of runner tokens
  MaxAttempts,  \* attempts after which the worker stops asking for a retry
  MaxObjects,   \* bound: thread objects ever created
  MaxCrashes,   \* bound: process crashes
  Isolated,     \* BG_JOB_ISOLATED_LOOPS
  Ops           \* API operations the clients of this instance call

ASSUME RunsAssumption == IsFiniteSet(Runs)
ASSUME NoneAssumption == None \notin Runs /\ None \notin Threads
ASSUME NumberAssumption ==
  /\ Concurrency \in Nat \ {0}
  /\ MaxAttempts \in Nat \ {0}
  /\ MaxObjects \in Nat
  /\ MaxCrashes \in Nat
ASSUME SwitchAssumption == Isolated \in BOOLEAN

VARIABLES
  stored,     \* runs whose object is in store["runs"]
  status,     \* the status field of each run object
  on,         \* the thread id of each run
  createdAt,  \* the logical created_at of each run
  attempt,    \* the retry counter of each run
  clock,      \* number of created_at times that have passed
  threads,    \* store["threads"]: the list of thread objects
  made,       \* thread objects made so far; the next one gets key made + 1
  free,       \* tokens in the queue `runners`
  live,       \* runs a worker task is executing, which has not reported yet
  ending,     \* worker tasks that report or wind down; their token is not back yet
  sched,      \* the scheduler loop
  client,     \* the suspended handler of each client
  crashes     \* crashes so far

runVars == <<stored, status, on, createdAt, attempt, clock>>
threadVars == <<threads, made>>
poolVars == <<free, live, ending>>
vars == <<runVars, threadVars, poolVars, sched, client, crashes>>

-----------------------------------------------------------------------------
(* Types *)

(* "done" stands for success, error and timeout, "idle" for a thread status  *)
(* other than busy: no code of the queue tells them apart.                   *)

Active == {"pending", "running"}
Finished == {"done", "interrupted"}
RunStatus == Active \cup Finished
ThreadStatus == {"idle", "busy"}
ThreadObject == [id : Threads, key : Nat, status : ThreadStatus]

SchedState ==
  [pc : {"wait", "sleep", "scan", "warn"}, limit : Nat, horizon : Nat,
   todo : SUBSET Runs]

\* A task after it has written the status of its run (or found none): it still has to
\* compute the status of the thread it found, or to write the one it computed, or it
\* has left the store alone for good.
Task ==
  [run : Runs, attempt : 0..MaxAttempts, pc : {"compute", "left"} \cup ThreadStatus, ref : Nat]

ClientState ==
  [pc : {"idle"}, thread : {None}, run : {None}, ref : {0}] \cup
  [pc : {"put", "patch", "delete"}, thread : Threads, run : {None}, ref : Nat] \cup
  [pc : {"rollback"}, thread : {None}, run : Runs, ref : {0}]

TypeOK ==
  /\ stored \in SUBSET Runs
  /\ status \in [Runs -> RunStatus \cup {"unborn"}]
  /\ on \in [Runs -> Threads \cup {None}]
  /\ createdAt \in [Runs -> Nat]
  /\ attempt \in [Runs -> 0..MaxAttempts]
  /\ clock \in Nat
  /\ threads \in Seq(ThreadObject)
  /\ made \in Nat
  /\ free \in 0..Concurrency
  /\ live \in SUBSET Runs
  /\ ending \in SUBSET Task /\ IsFiniteSet(ending)
  /\ sched \in SchedState
  /\ client \in [Clients -> ClientState]
  /\ crashes \in 0..MaxCrashes

-----------------------------------------------------------------------------
(* Reading the store.  An operator whose name has the form X_Y, placed just  *)
(* before X, is X with a plausible defect; it is never used by the model.    *)

\* next((t for t in store["threads"] if t["thread_id"] == t), None) finds the
\* object at position i, the first with that id; Known(t) when there is one.
FoundAt(t, i) ==
  /\ i \in DOMAIN threads
  /\ threads[i].id = t
  /\ \A j \in 1..(i - 1) : threads[j].id # t
Known(t) == \E i \in DOMAIN threads : threads[i].id = t

\* The runs of thread t that are pending or running.
ActiveOn(t) == {r \in stored : on[r] = t /\ status[r] \in Active}

\* A run of thread t is running: the check of Runs.next before it dispatches.
Blocked_Unchecked(t) == FALSE
Blocked(t) == \E r \in stored : on[r] = t /\ status[r] = "running"

\* The event loop is free for a handler, a callback or a worker.
LoopFree == sched.pc # "scan"

\* Write a status through a reference to a thread object.  An object that was
\* popped or replaced in the meantime is no longer in the list, and the write
\* is lost with it.
WithStatus(list, key, s) ==
  [i \in DOMAIN list |->
     IF list[i].key = key THEN [list[i] EXCEPT !.status = s] ELSE list[i]]

IdleClient == [pc |-> "idle", thread |-> None, run |-> None, ref |-> 0]
IdleSched == [pc |-> "wait", limit |-> 0, horizon |-> 0, todo |-> {}]

Suspend(c, pc, t, r, ref) ==
  client' = [client EXCEPT ![c] =
               [pc |-> pc, thread |-> t, run |-> r, ref |-> ref]]
Return(c) == client' = [client EXCEPT ![c] = IdleClient]

Init ==
  /\ stored = {}
  /\ status = [r \in Runs |-> "unborn"]
  /\ on = [r \in Runs |-> None]
  /\ createdAt = [r \in Runs |-> 0]
  /\ attempt = [r \in Runs |-> 0]
  /\ clock = 0
  /\ threads = <<>>
  /\ made = 0
  /\ free = Concurrency
  /\ live = {}
  /\ ending = {}
  /\ sched = IdleSched
  /\ client = [c \in Clients |-> IdleClient]
  /\ crashes = 0

-----------------------------------------------------------------------------
(* Runs.put.  The thread is re-fetched after the create_run handler, then    *)
(* the assistant read handler or the "Creating thread" log line suspends the *)
(* request again: what was fetched is used when it resumes.                  *)

PutFetch(c, t) ==
  /\ "put" \in Ops /\ LoopFree
  /\ client[c].pc = "idle"
  /\ \/ \E i \in DOMAIN threads :
          FoundAt(t, i) /\ Suspend(c, "put", t, None, threads[i].key)
     \/ ~Known(t) /\ "put_create" \in Ops /\ Suspend(c, "put", t, None, 0)
  /\ UNCHANGED <<runVars, threadVars, poolVars, sched, crashes>>

\* Create the thread that was missing at the fetch (if_not_exists="create"), or mark the fetched one busy.
PutThread(t, ref) ==
  IF ref = 0
  THEN /\ made < MaxObjects
       /\ made' = made + 1
       /\ threads' = Append(threads, [id |-> t, key |-> made + 1, status |-> "busy"])
  ELSE /\ threads' = WithStatus(threads, ref, "busy")
       /\ UNCHANGED made

\* prevent_insert_if_inflight: the active runs are returned and none is added.
PutInflight(c) ==
  /\ LoopFree
  /\ client[c].pc = "put"
  /\ ActiveOn(client[c].thread) # {}
  /\ PutThread(client[c].thread, client[c].ref)
  /\ Return(c)
  /\ UNCHANGED <<runVars, poolVars, sched, crashes>>

\* delayed: after_seconds > 0 puts created_at into the future.
PutInsert(c, r, delayed) ==
  /\ LoopFree
  /\ client[c].pc = "put"
  /\ status[r] = "unborn"
  /\ delayed => "delay" \in Ops
  /\ PutThread(client[c].thread, client[c].ref)
  /\ stored' = stored \cup {r}
  /\ status' = [status EXCEPT ![r] = "pending"]
  /\ on' = [on EXCEPT ![r] = client[c].thread]
  /\ clock' = IF delayed THEN clock ELSE clock + 1
  /\ createdAt' = [createdAt EXCEPT ![r] = IF delayed THEN 0 ELSE clock + 1]
  /\ Return(c)
  /\ UNCHANGED <<attempt, poolVars, sched, crashes>>

\* The created_at of a delayed run passes.
ComesDue(r) ==
  /\ status[r] # "unborn" /\ createdAt[r] = 0
  /\ clock' = clock + 1
  /\ createdAt' = [createdAt EXCEPT ![r] = clock + 1]
  /\ UNCHANGED <<stored, status, on, attempt, threadVars, poolVars, sched,
                 client, crashes>>

-----------------------------------------------------------------------------
(* Threads.put, Threads.patch, Threads.delete                                *)

\* Existence is checked again after the auth handler; an existing thread is
\* returned or reported as a conflict, and nothing changes.
CreateThread(t) ==
  /\ "create" \in Ops /\ LoopFree
  /\ ~Known(t) /\ made < MaxObjects
  /\ made' = made + 1
  /\ threads' = Append(threads, [id |-> t, key |-> made + 1, status |-> "idle"])
  /\ UNCHANGED <<runVars, poolVars, sched, client, crashes>>

\* patch and delete locate the thread by position, then wait for their handler.
PatchBegin(c, t) ==
  /\ "patch" \in Ops /\ LoopFree
  /\ client[c].pc = "idle"
  /\ \E i \in DOMAIN threads : FoundAt(t, i) /\ Suspend(c, "patch", t, None, i)
  /\ UNCHANGED <<runVars, threadVars, poolVars, sched, crashes>>

\* The element at that position is replaced by a deep copy of itself; past the
\* end of the list the request fails.
PatchCommit(c) ==
  /\ LoopFree
  /\ client[c].pc = "patch"
  /\ IF client[c].ref <= Len(threads)
     THEN /\ made < MaxObjects
          /\ made' = made + 1
          /\ threads' = [threads EXCEPT ![client[c].ref].key = made + 1]
     ELSE UNCHANGED threadVars
  /\ Return(c)
  /\ UNCHANGED <<runVars, poolVars, sched, crashes>>

DeleteBegin(c, t) ==
  /\ "delete_thread" \in Ops /\ LoopFree
  /\ client[c].pc = "idle"
  /\ \E i \in DOMAIN threads : FoundAt(t, i) /\ Suspend(c, "delete", t, None, i)
  /\ UNCHANGED <<runVars, threadVars, poolVars, sched, crashes>>

\* The runs of the thread go first, then whatever is at that position; past the
\* end of the list the pop fails after the runs are gone.
DeleteCommit(c) ==
  /\ LoopFree
  /\ client[c].pc = "delete"
  /\ stored' = {r \in stored : on[r] # client[c].thread}
  /\ threads' = IF client[c].ref <= Len(threads)
                THEN RemoveAt(threads, client[c].ref) ELSE threads
  /\ Return(c)
  /\ UNCHANGED <<status, on, createdAt, attempt, clock, made, poolVars, sched,
                 crashes>>

-----------------------------------------------------------------------------
(* Runs.delete and Runs.cancel                                               *)

DeleteRun(r) ==
  /\ "delete_run" \in Ops /\ LoopFree
  /\ r \in stored
  /\ stored' = stored \ {r}
  /\ UNCHANGED <<status, on, createdAt, attempt, clock, threadVars, poolVars,
                 sched, client, crashes>>

\* Candidates are the runs of a request's thread_id + run_ids, of a status or of
\* an assistant.  Interrupting (or rolling back runs that have a subscriber)
\* marks every active candidate and sets the thread of each pending one idle.
\* The control message reaches a worker as one of its outcomes.
CancelledAs_Requeued == "pending"
CancelledAs == "interrupted"
ThreadOfPending(S, i) == \E r \in S : status[r] = "pending" /\ FoundAt(on[r], i)

Interrupt(S) ==
  /\ "interrupt" \in Ops /\ LoopFree
  /\ S # {}
  /\ \A r \in S : status[r] \in Active
  /\ status' = [r \in Runs |-> IF r \in S THEN CancelledAs ELSE status[r]]
  /\ threads' = [i \in DOMAIN threads |->
                   IF ThreadOfPending(S, i)
                   THEN [threads[i] EXCEPT !.status = "idle"] ELSE threads[i]]
  /\ UNCHANGED <<stored, on, createdAt, attempt, clock, made, poolVars, sched,
                 client, crashes>>

\* action="rollback" on an active run without subscribers: the request logs,
\* which suspends it, and then deletes the run.
RollbackBegin(c, r) ==
  /\ "rollback" \in Ops /\ LoopFree
  /\ client[c].pc = "idle"
  /\ r \in stored /\ status[r] \in Active
  /\ Suspend(c, "rollback", None, r, 0)
  /\ UNCHANGED <<runVars, threadVars, poolVars, sched, crashes>>

RollbackCommit(c) ==
  /\ LoopFree
  /\ client[c].pc = "rollback"
  /\ stored' = stored \ {client[c].run}
  /\ Return(c)
  /\ UNCHANGED <<status, on, createdAt, attempt, clock, threadVars, poolVars,
                 sched, crashes>>

-----------------------------------------------------------------------------
(* The scheduler loop of queue() and Runs.next                               *)

\* How many runs a scan may yield: limit=runners.qsize().
Limit_Configured == Concurrency
Limit == free

\* runners.wait() returned; limit=runners.qsize() and now=datetime.now() are
\* taken before Runs.next sleeps.
NextStart ==
  /\ sched.pc = "wait" /\ free > 0
  /\ sched' = [sched EXCEPT !.pc = "sleep", !.limit = Limit, !.horizon = clock]
  /\ UNCHANGED <<runVars, threadVars, poolVars, client, crashes>>

\* The pending runs whose created_at is before `now`.
Pending(horizon) ==
  {r \in stored : status[r] = "pending" /\ createdAt[r] \in 1..horizon}

\* The first n of S by created_at: zip(range(limit), sorted(...)).
Oldest_Newest(S, n) ==
  {r \in S : Cardinality({q \in S : createdAt[q] > createdAt[r]}) < n}
Oldest(S, n) ==
  {r \in S : Cardinality({q \in S : createdAt[q] < createdAt[r]}) < n}

NextSelect ==
  /\ sched.pc = "sleep"
  /\ sched' = [sched EXCEPT !.pc = "scan", !.limit = 0,
                            !.todo = Oldest(Pending(sched.horizon), sched.limit)]
  /\ UNCHANGED <<runVars, threadVars, poolVars, client, crashes>>

\* r is the run the loop body looks at next.
Examines(r) ==
  /\ sched.pc = "scan"
  /\ r \in sched.todo
  /\ \A q \in sched.todo : createdAt[r] <= createdAt[q]
DoneWith(r) == sched' = [sched EXCEPT !.todo = @ \ {r}]

\* The run can start: still pending, nothing running on its thread.
Startable_Unchecked(r) == ~Blocked(on[r])
Startable(r) == status[r] = "pending" /\ ~Blocked(on[r])

\* The thread is missing: the warning is awaited and the loop may be re-entered
\* by others before the next run is examined.
NextOrphan(r) ==
  /\ Examines(r)
  /\ status[r] = "pending" /\ ~Known(on[r])
  /\ sched' = [sched EXCEPT !.pc = "warn", !.todo = @ \ {r}]
  /\ UNCHANGED <<runVars, threadVars, poolVars, client, crashes>>

NextWarned ==
  /\ sched.pc = "warn"
  /\ sched' = [sched EXCEPT !.pc = "scan"]
  /\ UNCHANGED <<runVars, threadVars, poolVars, client, crashes>>

NextSkip(r) ==
  /\ Examines(r)
  /\ status[r] = "pending" => Known(on[r])
  /\ ~Startable(r)
  /\ DoneWith(r)
  /\ UNCHANGED <<runVars, threadVars, poolVars, client, crashes>>

\* The run is marked running and yielded; queue() takes a token and creates the
\* worker task, without suspending.
TakeToken == free - 1
NextAttempt_Same(r) == attempt[r]
NextAttempt(r) == attempt[r] + 1
Dispatch(r) ==
  /\ Examines(r)
  /\ Known(on[r]) /\ Startable(r)
  /\ attempt' = [attempt EXCEPT ![r] = NextAttempt(r)]
  /\ status' = [status EXCEPT ![r] = "running"]
  /\ free' = TakeToken
  /\ live' = live \cup {r}
  /\ DoneWith(r)
  /\ UNCHANGED <<stored, on, createdAt, clock, threadVars, ending, client, crashes>>

\* Statistics and Runs.sweep, which does nothing; then back to the wait.
NextEnd ==
  /\ sched.pc = "scan" /\ sched.todo = {}
  /\ sched' = IdleSched
  /\ UNCHANGED <<runVars, threadVars, poolVars, client, crashes>>

Scheduler ==
  \/ NextStart \/ NextSelect \/ NextWarned \/ NextEnd
  \/ \E r \in Runs : NextOrphan(r) \/ NextSkip(r) \/ Dispatch(r)

-----------------------------------------------------------------------------
(* The worker (external) ends every attempt with Threads.set_joint_status    *)
(* and winds down.  Assumed of it: it does nothing more for the run then.    *)
(* A run that it has requeued may be started again meanwhile.                *)

WorkerMoves(r) == r \in live /\ (LoopFree \/ Isolated)

\* The task that executes r has written what it had to say of the run.
Leaves_Lost(r, pc, ref) == live' = live \ {r} /\ UNCHANGED <<ending, free>>
Leaves(r, pc, ref) ==
  /\ live' = live \ {r}
  /\ ending' = ending \cup {[run |-> r, attempt |-> attempt[r], pc |-> pc, ref |-> ref]}
  /\ UNCHANGED free

\* The thread's status: busy while a pending or running run remains on it.
FinalStatus_Idle(active) == "idle"
FinalStatus(active) == IF active # {} THEN "busy" ELSE "idle"
SetThread(t, active) ==
  \E i \in DOMAIN threads :
    FoundAt(t, i) /\ threads' = [threads EXCEPT ![i].status = FinalStatus(active)]

\* The thread was found before the run was written (what comes between the two commutes
\* with one of them).  On the scheduler's loop the report goes on without a break;
\* on a thread of its own it reads the other runs, then writes the thread.
ReportOn(r, requeued) ==
  IF Isolated
  THEN \E i \in DOMAIN threads :
         /\ FoundAt(on[r], i)
         /\ Leaves(r, IF requeued THEN "busy" ELSE "compute", threads[i].key)
         /\ UNCHANGED threads
  ELSE /\ SetThread(on[r], IF requeued THEN {r} ELSE ActiveOn(on[r]) \ {r})
       /\ Leaves(r, "left", 0)

RunStatusSet_Lost(r, outcome) == status
RunStatusSet(r, outcome) == [status EXCEPT ![r] = outcome]

\* outcome is the run status the worker asks for; "pending" requeues the run
\* for a retry.
JointStatus(r, outcome) ==
  /\ WorkerMoves(r)
  /\ r \in stored
  /\ outcome = "pending" => attempt[r] < MaxAttempts
  /\ status' = RunStatusSet(r, outcome)
  /\ ReportOn(r, outcome = "pending")
  /\ UNCHANGED <<stored, on, createdAt, attempt, clock, made, sched, client, crashes>>

\* set_joint_status(..., "rollback") deletes the run.
JointRollback(r) ==
  /\ WorkerMoves(r)
  /\ r \in stored
  /\ stored' = stored \ {r}
  /\ ReportOn(r, FALSE)
  /\ UNCHANGED <<status, on, createdAt, attempt, clock, made, sched, client, crashes>>

\* The run or its thread is gone: 404, and the task ends without a status.
JointNotFound(r) ==
  /\ WorkerMoves(r)
  /\ ~(r \in stored /\ Known(on[r]))
  /\ Leaves(r, "left", 0)
  /\ UNCHANGED <<runVars, threadVars, sched, client, crashes>>

\* The rest of a report on a thread of its own: the status is computed from the runs
\* there are, and written through the reference to the thread found at first.
Proceeds(x, pc, ref) ==
  ending' = (ending \ {x}) \cup {[x EXCEPT !.pc = pc, !.ref = ref]}

ReportComputes(x) ==
  /\ Isolated /\ x \in ending
  /\ x.pc = "compute"
  /\ Proceeds(x, FinalStatus(ActiveOn(on[x.run])), x.ref)
  /\ UNCHANGED <<runVars, threadVars, free, live, sched, client, crashes>>

ReportWrites(x) ==
  /\ Isolated /\ x \in ending
  /\ x.pc \in ThreadStatus
  /\ threads' = WithStatus(threads, x.ref, x.pc)
  /\ Proceeds(x, "left", 0)
  /\ UNCHANGED <<runVars, made, free, live, sched, client, crashes>>

\* Threads.set_status, after State.post or State.bulk has written the thread's
\* values: the status is computed from the runs there are now.
SetStatus(t) ==
  /\ "state" \in Ops /\ LoopFree
  /\ SetThread(t, ActiveOn(t))
  /\ UNCHANGED <<runVars, made, poolVars, sched, client, crashes>>

\* The task ends and its done callback returns the token.
Cleanup(x) ==
  /\ LoopFree
  /\ x \in ending /\ x.pc = "left"
  /\ ending' = ending \ {x}
  /\ free' = free + 1
  /\ UNCHANGED <<runVars, threadVars, live, sched, client, crashes>>

\* queue() fills its token queue anew.
FreshTokens == Concurrency

\* The process dies just after a flush and starts again on that store: tasks,
\* tokens and requests are gone, store["runs"] is as it was.  The retry counter
\* is written to a file too, but nothing loads it: attempts count from 0 again.
Crash ==
  /\ crashes < MaxCrashes
  /\ crashes' = crashes + 1
  /\ free' = FreshTokens /\ live' = {} /\ ending' = {}
  /\ sched' = IdleSched
  /\ client' = [c \in Clients |-> IdleClient]
  /\ attempt' = [r \in Runs |-> 0]
  /\ UNCHANGED <<stored, status, on, createdAt, clock, threadVars>>

-----------------------------------------------------------------------------
Request(c) ==
  \/ PutInflight(c) \/ PatchCommit(c) \/ DeleteCommit(c) \/ RollbackCommit(c)
  \/ \E t \in Threads : PutFetch(c, t) \/ PatchBegin(c, t) \/ DeleteBegin(c, t)
  \/ \E r \in Runs : RollbackBegin(c, r) \/ \E d \in BOOLEAN : PutInsert(c, r, d)

WorkerEnds(r) ==
  \/ \E outcome \in Finished \cup {"pending"} : JointStatus(r, outcome)
  \/ JointRollback(r) \/ JointNotFound(r)
WindDown == \E x \in ending : ReportComputes(x) \/ ReportWrites(x) \/ Cleanup(x)

Next ==
  \/ \E c \in Clients : Request(c)
  \/ \E t \in Threads : CreateThread(t) \/ SetStatus(t)
  \/ \E r \in Runs : ComesDue(r) \/ DeleteRun(r) \/ WorkerEnds(r)
  \/ \E S \in SUBSET stored : Interrupt(S)
  \/ Scheduler \/ WindDown \/ Crash

Spec == Init /\ [][Next]_vars

\* The scheduler loop keeps running and an after_seconds delay passes.  A done
\* callback and the end of a graph run (every run ends, by assumption) wait for
\* the loop, which is taken during each scan but free again and again: asyncio
\* serves its ready queue in order, hence strong fairness.
Fairness ==
  /\ WF_vars(Scheduler)
  /\ SF_vars(WindDown)
  /\ \A r \in Runs : SF_vars(WorkerEnds(r)) /\ WF_vars(ComesDue(r))

FairSpec == Spec /\ Fairness

-----------------------------------------------------------------------------
(* Properties *)

\* Of the runs in the store, at most one per thread is running.  Cancelling,
\* deleting, retrying, stale lists and restarts must all preserve what the
\* check before a dispatch relies on (Runs.next).
OneRunningPerThread ==
  \A r, q \in stored :
    status[r] = "running" /\ status[q] = "running" /\ on[r] = on[q] => r = q

\* No runner token is lost or invented: each is in the queue, with a live
\* worker task, or with a task that reports, winds down or has ended, and whose done
\* callback is still to run (cleanup).
TokensConserved == free + Cardinality(live) + Cardinality(ending) = Concurrency

\* The limit taken before the sleep never promises more runs than there are
\* tokens when they are dispatched: runners.get_nowait() cannot fail.
TokensCoverScan ==
  /\ sched.pc = "sleep" => sched.limit <= free
  /\ sched.pc \in {"scan", "warn"} => Cardinality(sched.todo) <= free

\* A retry writes "pending" back while its task is still there, and a scan may start the
\* run again beside it.  The two are tasks of different attempts, and what winds down is
\* the earlier one: no attempt is executed by two tasks, nor started again once it has
\* reported (retry_counter.increment in Runs.next, set_joint_status).
OneTaskPerAttempt ==
  /\ \A x \in ending : x.run \in live => x.attempt < attempt[x.run]
  /\ \A x, y \in ending : x.run = y.run /\ x.attempt = y.attempt => x = y

\* What the invariants above rest on.  A run that is not in the store yet has no
\* trace anywhere, one that waits has attempts left and no task that has still to report
\* on it, created_at puts the runs that have come due into one order, and attempts are
\* counted upwards.
Lifecycle ==
  \A r \in Runs :
    /\ status[r] = "unborn" => r \notin stored /\ r \notin live /\ attempt[r] = 0
    /\ status[r] = "pending" => r \notin live /\ attempt[r] < MaxAttempts
CreationOrder ==
  \A r, q \in Runs :
    createdAt[r] <= clock /\ (createdAt[r] = createdAt[q] /\ createdAt[r] > 0 => r = q)
AttemptsGrow == OneTaskPerAttempt /\ \A x \in ending : x.attempt <= attempt[x.run]

\* The inductive invariant of the queue.
QueueInv ==
  TypeOK /\ OneRunningPerThread /\ Lifecycle /\ CreationOrder
    /\ TokensConserved /\ TokensCoverScan /\ AttemptsGrow

\* A run that is finished or cancelled and has no worker that could still report stays as it is; in
\* particular one cancelled while the scan was suspended in its warning is not
\* started from the stale list (the status re-checks in Runs.next).
SettledIsFinal ==
  [][\A r \in Runs : status[r] \in Finished /\ r \notin live =>
        status'[r] = status[r] /\ r \notin live']_vars

\* What the queue promises (RunLifecycle): the phase of a run is its status, "gone"
\* once its object has left the store.
Shown(s) ==
  IF s = "pending" THEN "waiting" ELSE IF s \in Finished THEN "over" ELSE s
Phase ==
  [r \in Runs |-> IF status[r] # "unborn" /\ r \notin stored
                  THEN "gone" ELSE Shown(status[r])]
Promise == INSTANCE RunLifecycle WITH phase <- Phase, executing <- live

\* Whatever threads, references, tokens, stale lists and suspended requests do,
\* each step of the queue is a step that RunLifecycle allows, or none: a run goes
\* through its phases in order, is started only while waiting and with its thread
\* free, and has one worker (Runs.put, next, cancel, delete, set_joint_status).
KeepsPromise == Promise!LifeSpec

\* While no thread is deleted and workers share the scheduler's loop, runs of a thread
\* start in created_at order: no run overtakes an older due one, whatever is retried,
\* delayed or cancelled.
FifoPerThread ==
  [][\A r \in live' \ live, q \in stored :
        on[q] = on[r] /\ status[q] = "pending" /\ createdAt[q] > 0
          => createdAt[r] <= createdAt[q]]_vars

\* While no thread is deleted and the process lives, a run marked running has a
\* worker that will set its status: it cannot block its thread for good.
RunningHasWorker == \A r \in stored : status[r] = "running" => r \in live

\* While no pending run is interrupted, requests do not overlap and workers share the
\* scheduler's loop, a thread with an active run is busy: Runs.put, Threads.delete,
\* set_status and set_joint_status keep the two lists consistent.  (A thread created while
\* a put that is to create it is suspended would be created twice.  A worker on a thread
\* of its own may write the "idle" it computed over the mark of a later put.)
ActiveKeepsThreadBusy ==
  \A t \in Threads, i \in DOMAIN threads :
    FoundAt(t, i) /\ ActiveOn(t) # {} => threads[i].status = "busy"

\* What these three rest on.  While no thread is deleted, a stored run's thread is there
\* and so is the thread a put has fetched.
RunsHaveThread == \A r \in stored : Known(on[r])
KnownThreads ==
  /\ RunsHaveThread
  /\ \A c \in Clients :
       /\ client[c].pc # "delete"
       /\ client[c].pc = "put" /\ client[c].ref # 0 => Known(client[c].thread)

\* If no worker moves during a scan, an older run of the same thread is either still to be
\* examined or was passed over because the thread has a running one.
OlderGoFirst ==
  /\ sched.pc # "warn"
  /\ sched.pc = "scan" =>
       /\ sched.todo \subseteq stored
       /\ \A r \in sched.todo : createdAt[r] > 0
       /\ \A r \in sched.todo, q \in stored :
            /\ on[q] = on[r] /\ status[q] = "pending"
            /\ createdAt[q] > 0 /\ createdAt[q] < createdAt[r]
            => q \in sched.todo \/ Blocked(on[r])

\* If requests do not overlap, a thread id and a key name one object, and what a suspended
\* request has found is still so when it resumes.
UniqueObjects ==
  /\ \A i, j \in DOMAIN threads :
       threads[i].id = threads[j].id \/ threads[i].key = threads[j].key => i = j
  /\ \A i \in DOMAIN threads : threads[i].key \in 1..made
HandlesHold ==
  \A c \in Clients :
    /\ client[c].pc = "put" =>
         IF client[c].ref = 0 THEN ~Known(client[c].thread) /\ "put_create" \in Ops
         ELSE \E i \in DOMAIN threads :
                threads[i].id = client[c].thread /\ threads[i].key = client[c].ref
    /\ client[c].pc = "delete" =>
         client[c].ref \in DOMAIN threads /\ threads[client[c].ref].id = client[c].thread
ReferencesHold == RunsHaveThread /\ UniqueObjects /\ HandlesHold

\* Every due run of an existing thread leaves the queue: started, or deleted.
DueRunLeavesQueue ==
  \A r \in Runs : (r \in stored /\ status[r] = "pending" /\ createdAt[r] > 0)
                   ~> ~(r \in stored /\ status[r] = "pending")

-----------------------------------------------------------------------------
(* What the repository says of itself and the code does not do *)

\* Threads.delete: "Delete a thread by ID and cascade delete all associated
\* runs".  What a delete request takes out of the list is the thread it named.
DeleteRemovesItsThread ==
  [][\A c \in Clients, t \in Threads :
       /\ client[c].pc = "delete" /\ client'[c].pc = "idle"
       /\ t # client[c].thread
       /\ \E i \in DOMAIN threads : threads[i].id = t
       => \E i \in DOMAIN threads' : threads'[i].id = t]_vars

=============================================================================
