--------------------------- MODULE RunQueueProofs ---------------------------
(***************************************************************************)
(* Invariance proofs for RunQueue, for every finite set of runs and every  *)
(* number of threads, clients and runner tokens.                           *)
(*                                                                         *)
(* The argument is one inductive invariant, QueueInv.  "One running run    *)
(* per thread" needs to know that a run enters the store pending           *)
(* (Lifecycle).  "Tokens cover the scan" needs that at most `limit` runs   *)
(* are selected, which holds because created_at orders the due runs        *)
(* (CreationOrder, lemma OldestBound), and that a dispatch spends one      *)
(* token for one selected run (TokensConserved).                           *)
(*                                                                         *)
(* Three properties hold only of some instances, and their theorems name   *)
(* the operations that break them: a deleted thread and a crash leave runs *)
(* without a thread or a worker, overlapping requests, interrupts and      *)
(* workers on threads of their own leave threads idle under active runs.   *)
(* Each has its own strengthening: KnownThreads, OlderGoFirst,             *)
(* ReferencesHold.                                                         *)
(***************************************************************************)
EXTENDS RunQueue, FiniteSetTheorems, SequenceTheorems, TLAPS

\* Any set of runs is finite.
LEMMA FiniteRuns ==
  ASSUME NEW S \in SUBSET Runs
  PROVE  IsFiniteSet(S) /\ Cardinality(S) \in Nat
BY RunsAssumption, FS_Subset, FS_CardinalityType

\* Selecting the n oldest of a set of runs that created_at orders strictly yields
\* at most n runs (the zip with range(limit) in Runs.next).
LEMMA OldestBound ==
  ASSUME createdAt \in [Runs -> Nat], NEW S \in SUBSET Runs, NEW n \in Nat,
         \A r, q \in S : createdAt[r] = createdAt[q] => r = q
  PROVE  /\ Oldest(S, n) \in SUBSET Runs
         /\ Cardinality(Oldest(S, n)) <= n
<1> DEFINE Older(r) == {q \in S : createdAt[q] < createdAt[r]}
           O == Oldest(S, n)
           f == [r \in O |-> Cardinality(Older(r))]
<1>1. O = {r \in S : Cardinality(Older(r)) < n}
  BY DEF Oldest
<1>2. O \in SUBSET Runs
  BY <1>1
<1>3. \A r \in O : f[r] \in 0..(n - 1)
  <2> TAKE r \in O
  <2>1. Cardinality(Older(r)) \in Nat
    BY FiniteRuns
  <2>2. Cardinality(Older(r)) < n
    BY <1>1
  <2> QED  BY <2>1, <2>2
<1>4. \A r, p \in O : createdAt[r] < createdAt[p] => f[r] # f[p]
  <2> SUFFICES ASSUME NEW r \in O, NEW p \in O, createdAt[r] < createdAt[p],
                      Cardinality(Older(r)) = Cardinality(Older(p))
               PROVE  FALSE
    OBVIOUS
  <2>1. r \in S /\ p \in S
    BY <1>1
  <2>2. Older(r) \in SUBSET Older(p)
    BY <2>1
  <2>3. IsFiniteSet(Older(p))
    BY FiniteRuns
  <2>4. Older(r) = Older(p)
    BY <2>2, <2>3, FS_Subset
  <2>5. r \in Older(p) /\ r \notin Older(r)
    BY <2>1
  <2> QED  BY <2>4, <2>5
<1>5. f \in Injection(O, 0..(n - 1))
  <2>1. f \in [O -> 0..(n - 1)]
    BY <1>3
  <2>2. ASSUME NEW r \in O, NEW p \in O, f[r] = f[p]
        PROVE  r = p
    <3>1. r \in S /\ p \in S
      BY <1>1
    <3>2. ~(createdAt[r] < createdAt[p]) /\ ~(createdAt[p] < createdAt[r])
      BY <1>4, <2>2
    <3> QED  BY <3>1, <3>2
  <2> QED  BY <2>1, <2>2 DEF Injection, IsInjective
<1>6. IsFiniteSet(0..(n - 1)) /\ Cardinality(0..(n - 1)) = n
  BY FS_Interval
<1>7. Cardinality(O) <= n
  BY <1>5, <1>6, FS_Injection
<1> QED  BY <1>2, <1>7

-----------------------------------------------------------------------------
(* Types of the thread list *)

\* Replacing one object of the thread list by another keeps it a list of objects.
LEMMA ThreadWrite ==
  ASSUME threads \in Seq(ThreadObject),
         NEW g, DOMAIN g = DOMAIN threads,
         \A i \in DOMAIN threads : g[i] \in ThreadObject,
         g = [i \in DOMAIN threads |-> g[i]]
  PROVE  g \in Seq(ThreadObject)
<1>1. DOMAIN threads = 1..Len(threads) /\ Len(threads) \in Nat
  BY LenProperties
<1>2. g \in [1..Len(threads) -> ThreadObject]
  BY <1>1
<1> QED  BY <1>1, <1>2

\* Every position of the thread list holds a thread object.
LEMMA ObjectType ==
  ASSUME TypeOK, NEW i \in DOMAIN threads
  PROVE  i \in Nat /\ i \in 1..Len(threads) /\ threads[i] \in ThreadObject
<1>1. threads \in Seq(ThreadObject)
  BY DEF TypeOK
<1> QED  BY <1>1, LenProperties

\* Popping a position of the thread list leaves a list of objects.
LEMMA ThreadPop ==
  ASSUME threads \in Seq(ThreadObject), NEW i \in Nat, i <= Len(threads)
  PROVE  RemoveAt(threads, i) \in Seq(ThreadObject)
<1>1. Len(threads) \in Nat /\ \A j \in 1..Len(threads) : threads[j] \in ThreadObject
  BY LenProperties
<1>2. SubSeq(threads, 1, i - 1) \in Seq(ThreadObject)
  BY <1>1, SubSeqProperties
<1>3. SubSeq(threads, i + 1, Len(threads)) \in Seq(ThreadObject)
  BY <1>1, SubSeqProperties
<1> QED  BY <1>2, <1>3, ConcatProperties DEF RemoveAt

-----------------------------------------------------------------------------
(* Frames: the conjuncts that a step leaves alone *)

\* A step that leaves every run alone keeps the invariants about runs
\* (the requests and scheduler steps that touch only threads or themselves).
LEMMA RunsFrame ==
  ASSUME QueueInv, UNCHANGED <<runVars, live>>
  PROVE  OneRunningPerThread' /\ Lifecycle' /\ CreationOrder'
BY DEF QueueInv, runVars, OneRunningPerThread, Lifecycle, CreationOrder

\* A step that leaves the pool, the attempts and the scheduler alone keeps the token
\* counts and the tasks.
LEMMA PoolFrame ==
  ASSUME QueueInv, UNCHANGED <<poolVars, sched, attempt>>
  PROVE  TokensConserved' /\ TokensCoverScan' /\ AttemptsGrow'
BY DEF QueueInv, poolVars, TokensConserved, TokensCoverScan, AttemptsGrow, OneTaskPerAttempt

\* A step that only removes runs from the store (Threads.delete, Runs.delete,
\* the end of a rollback) keeps the invariants about runs.
LEMMA RemovalFrame ==
  ASSUME QueueInv, stored' \in SUBSET stored, live' \in SUBSET live,
         UNCHANGED <<status, on, createdAt, attempt, clock>>
  PROVE  OneRunningPerThread' /\ Lifecycle' /\ CreationOrder'
BY DEF QueueInv, OneRunningPerThread, Lifecycle, CreationOrder

\* A request suspends or returns with well-typed locals.
LEMMA SuspendType ==
  ASSUME TypeOK, NEW c \in Clients,
         NEW pc, NEW t, NEW r, NEW ref,
         [pc |-> pc, thread |-> t, run |-> r, ref |-> ref] \in ClientState,
         Suspend(c, pc, t, r, ref)
  PROVE  client' \in [Clients -> ClientState]
BY DEF TypeOK, Suspend

\* A request that returns leaves its client idle and well typed.
LEMMA ReturnType ==
  ASSUME TypeOK, NEW c \in Clients, Return(c)
  PROVE  client' \in [Clients -> ClientState]
BY DEF TypeOK, Return, IdleClient, ClientState

\* The thread write of Runs.put (append a new object, or mark one busy through
\* a reference) keeps the thread list well typed.
LEMMA PutThreadType ==
  ASSUME TypeOK, NEW t \in Threads, NEW ref \in Nat, PutThread(t, ref)
  PROVE  threads' \in Seq(ThreadObject) /\ made' \in Nat
<1>1. threads \in Seq(ThreadObject) /\ made \in Nat
  BY DEF TypeOK
<1>2. CASE ref = 0
  <2>1. [id |-> t, key |-> made + 1, status |-> "busy"] \in ThreadObject
    BY <1>1 DEF ThreadObject, ThreadStatus
  <2> QED  BY <1>1, <1>2, <2>1 DEF PutThread
<1>3. CASE ref # 0
  <2> DEFINE g == WithStatus(threads, ref, "busy")
  <2>1. \A i \in DOMAIN threads : threads[i] \in ThreadObject
    BY <1>1, LenProperties
  <2>2. DOMAIN g = DOMAIN threads /\ g = [i \in DOMAIN threads |-> g[i]]
    BY DEF WithStatus
  <2>3. \A i \in DOMAIN threads : g[i] \in ThreadObject
    BY <2>1 DEF WithStatus, ThreadObject, ThreadStatus
  <2> HIDE DEF g
  <2>4. g \in Seq(ThreadObject)
    BY <1>1, <2>2, <2>3, ThreadWrite
  <2> QED  BY <1>1, <1>3, <2>4 DEF PutThread, g
<1> QED  BY <1>2, <1>3

\* The thread write of Threads.set_joint_status and set_status keeps the thread list well typed.
LEMMA SetThreadType ==
  ASSUME TypeOK, NEW t, NEW active, SetThread(t, active)
  PROVE  threads' \in Seq(ThreadObject)
<1>1. threads \in Seq(ThreadObject)
  BY DEF TypeOK
<1>2. PICK i \in DOMAIN threads : threads' = [threads EXCEPT ![i].status = FinalStatus(active)]
  BY DEF SetThread
<1>3. i \in 1..Len(threads) /\ threads[i] \in ThreadObject
  BY <1>1, LenProperties
<1>4. [threads[i] EXCEPT !.status = FinalStatus(active)] \in ThreadObject
  BY <1>3 DEF FinalStatus, ThreadObject, ThreadStatus
<1>5. threads' = [threads EXCEPT ![i] = [threads[i] EXCEPT !.status = FinalStatus(active)]]
  BY <1>2, <1>3
<1> QED  BY <1>1, <1>3, <1>4, <1>5, ExceptSeq

\* A report moves one token from live to ending, with the attempt it is about.
LEMMA LeavesType ==
  ASSUME QueueInv, NEW r \in live, NEW pc \in {"compute", "left"} \cup ThreadStatus,
         NEW ref \in Nat, Leaves(r, pc, ref), UNCHANGED <<sched, attempt>>
  PROVE  /\ TokensConserved' /\ TokensCoverScan' /\ AttemptsGrow'
         /\ live' \in SUBSET Runs /\ ending' \in SUBSET Task /\ IsFiniteSet(ending')
         /\ free' \in 0..Concurrency
<1> DEFINE x == [run |-> r, attempt |-> attempt[r], pc |-> pc, ref |-> ref]
<1>1. /\ live \in SUBSET Runs /\ free \in 0..Concurrency
      /\ ending \in SUBSET Task /\ IsFiniteSet(ending) /\ attempt \in [Runs -> 0..MaxAttempts]
      /\ free + Cardinality(live) + Cardinality(ending) = Concurrency /\ TokensCoverScan
  BY DEF QueueInv, TypeOK, TokensConserved
<1>2. Cardinality(live \ {r}) = Cardinality(live) - 1 /\ Cardinality(live) \in Nat
      /\ Cardinality(live \ {r}) \in Nat
  BY <1>1, FiniteRuns, FS_RemoveElement
<1>3. live' = live \ {r} /\ ending' = ending \cup {x} /\ free' = free
  BY DEF Leaves
<1>4. x \in Task
  BY <1>1 DEF Task
<1>5. x \notin ending
  <2>1. attempt[r] \in Int /\ x.run = r /\ x.attempt = attempt[r]
    BY <1>1, NumberAssumption
  <2>2. x \in ending => x.attempt < attempt[x.run]
    BY <2>1 DEF QueueInv, AttemptsGrow, OneTaskPerAttempt
  <2> QED  BY <2>1, <2>2
<1>6. /\ IsFiniteSet(ending \cup {x}) /\ Cardinality(ending) \in Nat
      /\ Cardinality(ending \cup {x}) = Cardinality(ending) + 1
  BY <1>1, <1>5, FS_AddElement, FS_CardinalityType
<1>7. TokensConserved'
  BY <1>1, <1>2, <1>3, <1>6 DEF TokensConserved
<1>8. TokensCoverScan'
  BY <1>1, <1>3 DEF TokensCoverScan
<1>9. AttemptsGrow'
  <2>1. \A y \in ending : y.attempt \in Nat /\ y.run \in Runs
    BY <1>1, NumberAssumption DEF Task
  <2>2. \A y \in ending : y.run = r => y.attempt # attempt[r]
    BY <1>1, <2>1 DEF QueueInv, AttemptsGrow, OneTaskPerAttempt
  <2>3. x.run = r /\ x.attempt = attempt[r] /\ attempt[r] <= attempt[r]
    BY <1>1
  <2> QED  BY <1>3, <2>2, <2>3 DEF QueueInv, AttemptsGrow, OneTaskPerAttempt
<1> QED  BY <1>1, <1>3, <1>4, <1>6, <1>7, <1>8, <1>9

\* What a report writes of its thread at once, and what it leaves to do.
LEMMA ReportType ==
  ASSUME TypeOK, NEW r, NEW requeued \in BOOLEAN, ReportOn(r, requeued)
  PROVE  /\ threads' \in Seq(ThreadObject)
         /\ \E pc \in {"compute", "left"} \cup ThreadStatus, ref \in Nat : Leaves(r, pc, ref)
<1>1. CASE Isolated
  <2>1. PICK i \in DOMAIN threads :
          Leaves(r, IF requeued THEN "busy" ELSE "compute", threads[i].key) /\ UNCHANGED threads
    BY <1>1 DEF ReportOn
  <2>2. threads \in Seq(ThreadObject)
    BY DEF TypeOK
  <2>3. threads[i].key \in Nat
    BY <2>1, ObjectType DEF ThreadObject
  <2> QED  BY <2>1, <2>2, <2>3 DEF ThreadStatus
<1>2. CASE ~Isolated
  <2>1. Leaves(r, "left", 0)
    BY <1>2 DEF ReportOn
  <2>2. \E active : SetThread(on[r], active)
    BY <1>2 DEF ReportOn
  <2> QED  BY <2>1, <2>2, SetThreadType
<1> QED  BY <1>1, <1>2

-----------------------------------------------------------------------------
(* Requests *)

\* The request steps, one lemma per handler.  Each leaves the pool and the
\* scheduler alone, so only the types and the run invariants are at stake.

\* Runs.put: a new run enters the store pending, with no worker and no attempt.
LEMMA PutStep ==
  ASSUME QueueInv, NEW c \in Clients,
         \/ \E t \in Threads : PutFetch(c, t)
         \/ PutInflight(c)
         \/ \E r \in Runs, d \in BOOLEAN : PutInsert(c, r, d)
  PROVE  QueueInv'
<1> TypeOK
  BY DEF QueueInv
<1>1. ASSUME NEW t \in Threads, PutFetch(c, t)
      PROVE  QueueInv'
  <2>1. UNCHANGED <<runVars, threadVars, poolVars, sched, crashes>>
    BY <1>1 DEF PutFetch
  <2>2. client' \in [Clients -> ClientState]
    <3>1. CASE \E i \in DOMAIN threads :
                 FoundAt(t, i) /\ Suspend(c, "put", t, None, threads[i].key)
      <4>1. PICK i \in DOMAIN threads : Suspend(c, "put", t, None, threads[i].key)
        BY <3>1
      <4>2. threads[i].key \in Nat
        BY <4>1, ObjectType DEF ThreadObject
      <4> QED  BY <4>1, <4>2, SuspendType DEF ClientState
    <3>2. CASE Suspend(c, "put", t, None, 0)
      BY <3>2, SuspendType DEF ClientState
    <3> QED  BY <1>1, <3>1, <3>2 DEF PutFetch
  <2>3. TypeOK'
    BY <2>1, <2>2 DEF TypeOK, runVars, threadVars, poolVars
  <2> QED  BY <2>1, <2>3, RunsFrame, PoolFrame DEF QueueInv, runVars, poolVars
<1>2. ASSUME PutInflight(c)
      PROVE  QueueInv'
  <2>1. UNCHANGED <<runVars, poolVars, sched, crashes>>
    BY <1>2 DEF PutInflight
  <2>2. client' \in [Clients -> ClientState]
    BY <1>2, ReturnType DEF PutInflight
  <2>3. threads' \in Seq(ThreadObject) /\ made' \in Nat
    <3>1. client[c].thread \in Threads /\ client[c].ref \in Nat
      BY <1>2 DEF PutInflight, TypeOK, ClientState
    <3> QED  BY <1>2, <3>1, PutThreadType DEF PutInflight
  <2>4. TypeOK'
    BY <2>1, <2>2, <2>3 DEF TypeOK, runVars, poolVars
  <2> QED  BY <2>1, <2>4, RunsFrame, PoolFrame DEF QueueInv, runVars, poolVars
<1>3. ASSUME NEW r \in Runs, NEW d \in BOOLEAN, PutInsert(c, r, d)
      PROVE  QueueInv'
  <2>1. UNCHANGED <<attempt, poolVars, sched, crashes>>
    BY <1>3 DEF PutInsert
  <2>2. client' \in [Clients -> ClientState]
    BY <1>3, ReturnType DEF PutInsert
  <2>3. client[c].thread \in Threads /\ client[c].ref \in Nat
    BY <1>3 DEF PutInsert, TypeOK, ClientState
  <2>4. threads' \in Seq(ThreadObject) /\ made' \in Nat
    BY <1>3, <2>3, PutThreadType DEF PutInsert
  <2>5. /\ stored' = stored \cup {r}
        /\ status[r] = "unborn"
        /\ status' = [status EXCEPT ![r] = "pending"]
        /\ on' = [on EXCEPT ![r] = client[c].thread]
        /\ clock' = (IF d THEN clock ELSE clock + 1)
        /\ createdAt' = [createdAt EXCEPT ![r] = IF d THEN 0 ELSE clock + 1]
    BY <1>3 DEF PutInsert
  <2>6. TypeOK'
    <3>1. stored' \in SUBSET Runs /\ status' \in [Runs -> RunStatus \cup {"unborn"}]
      BY <2>5 DEF TypeOK, RunStatus, Active
    <3>2. on' \in [Runs -> Threads \cup {None}]
      BY <2>3, <2>5 DEF TypeOK
    <3>3. clock' \in Nat /\ createdAt' \in [Runs -> Nat]
      BY <2>5 DEF TypeOK
    <3> QED  BY <2>1, <2>2, <2>4, <3>1, <3>2, <3>3 DEF TypeOK, poolVars
  <2>7. OneRunningPerThread'
    <3>1. \A q \in stored' : status'[q] = "running" =>
             q # r /\ q \in stored /\ status[q] = "running" /\ on'[q] = on[q]
      BY <2>5 DEF TypeOK
    <3> QED  BY <3>1 DEF QueueInv, OneRunningPerThread
  <2>8. Lifecycle'
    BY <2>1, <2>5, NumberAssumption DEF QueueInv, Lifecycle, TypeOK, poolVars
  <2>9. CreationOrder'
    BY <2>5 DEF QueueInv, CreationOrder, TypeOK
  <2> QED  BY <2>1, <2>6, <2>7, <2>8, <2>9, PoolFrame DEF QueueInv
<1> QED  BY <1>1, <1>2, <1>3

\* Threads.patch replaces one thread object, or fails; no run is touched.
LEMMA PatchStep ==
  ASSUME QueueInv, NEW c \in Clients,
         (\E t \in Threads : PatchBegin(c, t)) \/ PatchCommit(c)
  PROVE  QueueInv'
<1> TypeOK
  BY DEF QueueInv
<1>1. ASSUME NEW t \in Threads, PatchBegin(c, t)
      PROVE  QueueInv'
  <2>1. UNCHANGED <<runVars, threadVars, poolVars, sched, crashes>>
    BY <1>1 DEF PatchBegin
  <2>2. PICK i \in DOMAIN threads : Suspend(c, "patch", t, None, i)
    BY <1>1 DEF PatchBegin
  <2>3. client' \in [Clients -> ClientState]
    BY <2>2, ObjectType, SuspendType DEF ClientState
  <2>4. TypeOK'
    BY <2>1, <2>3 DEF TypeOK, runVars, threadVars, poolVars
  <2> QED  BY <2>1, <2>4, RunsFrame, PoolFrame DEF QueueInv, runVars, poolVars
<1>2. ASSUME PatchCommit(c)
      PROVE  QueueInv'
  <2> DEFINE at == client[c].ref
  <2>1. UNCHANGED <<runVars, poolVars, sched, crashes>>
    BY <1>2 DEF PatchCommit
  <2>2. client' \in [Clients -> ClientState]
    BY <1>2, ReturnType DEF PatchCommit
  <2>3. threads' \in Seq(ThreadObject) /\ made' \in Nat
    <3>1. CASE UNCHANGED threadVars
      BY <3>1 DEF threadVars, TypeOK
    <3>2. CASE /\ made' = made + 1
               /\ threads' = [threads EXCEPT ![at].key = made + 1]
      <4>1. threads \in Seq(ThreadObject) /\ made + 1 \in Nat /\ made' \in Nat
        BY <3>2 DEF TypeOK
      <4>2. CASE at \in DOMAIN threads
        <5>1. at \in 1..Len(threads) /\ threads[at] \in ThreadObject
          BY <4>2, ObjectType
        <5>2. [threads[at] EXCEPT !.key = made + 1] \in ThreadObject
          BY <4>1, <5>1 DEF ThreadObject
        <5>3. threads' = [threads EXCEPT ![at] = [threads[at] EXCEPT !.key = made + 1]]
          BY <3>2
        <5> QED  BY <4>1, <5>1, <5>2, <5>3, ExceptSeq
      <4>3. CASE at \notin DOMAIN threads
        <5>1. \A i \in DOMAIN threads : threads'[i] = threads[i]
          BY <3>2, <4>3
        <5>2. DOMAIN threads' = DOMAIN threads /\ threads' = [i \in DOMAIN threads |-> threads'[i]]
          BY <3>2
        <5>3. \A i \in DOMAIN threads : threads'[i] \in ThreadObject
          BY <5>1, ObjectType
        <5> QED  BY <4>1, <5>2, <5>3, ThreadWrite
      <4> QED  BY <4>2, <4>3
    <3> QED  BY <1>2, <3>1, <3>2 DEF PatchCommit
  <2>4. TypeOK'
    BY <2>1, <2>2, <2>3 DEF TypeOK, runVars, poolVars
  <2> QED  BY <2>1, <2>4, RunsFrame, PoolFrame DEF QueueInv, runVars, poolVars
<1> QED  BY <1>1, <1>2

\* Threads.delete removes the runs of the thread and whatever object is at the
\* position it located before it was suspended.
LEMMA DeleteStep ==
  ASSUME QueueInv, NEW c \in Clients,
         (\E t \in Threads : DeleteBegin(c, t)) \/ DeleteCommit(c)
  PROVE  QueueInv'
<1> TypeOK
  BY DEF QueueInv
<1>1. ASSUME NEW t \in Threads, DeleteBegin(c, t)
      PROVE  QueueInv'
  <2>1. UNCHANGED <<runVars, threadVars, poolVars, sched, crashes>>
    BY <1>1 DEF DeleteBegin
  <2>2. PICK i \in DOMAIN threads : Suspend(c, "delete", t, None, i)
    BY <1>1 DEF DeleteBegin
  <2>3. client' \in [Clients -> ClientState]
    BY <2>2, ObjectType, SuspendType DEF ClientState
  <2>4. TypeOK'
    BY <2>1, <2>3 DEF TypeOK, runVars, threadVars, poolVars
  <2> QED  BY <2>1, <2>4, RunsFrame, PoolFrame DEF QueueInv, runVars, poolVars
<1>2. ASSUME DeleteCommit(c)
      PROVE  QueueInv'
  <2>1. /\ UNCHANGED <<status, on, createdAt, attempt, clock, made, poolVars, sched, crashes>>
        /\ stored' \in SUBSET stored
    BY <1>2 DEF DeleteCommit
  <2>2. client' \in [Clients -> ClientState]
    BY <1>2, ReturnType DEF DeleteCommit
  <2>3. threads' \in Seq(ThreadObject)
    <3>1. threads \in Seq(ThreadObject) /\ client[c].ref \in Nat
      BY <1>2 DEF DeleteCommit, TypeOK, ClientState
    <3> QED  BY <1>2, <3>1, ThreadPop DEF DeleteCommit
  <2>4. TypeOK'
    BY <2>1, <2>2, <2>3 DEF TypeOK, poolVars
  <2> QED  BY <2>1, <2>4, RemovalFrame, PoolFrame DEF QueueInv, poolVars
<1> QED  BY <1>1, <1>2

\* Runs.cancel with action rollback removes the run once its log line is out.
LEMMA RollbackStep ==
  ASSUME QueueInv, NEW c \in Clients,
         (\E r \in Runs : RollbackBegin(c, r)) \/ RollbackCommit(c)
  PROVE  QueueInv'
<1> TypeOK
  BY DEF QueueInv
<1>1. ASSUME NEW r \in Runs, RollbackBegin(c, r)
      PROVE  QueueInv'
  <2>1. UNCHANGED <<runVars, threadVars, poolVars, sched, crashes>>
    BY <1>1 DEF RollbackBegin
  <2>2. client' \in [Clients -> ClientState]
    BY <1>1, SuspendType DEF RollbackBegin, ClientState
  <2>3. TypeOK'
    BY <2>1, <2>2 DEF TypeOK, runVars, threadVars, poolVars
  <2> QED  BY <2>1, <2>3, RunsFrame, PoolFrame DEF QueueInv, runVars, poolVars
<1>2. ASSUME RollbackCommit(c)
      PROVE  QueueInv'
  <2>1. /\ UNCHANGED <<status, on, createdAt, attempt, clock, threadVars, poolVars, sched, crashes>>
        /\ stored' \in SUBSET stored
    BY <1>2 DEF RollbackCommit
  <2>2. client' \in [Clients -> ClientState]
    BY <1>2, ReturnType DEF RollbackCommit
  <2>3. TypeOK'
    BY <2>1, <2>2 DEF TypeOK, poolVars, threadVars
  <2> QED  BY <2>1, <2>3, RemovalFrame, PoolFrame DEF QueueInv, poolVars
<1> QED  BY <1>1, <1>2

-----------------------------------------------------------------------------
(* Steps on runs and threads that take no client slot *)

\* Threads.put, Threads.set_status, Runs.delete, Runs.cancel with action interrupt,
\* and the passing of a delayed run's created_at.
LEMMA StoreStep ==
  ASSUME QueueInv,
         \/ \E t \in Threads : CreateThread(t) \/ SetStatus(t)
         \/ \E r \in Runs : ComesDue(r) \/ DeleteRun(r)
         \/ \E S \in SUBSET stored : Interrupt(S)
  PROVE  QueueInv'
<1> TypeOK
  BY DEF QueueInv
<1>1. ASSUME NEW t \in Threads, CreateThread(t)
      PROVE  QueueInv'
  <2>1. UNCHANGED <<runVars, poolVars, sched, client, crashes>>
    BY <1>1 DEF CreateThread
  <2>2. threads \in Seq(ThreadObject) /\ made + 1 \in Nat
    BY DEF TypeOK
  <2>3. [id |-> t, key |-> made + 1, status |-> "idle"] \in ThreadObject
    BY <2>2 DEF ThreadObject, ThreadStatus
  <2>4. threads' \in Seq(ThreadObject) /\ made' \in Nat
    BY <1>1, <2>2, <2>3 DEF CreateThread
  <2>5. TypeOK'
    BY <2>1, <2>4 DEF TypeOK, runVars, poolVars
  <2> QED  BY <2>1, <2>5, RunsFrame, PoolFrame DEF QueueInv, runVars, poolVars
<1>2. ASSUME NEW r \in Runs, ComesDue(r)
      PROVE  QueueInv'
  <2>1. /\ UNCHANGED <<stored, status, on, attempt, threadVars, poolVars, sched, client, crashes>>
        /\ clock' = clock + 1
        /\ createdAt' = [createdAt EXCEPT ![r] = clock + 1]
    BY <1>2 DEF ComesDue
  <2>2. TypeOK'
    <3>1. clock' \in Nat /\ createdAt' \in [Runs -> Nat]
      BY <2>1 DEF TypeOK
    <3> QED  BY <2>1, <3>1 DEF TypeOK, threadVars, poolVars
  <2>3. OneRunningPerThread' /\ Lifecycle'
    BY <2>1 DEF QueueInv, OneRunningPerThread, Lifecycle, poolVars
  <2>4. CreationOrder'
    BY <2>1 DEF QueueInv, CreationOrder, TypeOK
  <2> QED  BY <2>1, <2>2, <2>3, <2>4, PoolFrame DEF QueueInv
<1>3. ASSUME NEW r \in Runs, DeleteRun(r)
      PROVE  QueueInv'
  <2>1. /\ UNCHANGED <<status, on, createdAt, attempt, clock, threadVars, poolVars, sched, client, crashes>>
        /\ stored' \in SUBSET stored
    BY <1>3 DEF DeleteRun
  <2>2. TypeOK'
    BY <2>1 DEF TypeOK, poolVars, threadVars
  <2> QED  BY <2>1, <2>2, RemovalFrame, PoolFrame DEF QueueInv, poolVars
<1>4. ASSUME NEW S \in SUBSET stored, Interrupt(S)
      PROVE  QueueInv'
  <2>1. /\ UNCHANGED <<stored, on, createdAt, attempt, clock, made, poolVars, sched, client, crashes>>
        /\ status' = [r \in Runs |-> IF r \in S THEN "interrupted" ELSE status[r]]
        /\ \A r \in S : status[r] \in Active
    BY <1>4 DEF Interrupt, CancelledAs
  <2>2. threads' \in Seq(ThreadObject)
    <3> DEFINE g == [i \in DOMAIN threads |->
                       IF ThreadOfPending(S, i)
                       THEN [threads[i] EXCEPT !.status = "idle"] ELSE threads[i]]
    <3>1. threads \in Seq(ThreadObject)
      BY DEF TypeOK
    <3>2. \A i \in DOMAIN threads : g[i] \in ThreadObject
      BY ObjectType DEF ThreadObject, ThreadStatus
    <3>3. DOMAIN g = DOMAIN threads /\ g = [i \in DOMAIN threads |-> g[i]]
      OBVIOUS
    <3>4. threads' = g
      BY <1>4 DEF Interrupt
    <3> HIDE DEF g
    <3> QED  BY <3>1, <3>2, <3>3, <3>4, ThreadWrite
  <2>3. TypeOK'
    <3>1. status' \in [Runs -> RunStatus \cup {"unborn"}]
      BY <2>1 DEF TypeOK, RunStatus, Finished
    <3> QED  BY <2>1, <2>2, <3>1 DEF TypeOK, poolVars
  <2>4. OneRunningPerThread' /\ Lifecycle' /\ CreationOrder'
    BY <2>1 DEF QueueInv, OneRunningPerThread, Lifecycle, CreationOrder, TypeOK, poolVars
  <2> QED  BY <2>1, <2>3, <2>4, PoolFrame DEF QueueInv
<1>5. ASSUME NEW t \in Threads, SetStatus(t)
      PROVE  QueueInv'
  <2>1. UNCHANGED <<runVars, made, poolVars, sched, client, crashes>>
    BY <1>5 DEF SetStatus
  <2>2. threads' \in Seq(ThreadObject)
    BY <1>5, SetThreadType DEF SetStatus
  <2>3. TypeOK'
    BY <2>1, <2>2 DEF TypeOK, runVars, poolVars
  <2> QED  BY <2>1, <2>3, RunsFrame, PoolFrame DEF QueueInv, runVars, poolVars
<1> QED  BY <1>1, <1>2, <1>3, <1>4, <1>5

-----------------------------------------------------------------------------
(* The worker and its done callback *)

\* Threads.set_joint_status by a worker, whatever outcome it was asked for.
LEMMA WorkerStep ==
  ASSUME QueueInv, NEW r \in Runs, WorkerEnds(r)
  PROVE  QueueInv'
<1> TypeOK
  BY DEF QueueInv
<1>1. ASSUME NEW outcome \in Finished \cup {"pending"}, JointStatus(r, outcome)
      PROVE  QueueInv'
  <2>1. /\ UNCHANGED <<stored, on, createdAt, attempt, clock, made, sched, client, crashes>>
        /\ r \in live /\ ReportOn(r, outcome = "pending")
        /\ outcome = "pending" => attempt[r] < MaxAttempts
        /\ status' = [status EXCEPT ![r] = outcome]
    BY <1>1 DEF JointStatus, WorkerMoves, RunStatusSet
  <2>2. /\ threads' \in Seq(ThreadObject) /\ live' = live \ {r}
        /\ \E pc \in {"compute", "left"} \cup ThreadStatus, ref \in Nat : Leaves(r, pc, ref)
    BY <2>1, ReportType DEF Leaves
  <2>3. /\ TokensConserved' /\ TokensCoverScan' /\ AttemptsGrow' /\ live' \in SUBSET Runs
        /\ ending' \in SUBSET Task /\ IsFiniteSet(ending') /\ free' \in 0..Concurrency
    BY <2>1, <2>2, LeavesType
  <2>4. TypeOK'
    <3>1. status' \in [Runs -> RunStatus \cup {"unborn"}]
      BY <2>1 DEF TypeOK, RunStatus, Finished, Active
    <3> QED  BY <2>1, <2>2, <2>3, <3>1 DEF TypeOK
  <2>5. OneRunningPerThread'
    <3>1. \A q \in stored' : status'[q] = "running" => status[q] = "running"
      BY <2>1 DEF TypeOK, Finished
    <3> QED  BY <2>1, <3>1 DEF QueueInv, OneRunningPerThread
  <2>6. Lifecycle' /\ CreationOrder'
    BY <2>1, <2>2 DEF QueueInv, Lifecycle, CreationOrder, TypeOK, Finished
  <2> QED  BY <2>3, <2>4, <2>5, <2>6 DEF QueueInv
<1>2. ASSUME JointRollback(r)
      PROVE  QueueInv'
  <2>1. /\ UNCHANGED <<status, on, createdAt, attempt, clock, made, sched, client, crashes>>
        /\ r \in live /\ ReportOn(r, FALSE) /\ stored' \in SUBSET stored
    BY <1>2 DEF JointRollback, WorkerMoves
  <2>2. /\ threads' \in Seq(ThreadObject) /\ live' \in SUBSET live
        /\ \E pc \in {"compute", "left"} \cup ThreadStatus, ref \in Nat : Leaves(r, pc, ref)
    BY <2>1, ReportType DEF Leaves
  <2>3. /\ TokensConserved' /\ TokensCoverScan' /\ AttemptsGrow' /\ live' \in SUBSET Runs
        /\ ending' \in SUBSET Task /\ IsFiniteSet(ending') /\ free' \in 0..Concurrency
    BY <2>1, <2>2, LeavesType
  <2>4. TypeOK'
    BY <2>1, <2>2, <2>3 DEF TypeOK
  <2>5. OneRunningPerThread' /\ Lifecycle' /\ CreationOrder'
    BY <2>1, <2>2, RemovalFrame
  <2> QED  BY <2>3, <2>4, <2>5 DEF QueueInv
<1>3. ASSUME JointNotFound(r)
      PROVE  QueueInv'
  <2>1. /\ UNCHANGED <<runVars, threadVars, sched, client, crashes>>
        /\ r \in live /\ Leaves(r, "left", 0) /\ live' \in SUBSET live
    BY <1>3 DEF JointNotFound, WorkerMoves, Leaves
  <2>2. /\ TokensConserved' /\ TokensCoverScan' /\ AttemptsGrow' /\ live' \in SUBSET Runs
        /\ ending' \in SUBSET Task /\ IsFiniteSet(ending') /\ free' \in 0..Concurrency
    BY <2>1, LeavesType DEF runVars
  <2>3. TypeOK'
    BY <2>1, <2>2 DEF TypeOK, runVars, threadVars
  <2>4. OneRunningPerThread' /\ Lifecycle' /\ CreationOrder'
    BY <2>1, RemovalFrame DEF runVars
  <2> QED  BY <2>2, <2>3, <2>4 DEF QueueInv
<1> QED  BY <1>1, <1>2, <1>3 DEF WorkerEnds

\* A write through a reference to a thread object keeps the list well typed.
LEMMA WithStatusType ==
  ASSUME TypeOK, NEW key, NEW s \in ThreadStatus
  PROVE  WithStatus(threads, key, s) \in Seq(ThreadObject)
<1> DEFINE g == WithStatus(threads, key, s)
<1>1. threads \in Seq(ThreadObject) /\ \A i \in DOMAIN threads : threads[i] \in ThreadObject
  BY LenProperties DEF TypeOK
<1>2. DOMAIN g = DOMAIN threads /\ g = [i \in DOMAIN threads |-> g[i]]
  BY DEF WithStatus
<1>3. \A i \in DOMAIN threads : g[i] \in ThreadObject
  BY <1>1 DEF WithStatus, ThreadObject
<1> HIDE DEF g
<1>4. g \in Seq(ThreadObject)
  BY <1>1, <1>2, <1>3, ThreadWrite
<1> QED  BY <1>4 DEF g

\* A task that goes on with its report stays a task of the same attempt.
LEMMA ProceedsType ==
  ASSUME QueueInv, NEW x \in ending, NEW pc \in {"compute", "left"} \cup ThreadStatus,
         NEW ref \in Nat, Proceeds(x, pc, ref), UNCHANGED <<free, live, attempt>>
  PROVE  /\ ending' \in SUBSET Task /\ IsFiniteSet(ending')
         /\ Cardinality(ending') = Cardinality(ending) /\ AttemptsGrow'
<1> DEFINE y == [x EXCEPT !.pc = pc, !.ref = ref]
           rest == ending \ {x}
<1>1. ending \in SUBSET Task /\ IsFiniteSet(ending)
  BY DEF QueueInv, TypeOK
<1>2. y \in Task /\ y.run = x.run /\ y.attempt = x.attempt /\ ending' = rest \cup {y}
  BY <1>1 DEF Task, Proceeds
<1>3. y \notin rest
  BY <1>2 DEF QueueInv, AttemptsGrow, OneTaskPerAttempt
<1>4. IsFiniteSet(rest) /\ Cardinality(rest) = Cardinality(ending) - 1
  BY <1>1, FS_RemoveElement
<1>5. IsFiniteSet(rest \cup {y}) /\ Cardinality(rest \cup {y}) = Cardinality(rest) + 1
  BY <1>3, <1>4, FS_AddElement
<1>6. Cardinality(ending) \in Nat
  BY <1>1, FS_CardinalityType
<1> HIDE DEF y
<1>7. \A z \in rest : z \in ending /\ (z.run = x.run /\ z.attempt = x.attempt => FALSE)
  BY DEF QueueInv, AttemptsGrow, OneTaskPerAttempt
<1>8. OneTaskPerAttempt'
  BY <1>2, <1>7 DEF QueueInv, AttemptsGrow, OneTaskPerAttempt
<1>9. AttemptsGrow'
  BY <1>2, <1>8 DEF QueueInv, AttemptsGrow
<1> QED  BY <1>1, <1>2, <1>4, <1>5, <1>6, <1>9

\* The rest of a report, and the done callback, which returns exactly one token.
LEMMA WindDownStep ==
  ASSUME QueueInv, WindDown
  PROVE  QueueInv'
<1>1. TypeOK /\ TokensConserved /\ TokensCoverScan
  BY DEF QueueInv
<1> PICK x \in ending : ReportComputes(x) \/ ReportWrites(x) \/ Cleanup(x)
  BY DEF WindDown
<1>2. x \in Task /\ x.ref \in Nat
  BY <1>1 DEF TypeOK, Task
<1>3. CASE ReportComputes(x) \/ ReportWrites(x)
  <2>1. UNCHANGED <<runVars, made, free, live, sched, client, crashes>>
    BY <1>3 DEF ReportComputes, ReportWrites, threadVars
  <2>2. \E pc \in {"compute", "left"} \cup ThreadStatus, ref \in Nat : Proceeds(x, pc, ref)
    <3>1. FinalStatus(ActiveOn(on[x.run])) \in ThreadStatus
      BY DEF FinalStatus, ThreadStatus
    <3> QED  BY <1>2, <1>3, <3>1 DEF ReportComputes, ReportWrites
  <2>3. /\ ending' \in SUBSET Task /\ IsFiniteSet(ending')
        /\ Cardinality(ending') = Cardinality(ending) /\ AttemptsGrow'
    BY <2>1, <2>2, ProceedsType DEF runVars
  <2>4. threads' \in Seq(ThreadObject)
    BY <1>1, <1>3, WithStatusType DEF ReportComputes, ReportWrites, threadVars, TypeOK
  <2>5. TypeOK'
    BY <1>1, <2>1, <2>3, <2>4 DEF TypeOK, runVars
  <2>6. TokensConserved' /\ TokensCoverScan'
    BY <1>1, <2>1, <2>3 DEF TokensConserved, TokensCoverScan
  <2> QED  BY <2>1, <2>3, <2>5, <2>6, RunsFrame DEF QueueInv
<1>4. CASE Cleanup(x)
  <2>1. /\ UNCHANGED <<runVars, threadVars, live, sched, client, crashes>>
        /\ ending' = ending \ {x} /\ free' = free + 1
    BY <1>4 DEF Cleanup
  <2>2. free \in 0..Concurrency /\ Cardinality(live) \in Nat /\ IsFiniteSet(ending)
    BY <1>1, FiniteRuns DEF TypeOK
  <2>3. /\ IsFiniteSet(ending \ {x}) /\ Cardinality(ending \ {x}) = Cardinality(ending) - 1
        /\ Cardinality(ending \ {x}) \in Nat /\ Cardinality(ending) \in Nat
    BY <2>2, FS_RemoveElement, FS_CardinalityType
  <2>4. TokensConserved' /\ free' \in 0..Concurrency
    BY <1>1, <2>1, <2>2, <2>3, NumberAssumption DEF TokensConserved
  <2>5. TokensCoverScan'
    <3>1. \A n \in Int : n <= free => n <= free'
      BY <2>1, <2>2
    <3>2. sched.limit \in Int /\ Cardinality(sched.todo) \in Int
      BY <1>1, FiniteRuns DEF TypeOK, SchedState
    <3> QED  BY <1>1, <2>1, <3>1, <3>2 DEF TokensCoverScan
  <2>6. TypeOK'
    BY <1>1, <2>1, <2>3, <2>4 DEF TypeOK, runVars, threadVars
  <2>7. AttemptsGrow'
    BY <2>1 DEF QueueInv, AttemptsGrow, OneTaskPerAttempt, runVars
  <2>8. OneRunningPerThread' /\ Lifecycle' /\ CreationOrder'
    BY <2>1, RunsFrame
  <2> QED  BY <2>4, <2>5, <2>6, <2>7, <2>8 DEF QueueInv
<1> QED  BY <1>3, <1>4

-----------------------------------------------------------------------------
(* The scheduler *)

\* A scheduler step that changes nothing but its own state and stays well-typed
\* has to preserve only the bound on the runs it will dispatch.
LEMMA SchedFrame ==
  ASSUME QueueInv, UNCHANGED <<runVars, threadVars, poolVars, client, crashes>>,
         sched' \in SchedState, TokensCoverScan'
  PROVE  QueueInv'
<1>1. OneRunningPerThread' /\ Lifecycle' /\ CreationOrder'
  BY RunsFrame DEF poolVars
<1>2. TypeOK'
  BY DEF QueueInv, TypeOK, runVars, threadVars, poolVars
<1>3. TokensConserved' /\ AttemptsGrow'
  BY DEF QueueInv, TokensConserved, AttemptsGrow, OneTaskPerAttempt, poolVars, runVars
<1> QED  BY <1>1, <1>2, <1>3 DEF QueueInv

\* Runs.next selects at most as many runs as there were tokens before its sleep.
LEMMA SelectStep ==
  ASSUME QueueInv, NextStart \/ NextSelect \/ NextWarned \/ NextEnd
  PROVE  QueueInv'
<1> DEFINE chosen == Oldest(Pending(sched.horizon), sched.limit)
<1>1. TypeOK /\ TokensCoverScan /\ CreationOrder
  BY DEF QueueInv
<1>2. sched \in SchedState /\ free \in Nat /\ clock \in Nat
  BY <1>1, NumberAssumption DEF TypeOK
<1>3. CASE NextStart
  <2>1. sched' = [sched EXCEPT !.pc = "sleep", !.limit = free, !.horizon = clock]
        /\ UNCHANGED <<runVars, threadVars, poolVars, client, crashes>>
    BY <1>3 DEF NextStart, Limit
  <2>2. sched' \in SchedState
    BY <1>2, <2>1 DEF SchedState
  <2>3. TokensCoverScan'
    BY <1>2, <2>1 DEF TokensCoverScan, SchedState, poolVars
  <2> QED  BY <2>1, <2>2, <2>3, SchedFrame
<1>4. CASE NextSelect
  <2>1. /\ sched.pc = "sleep"
        /\ sched' = [sched EXCEPT !.pc = "scan", !.limit = 0, !.todo = chosen]
        /\ UNCHANGED <<runVars, threadVars, poolVars, client, crashes>>
    BY <1>4 DEF NextSelect
  <2>2. chosen \in SUBSET Runs /\ Cardinality(chosen) <= sched.limit
    <3>1. Pending(sched.horizon) \in SUBSET Runs
      BY <1>1 DEF Pending, TypeOK
    <3>2. \A r, q \in Pending(sched.horizon) : createdAt[r] = createdAt[q] => r = q
      BY <1>1, <1>2, <3>1 DEF Pending, CreationOrder, SchedState
    <3>3. createdAt \in [Runs -> Nat] /\ sched.limit \in Nat
      BY <1>1, <1>2 DEF TypeOK, SchedState
    <3> QED  BY <3>1, <3>2, <3>3, OldestBound
  <2>3. sched' \in SchedState
    BY <1>2, <2>1, <2>2 DEF SchedState
  <2>4. Cardinality(chosen) <= free
    <3>1. Cardinality(chosen) \in Nat
      BY <2>2, FiniteRuns
    <3>2. sched.limit <= free /\ sched.limit \in Nat
      BY <1>1, <1>2, <2>1 DEF TokensCoverScan, SchedState
    <3> QED  BY <1>2, <2>2, <3>1, <3>2
  <2>5. TokensCoverScan'
    <3> HIDE DEF chosen
    <3>1. sched'.pc = "scan" /\ sched'.todo = chosen /\ free' = free
      BY <1>2, <2>1 DEF SchedState, poolVars
    <3> QED  BY <2>4, <3>1 DEF TokensCoverScan
  <2> QED  BY <2>1, <2>3, <2>5, SchedFrame
<1>5. CASE NextWarned
  <2>1. /\ sched.pc = "warn"
        /\ sched' = [sched EXCEPT !.pc = "scan"]
        /\ UNCHANGED <<runVars, threadVars, poolVars, client, crashes>>
    BY <1>5 DEF NextWarned
  <2>2. sched' \in SchedState
    BY <1>2, <2>1 DEF SchedState
  <2>3. TokensCoverScan'
    BY <1>1, <1>2, <2>1 DEF TokensCoverScan, SchedState, poolVars
  <2> QED  BY <2>1, <2>2, <2>3, SchedFrame
<1>6. CASE NextEnd
  <2>1. sched' = IdleSched /\ UNCHANGED <<runVars, threadVars, poolVars, client, crashes>>
    BY <1>6 DEF NextEnd
  <2>2. sched' \in SchedState /\ TokensCoverScan'
    BY <2>1 DEF IdleSched, SchedState, TokensCoverScan
  <2> QED  BY <2>1, <2>2, SchedFrame
<1> QED  BY <1>3, <1>4, <1>5, <1>6

\* Taking the run under examination off the list leaves one run less to do.
LEMMA ExaminedOnce ==
  ASSUME TypeOK, NEW r \in Runs, Examines(r)
  PROVE  /\ sched.todo \ {r} \in SUBSET Runs
         /\ Cardinality(sched.todo \ {r}) = Cardinality(sched.todo) - 1
         /\ Cardinality(sched.todo) \in Nat /\ Cardinality(sched.todo) > 0
<1>1. sched.todo \in SUBSET Runs /\ r \in sched.todo
  BY DEF TypeOK, SchedState, Examines
<1>2. IsFiniteSet(sched.todo) /\ Cardinality(sched.todo) \in Nat
      /\ Cardinality(sched.todo \ {r}) \in Nat
  BY <1>1, FiniteRuns
<1>3. Cardinality(sched.todo \ {r}) = Cardinality(sched.todo) - 1
  BY <1>1, <1>2, FS_RemoveElement
<1> QED  BY <1>1, <1>2, <1>3

\* A run that Runs.next passes over (finished, blocked, or orphaned) only leaves
\* the list of runs to examine.
LEMMA PassOverStep ==
  ASSUME QueueInv, NEW r \in Runs, NextOrphan(r) \/ NextSkip(r)
  PROVE  QueueInv'
<1>1. TypeOK /\ TokensCoverScan /\ sched \in SchedState /\ free \in Nat
  BY NumberAssumption DEF QueueInv, TypeOK
<1>2. /\ Examines(r)
      /\ \/ sched' = [sched EXCEPT !.pc = "warn", !.todo = sched.todo \ {r}]
         \/ sched' = [sched EXCEPT !.todo = sched.todo \ {r}]
      /\ UNCHANGED <<runVars, threadVars, poolVars, client, crashes>>
  BY DEF NextOrphan, NextSkip, DoneWith
<1>3. /\ sched.todo \ {r} \in SUBSET Runs
      /\ Cardinality(sched.todo \ {r}) = Cardinality(sched.todo) - 1
      /\ Cardinality(sched.todo) \in Nat
  BY <1>1, <1>2, ExaminedOnce
<1>4. sched' \in SchedState
  BY <1>1, <1>2, <1>3 DEF SchedState
<1>5. Cardinality(sched.todo) <= free
  BY <1>1, <1>2 DEF TokensCoverScan, Examines
<1>6. TokensCoverScan'
  <2>1. sched'.todo = sched.todo \ {r} /\ sched'.pc \in {"scan", "warn"} /\ free' = free
    BY <1>1, <1>2 DEF SchedState, Examines, poolVars
  <2> QED  BY <1>1, <1>3, <1>5, <2>1 DEF TokensCoverScan
<1> QED  BY <1>2, <1>4, <1>6, SchedFrame

\* Marking a run running and taking its token starts no second run on the thread
\* and never a run that has a worker.
LEMMA DispatchStep ==
  ASSUME QueueInv, NEW r \in Runs, Dispatch(r)
  PROVE  QueueInv'
<1> DEFINE rest == sched.todo \ {r}
<1>1. TypeOK /\ TokensCoverScan /\ TokensConserved /\ Lifecycle
      /\ OneRunningPerThread /\ CreationOrder
  BY DEF QueueInv
<1>2. /\ Examines(r) /\ status[r] = "pending" /\ ~Blocked(on[r])
      /\ attempt' = [attempt EXCEPT ![r] = attempt[r] + 1]
      /\ status' = [status EXCEPT ![r] = "running"]
      /\ free' = free - 1
      /\ live' = live \cup {r}
      /\ sched' = [sched EXCEPT !.todo = rest]
      /\ UNCHANGED <<stored, on, createdAt, clock, threadVars, ending, client, crashes>>
  BY DEF Dispatch, NextAttempt, Startable, TakeToken, DoneWith
<1>3. r \notin live /\ attempt[r] < MaxAttempts
  BY <1>1, <1>2 DEF Lifecycle
<1>4. /\ rest \in SUBSET Runs
      /\ Cardinality(rest) = Cardinality(sched.todo) - 1
      /\ Cardinality(sched.todo) \in Nat /\ Cardinality(sched.todo) > 0
  BY <1>1, <1>2, ExaminedOnce
<1>5. Cardinality(sched.todo) <= free /\ sched.pc = "scan" /\ sched \in SchedState
  BY <1>1, <1>2 DEF TokensCoverScan, Examines, TypeOK
<1>6. free \in 0..Concurrency /\ free' \in 0..Concurrency
  BY <1>1, <1>2, <1>4, <1>5, NumberAssumption DEF TypeOK
<1>7. TokensConserved'
  <2>1. live \in SUBSET Runs /\ Cardinality(ending) \in Nat
    BY <1>1, FS_CardinalityType DEF TypeOK
  <2>2. Cardinality(live \cup {r}) = Cardinality(live) + 1 /\ Cardinality(live) \in Nat
    BY <1>3, <2>1, FiniteRuns, FS_AddElement
  <2> QED  BY <1>1, <1>2, <1>6, <2>1, <2>2, NumberAssumption DEF TokensConserved
<1>8. TokensCoverScan'
  <2>1. sched'.pc = "scan" /\ sched'.todo = rest
    BY <1>2, <1>5 DEF SchedState
  <2>2. Cardinality(rest) <= free'
    BY <1>2, <1>4, <1>5, <1>6
  <2> QED  BY <2>1, <2>2 DEF TokensCoverScan
<1>9. TypeOK'
  <2>1. status' \in [Runs -> RunStatus \cup {"unborn"}]
    BY <1>1, <1>2 DEF TypeOK, RunStatus, Active
  <2>2. attempt' \in [Runs -> 0..MaxAttempts]
    <3>1. attempt[r] \in 0..MaxAttempts /\ attempt[r] + 1 \in 0..MaxAttempts
      BY <1>1, <1>3, NumberAssumption DEF TypeOK
    <3> QED  BY <1>1, <1>2, <3>1 DEF TypeOK
  <2>3. live' \in SUBSET Runs
    BY <1>1, <1>2 DEF TypeOK
  <2>4. sched' \in SchedState
    BY <1>2, <1>4, <1>5 DEF SchedState
  <2> QED  BY <1>1, <1>2, <1>6, <2>1, <2>2, <2>3, <2>4 DEF TypeOK, threadVars
<1>10. OneRunningPerThread'
  <2>1. \A q \in stored : status'[q] = "running" => q = r \/ status[q] = "running"
    BY <1>1, <1>2 DEF TypeOK
  <2>2. \A q \in stored : on[q] = on[r] => status[q] # "running"
    BY <1>2 DEF Blocked
  <2> QED  BY <1>1, <1>2, <2>1, <2>2 DEF OneRunningPerThread
<1>11. Lifecycle' /\ CreationOrder'
  BY <1>1, <1>2 DEF Lifecycle, CreationOrder, TypeOK
<1>12. AttemptsGrow'
  <2>1. \A x \in ending : x.run \in Runs /\ x.attempt \in Nat /\ attempt[x.run] \in Nat
    BY <1>1, NumberAssumption DEF TypeOK, Task
  <2>2. \A x \in ending : x.attempt <= attempt[x.run]
    BY DEF QueueInv, AttemptsGrow
  <2>3. \A x \in ending : x.run = r => x.attempt < attempt'[r] /\ x.attempt <= attempt'[r]
    BY <1>1, <1>2, <2>1, <2>2 DEF TypeOK
  <2>4. \A q \in Runs : q # r => attempt'[q] = attempt[q]
    BY <1>1, <1>2 DEF TypeOK
  <2> QED  BY <1>2, <2>1, <2>2, <2>3, <2>4 DEF QueueInv, AttemptsGrow, OneTaskPerAttempt
<1> QED  BY <1>7, <1>8, <1>9, <1>10, <1>11, <1>12 DEF QueueInv

\* After a restart the pool is full again and the stored runs are as they were.
LEMMA CrashStep ==
  ASSUME QueueInv, Crash
  PROVE  QueueInv'
<1>1. TypeOK
  BY DEF QueueInv
<1>2. /\ crashes < MaxCrashes /\ crashes' = crashes + 1
      /\ free' = Concurrency /\ live' = {} /\ ending' = {}
      /\ sched' = IdleSched
      /\ client' = [c \in Clients |-> IdleClient]
      /\ attempt' = [r \in Runs |-> 0]
      /\ UNCHANGED <<stored, status, on, createdAt, clock, threadVars>>
  BY DEF Crash, FreshTokens
<1>3. crashes' \in 0..MaxCrashes
  BY <1>1, <1>2, NumberAssumption DEF TypeOK
<1>4. free' \in 0..Concurrency /\ ending' \in SUBSET Task /\ IsFiniteSet(ending')
  BY <1>2, NumberAssumption, FS_EmptySet
<1>5. sched' \in SchedState /\ client' \in [Clients -> ClientState]
  BY <1>2 DEF IdleSched, SchedState, IdleClient, ClientState
<1>6. TypeOK'
  <2>1. attempt' \in [Runs -> 0..MaxAttempts]
    BY <1>2, NumberAssumption
  <2> QED  BY <1>1, <1>2, <1>3, <1>4, <1>5, <2>1 DEF TypeOK, threadVars
<1>7. TokensConserved'
  BY <1>2, FS_EmptySet, NumberAssumption DEF TokensConserved
<1>8. TokensCoverScan'
  BY <1>2 DEF TokensCoverScan, IdleSched
<1>9. OneRunningPerThread' /\ CreationOrder'
  BY <1>2 DEF QueueInv, OneRunningPerThread, CreationOrder
<1>10. Lifecycle' /\ AttemptsGrow'
  BY <1>2, NumberAssumption DEF QueueInv, Lifecycle, AttemptsGrow, OneTaskPerAttempt
<1> QED  BY <1>6, <1>7, <1>8, <1>9, <1>10 DEF QueueInv

-----------------------------------------------------------------------------
(* The invariant and what follows from it *)

\* An empty store with a full pool satisfies the invariant.
LEMMA QueueInvInit ==
  ASSUME Init
  PROVE  QueueInv
<1>1. TypeOK
  <2>1. <<>> \in Seq(ThreadObject)
    BY EmptySeq
  <2>2. sched \in SchedState /\ client \in [Clients -> ClientState]
    BY DEF Init, IdleSched, SchedState, IdleClient, ClientState
  <2> QED  BY <2>1, <2>2, NumberAssumption, FS_EmptySet DEF Init, TypeOK
<1>2. OneRunningPerThread /\ Lifecycle /\ CreationOrder /\ AttemptsGrow
  BY DEF Init, OneRunningPerThread, Lifecycle, CreationOrder, AttemptsGrow, OneTaskPerAttempt
<1>3. TokensConserved
  BY FS_EmptySet, NumberAssumption DEF Init, TokensConserved
<1>4. TokensCoverScan
  BY DEF Init, IdleSched, TokensCoverScan
<1> QED  BY <1>1, <1>2, <1>3, <1>4 DEF QueueInv

\* Every step preserves the invariant: one case per handler.
LEMMA QueueInvStep ==
  ASSUME QueueInv, [Next]_vars
  PROVE  QueueInv'
<1>1. CASE UNCHANGED vars
  <2>1. TypeOK'
    BY <1>1 DEF QueueInv, TypeOK, vars, runVars, threadVars, poolVars
  <2> QED  BY <1>1, <2>1, RunsFrame, PoolFrame DEF QueueInv, vars, runVars, poolVars
<1>2. ASSUME NEW c \in Clients, Request(c)
      PROVE  QueueInv'
  BY <1>2, PutStep, PatchStep, DeleteStep, RollbackStep DEF Request
<1>3. CASE \/ \E t \in Threads : CreateThread(t) \/ SetStatus(t)
           \/ \E r \in Runs : ComesDue(r) \/ DeleteRun(r)
           \/ \E S \in SUBSET stored : Interrupt(S)
  BY <1>3, StoreStep
<1>4. ASSUME NEW r \in Runs, WorkerEnds(r)
      PROVE  QueueInv'
  BY <1>4, WorkerStep
<1>5. CASE Scheduler
  BY <1>5, SelectStep, PassOverStep, DispatchStep DEF Scheduler
<1>6. CASE WindDown
  BY <1>6, WindDownStep
<1>7. CASE Crash
  BY <1>7, CrashStep
<1> QED  BY <1>1, <1>2, <1>3, <1>4, <1>5, <1>6, <1>7 DEF Next

\* The queue's inductive invariant holds in every reachable state, for every
\* number of runs, threads, requests and tokens.
THEOREM QueueInvariant == Spec => []QueueInv
<1>1. Init => QueueInv
  BY QueueInvInit
<1>2. QueueInv /\ [Next]_vars => QueueInv'
  BY QueueInvStep
<1> QED  BY <1>1, <1>2, PTL DEF Spec

\* Every variable keeps its type; in particular no token count leaves
\* 0..Concurrency and no retry counter passes MaxAttempts.
THEOREM TypeCorrect == Spec => []TypeOK
<1>1. QueueInv => TypeOK
  BY DEF QueueInv
<1> QED  BY <1>1, QueueInvariant, PTL

\* At most one run per thread is running in the store (Runs.next), whatever the
\* clients cancel, delete or put while the scheduler sleeps or warns.
THEOREM MutualExclusionOfRuns == Spec => []OneRunningPerThread
<1>1. QueueInv => OneRunningPerThread
  BY DEF QueueInv
<1> QED  BY <1>1, QueueInvariant, PTL

\* No runner token is lost or duplicated (queue.py, cleanup).
THEOREM TokenConservation == Spec => []TokensConserved
<1>1. QueueInv => TokensConserved
  BY DEF QueueInv
<1> QED  BY <1>1, QueueInvariant, PTL

\* runners.get_nowait() always finds a token for a run that Runs.next yields.
THEOREM TokensSuffice == Spec => []TokensCoverScan
<1>1. QueueInv => TokensCoverScan
  BY DEF QueueInv
<1> QED  BY <1>1, QueueInvariant, PTL

\* A retry is dispatched beside the task that asked for it, but as a later attempt.
THEOREM OneTaskForEachAttempt == Spec => []OneTaskPerAttempt
<1>1. QueueInv => OneTaskPerAttempt
  BY DEF QueueInv, AttemptsGrow
<1> QED  BY <1>1, QueueInvariant, PTL

\* A finished or cancelled run without a worker is never started again, although
\* the scan works on a list that may be older than the cancellation.
THEOREM FinishedStaysFinished == Spec => SettledIsFinal
<1> DEFINE Final(r) == status[r] \in Finished /\ r \notin live
                         => status'[r] = status[r] /\ r \notin live'
<1>1. ASSUME TypeOK, [Next]_vars
      PROVE  \A r \in Runs : Final(r)
  <2> SUFFICES ASSUME NEW r \in Runs, status[r] \in Finished, r \notin live
               PROVE  status'[r] = status[r] /\ r \notin live'
    OBVIOUS
  <2>1. status[r] \notin Active /\ status[r] # "unborn" /\ status \in [Runs -> RunStatus \cup {"unborn"}]
    BY <1>1 DEF Active, Finished, TypeOK
  <2>2. CASE UNCHANGED <<status, live>>
    BY <2>2
  <2>3. ASSUME NEW c \in Clients, Request(c)
        PROVE  status'[r] = status[r] /\ r \notin live'
    <3>1. ASSUME NEW q \in Runs, NEW d \in BOOLEAN, PutInsert(c, q, d)
          PROVE  status'[r] = status[r] /\ r \notin live'
      BY <2>1, <3>1 DEF PutInsert, poolVars
    <3>2. CASE ~ \E q \in Runs, d \in BOOLEAN : PutInsert(c, q, d)
      <4>1. UNCHANGED <<status, live>>
        BY <2>3, <3>2 DEF Request, PutFetch, PutInflight, PatchBegin, PatchCommit,
           DeleteBegin, DeleteCommit, RollbackBegin, RollbackCommit, runVars, poolVars
      <4> QED  BY <4>1
    <3> QED  BY <3>1, <3>2
  <2>4. ASSUME NEW S \in SUBSET stored, Interrupt(S)
        PROVE  status'[r] = status[r] /\ r \notin live'
    BY <2>1, <2>4 DEF Interrupt, poolVars
  <2>5. ASSUME NEW q \in Runs, WorkerEnds(q)
        PROVE  status'[r] = status[r] /\ r \notin live'
    BY <2>1, <2>5 DEF WorkerEnds, JointStatus, RunStatusSet, JointRollback, JointNotFound,
       WorkerMoves, ReportOn, Leaves, runVars
  <2>6. ASSUME NEW q \in Runs, Dispatch(q)
        PROVE  status'[r] = status[r] /\ r \notin live'
    BY <2>1, <2>6 DEF Dispatch, Startable, Active
  <2>7. CASE \/ \E t \in Threads : CreateThread(t) \/ SetStatus(t)
             \/ \E q \in Runs : ComesDue(q) \/ DeleteRun(q) \/ NextOrphan(q) \/ NextSkip(q)
             \/ NextStart \/ NextSelect \/ NextWarned \/ NextEnd \/ WindDown \/ UNCHANGED vars
    <3>1. UNCHANGED <<status, live>>
      BY <2>7 DEF CreateThread, SetStatus, ComesDue, DeleteRun, NextOrphan, NextSkip, NextStart,
         NextSelect, NextWarned, NextEnd, WindDown, ReportComputes, ReportWrites, Cleanup,
         runVars, poolVars, vars
    <3> QED  BY <3>1
  <2>8. CASE Crash
    BY <2>8 DEF Crash, runVars
  <2> QED  BY <1>1, <2>3, <2>4, <2>5, <2>6, <2>7, <2>8 DEF Next, Scheduler
<1>2. TypeOK /\ [Next]_vars => [\A r \in Runs : Final(r)]_vars
  BY <1>1
<1> QED  BY <1>2, TypeCorrect, PTL DEF Spec, SettledIsFinal

-----------------------------------------------------------------------------
(* What the writes of the handlers do to the list of thread objects *)

\* The objects keep their place, id and key.
SameObjects ==
  /\ DOMAIN threads' = DOMAIN threads
  /\ \A i \in DOMAIN threads : threads'[i].id = threads[i].id /\ threads'[i].key = threads[i].key

\* One object is added at the end.
OneMore(t, s) ==
  /\ made' = made + 1
  /\ DOMAIN threads' = 1..(Len(threads) + 1)
  /\ \A i \in DOMAIN threads : threads'[i] = threads[i]
  /\ threads'[Len(threads) + 1] = [id |-> t, key |-> made + 1, status |-> s]

\* Appending adds the object after the others.
LEMMA AppendShape ==
  ASSUME TypeOK, NEW t \in Threads, NEW s \in ThreadStatus, made' = made + 1,
         threads' = Append(threads, [id |-> t, key |-> made + 1, status |-> s])
  PROVE  OneMore(t, s)
<1> DEFINE o == [id |-> t, key |-> made + 1, status |-> s]
<1>1. threads \in Seq(ThreadObject) /\ made + 1 \in Nat
  BY DEF TypeOK
<1>2. o \in ThreadObject
  BY <1>1 DEF ThreadObject
<1>3. threads' = Append(threads, o)
  OBVIOUS
<1>4. o = [id |-> t, key |-> made + 1, status |-> s]
  OBVIOUS
<1> HIDE DEF o
<1>5. /\ threads' \in Seq(ThreadObject) /\ Len(threads') = Len(threads) + 1
      /\ \A i \in 1..Len(threads) : threads'[i] = threads[i]
      /\ threads'[Len(threads) + 1] = o
  BY <1>1, <1>2, <1>3, AppendProperties
<1>6. DOMAIN threads = 1..Len(threads) /\ DOMAIN threads' = 1..(Len(threads) + 1)
  BY <1>1, <1>5, LenProperties
<1> QED  BY <1>4, <1>5, <1>6 DEF OneMore

\* Runs.put adds a busy object, or marks busy the object its reference leads to.
LEMMA PutShape ==
  ASSUME TypeOK, NEW t \in Threads, NEW ref \in Nat, PutThread(t, ref)
  PROVE  \/ ref = 0 /\ OneMore(t, "busy")
         \/ /\ ref # 0 /\ made' = made /\ SameObjects
            /\ \A i \in DOMAIN threads :
                 threads'[i].status = IF threads[i].key = ref THEN "busy" ELSE threads[i].status
<1>1. CASE ref = 0
  <2>1. /\ made' = made + 1
        /\ threads' = Append(threads, [id |-> t, key |-> made + 1, status |-> "busy"])
    BY <1>1 DEF PutThread
  <2>2. "busy" \in ThreadStatus
    BY DEF ThreadStatus
  <2> QED  BY <1>1, <2>1, <2>2, AppendShape
<1>2. CASE ref # 0
  <2>1. made' = made /\ threads' = WithStatus(threads, ref, "busy")
    BY <1>2 DEF PutThread
  <2>2. DOMAIN threads' = DOMAIN threads
    BY <2>1 DEF WithStatus
  <2>3. \A i \in DOMAIN threads :
          threads'[i] = IF threads[i].key = ref THEN [threads[i] EXCEPT !.status = "busy"] ELSE threads[i]
    BY <2>1 DEF WithStatus
  <2>4. ASSUME NEW i \in DOMAIN threads
        PROVE  /\ threads'[i].id = threads[i].id /\ threads'[i].key = threads[i].key
               /\ threads'[i].status = IF threads[i].key = ref THEN "busy" ELSE threads[i].status
    BY <2>3, ObjectType DEF ThreadObject
  <2> QED  BY <1>2, <2>1, <2>2, <2>4 DEF SameObjects
<1> QED  BY <1>1, <1>2

\* set_joint_status and set_status write the status of the first object with the id.
LEMMA SetShape ==
  ASSUME TypeOK, NEW t, NEW active, SetThread(t, active)
  PROVE  /\ SameObjects
         /\ \E i \in DOMAIN threads :
              /\ FoundAt(t, i)
              /\ \A j \in DOMAIN threads :
                   threads'[j].status = IF j = i THEN FinalStatus(active) ELSE threads[j].status
<1>1. PICK i \in DOMAIN threads :
        FoundAt(t, i) /\ threads' = [threads EXCEPT ![i].status = FinalStatus(active)]
  BY DEF SetThread
<1>2. DOMAIN threads' = DOMAIN threads
  BY <1>1
<1>3. \A j \in DOMAIN threads :
        threads'[j] = IF j = i THEN [threads[i] EXCEPT !.status = FinalStatus(active)] ELSE threads[j]
  BY <1>1
<1>4. ASSUME NEW j \in DOMAIN threads
      PROVE  /\ threads'[j].id = threads[j].id /\ threads'[j].key = threads[j].key
             /\ threads'[j].status = IF j = i THEN FinalStatus(active) ELSE threads[j].status
  BY <1>3, ObjectType DEF ThreadObject
<1> QED  BY <1>1, <1>2, <1>4 DEF SameObjects

\* A report writes a status at once, or leaves that to a later step.
LEMMA ReportShape ==
  ASSUME TypeOK, NEW r, NEW requeued, ReportOn(r, requeued)
  PROVE  SameObjects
<1>1. CASE Isolated
  BY <1>1 DEF ReportOn, SameObjects
<1>2. CASE ~Isolated
  <2>1. PICK active : SetThread(on[r], active)
    BY <1>2 DEF ReportOn
  <2> QED  BY <2>1, SetShape
<1> QED  BY <1>1, <1>2

\* What a task still does after it has reported on its run writes statuses only.
LEMMA WindDownShape ==
  ASSUME TypeOK, WindDown
  PROVE  SameObjects /\ made' = made
<1>1. ASSUME NEW x \in ending, ReportComputes(x) \/ Cleanup(x)
      PROVE  SameObjects /\ made' = made
  BY <1>1 DEF ReportComputes, Cleanup, threadVars, SameObjects
<1>2. ASSUME NEW x \in ending, ReportWrites(x)
      PROVE  SameObjects /\ made' = made
  <2>1. /\ DOMAIN threads' = DOMAIN threads /\ made' = made
        /\ \A i \in DOMAIN threads :
             threads'[i] = IF threads[i].key = x.ref THEN [threads[i] EXCEPT !.status = x.pc] ELSE threads[i]
    BY <1>2 DEF ReportWrites, WithStatus
  <2>2. ASSUME NEW i \in DOMAIN threads
        PROVE  threads'[i].id = threads[i].id /\ threads'[i].key = threads[i].key
    BY <2>1, ObjectType DEF ThreadObject
  <2> QED  BY <2>1, <2>2 DEF SameObjects
<1> QED  BY <1>1, <1>2 DEF WindDown

\* Interrupting writes statuses only.
LEMMA InterruptShape ==
  ASSUME TypeOK, NEW S, Interrupt(S)
  PROVE  SameObjects
<1>1. /\ DOMAIN threads' = DOMAIN threads
      /\ \A i \in DOMAIN threads :
           threads'[i] = IF ThreadOfPending(S, i)
                         THEN [threads[i] EXCEPT !.status = "idle"] ELSE threads[i]
  BY DEF Interrupt
<1>2. ASSUME NEW i \in DOMAIN threads
      PROVE  threads'[i].id = threads[i].id /\ threads'[i].key = threads[i].key
  BY <1>1, ObjectType DEF ThreadObject
<1> QED  BY <1>1, <1>2 DEF SameObjects

\* Threads.patch gives the object at the position a new key: it is a copy.
LEMMA PatchShape ==
  ASSUME TypeOK, NEW c \in Clients, PatchCommit(c)
  PROVE  \/ UNCHANGED threadVars
         \/ /\ made' = made + 1
            /\ DOMAIN threads' = DOMAIN threads
            /\ \A i \in DOMAIN threads :
                 /\ threads'[i].id = threads[i].id /\ threads'[i].status = threads[i].status
                 /\ threads'[i].key = IF i = client[c].ref THEN made + 1 ELSE threads[i].key
<1> DEFINE at == client[c].ref
<1>1. CASE made' = made + 1 /\ threads' = [threads EXCEPT ![at].key = made + 1]
  <2>1. DOMAIN threads' = DOMAIN threads
    BY <1>1
  <2>2. \A i \in DOMAIN threads :
          threads'[i] = IF i = at THEN [threads[at] EXCEPT !.key = made + 1] ELSE threads[i]
    BY <1>1
  <2>3. ASSUME NEW i \in DOMAIN threads
        PROVE  /\ threads'[i].id = threads[i].id /\ threads'[i].status = threads[i].status
               /\ threads'[i].key = IF i = client[c].ref THEN made + 1 ELSE threads[i].key
    BY <2>2, ObjectType DEF ThreadObject
  <2> QED  BY <1>1, <2>1, <2>3
<1> QED  BY <1>1 DEF PatchCommit

\* Popping a position closes the gap.
LEMMA PopShape ==
  ASSUME TypeOK, NEW at \in DOMAIN threads, threads' = RemoveAt(threads, at)
  PROVE  /\ DOMAIN threads' = 1..(Len(threads) - 1)
         /\ \A i \in 1..(Len(threads) - 1) : threads'[i] = IF i < at THEN threads[i] ELSE threads[i + 1]
<1> DEFINE n == Len(threads)
           a == SubSeq(threads, 1, at - 1)
           b == SubSeq(threads, at + 1, Len(threads))
<1>1. /\ threads \in Seq(ThreadObject) /\ DOMAIN threads = 1..n /\ n \in Nat /\ at \in 1..n
      /\ \A i \in 1..n : threads[i] \in ThreadObject
  BY ObjectType, LenProperties DEF TypeOK
<1>2. a \in Seq(ThreadObject) /\ Len(a) = at - 1 /\ \A i \in 1..(at - 1) : a[i] = threads[i]
  BY <1>1, SubSeqProperties
<1>3. b \in Seq(ThreadObject) /\ Len(b) = n - at /\ \A i \in 1..(n - at) : b[i] = threads[at + i]
  BY <1>1, SubSeqProperties
<1>4. threads' = a \o b
  BY DEF RemoveAt
<1> HIDE DEF a, b
<1>5. /\ threads' \in Seq(ThreadObject) /\ Len(threads') = Len(a) + Len(b)
      /\ \A i \in 1..(Len(a) + Len(b)) : threads'[i] = IF i <= Len(a) THEN a[i] ELSE b[i - Len(a)]
  BY <1>2, <1>3, <1>4, ConcatProperties
<1>6. Len(a) + Len(b) = n - 1
  BY <1>1, <1>2, <1>3
<1>7. DOMAIN threads' = 1..(n - 1)
  BY <1>5, <1>6, LenProperties
<1>8. ASSUME NEW i \in 1..(n - 1)
      PROVE  threads'[i] = IF i < at THEN threads[i] ELSE threads[i + 1]
  <2>1. CASE i < at
    BY <1>1, <1>2, <1>5, <1>6, <2>1
  <2>2. CASE ~(i < at)
    <3> DEFINE k == i - (at - 1)
    <3>1. k \in 1..(n - at) /\ at + k = i + 1 /\ ~(i <= at - 1)
      BY <1>1, <2>2
    <3>2. threads'[i] = b[k]
      BY <1>2, <1>5, <1>6, <3>1
    <3> HIDE DEF k
    <3>3. b[k] = threads[i + 1]
      BY <1>3, <3>1
    <3> QED  BY <2>2, <3>2, <3>3
  <2> QED  BY <2>1, <2>2
<1> QED  BY <1>7, <1>8

-----------------------------------------------------------------------------
(* While no thread is deleted: runs and suspended puts have their thread *)

\* A thread whose object stays, wherever it stays, is still known.
LEMMA KnownBy ==
  ASSUME NEW t, \A i \in DOMAIN threads : i \in DOMAIN threads' /\ threads'[i].id = threads[i].id
  PROVE  Known(t) => Known(t)'
BY DEF Known

\* No step but the end of a thread's deletion makes a thread unknown, and a put that was
\* to create its thread has done so.
LEMMA KnownStays ==
  ASSUME QueueInv, [Next]_vars, NEW t \in Threads
  PROVE  \/ \E c \in Clients : DeleteCommit(c)
         \/ /\ Known(t) => Known(t)'
            /\ \A c \in Clients, r \in Runs, d \in BOOLEAN :
                 /\ PutInsert(c, r, d) /\ client[c].thread = t
                 /\ client[c].ref # 0 => Known(t)
                 => Known(t)'
<1> DEFINE Stays == \A i \in DOMAIN threads : i \in DOMAIN threads' /\ threads'[i].id = threads[i].id
<1>0. TypeOK
  BY DEF QueueInv
<1>1. ASSUME SameObjects PROVE Stays
  BY <1>1 DEF SameObjects
<1>2. ASSUME NEW u \in Threads, NEW s, OneMore(u, s)
      PROVE  Stays /\ Known(u)'
  <2>1. Len(threads) \in Nat /\ DOMAIN threads = 1..Len(threads)
    BY <1>0, LenProperties DEF TypeOK
  <2>2. Stays
    BY <1>2, <2>1 DEF OneMore
  <2>3. Len(threads) + 1 \in DOMAIN threads' /\ threads'[Len(threads) + 1].id = u
    BY <1>2, <2>1 DEF OneMore
  <2> QED  BY <2>2, <2>3 DEF Known
<1>3. ASSUME NEW c \in Clients, client[c].pc = "put",
             PutThread(client[c].thread, client[c].ref)
      PROVE  /\ Stays
             /\ client[c].thread = t /\ (client[c].ref # 0 => Known(t)) => Known(t)'
  <2>1. client[c].thread \in Threads /\ client[c].ref \in Nat
    BY <1>0, <1>3 DEF TypeOK, ClientState
  <2>2. CASE client[c].ref = 0
    <3>1. OneMore(client[c].thread, "busy")
      BY <1>0, <1>3, <2>1, <2>2, PutShape
    <3> QED  BY <1>2, <2>1, <3>1
  <2>3. CASE client[c].ref # 0
    <3>1. SameObjects
      BY <1>0, <1>3, <2>1, <2>3, PutShape
    <3>2. Stays
      BY <1>1, <3>1
    <3> QED  BY <2>3, <3>2, KnownBy
  <2> QED  BY <2>2, <2>3
<1>4. ASSUME NEW c \in Clients, NEW r \in Runs, NEW d \in BOOLEAN, PutInsert(c, r, d)
      PROVE  /\ Stays
             /\ client[c].thread = t /\ (client[c].ref # 0 => Known(t)) => Known(t)'
  BY <1>3, <1>4 DEF PutInsert
<1>5. Stays \/ \E c \in Clients : DeleteCommit(c)
  <2>1. ASSUME NEW c \in Clients, Request(c), ~DeleteCommit(c) PROVE Stays
    <3>1. CASE PutInflight(c)
      BY <1>3, <3>1 DEF PutInflight
    <3>2. CASE PatchCommit(c)
      BY <1>0, <3>2, PatchShape DEF threadVars
    <3>3. CASE \/ RollbackCommit(c) \/ \E r \in Runs : RollbackBegin(c, r)
               \/ \E u \in Threads : PutFetch(c, u) \/ PatchBegin(c, u) \/ DeleteBegin(c, u)
      <4>1. threads' = threads
        BY <3>3 DEF RollbackCommit, RollbackBegin, PutFetch, PatchBegin, DeleteBegin, threadVars
      <4> QED  BY <4>1
    <3> QED  BY <1>4, <2>1, <3>1, <3>2, <3>3 DEF Request
  <2>2. ASSUME NEW u \in Threads, CreateThread(u) PROVE Stays
    <3>1. "idle" \in ThreadStatus
      BY DEF ThreadStatus
    <3>2. OneMore(u, "idle")
      BY <1>0, <2>2, <3>1, AppendShape DEF CreateThread
    <3> QED  BY <1>2, <3>2
  <2>3. ASSUME NEW u \in Threads, SetStatus(u) PROVE Stays
    BY <1>0, <1>1, <2>3, SetShape DEF SetStatus
  <2>4. ASSUME NEW r \in Runs, WorkerEnds(r) PROVE Stays
    <3>1. ASSUME NEW requeued, ReportOn(r, requeued) PROVE Stays
      BY <1>0, <1>1, <3>1, ReportShape
    <3>2. ASSUME NEW o, JointStatus(r, o) PROVE Stays
      BY <3>1, <3>2 DEF JointStatus
    <3>3. CASE JointRollback(r)
      BY <3>1, <3>3 DEF JointRollback
    <3>4. CASE JointNotFound(r)
      BY <3>4 DEF JointNotFound, threadVars
    <3> QED  BY <2>4, <3>2, <3>3, <3>4 DEF WorkerEnds
  <2>5. ASSUME NEW S \in SUBSET stored, Interrupt(S) PROVE Stays
    BY <1>0, <1>1, <2>5, InterruptShape
  <2>6. CASE \/ Scheduler \/ Crash \/ UNCHANGED vars
             \/ \E r \in Runs : ComesDue(r) \/ DeleteRun(r)
    <3>1. threads' = threads
      BY <2>6 DEF Scheduler, NextStart, NextSelect, NextWarned, NextEnd, NextOrphan, NextSkip,
         Dispatch, Crash, ComesDue, DeleteRun, threadVars, vars
    <3> QED  BY <3>1
  <2>7. ASSUME WindDown PROVE Stays
    BY <1>0, <1>1, <2>7, WindDownShape
  <2> QED  BY <2>1, <2>2, <2>3, <2>4, <2>5, <2>6, <2>7 DEF Next
<1> QED  BY <1>4, <1>5, KnownBy

\* A step either leaves a run's store entry and thread alone, removes it, or is the
\* Runs.put that adds it.
LEMMA EntersByPut ==
  ASSUME QueueInv, [Next]_vars, NEW r \in stored'
  PROVE  \/ r \in stored /\ on'[r] = on[r]
         \/ \E c \in Clients, d \in BOOLEAN :
              r \in Runs /\ PutInsert(c, r, d) /\ on'[r] = client[c].thread
<1>0. TypeOK
  BY DEF QueueInv
<1>1. ASSUME NEW c \in Clients, NEW q \in Runs, NEW d \in BOOLEAN, PutInsert(c, q, d)
      PROVE  \/ r \in stored /\ on'[r] = on[r]
             \/ r = q /\ on'[r] = client[c].thread
  BY <1>0, <1>1 DEF PutInsert, TypeOK
<1>2. CASE ~ \E c \in Clients, q \in Runs, d \in BOOLEAN : PutInsert(c, q, d)
  <2>1. stored' \subseteq stored /\ on' = on
    BY <1>2 DEF Next, Request, PutFetch, PutInflight, PatchBegin, PatchCommit, DeleteBegin, DeleteCommit,
       RollbackBegin, RollbackCommit, CreateThread, SetStatus, ComesDue, DeleteRun, WorkerEnds,
       JointStatus, JointRollback, JointNotFound, Interrupt, Scheduler, NextStart, NextSelect,
       NextWarned, NextEnd, NextOrphan, NextSkip, Dispatch, WindDown, ReportComputes, ReportWrites,
       Cleanup, Crash, runVars, vars
  <2> QED  BY <2>1
<1> QED  BY <1>1, <1>2

\* A suspended request is one that was suspended before, or that this step suspends.
LEMMA SuspendedBy ==
  ASSUME QueueInv, [Next]_vars, NEW c \in Clients
  PROVE  \/ client'[c] = client[c]
         \/ client'[c] = IdleClient
         \/ \E t \in Threads : PutFetch(c, t) \/ PatchBegin(c, t) \/ DeleteBegin(c, t)
         \/ \E r \in Runs : RollbackBegin(c, r)
<1>0. client \in [Clients -> ClientState]
  BY DEF QueueInv, TypeOK
<1>1. ASSUME NEW e \in Clients, Request(e), e # c
      PROVE  client'[c] = client[c]
  BY <1>0, <1>1 DEF Request, PutFetch, PutInflight, PutInsert, PatchBegin, PatchCommit, DeleteBegin,
     DeleteCommit, RollbackBegin, RollbackCommit, Suspend, Return
<1>2. ASSUME PutInflight(c) \/ PatchCommit(c) \/ DeleteCommit(c) \/ RollbackCommit(c)
               \/ \E r \in Runs, d \in BOOLEAN : PutInsert(c, r, d)
      PROVE  client'[c] = IdleClient
  BY <1>0, <1>2 DEF PutInflight, PatchCommit, DeleteCommit, RollbackCommit, PutInsert, Return
<1>3. CASE Crash
  BY <1>3 DEF Crash
<1>4. CASE ~Crash /\ ~ \E e \in Clients : Request(e)
  <2>1. client' = client
    BY <1>4 DEF Next, CreateThread, SetStatus, ComesDue, DeleteRun, WorkerEnds,
       JointStatus, JointRollback, JointNotFound, Interrupt, Scheduler, NextStart, NextSelect,
       NextWarned, NextEnd, NextOrphan, NextSkip, Dispatch, WindDown, ReportComputes, ReportWrites,
       Cleanup, vars
  <2> QED  BY <2>1
<1>5. CASE Request(c)
  BY <1>2, <1>5 DEF Request
<1> QED  BY <1>1, <1>3, <1>4, <1>5

\* The thread of every stored run stays known, if a put relies on a thread that is there.
LEMMA RunsHaveThreadStep ==
  ASSUME QueueInv, RunsHaveThread, [Next]_vars, ~ \E c \in Clients : DeleteCommit(c),
         \A c \in Clients : client[c].pc = "put" /\ client[c].ref # 0 => Known(client[c].thread)
  PROVE  RunsHaveThread'
<1> SUFFICES ASSUME NEW r \in stored' PROVE Known(on[r])'
  BY DEF RunsHaveThread
<1>1. CASE r \in stored /\ on'[r] = on[r]
  <2>1. Known(on[r])
    BY <1>1 DEF RunsHaveThread
  <2>2. on[r] \in Threads
    BY <2>1, ObjectType DEF Known, QueueInv, ThreadObject
  <2>3. PICK t \in Threads : t = on[r]
    BY <2>2
  <2>4. Known(t)'
    BY <2>1, <2>3, KnownStays
  <2> QED  BY <1>1, <2>3, <2>4
<1>2. ASSUME NEW c \in Clients, NEW d \in BOOLEAN, r \in Runs, PutInsert(c, r, d),
             on'[r] = client[c].thread
      PROVE  Known(on[r])'
  <2>1. client[c].pc = "put" /\ client[c].thread \in Threads
    BY <1>2 DEF PutInsert, QueueInv, TypeOK, ClientState
  <2>2. PICK t \in Threads : t = client[c].thread
    BY <2>1
  <2>3. client[c].ref # 0 => Known(t)
    BY <2>1, <2>2
  <2>4. Known(t)'
    BY <1>2, <2>2, <2>3, KnownStays
  <2> QED  BY <1>2, <2>2, <2>4
<1> QED  BY <1>1, <1>2, EntersByPut

\* The thread of every stored run, and the one a put has fetched, stay known.
LEMMA KnownThreadsStep ==
  ASSUME "delete_thread" \notin Ops, QueueInv, KnownThreads, [Next]_vars
  PROVE  KnownThreads'
<1>1. \A c \in Clients : client[c].pc # "delete"
  BY DEF KnownThreads
<1>2. ~ \E c \in Clients : DeleteCommit(c)
  BY <1>1 DEF DeleteCommit
<1>3. client \in [Clients -> ClientState]
  BY DEF QueueInv, TypeOK
<1>4. RunsHaveThread'
  BY <1>2, RunsHaveThreadStep DEF KnownThreads
<1>5. ASSUME NEW c \in Clients
      PROVE  /\ client'[c].pc # "delete"
             /\ client'[c].pc = "put" /\ client'[c].ref # 0 => Known(client[c].thread)'
  <2>1. CASE client'[c] = client[c]
    <3>1. ASSUME client[c].pc = "put", client[c].ref # 0
          PROVE  Known(client[c].thread)'
      <4>1. PICK t \in Threads : t = client[c].thread
        BY <1>3, <3>1 DEF ClientState
      <4>2. Known(t)'
        BY <1>2, <3>1, <4>1, KnownStays DEF KnownThreads
      <4> QED  BY <2>1, <4>1, <4>2
    <3> QED  BY <1>1, <2>1, <3>1
  <2>2. CASE client'[c] = IdleClient
    BY <2>2 DEF IdleClient
  <2>3. ASSUME NEW t \in Threads, PutFetch(c, t)
        PROVE  client'[c].pc = "put" /\ (client'[c].ref # 0 => Known(client[c].thread)')
    <3>1. threads' = threads
      BY <2>3 DEF PutFetch, threadVars
    <3>2. CASE \E i \in DOMAIN threads : FoundAt(t, i) /\ Suspend(c, "put", t, None, threads[i].key)
      <4>1. Known(t) /\ client'[c].pc = "put" /\ client'[c].thread = t
        BY <1>3, <3>2 DEF FoundAt, Known, Suspend
      <4> QED  BY <3>1, <4>1 DEF Known
    <3>3. CASE Suspend(c, "put", t, None, 0)
      BY <1>3, <3>3 DEF Suspend
    <3> QED  BY <2>3, <3>2, <3>3 DEF PutFetch
  <2>4. ASSUME \/ \E t \in Threads : PatchBegin(c, t)
               \/ \E r \in Runs : RollbackBegin(c, r)
        PROVE  client'[c].pc \in {"patch", "rollback"}
    BY <1>3, <2>4 DEF PatchBegin, RollbackBegin, Suspend
  <2>5. ASSUME NEW t \in Threads, DeleteBegin(c, t) PROVE FALSE
    BY <2>5 DEF DeleteBegin
  <2> QED  BY <2>1, <2>2, <2>3, <2>4, <2>5, SuspendedBy
<1> QED  BY <1>4, <1>5 DEF KnownThreads

\* Nothing is stored and nobody is suspended at the start.
LEMMA KnownThreadsInit == Init => KnownThreads
BY DEF Init, KnownThreads, RunsHaveThread, IdleClient

\* A running run loses its worker only by a report that changes its status, by its
\* removal, or by a crash.
LEMMA WorkersStep ==
  ASSUME MaxCrashes = 0, QueueInv, KnownThreads, RunningHasWorker, [Next]_vars
  PROVE  RunningHasWorker'
<1> SUFFICES ASSUME NEW r \in stored', status'[r] = "running"
             PROVE  r \in live'
  BY DEF RunningHasWorker
<1>0. /\ stored \subseteq Runs /\ status \in [Runs -> RunStatus \cup {"unborn"}]
      /\ crashes \in 0..MaxCrashes
      /\ \A q \in stored : Known(on[q]) /\ (status[q] = "running" => q \in live)
  BY DEF QueueInv, TypeOK, KnownThreads, RunsHaveThread, RunningHasWorker
<1>1. ASSUME NEW c \in Clients, Request(c)
      PROVE  r \in live'
  <2>1. ASSUME NEW q \in Runs, NEW d \in BOOLEAN, PutInsert(c, q, d)
        PROVE  r \in stored /\ status[r] = "running" /\ live' = live
    BY <1>0, <2>1 DEF PutInsert, poolVars
  <2>2. r \in stored /\ status[r] = "running" /\ live' = live
    <3>1. CASE ~ \E q \in Runs, d \in BOOLEAN : PutInsert(c, q, d)
      BY <1>1, <3>1 DEF Request, PutFetch, PutInflight, PatchBegin, PatchCommit, DeleteBegin,
         DeleteCommit, RollbackBegin, RollbackCommit, runVars, poolVars
    <3> QED  BY <2>1, <3>1
  <2> QED  BY <1>0, <2>2
<1>2. ASSUME NEW q \in Runs, WorkerEnds(q)
      PROVE  r \in live'
  <2>1. ASSUME NEW o \in Finished \cup {"pending"}, JointStatus(q, o)
        PROVE  r \in live'
    BY <1>0, <2>1 DEF JointStatus, RunStatusSet, ReportOn, Leaves, Finished
  <2>2. CASE JointRollback(q)
    BY <1>0, <2>2 DEF JointRollback, ReportOn, Leaves
  <2>3. CASE JointNotFound(q)
    BY <1>0, <2>3 DEF JointNotFound, Leaves, runVars
  <2> QED  BY <1>2, <2>1, <2>2, <2>3 DEF WorkerEnds
<1>3. ASSUME NEW q \in Runs, Dispatch(q)
      PROVE  r \in live'
  BY <1>0, <1>3 DEF Dispatch
<1>4. ASSUME NEW S \in SUBSET stored, Interrupt(S)
      PROVE  r \in live'
  BY <1>0, <1>4 DEF Interrupt, CancelledAs, poolVars
<1>5. ~Crash
  BY <1>0 DEF Crash
<1>6. CASE \/ \E t \in Threads : CreateThread(t) \/ SetStatus(t)
           \/ \E q \in Runs : ComesDue(q) \/ DeleteRun(q) \/ NextOrphan(q) \/ NextSkip(q)
           \/ NextStart \/ NextSelect \/ NextWarned \/ NextEnd \/ WindDown \/ UNCHANGED vars
  <2>1. stored' \subseteq stored /\ UNCHANGED <<status, live>>
    BY <1>6 DEF CreateThread, SetStatus, ComesDue, DeleteRun, NextOrphan, NextSkip, NextStart,
       NextSelect, NextWarned, NextEnd, WindDown, ReportComputes, ReportWrites, Cleanup,
       runVars, poolVars, vars
  <2> QED  BY <1>0, <2>1
<1> QED  BY <1>1, <1>2, <1>3, <1>4, <1>5, <1>6 DEF Next, Scheduler

\* While no thread is deleted and the process lives, every run marked running has a worker
\* that will report its end: it never blocks its thread for good (Runs.next,
\* set_joint_status), whatever is interrupted, rolled back, retried or patched meanwhile.
THEOREM WorkersRemain ==
  ASSUME "delete_thread" \notin Ops, MaxCrashes = 0
  PROVE  Spec => []RunningHasWorker
<1> DEFINE J == QueueInv /\ KnownThreads /\ RunningHasWorker
<1>1. Init => J
  BY QueueInvInit, KnownThreadsInit DEF Init, RunningHasWorker
<1>2. J /\ [Next]_vars => J'
  BY QueueInvStep, KnownThreadsStep, WorkersStep
<1>3. J => RunningHasWorker
  OBVIOUS
<1> QED  BY <1>1, <1>2, <1>3, PTL DEF Spec

-----------------------------------------------------------------------------
(* The order in which the runs of a thread start *)

\* With a run, the n oldest contain every older candidate.
LEMMA OlderIsSelected ==
  ASSUME createdAt \in [Runs -> Nat], NEW S \in SUBSET Runs, NEW n \in Nat,
         NEW r \in Oldest(S, n), NEW q \in S, createdAt[q] <= createdAt[r]
  PROVE  q \in Oldest(S, n)
<1> DEFINE Older(p) == {o \in S : createdAt[o] < createdAt[p]}
<1>1. r \in S /\ Cardinality(Older(r)) < n
  BY DEF Oldest
<1>2. Older(q) \subseteq Older(r)
  BY <1>1
<1>3. IsFiniteSet(Older(r)) /\ Cardinality(Older(r)) \in Nat /\ Cardinality(Older(q)) \in Nat
  BY FiniteRuns
<1>4. Cardinality(Older(q)) <= Cardinality(Older(r))
  BY <1>2, <1>3, FS_Subset
<1>5. Cardinality(Older(q)) < n
  BY <1>1, <1>3, <1>4
<1> QED  BY <1>5 DEF Oldest

\* Outside the scan only the scheduler moves itself.
LEMMA SchedMoves ==
  ASSUME Isolated = FALSE, QueueInv, [Next]_vars
  PROVE  \/ Scheduler \/ Crash \/ UNCHANGED vars
         \/ \E r \in Runs : ComesDue(r)
         \/ LoopFree /\ sched' = sched /\ live' \subseteq live
<1>1. ASSUME NEW c \in Clients, Request(c)
      PROVE  LoopFree /\ sched' = sched /\ live' \subseteq live
  BY <1>1 DEF Request, PutFetch, PutInflight, PutInsert, PatchBegin, PatchCommit, DeleteBegin,
     DeleteCommit, RollbackBegin, RollbackCommit, poolVars
<1>2. ASSUME \/ \E t \in Threads : CreateThread(t) \/ SetStatus(t)
             \/ \E r \in Runs : DeleteRun(r) \/ WorkerEnds(r)
             \/ \E S \in SUBSET stored : Interrupt(S)
             \/ WindDown
      PROVE  LoopFree /\ sched' = sched /\ live' \subseteq live
  BY <1>2 DEF CreateThread, SetStatus, DeleteRun, WorkerEnds, JointStatus, JointRollback, JointNotFound,
     WorkerMoves, ReportOn, Leaves, Interrupt, WindDown, ReportComputes, ReportWrites, Cleanup, poolVars
<1> QED  BY <1>1, <1>2 DEF Next

\* The list of a scan loses a run only to its own examination, which leaves an older run of
\* the same thread neither pending nor startable.
LEMMA OrderStep ==
  ASSUME Isolated = FALSE, QueueInv, KnownThreads, OlderGoFirst, [Next]_vars
  PROVE  OlderGoFirst'
<1>0. /\ stored \subseteq Runs /\ createdAt \in [Runs -> Nat] /\ clock \in Nat
      /\ status \in [Runs -> RunStatus \cup {"unborn"}] /\ sched \in SchedState
      /\ \A r \in Runs : createdAt[r] <= clock
      /\ \A r \in stored : Known(on[r])
  BY DEF QueueInv, TypeOK, CreationOrder, KnownThreads, RunsHaveThread
<1>1. CASE NextStart \/ NextEnd
  <2>1. CASE NextStart
    BY <1>0, <2>1 DEF NextStart, SchedState, OlderGoFirst
  <2>2. CASE NextEnd
    BY <2>2 DEF NextEnd, IdleSched, OlderGoFirst
  <2> QED  BY <1>1, <2>1, <2>2
<1>2. CASE NextSelect
  <2> DEFINE P == Pending(sched.horizon)
             T == Oldest(P, sched.limit)
  <2>1. /\ sched'.pc = "scan" /\ sched'.todo = T
        /\ UNCHANGED <<stored, status, on, createdAt>>
    BY <1>0, <1>2 DEF NextSelect, SchedState, runVars
  <2>2. P \in SUBSET Runs /\ sched.limit \in Nat /\ sched.horizon \in Nat
    BY <1>0 DEF Pending, SchedState
  <2>3. \A r \in P : r \in stored /\ createdAt[r] > 0 /\ createdAt[r] <= sched.horizon
    BY <1>0, <2>2 DEF Pending
  <2>4. T \subseteq P
    BY DEF Oldest
  <2>5. ASSUME NEW r \in T, NEW q \in stored, on[q] = on[r], status[q] = "pending",
               createdAt[q] > 0, createdAt[q] < createdAt[r]
        PROVE  q \in T
    <3>1. r \in Runs /\ q \in Runs /\ createdAt[r] <= sched.horizon
      BY <1>0, <2>2, <2>3, <2>4
    <3>2. q \in P
      BY <1>0, <2>2, <2>5, <3>1 DEF Pending
    <3>3. createdAt[q] <= createdAt[r]
      BY <1>0, <2>5, <3>1
    <3> HIDE DEF P
    <3> QED  BY <1>0, <2>2, <3>2, <3>3, OlderIsSelected
  <2> HIDE DEF T, P
  <2> QED  BY <2>1, <2>3, <2>4, <2>5 DEF OlderGoFirst
<1>3. ASSUME NEW r0 \in Runs, NextOrphan(r0) PROVE FALSE
  BY <1>0, <1>3 DEF NextOrphan, Examines, OlderGoFirst
<1>4. CASE NextWarned
  BY <1>4 DEF NextWarned, OlderGoFirst
<1>5. ASSUME NEW r0 \in Runs, NextSkip(r0) PROVE OlderGoFirst'
  <2>1. /\ sched.pc = "scan" /\ sched'.pc = "scan" /\ r0 \in sched.todo
        /\ sched'.todo = sched.todo \ {r0}
        /\ UNCHANGED <<stored, status, on, createdAt>>
        /\ status[r0] = "pending" => Blocked(on[r0])
    BY <1>0, <1>5 DEF NextSkip, Examines, DoneWith, SchedState, Startable, runVars
  <2>2. \A r \in sched'.todo : Blocked(on[r]) => Blocked(on[r])'
    BY <2>1 DEF Blocked
  <2>3. ASSUME NEW r \in sched'.todo, NEW q \in stored', on'[q] = on'[r], status'[q] = "pending",
               createdAt'[q] > 0, createdAt'[q] < createdAt'[r]
        PROVE  q \in sched'.todo \/ Blocked(on[r])'
    <3>1. q \in sched.todo \/ Blocked(on[r])
      BY <2>1, <2>3 DEF OlderGoFirst
    <3>2. CASE q = r0
      BY <2>1, <2>2, <2>3, <3>2
    <3> QED  BY <2>1, <2>2, <3>1, <3>2
  <2> QED  BY <2>1, <2>3 DEF OlderGoFirst
<1>6. ASSUME NEW r0 \in Runs, Dispatch(r0) PROVE OlderGoFirst'
  <2>1. /\ sched.pc = "scan" /\ sched'.pc = "scan" /\ r0 \in sched.todo
        /\ sched'.todo = sched.todo \ {r0}
        /\ status' = [status EXCEPT ![r0] = "running"]
        /\ UNCHANGED <<stored, on, createdAt>>
    BY <1>0, <1>6 DEF Dispatch, Examines, DoneWith, SchedState
  <2>2. \A r \in sched'.todo : Blocked(on[r]) => Blocked(on[r])'
    BY <1>0, <2>1 DEF Blocked
  <2>3. ASSUME NEW r \in sched'.todo, NEW q \in stored', on'[q] = on'[r], status'[q] = "pending",
               createdAt'[q] > 0, createdAt'[q] < createdAt'[r]
        PROVE  q \in sched'.todo \/ Blocked(on[r])'
    <3>1. q # r0 /\ status[q] = "pending"
      BY <1>0, <2>1, <2>3
    <3>2. q \in sched.todo \/ Blocked(on[r])
      BY <2>1, <2>3, <3>1 DEF OlderGoFirst
    <3> QED  BY <2>1, <2>2, <3>1, <3>2
  <2> QED  BY <2>1, <2>3 DEF OlderGoFirst
<1>7. ASSUME NEW r0 \in Runs, ComesDue(r0) PROVE OlderGoFirst'
  <2>1. /\ createdAt[r0] = 0 /\ createdAt' = [createdAt EXCEPT ![r0] = clock + 1]
        /\ UNCHANGED <<stored, status, on, sched>>
    BY <1>7 DEF ComesDue
  <2>2. CASE sched.pc = "scan"
    <3>1. \A r \in sched.todo : r \in Runs /\ createdAt[r] > 0
      BY <1>0, <2>2 DEF OlderGoFirst
    <3>2. \A r \in sched.todo : r # r0 /\ createdAt'[r] = createdAt[r] /\ createdAt[r] <= clock
      BY <1>0, <2>1, <3>1
    <3>3. \A r \in sched.todo : Blocked(on[r]) => Blocked(on[r])'
      BY <2>1 DEF Blocked
    <3>4. ASSUME NEW r \in sched.todo, NEW q \in stored, on[q] = on[r], status[q] = "pending",
                 createdAt'[q] > 0, createdAt'[q] < createdAt'[r]
          PROVE  q \in sched.todo \/ Blocked(on[r])
      <4>1. q \in Runs /\ r \in Runs /\ createdAt'[q] < createdAt[r]
        BY <1>0, <3>1, <3>2, <3>4
      <4>2. q # r0
        BY <1>0, <2>1, <3>2, <4>1
      <4>3. createdAt'[q] = createdAt[q]
        BY <1>0, <2>1, <4>1, <4>2
      <4> QED  BY <2>2, <3>4, <4>1, <4>3 DEF OlderGoFirst
    <3> QED  BY <2>1, <2>2, <3>1, <3>2, <3>3, <3>4 DEF OlderGoFirst
  <2> QED  BY <2>1, <2>2 DEF OlderGoFirst
<1>8. CASE Crash
  BY <1>8 DEF Crash, IdleSched, OlderGoFirst
<1>9. CASE UNCHANGED vars
  BY <1>9 DEF vars, runVars, OlderGoFirst, Blocked
<1>10. CASE LoopFree /\ sched' = sched
  BY <1>10 DEF LoopFree, OlderGoFirst
<1> QED  BY <1>1, <1>2, <1>3, <1>4, <1>5, <1>6, <1>7, <1>8, <1>9, <1>10, SchedMoves DEF Scheduler

\* While no thread is deleted and workers share the scheduler's loop, the due runs of a
\* thread start oldest first: no retry, delay, cancellation, skip or restart lets one
\* overtake (the sort of Runs.next and its check for a running run).
THEOREM OldestStartsFirst ==
  ASSUME "delete_thread" \notin Ops, Isolated = FALSE
  PROVE  Spec => FifoPerThread
<1> DEFINE J == QueueInv /\ KnownThreads /\ OlderGoFirst
           A == \A r \in live' \ live, q \in stored :
                  on[q] = on[r] /\ status[q] = "pending" /\ createdAt[q] > 0
                    => createdAt[r] <= createdAt[q]
<1>1. Init => J
  BY QueueInvInit, KnownThreadsInit DEF Init, OlderGoFirst, IdleSched
<1>2. J /\ [Next]_vars => J'
  BY QueueInvStep, KnownThreadsStep, OrderStep
<1>3. J /\ [Next]_vars => A
  <2> SUFFICES ASSUME J, [Next]_vars, NEW r \in live' \ live, NEW q \in stored,
                      on[q] = on[r], status[q] = "pending", createdAt[q] > 0
               PROVE  createdAt[r] <= createdAt[q]
    OBVIOUS
  <2>1. \E p \in Runs : Dispatch(p)
    BY SchedMoves DEF Scheduler, NextStart, NextSelect, NextWarned, NextEnd, NextOrphan, NextSkip,
       Crash, ComesDue, poolVars, vars
  <2>2. Dispatch(r)
    BY <2>1 DEF Dispatch
  <2>3. /\ sched.pc = "scan" /\ r \in sched.todo /\ ~Blocked(on[r])
        /\ \A p \in sched.todo : createdAt[r] <= createdAt[p]
    BY <2>2 DEF Dispatch, Examines, Startable
  <2>4. createdAt \in [Runs -> Nat] /\ q \in Runs /\ r \in Runs
    BY <2>3 DEF QueueInv, TypeOK, OlderGoFirst
  <2>5. CASE createdAt[q] < createdAt[r]
    BY <2>3, <2>5 DEF OlderGoFirst
  <2> QED  BY <2>4, <2>5
<1> HIDE DEF A
<1>4. J /\ [Next]_vars => [A]_vars
  BY <1>3
<1>5. Spec => [][A]_vars
  BY <1>1, <1>2, <1>4, PTL DEF Spec
<1> QED  BY <1>5 DEF A, FifoPerThread
-----------------------------------------------------------------------------
(* While requests do not overlap: references hold and active threads are busy *)

\* What a step outside the requests does to the thread list.
LEMMA ListMoves ==
  ASSUME QueueInv, [Next]_vars, ~ \E c \in Clients : Request(c)
  PROVE  \/ SameObjects /\ made' = made
         \/ \E t \in Threads : CreateThread(t) /\ OneMore(t, "idle")
<1>0. TypeOK
  BY DEF QueueInv
<1>1. ASSUME NEW t \in Threads, CreateThread(t)
      PROVE  OneMore(t, "idle")
  <2>1. "idle" \in ThreadStatus
    BY DEF ThreadStatus
  <2> QED  BY <1>0, <1>1, <2>1, AppendShape DEF CreateThread
<1>2. ASSUME NEW t \in Threads, SetStatus(t)
      PROVE  SameObjects /\ made' = made
  BY <1>0, <1>2, SetShape DEF SetStatus
<1>3. ASSUME NEW r \in Runs, WorkerEnds(r)
      PROVE  SameObjects /\ made' = made
  <2>1. ASSUME NEW requeued, ReportOn(r, requeued) PROVE SameObjects
    BY <1>0, <2>1, ReportShape
  <2>2. ASSUME NEW o, JointStatus(r, o) PROVE SameObjects /\ made' = made
    BY <2>1, <2>2 DEF JointStatus
  <2>3. CASE JointRollback(r)
    BY <2>1, <2>3 DEF JointRollback
  <2>4. CASE JointNotFound(r)
    BY <2>4 DEF JointNotFound, threadVars, SameObjects
  <2> QED  BY <1>3, <2>2, <2>3, <2>4 DEF WorkerEnds
<1>4. ASSUME NEW S \in SUBSET stored, Interrupt(S)
      PROVE  SameObjects /\ made' = made
  BY <1>0, <1>4, InterruptShape DEF Interrupt
<1>5. CASE \/ Scheduler \/ Crash \/ UNCHANGED vars
           \/ \E r \in Runs : ComesDue(r) \/ DeleteRun(r)
  <2>1. threads' = threads /\ made' = made
    BY <1>5 DEF Scheduler, NextStart, NextSelect, NextWarned, NextEnd, NextOrphan, NextSkip,
       Dispatch, Crash, ComesDue, DeleteRun, threadVars, vars
  <2> QED  BY <2>1 DEF SameObjects
<1>6. ASSUME WindDown
      PROVE  SameObjects /\ made' = made
  BY <1>0, <1>6, WindDownShape
<1> QED  BY <1>1, <1>2, <1>3, <1>4, <1>5, <1>6 DEF Next

\* A new object has an id and a key of its own.
LEMMA AddedIsUnique ==
  ASSUME TypeOK, UniqueObjects, NEW t, NEW s, OneMore(t, s), ~Known(t)
  PROVE  UniqueObjects'
<1> DEFINE n == Len(threads) + 1
<1>1. /\ DOMAIN threads = 1..Len(threads) /\ Len(threads) \in Nat /\ made \in Nat
      /\ DOMAIN threads' = 1..n /\ made' = made + 1
      /\ \A i \in DOMAIN threads : threads'[i] = threads[i]
      /\ threads'[n].id = t /\ threads'[n].key = made + 1
  BY LenProperties DEF TypeOK, OneMore
<1>2. \A i \in DOMAIN threads' : i = n \/ i \in DOMAIN threads
  BY <1>1
<1>3. \A i \in DOMAIN threads : threads[i].id # t /\ threads[i].key \in 1..made
  BY DEF Known, UniqueObjects
<1>4. \A i \in DOMAIN threads : threads[i].key # made + 1 /\ threads[i].key \in 1..(made + 1)
  BY <1>1, <1>3
<1>5. made + 1 \in 1..(made + 1)
  BY <1>1
<1> HIDE DEF n
<1> QED  BY <1>1, <1>2, <1>3, <1>4, <1>5 DEF UniqueObjects

\* A copy made by Threads.patch has a key of its own.
LEMMA PatchedIsUnique ==
  ASSUME TypeOK, UniqueObjects, NEW c \in Clients, PatchCommit(c)
  PROVE  UniqueObjects'
<1>1. CASE UNCHANGED threadVars
  BY <1>1 DEF threadVars, UniqueObjects
<1>2. CASE /\ made' = made + 1 /\ DOMAIN threads' = DOMAIN threads
           /\ \A i \in DOMAIN threads :
                /\ threads'[i].id = threads[i].id
                /\ threads'[i].key = IF i = client[c].ref THEN made + 1 ELSE threads[i].key
  <2>1. made \in Nat
    BY DEF TypeOK
  <2>2. \A i \in DOMAIN threads : threads[i].key \in 1..made
    BY DEF UniqueObjects
  <2>3. \A i \in DOMAIN threads : threads[i].key # made + 1 /\ threads'[i].key \in 1..made'
    BY <1>2, <2>1, <2>2
  <2> QED  BY <1>2, <2>3 DEF UniqueObjects
<1> QED  BY <1>1, <1>2, PatchShape

\* The objects left by a pop were there before.
LEMMA PoppedObjects ==
  ASSUME TypeOK, NEW at \in DOMAIN threads, threads' = RemoveAt(threads, at)
  PROVE  /\ \A i \in DOMAIN threads' :
              \E k \in DOMAIN threads :
                k = (IF i < at THEN i ELSE i + 1) /\ k # at /\ threads'[i] = threads[k]
         /\ \A k \in DOMAIN threads : k # at => \E i \in DOMAIN threads' : threads'[i] = threads[k]
<1>1. /\ DOMAIN threads = 1..Len(threads) /\ Len(threads) \in Nat
      /\ DOMAIN threads' = 1..(Len(threads) - 1)
      /\ \A i \in 1..(Len(threads) - 1) : threads'[i] = IF i < at THEN threads[i] ELSE threads[i + 1]
  BY PopShape, LenProperties DEF TypeOK
<1>2. ASSUME NEW i \in DOMAIN threads'
      PROVE  \E k \in DOMAIN threads :
               k = (IF i < at THEN i ELSE i + 1) /\ k # at /\ threads'[i] = threads[k]
  BY <1>1
<1>3. ASSUME NEW k \in DOMAIN threads, k # at
      PROVE  \E i \in DOMAIN threads' : threads'[i] = threads[k]
  <2>1. CASE k < at
    BY <1>1, <2>1
  <2>2. CASE ~(k < at)
    <3>1. k - 1 \in DOMAIN threads' /\ ~(k - 1 < at) /\ (k - 1) + 1 = k
      BY <1>1, <1>3, <2>2
    <3>2. threads'[k - 1] = threads[k]
      BY <1>1, <3>1
    <3> QED  BY <3>1, <3>2
  <2> QED  BY <2>1, <2>2
<1> QED  BY <1>2, <1>3

\* A pop keeps ids and keys apart.
LEMMA PoppedIsUnique ==
  ASSUME TypeOK, UniqueObjects, NEW at \in DOMAIN threads, threads' = RemoveAt(threads, at),
         made' = made
  PROVE  UniqueObjects'
<1>1. \A i \in DOMAIN threads' :
        \E k \in DOMAIN threads : k = (IF i < at THEN i ELSE i + 1) /\ threads'[i] = threads[k]
  BY PoppedObjects
<1>2. DOMAIN threads' \subseteq Int /\ at \in Int
  BY PopShape, ObjectType
<1>3. ASSUME NEW i \in DOMAIN threads', NEW j \in DOMAIN threads',
             threads'[i].id = threads'[j].id \/ threads'[i].key = threads'[j].key
      PROVE  i = j
  <2>1. PICK k \in DOMAIN threads : k = (IF i < at THEN i ELSE i + 1) /\ threads'[i] = threads[k]
    BY <1>1
  <2>2. PICK l \in DOMAIN threads : l = (IF j < at THEN j ELSE j + 1) /\ threads'[j] = threads[l]
    BY <1>1
  <2>3. k = l
    BY <1>3, <2>1, <2>2 DEF UniqueObjects
  <2> QED  BY <1>2, <2>1, <2>2, <2>3
<1>4. \A i \in DOMAIN threads' : threads'[i].key \in 1..made'
  BY <1>1 DEF UniqueObjects
<1> QED  BY <1>3, <1>4 DEF UniqueObjects

\* Every step keeps ids and keys apart.
LEMMA UniqueObjectsStep ==
  ASSUME QueueInv, ReferencesHold, [Next]_vars
  PROVE  UniqueObjects'
<1>0. /\ TypeOK /\ UniqueObjects /\ client \in [Clients -> ClientState]
      /\ HandlesHold
  BY DEF QueueInv, ReferencesHold, TypeOK
<1>1. ASSUME SameObjects, made' = made PROVE UniqueObjects'
  BY <1>0, <1>1 DEF SameObjects, UniqueObjects
<1>2. CASE ~ \E c \in Clients : Request(c)
  <2>1. ASSUME NEW t \in Threads, CreateThread(t), OneMore(t, "idle")
        PROVE  UniqueObjects'
    BY <1>0, <2>1, AddedIsUnique DEF CreateThread
  <2> QED  BY <1>1, <1>2, <2>1, ListMoves
<1>3. ASSUME NEW c \in Clients, Request(c)
      PROVE  UniqueObjects'
  <2>1. ASSUME client[c].pc = "put", PutThread(client[c].thread, client[c].ref)
        PROVE  UniqueObjects'
    <3>1. client[c].thread \in Threads /\ client[c].ref \in Nat
      BY <1>0, <2>1 DEF ClientState
    <3>2. client[c].ref = 0 => ~Known(client[c].thread)
      BY <1>0, <2>1 DEF HandlesHold
    <3> QED  BY <1>0, <1>1, <2>1, <3>1, <3>2, PutShape, AddedIsUnique
  <2>2. CASE PutInflight(c) \/ \E r \in Runs, d \in BOOLEAN : PutInsert(c, r, d)
    BY <2>1, <2>2 DEF PutInflight, PutInsert
  <2>3. CASE PatchCommit(c)
    BY <1>0, <2>3, PatchedIsUnique
  <2>4. CASE DeleteCommit(c)
    <3>1. client[c].ref \in DOMAIN threads
      BY <1>0, <2>4 DEF DeleteCommit, HandlesHold
    <3>2. client[c].ref <= Len(threads)
      BY <1>0, <3>1, ObjectType
    <3>3. threads' = RemoveAt(threads, client[c].ref) /\ made' = made
      BY <2>4, <3>2 DEF DeleteCommit
    <3> QED  BY <1>0, <3>1, <3>3, PoppedIsUnique
  <2>5. CASE \/ RollbackCommit(c) \/ \E r \in Runs : RollbackBegin(c, r)
             \/ \E t \in Threads : PutFetch(c, t) \/ PatchBegin(c, t) \/ DeleteBegin(c, t)
    <3>1. threads' = threads /\ made' = made
      BY <2>5 DEF RollbackCommit, RollbackBegin, PutFetch, PatchBegin, DeleteBegin, threadVars
    <3> QED  BY <1>0, <3>1 DEF UniqueObjects
  <2> QED  BY <1>3, <2>2, <2>3, <2>4, <2>5 DEF Request
<1> QED  BY <1>2, <1>3

\* With one client, a thread is known throughout the request that found it, and its object is
\* still behind the reference or at the position the request keeps.
LEMMA HandlesHoldStep ==
  ASSUME \A c, d \in Clients : c = d, ~({"create", "put_create"} \subseteq Ops),
         QueueInv, ReferencesHold, [Next]_vars
  PROVE  HandlesHold'
<1> SUFFICES ASSUME NEW c \in Clients
             PROVE  /\ client'[c].pc = "put" =>
                         IF client'[c].ref = 0 THEN ~Known(client[c].thread)' /\ "put_create" \in Ops
                         ELSE \E i \in DOMAIN threads' :
                                threads'[i].id = client'[c].thread /\ threads'[i].key = client'[c].ref
                    /\ client'[c].pc = "delete" =>
                         /\ client'[c].ref \in DOMAIN threads'
                         /\ threads'[client'[c].ref].id = client'[c].thread
  BY DEF HandlesHold
<1>0. TypeOK /\ HandlesHold /\ client \in [Clients -> ClientState]
  BY DEF QueueInv, ReferencesHold, TypeOK
<1>1. CASE Request(c)
  <2>1. CASE PutInflight(c) \/ PatchCommit(c) \/ DeleteCommit(c) \/ RollbackCommit(c)
               \/ \E r \in Runs, d \in BOOLEAN : PutInsert(c, r, d)
    <3>1. client'[c] = IdleClient
      BY <1>0, <2>1 DEF PutInflight, PatchCommit, DeleteCommit, RollbackCommit, PutInsert, Return
    <3> QED  BY <3>1 DEF IdleClient
  <2>2. ASSUME NEW t \in Threads, PutFetch(c, t)
        PROVE  /\ client'[c].pc = "put"
               /\ IF client'[c].ref = 0 THEN ~Known(client[c].thread)' /\ "put_create" \in Ops
                  ELSE \E i \in DOMAIN threads' :
                         threads'[i].id = client'[c].thread /\ threads'[i].key = client'[c].ref
    <3>1. threads' = threads
      BY <2>2 DEF PutFetch, threadVars
    <3>2. ASSUME NEW i \in DOMAIN threads, FoundAt(t, i), Suspend(c, "put", t, None, threads[i].key)
          PROVE  /\ client'[c].pc = "put" /\ client'[c].ref # 0
                 /\ threads'[i].id = client'[c].thread /\ threads'[i].key = client'[c].ref
      <4>1. threads[i].key \in 1..made /\ made \in Nat
        BY <1>0, <3>2 DEF ReferencesHold, UniqueObjects, TypeOK
      <4> QED  BY <1>0, <3>1, <3>2, <4>1 DEF FoundAt, Suspend
    <3>3. CASE ~Known(t) /\ "put_create" \in Ops /\ Suspend(c, "put", t, None, 0)
      <4>1. client'[c] = [pc |-> "put", thread |-> t, run |-> None, ref |-> 0]
        BY <1>0, <3>3 DEF Suspend
      <4>2. ~Known(client[c].thread)'
        BY <3>1, <3>3, <4>1 DEF Known
      <4> QED  BY <3>3, <4>1, <4>2
    <3> QED  BY <2>2, <3>1, <3>2, <3>3 DEF PutFetch
  <2>3. ASSUME NEW t \in Threads, DeleteBegin(c, t)
        PROVE  /\ client'[c].pc = "delete" /\ client'[c].ref \in DOMAIN threads'
               /\ threads'[client'[c].ref].id = client'[c].thread
    BY <1>0, <2>3 DEF DeleteBegin, FoundAt, Suspend, threadVars
  <2>4. CASE \/ \E t \in Threads : PatchBegin(c, t)
             \/ \E r \in Runs : RollbackBegin(c, r)
    <3>1. client'[c].pc \in {"patch", "rollback"}
      BY <1>0, <2>4 DEF PatchBegin, RollbackBegin, Suspend
    <3> QED  BY <3>1
  <2> QED  BY <1>1, <2>1, <2>2, <2>3, <2>4 DEF Request
<1>2. CASE ~Request(c)
  <2>1. ~ \E e \in Clients : Request(e)
    BY <1>2
  <2>2. client'[c] = client[c] \/ client'[c] = IdleClient
    BY <1>2, SuspendedBy DEF Request
  <2>3. CASE client'[c] = IdleClient
    BY <2>3 DEF IdleClient
  <2>4. CASE client'[c] = client[c] /\ SameObjects
    <3>1. Known(client[c].thread)' <=> Known(client[c].thread)
      BY <2>4 DEF SameObjects, Known
    <3> QED  BY <1>0, <2>4, <3>1 DEF HandlesHold, SameObjects
  <2>5. ASSUME client'[c] = client[c], NEW t \in Threads, CreateThread(t), OneMore(t, "idle")
        PROVE  /\ client[c].pc = "put" =>
                    /\ client[c].ref # 0
                    /\ \E i \in DOMAIN threads' :
                         threads'[i].id = client[c].thread /\ threads'[i].key = client[c].ref
               /\ client[c].pc = "delete" =>
                    client[c].ref \in DOMAIN threads' /\ threads'[client[c].ref].id = client[c].thread
    <3>1. "put_create" \notin Ops
      BY <2>5 DEF CreateThread
    <3>2. \A i \in DOMAIN threads : i \in DOMAIN threads' /\ threads'[i] = threads[i]
      BY <1>0, <2>5, LenProperties DEF OneMore, TypeOK
    <3> QED  BY <1>0, <3>1, <3>2 DEF HandlesHold
  <2> QED  BY <2>1, <2>2, <2>3, <2>4, <2>5, ListMoves
<1> QED  BY <1>1, <1>2
\* Every object of a thread with an active run is busy.
Busy == \A i \in DOMAIN threads : ActiveOn(threads[i].id) # {} => threads[i].status = "busy"

\* Where ids are unique this is the property itself.
LEMMA BusyIsTheProperty ==
  ASSUME QueueInv, UniqueObjects
  PROVE  Busy <=> ActiveKeepsThreadBusy
<1>1. ASSUME Busy PROVE ActiveKeepsThreadBusy
  BY <1>1 DEF Busy, ActiveKeepsThreadBusy, FoundAt
<1>2. ASSUME ActiveKeepsThreadBusy PROVE Busy
  <2> SUFFICES ASSUME NEW i \in DOMAIN threads, ActiveOn(threads[i].id) # {}
               PROVE  threads[i].status = "busy"
    BY DEF Busy
  <2>1. threads[i].id \in Threads /\ i \in 1..Len(threads) /\ DOMAIN threads = 1..Len(threads)
    BY ObjectType, LenProperties DEF QueueInv, TypeOK, ThreadObject
  <2>2. \A j \in 1..(i - 1) : j \in DOMAIN threads /\ j # i
    BY <2>1
  <2>3. FoundAt(threads[i].id, i)
    BY <2>2 DEF FoundAt, UniqueObjects
  <2> QED  BY <1>2, <2>1, <2>3 DEF ActiveKeepsThreadBusy
<1> QED  BY <1>1, <1>2

\* Where no run becomes active and no object changes its id or status.
LEMMA BusyFrame ==
  ASSUME Busy, DOMAIN threads' \subseteq DOMAIN threads,
         \A i \in DOMAIN threads' : threads'[i].id = threads[i].id /\ threads'[i].status = threads[i].status,
         \A r \in stored' : status'[r] \in Active =>
           r \in stored /\ on'[r] = on[r] /\ status[r] \in Active
  PROVE  Busy'
<1> SUFFICES ASSUME NEW i \in DOMAIN threads', NEW r \in stored',
                    on'[r] = threads'[i].id, status'[r] \in Active
             PROVE  threads'[i].status = "busy"
  BY DEF Busy, ActiveOn
<1>1. r \in ActiveOn(threads[i].id)
  BY DEF ActiveOn
<1> QED  BY <1>1 DEF Busy

\* Runs.put leaves its thread busy, found or new, and inserts on no other.
LEMMA PutIsBusy ==
  ASSUME QueueInv, ReferencesHold, Busy, NEW c \in Clients, client[c].pc = "put",
         PutThread(client[c].thread, client[c].ref),
         \A r \in stored' : status'[r] \in Active =>
           \/ on'[r] = client[c].thread
           \/ r \in stored /\ on'[r] = on[r] /\ status[r] \in Active
  PROVE  Busy'
<1> SUFFICES ASSUME NEW i \in DOMAIN threads', NEW r \in stored',
                    on'[r] = threads'[i].id, status'[r] \in Active
             PROVE  threads'[i].status = "busy"
  BY DEF Busy, ActiveOn
<1>0. TypeOK /\ HandlesHold /\ UniqueObjects /\ client[c].thread \in Threads /\ client[c].ref \in Nat
  BY DEF QueueInv, ReferencesHold, TypeOK, ClientState
<1>1. ASSUME i \in DOMAIN threads, on'[r] # client[c].thread, threads'[i].id = threads[i].id
      PROVE  threads[i].status = "busy"
  <2>1. r \in ActiveOn(threads[i].id)
    BY <1>1 DEF ActiveOn
  <2> QED  BY <1>1, <2>1 DEF Busy
<1>2. CASE client[c].ref = 0
  <2>1. ~Known(client[c].thread) /\ OneMore(client[c].thread, "busy")
    BY <1>0, <1>2, PutShape DEF HandlesHold
  <2>2. i = Len(threads) + 1 \/ i \in DOMAIN threads
    <3>1. DOMAIN threads = 1..Len(threads) /\ Len(threads) \in Nat
      BY <1>0, LenProperties DEF TypeOK
    <3>2. i \in 1..(Len(threads) + 1)
      BY <2>1 DEF OneMore
    <3> QED  BY <3>1, <3>2
  <2>3. CASE i = Len(threads) + 1
    BY <2>1, <2>3 DEF OneMore
  <2>4. CASE i \in DOMAIN threads
    <3>1. threads'[i] = threads[i] /\ threads[i].id # client[c].thread
      BY <2>1, <2>4 DEF OneMore, Known
    <3> QED  BY <1>1, <2>4, <3>1
  <2> QED  BY <2>2, <2>3, <2>4
<1>3. CASE client[c].ref # 0
  <2>1. /\ SameObjects
        /\ \A j \in DOMAIN threads :
             threads'[j].status = IF threads[j].key = client[c].ref THEN "busy" ELSE threads[j].status
    BY <1>0, <1>3, PutShape
  <2>2. PICK k \in DOMAIN threads : threads[k].id = client[c].thread /\ threads[k].key = client[c].ref
    BY <1>0, <1>3 DEF HandlesHold
  <2>3. i \in DOMAIN threads /\ threads'[i].id = threads[i].id
    BY <2>1 DEF SameObjects
  <2>4. CASE on'[r] = client[c].thread
    <3>1. i = k
      BY <1>0, <2>2, <2>3, <2>4 DEF UniqueObjects
    <3> QED  BY <2>1, <2>2, <3>1
  <2>5. CASE on'[r] # client[c].thread
    BY <1>1, <2>1, <2>3, <2>5
  <2> QED  BY <2>4, <2>5
<1> QED  BY <1>2, <1>3

\* set_joint_status and set_status write what remains active on their thread.
LEMMA SetIsBusy ==
  ASSUME QueueInv, ReferencesHold, Busy, NEW t, NEW active, SetThread(t, active),
         \A r \in stored' : status'[r] \in Active =>
           /\ (r \in stored /\ on'[r] = on[r] /\ status[r] \in Active) \/ on'[r] = t
           /\ on'[r] = t => active # {}
  PROVE  Busy'
<1> SUFFICES ASSUME NEW i \in DOMAIN threads', NEW r \in stored',
                    on'[r] = threads'[i].id, status'[r] \in Active
             PROVE  threads'[i].status = "busy"
  BY DEF Busy, ActiveOn
<1>0. TypeOK /\ UniqueObjects
  BY DEF QueueInv, ReferencesHold
<1>1. SameObjects
  BY <1>0, SetShape
<1>2. PICK k \in DOMAIN threads :
        /\ FoundAt(t, k)
        /\ \A j \in DOMAIN threads :
             threads'[j].status = IF j = k THEN FinalStatus(active) ELSE threads[j].status
  BY <1>0, SetShape
<1>3. i \in DOMAIN threads /\ threads'[i].id = threads[i].id
  BY <1>1 DEF SameObjects
<1>4. CASE threads[i].id = t
  <2>1. i = k
    BY <1>0, <1>2, <1>3, <1>4 DEF UniqueObjects, FoundAt
  <2>2. active # {}
    BY <1>3, <1>4
  <2> QED  BY <1>2, <1>3, <2>1, <2>2 DEF FinalStatus
<1>5. CASE threads[i].id # t
  <2>1. i # k
    BY <1>2, <1>5 DEF FoundAt
  <2>2. r \in ActiveOn(threads[i].id)
    BY <1>3, <1>5 DEF ActiveOn
  <2> QED  BY <1>2, <1>3, <2>1, <2>2 DEF Busy
<1> QED  BY <1>4, <1>5

\* The end of Threads.delete: its runs and its one object go together.
LEMMA DeleteIsBusy ==
  ASSUME QueueInv, ReferencesHold, Busy, NEW c \in Clients, DeleteCommit(c)
  PROVE  Busy' /\ RunsHaveThread'
<1> DEFINE at == client[c].ref
           t == client[c].thread
<1>1. TypeOK /\ at \in DOMAIN threads /\ threads[at].id = t /\ UniqueObjects
  BY DEF DeleteCommit, QueueInv, ReferencesHold, HandlesHold
<1>2. at <= Len(threads)
  BY <1>1, ObjectType
<1>3. threads' = RemoveAt(threads, at) /\ stored' = {r \in stored : on[r] # t}
      /\ on' = on /\ status' = status
  BY <1>2 DEF DeleteCommit
<1>4. /\ \A i \in DOMAIN threads' : \E k \in DOMAIN threads : k # at /\ threads'[i] = threads[k]
      /\ \A k \in DOMAIN threads : k # at => \E i \in DOMAIN threads' : threads'[i] = threads[k]
  BY <1>1, <1>3, PoppedObjects
<1> HIDE DEF at, t
<1>5. Busy'
  <2> SUFFICES ASSUME NEW i \in DOMAIN threads', NEW r \in stored',
                      on'[r] = threads'[i].id, status'[r] \in Active
               PROVE  threads'[i].status = "busy"
    BY DEF Busy, ActiveOn
  <2>1. PICK k \in DOMAIN threads : threads'[i] = threads[k]
    BY <1>4
  <2>2. r \in ActiveOn(threads[k].id)
    BY <1>3, <2>1 DEF ActiveOn
  <2> QED  BY <2>1, <2>2 DEF Busy
<1>6. RunsHaveThread'
  <2> SUFFICES ASSUME NEW r \in stored' PROVE Known(on[r])'
    BY DEF RunsHaveThread
  <2>1. PICK k \in DOMAIN threads : threads[k].id = on[r]
    BY <1>3 DEF ReferencesHold, RunsHaveThread, Known
  <2>2. k # at
    BY <1>1, <1>3, <2>1
  <2>3. PICK i \in DOMAIN threads' : threads'[i] = threads[k]
    BY <1>4, <2>2
  <2> QED  BY <1>3, <2>1, <2>3 DEF Known
<1> QED  BY <1>5, <1>6

\* No step leaves an active run on a thread that is not busy, as long as none interrupts a
\* pending run and a report is one step.
LEMMA BusyStep ==
  ASSUME Isolated = FALSE, "interrupt" \notin Ops, QueueInv, ReferencesHold, Busy, [Next]_vars
  PROVE  Busy'
<1>0. /\ TypeOK /\ stored \subseteq Runs /\ status \in [Runs -> RunStatus \cup {"unborn"}]
      /\ on \in [Runs -> Threads \cup {None}] /\ RunsHaveThread
  BY DEF QueueInv, TypeOK, ReferencesHold
<1>1. ASSUME NEW c \in Clients, Request(c)
      PROVE  Busy'
  <2>1. CASE PutInflight(c)
    <3>1. UNCHANGED <<stored, status, on>>
      BY <2>1 DEF PutInflight, runVars
    <3> QED  BY <2>1, <3>1, PutIsBusy DEF PutInflight
  <2>2. ASSUME NEW q \in Runs, NEW d \in BOOLEAN, PutInsert(c, q, d)
        PROVE  Busy'
    <3>1. \A r \in stored' : r = q \/ r \in stored
      BY <2>2 DEF PutInsert
    <3>2. \A r \in stored' : r = q => on'[r] = client[c].thread
      BY <1>0, <2>2 DEF PutInsert
    <3>3. \A r \in stored' : r # q => on'[r] = on[r] /\ status'[r] = status[r]
      BY <1>0, <2>2 DEF PutInsert
    <3> QED  BY <2>2, <3>1, <3>2, <3>3, PutIsBusy DEF PutInsert
  <2>3. CASE PatchCommit(c)
    <3>1. UNCHANGED <<stored, status, on>>
      BY <2>3 DEF PatchCommit, runVars
    <3>2. /\ DOMAIN threads' = DOMAIN threads
          /\ \A i \in DOMAIN threads :
               threads'[i].id = threads[i].id /\ threads'[i].status = threads[i].status
      BY <1>0, <2>3, PatchShape DEF threadVars
    <3> QED  BY <3>1, <3>2, BusyFrame
  <2>4. CASE DeleteCommit(c)
    BY <2>4, DeleteIsBusy
  <2>5. CASE \/ RollbackCommit(c) \/ \E r \in Runs : RollbackBegin(c, r)
             \/ \E t \in Threads : PutFetch(c, t) \/ PatchBegin(c, t) \/ DeleteBegin(c, t)
    <3>1. threads' = threads /\ stored' \subseteq stored /\ UNCHANGED <<status, on>>
      BY <2>5 DEF RollbackCommit, RollbackBegin, PutFetch, PatchBegin, DeleteBegin, threadVars, runVars
    <3> QED  BY <3>1, BusyFrame
  <2> QED  BY <1>1, <2>1, <2>2, <2>3, <2>4, <2>5 DEF Request
<1>2. ASSUME NEW t \in Threads, CreateThread(t)
      PROVE  Busy'
  <2>1. /\ ~Known(t) /\ UNCHANGED <<stored, status, on>>
    BY <1>2 DEF CreateThread, runVars
  <2>2. OneMore(t, "idle")
    <3>1. "idle" \in ThreadStatus
      BY DEF ThreadStatus
    <3> QED  BY <1>0, <1>2, <3>1, AppendShape DEF CreateThread
  <2>3. \A i \in DOMAIN threads' :
          (i \in DOMAIN threads /\ threads'[i] = threads[i]) \/ threads'[i].id = t
    <3>1. DOMAIN threads = 1..Len(threads) /\ Len(threads) \in Nat
      BY <1>0, LenProperties DEF TypeOK
    <3>2. \A i \in DOMAIN threads' : i \in DOMAIN threads \/ i = Len(threads) + 1
      BY <2>2, <3>1 DEF OneMore
    <3> QED  BY <2>2, <3>2 DEF OneMore
  <2> SUFFICES ASSUME NEW i \in DOMAIN threads', NEW r \in stored',
                      on'[r] = threads'[i].id, status'[r] \in Active
               PROVE  threads'[i].status = "busy"
    BY DEF Busy, ActiveOn
  <2>4. threads'[i].id # t
    BY <1>0, <2>1 DEF RunsHaveThread
  <2>5. r \in ActiveOn(threads[i].id)
    BY <2>1, <2>3, <2>4 DEF ActiveOn
  <2> QED  BY <2>3, <2>4, <2>5 DEF Busy
<1>3. ASSUME NEW t \in Threads, SetStatus(t)
      PROVE  Busy'
  <2>1. UNCHANGED <<stored, status, on>> /\ SetThread(t, ActiveOn(t))
    BY <1>3 DEF SetStatus, runVars
  <2>2. \A r \in stored' : status'[r] \in Active /\ on'[r] = t => r \in ActiveOn(t)
    BY <2>1 DEF ActiveOn
  <2> QED  BY <2>1, <2>2, SetIsBusy
<1>4. ASSUME NEW q \in Runs, WorkerEnds(q)
      PROVE  Busy'
  <2>1. ASSUME NEW o \in Finished \cup {"pending"}, JointStatus(q, o)
        PROVE  Busy'
    <3> DEFINE A == IF o = "pending" THEN {q} ELSE ActiveOn(on[q]) \ {q}
    <3>1. /\ SetThread(on[q], A) /\ q \in stored
          /\ status' = [status EXCEPT ![q] = o] /\ stored' = stored /\ on' = on
      BY <2>1 DEF JointStatus, RunStatusSet, ReportOn
    <3>2. \A r \in stored : r # q => status'[r] = status[r]
      BY <1>0, <3>1
    <3>3. o # "pending" => status'[q] \notin Active
      BY <1>0, <3>1 DEF Finished, Active
    <3>4. \A r \in stored : status'[r] \in Active /\ on[r] = on[q] => A # {}
      BY <3>2, <3>3 DEF ActiveOn
    <3>5. \A r \in stored : status'[r] \in Active => status[r] \in Active \/ on[r] = on[q]
      BY <3>2
    <3> HIDE DEF A
    <3> QED  BY <3>1, <3>4, <3>5, SetIsBusy
  <2>2. CASE JointRollback(q)
    <3> DEFINE A == ActiveOn(on[q]) \ {q}
    <3>1. SetThread(on[q], A) /\ stored' = stored \ {q} /\ status' = status /\ on' = on
      BY <2>2 DEF JointRollback, ReportOn
    <3>2. \A r \in stored' : status[r] \in Active /\ on[r] = on[q] => A # {}
      BY <3>1 DEF ActiveOn
    <3> HIDE DEF A
    <3> QED  BY <3>1, <3>2, SetIsBusy
  <2>3. CASE JointNotFound(q)
    BY <2>3, BusyFrame DEF JointNotFound, runVars, threadVars
  <2> QED  BY <1>4, <2>1, <2>2, <2>3 DEF WorkerEnds
<1>5. ASSUME NEW S \in SUBSET stored, Interrupt(S)
      PROVE  FALSE
  BY <1>5 DEF Interrupt
<1>6. ASSUME NEW q \in Runs, Dispatch(q)
      PROVE  Busy'
  <2>1. /\ status[q] = "pending" /\ status' = [status EXCEPT ![q] = "running"]
        /\ UNCHANGED <<stored, on, threads>>
    BY <1>6 DEF Dispatch, Startable, threadVars
  <2>2. \A r \in stored' : status'[r] \in Active => status[r] \in Active
    BY <1>0, <2>1 DEF Active
  <2> QED  BY <2>1, <2>2, BusyFrame
<1>7. CASE \/ \E q \in Runs : ComesDue(q) \/ DeleteRun(q) \/ NextOrphan(q) \/ NextSkip(q)
           \/ NextStart \/ NextSelect \/ NextWarned \/ NextEnd \/ WindDown \/ Crash \/ UNCHANGED vars
  <2>1. threads' = threads /\ stored' \subseteq stored /\ UNCHANGED <<status, on>>
    BY <1>7 DEF ComesDue, DeleteRun, NextOrphan, NextSkip, NextStart, NextSelect, NextWarned, NextEnd,
       WindDown, ReportComputes, ReportWrites, Cleanup, Crash, runVars, threadVars, vars
  <2> QED  BY <2>1, BusyFrame
<1> QED  BY <1>1, <1>2, <1>3, <1>4, <1>5, <1>6, <1>7 DEF Next, Scheduler

\* While workers share the scheduler's loop, requests do not overlap, no pending run is
\* interrupted and threads are created in one way only, a thread with an active run is busy:
\* also across retries, rollbacks, deletions of runs and threads, patches that replace its
\* object, and restarts (Runs.put, Threads.patch, Threads.delete, set_status, set_joint_status).
THEOREM BusyWhileActive ==
  ASSUME Isolated = FALSE, \A c, d \in Clients : c = d, "interrupt" \notin Ops,
         ~({"create", "put_create"} \subseteq Ops)
  PROVE  Spec => []ActiveKeepsThreadBusy
<1> DEFINE J == QueueInv /\ ReferencesHold /\ Busy
<1>1. Init => J
  <2> SUFFICES ASSUME Init PROVE J
    OBVIOUS
  <2>1. stored = {} /\ DOMAIN threads = {} /\ \A c \in Clients : client[c].pc = "idle"
    BY DEF Init, IdleClient
  <2> QED  BY <2>1, QueueInvInit DEF ReferencesHold, RunsHaveThread, UniqueObjects, HandlesHold, Busy
<1>2. ASSUME J, [Next]_vars
      PROVE  J'
  <2>1. RunsHaveThread'
    <3>1. ASSUME NEW c \in Clients, DeleteCommit(c)
          PROVE  RunsHaveThread'
      BY <1>2, <3>1, DeleteIsBusy
    <3>2. \A c \in Clients : client[c].pc = "put" /\ client[c].ref # 0 => Known(client[c].thread)
      BY <1>2 DEF ReferencesHold, HandlesHold, Known
    <3> QED  BY <1>2, <3>1, <3>2, RunsHaveThreadStep DEF ReferencesHold
  <2>2. ReferencesHold'
    BY <1>2, <2>1, UniqueObjectsStep, HandlesHoldStep DEF ReferencesHold
  <2> QED  BY <1>2, <2>2, QueueInvStep, BusyStep
<1>3. J => ActiveKeepsThreadBusy
  BY BusyIsTheProperty DEF ReferencesHold
<1> HIDE DEF J
<1>4. J /\ [Next]_vars => J'
  BY <1>2
<1> QED  BY <1>1, <1>3, <1>4, PTL DEF Spec
-----------------------------------------------------------------------------
(* RunQueue implements RunLifecycle: each step of the queue is a step that   *)
(* the promise allows, or leaves it unchanged.  A scan may start a run that  *)
(* was removed while the scan waited; that no run is started twice and none  *)
(* on a busy thread rests on Lifecycle and on the check of Runs.next, both   *)
(* with QueueInv.                                                            *)

\* The phase of one run, from its status and whether it is stored.
LEMMA PhaseOf ==
  /\ Phase \in [Runs -> {Phase[r] : r \in Runs}]
  /\ \A r \in Runs : Phase[r] = IF status[r] # "unborn" /\ r \notin stored
                                THEN "gone" ELSE Shown(status[r])
BY DEF Phase

\* Statuses are shown as phases, and running as running only.
LEMMA ShownStatus ==
  ASSUME NEW s \in RunStatus \cup {"unborn"}
  PROVE  /\ Shown(s) \in {"unborn", "waiting", "running", "over"}
         /\ Shown(s) = "running" <=> s = "running"
         /\ Shown(s) = "waiting" <=> s = "pending"
         /\ Shown(s) = "over" <=> s \in Finished
         /\ Shown(s) = "unborn" <=> s = "unborn"
BY DEF Shown, RunStatus, Active, Finished

\* A step that leaves statuses, the store, threads of runs and workers alone is a
\* stutter of the promise.
LEMMA Unnoticed ==
  ASSUME UNCHANGED <<stored, status, on, live>>
  PROVE  UNCHANGED <<Phase, on, live>>
BY DEF Phase

\* Runs.put submits a run.
LEMMA PutSubmits ==
  ASSUME QueueInv, NEW c \in Clients, NEW r \in Runs, NEW d \in BOOLEAN, PutInsert(c, r, d)
  PROVE  Promise!LifeNext
<1>1. /\ status[r] = "unborn" /\ r \notin stored
      /\ stored' = stored \cup {r}
      /\ status' = [status EXCEPT ![r] = "pending"]
      /\ on' = [on EXCEPT ![r] = client[c].thread]
      /\ client[c].thread \in Threads
      /\ live' = live
  BY DEF PutInsert, QueueInv, Lifecycle, TypeOK, ClientState, poolVars
<1>2. Phase[r] = "unborn"
  BY <1>1, PhaseOf DEF Shown, Finished
<1>3. Phase' = [Phase EXCEPT ![r] = "waiting"]
  BY <1>1 DEF Phase, Shown, QueueInv, TypeOK
<1>4. Promise!Submit(r, client[c].thread)
  BY <1>1, <1>2, <1>3 DEF Promise!Submit
<1> QED  BY <1>1, <1>4 DEF Promise!LifeNext

\* Deleting runs, by themselves, by a rollback or with their thread.
LEMMA DeletionRemoves ==
  ASSUME QueueInv, stored' \in SUBSET stored, UNCHANGED <<status, on, live>>
  PROVE  Promise!LifeNext
<1> DEFINE S == stored \ stored'
<1>1. S \in SUBSET Runs /\ \A r \in S : status[r] # "unborn"
  BY DEF QueueInv, TypeOK, Lifecycle
<1>2. \A r \in S : Phase[r] # "unborn"
  BY <1>1, PhaseOf, ShownStatus DEF QueueInv, TypeOK
<1>3. Phase' = [r \in Runs |-> IF r \in S THEN "gone" ELSE Phase[r]]
  BY <1>1 DEF Phase
<1>4. Promise!Remove(S)
  BY <1>2, <1>3 DEF Promise!Remove
<1> QED  BY <1>1, <1>4 DEF Promise!LifeNext

\* Interrupting cancels runs that wait or run.
LEMMA InterruptCancels ==
  ASSUME QueueInv, NEW S \in SUBSET stored, Interrupt(S)
  PROVE  Promise!LifeNext
<1>1. /\ \A r \in S : status[r] \in Active
      /\ status' = [r \in Runs |-> IF r \in S THEN "interrupted" ELSE status[r]]
      /\ UNCHANGED <<stored, on, live>>
  BY DEF Interrupt, CancelledAs, poolVars
<1>2. S \in SUBSET Runs
  BY DEF QueueInv, TypeOK
<1>3. \A r \in S : Phase[r] \in {"waiting", "running"}
  BY <1>1, <1>2, PhaseOf DEF Shown, Active, Finished
<1>4. Phase' = [r \in Runs |-> IF r \in S THEN "over" ELSE Phase[r]]
  BY <1>1, <1>2 DEF Phase, Shown, Finished
<1>5. Promise!Cancel(S)
  BY <1>1, <1>3, <1>4 DEF Promise!Cancel
<1> QED  BY <1>2, <1>5 DEF Promise!LifeNext

\* Runs.next starts a run that waits, or one removed since the scan picked it.
LEMMA DispatchStarts ==
  ASSUME QueueInv, NEW r \in Runs, Dispatch(r)
  PROVE  Promise!LifeNext
<1>1. /\ status[r] = "pending" /\ ~Blocked(on[r])
      /\ status' = [status EXCEPT ![r] = "running"]
      /\ live' = live \cup {r}
      /\ UNCHANGED <<stored, on>>
  BY DEF Dispatch, Startable
<1>2. r \notin live
  BY <1>1 DEF QueueInv, Lifecycle
<1>3. Phase[r] = IF r \in stored THEN "waiting" ELSE "gone"
  BY <1>1, PhaseOf DEF Shown
<1>4. \A q \in Runs : on[q] = on[r] => Phase[q] # "running"
  <2> SUFFICES ASSUME NEW q \in Runs, on[q] = on[r], Phase[q] = "running"
               PROVE  FALSE
    OBVIOUS
  <2>1. status[q] = "running" /\ (q \in stored \/ status[q] = "unborn")
    BY PhaseOf, ShownStatus DEF QueueInv, TypeOK
  <2> QED  BY <1>1, <2>1 DEF Blocked
<1>5. Phase' = [Phase EXCEPT ![r] = IF @ = "gone" THEN "gone" ELSE "running"]
  <2>1. \A q \in Runs : Phase'[q] = IF q = r THEN IF r \in stored THEN "running" ELSE "gone"
                                    ELSE Phase[q]
    BY <1>1 DEF Phase, Shown, Finished, QueueInv, TypeOK
  <2> QED  BY <1>3, <2>1 DEF Phase
<1>6. Promise!Start(r)
  BY <1>1, <1>2, <1>3, <1>4, <1>5 DEF Promise!Start
<1> QED  BY <1>6 DEF Promise!LifeNext

\* The end of a worker, whatever it reports.
LEMMA WorkerStops ==
  ASSUME QueueInv, NEW r \in Runs, WorkerEnds(r)
  PROVE  Promise!LifeNext
<1>1. r \in live /\ live' = live \ {r} /\ on' = on /\ status[r] # "unborn"
  BY DEF WorkerEnds, JointStatus, JointRollback, JointNotFound, WorkerMoves, ReportOn, Leaves,
     runVars, QueueInv, Lifecycle
<1>2. status \in [Runs -> RunStatus \cup {"unborn"}]
  BY DEF QueueInv, TypeOK
<1>3. ASSUME NEW outcome \in Finished \cup {"pending"}, JointStatus(r, outcome)
      PROVE  Promise!LifeNext
  <2> DEFINE p == Shown(outcome)
  <2>1. r \in stored /\ status' = [status EXCEPT ![r] = outcome] /\ stored' = stored
    BY <1>3 DEF JointStatus, RunStatusSet
  <2>2. p \in {"waiting", "over"}
    BY DEF Shown
  <2>3. Phase[r] # "gone"
    BY <1>2, <2>1, PhaseOf, ShownStatus
  <2>4. Phase' = [Phase EXCEPT ![r] = p]
    BY <1>2, <2>1 DEF Phase
  <2> HIDE DEF p
  <2>5. Promise!Stop(r, p)
    BY <1>1, <2>2, <2>3, <2>4 DEF Promise!Stop
  <2> QED  BY <2>2, <2>5 DEF Promise!LifeNext, Promise!Phases
<1>4. CASE JointRollback(r)
  <2>1. r \in stored /\ stored' = stored \ {r} /\ status' = status
    BY <1>4 DEF JointRollback
  <2>2. Phase[r] # "gone"
    BY <1>2, <2>1, PhaseOf, ShownStatus
  <2>3. Phase' = [Phase EXCEPT ![r] = "gone"]
    BY <1>1, <2>1 DEF Phase
  <2>4. Promise!Stop(r, "gone")
    BY <1>1, <2>2, <2>3 DEF Promise!Stop
  <2> QED  BY <2>4 DEF Promise!LifeNext, Promise!Phases
<1>5. CASE JointNotFound(r)
  <2>1. UNCHANGED <<stored, status>>
    BY <1>5 DEF JointNotFound, runVars
  <2>2. Phase' = Phase /\ Phase = [Phase EXCEPT ![r] = Phase[r]]
    BY <2>1 DEF Phase
  <2>3. Phase[r] \in {"unborn", "waiting", "running", "over", "gone"}
    BY <1>2, PhaseOf, ShownStatus
  <2>4. Promise!Stop(r, Phase[r])
    BY <1>1, <2>2 DEF Promise!Stop
  <2> QED  BY <2>3, <2>4 DEF Promise!LifeNext, Promise!Phases
<1> QED  BY <1>3, <1>4, <1>5 DEF WorkerEnds

\* Every step of the queue is a step of the promise or a stutter: one case per
\* handler that a caller can notice.
LEMMA PromiseStep ==
  ASSUME QueueInv, [Next]_vars
  PROVE  Promise!LifeNext \/ UNCHANGED <<Phase, on, live>>
<1>1. ASSUME NEW c \in Clients, Request(c)
      PROVE  Promise!LifeNext \/ UNCHANGED <<Phase, on, live>>
  <2>1. ASSUME NEW r \in Runs, NEW d \in BOOLEAN, PutInsert(c, r, d)
        PROVE  Promise!LifeNext
    BY <2>1, PutSubmits
  <2>2. CASE DeleteCommit(c) \/ RollbackCommit(c)
    <3>1. stored' \in SUBSET stored /\ UNCHANGED <<status, on, live>>
      BY <2>2 DEF DeleteCommit, RollbackCommit, poolVars
    <3> QED  BY <3>1, DeletionRemoves
  <2>3. CASE \/ PutInflight(c) \/ PatchCommit(c)
             \/ \E t \in Threads : PutFetch(c, t) \/ PatchBegin(c, t) \/ DeleteBegin(c, t)
             \/ \E r \in Runs : RollbackBegin(c, r)
    <3>1. UNCHANGED <<stored, status, on, live>>
      BY <2>3 DEF PutInflight, PatchCommit, PutFetch, PatchBegin, DeleteBegin, RollbackBegin,
         runVars, poolVars
    <3> QED  BY <3>1, Unnoticed
  <2> QED  BY <1>1, <2>1, <2>2, <2>3 DEF Request
<1>2. ASSUME NEW r \in Runs, DeleteRun(r)
      PROVE  Promise!LifeNext
  <2>1. stored' \in SUBSET stored /\ UNCHANGED <<status, on, live>>
    BY <1>2 DEF DeleteRun, poolVars
  <2> QED  BY <2>1, DeletionRemoves
<1>3. ASSUME NEW S \in SUBSET stored, Interrupt(S)
      PROVE  Promise!LifeNext
  BY <1>3, InterruptCancels
<1>4. ASSUME NEW r \in Runs, WorkerEnds(r)
      PROVE  Promise!LifeNext
  BY <1>4, WorkerStops
<1>5. ASSUME NEW r \in Runs, Dispatch(r)
      PROVE  Promise!LifeNext
  BY <1>5, DispatchStarts
<1>6. CASE Crash
  <2>1. live' = {} /\ UNCHANGED <<stored, status, on>>
    BY <1>6 DEF Crash
  <2>2. Phase' = Phase
    BY <2>1 DEF Phase
  <2> QED  BY <2>1, <2>2 DEF Promise!Restart, Promise!LifeNext
<1>7. CASE \/ \E t \in Threads : CreateThread(t) \/ SetStatus(t)
           \/ \E r \in Runs : ComesDue(r) \/ NextOrphan(r) \/ NextSkip(r)
           \/ NextStart \/ NextSelect \/ NextWarned \/ NextEnd \/ WindDown \/ UNCHANGED vars
  <2>1. UNCHANGED <<stored, status, on, live>>
    BY <1>7 DEF CreateThread, SetStatus, ComesDue, NextOrphan, NextSkip, NextStart, NextSelect,
       NextWarned, NextEnd, WindDown, ReportComputes, ReportWrites, Cleanup, runVars, poolVars, vars
  <2> QED  BY <2>1, Unnoticed
<1> QED  BY <1>1, <1>2, <1>3, <1>4, <1>5, <1>6, <1>7 DEF Next, Scheduler

\* RunQueue implements RunLifecycle: whatever threads, tokens, suspended requests
\* and stale lists do, a caller sees a run pass through its phases in order, one
\* running run per thread and one worker that has still to report per run.
THEOREM QueueKeepsPromise == Spec => KeepsPromise
<1>1. Init => Promise!LifeInit
  BY DEF Init, Promise!LifeInit, Phase, Shown, Finished
<1>2. QueueInv /\ [Next]_vars => [Promise!LifeNext]_<<Phase, on, live>>
  BY PromiseStep
<1>3. Promise!LifeSpec <=> Promise!LifeInit /\ [][Promise!LifeNext]_<<Phase, on, live>>
  BY DEF Promise!LifeSpec, Promise!lifeVars
<1> QED  BY <1>1, <1>2, <1>3, QueueInvariant, PTL DEF Spec, KeepsPromise
=============================================================================
