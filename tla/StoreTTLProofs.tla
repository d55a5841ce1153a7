---------------------------- MODULE StoreTTLProofs ----------------------------
(***************************************************************************)
(* Proofs for StoreTTL, for any keys, batches, threads, TTLs, operations    *)
(* and restarts: what a search returns is current, records and sizes are    *)
(* those of the items there are, and no sweep removes an item early.        *)
(*                                                                         *)
(* One inductive invariant, StoreInv.  The lock keeps a suspended batch and *)
(* a sweep apart (TypeOK says who holds it), so that between the look at    *)
(* the records and the removal nothing happens to them (RecordsArePromises) *)
(* unless a thread calls batch; and whoever writes a record has read it     *)
(* from one that a put made (RecordsAreGiven), threads and files included.  *)
(***************************************************************************)
EXTENDS StoreTTL, TLAPS

LEMMA InitStore == Init => StoreInv
<1> SUFFICES ASSUME Init PROVE StoreInv
  OBVIOUS
<1>1. TypeOK
  <2>1. NoRecords \in [Keys -> Records \cup {None}] /\ NoRecords \in [Keys -> Nat \cup {None}]
    BY DEF NoRecords
  <2>2. disk \in [items : SUBSET Keys, vectors : SUBSET Keys, ttl : [Keys -> Records \cup {None}]]
    BY <2>1 DEF Init
  <2>3. spent \in [ops : 0..MaxOps, crashes : 0..MaxCrashes] /\ now \in 0..MaxTime
    BY BoundAssumption DEF Init
  <2>4. /\ batch \in [Batches -> Ops \cup {None}] /\ thread \in [Threads -> ThreadOps \cup {None}]
        /\ \A b \in Batches : batch[b] = None
    BY DEF Init
  <2> QED  BY <2>1, <2>2, <2>3, <2>4 DEF Init, TypeOK
<1>2. SearchIsCurrent /\ NothingLeftBehind /\ RecordsArePromises /\ RecordsAreGiven
  BY DEF Init, SearchIsCurrent, NothingLeftBehind, RecordsArePromises, RecordsAreGiven, NoRecords
<1> QED  BY <1>1, <1>2 DEF StoreInv

\* The record that an operation makes.
LEMMA RecordType ==
  ASSUME TypeOK, NEW m \in Minutes \cup {None}
  PROVE  /\ Record(m) \in Records \cup {None}
         /\ (Record(m) = None <=> m = None)
         /\ m # None => Record(m).expires = now + m /\ now + m \in Nat /\ now + m # None
<1>1. CASE m = None
  BY <1>1 DEF Record
<1>2. CASE m # None
  <2>1. m \in Minutes /\ m \in Nat /\ now + m \in Nat
    BY <1>2, BoundAssumption, MinutesAssumption DEF TypeOK
  <2>2. Record(m) \in Records /\ Record(m).expires = now + m
    BY <1>2, <2>1 DEF Record, Records
  <2> QED  BY <1>2, <2>1, <2>2, NoneAssumption
<1> QED  BY <1>1, <1>2

\* An operation counts.
LEMMA SpendType ==
  ASSUME TypeOK, Spends
  PROVE  /\ spent' \in [ops : 0..MaxOps, crashes : 0..MaxCrashes]
         /\ spent'.crashes = spent.crashes /\ spent' # spent
<1>1. spent.ops \in 0..MaxOps /\ spent.crashes \in 0..MaxCrashes
  BY DEF TypeOK
<1> QED  BY <1>1, BoundAssumption DEF TypeOK, Spends

\* Nobody is suspended while the lock is free.
LEMMA FreeMeansIdle ==
  ASSUME TypeOK, lock = None
  PROVE  sweep = {} /\ \A b \in Batches : batch[b] = None
BY NoneAssumption DEF TypeOK

-----------------------------------------------------------------------------
\* Puts, refreshing reads and deletions.

LEMMA PutKeeps ==
  ASSUME StoreInv, NEW b \in Batches, FinishPut(b)
  PROVE  StoreInv'
<1> DEFINE k == batch[b].key
           m == batch[b].ttl
<1>1. /\ k \in Keys /\ m \in Minutes \cup {None} /\ lock = b /\ sweep = {}
  BY NoneAssumption DEF StoreInv, TypeOK, FinishPut, Ops
<1>2. ttl' = [ttl EXCEPT ![k] = Record(m)] /\ Record(m) \in Records \cup {None}
  BY <1>1, RecordType DEF StoreInv, FinishPut, Put
<1>3. TypeOK'
  <2>1. /\ items' \subseteq Keys /\ vectors' \subseteq Keys /\ sized' \subseteq Keys /\ given' \subseteq Keys
    BY <1>1 DEF StoreInv, TypeOK, FinishPut, Put
  <2>2. ttl' \in [Keys -> Records \cup {None}]
    BY <1>1, <1>2 DEF StoreInv, TypeOK
  <2>3. promised' \in [Keys -> Nat \cup {None}]
    BY <1>1, RecordType DEF StoreInv, TypeOK, FinishPut, Put
  <2>4. batch' \in [Batches -> Ops \cup {None}] /\ lock' = None /\ \A c \in Batches : batch'[c] = None
    BY <1>1 DEF StoreInv, TypeOK, FinishPut, Release
  <2> QED  BY <1>1, <2>1, <2>2, <2>3, <2>4 DEF StoreInv, TypeOK, FinishPut, Put
<1>4. SearchIsCurrent'
  BY <1>1 DEF StoreInv, TypeOK, SearchIsCurrent, FinishPut, Release, Put
<1>5. NothingLeftBehind'
  BY <1>1, <1>2 DEF StoreInv, TypeOK, NothingLeftBehind, FinishPut, Put
<1>6. RecordsArePromises'
  BY <1>1, <1>2, RecordType DEF StoreInv, TypeOK, RecordsArePromises, FinishPut, Put
<1>7. RecordsAreGiven'
  BY <1>1, <1>2, RecordType DEF StoreInv, TypeOK, RecordsAreGiven, FinishPut, Put
<1> QED  BY <1>3, <1>4, <1>5, <1>6, <1>7 DEF StoreInv

\* A refresh replaces records and drops none; it happens with the lock in hand or
\* while it is free, so that no sweep is under way.
LEMMA RefreshKeeps ==
  ASSUME StoreInv, NEW S \in SUBSET Keys, Refresh(S), sweep = {}, TypeOK', sweep' = {},
         UNCHANGED <<thread, disk>>, spent'.crashes = spent.crashes,
         \A b \in Batches : batch'[b] = None \/ batch'[b] = batch[b]
  PROVE  StoreInv'
<1>1. \A k \in Keys : ttl'[k] = IF k \in S /\ ttl[k] # None THEN Record(ttl[k].minutes) ELSE ttl[k]
  BY DEF Refresh, Refreshed
<1>2. ASSUME NEW k \in Keys, ttl[k] # None
      PROVE  /\ Record(ttl[k].minutes) # None
             /\ Record(ttl[k].minutes).expires = now + ttl[k].minutes
  <2>1. ttl[k] \in Records
    BY <1>2 DEF StoreInv, TypeOK
  <2>2. ttl[k].minutes \in Minutes \cup {None} /\ ttl[k].minutes # None
    BY <2>1, MinutesAssumption DEF Records
  <2> QED  BY <2>2, RecordType DEF StoreInv
<1>3. \A k \in Keys : ttl'[k] = None <=> ttl[k] = None
  BY <1>1, <1>2
<1>4. SearchIsCurrent' /\ NothingLeftBehind'
  BY <1>3 DEF StoreInv, SearchIsCurrent, NothingLeftBehind, Refresh
<1>5. RecordsArePromises'
  <2>1. \A k \in Keys : promised'[k] = IF k \in S /\ ttl[k] # None
                                       THEN now + ttl[k].minutes ELSE promised[k]
    BY DEF Refresh
  <2> QED  BY <1>1, <1>2, <2>1 DEF StoreInv, RecordsArePromises, Refresh
<1>6. RecordsAreGiven'
  BY <1>3 DEF StoreInv, RecordsAreGiven, Refresh
<1> QED  BY <1>4, <1>5, <1>6 DEF StoreInv

LEMMA RefreshType ==
  ASSUME TypeOK, NEW S, Refresh(S)
  PROVE  ttl' \in [Keys -> Records \cup {None}] /\ promised' \in [Keys -> Nat \cup {None}]
<1>1. ASSUME NEW k \in Keys, ttl[k] # None
      PROVE  Record(ttl[k].minutes) \in Records \cup {None} /\ now + ttl[k].minutes \in Nat
  <2>1. ttl[k] \in Records
    BY <1>1 DEF TypeOK
  <2>2. ttl[k].minutes \in Minutes \cup {None} /\ ttl[k].minutes # None
    BY <2>1, MinutesAssumption DEF Records
  <2> QED  BY <2>2, RecordType
<1> QED  BY <1>1 DEF Refresh, Refreshed, TypeOK

LEMMA GetKeeps ==
  ASSUME StoreInv, NEW k \in Keys, Get(k)
  PROVE  StoreInv'
<1>1. /\ Refresh({k}) /\ Spends /\ lock = None /\ {k} \in SUBSET Keys
      /\ UNCHANGED <<now, lock, batch, thread, sweep, disk>>
  BY DEF Get, LockFree
<1>2. sweep = {} /\ \A b \in Batches : batch[b] = None
  BY <1>1, FreeMeansIdle DEF StoreInv
<1>3. spent' \in [ops : 0..MaxOps, crashes : 0..MaxCrashes] /\ spent'.crashes = spent.crashes
  BY <1>1, SpendType DEF StoreInv
<1>4. ttl' \in [Keys -> Records \cup {None}] /\ promised' \in [Keys -> Nat \cup {None}]
  BY <1>1, RefreshType DEF StoreInv
<1>5. TypeOK'
  BY <1>1, <1>3, <1>4 DEF StoreInv, TypeOK, Refresh
<1> QED  BY <1>1, <1>2, <1>3, <1>5, RefreshKeeps

LEMMA SearchKeeps ==
  ASSUME StoreInv, NEW b \in Batches, FinishSearch(b)
  PROVE  StoreInv'
<1> DEFINE S == IF batch[b].refresh THEN batch[b].found ELSE {}
<1>1. /\ batch[b] # None /\ lock = b /\ sweep = {}
      /\ Refresh(S) /\ lock' = None /\ batch' = [batch EXCEPT ![b] = None]
      /\ UNCHANGED <<now, thread, sweep, disk, spent>>
  BY NoneAssumption DEF StoreInv, TypeOK, FinishSearch, Release
<1>2. S \in SUBSET Keys
  BY <1>1 DEF StoreInv, TypeOK, FinishSearch, Ops
<1>3. \A c \in Batches : batch'[c] = None
  BY <1>1 DEF StoreInv, TypeOK
<1>4. ttl' \in [Keys -> Records \cup {None}] /\ promised' \in [Keys -> Nat \cup {None}]
  BY <1>1, RefreshType DEF StoreInv
<1> HIDE DEF S
<1>5. TypeOK'
  <2>1. batch' \in [Batches -> Ops \cup {None}]
    BY <1>1 DEF StoreInv, TypeOK
  <2> QED  BY <1>1, <1>3, <1>4, <2>1 DEF StoreInv, TypeOK, Refresh
<1> QED  BY <1>1, <1>2, <1>3, <1>5, RefreshKeeps

\* An item goes with all that belongs to it, deleted or swept.
LEMMA RemovalKeeps ==
  ASSUME StoreInv, NEW k \in Keys, Swept(k), promised' = [promised EXCEPT ![k] = None],
         sweep' \subseteq sweep, k \notin sweep', \A b \in Batches : batch[b] = None,
         spent' \in [ops : 0..MaxOps, crashes : 0..MaxCrashes],
         spent'.crashes = spent.crashes,
         UNCHANGED <<now, lock, batch, thread, disk, given, raced>>
  PROVE  StoreInv'
<1>1. ttl' \in [Keys -> Records \cup {None}] /\ promised' \in [Keys -> Nat \cup {None}]
  BY DEF StoreInv, TypeOK, Swept
<1>2. TypeOK'
  BY <1>1 DEF StoreInv, TypeOK, Swept
<1>3. \A j \in Keys : /\ ttl'[j] = IF j = k THEN None ELSE ttl[j]
                      /\ promised'[j] = IF j = k THEN None ELSE promised[j]
  BY DEF StoreInv, TypeOK, Swept
<1>4. SearchIsCurrent' /\ NothingLeftBehind'
  BY <1>3 DEF StoreInv, SearchIsCurrent, NothingLeftBehind, Swept
<1>5. RecordsArePromises'
  <2>1. \A j \in sweep' : j \in Keys /\ j # k
    BY DEF StoreInv, TypeOK
  <2> QED  BY <1>3, <2>1 DEF StoreInv, RecordsArePromises, Expired
<1>6. RecordsAreGiven'
  BY <1>3 DEF StoreInv, RecordsAreGiven
<1> QED  BY <1>2, <1>4, <1>5, <1>6 DEF StoreInv

LEMMA DeleteKeeps ==
  ASSUME StoreInv, NEW k \in Keys, Delete(k)
  PROVE  StoreInv'
<1>1. sweep = {} /\ \A b \in Batches : batch[b] = None
  BY FreeMeansIdle DEF StoreInv, Delete, LockFree
<1>2. spent' \in [ops : 0..MaxOps, crashes : 0..MaxCrashes] /\ spent'.crashes = spent.crashes
  BY SpendType DEF StoreInv, Delete
<1> QED  BY <1>1, <1>2, RemovalKeeps DEF Delete, Swept

LEMMA SweepItemKeeps ==
  ASSUME StoreInv, NEW k \in Keys, SweepItem(k)
  PROVE  StoreInv'
<1>1. \A b \in Batches : batch[b] = None
  BY NoneAssumption DEF StoreInv, TypeOK, SweepItem
<1>2. spent' \in [ops : 0..MaxOps, crashes : 0..MaxCrashes] /\ spent'.crashes = spent.crashes
  BY DEF StoreInv, TypeOK, SweepItem
<1> QED  BY <1>1, <1>2, RemovalKeeps DEF SweepItem

-----------------------------------------------------------------------------
\* What takes the lock or gives it back, and the clock.

LEMMA LockKeeps ==
  ASSUME StoreInv, UNCHANGED <<store, thread, disk, histories>>, TypeOK',
         spent'.crashes = spent.crashes,
         \A k \in sweep' : k \in sweep \/ (k \in Keys /\ Expired(k)),
         now' \in Nat /\ now <= now',
         \A b \in Batches : \/ batch'[b] = None \/ batch'[b] = batch[b]
                            \/ batch'[b].kind = "search" => batch'[b].found = items
  PROVE  StoreInv'
<1>1. SearchIsCurrent'
  BY DEF StoreInv, SearchIsCurrent, store, histories
<1>2. NothingLeftBehind'
  BY DEF StoreInv, NothingLeftBehind, store, histories
<1>3. ASSUME NEW k \in Keys, Expired(k) PROVE Expired(k)'
  <2>1. ttl[k] \in Records /\ now \in Nat
    BY <1>3, BoundAssumption DEF StoreInv, TypeOK, Expired
  <2> QED  BY <1>3, <2>1 DEF Expired, Records, store
<1>4. sweep \subseteq Keys
  BY DEF StoreInv, TypeOK
<1>5. RecordsArePromises'
  BY <1>3, <1>4 DEF StoreInv, RecordsArePromises, store, histories
<1>6. RecordsAreGiven'
  BY <1>4 DEF StoreInv, RecordsAreGiven, store, histories, Expired
<1> QED  BY <1>1, <1>2, <1>5, <1>6 DEF StoreInv

LEMMA TickKeeps == StoreInv /\ Tick => StoreInv'
<1> SUFFICES ASSUME StoreInv, Tick PROVE StoreInv'
  OBVIOUS
<1>1. now \in Nat /\ now' \in 0..MaxTime /\ now <= now'
  BY BoundAssumption DEF StoreInv, TypeOK, Tick
<1>2. TypeOK'
  BY <1>1 DEF StoreInv, TypeOK, Tick, store, histories
<1> QED  BY <1>1, <1>2, LockKeeps DEF Tick

LEMMA BeginKeeps ==
  ASSUME StoreInv, NEW b \in Batches, NEW op \in Ops, Begin(b, op),
         op.kind = "search" => op.found = items
  PROVE  StoreInv'
<1>1. sweep = {} /\ \A c \in Batches : batch[c] = None
  BY FreeMeansIdle DEF StoreInv, Begin, LockFree
<1>2. spent' \in [ops : 0..MaxOps, crashes : 0..MaxCrashes] /\ spent'.crashes = spent.crashes
  BY SpendType DEF StoreInv, Begin
<1>3. batch' \in [Batches -> Ops \cup {None}] /\ lock' = b
      /\ \A c \in Batches : batch'[c] = IF c = b THEN op ELSE None
  BY <1>1 DEF StoreInv, TypeOK, Begin
<1>4. TypeOK'
  BY <1>1, <1>2, <1>3 DEF StoreInv, TypeOK, Begin, store, histories
<1>5. now' \in Nat /\ now <= now'
  BY BoundAssumption DEF StoreInv, TypeOK, Begin
<1> QED  BY <1>1, <1>2, <1>3, <1>4, <1>5, LockKeeps DEF Begin

LEMMA BatchFailsKeeps ==
  ASSUME StoreInv, NEW b \in Batches, BatchFails(b)
  PROVE  StoreInv'
<1>1. lock = b /\ sweep = {}
  BY NoneAssumption DEF StoreInv, TypeOK, BatchFails
<1>2. batch' \in [Batches -> Ops \cup {None}] /\ lock' = None /\ \A c \in Batches : batch'[c] = None
  BY <1>1 DEF StoreInv, TypeOK, BatchFails, Release
<1>3. TypeOK'
  BY <1>1, <1>2 DEF StoreInv, TypeOK, BatchFails, store, histories
<1>4. now' \in Nat /\ now <= now'
  BY BoundAssumption DEF StoreInv, TypeOK, BatchFails
<1> QED  BY <1>2, <1>3, <1>4, LockKeeps DEF BatchFails

LEMMA SweepLocks ==
  ASSUME StoreInv, SweepBegins \/ SweepEnds
  PROVE  StoreInv'
<1>1. \A b \in Batches : batch[b] = None
  BY FreeMeansIdle, NoneAssumption DEF StoreInv, TypeOK, SweepBegins, SweepEnds, LockFree
<1>2. /\ sweep' \subseteq Keys /\ (sweep' # {} => lock' = Sweeper)
      /\ \A k \in sweep' : Expired(k)
  BY DEF SweepBegins, SweepEnds
<1>3. TypeOK'
  BY <1>1, <1>2 DEF StoreInv, TypeOK, SweepBegins, SweepEnds, store, histories
<1>4. now' \in Nat /\ now <= now'
  BY BoundAssumption DEF StoreInv, TypeOK, SweepBegins, SweepEnds
<1> QED  BY <1>1, <1>2, <1>3, <1>4, LockKeeps DEF SweepBegins, SweepEnds

-----------------------------------------------------------------------------
\* Threads: once one has called batch, types and the origin of records remain.

LEMMA RacedKeeps ==
  ASSUME raced', TypeOK', RecordsAreGiven'
  PROVE  StoreInv'
BY DEF StoreInv, SearchIsCurrent, NothingLeftBehind, RecordsArePromises

LEMMA ThreadBeginsType ==
  ASSUME TypeOK, NEW t \in Threads, NEW op \in ThreadOps, ThreadBegins(t, op)
  PROVE  /\ thread' \in [Threads -> ThreadOps \cup {None}]
         /\ \A u \in Threads : thread'[u] = IF u = t THEN op ELSE thread[u]
         /\ spent' \in [ops : 0..MaxOps, crashes : 0..MaxCrashes]
         /\ raced'
<1>1. Spends
  BY DEF ThreadBegins
<1> QED  BY <1>1, SpendType DEF ThreadBegins, TypeOK

LEMMA ThreadPutKeeps ==
  ASSUME StoreInv, NEW t \in Threads, NEW k \in Keys, NEW m \in Minutes \cup {None},
         ThreadPut(t, k, m)
  PROVE  StoreInv'
<1> DEFINE op == [pc |-> "record", key |-> k, record |-> Record(m)]
<1>1. Record(m) \in Records \cup {None} /\ (Record(m) = None <=> m = None)
  BY RecordType DEF StoreInv
<1>2. op \in ThreadOps /\ ThreadBegins(t, op)
  BY <1>1 DEF ThreadOps, ThreadPut
<1>3. /\ thread' \in [Threads -> ThreadOps \cup {None}] /\ raced'
      /\ \A u \in Threads : thread'[u] = IF u = t THEN op ELSE thread[u]
      /\ spent' \in [ops : 0..MaxOps, crashes : 0..MaxCrashes]
  BY <1>2, ThreadBeginsType DEF StoreInv
<1>4. TypeOK'
  BY <1>3 DEF StoreInv, TypeOK, ThreadPut, ThreadBegins
<1>5. given \subseteq given' /\ (m # None => k \in given')
  BY DEF ThreadPut
<1>6. RecordsAreGiven'
  BY <1>1, <1>3, <1>5 DEF StoreInv, RecordsAreGiven, ThreadPut, ThreadBegins
<1> QED  BY <1>3, <1>4, <1>6, RacedKeeps

LEMMA ThreadDeleteKeeps ==
  ASSUME StoreInv, NEW t \in Threads, NEW k \in Keys, ThreadDelete(t, k)
  PROVE  StoreInv'
<1> DEFINE op == [pc |-> "record", key |-> k, record |-> None]
<1>1. op \in ThreadOps /\ ThreadBegins(t, op)
  BY DEF ThreadOps, ThreadDelete
<1>2. /\ thread' \in [Threads -> ThreadOps \cup {None}] /\ raced'
      /\ \A u \in Threads : thread'[u] = IF u = t THEN op ELSE thread[u]
      /\ spent' \in [ops : 0..MaxOps, crashes : 0..MaxCrashes]
  BY <1>1, ThreadBeginsType DEF StoreInv
<1>3. TypeOK'
  BY <1>2 DEF StoreInv, TypeOK, ThreadDelete, ThreadBegins
<1>4. RecordsAreGiven'
  BY <1>2 DEF StoreInv, RecordsAreGiven, ThreadDelete, ThreadBegins
<1> QED  BY <1>2, <1>3, <1>4, RacedKeeps

LEMMA ThreadFindsKeeps ==
  ASSUME StoreInv, NEW t \in Threads, NEW found \in SUBSET Keys, ThreadFinds(t, found)
  PROVE  StoreInv'
<1> DEFINE op == [pc |-> "read", found |-> found]
<1>1. op \in ThreadOps /\ ThreadBegins(t, op)
  BY DEF ThreadOps, ThreadFinds
<1>2. /\ thread' \in [Threads -> ThreadOps \cup {None}] /\ raced'
      /\ \A u \in Threads : thread'[u] = IF u = t THEN op ELSE thread[u]
      /\ spent' \in [ops : 0..MaxOps, crashes : 0..MaxCrashes]
  BY <1>1, ThreadBeginsType DEF StoreInv
<1>3. TypeOK'
  BY <1>2 DEF StoreInv, TypeOK, ThreadFinds, ThreadBegins, store
<1>4. RecordsAreGiven'
  BY <1>2 DEF StoreInv, RecordsAreGiven, ThreadFinds, ThreadBegins, store
<1> QED  BY <1>2, <1>3, <1>4, RacedKeeps

LEMMA RestType ==
  ASSUME NEW found \in SUBSET Keys
  PROVE  /\ Rest(found) \in ThreadOps \cup {None}
         /\ Rest(found) # None => Rest(found).pc = "read"
BY DEF Rest, ThreadOps

\* A thread in the middle of a call has called.
LEMMA ThreadStepKeeps ==
  ASSUME StoreInv, NEW t \in Threads, Thread(t)
  PROVE  StoreInv'
<1> DEFINE x == thread[t]
<1>1. x \in ThreadOps /\ x # None
  BY DEF StoreInv, TypeOK, Thread, ThreadReads, ThreadWrites, ThreadTracks
<1>2. raced'
  BY <1>1 DEF StoreInv, TypeOK, RecordsArePromises, Thread, ThreadReads, ThreadWrites, ThreadTracks,
              histories
<1>3. /\ x.pc # "read" => x.key \in Keys
      /\ x.pc \in {"record", "refresh"} =>
           x.record \in Records \cup {None} /\ (x.record # None => x.key \in given)
      /\ x.pc \in {"read", "refresh"} => x.found \in SUBSET Keys
  BY <1>1 DEF ThreadOps, StoreInv, RecordsAreGiven
<1>6. CASE ThreadReads(t)
  <2>1. PICK k \in x.found :
          thread' = [thread EXCEPT ![t] =
            IF ttl[k] = None THEN Rest(x.found \ {k})
            ELSE [pc |-> "refresh", found |-> x.found \ {k}, key |-> k,
                  record |-> Record(ttl[k].minutes)]]
    BY <1>6 DEF ThreadReads
  <2> DEFINE y == IF ttl[k] = None THEN Rest(x.found \ {k})
                  ELSE [pc |-> "refresh", found |-> x.found \ {k}, key |-> k,
                        record |-> Record(ttl[k].minutes)]
  <2>2. k \in Keys /\ x.found \ {k} \in SUBSET Keys
    BY <1>3, <1>6 DEF ThreadReads
  <2>4. ASSUME ttl[k] # None
        PROVE  y \in ThreadOps /\ y.key \in given
    <3>1. ttl[k] \in Records /\ k \in given
      BY <2>2, <2>4 DEF StoreInv, TypeOK, RecordsAreGiven
    <3>2. ttl[k].minutes \in Minutes \cup {None} /\ ttl[k].minutes # None
      BY <3>1, MinutesAssumption DEF Records
    <3>3. Record(ttl[k].minutes) \in Records
      BY <3>2, RecordType DEF StoreInv
    <3> QED  BY <2>2, <2>4, <3>1, <3>3 DEF ThreadOps
  <2>5. /\ y \in ThreadOps \cup {None}
        /\ y # None => y.pc = "read" \/ y.key \in given
    <3>1. CASE ttl[k] = None
      <4>1. y = Rest(x.found \ {k})
        BY <3>1
      <4> HIDE DEF y
      <4> QED  BY <2>2, <4>1, RestType
    <3> HIDE DEF y
    <3> QED  BY <2>4, <3>1
  <2>6. thread' = [thread EXCEPT ![t] = y]
    BY <2>1
  <2> HIDE DEF x, y
  <2>7. /\ thread' \in [Threads -> ThreadOps \cup {None}]
        /\ \A u \in Threads : thread'[u] = IF u = t THEN y ELSE thread[u]
    BY <2>5, <2>6 DEF StoreInv, TypeOK
  <2>8. UNCHANGED <<now, store, lock, batch, sweep, disk, histories, spent>>
    BY <1>6 DEF ThreadReads
  <2>9. TypeOK'
    BY <2>7, <2>8 DEF StoreInv, TypeOK, store, histories
  <2>10. RecordsAreGiven'
    BY <2>5, <2>7, <2>8 DEF StoreInv, RecordsAreGiven, store, histories
  <2> QED  BY <1>2, <2>9, <2>10, RacedKeeps
<1>4. CASE ThreadWrites(t)
  <2> DEFINE y == IF x.pc = "refresh" THEN Rest(x.found) ELSE [x EXCEPT !.pc = "size"]
  <2>1. x.pc \in {"record", "refresh"} /\ x.key \in Keys
    BY <1>3, <1>4 DEF ThreadWrites
  <2>2. /\ thread' = [thread EXCEPT ![t] = y]
        /\ ttl' = [ttl EXCEPT ![x.key] = x.record]
        /\ UNCHANGED <<now, items, vectors, sized, lock, batch, sweep, disk, histories, spent>>
    BY <1>4 DEF ThreadWrites
  <2>3. y \in ThreadOps \cup {None} /\ (y # None => y.pc \notin {"record", "refresh"})
    <3>1. CASE x.pc = "refresh"
      <4>1. y = Rest(x.found) /\ x.found \in SUBSET Keys
        BY <1>3, <3>1
      <4> HIDE DEF x, y
      <4> QED  BY <4>1, RestType
    <3>2. CASE x.pc = "record"
      BY <1>1, <1>3, <3>2 DEF ThreadOps
    <3> QED  BY <2>1, <3>1, <3>2
  <2> HIDE DEF x, y
  <2>4. /\ thread' \in [Threads -> ThreadOps \cup {None}] /\ ttl' \in [Keys -> Records \cup {None}]
        /\ \A u \in Threads : thread'[u] = IF u = t THEN y ELSE thread[u]
        /\ \A k \in Keys : ttl'[k] = IF k = x.key THEN x.record ELSE ttl[k]
    BY <1>3, <2>1, <2>2, <2>3 DEF StoreInv, TypeOK
  <2>5. TypeOK'
    BY <2>2, <2>4 DEF StoreInv, TypeOK, histories
  <2>6. RecordsAreGiven'
    BY <1>3, <2>1, <2>2, <2>3, <2>4 DEF StoreInv, RecordsAreGiven, histories
  <2> QED  BY <1>2, <2>5, <2>6, RacedKeeps
<1>5. CASE ThreadTracks(t)
  <2>1. /\ thread' \in [Threads -> ThreadOps \cup {None}] /\ sized' \subseteq Keys
        /\ \A u \in Threads : thread'[u] = IF u = t THEN None ELSE thread[u]
    BY <1>3, <1>5 DEF StoreInv, TypeOK, ThreadTracks
  <2>2. TypeOK'
    BY <1>5, <2>1 DEF StoreInv, TypeOK, ThreadTracks, histories
  <2>3. RecordsAreGiven'
    BY <1>5, <2>1 DEF StoreInv, RecordsAreGiven, ThreadTracks, histories
  <2> QED  BY <1>2, <2>2, <2>3, RacedKeeps
<1> QED  BY <1>4, <1>5, <1>6 DEF Thread

-----------------------------------------------------------------------------
\* Files and restarts.

Snapshots == [items : SUBSET Keys, vectors : SUBSET Keys, ttl : [Keys -> Records \cup {None}]]

LEMMA FlushKeeps ==
  ASSUME StoreInv, NEW file \in DOMAIN disk, Flush(file)
  PROVE  StoreInv'
<1>1. disk \in Snapshots /\ Memory \in Snapshots
  BY DEF StoreInv, TypeOK, Snapshots, Memory
<1>2. file \in {"items", "vectors", "ttl"}
  BY <1>1 DEF Snapshots
<1>3. disk' \in Snapshots /\ (disk'.ttl = disk.ttl \/ disk'.ttl = ttl)
  <2>1. CASE file = "items"
    BY <1>1, <2>1 DEF Flush, Snapshots, Memory
  <2>2. CASE file = "vectors"
    BY <1>1, <2>2 DEF Flush, Snapshots, Memory
  <2>3. CASE file = "ttl"
    BY <1>1, <2>3 DEF Flush, Snapshots, Memory
  <2> QED  BY <1>2, <2>1, <2>2, <2>3
<1>4. TypeOK'
  BY <1>3 DEF StoreInv, TypeOK, Flush, Snapshots, store, histories
<1>5. SearchIsCurrent' /\ NothingLeftBehind' /\ RecordsArePromises'
  BY DEF StoreInv, SearchIsCurrent, NothingLeftBehind, RecordsArePromises, Expired, Flush,
         store, histories
<1>6. RecordsAreGiven'
  BY <1>3 DEF StoreInv, RecordsAreGiven, Flush, store, histories
<1> QED  BY <1>4, <1>5, <1>6 DEF StoreInv

LEMMA RestartKeeps ==
  ASSUME StoreInv, NEW files \in Snapshots, files.ttl = disk.ttl \/ files.ttl = ttl,
         Restart(files)
  PROVE  StoreInv'
<1>1. \A k \in Keys : ttl'[k] = IF k \in files.items THEN files.ttl[k] ELSE None
  BY DEF Restart, Loaded
<1>2. ttl' \in [Keys -> Records \cup {None}] /\ files.items \subseteq Keys /\ files.vectors \subseteq Keys
  BY DEF Restart, Loaded, Snapshots
<1>3. \A k \in Keys : promised'[k] = IF ttl'[k] = None THEN None ELSE ttl'[k].expires
  BY DEF Restart
<1>4. promised' \in [Keys -> Nat \cup {None}]
  BY <1>2 DEF Restart, Records
<1>5. /\ spent' \in [ops : 0..MaxOps, crashes : 0..MaxCrashes] /\ spent'.crashes # 0
  <2>1. spent.ops \in 0..MaxOps /\ spent.crashes \in 0..MaxCrashes
    BY DEF StoreInv, TypeOK
  <2> QED  BY <2>1, BoundAssumption DEF StoreInv, TypeOK, Restart
<1>6. /\ batch' \in [Batches -> Ops \cup {None}] /\ \A b \in Batches : batch'[b] = None
      /\ thread' \in [Threads -> ThreadOps \cup {None}] /\ \A t \in Threads : thread'[t] = None
      /\ lock' = None /\ sweep' = {} /\ disk' = files
  BY DEF Restart
<1>7. TypeOK'
  BY <1>2, <1>4, <1>5, <1>6 DEF StoreInv, TypeOK, Restart, Snapshots
<1>8. SearchIsCurrent' /\ NothingLeftBehind' /\ RecordsArePromises'
  BY <1>1, <1>3, <1>5, <1>6
     DEF SearchIsCurrent, NothingLeftBehind, RecordsArePromises, Restart
<1>9. RecordsAreGiven'
  BY <1>1, <1>6 DEF StoreInv, RecordsAreGiven, Restart
<1> QED  BY <1>7, <1>8, <1>9 DEF StoreInv

-----------------------------------------------------------------------------
LEMMA StepKeeps == StoreInv /\ [Next]_vars => StoreInv'
<1> SUFFICES ASSUME StoreInv, [Next]_vars PROVE StoreInv'
  OBVIOUS
<1>1. CASE UNCHANGED vars
  BY <1>1 DEF StoreInv, TypeOK, SearchIsCurrent, NothingLeftBehind, RecordsArePromises,
              RecordsAreGiven, Expired, vars, store, histories
<1>2. CASE Tick
  BY <1>2, TickKeeps
<1>3. CASE Sweeps
  BY <1>3, SweepLocks, SweepItemKeeps DEF Sweeps
<1>4. CASE Crash \/ Stop
  <2>1. disk \in Snapshots /\ Memory \in Snapshots /\ Memory.ttl = ttl
    BY DEF StoreInv, TypeOK, Snapshots, Memory
  <2> QED  BY <1>4, <2>1, RestartKeeps DEF Crash, Stop
<1>5. ASSUME NEW file \in DOMAIN disk, Flush(file) PROVE StoreInv'
  BY <1>5, FlushKeeps
<1>6. ASSUME NEW k \in Keys, Delete(k) \/ Get(k) PROVE StoreInv'
  BY <1>6, DeleteKeeps, GetKeeps
<1>7. ASSUME NEW b \in Batches, Batch(b) PROVE StoreInv'
  BY <1>7, PutKeeps, SearchKeeps, BatchFailsKeeps DEF Batch
<1>8. ASSUME NEW b \in Batches, NEW refresh \in BOOLEAN, BeginSearch(b, refresh) PROVE StoreInv'
  <2> DEFINE op == [kind |-> "search", found |-> items, refresh |-> refresh]
  <2>1. op \in Ops /\ op.found = items
    BY DEF Ops, StoreInv, TypeOK
  <2>2. Begin(b, op)
    BY <1>8 DEF BeginSearch
  <2> HIDE DEF op
  <2> QED  BY <2>1, <2>2, BeginKeeps
<1>9. ASSUME NEW b \in Batches, NEW k \in Keys, NEW m \in Minutes \cup {None}, BeginPut(b, k, m)
      PROVE  StoreInv'
  <2> DEFINE op == [kind |-> "put", key |-> k, ttl |-> m]
  <2>1. op \in Ops /\ op.kind # "search"
    BY DEF Ops
  <2>2. Begin(b, op)
    BY <1>9 DEF BeginPut
  <2> HIDE DEF op
  <2> QED  BY <2>1, <2>2, BeginKeeps
<1>10. ASSUME NEW t \in Threads, NEW k \in Keys, ThreadGet(t, k) \/ ThreadDelete(t, k)
       PROVE  StoreInv'
  <2>1. {k} \cap items \in SUBSET Keys
    OBVIOUS
  <2> QED  BY <1>10, <2>1, ThreadFindsKeeps, ThreadDeleteKeeps DEF ThreadGet
<1>13. ASSUME NEW t \in Threads, ThreadSearch(t) PROVE StoreInv'
  <2>1. items \in SUBSET Keys
    BY DEF StoreInv, TypeOK
  <2> QED  BY <1>13, <2>1, ThreadFindsKeeps DEF ThreadSearch
<1>11. ASSUME NEW t \in Threads, NEW k \in Keys, NEW m \in Minutes \cup {None}, ThreadPut(t, k, m)
       PROVE  StoreInv'
  BY <1>11, ThreadPutKeeps
<1>12. ASSUME NEW t \in Threads, Thread(t) PROVE StoreInv'
  BY <1>12, ThreadStepKeeps
<1> QED
  BY <1>1, <1>2, <1>3, <1>4, <1>5, <1>6, <1>7, <1>8, <1>9, <1>10, <1>11, <1>12, <1>13 DEF Next

\* In every state of the store records, sizes and vectors belong to items, a suspended
\* search holds the items there are, and records are promises that a put has given.
THEOREM StoreInvariant == Spec => []StoreInv
BY InitStore, StepKeeps, PTL DEF Spec

\* A sweep removes no item before its time, and none that no put gave a TTL.
THEOREM SweptInTime == Spec => NotSweptEarly
<1> DEFINE A == lock = Sweeper /\ spent' = spent
                  => \A k \in items \ items' :
                       /\ k \in given
                       /\ ~raced => promised[k] # None /\ promised[k] <= now
<1>1. StoreInv /\ [Next]_vars => A
  <2> SUFFICES ASSUME StoreInv, [Next]_vars, lock = Sweeper, spent' = spent,
                      NEW k \in items, k \notin items'
               PROVE  k \in given /\ (~raced => promised[k] # None /\ promised[k] <= now)
    OBVIOUS
  <2>1. k \in Keys /\ Sweeper \notin Batches /\ Sweeper # None
    BY NoneAssumption DEF StoreInv, TypeOK
  <2>2. spent.ops \in Nat /\ spent.crashes \in Nat
    BY BoundAssumption DEF StoreInv, TypeOK
  <2>3. ~Spends
    BY <2>2 DEF Spends, StoreInv, TypeOK
  <2>4. \A files : ~Restart(files)
    BY <2>2 DEF Restart, StoreInv, TypeOK
  <2>5. \E j \in Keys : SweepItem(j)
    <3>1. \A b \in Batches : batch[b] = None
      BY <2>1 DEF StoreInv, TypeOK
    <3>2. \A b \in Batches : ~Batch(b)
      BY <3>1 DEF Batch, FinishPut, FinishSearch, BatchFails
    <3>3. \A b \in Batches : \A op : ~Begin(b, op)
      BY <2>3 DEF Begin
    <3>4. \A t \in Threads : \A op : ~ThreadBegins(t, op)
      BY <2>3 DEF ThreadBegins
    <3>5. \A j \in Keys : ~Delete(j) /\ ~Get(j)
      BY <2>3 DEF Delete, Get
    <3>6. /\ ~UNCHANGED vars /\ ~Tick /\ ~SweepBegins /\ ~SweepEnds
          /\ \A file : ~Flush(file)
          /\ \A t \in Threads : ~Thread(t)
      BY DEF vars, store, Tick, SweepBegins, SweepEnds, Flush, Thread, ThreadReads, ThreadWrites,
             ThreadTracks
    <3> QED  BY <2>4, <3>2, <3>3, <3>4, <3>5, <3>6
             DEF Next, Sweeps, Crash, Stop, BeginSearch, BeginPut, ThreadGet, ThreadSearch, ThreadFinds,
                 ThreadDelete, ThreadPut
  <2>6. PICK j \in Keys : SweepItem(j)
    BY <2>5
  <2>7. k = j /\ k \in sweep
    BY <2>6 DEF SweepItem, Swept
  <2>8. k \in given
    BY <2>1, <2>7 DEF StoreInv, RecordsAreGiven
  <2>9. ASSUME ~raced PROVE promised[k] # None /\ promised[k] <= now
    <3>1. Expired(k) /\ promised[k] = ttl[k].expires
      BY <2>1, <2>7, <2>9 DEF StoreInv, RecordsArePromises, Expired
    <3>2. ttl[k].expires \in Nat
      BY <2>1, <3>1 DEF Expired, StoreInv, TypeOK, Records
    <3> QED  BY <3>1, <3>2, NoneAssumption DEF Expired
  <2> QED  BY <2>8, <2>9
<1>2. Spec => [][A]_vars
  BY <1>1, StoreInvariant, PTL DEF Spec
<1> QED  BY <1>2 DEF NotSweptEarly
===============================================================================
