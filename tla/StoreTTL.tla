------------------------------- MODULE StoreTTL -------------------------------
(***************************************************************************)
(* Expiration in the long-term store (store.py): the batches of the server  *)
(* and of asynchronous graphs, which take the store's lock and may suspend  *)
(* for embeddings; batch called from a thread, which takes no lock; the     *)
(* sweeper; the files and the restart.                                      *)
(*                                                                         *)
(* A batch holds one operation.  An item is its key: values, namespaces and *)
(* vectors' contents are left out.  Every search finds every item.  The     *)
(* embedding of texts, the base class InMemoryStore and the flushing of the *)
(* files are external; here a file is written whenever the flush thread     *)
(* pleases (that it may stop doing so is the subject of Persistence).       *)
(***************************************************************************)
EXTENDS Integers, FiniteSets

CONSTANTS
  Keys,       \* keys of items
  Batches,    \* batches that may be suspended or wait for the lock
  Threads,    \* threads that call batch
  Minutes,    \* the TTLs that puts carry
  None,       \* no TTL; also: nobody holds the lock
  Sweeper,    \* sweep_ttl, as a holder of the lock
  MaxTime,    \* bound: the clock
  MaxOps,     \* bound: operations of batches
  MaxCrashes  \* bound: restarts

ASSUME BoundAssumption == MaxTime \in Nat /\ MaxOps \in Nat /\ MaxCrashes \in Nat
\* A TTL of 0 expires at once.
ASSUME MinutesAssumption == Minutes \subseteq Nat /\ None \notin Minutes

VARIABLES
  now,       \* _utcnow()
  items,     \* _data
  vectors,   \* _vectors
  ttl,       \* _ttl: the record of each key
  sized,     \* the keys in the size tracker
  lock,      \* _operation_lock
  batch,     \* what each suspended batch holds
  thread,    \* what each thread is in the middle of
  sweep,     \* the expired keys that the sweep has still to remove
  disk,      \* the three files
  promised,  \* history: until when each item is to be kept, by its last put or refresh
  given,     \* history: keys that a put has given a TTL
  raced,     \* history: a thread has called batch
  spent      \* operations and restarts so far (for the bounds)

store == <<items, vectors, ttl, sized>>
histories == <<promised, given, raced>>
vars == <<now, store, lock, batch, thread, sweep, disk, histories, spent>>

-----------------------------------------------------------------------------
(* Types *)

Records == [expires : Nat, minutes : Minutes]
Ops == [kind : {"put"}, key : Keys, ttl : Minutes \cup {None}]
         \cup [kind : {"search"}, found : SUBSET Keys, refresh : BOOLEAN]
ThreadOps ==
  [pc : {"record", "size"}, key : Keys, record : Records \cup {None}]
    \cup [pc : {"read"}, found : SUBSET Keys]
    \cup [pc : {"refresh"}, found : SUBSET Keys, key : Keys, record : Records]

\* What says that there is no record, operation or holder is none.
ASSUME NoneAssumption ==
  /\ None \notin Nat /\ None \notin Records \cup Ops \cup ThreadOps
  /\ None \notin Batches /\ Sweeper \notin Batches /\ Sweeper # None

TypeOK ==
  /\ now \in 0..MaxTime
  /\ items \subseteq Keys /\ vectors \subseteq Keys /\ sized \subseteq Keys
  /\ ttl \in [Keys -> Records \cup {None}]
  /\ lock \in Batches \cup {Sweeper, None}
  /\ batch \in [Batches -> Ops \cup {None}]
  /\ \A b \in Batches : batch[b] # None => lock = b
  /\ thread \in [Threads -> ThreadOps \cup {None}]
  /\ sweep \subseteq Keys /\ (sweep # {} => lock = Sweeper)
  /\ disk \in [items : SUBSET Keys, vectors : SUBSET Keys, ttl : [Keys -> Records \cup {None}]]
  /\ promised \in [Keys -> Nat \cup {None}]
  /\ given \subseteq Keys /\ raced \in BOOLEAN
  /\ spent \in [ops : 0..MaxOps, crashes : 0..MaxCrashes]

-----------------------------------------------------------------------------
NoRecords == [k \in Keys |-> None]

Init ==
  /\ now = 0
  /\ items = {} /\ vectors = {} /\ sized = {} /\ ttl = NoRecords
  /\ lock = None /\ batch = [b \in Batches |-> None]
  /\ thread = [t \in Threads |-> None] /\ sweep = {}
  /\ disk = [items |-> {}, vectors |-> {}, ttl |-> NoRecords]
  /\ promised = NoRecords /\ given = {} /\ raced = FALSE
  /\ spent = [ops |-> 0, crashes |-> 0]

Tick ==
  /\ now < MaxTime /\ now' = now + 1
  /\ UNCHANGED <<store, lock, batch, thread, sweep, disk, histories, spent>>

-----------------------------------------------------------------------------
(* What an operation does *)

Record(minutes) ==
  IF minutes = None THEN None ELSE [expires |-> now + minutes, minutes |-> minutes]

\* _refresh_ttl: a key without a record gets none.
Refreshed(S) ==
  [k \in Keys |-> IF k \in S /\ ttl[k] # None THEN Record(ttl[k].minutes) ELSE ttl[k]]

\* _apply_put_ops: a record is replaced or dropped with the value it belongs to.
Put(k, minutes) ==
  /\ items' = items \cup {k} /\ vectors' = vectors \cup {k} /\ sized' = sized \cup {k}
  /\ ttl' = [ttl EXCEPT ![k] = Record(minutes)]
  /\ promised' = [promised EXCEPT ![k] = IF minutes = None THEN None ELSE now + minutes]
  /\ given' = IF minutes = None THEN given ELSE given \cup {k}
  /\ UNCHANGED raced

Refresh(S) ==
  /\ ttl' = Refreshed(S)
  /\ promised' = [k \in Keys |-> IF k \in S /\ ttl[k] # None
                                 THEN now + ttl[k].minutes ELSE promised[k]]
  /\ UNCHANGED <<items, vectors, sized, given, raced>>

-----------------------------------------------------------------------------
(* abatch: the lock is held from the first look at the store to the last write *)

\* (X_Y, placed before X, is X with a plausible defect; the model never uses it.)
LockFree_Ignored == TRUE
LockFree == lock = None

Spends == spent.ops < MaxOps /\ spent' = [spent EXCEPT !.ops = @ + 1]

\* A get (with refresh_ttl; without it changes nothing) and a delete are not suspended.
Get(k) ==
  /\ LockFree /\ Spends
  /\ k \in items
  /\ Refresh({k})
  /\ UNCHANGED <<now, lock, batch, thread, sweep, disk>>

Delete(k) ==
  /\ LockFree /\ Spends
  /\ items' = items \ {k} /\ vectors' = vectors \ {k} /\ sized' = sized \ {k}
  /\ ttl' = [ttl EXCEPT ![k] = None]
  /\ promised' = [promised EXCEPT ![k] = None]
  /\ UNCHANGED <<now, lock, batch, thread, sweep, disk, given, raced>>

\* A put waits for the embedding of its value, a search for that of its query; the
\* candidates of the search are selected before.
Begin(b, op) ==
  /\ LockFree /\ Spends
  /\ batch[b] = None
  /\ lock' = b /\ batch' = [batch EXCEPT ![b] = op]
  /\ UNCHANGED <<now, store, thread, sweep, disk, histories>>
BeginPut(b, k, minutes) == Begin(b, [kind |-> "put", key |-> k, ttl |-> minutes])
BeginSearch(b, refresh) ==
  Begin(b, [kind |-> "search", found |-> items, refresh |-> refresh])

Release(b) == lock' = None /\ batch' = [batch EXCEPT ![b] = None]

FinishPut(b) ==
  /\ batch[b] # None /\ batch[b].kind = "put"
  /\ Put(batch[b].key, batch[b].ttl)
  /\ Release(b)
  /\ UNCHANGED <<now, thread, sweep, disk, spent>>

FinishSearch(b) ==
  /\ batch[b] # None /\ batch[b].kind = "search"
  /\ Refresh(IF batch[b].refresh THEN batch[b].found ELSE {})
  /\ Release(b)
  /\ UNCHANGED <<now, thread, sweep, disk, spent>>

\* The embedding fails, or the request is cancelled: nothing has been written.
BatchFails_Locked(b) ==
  /\ batch[b] # None
  /\ batch' = [batch EXCEPT ![b] = None]
  /\ UNCHANGED <<now, store, lock, thread, sweep, disk, histories, spent>>
BatchFails(b) ==
  /\ batch[b] # None
  /\ Release(b)
  /\ UNCHANGED <<now, store, thread, sweep, disk, histories, spent>>

-----------------------------------------------------------------------------
(* batch on a thread of its own *)

ThreadBegins(t, op) ==
  /\ thread[t] = None /\ Spends
  /\ thread' = [thread EXCEPT ![t] = op] /\ raced' = TRUE
  /\ UNCHANGED <<now, lock, batch, sweep, disk, promised>>

\* The value is written or removed, then the record, then the size.
ThreadPut(t, k, minutes) ==
  /\ ThreadBegins(t, [pc |-> "record", key |-> k, record |-> Record(minutes)])
  /\ items' = items \cup {k} /\ vectors' = vectors \cup {k}
  /\ given' = IF minutes = None THEN given ELSE given \cup {k}
  /\ UNCHANGED <<ttl, sized>>
ThreadDelete(t, k) ==
  /\ ThreadBegins(t, [pc |-> "record", key |-> k, record |-> None])
  /\ items' = items \ {k} /\ vectors' = vectors \ {k}
  /\ UNCHANGED <<ttl, sized, given>>
\* A get or a search, with refresh_ttl (without it neither changes anything), has found
\* items.  Of one after the other the record is read, then its refreshed form is written.
ThreadFinds(t, found) ==
  /\ found # {}
  /\ ThreadBegins(t, [pc |-> "read", found |-> found])
  /\ UNCHANGED <<store, given>>
ThreadGet(t, k) == ThreadFinds(t, {k} \cap items)
ThreadSearch(t) == ThreadFinds(t, items)

\* The thread has still to refresh the rest, or is done.
Rest(found) == IF found = {} THEN None ELSE [pc |-> "read", found |-> found]

ThreadReads(t) ==
  /\ thread[t] # None /\ thread[t].pc = "read"
  /\ \E k \in thread[t].found :
       LET rest == thread[t].found \ {k} IN
       thread' = [thread EXCEPT ![t] =
         IF ttl[k] = None THEN Rest(rest)
         ELSE [pc |-> "refresh", found |-> rest, key |-> k, record |-> Record(ttl[k].minutes)]]
  /\ UNCHANGED <<now, store, lock, batch, sweep, disk, histories, spent>>

ThreadWrites(t) ==
  /\ thread[t] # None /\ thread[t].pc \in {"record", "refresh"}
  /\ ttl' = [ttl EXCEPT ![thread[t].key] = thread[t].record]
  /\ thread' = [thread EXCEPT ![t] =
       IF @.pc = "refresh" THEN Rest(@.found) ELSE [@ EXCEPT !.pc = "size"]]
  /\ UNCHANGED <<now, items, vectors, sized, lock, batch, sweep, disk, histories, spent>>

ThreadTracks(t) ==
  /\ thread[t] # None /\ thread[t].pc = "size"
  /\ sized' = IF thread[t].key \in items THEN sized \cup {thread[t].key}
              ELSE sized \ {thread[t].key}
  /\ thread' = [thread EXCEPT ![t] = None]
  /\ UNCHANGED <<now, items, vectors, ttl, lock, batch, sweep, disk, histories, spent>>

-----------------------------------------------------------------------------
(* The sweeper.  A sweep that meets a record which a thread inserts fails and is *)
(* repeated after the interval.                                                *)

Expired_Touched(k) == ttl[k] # None /\ ttl[k].expires - ttl[k].minutes <= now
Expired(k) == ttl[k] # None /\ ttl[k].expires <= now

SweepBegins ==
  /\ LockFree
  /\ \E k \in Keys : Expired(k)
  /\ lock' = Sweeper /\ sweep' = {k \in Keys : Expired(k)}
  /\ UNCHANGED <<now, store, batch, thread, disk, histories, spent>>

\* The item, its size, its vectors and its record go, or what there is of them.
Swept(k) ==
  /\ items' = items \ {k} /\ vectors' = vectors \ {k} /\ sized' = sized \ {k}
  /\ ttl' = [ttl EXCEPT ![k] = None]

SweepItem(k) ==
  /\ lock = Sweeper /\ k \in sweep
  /\ Swept(k)
  /\ sweep' = sweep \ {k}
  /\ promised' = [promised EXCEPT ![k] = None]
  /\ UNCHANGED <<now, lock, batch, thread, disk, given, raced, spent>>
SweepEnds ==
  /\ lock = Sweeper /\ sweep = {}
  /\ lock' = None
  /\ UNCHANGED <<now, store, batch, thread, sweep, disk, histories, spent>>

-----------------------------------------------------------------------------
(* Files and restarts *)

\* Data, vectors and records are written one file at a time.
Memory == [items |-> items, vectors |-> vectors, ttl |-> ttl]
Flush(file) ==
  /\ disk' = [disk EXCEPT ![file] = Memory[file]]
  /\ UNCHANGED <<now, store, lock, batch, thread, sweep, histories, spent>>

\* __init__: records without an item are dropped, sizes are computed anew.
Loaded(f) == [k \in Keys |-> IF k \in f.items THEN f.ttl[k] ELSE None]

\* The process dies, or ends in order: close writes the three files.  After a crash
\* an item is kept as long as the record says that was in its file.
Restart(files) ==
  /\ spent.crashes < MaxCrashes
  /\ spent' = [spent EXCEPT !.crashes = @ + 1]
  /\ items' = files.items /\ vectors' = files.vectors /\ sized' = files.items
  /\ ttl' = Loaded(files)
  /\ disk' = files
  /\ lock' = None /\ batch' = [b \in Batches |-> None]
  /\ thread' = [t \in Threads |-> None] /\ sweep' = {}
  /\ promised' = [k \in Keys |-> IF ttl'[k] = None THEN None ELSE ttl'[k].expires]
  /\ UNCHANGED <<now, given, raced>>
Crash == Restart(disk)
Stop ==
  /\ lock # Sweeper
  /\ Restart(Memory)

-----------------------------------------------------------------------------
Batch(b) ==
  \/ FinishPut(b) \/ FinishSearch(b) \/ BatchFails(b)
Thread(t) == ThreadReads(t) \/ ThreadWrites(t) \/ ThreadTracks(t)
Sweeps == SweepBegins \/ SweepEnds \/ \E k \in Keys : SweepItem(k)

Next ==
  \/ Tick \/ Sweeps \/ Crash \/ Stop
  \/ \E file \in DOMAIN disk : Flush(file)
  \/ \E k \in Keys : Delete(k) \/ Get(k)
  \/ \E b \in Batches :
       \/ Batch(b)
       \/ \E refresh \in BOOLEAN : BeginSearch(b, refresh)
       \/ \E k \in Keys, m \in Minutes \cup {None} : BeginPut(b, k, m)
  \/ \E t \in Threads :
       \/ Thread(t) \/ ThreadSearch(t)
       \/ \E k \in Keys : ThreadGet(t, k) \/ ThreadDelete(t, k)
       \/ \E k \in Keys, m \in Minutes \cup {None} : ThreadPut(t, k, m)

Spec == Init /\ [][Next]_vars

\* The sweeper's timer fires again and again, threads run, and embeddings are
\* computed or fail (assumed).  Batches may take the lock ahead of a sweep, but the
\* waiters of an asyncio.Lock are served in order.
Fairness ==
  /\ SF_vars(SweepBegins) /\ WF_vars(Sweeps)
  /\ \A b \in Batches : WF_vars(Batch(b))
  /\ \A t \in Threads : WF_vars(Thread(t))
FairSpec == Spec /\ Fairness

-----------------------------------------------------------------------------
(* Properties *)

\* While a search waits for the embedding of its query nothing is put, deleted or
\* swept: what it will return and refresh are the items of the store ("keep search
\* candidate selection, TTL refresh, writes, and sweeps ordered").  Threads that
\* call batch are not kept out.
SearchIsCurrent ==
  ~raced => \A b \in Batches :
    batch[b] # None /\ batch[b].kind = "search" => batch[b].found = items

\* A sweep removes no item before its time, reckoned from its last put or from the
\* last read that refreshed it, one that was suspended included.  (A thread can
\* write a value that the record of the former one then expires; a crash can leave
\* the file of records behind that of items.)  One to which no put ever gave a TTL
\* is not swept, whatever threads, crashes and refreshing reads do to the records.
NotSweptEarly ==
  [][lock = Sweeper /\ spent' = spent
       => \A k \in items \ items' :
            /\ k \in given
            /\ ~raced => promised[k] # None /\ promised[k] <= now]_vars

\* Records, sizes and vectors are those of the items there are: after sweeps, after
\* restarts with files of different ages (but for vectors), at any time but while a
\* thread is about.
NothingLeftBehind ==
  ~raced => /\ \A k \in Keys : ttl[k] # None => k \in items
            /\ sized = items
            /\ spent.crashes = 0 => vectors = items

\* Without threads each item is kept as long as its record says, and what a sweep
\* has still to remove has expired.
RecordsArePromises ==
  ~raced => /\ \A t \in Threads : thread[t] = None
            /\ \A k \in Keys : promised[k] = IF ttl[k] = None THEN None ELSE ttl[k].expires
            /\ \A k \in sweep : Expired(k)

\* A record, wherever it is, goes back to a put with a TTL.
RecordsAreGiven ==
  /\ \A k \in Keys : ttl[k] # None \/ disk.ttl[k] # None \/ k \in sweep => k \in given
  /\ \A t \in Threads :
       thread[t] # None /\ thread[t].pc \in {"record", "refresh"} /\ thread[t].record # None
         => thread[t].key \in given

\* What holds of the store in every state: types, searches and leftovers, and what
\* they and the sweep rest on.
StoreInv ==
  TypeOK /\ SearchIsCurrent /\ NothingLeftBehind /\ RecordsArePromises /\ RecordsAreGiven

\* What has expired is swept, or has got a later date: also the records that threads
\* leave without an item, and in spite of batches that fail or wait for embeddings.
ExpiredIsSwept == \A k \in Keys : Expired(k) ~> ~Expired(k)

=============================================================================
