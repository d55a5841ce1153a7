---------------------------- MODULE ThreadTTLProofs ----------------------------
(***************************************************************************)
(* Proofs for ThreadTTL, for any threads, requests, policies, limits and    *)
(* batch sizes: with the built-in checkpointer the sweep spares active      *)
(* threads, prunes a thread once, and changes no policy.                    *)
(*                                                                         *)
(* One inductive invariant, TTLInv.  While the sweep of a built-in          *)
(* checkpointer is under way no request runs, so that what it read stays    *)
(* true (SweepIsCurrent) but for what it does itself; between sweeps the    *)
(* records say when each thread was last pruned (PrunesAreRecorded).        *)
(***************************************************************************)
EXTENDS ThreadTTL, SequenceTheorems, FiniteSetTheorems, TLAPS

-----------------------------------------------------------------------------
\* Lists of threads.

LEMMA SetOfList ==
  ASSUME NEW S, NEW s \in Seq(S)
  PROVE  ToSet(s) = {s[i] : i \in 1..Len(s)} /\ Len(s) \in Nat
BY LenProperties DEF ToSet

\* What lies between two positions.
LEMMA Slice ==
  ASSUME NEW S, NEW s \in Seq(S), NEW m \in 1..Len(s) + 1, NEW n \in m - 1..Len(s)
  PROVE  /\ SubSeq(s, m, n) \in Seq(S) /\ Len(SubSeq(s, m, n)) = n - m + 1
         /\ \A i \in 1..n - m + 1 : SubSeq(s, m, n)[i] = s[m + i - 1]
<1>1. Len(s) \in Nat /\ m \in Int /\ n \in Int
  BY LenProperties
<1>2. \A i \in m..n : s[i] \in S
  <2> SUFFICES ASSUME NEW i \in m..n PROVE s[i] \in S
    OBVIOUS
  <2>1. i \in 1..Len(s)
    BY <1>1
  <2> QED  BY <2>1, ElementOfSeq
<1>3. /\ SubSeq(s, m, n) \in Seq(S)
      /\ Len(SubSeq(s, m, n)) = IF m <= n THEN n - m + 1 ELSE 0
      /\ \A i \in 1..n - m + 1 : SubSeq(s, m, n)[i] = s[m + i - 1]
  BY <1>1, <1>2, SubSeqProperties, SMTT(30)
<1>4. (IF m <= n THEN n - m + 1 ELSE 0) = n - m + 1
  BY <1>1
<1> QED  BY <1>3, <1>4, Zenon

\* A list that gets a new member has no repetition.
LEMMA AppendNew ==
  ASSUME NEW S, NEW s \in Seq(S), IsInjective(s), NEW t \in S, t \notin ToSet(s)
  PROVE  Append(s, t) \in Seq(S) /\ IsInjective(Append(s, t))
<1> DEFINE a == Append(s, t)
<1>1. /\ a \in Seq(S) /\ Len(a) = Len(s) + 1 /\ a[Len(s) + 1] = t
      /\ \A i \in 1..Len(s) : a[i] = s[i]
  BY AppendProperties
<1>2. /\ DOMAIN s = 1..Len(s) /\ Len(s) \in Nat /\ DOMAIN a = 1..Len(s) + 1
  BY <1>1, LenProperties
<1>3. \A i \in 1..Len(s) : s[i] # t
  BY SetOfList
<1> HIDE DEF a
<1>4. IsInjective(a)
  BY <1>1, <1>2, <1>3 DEF IsInjective
<1> QED  BY <1>1, <1>4 DEF a

\* A popped position leaves a list without repetition, and without what was there.
LEMMA PopList ==
  ASSUME NEW S, NEW s \in Seq(S), NEW at \in 1..Len(s)
  PROVE  /\ RemoveAt(s, at) \in Seq(S)
         /\ ToSet(RemoveAt(s, at)) \subseteq ToSet(s)
         /\ IsInjective(s) => IsInjective(RemoveAt(s, at)) /\ s[at] \notin ToSet(RemoveAt(s, at))
<1> DEFINE a == SubSeq(s, 1, at - 1)
           b == SubSeq(s, at + 1, Len(s))
           r == a \o b
<1>1. DOMAIN s = 1..Len(s) /\ Len(s) \in Nat /\ \A i \in 1..Len(s) : s[i] \in S
  BY LenProperties, ElementOfSeq
<1>2. a \in Seq(S) /\ Len(a) = at - 1 /\ \A i \in 1..at - 1 : a[i] = s[i]
  BY <1>1, Slice
<1>3. b \in Seq(S) /\ Len(b) = Len(s) - at /\ \A i \in 1..Len(s) - at : b[i] = s[at + i]
  <2>1. b \in Seq(S) /\ Len(b) = Len(s) - (at + 1) + 1
    BY <1>1, Slice
  <2>2. \A i \in 1..Len(s) - (at + 1) + 1 : b[i] = s[(at + 1) + i - 1]
    BY <1>1, Slice
  <2> HIDE DEF b
  <2> QED  BY <1>1, <2>1, <2>2
<1> HIDE DEF a, b
<1>4. /\ r \in Seq(S) /\ Len(r) = Len(s) - 1
      /\ \A i \in 1..Len(s) - 1 : r[i] = IF i <= at - 1 THEN a[i] ELSE b[i - (at - 1)]
  <2>1. /\ r \in Seq(S) /\ Len(r) = Len(a) + Len(b)
        /\ \A i \in 1..Len(a) + Len(b) : r[i] = IF i <= Len(a) THEN a[i] ELSE b[i - Len(a)]
    BY <1>2, <1>3, ConcatProperties
  <2>2. Len(a) + Len(b) = Len(s) - 1
    BY <1>1, <1>2, <1>3
  <2> QED  BY <1>2, <2>1, <2>2
<1> HIDE DEF r
<1>5. \A i \in 1..Len(s) - 1 : r[i] = IF i < at THEN s[i] ELSE s[i + 1]
  <2> SUFFICES ASSUME NEW i \in 1..Len(s) - 1 PROVE r[i] = IF i < at THEN s[i] ELSE s[i + 1]
    OBVIOUS
  <2>1. CASE i < at
    BY <1>1, <1>2, <1>4, <2>1
  <2>2. CASE ~(i < at)
    <3>1. i - (at - 1) \in 1..Len(s) - at /\ at + (i - (at - 1)) = i + 1
      BY <1>1, <2>2
    <3> QED  BY <1>1, <1>3, <1>4, <2>2, <3>1
  <2> QED  BY <2>1, <2>2
<1>6. DOMAIN r = 1..Len(s) - 1 /\ ToSet(r) = {r[i] : i \in 1..Len(s) - 1}
  BY <1>4, SetOfList, LenProperties
<1>7. ToSet(r) \subseteq ToSet(s)
  BY <1>1, <1>5, <1>6, SetOfList
<1>8. ASSUME IsInjective(s) PROVE IsInjective(r) /\ s[at] \notin ToSet(r)
  <2>1. \A i, j \in 1..Len(s) : s[i] = s[j] => i = j
    BY <1>1, <1>8 DEF IsInjective
  <2>2. ASSUME NEW i \in 1..Len(s) - 1, NEW j \in 1..Len(s) - 1, r[i] = r[j] PROVE i = j
    <3>1. /\ i \in 1..Len(s) /\ i + 1 \in 1..Len(s)
          /\ j \in 1..Len(s) /\ j + 1 \in 1..Len(s)
      BY <1>1
    <3>2. CASE i < at /\ j < at
      BY <1>5, <2>1, <2>2, <3>1, <3>2
    <3>3. CASE i < at /\ ~(j < at)
      <4>1. i = j + 1
        BY <1>5, <2>1, <2>2, <3>1, <3>3
      <4> QED  BY <3>3, <4>1
    <3>4. CASE ~(i < at) /\ j < at
      <4>1. i + 1 = j
        BY <1>5, <2>1, <2>2, <3>1, <3>4
      <4> QED  BY <3>4, <4>1
    <3>5. CASE ~(i < at) /\ ~(j < at)
      <4>1. i + 1 = j + 1
        BY <1>5, <2>1, <2>2, <3>1, <3>5
      <4> QED  BY <4>1
    <3> QED  BY <3>2, <3>3, <3>4, <3>5
  <2>3. ASSUME NEW i \in 1..Len(s) - 1 PROVE r[i] # s[at]
    <3>1. i \in 1..Len(s) /\ i + 1 \in 1..Len(s)
      BY <1>1
    <3> QED  BY <1>5, <2>1, <3>1
  <2> QED  BY <1>6, <2>2, <2>3 DEF IsInjective
<1>9. RemoveAt(s, at) = r
  BY DEF RemoveAt, r, a, b
<1> QED  BY <1>4, <1>7, <1>8, <1>9

\* The position of a listed thread is where the list has it.
LEMMA PositionIsThere ==
  ASSUME TypeOK, IsInjective(order), NEW t \in Threads, Exists(t)
  PROVE  Position(t) \in 1..Len(order) /\ order[Position(t)] = t
<1> DEFINE I == {i \in 1..Len(order) : order[i] = t}
<1>1. DOMAIN order = 1..Len(order) /\ Len(order) \in Nat
  BY LenProperties DEF TypeOK
<1>2. PICK i \in 1..Len(order) : order[i] = t
  BY SetOfList DEF TypeOK, Exists
<1>3. I = {i}
  BY <1>1, <1>2 DEF IsInjective
<1>4. Min({i}) = i
  BY <1>2 DEF Min
<1>5. Position(t) = i
  BY <1>3, <1>4 DEF Position, SelectInSeq
<1> QED  BY <1>2, <1>5

-----------------------------------------------------------------------------
\* Requests, the clock and workers.

LEMMA InitTTL == Init => TTLInv
<1> SUFFICES ASSUME Init PROVE TTLInv
  OBVIOUS
<1>1. TypeOK
  BY TTLAssumption, EmptySeq
     DEF Init, TypeOK, Times, Never, Record, NoRecord, Idle, NotDeleting
<1>2. IsInjective(order) /\ sweep = Idle /\ ToSet(sweep.todo) = {}
  BY DEF Init, IsInjective, Idle, ToSet
<1>3. SweepIsCurrent /\ PrunesAreRecorded
  BY DEF Init, SweepIsCurrent, PrunesAreRecorded, NoRecord, Idle
<1> QED  BY <1>1, <1>2, <1>3 DEF TTLInv, Idle

\* Between sweeps the records are those of the prunes.
LEMMA IdleIsRecorded ==
  ASSUME TTLInv, ~custom, sweep.pc = "idle"
  PROVE  \A t \in Threads : pruned[t] = record[t].last
BY DEF TTLInv, PrunesAreRecorded

\* A request runs between sweeps, or its checkpointer is a custom one.
LEMMA RequestKeeps ==
  ASSUME TTLInv, LoopFree, UNCHANGED <<custom, sweep>>, TypeOK', IsInjective(order'),
         (\A t \in Threads : pruned[t] = record[t].last)
           => \A t \in Threads : pruned'[t] = record'[t].last
  PROVE  TTLInv'
<1>1. ASSUME ~custom PROVE SweepIsCurrent' /\ PrunesAreRecorded'
  <2>1. sweep.pc = "idle" /\ sweep = Idle
    BY <1>1 DEF LoopFree, TTLInv
  <2>2. \A t \in Threads : pruned'[t] = record'[t].last
    BY <1>1, <2>1, IdleIsRecorded
  <2> QED  BY <2>1, <2>2 DEF SweepIsCurrent, PrunesAreRecorded, Idle
<1> QED  BY <1>1 DEF TTLInv

LEMMA TickKeeps == TTLInv /\ Tick => TTLInv'
<1> SUFFICES ASSUME TTLInv, Tick PROVE TTLInv'
  OBVIOUS
<1>1. TypeOK'
  BY TTLAssumption DEF TTLInv, TypeOK, Tick, threadVars, Times
<1> QED
  BY <1>1 DEF TTLInv, SweepIsCurrent, PrunesAreRecorded, StillHolds, Exists, Current,
              Tick, threadVars

\* A thread is stamped or not, and its policy set or not.
LEMMA StampType ==
  ASSUME TypeOK, NEW t \in Threads, Stamp(t)
  PROVE  now' \in Times /\ updated' \in [Threads -> Times]
BY TTLAssumption DEF TypeOK, Stamp, Times

LEMMA ArgumentType ==
  ASSUME TypeOK, NEW t \in Threads, TTLArgument(t)
  PROVE  /\ record' \in [Threads -> Record] /\ pruned' \in [Threads -> Times \cup {Never}]
         /\ \A u \in Threads : pruned[u] = record[u].last => pruned'[u] = record'[u].last
<1>1. CASE UNCHANGED <<record, pruned>>
  BY <1>1 DEF TypeOK
<1>2. ASSUME NEW p \in Overrides \cup {NoPolicy}, SetOverride(t, p)
      PROVE  /\ record' \in [Threads -> Record] /\ pruned' \in [Threads -> Times \cup {Never}]
             /\ \A u \in Threads : pruned[u] = record[u].last => pruned'[u] = record'[u].last
  <2>1. [policy |-> p, last |-> Never] \in Record
    BY PolicyAssumption DEF Record
  <2> QED  BY <1>2, <2>1 DEF TypeOK, SetOverride
<1> QED  BY <1>1, <1>2 DEF TTLArgument

LEMMA WritesKeep ==
  ASSUME TTLInv, NEW t \in Threads, Create(t) \/ Patch(t) \/ PutRun(t) \/ RunsEnd(t)
  PROVE  TTLInv'
<1>0. TypeOK /\ IsInjective(order)
  BY DEF TTLInv
<1>1. CASE Create(t)
  <2>1. order' \in Seq(Threads) /\ IsInjective(order')
    BY <1>0, <1>1, AppendNew DEF TypeOK, Create, Exists
  <2>2. TypeOK'
    BY <1>0, <1>1, <2>1, StampType, ArgumentType DEF TypeOK, Create
  <2> QED  BY <1>0, <1>1, <2>1, <2>2, ArgumentType, RequestKeeps DEF Create
<1>2. CASE Patch(t)
  <2>1. TypeOK'
    BY <1>0, <1>2, StampType, ArgumentType DEF TypeOK, Patch
  <2> QED  BY <1>0, <1>2, <2>1, ArgumentType, RequestKeeps DEF Patch
<1>3. CASE PutRun(t)
  <2>1. order' \in Seq(Threads) /\ IsInjective(order')
    BY <1>0, <1>3, AppendNew DEF TypeOK, PutRun, Exists
  <2>2. now' \in Times /\ updated' \in [Threads -> Times]
    BY <1>0, <1>3, StampType DEF TypeOK, PutRun
  <2>3. TypeOK'
    BY <1>0, <1>3, <2>1, <2>2 DEF TypeOK, PutRun
  <2> QED  BY <1>3, <2>1, <2>3, RequestKeeps DEF PutRun
<1>4. CASE RunsEnd(t)
  <2>1. now' \in Times /\ updated' \in [Threads -> Times]
    BY <1>0, <1>4, StampType DEF TypeOK, RunsEnd
  <2>2. TypeOK'
    BY <1>0, <1>4, <2>1 DEF TypeOK, RunsEnd
  <2> QED  BY <1>0, <1>4, <2>2, RequestKeeps DEF RunsEnd
<1> QED  BY <1>1, <1>2, <1>3, <1>4

\* A deletion forgets the record of its thread, whatever position it pops.
LEMMA PopType ==
  ASSUME TypeOK, IsInjective(order), NEW t \in Threads, NEW at \in 1..Len(order), PopThread(t, at)
  PROVE  /\ order' \in Seq(Threads) /\ IsInjective(order')
         /\ ToSet(order') \subseteq ToSet(order) /\ order[at] \notin ToSet(order')
         /\ record' \in [Threads -> Record] /\ pruned' \in [Threads -> Times \cup {Never}]
         /\ \A u \in Threads : /\ record'[u] = IF u = t THEN NoRecord ELSE record[u]
                               /\ pruned'[u] = IF u = t THEN Never ELSE pruned[u]
<1>1. order \in Seq(Threads)
  BY DEF TypeOK
<1>2. order' = RemoveAt(order, at)
  BY DEF PopThread
<1>3. NoRecord \in Record
  BY DEF NoRecord, Record
<1>4. /\ record' \in [Threads -> Record] /\ pruned' \in [Threads -> Times \cup {Never}]
      /\ \A u \in Threads : /\ record'[u] = IF u = t THEN NoRecord ELSE record[u]
                            /\ pruned'[u] = IF u = t THEN Never ELSE pruned[u]
  BY <1>3 DEF TypeOK, PopThread
<1>5. /\ RemoveAt(order, at) \in Seq(Threads) /\ IsInjective(RemoveAt(order, at))
      /\ ToSet(RemoveAt(order, at)) \subseteq ToSet(order)
      /\ order[at] \notin ToSet(RemoveAt(order, at))
  BY <1>1, PopList
<1> QED  BY <1>2, <1>4, <1>5

Deletions == [pc : {"auth", "saver"}, thread : Threads, at : Nat \ {0}]

LEMMA DeletionsKeep ==
  ASSUME TTLInv, NEW c \in Clients,
         DeleteCommit(c) \/ DeleteEnd(c) \/ \E t \in Threads : DeleteBegin(c, t)
  PROVE  TTLInv'
<1>0. /\ TypeOK /\ IsInjective(order) /\ order \in Seq(Threads) /\ Len(order) \in Nat
      /\ client \in [Clients -> {NotDeleting} \cup Deletions]
  BY LenProperties DEF TTLInv, TypeOK, Deletions
<1>1. ASSUME NEW t \in Threads, DeleteBegin(c, t) PROVE TTLInv'
  <2>1. Position(t) \in 1..Len(order)
    BY <1>0, <1>1, PositionIsThere DEF DeleteBegin
  <2>2. [pc |-> "auth", thread |-> t, at |-> Position(t)] \in Deletions
    BY <1>0, <2>1 DEF Deletions
  <2>3. client' \in [Clients -> {NotDeleting} \cup Deletions]
    BY <1>0, <1>1, <2>2 DEF DeleteBegin
  <2>4. TypeOK'
    BY <1>0, <1>1, <2>3 DEF DeleteBegin, TypeOK, Deletions, threadVars
  <2> QED  BY <1>0, <1>1, <2>4, RequestKeeps DEF DeleteBegin, threadVars
<1>2. ASSUME client[c] \in Deletions, ClientPops(c), LoopFree,
             active' \in SUBSET Threads, UNCHANGED <<custom, now, updated, sweep>>
      PROVE  TTLInv'
  <2>1. client[c].thread \in Threads /\ client[c].at \in Nat \ {0}
    BY <1>2 DEF Deletions
  <2>2. client' \in [Clients -> {NotDeleting} \cup Deletions]
    BY <1>0, <1>2 DEF ClientPops
  <2>3. /\ order' \in Seq(Threads) /\ IsInjective(order')
        /\ record' \in [Threads -> Record] /\ pruned' \in [Threads -> Times \cup {Never}]
        /\ \A u \in Threads : pruned[u] = record[u].last => pruned'[u] = record'[u].last
    <3>1. CASE client[c].at <= Len(order)
      <4>1. client[c].at \in 1..Len(order) /\ PopThread(client[c].thread, client[c].at)
        BY <1>0, <1>2, <2>1, <3>1 DEF ClientPops
      <4> QED  BY <1>0, <2>1, <4>1, PopType DEF NoRecord
    <3>2. CASE ~(client[c].at <= Len(order))
      BY <1>0, <1>2, <3>2 DEF ClientPops, TypeOK
    <3> QED  BY <3>1, <3>2
  <2>4. TypeOK'
    BY <1>0, <1>2, <2>2, <2>3 DEF TypeOK, Deletions
  <2> QED  BY <1>2, <2>3, <2>4, RequestKeeps
<1>3. CASE DeleteCommit(c)
  <2>1. client[c] \in Deletions
    BY <1>0, <1>3 DEF DeleteCommit, NotDeleting
  <2>2. active' \in SUBSET Threads
    BY <1>0, <1>3 DEF DeleteCommit, RemoveRuns, TypeOK
  <2>3. CASE custom
    <3>1. [client[c] EXCEPT !.pc = "saver"] \in Deletions
      BY <2>1 DEF Deletions
    <3>2. client' \in [Clients -> {NotDeleting} \cup Deletions]
      BY <1>0, <1>3, <2>3, <3>1 DEF DeleteCommit
    <3>3. TypeOK'
      BY <1>0, <1>3, <2>2, <2>3, <3>2 DEF DeleteCommit, TypeOK, Deletions
    <3> QED  BY <1>0, <1>3, <2>3, <3>3, RequestKeeps DEF DeleteCommit
  <2>4. CASE ~custom
    BY <1>2, <1>3, <2>1, <2>2, <2>4 DEF DeleteCommit
  <2> QED  BY <2>3, <2>4
<1>4. CASE DeleteEnd(c)
  <2>1. client[c] \in Deletions
    BY <1>0, <1>4 DEF DeleteEnd, NotDeleting
  <2> QED  BY <1>0, <1>2, <1>4, <2>1 DEF DeleteEnd, TypeOK
<1> QED  BY <1>1, <1>3, <1>4

-----------------------------------------------------------------------------
\* The sweep.

\* What the sweep reads of an expired thread.
LEMMA ExpiredIsDue ==
  ASSUME TypeOK, NEW t \in Expired
  PROVE  /\ t \in Threads /\ ItemOf(t) \in Item /\ ItemOf(t).thread = t /\ StillHolds(ItemOf(t))
         /\ Keeps(ItemOf(t)) => record[t].last # updated[t]
<1>1. t \in ToSet(order) /\ t \notin active /\ PolicyOf(t) # NoPolicy /\ ~AlreadyPruned(t)
  BY DEF Expired, Spared
<1>2. t \in Threads
  BY <1>1, SetOfList, ElementOfSeq DEF TypeOK
<1>3. record[t] \in Record /\ updated[t] \in Times
  BY <1>2 DEF TypeOK
<1>4. PolicyOf(t) \in Policy
  BY <1>1, <1>3, PolicyAssumption DEF PolicyOf, Record
<1>5. ItemOf(t) \in Item /\ ItemOf(t).thread = t /\ StillHolds(ItemOf(t))
  BY <1>1, <1>2, <1>3, <1>4 DEF ItemOf, Item, StillHolds
<1>6. ASSUME Keeps(ItemOf(t)) PROVE record[t].last # updated[t]
  <2>1. ~(record[t].last >= updated[t])
    BY <1>1, <1>6 DEF Keeps, ItemOf, AlreadyPruned
  <2> QED  BY <1>3, <2>1, TTLAssumption DEF Times
<1> QED  BY <1>2, <1>5, <1>6

LEMMA ExpiredIsFinite == ASSUME TypeOK PROVE IsFiniteSet(Expired) /\ Cardinality(Expired) \in Nat
<1>1. Len(order) \in Nat /\ ToSet(order) = {order[i] : i \in 1..Len(order)}
  BY SetOfList DEF TypeOK
<1> DEFINE f == [i \in 1..Len(order) |-> order[i]]
<1>2. IsFiniteSet(1..Len(order))
  BY <1>1, FS_Interval
<1>3. f \in Surjection(1..Len(order), ToSet(order))
  BY <1>1 DEF Surjection
<1>4. IsFiniteSet(ToSet(order))
  BY <1>2, <1>3, FS_Surjection
<1>5. Expired \subseteq ToSet(order)
  BY DEF Expired
<1> QED  BY <1>4, <1>5, FS_Subset, FS_CardinalityType

LEMMA BeginKeeps == TTLInv /\ SweepBegin => TTLInv'
<1> SUFFICES ASSUME TTLInv, SweepBegin PROVE TTLInv'
  OBVIOUS
<1> DEFINE N == Cardinality(Expired)
<1>0. TypeOK
  BY DEF TTLInv
<1>a. PICK q \in Sorted(Expired) :
        sweep' = [Idle EXCEPT !.pc = "next",
                      !.todo = [i \in 1..(IF Len(q) < Limit THEN Len(q) ELSE Limit) |-> ItemOf(q[i])]]
  BY DEF SweepBegin
<1>1. q \in [1..N -> Expired] /\ \A i, j \in DOMAIN q : i < j => q[i] # q[j]
  BY DEF Sorted
<1>2. N \in Nat
  BY <1>0, ExpiredIsFinite
<1> HIDE DEF N
<1>3. q \in Seq(Expired) /\ Len(q) = N /\ DOMAIN q = 1..N
  BY <1>1, <1>2
<1> DEFINE n == IF Len(q) < Limit THEN Len(q) ELSE Limit
           f == [i \in 1..n |-> ItemOf(q[i])]
<1>4. n \in Nat /\ n <= N
  BY <1>2, <1>3, TTLAssumption
<1>5. sweep' = [pc |-> "next", todo |-> f, batch |-> <<>>, at |-> 0]
  BY <1>a DEF Idle
<1> HIDE DEF n
<1>6. \A i \in 1..n : q[i] \in Expired /\ f[i] = ItemOf(q[i])
  BY <1>1, <1>2, <1>4
<1>7. DOMAIN f = 1..n
  OBVIOUS
<1> HIDE DEF f
<1>8. f \in Seq(Item)
  <2>1. \A i \in 1..n : f[i] \in Item
    BY <1>0, <1>6, ExpiredIsDue
  <2>2. f \in [1..n -> Item]
    BY <1>7, <2>1 DEF f
  <2> QED  BY <1>4, <2>2
<1>9. TypeOK'
  <2>1. sweep' \in [pc : {"idle", "next", "pruning", "batch", "deleting"},
                    todo : Seq(Item), batch : Seq(Item), at : Nat]
    BY <1>5, <1>8, EmptySeq
  <2> QED  BY <1>0, <2>1 DEF TypeOK, SweepBegin, threadVars
<1>10. ASSUME ~custom PROVE SweepIsCurrent' /\ PrunesAreRecorded'
  <2>1. \A t \in Threads : pruned[t] = record[t].last
    BY <1>10, IdleIsRecorded DEF SweepBegin
  <2>2. PrunesAreRecorded'
    BY <2>1 DEF PrunesAreRecorded, SweepBegin
  <2>3. ASSUME NEW i \in 1..n
        PROVE  /\ StillHolds(f[i])
               /\ Keeps(f[i]) => pruned[f[i].thread] # updated[f[i].thread]
               /\ \A j \in 1..n : i # j => f[i].thread # f[j].thread
    <3>1. \A j \in 1..n : q[j] \in Threads /\ f[j].thread = q[j]
      BY <1>0, <1>6, ExpiredIsDue
    <3>2. StillHolds(f[i]) /\ (Keeps(f[i]) => record[q[i]].last # updated[q[i]])
      BY <1>0, <1>6, ExpiredIsDue
    <3>3. ASSUME NEW j \in 1..n, i # j PROVE q[i] # q[j]
      BY <1>1, <1>2, <1>3, <1>4, <3>3
    <3> QED  BY <2>1, <3>1, <3>2, <3>3
  <2>4. UNCHANGED <<order, updated, active, record, pruned>>
    BY DEF SweepBegin, threadVars
  <2>5. \A i \in 1..n :
          /\ f[i].thread \notin active' /\ f[i].updated = updated'[f[i].thread]
          /\ f[i].thread \in ToSet(order') => f[i].state.policy = record'[f[i].thread].policy
    BY <2>3, <2>4 DEF StillHolds, Exists
  <2>6. SweepIsCurrent'
    BY <1>5, <1>7, <2>3, <2>4, <2>5 DEF SweepIsCurrent, Keeps, StillHolds, Exists
  <2> QED  BY <2>2, <2>6
<1> QED  BY <1>5, <1>9, <1>10 DEF TTLInv, SweepBegin, threadVars

SweepStates == [pc : {"idle", "next", "pruning", "batch", "deleting"},
                todo : Seq(Item), batch : Seq(Item), at : Nat]

\* The lists of the sweep.
LEMMA SweepLists ==
  ASSUME TypeOK
  PROVE  /\ sweep \in SweepStates /\ sweep.todo \in Seq(Item) /\ sweep.batch \in Seq(Item)
         /\ Len(sweep.todo) \in Nat /\ DOMAIN sweep.todo = 1..Len(sweep.todo)
         /\ Len(sweep.batch) \in Nat /\ DOMAIN sweep.batch = 1..Len(sweep.batch)
<1>1. sweep \in SweepStates
  BY DEF TypeOK, SweepStates
<1>2. sweep.todo \in Seq(Item) /\ sweep.batch \in Seq(Item)
  BY <1>1 DEF SweepStates
<1> QED  BY <1>1, <1>2, LenProperties

LEMMA SweptThreads ==
  ASSUME TypeOK
  PROVE  /\ \A i \in DOMAIN sweep.todo : sweep.todo[i].thread \in Threads
         /\ \A i \in DOMAIN sweep.batch : sweep.batch[i].thread \in Threads
<1>1. \A i \in DOMAIN sweep.todo : sweep.todo[i] \in Item
  BY SweepLists, ElementOfSeq
<1>2. \A i \in DOMAIN sweep.batch : sweep.batch[i] \in Item
  BY SweepLists, ElementOfSeq
<1>3. \A item \in Item : item.thread \in Threads
  BY DEF Item
<1> QED  BY <1>1, <1>2, <1>3

LEMMA CurrentItem ==
  ASSUME TypeOK, sweep.batch # <<>>
  PROVE  /\ 1 \in 1..Len(sweep.batch) /\ Current = sweep.batch[1]
         /\ Current \in Item /\ Current.thread \in Threads
         /\ Tail(sweep.batch) \in Seq(Item) /\ DOMAIN Tail(sweep.batch) = 1..Len(sweep.batch) - 1
         /\ \A i \in 1..Len(sweep.batch) - 1 :
              i + 1 \in 1..Len(sweep.batch) /\ i + 1 # 1 /\ Tail(sweep.batch)[i] = sweep.batch[i + 1]
<1>1. sweep.batch \in Seq(Item) /\ Len(sweep.batch) \in Nat
  BY SweepLists
<1>2. Len(sweep.batch) # 0
  BY <1>1, EmptySeq
<1>3. Current = sweep.batch[1] /\ 1 \in 1..Len(sweep.batch)
  BY <1>1, <1>2 DEF Current
<1>4. Current \in Item
  BY <1>1, <1>3, ElementOfSeq
<1>5. /\ Tail(sweep.batch) \in Seq(Item) /\ Len(Tail(sweep.batch)) = Len(sweep.batch) - 1
      /\ \A i \in 1..Len(Tail(sweep.batch)) : Tail(sweep.batch)[i] = sweep.batch[i + 1]
  BY <1>1, HeadTailProperties
<1>6. \A i \in 1..Len(sweep.batch) - 1 : i + 1 \in 1..Len(sweep.batch) /\ i + 1 # 1
  BY <1>1
<1> QED  BY <1>3, <1>4, <1>5, <1>6, LenProperties DEF Item

LEMMA NextBatchKeeps == TTLInv /\ NextBatch => TTLInv'
<1> SUFFICES ASSUME TTLInv, NextBatch PROVE TTLInv'
  OBVIOUS
<1> DEFINE L == Len(sweep.todo)
           n == IF L < BatchSize THEN L ELSE BatchSize
           b == SubSeq(sweep.todo, 1, n)
           r == SubSeq(sweep.todo, n + 1, L)
<1>0. TypeOK /\ UNCHANGED <<custom, now, order, updated, active, record, client, pruned>>
  BY DEF TTLInv, NextBatch, threadVars
<1>1. /\ sweep.todo \in Seq(Item) /\ L \in Nat /\ DOMAIN sweep.todo = 1..L
      /\ sweep.pc = "next" /\ sweep.batch = <<>>
  BY <1>0, SweepLists DEF NextBatch, TTLInv
<1>2. CASE n = 0
  <2>1. sweep' = Idle
    BY <1>2 DEF NextBatch
  <2>2. TypeOK'
    BY <1>0, <2>1, EmptySeq DEF TypeOK, Idle
  <2>3. ASSUME ~custom PROVE SweepIsCurrent' /\ PrunesAreRecorded'
    <3>1. \A t \in Threads : pruned[t] = record[t].last
      BY <1>1, <2>3 DEF TTLInv, PrunesAreRecorded
    <3> QED  BY <1>0, <2>1, <3>1 DEF SweepIsCurrent, PrunesAreRecorded, Idle
  <2> QED  BY <1>0, <2>1, <2>2, <2>3 DEF TTLInv, Idle
<1>3. CASE n # 0
  <2>1. sweep' = [pc |-> IF \E i \in DOMAIN b : Keeps(b[i]) THEN "pruning" ELSE "batch",
                  todo |-> r, batch |-> b, at |-> 0]
    BY <1>3 DEF NextBatch
  <2>2. n \in 1..L
    BY <1>1, <1>3, TTLAssumption
  <2> HIDE DEF n, L
  <2>3. /\ b \in Seq(Item) /\ Len(b) = n /\ \A i \in 1..n : b[i] = sweep.todo[i]
    <3>1. 1 \in 1..L + 1 /\ n \in 1 - 1..L /\ n - 1 + 1 = n /\ \A i \in 1..n : 1 + i - 1 = i
      BY <1>1, <2>2
    <3>2. /\ b \in Seq(Item) /\ Len(b) = n - 1 + 1
          /\ \A i \in 1..n - 1 + 1 : b[i] = sweep.todo[1 + i - 1]
      BY <1>1, <3>1, Slice DEF L
    <3> HIDE DEF b
    <3> QED  BY <3>1, <3>2
  <2>4. /\ r \in Seq(Item) /\ Len(r) = L - n /\ \A i \in 1..L - n : r[i] = sweep.todo[n + i]
    <3>1. /\ n + 1 \in 1..L + 1 /\ L \in (n + 1) - 1..L /\ L - (n + 1) + 1 = L - n
          /\ \A i \in 1..L - n : (n + 1) + i - 1 = n + i
      BY <1>1, <2>2
    <3>2. /\ r \in Seq(Item) /\ Len(r) = L - (n + 1) + 1
          /\ \A i \in 1..L - (n + 1) + 1 : r[i] = sweep.todo[(n + 1) + i - 1]
      BY <1>1, <3>1, Slice DEF L
    <3> HIDE DEF r
    <3> QED  BY <3>1, <3>2
  <2> HIDE DEF b, r
  <2>5. /\ DOMAIN b = 1..n /\ DOMAIN r = 1..L - n
        /\ \A i \in 1..n : i \in 1..L
        /\ \A i \in 1..L - n : n + i \in 1..L /\ \A j \in 1..n : n + i # j
    BY <1>1, <2>2, <2>3, <2>4, LenProperties
  <2>6. sweep' \in SweepStates
    BY <2>1, <2>3, <2>4 DEF SweepStates
  <2>7. TypeOK'
    BY <1>0, <2>6 DEF TypeOK, SweepStates
  <2>8. ASSUME ~custom PROVE SweepIsCurrent' /\ PrunesAreRecorded'
    <3>1. \A t \in Threads : pruned[t] = record[t].last
      BY <1>1, <2>8 DEF TTLInv, PrunesAreRecorded
    <3>2. PrunesAreRecorded'
      BY <1>0, <3>1 DEF PrunesAreRecorded
    <3>3. \A i \in 1..L :
            /\ StillHolds(sweep.todo[i])
            /\ Keeps(sweep.todo[i])
                 => pruned[sweep.todo[i].thread] # updated[sweep.todo[i].thread]
            /\ \A j \in 1..L : i # j => sweep.todo[i].thread # sweep.todo[j].thread
      BY <1>1, <2>8 DEF TTLInv, SweepIsCurrent
    <3>4. /\ \A i \in 1..L - n :
               /\ StillHolds(r[i])
               /\ Keeps(r[i]) => pruned[r[i].thread] # updated[r[i].thread]
               /\ \A j \in 1..L - n : i # j => r[i].thread # r[j].thread
               /\ \A j \in 1..n : r[i].thread # b[j].thread
          /\ \A i \in 1..n :
               /\ StillHolds(b[i])
               /\ \A j \in 1..n : i # j => b[i].thread # b[j].thread
      <4>1. ASSUME NEW i \in 1..L - n
            PROVE  /\ StillHolds(r[i])
                   /\ Keeps(r[i]) => pruned[r[i].thread] # updated[r[i].thread]
                   /\ \A j \in 1..n : r[i].thread # b[j].thread
        <5>1. r[i] = sweep.todo[n + i] /\ n + i \in 1..L
          BY <2>4, <2>5
        <5>2. \A j \in 1..n : b[j] = sweep.todo[j] /\ j \in 1..L /\ n + i # j
          BY <2>3, <2>5
        <5>3. \A j \in 1..n : r[i].thread # b[j].thread
          BY <3>3, <5>1, <5>2
        <5> QED  BY <3>3, <5>1, <5>3
      <4>2. ASSUME NEW i \in 1..L - n, NEW j \in 1..L - n, i # j PROVE r[i].thread # r[j].thread
        <5>1. n + i # n + j
          BY <1>1, <2>2, <4>2
        <5> QED  BY <2>4, <2>5, <3>3, <5>1
      <4>3. ASSUME NEW i \in 1..n
            PROVE  StillHolds(b[i]) /\ \A j \in 1..n : i # j => b[i].thread # b[j].thread
        BY <2>3, <2>5, <3>3
      <4> QED  BY <4>1, <4>2, <4>3
    <3>5. /\ \A i \in 1..L - n : StillHolds(r[i])
          /\ \A i \in 1..n : StillHolds(b[i])
      BY <3>4
    <3>6. sweep'.pc # "pruning" => \A i \in 1..n : ~Keeps(b[i])
      BY <2>1, <2>5
    <3>7. sweep'.pc # "deleting" /\ sweep'.todo = r /\ sweep'.batch = b
      BY <2>1
    <3>8. SweepIsCurrent'
      BY <1>0, <2>5, <3>4, <3>5, <3>6, <3>7 DEF SweepIsCurrent, StillHolds, Exists, Keeps
    <3> QED  BY <3>2, <3>8
  <2> QED  BY <1>0, <2>1, <2>7, <2>8 DEF TTLInv
<1> QED  BY <1>2, <1>3

LEMMA PruneKeeps == TTLInv /\ Prune => TTLInv'
<1> SUFFICES ASSUME TTLInv, Prune PROVE TTLInv'
  OBVIOUS
<1> DEFINE InBatch(t) == \E i \in DOMAIN sweep.batch : sweep.batch[i].thread = t /\ Keeps(sweep.batch[i])
<1>0. /\ TypeOK /\ UNCHANGED <<custom, now, order, updated, active, record, client>>
      /\ sweep.pc = "pruning" /\ sweep' = [sweep EXCEPT !.pc = "batch"]
  BY DEF TTLInv, Prune, threadVars
<1>1. \A t \in Threads : pruned'[t] = IF InBatch(t) THEN updated[t] ELSE pruned[t]
  BY DEF Prune
<1>2. pruned' \in [Threads -> Times \cup {Never}]
  BY <1>0, <1>1 DEF Prune, TypeOK
<1>3. /\ sweep' \in SweepStates /\ sweep'.pc = "batch"
      /\ sweep'.todo = sweep.todo /\ sweep'.batch = sweep.batch
  BY <1>0, SweepLists DEF SweepStates
<1>4. TypeOK'
  BY <1>0, <1>2, <1>3 DEF TypeOK, SweepStates
<1>5. ASSUME ~custom PROVE SweepIsCurrent' /\ PrunesAreRecorded'
  <2>1. SweepIsCurrent /\ \A t \in Threads : pruned[t] = record[t].last
    BY <1>0, <1>5 DEF TTLInv, PrunesAreRecorded
  <2>2. PrunesAreRecorded'
    BY <1>0, <1>1, <1>3, <2>1 DEF PrunesAreRecorded, Keeps
  <2>3. /\ \A i \in DOMAIN sweep.todo : sweep.todo[i].thread \in Threads
        /\ \A i \in DOMAIN sweep.batch : sweep.batch[i].thread \in Threads
    BY <1>0, SweptThreads
  <2>4. \A i \in DOMAIN sweep.todo : ~InBatch(sweep.todo[i].thread)
    BY <2>1 DEF SweepIsCurrent
  <2>5. \A i \in DOMAIN sweep.batch : Keeps(sweep.batch[i]) => InBatch(sweep.batch[i].thread)
    OBVIOUS
  <2> HIDE DEF InBatch
  <2>6. /\ \A i \in DOMAIN sweep.todo : pruned'[sweep.todo[i].thread] = pruned[sweep.todo[i].thread]
        /\ \A i \in DOMAIN sweep.batch :
             Keeps(sweep.batch[i]) => pruned'[sweep.batch[i].thread] = updated[sweep.batch[i].thread]
    BY <1>1, <2>3, <2>4, <2>5
  <2>7. SweepIsCurrent'
    BY <1>0, <1>3, <2>1, <2>6 DEF SweepIsCurrent, StillHolds, Exists, Keeps
  <2> QED  BY <2>2, <2>7
<1> QED  BY <1>0, <1>3, <1>4, <1>5 DEF TTLInv

LEMMA BatchEndKeeps == TTLInv /\ BatchEnd => TTLInv'
<1> SUFFICES ASSUME TTLInv, BatchEnd PROVE TTLInv'
  OBVIOUS
<1>0. /\ TypeOK /\ UNCHANGED <<custom, now, order, updated, active, record, client, pruned>>
      /\ sweep.pc = "batch" /\ sweep.batch = <<>> /\ sweep' = [sweep EXCEPT !.pc = "next"]
  BY DEF TTLInv, BatchEnd, threadVars
<1>1. /\ sweep' \in SweepStates /\ sweep'.pc = "next"
      /\ sweep'.todo = sweep.todo /\ sweep'.batch = <<>>
  BY <1>0, SweepLists DEF SweepStates
<1>2. TypeOK'
  BY <1>0, <1>1 DEF TypeOK, SweepStates
<1>3. ASSUME ~custom PROVE SweepIsCurrent' /\ PrunesAreRecorded'
  <2>1. SweepIsCurrent /\ PrunesAreRecorded
    BY <1>3 DEF TTLInv
  <2>2. DOMAIN sweep.batch = {}
    BY <1>0
  <2>3. PrunesAreRecorded'
    BY <1>0, <2>1, <2>2 DEF PrunesAreRecorded
  <2>4. SweepIsCurrent'
    BY <1>0, <1>1, <2>1, <2>2 DEF SweepIsCurrent, StillHolds, Exists, Keeps
  <2> QED  BY <2>3, <2>4
<1> QED  BY <1>0, <1>1, <1>2, <1>3 DEF TTLInv

\* The loop goes to the next item of the batch.
LEMMA AdvanceType ==
  ASSUME TypeOK, sweep.batch # <<>>, Advance
  PROVE  /\ sweep' \in SweepStates /\ sweep'.pc = "batch"
         /\ sweep'.todo = sweep.todo /\ sweep'.batch = Tail(sweep.batch)
BY SweepLists, CurrentItem DEF Advance, SweepStates

\* What the sweep has left holds when it has dealt with the current item, if that
\* changed nothing but its thread's record.
LEMMA AdvanceKeeps ==
  ASSUME TypeOK, sweep.batch # <<>>, SweepIsCurrent, sweep.pc # "pruning", Advance,
         UNCHANGED updated, active' \subseteq active,
         ToSet(order') \subseteq ToSet(order),
         \A t \in Threads \ {Current.thread} : record'[t] = record[t] /\ pruned'[t] = pruned[t]
  PROVE  SweepIsCurrent'
<1> DEFINE todo == sweep.todo
           batch == sweep.batch
           rest == Tail(sweep.batch)
<1>1. sweep'.pc = "batch" /\ sweep'.todo = todo /\ sweep'.batch = rest
  BY AdvanceType
<1>2. /\ 1 \in DOMAIN batch /\ Current = batch[1]
      /\ \A i \in DOMAIN rest : i + 1 \in DOMAIN batch /\ i + 1 # 1 /\ rest[i] = batch[i + 1]
      /\ \A i, j \in DOMAIN rest : i # j => i + 1 # j + 1
  BY SweepLists, CurrentItem
<1>3. /\ \A i \in DOMAIN todo : todo[i].thread \in Threads \ {Current.thread}
      /\ \A i \in DOMAIN rest : rest[i].thread \in Threads \ {Current.thread}
  <2>1. /\ \A i \in DOMAIN todo : todo[i].thread \in Threads
        /\ \A i \in DOMAIN batch : batch[i].thread \in Threads
    BY SweptThreads
  <2>2. /\ \A i \in DOMAIN todo : todo[i].thread # batch[1].thread
        /\ \A i \in DOMAIN batch : i # 1 => batch[i].thread # batch[1].thread
    BY <1>2 DEF SweepIsCurrent
  <2> QED  BY <1>2, <2>1, <2>2
<1>4. /\ \A i \in DOMAIN rest :
           /\ StillHolds(rest[i])
           /\ Keeps(rest[i]) => pruned[rest[i].thread] = updated[rest[i].thread]
           /\ \A j \in DOMAIN rest : i # j => rest[i].thread # rest[j].thread
      /\ \A i \in DOMAIN todo : \A j \in DOMAIN rest : todo[i].thread # rest[j].thread
      /\ \A i \in DOMAIN todo :
           /\ StillHolds(todo[i])
           /\ Keeps(todo[i]) => pruned[todo[i].thread] # updated[todo[i].thread]
           /\ \A j \in DOMAIN todo : i # j => todo[i].thread # todo[j].thread
  <2>1. ASSUME NEW i \in DOMAIN rest
        PROVE  /\ StillHolds(rest[i])
               /\ Keeps(rest[i]) => pruned[rest[i].thread] = updated[rest[i].thread]
    BY <1>2 DEF SweepIsCurrent
  <2>2. ASSUME NEW i \in DOMAIN rest, NEW j \in DOMAIN rest, i # j
        PROVE  rest[i].thread # rest[j].thread
    BY <1>2, <2>2 DEF SweepIsCurrent
  <2>3. ASSUME NEW i \in DOMAIN todo, NEW j \in DOMAIN rest
        PROVE  todo[i].thread # rest[j].thread
    BY <1>2 DEF SweepIsCurrent
  <2>4. \A i \in DOMAIN todo :
           /\ StillHolds(todo[i])
           /\ Keeps(todo[i]) => pruned[todo[i].thread] # updated[todo[i].thread]
           /\ \A j \in DOMAIN todo : i # j => todo[i].thread # todo[j].thread
    BY DEF SweepIsCurrent
  <2> QED  BY <2>1, <2>2, <2>3, <2>4
<1> HIDE DEF todo, batch, rest
<1>5. SweepIsCurrent'
  BY <1>1, <1>3, <1>4 DEF SweepIsCurrent, StillHolds, Exists, Keeps
<1> QED  BY <1>5

\* A thread that is still to be recorded, other than the current one, is in the rest of
\* the batch.
LEMMA RestOfBatch ==
  ASSUME TypeOK, sweep.batch # <<>>, PrunesAreRecorded, NEW t \in Threads,
         pruned[t] # record[t].last, t # Current.thread \/ ~Keeps(Current)
  PROVE  \E i \in DOMAIN Tail(sweep.batch) :
           Tail(sweep.batch)[i].thread = t /\ Keeps(Tail(sweep.batch)[i])
<1>1. PICK i \in 1..Len(sweep.batch) : sweep.batch[i].thread = t /\ Keeps(sweep.batch[i])
  BY SweepLists DEF PrunesAreRecorded
<1>2. i # 1
  BY <1>1, CurrentItem
<1>3. i - 1 \in 1..Len(sweep.batch) - 1 /\ (i - 1) + 1 = i
  BY <1>2, SweepLists
<1>4. Tail(sweep.batch)[i - 1] = sweep.batch[i] /\ i - 1 \in DOMAIN Tail(sweep.batch)
  BY <1>3, CurrentItem
<1> QED  BY <1>1, <1>4

LEMMA MarkKeeps == TTLInv /\ MarkSwept => TTLInv'
<1> SUFFICES ASSUME TTLInv, MarkSwept PROVE TTLInv'
  OBVIOUS
<1>0. /\ TypeOK /\ UNCHANGED <<custom, now, order, updated, active, client, pruned>>
      /\ sweep.pc = "batch" /\ sweep.batch # <<>> /\ Keeps(Current) /\ Advance
      /\ record' = [record EXCEPT ![Current.thread] = Stamped(Current)]
  BY DEF TTLInv, MarkSwept, AtItem, threadVars
<1>1. /\ sweep' \in SweepStates /\ sweep'.pc = "batch" /\ sweep'.batch = Tail(sweep.batch)
      /\ Current \in Item /\ Current.thread \in Threads
  BY <1>0, AdvanceType, CurrentItem
<1>2. /\ Stamped(Current) \in Record /\ Stamped(Current).policy = Current.state.policy
      /\ Stamped(Current).last = Current.updated
  BY <1>1 DEF Stamped, Item, Record
<1>3. record' \in [Threads -> Record] /\ record'[Current.thread] = Stamped(Current)
  BY <1>0, <1>1, <1>2 DEF TypeOK
<1>4. TypeOK'
  BY <1>0, <1>1, <1>3 DEF TypeOK, SweepStates
<1>5. ASSUME ~custom PROVE SweepIsCurrent' /\ PrunesAreRecorded'
  <2>0. SweepIsCurrent /\ PrunesAreRecorded
    BY <1>5 DEF TTLInv
  <2>1. /\ StillHolds(Current) /\ pruned[Current.thread] = updated[Current.thread]
    BY <1>0, <2>0, SweepLists, CurrentItem DEF SweepIsCurrent
  <2>2. \A t \in Threads \ {Current.thread} : record'[t] = record[t] /\ pruned'[t] = pruned[t]
    BY <1>0 DEF TypeOK
  <2>4. SweepIsCurrent'
    BY <1>0, <2>0, <2>2, AdvanceKeeps
  <2>5. ASSUME NEW t \in Threads
        PROVE  \/ pruned'[t] = record'[t].last
               \/ \E i \in DOMAIN sweep'.batch : sweep'.batch[i].thread = t /\ Keeps(sweep'.batch[i])
    <3>1. CASE t = Current.thread
      BY <1>0, <1>2, <1>3, <2>1, <3>1 DEF StillHolds
    <3>2. CASE t # Current.thread /\ pruned[t] = record[t].last
      BY <2>2, <3>2
    <3>3. CASE t # Current.thread /\ pruned[t] # record[t].last
      BY <1>1, <2>0, <3>3, RestOfBatch, <1>0
    <3> QED  BY <3>1, <3>2, <3>3
  <2>6. PrunesAreRecorded'
    BY <1>1, <2>5 DEF PrunesAreRecorded, Keeps
  <2> QED  BY <2>4, <2>6
<1> QED  BY <1>0, <1>1, <1>4, <1>5 DEF TTLInv

LEMMA DeletesKeep == TTLInv /\ SweepDeletes => TTLInv'
<1> SUFFICES ASSUME TTLInv, SweepDeletes PROVE TTLInv'
  OBVIOUS
<1>0. /\ TypeOK /\ UNCHANGED <<custom, now, order, updated, record, client, pruned>>
      /\ sweep.pc = "batch" /\ sweep.batch # <<>> /\ ~Keeps(Current) /\ IsInjective(order)
  BY DEF TTLInv, SweepDeletes, AtItem
<1>1. Current \in Item /\ Current.thread \in Threads
  BY <1>0, CurrentItem
<1>2. CASE Exists(Current.thread)
  <2>1. /\ active' = active \ {Current.thread}
        /\ sweep' = [sweep EXCEPT !.pc = "deleting", !.at = Position(Current.thread)]
    BY <1>2 DEF SweepDeletes, RemoveRuns
  <2>2. Position(Current.thread) \in 1..Len(order) /\ order[Position(Current.thread)] = Current.thread
    BY <1>0, <1>1, <1>2, PositionIsThere
  <2>3. Position(Current.thread) \in Nat /\ Position(Current.thread) > 0
    BY <2>2
  <2>4. /\ sweep' \in SweepStates /\ sweep'.pc = "deleting" /\ sweep'.at = Position(Current.thread)
        /\ sweep'.todo = sweep.todo /\ sweep'.batch = sweep.batch
    BY <1>0, <2>1, <2>3, SweepLists DEF SweepStates
  <2>5. TypeOK'
    BY <1>0, <2>1, <2>4 DEF TypeOK, SweepStates
  <2>6. ASSUME ~custom PROVE SweepIsCurrent' /\ PrunesAreRecorded'
    <3>1. SweepIsCurrent /\ PrunesAreRecorded
      BY <2>6 DEF TTLInv
    <3>2. PrunesAreRecorded'
      BY <1>0, <2>4, <3>1 DEF PrunesAreRecorded, Keeps
    <3>3. order'[sweep'.at] = Current.thread /\ Current' = Current
      BY <1>0, <2>2, <2>4 DEF Current
    <3>4. SweepIsCurrent'
      BY <1>0, <2>1, <2>4, <3>1, <3>3 DEF SweepIsCurrent, StillHolds, Exists, Keeps
    <3> QED  BY <3>2, <3>4
  <2> QED  BY <1>0, <2>3, <2>4, <2>5, <2>6 DEF TTLInv
<1>3. CASE ~Exists(Current.thread)
  <2>1. Advance /\ UNCHANGED active
    BY <1>3 DEF SweepDeletes
  <2>2. sweep' \in SweepStates /\ sweep'.pc = "batch" /\ sweep'.batch = Tail(sweep.batch)
    BY <1>0, <2>1, AdvanceType
  <2>3. TypeOK'
    BY <1>0, <2>1, <2>2 DEF TypeOK, SweepStates
  <2>4. ASSUME ~custom PROVE SweepIsCurrent' /\ PrunesAreRecorded'
    <3>1. SweepIsCurrent /\ PrunesAreRecorded
      BY <2>4 DEF TTLInv
    <3>2. SweepIsCurrent'
      BY <1>0, <2>1, <3>1, AdvanceKeeps
    <3>3. ASSUME NEW t \in Threads, pruned[t] # record[t].last
          PROVE  \E i \in DOMAIN sweep'.batch : sweep'.batch[i].thread = t /\ Keeps(sweep'.batch[i])
      BY <1>0, <2>2, <3>1, <3>3, RestOfBatch
    <3>4. PrunesAreRecorded'
      BY <1>0, <2>2, <3>3 DEF PrunesAreRecorded, Keeps
    <3> QED  BY <3>2, <3>4
  <2> QED  BY <1>0, <2>2, <2>3, <2>4 DEF TTLInv
<1> QED  BY <1>2, <1>3

LEMMA PopsKeep == TTLInv /\ SweepPops => TTLInv'
<1> SUFFICES ASSUME TTLInv, SweepPops PROVE TTLInv'
  OBVIOUS
<1>0. /\ TypeOK /\ IsInjective(order) /\ UNCHANGED <<custom, now, updated, active, client>>
      /\ sweep.pc = "deleting" /\ sweep.batch # <<>> /\ Advance
      /\ sweep.at > 0 /\ sweep.at <= Len(order) /\ PopThread(Current.thread, sweep.at)
  BY DEF TTLInv, SweepPops
<1>1. /\ sweep' \in SweepStates /\ sweep'.pc = "batch" /\ sweep'.batch = Tail(sweep.batch)
      /\ Current \in Item /\ Current.thread \in Threads
  BY <1>0, AdvanceType, CurrentItem
<1>2. sweep.at \in 1..Len(order)
  BY <1>0, SweepLists, LenProperties DEF SweepStates, TypeOK
<1>3. /\ order' \in Seq(Threads) /\ IsInjective(order')
      /\ ToSet(order') \subseteq ToSet(order) /\ order[sweep.at] \notin ToSet(order')
      /\ record' \in [Threads -> Record] /\ pruned' \in [Threads -> Times \cup {Never}]
      /\ \A u \in Threads :
           /\ record'[u] = IF u = Current.thread THEN NoRecord ELSE record[u]
           /\ pruned'[u] = IF u = Current.thread THEN Never ELSE pruned[u]
  BY <1>0, <1>1, <1>2, PopType
<1>4. TypeOK'
  BY <1>0, <1>1, <1>3 DEF TypeOK, SweepStates
<1>5. ASSUME ~custom PROVE SweepIsCurrent' /\ PrunesAreRecorded'
  <2>1. SweepIsCurrent /\ PrunesAreRecorded
    BY <1>5 DEF TTLInv
  <2>3. SweepIsCurrent'
    BY <1>0, <1>3, <2>1, AdvanceKeeps
  <2>4. ASSUME NEW t \in Threads, pruned'[t] # record'[t].last
        PROVE  \E i \in DOMAIN sweep'.batch : sweep'.batch[i].thread = t /\ Keeps(sweep'.batch[i])
    <3>1. t # Current.thread /\ pruned[t] # record[t].last
      BY <1>3, <2>4 DEF NoRecord
    <3> QED  BY <1>0, <1>1, <2>1, <3>1, RestOfBatch
  <2>5. PrunesAreRecorded'
    BY <1>1, <2>4 DEF PrunesAreRecorded, Keeps
  <2> QED  BY <2>3, <2>5
<1> QED  BY <1>0, <1>1, <1>3, <1>4, <1>5 DEF TTLInv

LEMMA FailsKeep == TTLInv /\ SweepFails => TTLInv'
<1> SUFFICES ASSUME TTLInv, SweepFails PROVE TTLInv'
  OBVIOUS
<1>1. TypeOK'
  BY EmptySeq DEF TTLInv, TypeOK, SweepFails, Idle, threadVars
<1> QED  BY <1>1 DEF TTLInv, SweepFails, Idle, threadVars

-----------------------------------------------------------------------------
(* The invariant.                                                            *)

LEMMA StepKeeps == TTLInv /\ [Next]_vars => TTLInv'
<1> SUFFICES ASSUME TTLInv, [Next]_vars PROVE TTLInv'
  OBVIOUS
<1>1. CASE Tick
  BY <1>1, TickKeeps
<1>2. CASE Sweep
  BY <1>2, BeginKeeps, NextBatchKeeps, PruneKeeps, BatchEndKeeps, MarkKeeps, DeletesKeep,
     PopsKeep DEF Sweep
<1>3. CASE SweepFails
  BY <1>3, FailsKeep
<1>4. ASSUME NEW t \in Threads, Create(t) \/ Patch(t) \/ PutRun(t) \/ RunsEnd(t) PROVE TTLInv'
  BY <1>4, WritesKeep
<1>5. ASSUME NEW c \in Clients,
             DeleteCommit(c) \/ DeleteEnd(c) \/ \E t \in Threads : DeleteBegin(c, t)
      PROVE  TTLInv'
  BY <1>5, DeletionsKeep
<1>6. CASE UNCHANGED vars
  BY <1>6 DEF vars, threadVars, TTLInv, TypeOK, SweepIsCurrent, PrunesAreRecorded, StillHolds,
              Exists, Current
<1> QED  BY <1>1, <1>2, <1>3, <1>4, <1>5, <1>6 DEF Next

\* The invariant of ThreadTTL: whatever stale positions deletions pop, the list of threads
\* has no repetition; with the built-in checkpointer the sweep works on current data and
\* the TTL records say when each thread was last pruned (Threads.sweep_ttl).
THEOREM TTLInvariant == Spec => []TTLInv
BY InitTTL, StepKeeps, PTL DEF Spec

\* Who asks for a prune or a deletion, and for which thread.
LEMMA PrunedItem ==
  ASSUME TTLInv, [Next]_vars, NEW t \in Threads, PrunesNow(t)
  PROVE  \E i \in DOMAIN sweep.todo : sweep.todo[i].thread = t /\ Keeps(sweep.todo[i])
<1>1. sweep.pc = "next" /\ sweep'.pc = "pruning"
  BY DEF PrunesNow
<1>2. NextBatch
  <2>1. sweep' # sweep /\ ~Prune /\ ~BatchEnd /\ ~SweepPops /\ ~SweepFails /\ ~SweepBegin
    BY <1>1 DEF Prune, BatchEnd, SweepPops, SweepFails, SweepBegin
  <2>2. ~MarkSwept /\ ~SweepDeletes
    BY <1>1 DEF MarkSwept, SweepDeletes, AtItem
  <2>3. Sweep \/ SweepFails
    BY <2>1 DEF Next, vars, Tick, Create, Patch, PutRun, RunsEnd, DeleteCommit, DeleteEnd,
                DeleteBegin
  <2> QED  BY <2>1, <2>2, <2>3 DEF Sweep
<1> DEFINE L == Len(sweep.todo)
           n == IF L < BatchSize THEN L ELSE BatchSize
           b == SubSeq(sweep.todo, 1, n)
<1>3. n # 0 /\ sweep'.batch = b
  BY <1>1, <1>2 DEF NextBatch, Idle
<1>4. sweep.todo \in Seq(Item) /\ L \in Nat /\ DOMAIN sweep.todo = 1..L
  BY SweepLists DEF TTLInv
<1>5. n \in 1..L
  BY <1>3, <1>4, TTLAssumption
<1> HIDE DEF n, L
<1>6. /\ b \in Seq(Item) /\ Len(b) = n /\ \A i \in 1..n : b[i] = sweep.todo[i]
  <2>1. 1 \in 1..L + 1 /\ n \in 1 - 1..L /\ n - 1 + 1 = n /\ \A i \in 1..n : 1 + i - 1 = i
    BY <1>4, <1>5
  <2>2. /\ b \in Seq(Item) /\ Len(b) = n - 1 + 1
        /\ \A i \in 1..n - 1 + 1 : b[i] = sweep.todo[1 + i - 1]
    BY <1>4, <2>1, Slice DEF L
  <2> HIDE DEF b
  <2> QED  BY <2>1, <2>2
<1> HIDE DEF b
<1>7. DOMAIN b = 1..n /\ \A i \in 1..n : i \in DOMAIN sweep.todo
  BY <1>4, <1>5, <1>6, LenProperties
<1>8. PICK i \in DOMAIN b : b[i].thread = t /\ Keeps(b[i])
  BY <1>3 DEF PrunesNow, Keeps
<1> QED  BY <1>6, <1>7, <1>8

LEMMA DeletedItem ==
  ASSUME TTLInv, [Next]_vars, NEW t \in Threads, RemovesNow(t)
  PROVE  sweep.batch # <<>> /\ Current.thread = t
<1>1. sweep.pc = "batch" /\ sweep'.pc = "deleting" /\ Current.thread = t
  BY DEF RemovesNow
<1>2. SweepDeletes
  <2>1. sweep' # sweep /\ ~Prune /\ ~BatchEnd /\ ~SweepPops /\ ~SweepFails /\ ~SweepBegin /\ ~NextBatch
    BY <1>1, SweepLists
       DEF TTLInv, SweepStates, Prune, BatchEnd, SweepPops, SweepFails, SweepBegin, NextBatch
  <2>2. ~MarkSwept
    BY <1>1, SweepLists, AdvanceType DEF MarkSwept, AtItem, TTLInv
  <2>3. Sweep \/ SweepFails
    BY <2>1 DEF Next, vars, Tick, Create, Patch, PutRun, RunsEnd, DeleteCommit, DeleteEnd,
                DeleteBegin
  <2> QED  BY <2>1, <2>2, <2>3 DEF Sweep
<1>3. sweep.batch # <<>>
  BY <1>2 DEF SweepDeletes, AtItem
<1> QED  BY <1>1, <1>3

\* During a sweep of the built-in checkpointer only it changes records.
LEMMA RecordsChange ==
  ASSUME [Next]_vars, ~custom, sweep.pc # "idle"
  PROVE  MarkSwept \/ SweepPops \/ UNCHANGED record
BY DEF Next, vars, LoopFree, Tick, Sweep, SweepBegin, NextBatch, Prune, BatchEnd,
   SweepDeletes, SweepFails, Create, Patch, PutRun, RunsEnd, DeleteCommit, DeleteEnd, DeleteBegin

\* With the built-in checkpointer the sweep neither prunes nor deletes a thread that has a
\* pending or running run (the active-run check of Threads.sweep_ttl).
THEOREM ActiveThreadsSpared == Spec => ActiveIsSpared
<1> DEFINE A == ~custom => \A t \in Threads : PrunesNow(t) \/ RemovesNow(t) => t \notin active
<1>1. TTLInv /\ [Next]_vars => A
  <2> SUFFICES ASSUME TTLInv, [Next]_vars, ~custom, NEW t \in Threads, PrunesNow(t) \/ RemovesNow(t)
               PROVE  t \notin active
    OBVIOUS
  <2>0. TypeOK /\ SweepIsCurrent
    BY DEF TTLInv
  <2>1. CASE PrunesNow(t)
    <3>1. PICK i \in DOMAIN sweep.todo : sweep.todo[i].thread = t
      BY <2>0, <2>1, PrunedItem
    <3> QED  BY <2>0, <3>1 DEF SweepIsCurrent, StillHolds
  <2>2. CASE RemovesNow(t)
    <3>1. sweep.batch # <<>> /\ Current.thread = t
      BY <2>2, DeletedItem
    <3> QED  BY <2>0, <3>1, SweepLists, CurrentItem DEF SweepIsCurrent, StillHolds
  <2> QED  BY <2>1, <2>2
<1>2. Spec => [][A]_vars
  BY <1>1, TTLInvariant, PTL DEF Spec
<1> QED  BY <1>2 DEF ActiveIsSpared

\* With the built-in checkpointer an expired thread is pruned once for each updated_at
\* (last_swept_updated_at of its TTL record).
THEOREM PruneOnce == Spec => PrunedOnce
<1> DEFINE A == ~custom => \A t \in Threads : PrunesNow(t) => pruned[t] # updated[t]
<1>1. TTLInv /\ [Next]_vars => A
  <2> SUFFICES ASSUME TTLInv, [Next]_vars, ~custom, NEW t \in Threads, PrunesNow(t)
               PROVE  pruned[t] # updated[t]
    OBVIOUS
  <2>1. TypeOK /\ SweepIsCurrent
    BY DEF TTLInv
  <2>2. PICK i \in DOMAIN sweep.todo : sweep.todo[i].thread = t /\ Keeps(sweep.todo[i])
    BY <2>1, PrunedItem
  <2> QED  BY <2>1, <2>2 DEF SweepIsCurrent
<1>2. Spec => [][A]_vars
  BY <1>1, TTLInvariant, PTL DEF Spec
<1> QED  BY <1>2 DEF PrunedOnce
===============================================================================
