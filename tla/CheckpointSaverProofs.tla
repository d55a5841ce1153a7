------------------------- MODULE CheckpointSaverProofs -------------------------
(***************************************************************************)
(* Proofs for CheckpointSaver, for any threads, channels, sizes and number  *)
(* of checkpoints.                                                         *)
(*                                                                         *)
(* The incremental size estimates never drift from what is stored, whatever *)
(* is put, put again, pruned, deleted or copied.  Bytes(S) counts units,    *)
(* one per byte of each element, so what is added and removed adds up by    *)
(* the theorems on cardinalities; and each operation changes one thread     *)
(* (OneThread), so that the totals change by what that thread's estimate    *)
(* does.                                                                   *)
(*                                                                         *)
(* Pruning keeps the state of a thread, a copy has that of its original,    *)
(* and a state that can be rebuilt stays so.  Histories grow: parents come  *)
(* before and name no channel that their children do not (HistoryInv).  So  *)
(* the lineage of a checkpoint, a recursive function of its id, can be      *)
(* reasoned about by its least counterexample (UpCut, UpMirrored): what     *)
(* pruning keeps is the upper part of the newest checkpoint's lineage, as   *)
(* far as some channel is looked for, and a copy mirrors its original.      *)
(***************************************************************************)
EXTENDS CheckpointSaver, FiniteSetTheorems, WellFoundedInduction, TLAPS

-----------------------------------------------------------------------------
(* Bytes                                                                     *)

Sized(S) == IsFiniteSet(S) /\ \A x \in S : x.size \in Nat

Units(S) == UNION {{x} \X (1..x.size) : x \in S}

LEMMA OneToOne ==
  ASSUME NEW S, NEW T, NEW f \in [S -> T],
         \A a, b \in S : f[a] = f[b] => a = b, \A t \in T : \E a \in S : f[a] = t
  PROVE  f \in Bijection(S, T)
BY DEF Bijection, Injection, IsInjective, Surjection

\* The units of a set.
LEMMA UnitsOf ==
  ASSUME NEW S
  PROVE  /\ \A u : u \in Units(S) <=> \E x \in S : \E i \in 1..x.size : u = <<x, i>>
         /\ Bytes(S) = Cardinality(Units(S))
<1>1. ASSUME NEW u PROVE u \in Units(S) <=> \E x \in S : u \in {x} \X (1..x.size)
  BY DEF Units
<1>2. ASSUME NEW u, NEW x PROVE u \in {x} \X (1..x.size) <=> \E i \in 1..x.size : u = <<x, i>>
  OBVIOUS
<1> QED  BY <1>1, <1>2 DEF Bytes, Units

LEMMA BytesOfOne ==
  ASSUME NEW x, x.size \in Nat
  PROVE  Sized({x}) /\ Bytes({x}) = x.size /\ IsFiniteSet({x} \X (1..x.size))
<1> DEFINE n == x.size
           f == [i \in 1..n |-> <<x, i>>]
<1>1. n \in Nat /\ IsFiniteSet(1..n) /\ Cardinality(1..n) = n
  <2>1. 0 \in Int /\ 1 \in Int /\ n \in Int
    OBVIOUS
  <2>2. /\ IsFiniteSet(1..n) /\ Cardinality(1..n) = IF 1 > n THEN 0 ELSE n - 1 + 1
    BY <2>1, FS_Interval
  <2> QED  BY <2>2
<1>2. f \in Bijection(1..n, {x} \X (1..n))
  <2>1. f \in [1..n -> {x} \X (1..n)]
    OBVIOUS
  <2>2. \A i, j \in 1..n : f[i] = f[j] => i = j
    OBVIOUS
  <2>3. \A u \in {x} \X (1..n) : \E i \in 1..n : f[i] = u
    OBVIOUS
  <2> HIDE DEF f, n
  <2> QED  BY <2>1, <2>2, <2>3, OneToOne
<1>3. IsFiniteSet({x} \X (1..n)) /\ Cardinality({x} \X (1..n)) = n
  BY <1>1, <1>2, FS_Bijection DEF ExistsBijection
<1>4. Units({x}) = {x} \X (1..n)
  BY DEF Units
<1> QED  BY <1>1, <1>3, <1>4, FS_Singleton DEF Bytes, Units, Sized

LEMMA UnitsFinite ==
  ASSUME NEW S, Sized(S)
  PROVE  IsFiniteSet(Units(S)) /\ Bytes(S) \in Nat
<1> DEFINE P == {{x} \X (1..x.size) : x \in S}
           f == [x \in S |-> {x} \X (1..x.size)]
<1>1. f \in Surjection(S, P)
  BY DEF Surjection
<1>2. IsFiniteSet(P)
  BY <1>1, FS_Surjection DEF Sized
<1>3. \A T \in P : IsFiniteSet(T)
  BY BytesOfOne DEF Sized
<1>4. IsFiniteSet(UNION P)
  BY <1>2, <1>3, FS_UNION
<1> QED  BY <1>4, FS_CardinalityType DEF Units, Bytes

LEMMA BytesOfNone == Sized({}) /\ Bytes({}) = 0
<1>1. Units({}) = {}
  BY DEF Units
<1> QED  BY <1>1, UnitsOf, FS_EmptySet DEF Sized

\* What is disjoint adds up.
LEMMA BytesOfBoth ==
  ASSUME NEW A, NEW B, Sized(A), Sized(B), A \cap B = {}
  PROVE  Sized(A \cup B) /\ Bytes(A \cup B) = Bytes(A) + Bytes(B)
<1>1. IsFiniteSet(Units(A)) /\ IsFiniteSet(Units(B)) /\ Bytes(A) \in Nat /\ Bytes(B) \in Nat
  BY UnitsFinite
<1>2. Units(A \cup B) = Units(A) \cup Units(B)
  BY DEF Units
<1>3. Units(A) \cap Units(B) = {}
  BY UnitsOf
<1>4. Cardinality(Units(A) \cup Units(B)) = Cardinality(Units(A)) + Cardinality(Units(B)) - 0
  BY <1>1, <1>3, FS_Union, FS_EmptySet
<1>5. Sized(A \cup B)
  BY FS_Union DEF Sized
<1>6. Bytes(A \cup B) = Cardinality(Units(A) \cup Units(B))
  BY <1>2, UnitsOf
<1>7. Bytes(A) = Cardinality(Units(A)) /\ Bytes(B) = Cardinality(Units(B))
  BY UnitsOf
<1> QED  BY <1>1, <1>4, <1>5, <1>6, <1>7

\* What is removed is subtracted.
LEMMA BytesOfPart ==
  ASSUME NEW S, Sized(S), NEW A \in SUBSET S
  PROVE  /\ Sized(A) /\ Sized(S \ A)
         /\ Bytes(A) \in Nat /\ Bytes(S \ A) \in Nat /\ Bytes(S) = Bytes(A) + Bytes(S \ A)
         /\ Cardinality(A) \in Nat /\ Cardinality(S \ A) \in Nat
         /\ Cardinality(S) = Cardinality(A) + Cardinality(S \ A)
<1>1. IsFiniteSet(A) /\ IsFiniteSet(S \ A) /\ A \cap (S \ A) = {} /\ A \cup (S \ A) = S
  BY FS_Subset DEF Sized
<1>2. Sized(A) /\ Sized(S \ A)
  BY <1>1 DEF Sized
<1>3. Bytes(S) = Bytes(A) + Bytes(S \ A)
  BY <1>1, <1>2, BytesOfBoth
<1>4. Cardinality(S) = Cardinality(A) + Cardinality(S \ A) - 0
  BY <1>1, FS_Union, FS_EmptySet
<1>5. Cardinality(A) \in Nat /\ Cardinality(S \ A) \in Nat
  BY <1>1, FS_CardinalityType
<1> QED  BY <1>2, <1>3, <1>4, <1>5, UnitsFinite

-----------------------------------------------------------------------------
(* Threads                                                                   *)

\* Everything but what is stored under thread t.
Others(S, t) == S \ Of(S, t)

LEMMA OthersOf ==
  ASSUME NEW S, NEW t, NEW u, u # t
  PROVE  Of(S, u) = Of(Others(S, t), u)
BY DEF Of, Others

\* If only what is stored under one thread changes, the whole changes as that does.
LEMMA OneThread ==
  ASSUME NEW S, NEW R, Sized(S), Sized(R), NEW t, Others(R, t) = Others(S, t)
  PROVE  /\ Sized(Of(R, t)) /\ Sized(Of(S, t))
         /\ Bytes(S) \in Nat /\ Bytes(R) \in Nat
         /\ Bytes(Of(S, t)) \in Nat /\ Bytes(Of(R, t)) \in Nat
         /\ Bytes(R) = Bytes(S) + Bytes(Of(R, t)) - Bytes(Of(S, t))
         /\ Cardinality(R) \in Nat /\ Cardinality(S) \in Nat
         /\ Cardinality(Of(R, t)) \in Nat /\ Cardinality(Of(S, t)) \in Nat
         /\ Cardinality(R) = Cardinality(S) + Cardinality(Of(R, t)) - Cardinality(Of(S, t))
         /\ \A u : u # t => Of(R, u) = Of(S, u)
<1>1. Of(S, t) \in SUBSET S /\ Of(R, t) \in SUBSET R
  BY DEF Of
<1>2. /\ Sized(Of(S, t))
      /\ Bytes(Of(S, t)) \in Nat /\ Bytes(Others(S, t)) \in Nat
      /\ Bytes(S) = Bytes(Of(S, t)) + Bytes(Others(S, t))
      /\ Cardinality(Of(S, t)) \in Nat /\ Cardinality(Others(S, t)) \in Nat
      /\ Cardinality(S) = Cardinality(Of(S, t)) + Cardinality(Others(S, t))
  BY <1>1, BytesOfPart DEF Others
<1>3. /\ Sized(Of(R, t))
      /\ Bytes(Of(R, t)) \in Nat
      /\ Bytes(R) = Bytes(Of(R, t)) + Bytes(Others(S, t))
      /\ Cardinality(Of(R, t)) \in Nat
      /\ Cardinality(R) = Cardinality(Of(R, t)) + Cardinality(Others(S, t))
  BY <1>1, BytesOfPart DEF Others
<1>4. \A u : u # t => Of(R, u) = Of(S, u)
  BY OthersOf
<1> QED  BY <1>2, <1>3, <1>4

LEMMA StoredSized ==
  /\ \A S \in SUBSET Checkpoint : IsFiniteSet(S) => Sized(S)
  /\ \A S \in SUBSET WriteGroup : IsFiniteSet(S) => Sized(S)
  /\ \A S \in SUBSET Blob : IsFiniteSet(S) => Sized(S)
<1>1. \A c \in Checkpoint : c.size \in Nat
  BY SizesAssumption DEF Checkpoint
<1>2. \A g \in WriteGroup : g.size \in Nat
  BY MaxAssumption DEF WriteGroup
<1>3. \A b \in Blob : b.size \in Nat
  BY SizesAssumption DEF Blob
<1> QED  BY <1>1, <1>2, <1>3 DEF Sized

DataOK ==
  /\ storage \in SUBSET Checkpoint /\ IsFiniteSet(storage)
  /\ \A c, d \in storage : SameKey(c, d) => c = d
  /\ writes \in SUBSET WriteGroup /\ IsFiniteSet(writes)
  /\ blobs \in SUBSET Blob /\ IsFiniteSet(blobs)

LEMMA HeldEstimate ==
  ASSUME DataOK, NEW t \in Threads
  PROVE  /\ Held(t) \in Estimate
         /\ Held(t).bytes = Bytes(Of(storage, t)) + Bytes(Of(writes, t)) + Bytes(Of(blobs, t))
         /\ Held(t).count = Cardinality(Of(storage, t))
<1>1. Sized(storage) /\ Sized(writes) /\ Sized(blobs)
  BY StoredSized DEF DataOK
<1>2. /\ Of(storage, t) \in SUBSET storage /\ Of(writes, t) \in SUBSET writes
      /\ Of(blobs, t) \in SUBSET blobs
  BY DEF Of
<1>3. /\ Bytes(Of(storage, t)) \in Nat /\ Bytes(Of(writes, t)) \in Nat /\ Bytes(Of(blobs, t)) \in Nat
      /\ Cardinality(Of(storage, t)) \in Nat
  BY <1>1, <1>2, BytesOfPart
<1> QED  BY <1>3 DEF Held, Estimate

\* An operation changes what is stored under one thread, and sets its estimate to that.
LEMMA SizesFollow ==
  ASSUME TypeOK, SizesAgree, DataOK', NEW t \in Threads,
         Others(storage, t)' = Others(storage, t),
         Others(writes, t)' = Others(writes, t), Others(blobs, t)' = Others(blobs, t),
         SetEstimate(t, Held(t)')
  PROVE  tracked' \in [Threads -> Estimate] /\ total' \in Estimate /\ SizesAgree'
<1>0. DataOK /\ tracked \in [Threads -> Estimate] /\ total \in Estimate
  BY DEF TypeOK, DataOK
<1>1. /\ Sized(storage) /\ Sized(writes) /\ Sized(blobs)
      /\ Sized(storage') /\ Sized(writes') /\ Sized(blobs')
  BY <1>0, StoredSized DEF DataOK
<1>2. /\ Bytes(storage) \in Nat /\ Bytes(storage') \in Nat
      /\ Bytes(Of(storage, t)) \in Nat /\ Bytes(Of(storage', t)) \in Nat
      /\ Bytes(storage') = Bytes(storage) + Bytes(Of(storage', t)) - Bytes(Of(storage, t))
      /\ Cardinality(storage) \in Nat /\ Cardinality(storage') \in Nat
      /\ Cardinality(Of(storage, t)) \in Nat /\ Cardinality(Of(storage', t)) \in Nat
      /\ Cardinality(storage')
           = Cardinality(storage) + Cardinality(Of(storage', t)) - Cardinality(Of(storage, t))
      /\ \A u : u # t => Of(storage', u) = Of(storage, u)
  <2>1. Others(storage', t) = Others(storage, t)
    BY DEF Others, Of
  <2> QED  BY <1>1, <2>1, OneThread
<1>3. /\ Bytes(writes) \in Nat /\ Bytes(writes') \in Nat
      /\ Bytes(Of(writes, t)) \in Nat /\ Bytes(Of(writes', t)) \in Nat
      /\ Bytes(writes') = Bytes(writes) + Bytes(Of(writes', t)) - Bytes(Of(writes, t))
      /\ \A u : u # t => Of(writes', u) = Of(writes, u)
  <2>1. Others(writes', t) = Others(writes, t)
    BY DEF Others, Of
  <2> QED  BY <1>1, <2>1, OneThread
<1>4. /\ Bytes(blobs) \in Nat /\ Bytes(blobs') \in Nat
      /\ Bytes(Of(blobs, t)) \in Nat /\ Bytes(Of(blobs', t)) \in Nat
      /\ Bytes(blobs') = Bytes(blobs) + Bytes(Of(blobs', t)) - Bytes(Of(blobs, t))
      /\ \A u : u # t => Of(blobs', u) = Of(blobs, u)
  <2>1. Others(blobs', t) = Others(blobs, t)
    BY DEF Others, Of
  <2> QED  BY <1>1, <2>1, OneThread
<1>5. /\ tracked[t] = Held(t)
      /\ tracked[t].bytes = Bytes(Of(storage, t)) + Bytes(Of(writes, t)) + Bytes(Of(blobs, t))
      /\ tracked[t].count = Cardinality(Of(storage, t))
  BY <1>0, HeldEstimate DEF SizesAgree
<1>6. /\ Held(t)' \in Estimate
      /\ Held(t)'.bytes = Bytes(Of(storage', t)) + Bytes(Of(writes', t)) + Bytes(Of(blobs', t))
      /\ Held(t)'.count = Cardinality(Of(storage', t))
  BY <1>2, <1>3, <1>4 DEF Held, Estimate, Of, Bytes
<1> DEFINE new == Held(t)'
<1>7. /\ tracked' = [tracked EXCEPT ![t] = new]
      /\ total' = [bytes |-> total.bytes + new.bytes - tracked[t].bytes,
                   count |-> total.count + new.count - tracked[t].count]
  BY DEF SetEstimate
<1>8. tracked' \in [Threads -> Estimate] /\ tracked'[t] = new
  BY <1>0, <1>6, <1>7
<1>9. \A u \in Threads : tracked'[u] = Held(u)'
  <2> SUFFICES ASSUME NEW u \in Threads, u # t PROVE tracked'[u] = Held(u)'
    BY <1>8
  <2>1. tracked'[u] = Held(u)
    BY <1>0, <1>7 DEF SizesAgree
  <2>2. /\ Of(storage', u) = Of(storage, u) /\ Of(writes', u) = Of(writes, u)
        /\ Of(blobs', u) = Of(blobs, u)
    BY <1>2, <1>3, <1>4
  <2>3. Held(u)' = Held(u)
    BY <2>2 DEF Held, Of, Bytes
  <2> QED  BY <2>1, <2>3
<1>10. total.bytes = Bytes(storage) + Bytes(writes) + Bytes(blobs) /\ total.count = Cardinality(storage)
  BY DEF SizesAgree
<1> HIDE DEF new
<1>11. /\ new.bytes = Bytes(Of(storage', t)) + Bytes(Of(writes', t)) + Bytes(Of(blobs', t))
       /\ new.count = Cardinality(Of(storage', t))
  BY <1>6 DEF new
<1>12. /\ total'.bytes = Bytes(storage') + Bytes(writes') + Bytes(blobs')
       /\ total'.count = Cardinality(storage')
  <2>1. /\ total'.bytes = total.bytes + new.bytes - tracked[t].bytes
        /\ total'.count = total.count + new.count - tracked[t].count
    BY <1>7
  <2> QED  BY <1>2, <1>3, <1>4, <1>5, <1>10, <1>11, <2>1
<1>13. total' \in Estimate
  <2>1. total'.bytes \in Nat /\ total'.count \in Nat
    BY <1>2, <1>3, <1>4, <1>12
  <2> QED  BY <1>7, <2>1 DEF Estimate
<1>14. SizesAgree'
  BY <1>9, <1>12 DEF SizesAgree, Bytes
<1> QED  BY <1>8, <1>13, <1>14

LEMMA HeldNext ==
  ASSUME DataOK', NEW t \in Threads
  PROVE  /\ Held(t)' \in Estimate
         /\ Held(t)'.bytes = Bytes(Of(storage', t)) + Bytes(Of(writes', t)) + Bytes(Of(blobs', t))
         /\ Held(t)'.count = Cardinality(Of(storage', t))
<1>1. Sized(storage') /\ Sized(writes') /\ Sized(blobs')
  BY StoredSized DEF DataOK
<1>2. /\ Of(storage', t) \in SUBSET storage' /\ Of(writes', t) \in SUBSET writes'
      /\ Of(blobs', t) \in SUBSET blobs'
  BY DEF Of
<1>3. /\ Bytes(Of(storage', t)) \in Nat /\ Bytes(Of(writes', t)) \in Nat
      /\ Bytes(Of(blobs', t)) \in Nat /\ Cardinality(Of(storage', t)) \in Nat
  BY <1>1, <1>2, BytesOfPart
<1> QED  BY <1>3 DEF Held, Estimate, Of, Bytes

\* An adjustment by what has changed is never cut off at zero.
LEMMA Adjusted ==
  ASSUME TypeOK, SizesAgree, DataOK', NEW t \in Threads, NEW b \in Int, NEW n \in Int,
         Adjust(t, b, n),
         Held(t)'.bytes = Held(t).bytes + b, Held(t)'.count = Held(t).count + n
  PROVE  SetEstimate(t, Held(t)')
<1>1. tracked[t] = Held(t)
  BY DEF SizesAgree
<1>2. Held(t)' \in Estimate
  BY HeldNext
<1> DEFINE new == Held(t)'
<1>3. new \in Estimate /\ new.bytes = tracked[t].bytes + b /\ new.count = tracked[t].count + n
  BY <1>1, <1>2
<1> HIDE DEF new
<1>4. AtLeastZero(tracked[t].bytes + b) = new.bytes /\ AtLeastZero(tracked[t].count + n) = new.count
  BY <1>3 DEF AtLeastZero, Estimate
<1>5. [bytes |-> new.bytes, count |-> new.count] = new
  BY <1>3 DEF Estimate
<1>6. SetEstimate(t, new)
  BY <1>4, <1>5 DEF Adjust
<1> QED  BY <1>6 DEF new

\* One part of a set is replaced by another.
LEMMA BytesOfReplaced ==
  ASSUME NEW S, Sized(S), NEW A \in SUBSET S, NEW N, Sized(N), N \cap (S \ A) = {}
  PROVE  /\ Bytes(S) \in Nat /\ Bytes(A) \in Nat /\ Bytes(N) \in Nat /\ Bytes((S \ A) \cup N) \in Nat
         /\ Bytes((S \ A) \cup N) = Bytes(S) - Bytes(A) + Bytes(N)
         /\ Cardinality(S) \in Nat /\ Cardinality(A) \in Nat /\ Cardinality(N) \in Nat
         /\ Cardinality((S \ A) \cup N) \in Nat
         /\ Cardinality((S \ A) \cup N) = Cardinality(S) - Cardinality(A) + Cardinality(N)
<1>1. /\ Sized(A) /\ Sized(S \ A)
      /\ Bytes(A) \in Nat /\ Bytes(S \ A) \in Nat /\ Bytes(S) = Bytes(A) + Bytes(S \ A)
      /\ Cardinality(A) \in Nat /\ Cardinality(S \ A) \in Nat
      /\ Cardinality(S) = Cardinality(A) + Cardinality(S \ A)
  BY BytesOfPart
<1>2. Bytes(N) \in Nat /\ Cardinality(N) \in Nat
  BY UnitsFinite, FS_CardinalityType DEF Sized
<1>3. Bytes((S \ A) \cup N) = Bytes(S \ A) + Bytes(N)
  BY <1>1, BytesOfBoth
<1>4. Cardinality((S \ A) \cup N) = Cardinality(S \ A) + Cardinality(N) - Cardinality((S \ A) \cap N)
  BY <1>1, FS_Union DEF Sized
<1>5. Cardinality((S \ A) \cap N) = 0
  BY FS_EmptySet
<1> QED  BY <1>1, <1>2, <1>3, <1>4, <1>5

\* What is replaced under one thread of a dictionary.
LEMMA PartOfThread ==
  ASSUME NEW S, Sized(S), NEW t, NEW A \in SUBSET Of(S, t), NEW N, Sized(N), Of(N, t) = N,
         N \cap (S \ A) = {}, NEW R, R = (S \ A) \cup N
  PROVE  /\ Others(R, t) = Others(S, t)
         /\ Bytes(Of(S, t)) \in Nat /\ Bytes(Of(R, t)) \in Nat
         /\ Bytes(A) \in Nat /\ Bytes(N) \in Nat
         /\ Bytes(Of(R, t)) = Bytes(Of(S, t)) - Bytes(A) + Bytes(N)
         /\ Cardinality(Of(S, t)) \in Nat /\ Cardinality(Of(R, t)) \in Nat
         /\ Cardinality(A) \in Nat /\ Cardinality(N) \in Nat
         /\ Cardinality(Of(R, t)) = Cardinality(Of(S, t)) - Cardinality(A) + Cardinality(N)
<1>1. Of(S, t) \in SUBSET S /\ Others(R, t) = Others(S, t) /\ Of(R, t) = (Of(S, t) \ A) \cup N
  BY DEF Of, Others
<1>2. Sized(Of(S, t)) /\ N \cap (Of(S, t) \ A) = {}
  BY <1>1, BytesOfPart
<1>3. /\ Bytes(Of(S, t)) \in Nat /\ Bytes(A) \in Nat /\ Bytes(N) \in Nat
      /\ Bytes((Of(S, t) \ A) \cup N) \in Nat
      /\ Bytes((Of(S, t) \ A) \cup N) = Bytes(Of(S, t)) - Bytes(A) + Bytes(N)
      /\ Cardinality(Of(S, t)) \in Nat /\ Cardinality(A) \in Nat /\ Cardinality(N) \in Nat
      /\ Cardinality((Of(S, t) \ A) \cup N) \in Nat
      /\ Cardinality((Of(S, t) \ A) \cup N) = Cardinality(Of(S, t)) - Cardinality(A) + Cardinality(N)
  BY <1>2, BytesOfReplaced
<1> QED  BY <1>1, <1>3

\* An adjustment by the size of what is put under one thread less that of what goes.
LEMMA Changed ==
  ASSUME TypeOK, SizesAgree, NEW t \in Threads, DataOK',
         NEW C \in SUBSET Of(storage, t), NEW W \in SUBSET Of(writes, t), NEW B \in SUBSET Of(blobs, t),
         NEW NC, Sized(NC), Of(NC, t) = NC, NC \cap (storage \ C) = {},
         NEW NW, Sized(NW), Of(NW, t) = NW, NW \cap (writes \ W) = {},
         NEW NB, Sized(NB), Of(NB, t) = NB, NB \cap (blobs \ B) = {},
         storage' = (storage \ C) \cup NC, writes' = (writes \ W) \cup NW, blobs' = (blobs \ B) \cup NB,
         NEW b \in Int, NEW n \in Int, Adjust(t, b, n),
         b = Bytes(NC) + Bytes(NW) + Bytes(NB) - (Bytes(C) + Bytes(W) + Bytes(B)),
         n = Cardinality(NC) - Cardinality(C)
  PROVE  tracked' \in [Threads -> Estimate] /\ total' \in Estimate /\ SizesAgree'
<1>0. DataOK
  BY DEF TypeOK, DataOK
<1>1. Sized(storage) /\ Sized(writes) /\ Sized(blobs)
  BY <1>0, StoredSized DEF DataOK
<1>2. /\ Others(storage', t) = Others(storage, t)
      /\ Bytes(Of(storage, t)) \in Nat /\ Bytes(Of(storage', t)) \in Nat
      /\ Bytes(C) \in Nat /\ Bytes(NC) \in Nat
      /\ Bytes(Of(storage', t)) = Bytes(Of(storage, t)) - Bytes(C) + Bytes(NC)
      /\ Cardinality(Of(storage, t)) \in Nat /\ Cardinality(Of(storage', t)) \in Nat
      /\ Cardinality(C) \in Nat /\ Cardinality(NC) \in Nat
      /\ Cardinality(Of(storage', t)) = Cardinality(Of(storage, t)) - Cardinality(C) + Cardinality(NC)
  BY <1>1, PartOfThread
<1>3. /\ Others(writes', t) = Others(writes, t)
      /\ Bytes(Of(writes, t)) \in Nat /\ Bytes(Of(writes', t)) \in Nat
      /\ Bytes(W) \in Nat /\ Bytes(NW) \in Nat
      /\ Bytes(Of(writes', t)) = Bytes(Of(writes, t)) - Bytes(W) + Bytes(NW)
  BY <1>1, PartOfThread
<1>4. /\ Others(blobs', t) = Others(blobs, t)
      /\ Bytes(Of(blobs, t)) \in Nat /\ Bytes(Of(blobs', t)) \in Nat
      /\ Bytes(B) \in Nat /\ Bytes(NB) \in Nat
      /\ Bytes(Of(blobs', t)) = Bytes(Of(blobs, t)) - Bytes(B) + Bytes(NB)
  BY <1>1, PartOfThread
<1>5. /\ Held(t).bytes = Bytes(Of(storage, t)) + Bytes(Of(writes, t)) + Bytes(Of(blobs, t))
      /\ Held(t).count = Cardinality(Of(storage, t))
  BY <1>0, HeldEstimate
<1>6. /\ Held(t)'.bytes = Bytes(Of(storage', t)) + Bytes(Of(writes', t)) + Bytes(Of(blobs', t))
      /\ Held(t)'.count = Cardinality(Of(storage', t))
  BY HeldNext
<1>7. Held(t)'.bytes = Held(t).bytes + b
  BY <1>2, <1>3, <1>4, <1>5, <1>6
<1>8. Held(t)'.count = Held(t).count + n
  BY <1>2, <1>5, <1>6
<1>9. SetEstimate(t, Held(t)')
  BY <1>7, <1>8, Adjusted
<1>10. /\ Others(storage, t)' = Others(storage, t) /\ Others(writes, t)' = Others(writes, t)
       /\ Others(blobs, t)' = Others(blobs, t)
  BY <1>2, <1>3, <1>4 DEF Others, Of
<1> QED  BY <1>9, <1>10, SizesFollow

\* What is deleted under one thread is subtracted.
LEMMA Removed ==
  ASSUME TypeOK, SizesAgree, NEW t \in Threads,
         NEW C \in SUBSET Of(storage, t), NEW W \in SUBSET Of(writes, t), NEW B \in SUBSET Of(blobs, t),
         storage' = storage \ C, writes' = writes \ W, blobs' = blobs \ B,
         Adjust(t, 0 - (Bytes(C) + Bytes(W) + Bytes(B)), 0 - Cardinality(C))
  PROVE  DataOK' /\ tracked' \in [Threads -> Estimate] /\ total' \in Estimate /\ SizesAgree'
<1>0. DataOK
  BY DEF TypeOK, DataOK
<1>1. DataOK'
  BY <1>0, FS_Subset DEF DataOK
<1>2. /\ Sized({}) /\ Bytes({}) = 0 /\ Cardinality({}) = 0 /\ Of({}, t) = {}
  BY BytesOfNone, FS_EmptySet DEF Of
<1>3. /\ storage' = (storage \ C) \cup {} /\ writes' = (writes \ W) \cup {}
      /\ blobs' = (blobs \ B) \cup {}
      /\ {} \cap (storage \ C) = {} /\ {} \cap (writes \ W) = {} /\ {} \cap (blobs \ B) = {}
  OBVIOUS
<1>4. Bytes(C) \in Nat /\ Bytes(W) \in Nat /\ Bytes(B) \in Nat /\ Cardinality(C) \in Nat
  <2>1. Sized(storage) /\ Sized(writes) /\ Sized(blobs)
    BY <1>0, StoredSized DEF DataOK
  <2>2. C \in SUBSET storage /\ W \in SUBSET writes /\ B \in SUBSET blobs
    BY DEF Of
  <2> QED  BY <2>1, <2>2, BytesOfPart
<1> DEFINE b == 0 - (Bytes(C) + Bytes(W) + Bytes(B))
           n == 0 - Cardinality(C)
<1>5. /\ b \in Int /\ n \in Int /\ Adjust(t, b, n)
      /\ b = Bytes({}) + Bytes({}) + Bytes({}) - (Bytes(C) + Bytes(W) + Bytes(B))
      /\ n = Cardinality({}) - Cardinality(C)
  BY <1>2, <1>4
<1> HIDE DEF b, n
<1>6. tracked' \in [Threads -> Estimate] /\ total' \in Estimate /\ SizesAgree'
  BY <1>1, <1>2, <1>3, <1>5, Changed
<1> QED  BY <1>1, <1>6

SaverInv == TypeOK /\ SizesAgree

LEMMA PruneKeeps == ASSUME SaverInv, NEW t \in Threads, Prune(t) PROVE SaverInv'
<1>0. TypeOK /\ SizesAgree
  BY DEF SaverInv
<1> DEFINE K == KeptOf(t)
           C == Of(storage, t) \ K
           W == {g \in Of(writes, t) : ~StillWritten(g, K)}
           B == {b \in Of(blobs, t) : ~StillNamed(b, K)}
<1>1. /\ storage' = storage \ C /\ writes' = writes \ W /\ blobs' = blobs \ B
      /\ Adjust(t, 0 - (Bytes(C) + Bytes(W) + Bytes(B)), 0 - Cardinality(C))
      /\ upkeep < MaxUpkeep /\ upkeep' = upkeep + 1 /\ UNCHANGED <<made, writer>>
  BY DEF Prune, Upkeep
<1>2. C \in SUBSET Of(storage, t) /\ W \in SUBSET Of(writes, t) /\ B \in SUBSET Of(blobs, t)
  OBVIOUS
<1> HIDE DEF C, W, B
<1>3. DataOK' /\ tracked' \in [Threads -> Estimate] /\ total' \in Estimate /\ SizesAgree'
  BY <1>0, <1>1, <1>2, Removed
<1>4. upkeep' \in 0..MaxUpkeep
  BY <1>0, <1>1, MaxAssumption DEF TypeOK
<1> QED  BY <1>0, <1>1, <1>3, <1>4 DEF SaverInv, TypeOK, DataOK

LEMMA DeleteRunKeeps ==
  ASSUME SaverInv, NEW t \in Threads, NEW r \in RunIds, DeleteRun(t, r) PROVE SaverInv'
<1>0. TypeOK /\ SizesAgree
  BY DEF SaverInv
<1> DEFINE C == {c \in Of(storage, t) : c.run = r}
<1>1. /\ storage' = storage \ C
      /\ Adjust(t, 0 - Bytes(C), 0 - Cardinality(C))
      /\ upkeep < MaxUpkeep /\ upkeep' = upkeep + 1
      /\ UNCHANGED <<writes, blobs, made, writer>>
  BY DEF DeleteRun, Upkeep
<1>2. C \in SUBSET Of(storage, t)
  OBVIOUS
<1> HIDE DEF C
<1>3. Bytes(C) \in Nat /\ Bytes({}) = 0
  <2>1. Sized(storage) /\ C \in SUBSET storage
    BY <1>0, <1>2, StoredSized DEF TypeOK, Of
  <2> QED  BY <2>1, BytesOfPart, BytesOfNone
<1>4. 0 - (Bytes(C) + Bytes({}) + Bytes({})) = 0 - Bytes(C)
  BY <1>3
<1>5. DataOK' /\ tracked' \in [Threads -> Estimate] /\ total' \in Estimate /\ SizesAgree'
  <2>1. {} \in SUBSET Of(writes, t) /\ {} \in SUBSET Of(blobs, t)
        /\ writes' = writes \ {} /\ blobs' = blobs \ {}
    BY <1>1
  <2> QED  BY <1>0, <1>1, <1>2, <1>4, <2>1, Removed
<1>6. upkeep' \in 0..MaxUpkeep
  BY <1>0, <1>1, MaxAssumption DEF TypeOK
<1> QED  BY <1>0, <1>1, <1>5, <1>6 DEF SaverInv, TypeOK, DataOK

\* Where the data and its sizes are right, what remains is the bookkeeping.
LEMMA UpkeepKeeps ==
  ASSUME SaverInv, Upkeep, DataOK', tracked' \in [Threads -> Estimate], total' \in Estimate,
         SizesAgree', UNCHANGED made, writer' \in [Writers -> Busy \cup {Away}]
  PROVE  SaverInv'
<1>1. upkeep' \in 0..MaxUpkeep
  BY MaxAssumption DEF SaverInv, TypeOK, Upkeep
<1> QED  BY <1>1 DEF SaverInv, TypeOK, DataOK

LEMMA DeleteThreadKeeps ==
  ASSUME SaverInv, NEW t \in Threads, DeleteThread(t) PROVE SaverInv'
<1>0. TypeOK /\ SizesAgree /\ DataOK
  BY DEF SaverInv, TypeOK, DataOK
<1>1. /\ storage' = storage \ Of(storage, t) /\ writes' = writes \ Of(writes, t)
      /\ blobs' = blobs \ Of(blobs, t) /\ SetEstimate(t, Nothing)
      /\ Upkeep /\ UNCHANGED <<made, writer>>
  BY DEF DeleteThread
<1>2. DataOK'
  BY <1>0, <1>1, FS_Subset DEF DataOK
<1>3. /\ Of(storage', t) = {} /\ Of(writes', t) = {} /\ Of(blobs', t) = {}
      /\ Others(storage, t)' = Others(storage, t) /\ Others(writes, t)' = Others(writes, t)
      /\ Others(blobs, t)' = Others(blobs, t)
  BY <1>1 DEF Of, Others
<1>4. Held(t)' = Nothing
  <2>1. Held(t)' = [bytes |-> Bytes({}) + Bytes({}) + Bytes({}), count |-> Cardinality({})]
    BY <1>3 DEF Held, Of, Bytes
  <2> QED  BY <2>1, BytesOfNone, FS_EmptySet DEF Nothing
<1>5. SetEstimate(t, Held(t)')
  BY <1>1, <1>4 DEF SetEstimate
<1>6. tracked' \in [Threads -> Estimate] /\ total' \in Estimate /\ SizesAgree'
  BY <1>0, <1>2, <1>3, <1>5, SizesFollow
<1> QED  BY <1>0, <1>1, <1>2, <1>6, UpkeepKeeps DEF TypeOK

LEMMA ClearKeeps == SaverInv /\ Clear => SaverInv'
<1> SUFFICES ASSUME SaverInv, Clear PROVE SaverInv'
  OBVIOUS
<1>1. /\ storage' = {} /\ writes' = {} /\ blobs' = {}
      /\ tracked' = [t \in Threads |-> Nothing] /\ total' = Nothing
      /\ Upkeep /\ UNCHANGED <<made, writer>>
  BY DEF Clear
<1>2. DataOK'
  BY <1>1, FS_EmptySet DEF DataOK
<1>3. Nothing \in Estimate
  BY DEF Nothing, Estimate
<1>4. \A t \in Threads : Held(t)' = Nothing
  <2> SUFFICES ASSUME NEW t \in Threads PROVE Held(t)' = Nothing
    OBVIOUS
  <2>1. Of(storage', t) = {} /\ Of(writes', t) = {} /\ Of(blobs', t) = {}
    BY <1>1 DEF Of
  <2>2. Held(t)' = [bytes |-> Bytes({}) + Bytes({}) + Bytes({}), count |-> Cardinality({})]
    BY <2>1 DEF Held, Of, Bytes
  <2> QED  BY <2>2, BytesOfNone, FS_EmptySet DEF Nothing
<1>5. SizesAgree'
  <2>1. Bytes(storage') = 0 /\ Bytes(writes') = 0 /\ Bytes(blobs') = 0 /\ Cardinality(storage') = 0
    BY <1>1, BytesOfNone, FS_EmptySet
  <2> QED  BY <1>1, <1>4, <2>1 DEF SizesAgree, Nothing, Bytes
<1> QED  BY <1>1, <1>2, <1>3, <1>5, UpkeepKeeps DEF SaverInv, TypeOK

LEMMA RestartKeeps == SaverInv /\ Restart => SaverInv'
<1> SUFFICES ASSUME SaverInv, Restart PROVE SaverInv'
  OBVIOUS
<1>0. DataOK
  BY DEF SaverInv, TypeOK, DataOK
<1>1. /\ UNCHANGED <<storage, writes, blobs, made>>
      /\ tracked' = [t \in Threads |-> Held(t)] /\ Upkeep
      /\ total' = [bytes |-> Bytes(storage) + Bytes(writes) + Bytes(blobs),
                   count |-> Cardinality(storage)]
      /\ writer' = [w \in Writers |-> Away]
  BY DEF Restart, data
<1>2. DataOK'
  BY <1>0, <1>1 DEF DataOK
<1>3. tracked' \in [Threads -> Estimate]
  BY <1>0, <1>1, HeldEstimate
<1>4. total' \in Estimate
  <2>1. Sized(storage) /\ Sized(writes) /\ Sized(blobs)
    BY <1>0, StoredSized DEF DataOK
  <2>2. Bytes(storage) \in Nat /\ Bytes(writes) \in Nat /\ Bytes(blobs) \in Nat
    BY <2>1, UnitsFinite
  <2>3. Cardinality(storage) \in Nat
    BY <2>1, FS_CardinalityType DEF Sized
  <2> QED  BY <1>1, <2>2, <2>3 DEF Estimate
<1>5. SizesAgree'
  <2>1. \A t \in Threads : Held(t)' = Held(t)
    BY <1>1 DEF Held, Of, Bytes
  <2> QED  BY <1>1, <2>1 DEF SizesAgree, Bytes
<1> QED  BY <1>1, <1>2, <1>3, <1>4, <1>5, UpkeepKeeps

-----------------------------------------------------------------------------
(* Writers                                                                   *)

\* A step that changes no data and no estimate.
LEMMA LoadKeeps ==
  ASSUME SaverInv, NEW w \in Writers, NEW t \in Used, NEW n \in Namespaces, NEW r \in RunIds,
         Load(w, t, n, r)
  PROVE  SaverInv'
<1>0. TypeOK /\ SizesAgree
  BY DEF SaverInv
<1>1. PICK base \in {[id |-> 0, versions |-> NoVersions]} \cup History(t, n) :
        writer' = [writer EXCEPT ![w] =
            [pc |-> "busy", thread |-> t, ns |-> n, run |-> r,
             base |-> base.id, versions |-> base.versions]]
  BY DEF Load
<1>2. base.id \in 0..MaxIds /\ base.versions \in Versions
  <2>1. NoVersions \in Versions /\ MaxIds \in Nat
    BY MaxAssumption DEF NoVersions, Versions
  <2>2. base \in History(t, n) => base \in Checkpoint
    BY <1>0 DEF History, TypeOK
  <2>3. base \in Checkpoint => base.id \in 0..MaxIds /\ base.versions \in Versions
    BY <2>1 DEF Checkpoint, Ids
  <2> QED  BY <2>1, <2>2, <2>3
<1>3. [pc |-> "busy", thread |-> t, ns |-> n, run |-> r, base |-> base.id,
       versions |-> base.versions] \in Busy
  BY <1>2, UsedAssumption DEF Busy
<1>4. writer' \in [Writers -> Busy \cup {Away}]
  BY <1>0, <1>1, <1>3 DEF TypeOK
<1>5. UNCHANGED <<storage, writes, blobs, tracked, total, made, upkeep>>
  BY DEF Load, data
<1>6. TypeOK'
  BY <1>0, <1>4, <1>5 DEF TypeOK
<1>7. SizesAgree'
  BY <1>0, <1>5 DEF SizesAgree, Held, Of, Bytes
<1> QED  BY <1>6, <1>7 DEF SaverInv

LEMMA BusyWriter ==
  ASSUME TypeOK, NEW w \in Writers, writer[w] # Away
  PROVE  /\ writer[w] \in Busy /\ writer[w].thread \in Threads /\ writer[w].ns \in Namespaces
         /\ writer[w].run \in RunIds /\ writer[w].base \in 0..MaxIds
         /\ writer[w].versions \in Versions
BY DEF TypeOK, Busy

LEMMA PutWritesKeeps ==
  ASSUME SaverInv, NEW w \in Writers, PutWrites(w)
  PROVE  SaverInv'
<1>0. TypeOK /\ SizesAgree /\ DataOK /\ Sized(writes)
  BY StoredSized DEF SaverInv, TypeOK, DataOK
<1>1. PICK t \in Threads, ns \in Namespaces, id \in Ids :
        t = writer[w].thread /\ ns = writer[w].ns /\ id = writer[w].base
  <2>1. writer[w] # Away /\ writer[w].base # 0
    BY DEF PutWrites
  <2>2. writer[w].base \in Ids
    BY <1>0, <2>1, BusyWriter, MaxAssumption DEF Ids
  <2> QED  BY <1>0, <2>1, <2>2, BusyWriter
<1> DEFINE old == {x \in writes : x.thread = t /\ x.ns = ns /\ x.id = id}
<1>2. PICK size \in 1..MaxWrites :
        /\ writes' = (writes \ old) \cup {[thread |-> t, ns |-> ns, id |-> id, size |-> size]}
        /\ Adjust(t, size - Bytes(old), 0)
  BY <1>1 DEF PutWrites
<1> DEFINE group == [thread |-> t, ns |-> ns, id |-> id, size |-> size]
<1>3. /\ group \in WriteGroup /\ group.size = size /\ size \in Nat /\ size \in Int
      /\ Of({group}, t) = {group} /\ {group} \cap (writes \ old) = {}
      /\ old \in SUBSET Of(writes, t) /\ old \in SUBSET writes
  BY MaxAssumption DEF WriteGroup, Of
<1>4. UNCHANGED <<storage, blobs, made, upkeep, writer>>
  BY DEF PutWrites
<1>5. DataOK'
  <2>1. writes' \in SUBSET WriteGroup
    BY <1>0, <1>2, <1>3 DEF DataOK
  <2>2. IsFiniteSet(writes')
    BY <1>0, <1>2, <1>3, FS_Subset, FS_AddElement DEF DataOK
  <2> QED  BY <1>0, <1>4, <2>1, <2>2 DEF DataOK
<1>6. Sized({group}) /\ Bytes({group}) = size /\ Bytes(old) \in Nat
  BY <1>0, <1>3, BytesOfOne, BytesOfPart
<1>7. writes' = (writes \ old) \cup {group}
  BY <1>2
<1> HIDE DEF group, old
<1> DEFINE b == size - Bytes(old)
<1>8. b \in Int /\ Adjust(t, b, 0) /\ 0 \in Int
  BY <1>2, <1>3, <1>6
<1>9. /\ Sized({}) /\ Bytes({}) = 0 /\ Cardinality({}) = 0 /\ Of({}, t) = {}
      /\ {} \in SUBSET Of(storage, t) /\ {} \in SUBSET Of(blobs, t)
      /\ storage' = (storage \ {}) \cup {} /\ {} \cap (storage \ {}) = {}
      /\ blobs' = (blobs \ {}) \cup {} /\ {} \cap (blobs \ {}) = {}
  BY <1>4, BytesOfNone, FS_EmptySet DEF Of
<1>10. /\ b = Bytes({}) + Bytes({group}) + Bytes({}) - (Bytes({}) + Bytes(old) + Bytes({}))
       /\ 0 = Cardinality({}) - Cardinality({})
  BY <1>3, <1>6, <1>9
<1> HIDE DEF b
<1>11. tracked' \in [Threads -> Estimate] /\ total' \in Estimate /\ SizesAgree'
  BY <1>0, <1>3, <1>5, <1>6, <1>7, <1>8, <1>9, <1>10, Changed
<1> QED  BY <1>0, <1>4, <1>5, <1>11 DEF SaverInv, TypeOK, DataOK

\* put: the checkpoint and the blobs of its versions, instead of those that were there.
LEMMA StoreKeeps ==
  ASSUME TypeOK, SizesAgree, NEW c \in Checkpoint, NEW new \in SUBSET Blob, IsFiniteSet(new),
         \A x \in new : x.thread = c.thread /\ x.ns = c.ns /\ x.version = c.id,
         Store(c, new), UNCHANGED writes
  PROVE  DataOK' /\ tracked' \in [Threads -> Estimate] /\ total' \in Estimate /\ SizesAgree'
<1> DEFINE t == c.thread
           C == {d \in storage : SameKey(d, c)}
           B == {b \in blobs : \E x \in new : /\ b.thread = x.thread /\ b.ns = x.ns
                                              /\ b.channel = x.channel /\ b.version = x.version}
<1>0. DataOK /\ Sized(storage) /\ Sized(writes) /\ Sized(blobs) /\ t \in Threads
  BY StoredSized DEF TypeOK, DataOK, Checkpoint
<1>1. /\ storage' = (storage \ C) \cup {c} /\ blobs' = (blobs \ B) \cup new /\ writes' = writes
      /\ Adjust(t, c.size + Bytes(new) - Replaced(c, new), IF Fresh(c) THEN 1 ELSE 0)
  BY DEF Store
<1>2. Replaced(c, new) = Bytes(C) + Bytes(B)
  <2>1. {b \in blobs : b.thread = c.thread /\ b.ns = c.ns /\ b.version = c.id
                         /\ b.channel \in {x.channel : x \in new}} = B
    OBVIOUS
  <2> HIDE DEF B
  <2> QED  BY <2>1 DEF Replaced
<1>3. /\ C \in SUBSET Of(storage, t) /\ B \in SUBSET Of(blobs, t)
      /\ C \in SUBSET storage /\ B \in SUBSET blobs
      /\ Of({c}, t) = {c} /\ Of(new, t) = new
      /\ {c} \cap (storage \ C) = {} /\ new \cap (blobs \ B) = {}
  BY DEF Of, SameKey
<1>4. Cardinality(C) = IF Fresh(c) THEN 0 ELSE 1
  <2>1. CASE Fresh(c)
    <3>1. C = {}
      BY <2>1 DEF Fresh
    <3> QED  BY <2>1, <3>1, FS_EmptySet
  <2>2. CASE ~Fresh(c)
    <3>1. PICK d \in storage : SameKey(d, c)
      BY <2>2 DEF Fresh
    <3>2. C = {d}
      BY <1>0, <3>1 DEF DataOK, SameKey
    <3> QED  BY <2>2, <3>2, FS_Singleton
  <2> QED  BY <2>1, <2>2
<1>5. DataOK'
  <2>1. storage' \in SUBSET Checkpoint /\ blobs' \in SUBSET Blob
    BY <1>0, <1>1 DEF DataOK
  <2>2. IsFiniteSet(storage')
    <3>1. IsFiniteSet(storage \ C)
      BY <1>0, FS_Difference DEF DataOK
    <3> QED  BY <1>1, <3>1, FS_AddElement
  <2>3. IsFiniteSet(blobs')
    BY <1>0, <1>1, <1>3, FS_Difference, FS_Union DEF DataOK
  <2>4. \A d, e \in storage' : SameKey(d, e) => d = e
    BY <1>0, <1>1 DEF DataOK, SameKey
  <2> QED  BY <1>0, <1>1, <2>1, <2>2, <2>3, <2>4 DEF DataOK
<1>6. /\ Sized({c}) /\ Bytes({c}) = c.size /\ c.size \in Nat /\ Cardinality({c}) = 1
      /\ Sized(new) /\ Bytes(new) \in Nat /\ Bytes(C) \in Nat /\ Bytes(B) \in Nat
  <2>1. c.size \in Nat
    BY SizesAssumption DEF Checkpoint
  <2>2. Sized(new)
    BY StoredSized
  <2> HIDE DEF C, B
  <2> QED  BY <1>0, <1>3, <2>1, <2>2, BytesOfOne, BytesOfPart, UnitsFinite, FS_Singleton
<1> DEFINE b == c.size + Bytes(new) - (Bytes(C) + Bytes(B))
           n == IF Fresh(c) THEN 1 ELSE 0
<1> HIDE DEF C, B
<1>7. b \in Int /\ n \in Int /\ Adjust(t, b, n)
  BY <1>1, <1>2, <1>6
<1>8. /\ Sized({}) /\ Bytes({}) = 0 /\ Of({}, t) = {} /\ {} \in SUBSET Of(writes, t)
      /\ writes' = (writes \ {}) \cup {} /\ {} \cap (writes \ {}) = {}
  BY <1>1, BytesOfNone DEF Of
<1>9. /\ b = Bytes({c}) + Bytes({}) + Bytes(new) - (Bytes(C) + Bytes({}) + Bytes(B))
      /\ n = Cardinality({c}) - Cardinality(C)
  BY <1>4, <1>6, <1>8
<1>10. storage' = (storage \ C) \cup {c} /\ blobs' = (blobs \ B) \cup new
  BY <1>1
<1> HIDE DEF b, n, t
<1>11. tracked' \in [Threads -> Estimate] /\ total' \in Estimate /\ SizesAgree'
  BY <1>0, <1>3, <1>5, <1>6, <1>7, <1>8, <1>9, <1>10, Changed
<1> QED  BY <1>5, <1>11

\* What is put: a checkpoint on top of what the writer has, and blobs of its own.
LEMMA PutDoes ==
  ASSUME SaverInv, NEW w \in Writers, Put(w)
  PROVE  /\ writer[w] # Away /\ made < MaxIds /\ made' = made + 1 /\ UNCHANGED <<writes, upkeep>>
         /\ made \in Nat /\ MaxIds \in Nat
         /\ \E c \in Checkpoint, new \in SUBSET Blob :
              /\ c.thread = writer[w].thread /\ c.ns = writer[w].ns /\ c.id = made + 1
              /\ c.parent = writer[w].base
              /\ \A ch \in Channels : \/ c.versions[ch] = writer[w].versions[ch]
                                      \/ c.versions[ch] = made + 1
              /\ IsFiniteSet(new)
              /\ \A x \in new : x.thread = c.thread /\ x.ns = c.ns /\ x.version = c.id
              /\ Store(c, new)
              /\ writer' = [writer EXCEPT ![w].base = c.id, ![w].versions = c.versions]
<1>0. TypeOK /\ SizesAgree
  BY DEF SaverInv
<1>1. PICK changed \in SUBSET Channels, size \in Sizes : \E full \in SUBSET changed :
        LET versions == [ch \in Channels |-> IF ch \in changed THEN made + 1
                                             ELSE writer[w].versions[ch]]
            c == [thread |-> writer[w].thread, ns |-> writer[w].ns, id |-> made + 1,
                  parent |-> writer[w].base, run |-> writer[w].run,
                  versions |-> versions, size |-> size]
        IN /\ Store(c, {[thread |-> c.thread, ns |-> c.ns, channel |-> ch, version |-> c.id,
                         kind |-> IF ch \in full THEN "value" ELSE "empty", size |-> size]
                        : ch \in changed})
           /\ writer' = [writer EXCEPT ![w].base = c.id, ![w].versions = versions]
  BY DEF Put
<1>2. PICK full \in SUBSET changed :
        LET versions == [ch \in Channels |-> IF ch \in changed THEN made + 1
                                             ELSE writer[w].versions[ch]]
            c == [thread |-> writer[w].thread, ns |-> writer[w].ns, id |-> made + 1,
                  parent |-> writer[w].base, run |-> writer[w].run,
                  versions |-> versions, size |-> size]
        IN /\ Store(c, {[thread |-> c.thread, ns |-> c.ns, channel |-> ch, version |-> c.id,
                         kind |-> IF ch \in full THEN "value" ELSE "empty", size |-> size]
                        : ch \in changed})
           /\ writer' = [writer EXCEPT ![w].base = c.id, ![w].versions = versions]
  BY <1>1
<1>3. /\ writer[w] # Away /\ made < MaxIds /\ made' = made + 1 /\ UNCHANGED <<writes, upkeep>>
      /\ made \in Nat /\ MaxIds \in Nat
  BY <1>0, MaxAssumption DEF Put, TypeOK
<1>4. PICK id \in Ids : id = made + 1
  BY <1>3 DEF Ids
<1>5. PICK versions \in Versions :
        versions = [ch \in Channels |-> IF ch \in changed THEN made + 1 ELSE writer[w].versions[ch]]
  <2>1. \A ch \in Channels : writer[w].versions[ch] \in 0..MaxIds
    BY <1>0, <1>3, BusyWriter DEF Versions
  <2>2. made + 1 \in 0..MaxIds
    BY <1>3
  <2> DEFINE v == [ch \in Channels |-> IF ch \in changed THEN made + 1 ELSE writer[w].versions[ch]]
  <2>3. v \in [Channels -> 0..MaxIds]
    BY <2>1, <2>2
  <2> QED  BY <2>3 DEF Versions
<1>6. PICK c \in Checkpoint :
        c = [thread |-> writer[w].thread, ns |-> writer[w].ns, id |-> made + 1,
             parent |-> writer[w].base, run |-> writer[w].run, versions |-> versions, size |-> size]
  BY <1>0, <1>3, <1>4, BusyWriter DEF Checkpoint
<1> DEFINE blob == [ch \in changed |->
              [thread |-> c.thread, ns |-> c.ns, channel |-> ch, version |-> c.id,
               kind |-> IF ch \in full THEN "value" ELSE "empty", size |-> size]]
<1>7. PICK new \in SUBSET Blob :
        new = {[thread |-> c.thread, ns |-> c.ns, channel |-> ch, version |-> c.id,
                kind |-> IF ch \in full THEN "value" ELSE "empty", size |-> size] : ch \in changed}
  <2>1. \A ch \in changed : blob[ch] \in Blob
    BY <1>6 DEF Blob, Checkpoint
  <2> QED  BY <2>1
<1>8. IsFiniteSet(new)
  <2>1. IsFiniteSet(changed)
    BY ChannelsAssumption, FS_Subset
  <2>2. blob \in Surjection(changed, new)
    BY <1>7 DEF Surjection
  <2> QED  BY <2>1, <2>2, FS_Surjection
<1>9. \A x \in new : x.thread = c.thread /\ x.ns = c.ns /\ x.version = c.id
  BY <1>7
<1>10. Store(c, new) /\ writer' = [writer EXCEPT ![w].base = c.id, ![w].versions = versions]
  BY <1>2, <1>5, <1>6, <1>7, Zenon
<1>11. /\ c.thread = writer[w].thread /\ c.ns = writer[w].ns /\ c.id = made + 1
       /\ c.parent = writer[w].base /\ c.versions = versions
       /\ \A ch \in Channels : \/ versions[ch] = writer[w].versions[ch]
                               \/ versions[ch] = made + 1
  BY <1>5, <1>6
<1>12. writer' = [writer EXCEPT ![w].base = c.id, ![w].versions = c.versions]
  BY <1>10, <1>11
<1> QED  BY <1>3, <1>8, <1>9, <1>10, <1>11, <1>12

LEMMA PutKeeps == ASSUME SaverInv, NEW w \in Writers, Put(w) PROVE SaverInv'
<1>0. TypeOK /\ SizesAgree
  BY DEF SaverInv
<1>1. PICK c \in Checkpoint, new \in SUBSET Blob :
        /\ c.id = made + 1 /\ IsFiniteSet(new)
        /\ \A x \in new : x.thread = c.thread /\ x.ns = c.ns /\ x.version = c.id
        /\ Store(c, new)
        /\ writer' = [writer EXCEPT ![w].base = c.id, ![w].versions = c.versions]
  BY PutDoes
<1>2. /\ writer[w] # Away /\ made < MaxIds /\ made' = made + 1 /\ UNCHANGED <<writes, upkeep>>
      /\ made \in Nat /\ MaxIds \in Nat
  BY PutDoes
<1>3. DataOK' /\ tracked' \in [Threads -> Estimate] /\ total' \in Estimate /\ SizesAgree'
  BY <1>0, <1>1, <1>2, StoreKeeps
<1>4. writer' \in [Writers -> Busy \cup {Away}]
  <2>1. c.id \in 0..MaxIds /\ c.versions \in Versions
    BY <1>1, <1>2 DEF Checkpoint
  <2>2. [[writer[w] EXCEPT !.base = c.id] EXCEPT !.versions = c.versions] \in Busy
    BY <1>0, <1>2, <2>1, BusyWriter DEF Busy
  <2> QED  BY <1>0, <1>1, <2>2 DEF TypeOK
<1>5. made' \in 0..MaxIds
  BY <1>2
<1> QED  BY <1>0, <1>2, <1>3, <1>4, <1>5 DEF SaverInv, TypeOK, DataOK

\* What is put again: the checkpoint and its blobs, with another size.
LEMMA PutAgainDoes ==
  ASSUME SaverInv, NEW w \in Writers, PutAgain(w)
  PROVE  /\ Upkeep /\ UNCHANGED <<writes, made, writer>>
         /\ \E c \in storage, d \in Checkpoint, new \in SUBSET Blob, size \in NewSizes :
              /\ d = [c EXCEPT !.size = size]
              /\ new = {[b EXCEPT !.size = size] : b \in {x \in blobs :
                          x.thread = c.thread /\ x.ns = c.ns /\ x.version = c.id}}
              /\ IsFiniteSet(new)
              /\ \A x \in new : x.thread = d.thread /\ x.ns = d.ns /\ x.version = d.id
              /\ Store(d, new)
<1>0. TypeOK /\ SizesAgree /\ DataOK
  BY DEF SaverInv, TypeOK, DataOK
<1>1. PICK c \in History(writer[w].thread, writer[w].ns), size \in NewSizes :
        Store([c EXCEPT !.size = size],
              {[b EXCEPT !.size = size] : b \in {x \in blobs :
                 x.thread = c.thread /\ x.ns = c.ns /\ x.version = c.id}})
  BY DEF PutAgain
<1>2. Upkeep /\ UNCHANGED <<writes, made, writer>>
  BY DEF PutAgain
<1>3. c \in Checkpoint /\ c \in storage
  BY <1>0 DEF History, DataOK
<1>4. PICK d \in Checkpoint : d = [c EXCEPT !.size = size]
  BY <1>3 DEF Checkpoint
<1>5. d.thread = c.thread /\ d.ns = c.ns /\ d.id = c.id
  BY <1>3, <1>4 DEF Checkpoint
<1> DEFINE old == {x \in blobs : x.thread = c.thread /\ x.ns = c.ns /\ x.version = c.id}
           put == [b \in old |-> [b EXCEPT !.size = size]]
<1>6. \A b \in old : /\ [b EXCEPT !.size = size] \in Blob
                     /\ [b EXCEPT !.size = size].thread = c.thread
                     /\ [b EXCEPT !.size = size].ns = c.ns
                     /\ [b EXCEPT !.size = size].version = c.id
  BY <1>0 DEF DataOK, Blob
<1>7. PICK new \in SUBSET Blob : new = {[b EXCEPT !.size = size] : b \in old}
  BY <1>6
<1>8. IsFiniteSet(new)
  <2>1. IsFiniteSet(old)
    BY <1>0, FS_Subset DEF DataOK
  <2> HIDE DEF old
  <2>2. put \in Surjection(old, new)
    BY <1>7 DEF Surjection
  <2> QED  BY <2>1, <2>2, FS_Surjection
<1>9. \A x \in new : x.thread = d.thread /\ x.ns = d.ns /\ x.version = d.id
  BY <1>5, <1>6, <1>7
<1>10. Store(d, new)
  BY <1>1, <1>4, <1>7, Zenon
<1> QED  BY <1>2, <1>3, <1>4, <1>7, <1>8, <1>9, <1>10

LEMMA PutAgainKeeps == ASSUME SaverInv, NEW w \in Writers, PutAgain(w) PROVE SaverInv'
<1>1. TypeOK /\ SizesAgree /\ Upkeep /\ UNCHANGED <<writes, made, writer>>
  BY PutAgainDoes DEF SaverInv
<1>2. PICK d \in Checkpoint, new \in SUBSET Blob :
        /\ IsFiniteSet(new) /\ Store(d, new)
        /\ \A x \in new : x.thread = d.thread /\ x.ns = d.ns /\ x.version = d.id
  BY PutAgainDoes
<1>3. DataOK' /\ tracked' \in [Threads -> Estimate] /\ total' \in Estimate /\ SizesAgree'
  BY <1>1, <1>2, StoreKeeps
<1> QED  BY <1>1, <1>3, UpkeepKeeps DEF TypeOK

-----------------------------------------------------------------------------
(* Copies                                                                    *)

\* What corresponds one to one, size for size, is as large.
LEMMA SameSize ==
  ASSUME NEW A, NEW M, Sized(A), NEW f \in [A -> M],
         \A x \in A : f[x].size = x.size,
         \A x, y \in A : f[x] = f[y] => x = y,
         \A y \in M : \E x \in A : f[x] = y
  PROVE  Sized(M) /\ Bytes(M) = Bytes(A) /\ Cardinality(M) = Cardinality(A)
<1>1. IsFiniteSet(M) /\ Cardinality(M) = Cardinality(A)
  <2>1. f \in Bijection(A, M)
    BY OneToOne
  <2> QED  BY <2>1, FS_Bijection DEF ExistsBijection, Sized
<1>2. \A y \in M : y.size \in Nat
  <2> SUFFICES ASSUME NEW y \in M PROVE y.size \in Nat
    OBVIOUS
  <2>1. PICK x \in A : f[x] = y
    OBVIOUS
  <2> QED  BY <2>1 DEF Sized
<1> DEFINE g == [u \in Units(A) |-> <<f[u[1]], u[2]>>]
<1>3. ASSUME NEW u \in Units(A)
      PROVE  \E x \in A : \E i \in 1..x.size : u = <<x, i>> /\ g[u] = <<f[x], i>>
  <2>1. PICK x \in A : \E i \in 1..x.size : u = <<x, i>>
    BY UnitsOf
  <2>2. PICK i \in 1..x.size : u = <<x, i>>
    BY <2>1
  <2>3. g[u] = <<f[x], i>>
    BY <2>2
  <2> QED  BY <2>2, <2>3
<1>4. ASSUME NEW u \in Units(A) PROVE g[u] \in Units(M)
  <2>1. PICK x \in A : \E i \in 1..x.size : u = <<x, i>> /\ g[u] = <<f[x], i>>
    BY <1>3
  <2>2. PICK i \in 1..x.size : g[u] = <<f[x], i>>
    BY <2>1
  <2>3. f[x] \in M /\ i \in 1..f[x].size
    OBVIOUS
  <2> QED  BY <2>2, <2>3, UnitsOf
<1>5. g \in [Units(A) -> Units(M)]
  BY <1>4
<1> HIDE DEF g
<1>6. ASSUME NEW u \in Units(A), NEW v \in Units(A), g[u] = g[v] PROVE u = v
  <2>1. PICK x \in A : \E i \in 1..x.size : u = <<x, i>> /\ g[u] = <<f[x], i>>
    BY <1>3
  <2>2. PICK y \in A : \E j \in 1..y.size : v = <<y, j>> /\ g[v] = <<f[y], j>>
    BY <1>3
  <2>3. PICK i \in 1..x.size : u = <<x, i>> /\ g[u] = <<f[x], i>>
    BY <2>1
  <2>4. PICK j \in 1..y.size : v = <<y, j>> /\ g[v] = <<f[y], j>>
    BY <2>2
  <2>5. <<f[x], i>> = <<f[y], j>>
    BY <1>6, <2>3, <2>4
  <2>6. f[x] = f[y] /\ i = j
    BY <2>5
  <2> QED  BY <2>3, <2>4, <2>6
<1>7. ASSUME NEW v \in Units(M) PROVE \E u \in Units(A) : g[u] = v
  <2>1. PICK y \in M : \E i \in 1..y.size : v = <<y, i>>
    BY UnitsOf
  <2>2. PICK i \in 1..y.size : v = <<y, i>>
    BY <2>1
  <2>3. PICK x \in A : f[x] = y
    OBVIOUS
  <2>4. i \in 1..x.size
    BY <2>3
  <2>5. <<x, i>> \in Units(A)
    BY <2>4, UnitsOf
  <2>6. g[<<x, i>>] = <<f[x], i>>
    BY <2>5 DEF g
  <2> QED  BY <2>2, <2>3, <2>5, <2>6
<1>8. g \in Bijection(Units(A), Units(M))
  BY <1>5, <1>6, <1>7, OneToOne
<1>9. Cardinality(Units(M)) = Cardinality(Units(A))
  BY <1>8, UnitsFinite, FS_Bijection DEF ExistsBijection
<1>10. Bytes(M) = Bytes(A)
  BY <1>9 DEF Bytes, Units
<1> QED  BY <1>1, <1>2, <1>10 DEF Sized

\* A copy is as large as its original.
LEMMA MovedSize ==
  ASSUME NEW S, Sized(S), NEW s, NEW t,
         \A x \in Of(S, s) : /\ [[x EXCEPT !.thread = t] EXCEPT !.thread = s] = x
                             /\ [x EXCEPT !.thread = t].thread = t
                             /\ [x EXCEPT !.thread = t].size = x.size
  PROVE  /\ Sized(Moved(S, s, t)) /\ Of(Moved(S, s, t), t) = Moved(S, s, t)
         /\ Bytes(Moved(S, s, t)) = Bytes(Of(S, s))
         /\ Cardinality(Moved(S, s, t)) = Cardinality(Of(S, s))
<1> DEFINE A == Of(S, s)
           f == [x \in A |-> [x EXCEPT !.thread = t]]
<1>1. Sized(A)
  <2>1. A \in SUBSET S
    BY DEF Of
  <2> QED  BY <2>1, BytesOfPart
<1>2. \A x \in A : /\ f[x] = [x EXCEPT !.thread = t] /\ [f[x] EXCEPT !.thread = s] = x
                   /\ f[x].thread = t /\ f[x].size = x.size
  OBVIOUS
<1> DEFINE M == Moved(S, s, t)
<1>3. M = {[x EXCEPT !.thread = t] : x \in A}
  BY DEF Moved
<1>4. /\ \A x \in A : f[x] \in M
      /\ \A y \in M : \E x \in A : f[x] = y
  BY <1>3
<1> HIDE DEF A, M
<1>5. f \in [A -> M]
  BY <1>4
<1> HIDE DEF f
<1>6. /\ \A x \in A : f[x].size = x.size
      /\ \A x, y \in A : f[x] = f[y] => x = y
      /\ \A y \in M : \E x \in A : f[x] = y
  <2>1. ASSUME NEW x \in A, NEW y \in A, f[x] = f[y] PROVE x = y
    <3>1. [f[x] EXCEPT !.thread = s] = x /\ [f[y] EXCEPT !.thread = s] = y
      BY <1>2
    <3>2. [f[x] EXCEPT !.thread = s] = [f[y] EXCEPT !.thread = s]
      BY <2>1
    <3> QED  BY <3>1, <3>2
  <2> QED  BY <1>2, <1>4, <2>1
<1>7. Sized(M) /\ Bytes(M) = Bytes(A) /\ Cardinality(M) = Cardinality(A)
  BY <1>1, <1>5, <1>6, SameSize
<1>8. Of(M, t) = M
  <2>1. ASSUME NEW y \in M PROVE y.thread = t
    <3>1. PICK x \in A : f[x] = y
      BY <1>4
    <3>2. f[x].thread = t
      BY <1>2
    <3> QED  BY <3>1, <3>2
  <2> QED  BY <2>1 DEF Of
<1> QED  BY <1>7, <1>8 DEF A, M

LEMMA CopyKeeps == ASSUME SaverInv, NEW s \in Threads, NEW t \in Threads, Copy(s, t) PROVE SaverInv'
<1>0. TypeOK /\ SizesAgree /\ DataOK /\ Sized(storage) /\ Sized(writes) /\ Sized(blobs)
  BY StoredSized DEF SaverInv, TypeOK, DataOK
<1> DEFINE C == Moved(storage, s, t)
           W == Moved(writes, s, t)
           B == Moved(blobs, s, t)
<1>1. /\ storage' = storage \cup C /\ writes' = writes \cup W /\ blobs' = blobs \cup B
      /\ SetEstimate(t, tracked[s]) /\ Upkeep /\ UNCHANGED <<made, writer>>
      /\ Of(storage, t) = {} /\ Of(writes, t) = {} /\ Of(blobs, t) = {}
  BY DEF Copy, Unused, MovedBlobs
<1>2. \A x \in Checkpoint : /\ [x EXCEPT !.thread = t] \in Checkpoint
                            /\ [x EXCEPT !.thread = t].thread = t
                            /\ [x EXCEPT !.thread = t].ns = x.ns
                            /\ [x EXCEPT !.thread = t].id = x.id
                            /\ [x EXCEPT !.thread = t].size = x.size
                            /\ x.thread = s => [[x EXCEPT !.thread = t] EXCEPT !.thread = s] = x
  BY DEF Checkpoint
<1>3. \A x \in WriteGroup : /\ [x EXCEPT !.thread = t] \in WriteGroup
                            /\ [x EXCEPT !.thread = t].thread = t
                            /\ [x EXCEPT !.thread = t].size = x.size
                            /\ x.thread = s => [[x EXCEPT !.thread = t] EXCEPT !.thread = s] = x
  BY DEF WriteGroup
<1>4. \A x \in Blob : /\ [x EXCEPT !.thread = t] \in Blob
                      /\ [x EXCEPT !.thread = t].thread = t
                      /\ [x EXCEPT !.thread = t].size = x.size
                      /\ x.thread = s => [[x EXCEPT !.thread = t] EXCEPT !.thread = s] = x
  BY DEF Blob
<1>5. /\ \A x \in Of(storage, s) : x \in Checkpoint /\ x \in storage /\ x.thread = s
      /\ \A x \in Of(writes, s) : x \in WriteGroup /\ x.thread = s
      /\ \A x \in Of(blobs, s) : x \in Blob /\ x.thread = s
  BY <1>0 DEF Of, DataOK
<1>6. /\ Sized(C) /\ Of(C, t) = C /\ Bytes(C) = Bytes(Of(storage, s))
      /\ Cardinality(C) = Cardinality(Of(storage, s))
  <2>1. \A x \in Of(storage, s) : /\ [[x EXCEPT !.thread = t] EXCEPT !.thread = s] = x
                                  /\ [x EXCEPT !.thread = t].thread = t
                                  /\ [x EXCEPT !.thread = t].size = x.size
    BY <1>2, <1>5
  <2> QED  BY <1>0, <2>1, MovedSize
<1>7. Sized(W) /\ Of(W, t) = W /\ Bytes(W) = Bytes(Of(writes, s))
  <2>1. \A x \in Of(writes, s) : /\ [[x EXCEPT !.thread = t] EXCEPT !.thread = s] = x
          /\ [x EXCEPT !.thread = t].thread = t /\ [x EXCEPT !.thread = t].size = x.size
    BY <1>3, <1>5
  <2> QED  BY <1>0, <2>1, MovedSize
<1>8. Sized(B) /\ Of(B, t) = B /\ Bytes(B) = Bytes(Of(blobs, s))
  <2>1. \A x \in Of(blobs, s) : /\ [[x EXCEPT !.thread = t] EXCEPT !.thread = s] = x
          /\ [x EXCEPT !.thread = t].thread = t /\ [x EXCEPT !.thread = t].size = x.size
    BY <1>4, <1>5
  <2> QED  BY <1>0, <2>1, MovedSize
<1>9. DataOK'
  <2>1. C \in SUBSET Checkpoint /\ W \in SUBSET WriteGroup /\ B \in SUBSET Blob
    BY <1>2, <1>3, <1>4, <1>5 DEF Moved
  <2>2. \A c, d \in C : SameKey(c, d) => c = d
    <3> SUFFICES ASSUME NEW c \in C, NEW d \in C, SameKey(c, d) PROVE c = d
      OBVIOUS
    <3>1. PICK x \in Of(storage, s) : c = [x EXCEPT !.thread = t]
      BY DEF Moved
    <3>2. PICK y \in Of(storage, s) : d = [y EXCEPT !.thread = t]
      BY DEF Moved
    <3>3. SameKey(x, y)
      BY <1>2, <1>5, <3>1, <3>2 DEF SameKey
    <3> QED  BY <1>0, <1>5, <3>1, <3>2, <3>3 DEF DataOK
  <2> HIDE DEF C, W, B
  <2>3. \A c, d \in storage' : SameKey(c, d) => c = d
    <3>1. \A c \in C : c.thread = t
      BY <1>6 DEF Of
    <3>2. \A c \in storage : c.thread # t
      BY <1>1 DEF Of
    <3> QED  BY <1>0, <1>1, <2>2, <3>1, <3>2 DEF DataOK, SameKey
  <2>4. IsFiniteSet(storage') /\ IsFiniteSet(writes') /\ IsFiniteSet(blobs')
    BY <1>0, <1>1, <1>6, <1>7, <1>8, FS_Union DEF Sized
  <2> QED  BY <1>0, <1>1, <2>1, <2>3, <2>4 DEF DataOK
<1> HIDE DEF C, W, B
<1>10. /\ Of(storage', t) = C /\ Of(writes', t) = W /\ Of(blobs', t) = B
       /\ Others(storage, t)' = Others(storage, t) /\ Others(writes, t)' = Others(writes, t)
       /\ Others(blobs, t)' = Others(blobs, t)
  BY <1>1, <1>6, <1>7, <1>8 DEF Of, Others
<1>11. Held(t)' = Held(s)
  <2>1. Held(t)' = [bytes |-> Bytes(C) + Bytes(W) + Bytes(B), count |-> Cardinality(C)]
    BY <1>10 DEF Held, Of, Bytes
  <2> QED  BY <1>6, <1>7, <1>8, <2>1 DEF Held
<1>12. SetEstimate(t, Held(t)')
  <2>1. tracked[s] = Held(s)
    BY <1>0 DEF SizesAgree
  <2>2. tracked[s] = Held(t)'
    BY <1>11, <2>1
  <2> QED  BY <1>1, <2>2 DEF SetEstimate
<1>13. tracked' \in [Threads -> Estimate] /\ total' \in Estimate /\ SizesAgree'
  BY <1>0, <1>9, <1>10, <1>12, SizesFollow
<1> QED  BY <1>0, <1>1, <1>9, <1>13, UpkeepKeeps DEF TypeOK

-----------------------------------------------------------------------------
(* The invariant.                                                            *)

LEMMA InitSaver == Init => SaverInv
<1> SUFFICES ASSUME Init PROVE SaverInv
  OBVIOUS
<1>1. Nothing \in Estimate
  BY DEF Nothing, Estimate
<1>2. TypeOK
  BY <1>1, MaxAssumption, FS_EmptySet DEF Init, TypeOK
<1>3. \A t \in Threads : Held(t) = Nothing
  <2> SUFFICES ASSUME NEW t \in Threads PROVE Held(t) = Nothing
    OBVIOUS
  <2>1. Of(storage, t) = {} /\ Of(writes, t) = {} /\ Of(blobs, t) = {}
    BY DEF Init, Of
  <2> QED  BY <2>1, BytesOfNone, FS_EmptySet DEF Held, Nothing
<1>4. SizesAgree
  BY <1>3, BytesOfNone, FS_EmptySet DEF Init, SizesAgree, Nothing
<1> QED  BY <1>2, <1>4 DEF SaverInv

LEMMA SaverStep == SaverInv /\ [Next]_vars => SaverInv'
<1> SUFFICES ASSUME SaverInv, [Next]_vars PROVE SaverInv'
  OBVIOUS
<1>1. ASSUME NEW w \in Writers, Put(w) \/ PutAgain(w) \/ PutWrites(w) PROVE SaverInv'
  BY <1>1, PutKeeps, PutAgainKeeps, PutWritesKeeps
<1>2. ASSUME NEW w \in Writers, NEW t \in Used, NEW n \in Namespaces, NEW r \in RunIds,
             Load(w, t, n, r)
      PROVE  SaverInv'
  BY <1>2, LoadKeeps
<1>3. ASSUME NEW t \in Threads, Prune(t) \/ DeleteThread(t) \/ \E r \in RunIds : DeleteRun(t, r)
      PROVE  SaverInv'
  BY <1>3, PruneKeeps, DeleteThreadKeeps, DeleteRunKeeps
<1>4. ASSUME NEW s \in Threads, NEW t \in Threads, Copy(s, t) PROVE SaverInv'
  BY <1>4, CopyKeeps
<1>5. CASE Clear \/ Restart
  BY <1>5, ClearKeeps, RestartKeeps
<1>6. CASE UNCHANGED vars
  BY <1>6 DEF vars, data, SaverInv, TypeOK, SizesAgree, Held, Of, Bytes
<1> QED  BY <1>1, <1>2, <1>3, <1>4, <1>5, <1>6 DEF Next

LEMMA SaverInvariant == Spec => []SaverInv
BY InitSaver, SaverStep, PTL DEF Spec

\* The checkpointer's dictionaries stay finite and well typed, with one checkpoint for a
\* thread, namespace and id (InMemorySaver: storage, writes, blobs).
THEOREM TypesHold == Spec => []TypeOK
<1>1. SaverInv => TypeOK
  BY DEF SaverInv
<1> QED  BY <1>1, SaverInvariant, PTL

\* The size estimates of threads and of the process are exactly what is stored, after any
\* sequence of operations: no adjustment is forgotten, counted twice or cut off at zero
\* (_CheckpointSizeState, adjust, copy_thread, remove_thread).
THEOREM SizesNeverDrift == Spec => []SizesAgree
<1>1. SaverInv => SizesAgree
  BY DEF SaverInv
<1> QED  BY <1>1, SaverInvariant, PTL

-----------------------------------------------------------------------------
(* Lineages.  Lineage is a recursive function of a number; what it computes  *)
(* is found by its least counterexample.                                     *)

LEMMA LeastNumber ==
  ASSUME NEW S \in SUBSET Nat, S # {}
  PROVE  \E x \in S : \A y \in S : x <= y
<1> DEFINE R == OpToRel(<, Nat)
<1>1. IsWellFoundedOn(R, Nat)
  BY NatLessThanWellFounded
<1>2. \A m, n \in Nat : m < n => <<m, n>> \in R
  BY DEF OpToRel
<1> HIDE DEF R
<1>3. PICK x \in S : \A y \in S : ~ (<<y, x>> \in R)
  BY <1>1, WFMin
<1>4. \A y \in S : ~ (y < x)
  BY <1>2, <1>3
<1> QED  BY <1>4

\* A history: one checkpoint for an id, each later than its parent.
Rooted(C) ==
  /\ C \in SUBSET Checkpoint
  /\ \A c, d \in C : c.id = d.id => c = d
  /\ \A c \in C : c.parent < c.id

Numbers == 0..MaxIds
Above(f, C, i) == UNION {{d} \cup f[d.parent] : d \in {e \in C : e.id = i}}
Up(C) == CHOOSE up : up = [i \in Numbers |-> Above(up, C, i)]

LEMMA LineageIsUp == ASSUME NEW C, NEW c PROVE Lineage(C, c) = Up(C)[c.id]
BY DEF Lineage, Up, Above, Numbers

LEMMA IdOf ==
  ASSUME NEW C, Rooted(C), NEW c \in C
  PROVE  c.id \in Numbers /\ c.id # 0 /\ c.parent \in Numbers /\ c.parent < c.id
BY MaxAssumption DEF Rooted, Checkpoint, Ids, Numbers

\* One checkpoint, or none.
LEMMA AboveOf ==
  ASSUME NEW C, Rooted(C), NEW f, NEW i
  PROVE  /\ (\A d \in C : d.id # i) => Above(f, C, i) = {}
         /\ \A d \in C : d.id = i => Above(f, C, i) = {d} \cup f[d.parent]
<1>1. ASSUME \A d \in C : d.id # i PROVE Above(f, C, i) = {}
  BY <1>1 DEF Above
<1>2. ASSUME NEW d \in C, d.id = i PROVE Above(f, C, i) = {d} \cup f[d.parent]
  <2>1. {e \in C : e.id = i} = {d}
    BY <1>2 DEF Rooted
  <2> QED  BY <2>1 DEF Above
<1> QED  BY <1>1, <1>2

LEMMA SameAbove ==
  ASSUME NEW C, Rooted(C), NEW f, NEW g, NEW i \in Numbers,
         \A j \in Numbers : j < i => f[j] = g[j]
  PROVE  Above(f, C, i) = Above(g, C, i)
<1>1. CASE \E d \in C : d.id = i
  <2>1. PICK d \in C : d.id = i
    BY <1>1
  <2>2. d.parent \in Numbers /\ d.parent < i
    BY <2>1, IdOf
  <2>3. f[d.parent] = g[d.parent]
    BY <2>2
  <2> QED  BY <2>1, <2>3, AboveOf
<1>2. CASE ~ \E d \in C : d.id = i
  BY <1>2, AboveOf
<1> QED  BY <1>1, <1>2

\* There is such a function.
LEMMA UpExists ==
  ASSUME NEW C, Rooted(C)
  PROVE  \A i \in Numbers : Up(C)[i] = Above(Up(C), C, i)
<1> DEFINE Good(n) == \E f : f = [i \in 0..n |-> Above(f, C, i)]
           Bad == {n \in Numbers : ~Good(n)}
<1>0. MaxIds \in Nat
  BY MaxAssumption
<1>1. Good(0)
  <2> DEFINE f == [i \in 0..0 |-> {}]
  <2>1. \A d \in C : d.id # 0
    BY IdOf
  <2>2. Above(f, C, 0) = {}
    BY <2>1, AboveOf
  <2>3. f = [i \in 0..0 |-> Above(f, C, i)]
    BY <2>2
  <2> QED  BY <2>3
<1>2. ASSUME NEW n \in Numbers, n + 1 \in Numbers, Good(n)
      PROVE  Good(n + 1)
  <2>1. PICK f : f = [i \in 0..n |-> Above(f, C, i)]
    BY <1>2
  <2>2. \A i \in 0..n : f[i] = Above(f, C, i)
    BY <2>1
  <2> DEFINE g == [i \in 0..(n + 1) |-> IF i \in 0..n THEN f[i] ELSE Above(f, C, i)]
  <2>3. /\ \A i \in 0..(n + 1) : g[i] = Above(f, C, i)
        /\ \A i \in 0..n : g[i] = f[i]
    <3>1. n \in Nat /\ \A i \in 0..n : i \in 0..(n + 1)
      BY <1>0 DEF Numbers
    <3> QED  BY <2>2, <3>1
  <2>4. g = [i \in 0..(n + 1) |-> g[i]]
    OBVIOUS
  <2> HIDE DEF g
  <2>5. ASSUME NEW i \in 0..(n + 1) PROVE g[i] = Above(g, C, i)
    <3>1. i \in Numbers /\ \A j \in Numbers : j < i => j \in 0..n
      BY <1>0, <1>2 DEF Numbers
    <3>2. \A j \in Numbers : j < i => f[j] = g[j]
      BY <2>3, <3>1
    <3>3. Above(f, C, i) = Above(g, C, i)
      BY <3>1, <3>2, SameAbove
    <3> QED  BY <2>3, <3>3
  <2>6. g = [i \in 0..(n + 1) |-> Above(g, C, i)]
    BY <2>4, <2>5
  <2> QED  BY <2>6
<1> HIDE DEF Good
<1>3. Bad = {}
  <2> SUFFICES ASSUME Bad # {} PROVE FALSE
    OBVIOUS
  <2>1. Bad \in SUBSET Nat
    BY <1>0 DEF Numbers
  <2>2. PICK m \in Bad : \A n \in Bad : m <= n
    BY <2>1, LeastNumber
  <2>3. m \in Numbers /\ ~Good(m) /\ m # 0
    BY <1>1
  <2>4. m - 1 \in Numbers /\ (m - 1) + 1 = m /\ ~ (m <= m - 1)
    BY <1>0, <2>3 DEF Numbers
  <2>5. Good(m - 1)
    BY <2>2, <2>4
  <2> HIDE DEF Bad
  <2> QED  BY <1>2, <2>3, <2>4, <2>5
<1>4. Good(MaxIds)
  BY <1>0, <1>3 DEF Numbers
<1>5. \E f : f = [i \in Numbers |-> Above(f, C, i)]
  BY <1>4 DEF Good, Numbers
<1>6. Up(C) = [i \in Numbers |-> Above(Up(C), C, i)]
  BY <1>5 DEF Up
<1> QED  BY <1>6

\* What is above a number: nothing, or the checkpoint and what is above its parent.
LEMMA UpOf ==
  ASSUME NEW C, Rooted(C)
  PROVE  /\ \A i \in Numbers : (\A d \in C : d.id # i) => Up(C)[i] = {}
         /\ \A d \in C : Up(C)[d.id] = {d} \cup Up(C)[d.parent]
BY UpExists, AboveOf, IdOf

LEMMA UpStep ==
  ASSUME NEW C, Rooted(C), NEW d \in C
  PROVE  /\ d.parent \in Numbers /\ d.parent < d.id /\ d.id \in Nat /\ d.parent \in Nat
         /\ Up(C)[d.id] = {d} \cup Up(C)[d.parent]
<1>1. d.parent \in Numbers /\ d.parent < d.id /\ d.id \in Numbers
  BY IdOf
<1>2. \A n \in Numbers : n \in Nat
  BY MaxAssumption DEF Numbers
<1> QED  BY <1>1, <1>2, UpOf

\* Ancestors are stored, and come before.
LEMMA UpBefore ==
  ASSUME NEW C, Rooted(C), NEW i \in Numbers
  PROVE  Up(C)[i] \in SUBSET C /\ \A x \in Up(C)[i] : x.id <= i
<1> DEFINE Good(n) == \A x \in Up(C)[n] : x \in C /\ x.id <= n
           Bad == {n \in Numbers : ~Good(n)}
<1>0. Bad \in SUBSET Nat
  BY MaxAssumption DEF Numbers
<1> SUFFICES ASSUME Bad # {} PROVE FALSE
  OBVIOUS
<1>1. PICK m \in Bad : \A n \in Bad : m <= n
  BY <1>0, LeastNumber
<1>2. m \in Numbers /\ ~Good(m)
  OBVIOUS
<1>3. PICK d \in C : d.id = m
  BY <1>2, UpOf
<1>4. /\ d.parent \in Numbers /\ d.parent < m /\ m \in Nat /\ d.parent \in Nat
      /\ Up(C)[m] = {d} \cup Up(C)[d.parent]
  BY <1>3, UpStep
<1>5. Good(d.parent)
  <2>1. ~ (m <= d.parent)
    BY <1>4
  <2> QED  BY <1>1, <1>4, <2>1
<1>6. \A x \in C : x.id \in Nat
  BY IdOf, MaxAssumption DEF Numbers
<1>7. Good(m)
  BY <1>3, <1>4, <1>5, <1>6
<1> QED  BY <1>2, <1>7

\* A channel that an ancestor has a version of has one still.
LEMMA UpVersions ==
  ASSUME NEW C, Rooted(C), NEW ch,
         \A c, d \in C : c.parent = d.id /\ d.versions[ch] # 0 => c.versions[ch] # 0
  PROVE  \A c \in C : \A x \in Up(C)[c.id] : x.versions[ch] # 0 => c.versions[ch] # 0
<1> DEFINE Good(n) == \A c \in C : c.id = n =>
              \A x \in Up(C)[n] : x.versions[ch] # 0 => c.versions[ch] # 0
           Bad == {n \in Numbers : ~Good(n)}
<1>0. Bad \in SUBSET Nat
  BY MaxAssumption DEF Numbers
<1>1. Bad = {}
  <2> SUFFICES ASSUME Bad # {} PROVE FALSE
    OBVIOUS
  <2>1. PICK m \in Bad : \A n \in Bad : m <= n
    BY <1>0, LeastNumber
  <2>2. m \in Numbers /\ ~Good(m)
    OBVIOUS
  <2>3. PICK c \in C : c.id = m /\ \E x \in Up(C)[m] : x.versions[ch] # 0 /\ c.versions[ch] = 0
    BY <2>2
  <2>4. PICK x \in Up(C)[m] : x.versions[ch] # 0 /\ c.versions[ch] = 0
    BY <2>3
  <2>5. /\ c.parent \in Numbers /\ c.parent < m /\ m \in Nat /\ c.parent \in Nat
        /\ Up(C)[m] = {c} \cup Up(C)[c.parent]
    BY <2>3, UpStep
  <2>6. x \in Up(C)[c.parent]
    BY <2>4, <2>5
  <2>7. PICK d \in C : d.id = c.parent
    BY <2>5, <2>6, UpOf
  <2>8. Good(c.parent)
    <3>1. ~ (m <= c.parent)
      BY <2>5
    <3> QED  BY <2>1, <2>5, <3>1
  <2>9. d.versions[ch] # 0
    BY <2>4, <2>6, <2>7, <2>8
  <2> QED  BY <2>3, <2>4, <2>7, <2>9
<1>2. ASSUME NEW c \in C PROVE Good(c.id)
  BY <1>1, IdOf
<1> QED  BY <1>2

\* If from some checkpoint on all ancestors go, the others are the lineage that stays.
LEMMA UpCut ==
  ASSUME NEW C, Rooted(C), NEW K \in SUBSET C, NEW i \in Numbers,
         \A d, e \in Up(C)[i] : d \notin K /\ e.id < d.id => e \notin K
  PROVE  Up(K)[i] = Up(C)[i] \cap K
<1> DEFINE Cut(n) == \A d, e \in Up(C)[n] : d \notin K /\ e.id < d.id => e \notin K
           Good(n) == Cut(n) => Up(K)[n] = Up(C)[n] \cap K
           Bad == {n \in Numbers : ~Good(n)}
<1>0. Bad \in SUBSET Nat /\ Rooted(K)
  BY MaxAssumption DEF Numbers, Rooted
<1>1. Bad = {}
  <2> SUFFICES ASSUME Bad # {} PROVE FALSE
    OBVIOUS
  <2>1. PICK m \in Bad : \A n \in Bad : m <= n
    BY <1>0, LeastNumber
  <2>2. m \in Numbers /\ Cut(m) /\ Up(K)[m] # Up(C)[m] \cap K
    OBVIOUS
  <2>3. CASE \A d \in C : d.id # m
    <3>1. Up(C)[m] = {} /\ Up(K)[m] = {}
      BY <1>0, <2>2, <2>3, UpOf
    <3> QED  BY <2>2, <3>1
  <2>4. CASE \E d \in C : d.id = m
    <3>1. PICK d \in C : d.id = m
      BY <2>4
    <3>2. /\ d.parent \in Numbers /\ d.parent < m /\ m \in Nat /\ d.parent \in Nat
          /\ Up(C)[m] = {d} \cup Up(C)[d.parent]
      BY <3>1, UpStep
    <3>3. Good(d.parent) /\ Cut(d.parent)
      <4>1. ~ (m <= d.parent)
        BY <3>2
      <4>2. Good(d.parent)
        BY <2>1, <3>2, <4>1
      <4>3. Cut(d.parent)
        BY <2>2, <3>2
      <4> QED  BY <4>2, <4>3
    <3>4. \A x \in Up(C)[d.parent] : x.id < d.id
      <4>1. \A x \in Up(C)[d.parent] : x \in C /\ x.id <= d.parent
        BY <3>2, UpBefore
      <4>2. \A x \in C : x.id \in Nat
        BY IdOf, MaxAssumption DEF Numbers
      <4> QED  BY <3>1, <3>2, <4>1, <4>2
    <3>5. CASE d \in K
      <4>1. Up(K)[m] = {d} \cup Up(K)[d.parent]
        BY <1>0, <3>1, <3>5, UpOf
      <4> QED  BY <2>2, <3>2, <3>3, <3>5, <4>1
    <3>6. CASE d \notin K
      <4>1. \A e \in K : e.id # m
        BY <3>1, <3>6 DEF Rooted
      <4>2. Up(K)[m] = {}
        BY <1>0, <2>2, <4>1, UpOf
      <4>3. d \in Up(C)[m] /\ \A e \in Up(C)[d.parent] : e \notin K
        BY <2>2, <3>2, <3>4, <3>6
      <4> QED  BY <2>2, <3>2, <3>6, <4>2, <4>3
    <3> QED  BY <3>5, <3>6
  <2> QED  BY <2>3, <2>4
<1>2. Good(i)
  BY <1>1
<1> QED  BY <1>2

\* A history that another one mirrors, checkpoint by checkpoint, has the same lineages.
Mirrors(h, C, D) ==
  /\ \A c \in C : h[c] \in D /\ h[c].id = c.id /\ h[c].parent = c.parent
  /\ \A d \in D : \E c \in C : d = h[c]

LEMMA UpMirrored ==
  ASSUME NEW C, NEW D, Rooted(C), Rooted(D), NEW h, Mirrors(h, C, D), NEW i \in Numbers
  PROVE  Up(D)[i] = {h[x] : x \in Up(C)[i]}
<1> DEFINE Good(n) == Up(D)[n] = {h[x] : x \in Up(C)[n]}
           Bad == {n \in Numbers : ~Good(n)}
<1>0. Bad \in SUBSET Nat
  BY MaxAssumption DEF Numbers
<1>1. Bad = {}
  <2> SUFFICES ASSUME Bad # {} PROVE FALSE
    OBVIOUS
  <2>1. PICK m \in Bad : \A n \in Bad : m <= n
    BY <1>0, LeastNumber
  <2>2. m \in Numbers /\ ~Good(m)
    OBVIOUS
  <2>3. CASE \A d \in C : d.id # m
    <3>1. \A d \in D : d.id # m
      BY <2>3 DEF Mirrors
    <3>2. Up(C)[m] = {} /\ Up(D)[m] = {}
      BY <2>2, <2>3, <3>1, UpOf
    <3> QED  BY <2>2, <3>2
  <2>4. CASE \E d \in C : d.id = m
    <3>1. PICK d \in C : d.id = m
      BY <2>4
    <3>2. /\ d.parent \in Numbers /\ d.parent < m /\ m \in Nat /\ d.parent \in Nat
          /\ Up(C)[m] = {d} \cup Up(C)[d.parent]
      BY <3>1, UpStep
    <3>3. Good(d.parent)
      <4>1. ~ (m <= d.parent)
        BY <3>2
      <4> QED  BY <2>1, <3>2, <4>1
    <3>4. Up(D)[m] = {h[d]} \cup Up(D)[d.parent]
      <4>1. h[d] \in D /\ h[d].id = m /\ h[d].parent = d.parent
        BY <3>1 DEF Mirrors
      <4> QED  BY <4>1, UpOf
    <3>5. {h[x] : x \in {d} \cup Up(C)[d.parent]} = {h[d]} \cup {h[x] : x \in Up(C)[d.parent]}
      OBVIOUS
    <3> QED  BY <2>2, <3>2, <3>3, <3>4, <3>5
  <2> QED  BY <2>3, <2>4
<1>2. Good(i)
  BY <1>1
<1> QED  BY <1>2

-----------------------------------------------------------------------------
(* Histories grow                                                            *)

HistoryInv == SaverInv /\ HistoriesGrow

\* What disappears leaves the rest in order.
LEMMA FewerGrow ==
  ASSUME HistoriesGrow, storage' \in SUBSET storage, blobs' \in SUBSET blobs,
         UNCHANGED <<made, writer>>
  PROVE  HistoriesGrow'
BY DEF HistoriesGrow, History

LEMMA LoadGrows ==
  ASSUME HistoryInv, NEW w \in Writers, NEW t \in Used, NEW n \in Namespaces, NEW r \in RunIds,
         Load(w, t, n, r)
  PROVE  HistoriesGrow'
<1>1. PICK base \in {[id |-> 0, versions |-> NoVersions]} \cup History(t, n) :
        writer' = [writer EXCEPT ![w] =
            [pc |-> "busy", thread |-> t, ns |-> n, run |-> r,
             base |-> base.id, versions |-> base.versions]]
  BY DEF Load
<1>2. UNCHANGED <<storage, writes, blobs, made>> /\ TypeOK /\ HistoriesGrow /\ made \in Nat
  BY MaxAssumption DEF Load, data, HistoryInv, SaverInv, TypeOK
<1>3. base.id <= made
  BY <1>2 DEF History, HistoriesGrow
<1>4. ASSUME NEW d \in History(t, n), d.id = base.id PROVE d.versions = base.versions
  <2>1. d \in storage /\ d \in Checkpoint /\ d.id # 0 /\ d.thread = t /\ d.ns = n
    BY <1>2 DEF History, TypeOK, Checkpoint, Ids
  <2>2. base \in History(t, n)
    BY <1>4, <2>1
  <2>3. base \in storage /\ SameKey(d, base)
    BY <1>4, <2>1, <2>2 DEF History, SameKey
  <2>4. d = base
    BY <1>2, <2>1, <2>3 DEF TypeOK
  <2> QED  BY <2>4
<1> DEFINE busy == [pc |-> "busy", thread |-> t, ns |-> n, run |-> r,
                    base |-> base.id, versions |-> base.versions]
<1>5. /\ busy.thread = t /\ busy.ns = n /\ busy.base = base.id /\ busy.versions = base.versions
  OBVIOUS
<1>6. writer' = [writer EXCEPT ![w] = busy]
  BY <1>1
<1> HIDE DEF busy
<1>7. \A v \in Writers : IF v = w THEN writer'[v] = busy ELSE writer'[v] = writer[v]
  BY <1>2, <1>6 DEF TypeOK
<1>8. ASSUME NEW v \in Writers, writer'[v] # Away
      PROVE  /\ writer'[v].base <= made'
             /\ \A d \in storage' :
                  d.thread = writer'[v].thread /\ d.ns = writer'[v].ns /\ d.id = writer'[v].base
                    => d.versions = writer'[v].versions
  <2>1. CASE v = w
    BY <1>2, <1>3, <1>4, <1>5, <1>7, <2>1 DEF History
  <2>2. CASE v # w
    BY <1>2, <1>7, <1>8, <2>2 DEF History, HistoriesGrow
  <2> QED  BY <2>1, <2>2
<1> QED  BY <1>2, <1>8 DEF HistoriesGrow, History

LEMMA PutGrows == ASSUME HistoryInv, NEW w \in Writers, Put(w) PROVE HistoriesGrow'
<1>0. SaverInv /\ TypeOK /\ HistoriesGrow
  BY DEF HistoryInv, SaverInv
<1>1. /\ writer[w] # Away /\ made' = made + 1 /\ made \in Nat
  BY <1>0, PutDoes
<1>2. PICK c \in Checkpoint, new \in SUBSET Blob :
        /\ c.thread = writer[w].thread /\ c.ns = writer[w].ns /\ c.id = made + 1
        /\ c.parent = writer[w].base
        /\ \A ch \in Channels : c.versions[ch] = writer[w].versions[ch] \/ c.versions[ch] = made + 1
        /\ \A x \in new : x.thread = c.thread /\ x.ns = c.ns /\ x.version = c.id
        /\ Store(c, new)
        /\ writer' = [writer EXCEPT ![w].base = c.id, ![w].versions = c.versions]
  BY <1>0, PutDoes
<1>3. /\ storage' \in SUBSET (storage \cup {c}) /\ c \in storage'
      /\ blobs' \in SUBSET (blobs \cup new)
  BY <1>2 DEF Store
<1>4. \A d \in storage : d.id \in Nat /\ d.parent \in Nat /\ d.id <= made /\ d.parent <= made
  BY <1>0, <1>1, MaxAssumption DEF TypeOK, Checkpoint, Ids, HistoriesGrow
<1>5. writer[w].base \in Nat /\ writer[w].base <= made
  BY <1>0, <1>1, BusyWriter, MaxAssumption DEF HistoriesGrow
<1>6. \A d \in storage' : d.parent < d.id /\ d.id <= made'
  BY <1>0, <1>1, <1>2, <1>3, <1>4, <1>5 DEF HistoriesGrow
<1>7. \A b \in blobs' : b.version <= made'
  <2>1. \A b \in blobs : b.version \in Nat /\ b.version <= made
    BY <1>0, MaxAssumption DEF TypeOK, Blob, Ids, HistoriesGrow
  <2>2. \A b \in new : b.version = made + 1
    BY <1>2
  <2> QED  BY <1>1, <1>3, <2>1, <2>2
<1>8. ASSUME NEW e \in storage', NEW d \in storage', e.thread = d.thread, e.ns = d.ns,
             e.parent = d.id, NEW ch \in Channels, d.versions[ch] # 0
      PROVE  e.versions[ch] # 0
  <2>1. CASE e \in storage /\ d \in storage
    BY <1>0, <1>8, <2>1 DEF HistoriesGrow
  <2>2. CASE d = c
    <3>1. ~ (e.parent = made + 1)
      BY <1>1, <1>2, <1>3, <1>4, <1>5
    <3> QED  BY <1>2, <1>8, <2>2, <3>1
  <2>3. CASE e = c /\ d \in storage
    <3>1. d \in History(writer[w].thread, writer[w].ns) /\ d.id = writer[w].base
      BY <1>2, <1>8, <2>3 DEF History
    <3>2. d.versions = writer[w].versions
      BY <1>0, <1>1, <3>1 DEF HistoriesGrow
    <3>3. made + 1 # 0
      BY <1>1
    <3> QED  BY <1>2, <1>8, <2>3, <3>2, <3>3
  <2> QED  BY <1>3, <2>1, <2>2, <2>3
<1>9. ASSUME NEW v \in Writers, writer'[v] # Away
      PROVE  /\ writer'[v].base <= made'
             /\ \A d \in storage' :
                  d.thread = writer'[v].thread /\ d.ns = writer'[v].ns /\ d.id = writer'[v].base
                    => d.versions = writer'[v].versions
  <2>1. CASE v = w
    <3>1. writer[w] \in Busy
      BY <1>0, <1>1, BusyWriter
    <3>2. writer'[w] = [[writer[w] EXCEPT !.base = c.id] EXCEPT !.versions = c.versions]
      BY <1>0, <1>2 DEF TypeOK
    <3>3. /\ writer'[w].thread = writer[w].thread /\ writer'[w].ns = writer[w].ns
          /\ writer'[w].base = c.id /\ writer'[w].versions = c.versions
      BY <3>1, <3>2 DEF Busy
    <3>4. \A d \in storage : d.id # c.id
      BY <1>1, <1>2, <1>4
    <3>5. c.id <= made' /\ \A d \in storage' : d.id = c.id => d = c
      BY <1>1, <1>2, <1>3, <3>4
    <3> QED  BY <2>1, <3>3, <3>5
  <2>2. CASE v # w
    <3>1. writer'[v] = writer[v]
      BY <1>0, <1>2, <2>2 DEF TypeOK
    <3>2. writer[v].base \in Nat /\ writer[v].base <= made
      BY <1>0, <1>9, <3>1, BusyWriter, MaxAssumption DEF HistoriesGrow
    <3>3. c.id # writer[v].base
      BY <1>1, <1>2, <3>2
    <3>4. \A d \in History(writer[v].thread, writer[v].ns) :
            d.id = writer[v].base => d.versions = writer[v].versions
      BY <1>0, <1>9, <3>1 DEF HistoriesGrow
    <3> QED  BY <1>1, <1>3, <3>1, <3>2, <3>3, <3>4 DEF History
  <2> QED  BY <2>1, <2>2
<1> QED  BY <1>6, <1>7, <1>8, <1>9 DEF HistoriesGrow, History

LEMMA PutAgainGrows == ASSUME HistoryInv, NEW w \in Writers, PutAgain(w) PROVE HistoriesGrow'
<1>0. SaverInv /\ TypeOK /\ HistoriesGrow
  BY DEF HistoryInv, SaverInv
<1>1. PICK c \in storage, d \in Checkpoint, new \in SUBSET Blob, size \in NewSizes :
        /\ d = [c EXCEPT !.size = size]
        /\ new = {[b EXCEPT !.size = size] : b \in {x \in blobs :
                    x.thread = c.thread /\ x.ns = c.ns /\ x.version = c.id}}
        /\ Store(d, new)
  BY <1>0, PutAgainDoes
<1>2. UNCHANGED <<made, writer>>
  BY <1>0, PutAgainDoes
<1>3. /\ d.thread = c.thread /\ d.ns = c.ns /\ d.id = c.id /\ d.parent = c.parent
      /\ d.versions = c.versions
  BY <1>0, <1>1 DEF TypeOK, Checkpoint
<1>4. storage' \in SUBSET (storage \cup {d}) /\ blobs' \in SUBSET (blobs \cup new)
  BY <1>1 DEF Store
<1>5. \A x \in storage' : \E y \in storage :
        /\ x.thread = y.thread /\ x.ns = y.ns /\ x.id = y.id /\ x.parent = y.parent
        /\ x.versions = y.versions
  BY <1>3, <1>4
<1>6. \A x \in blobs' : \E y \in blobs : x.version = y.version
  <2>1. \A b \in blobs : [b EXCEPT !.size = size].version = b.version
    BY <1>0 DEF TypeOK, Blob
  <2>2. \A x \in new : \E y \in blobs : x.version = y.version
    BY <1>1, <2>1
  <2> QED  BY <1>4, <2>2
<1> QED  BY <1>0, <1>2, <1>5, <1>6 DEF HistoriesGrow, History

LEMMA CopyGrows ==
  ASSUME HistoryInv, NEW s \in Threads, NEW t \in Threads, Copy(s, t)
  PROVE  HistoriesGrow'
<1>0. TypeOK /\ HistoriesGrow
  BY DEF HistoryInv, SaverInv
<1>1. /\ storage' = storage \cup Moved(storage, s, t) /\ blobs' = blobs \cup Moved(blobs, s, t)
      /\ UNCHANGED <<made, writer>> /\ Of(storage, t) = {}
      /\ \A w \in Writers : writer[w] # Away => writer[w].thread # t
  BY DEF Copy, MovedBlobs, Unused
<1>2. \A x \in Moved(storage, s, t) : \E y \in storage :
        /\ x.thread = t /\ y.thread = s /\ x.ns = y.ns /\ x.id = y.id /\ x.parent = y.parent
        /\ x.versions = y.versions
  BY <1>0 DEF Moved, Of, TypeOK, Checkpoint
<1>3. \A x \in Moved(blobs, s, t) : \E y \in blobs : x.version = y.version
  BY <1>0 DEF Moved, Of, TypeOK, Blob
<1>4. \A y \in storage : y.thread # t
  BY <1>1 DEF Of
<1>5. \A x \in storage' : x.parent < x.id /\ x.id <= made
  BY <1>0, <1>1, <1>2 DEF HistoriesGrow
<1>6. ASSUME NEW e \in storage', NEW d \in storage', e.thread = d.thread, e.ns = d.ns,
             e.parent = d.id, NEW ch \in Channels, d.versions[ch] # 0
      PROVE  e.versions[ch] # 0
  <2>1. CASE e \in storage /\ d \in storage
    BY <1>0, <1>6, <2>1 DEF HistoriesGrow
  <2>2. CASE e \in Moved(storage, s, t) /\ d \in Moved(storage, s, t)
    BY <1>0, <1>2, <1>6, <2>2 DEF HistoriesGrow
  <2> QED  BY <1>1, <1>2, <1>4, <1>6, <2>1, <2>2
<1>7. ASSUME NEW w \in Writers, writer[w] # Away
      PROVE  History(writer[w].thread, writer[w].ns)' = History(writer[w].thread, writer[w].ns)
  BY <1>1, <1>2, <1>7 DEF History
<1> QED  BY <1>0, <1>1, <1>3, <1>5, <1>6, <1>7 DEF HistoriesGrow

LEMMA InitGrows == Init => HistoriesGrow
BY DEF Init, HistoriesGrow

LEMMA HistoryStep == HistoryInv /\ [Next]_vars => HistoryInv'
<1> SUFFICES ASSUME HistoryInv, [Next]_vars PROVE HistoriesGrow'
  BY SaverStep DEF HistoryInv
<1>0. HistoriesGrow
  BY DEF HistoryInv
<1>1. ASSUME NEW w \in Writers, Put(w) \/ PutAgain(w) \/ PutWrites(w) PROVE HistoriesGrow'
  <2>1. CASE Put(w) \/ PutAgain(w)
    BY <2>1, PutGrows, PutAgainGrows
  <2>2. CASE PutWrites(w)
    BY <1>0, <2>2, FewerGrow DEF PutWrites
  <2> QED  BY <1>1, <2>1, <2>2
<1>2. ASSUME NEW w \in Writers, NEW t \in Used, NEW n \in Namespaces, NEW r \in RunIds,
             Load(w, t, n, r)
      PROVE  HistoriesGrow'
  BY <1>2, LoadGrows
<1>3. ASSUME NEW t \in Threads, Prune(t) PROVE HistoriesGrow'
  <2>1. storage' \in SUBSET storage /\ blobs' \in SUBSET blobs /\ UNCHANGED <<made, writer>>
    BY <1>3 DEF Prune
  <2> QED  BY <1>0, <2>1, FewerGrow
<1>4. ASSUME NEW t \in Threads, DeleteThread(t) \/ \E r \in RunIds : DeleteRun(t, r)
      PROVE  HistoriesGrow'
  <2>1. storage' \in SUBSET storage /\ blobs' \in SUBSET blobs /\ UNCHANGED <<made, writer>>
    BY <1>4 DEF DeleteThread, DeleteRun
  <2> QED  BY <1>0, <2>1, FewerGrow
<1>5. ASSUME NEW s \in Threads, NEW t \in Threads, Copy(s, t) PROVE HistoriesGrow'
  BY <1>5, CopyGrows
<1>6. CASE Clear
  <2>1. storage' \in SUBSET storage /\ blobs' \in SUBSET blobs /\ UNCHANGED <<made, writer>>
    BY <1>6 DEF Clear
  <2> QED  BY <1>0, <2>1, FewerGrow
<1>7. CASE Restart
  BY <1>0, <1>7 DEF Restart, data, HistoriesGrow
<1>8. CASE UNCHANGED vars
  BY <1>0, <1>8, FewerGrow DEF vars, data
<1> QED  BY <1>1, <1>2, <1>3, <1>4, <1>5, <1>6, <1>7, <1>8 DEF Next

LEMMA HistoryInvariant == Spec => []HistoryInv
<1>1. Init => HistoryInv
  BY InitSaver, InitGrows DEF HistoryInv
<1> QED  BY <1>1, HistoryStep, PTL DEF Spec

\* Along every history checkpoints come after their parents and keep a version of every
\* channel, and a writer goes on from what is stored, whatever is pruned, deleted, copied
\* or put again meanwhile (InMemorySaver.put, delete_thread, prune, copy_thread).
THEOREM HistoriesOnlyGrow == Spec => []HistoriesGrow
<1>1. HistoryInv => HistoriesGrow
  BY DEF HistoryInv
<1> QED  BY <1>1, HistoryInvariant, PTL

-----------------------------------------------------------------------------
(* The state of a thread, of given dictionaries                              *)

Hist(S, t, n) == {c \in S : c.thread = t /\ c.ns = n}
Has(B, c, ch) == \E b \in B : b.channel = ch /\ IsValueAt(b, c)
FullOf(B, L, ch) == {d \in L : Has(B, d, ch)}
From(B, L, ch) == IF FullOf(B, L, ch) = {} THEN 0 ELSE Newest(FullOf(B, L, ch)).id
ValueOf(B, L, ch) ==
  {[version |-> b.version, size |-> b.size] :
     b \in {x \in B : x.channel = ch /\ \E d \in FullOf(B, L, ch) :
                        d.id = From(B, L, ch) /\ IsValueAt(x, d)}}
LogOf(W, B, L, c, ch) ==
  {[id |-> g.id, size |-> g.size] : g \in {h \in W :
     /\ c.versions[ch] # 0 /\ h.thread = c.thread /\ h.ns = c.ns /\ h.id < c.id
     /\ \E d \in L : d.id = h.id /\ d.id >= From(B, L, ch)}}
RebuiltOf(W, B, L, c, ch) == [value |-> ValueOf(B, L, ch), log |-> LogOf(W, B, L, c, ch)]
StateOf(S, W, B, t, n) ==
  LET C == Hist(S, t, n)
      x == Newest(C)
  IN IF C = {} THEN [id |-> 0]
     ELSE [id |-> x.id,
           channels |-> [ch \in Channels |-> RebuiltOf(W, B, Up(C)[x.id], x, ch)],
           pending |-> {g.size : g \in {h \in Of(W, t) : h.ns = n /\ h.id = x.id}}]
WholeOf(S, B, t, n) ==
  LET C == Hist(S, t, n)
      x == Newest(C)
  IN C # {} => \A ch \in Channels : \E d \in Up(C)[x.id] :
       Has(B, d, ch) \/ d.versions[ch] = 0 \/ d.parent = 0

LEMMA StateIs ==
  ASSUME NEW t, NEW n
  PROVE  /\ State(t, n) = StateOf(storage, writes, blobs, t, n)
         /\ State(t, n)' = StateOf(storage', writes', blobs', t, n)
BY ZenonT(30) DEF State, StateOf, Rebuilt, RebuiltOf, ValueOf, LogOf, FullOf, From, Has, Materialized,
  History, Hist, Lineage, Up, Above, Numbers, Of

LEMMA WholeIs ==
  ASSUME NEW t, NEW n
  PROVE  /\ Whole(t, n) <=> WholeOf(storage, blobs, t, n)
         /\ Whole(t, n)' <=> WholeOf(storage', blobs', t, n)
BY ZenonT(30) DEF Whole, WholeOf, Materialized, Has, History, Hist, Lineage, Up, Above, Numbers

\* The newest checkpoint.
LEMMA NewestOf ==
  ASSUME NEW C \in SUBSET Checkpoint, C # {}
  PROVE  /\ Newest(C) \in C /\ \A d \in C : d.id <= Newest(C).id
         /\ \A x \in C : (\A d \in C : d.id <= x.id) => x.id = Newest(C).id
<1> DEFINE R == {MaxIds - c.id : c \in C}
<1>1. \A c \in C : c.id \in Nat /\ c.id <= MaxIds /\ MaxIds \in Nat
  BY MaxAssumption DEF Checkpoint, Ids
<1>2. R \in SUBSET Nat /\ R # {}
  BY <1>1
<1>3. PICK m \in R : \A y \in R : m <= y
  BY <1>2, LeastNumber
<1>4. PICK c \in C : m = MaxIds - c.id
  BY <1>3
<1>5. \A d \in C : d.id <= c.id
  <2> TAKE d \in C
  <2>1. MaxIds - d.id \in R
    OBVIOUS
  <2>2. MaxIds - c.id <= MaxIds - d.id
    BY <1>3, <1>4, <2>1
  <2> QED  BY <1>1, <2>2
<1>6. Newest(C) \in C /\ \A d \in C : d.id <= Newest(C).id
  BY <1>5 DEF Newest
<1> QED  BY <1>1, <1>6

LEMMA RootedHistory ==
  ASSUME NEW t, NEW n, TypeOK, HistoriesGrow
  PROVE  /\ Rooted(Hist(storage, t, n))
         /\ \A c, d \in Hist(storage, t, n) : c.parent = d.id =>
              \A ch \in Channels : d.versions[ch] # 0 => c.versions[ch] # 0
<1>1. \A c \in Hist(storage, t, n) : c \in storage /\ c.thread = t /\ c.ns = n
  BY DEF Hist
<1>2. \A c, d \in Hist(storage, t, n) : c.id = d.id => c = d
  BY <1>1 DEF TypeOK, SameKey
<1> QED  BY <1>1, <1>2 DEF Rooted, TypeOK, HistoriesGrow

-----------------------------------------------------------------------------
(* Pruning                                                                   *)

\* The newest checkpoint and what is above it.
LEMMA LineOf ==
  ASSUME NEW C, Rooted(C), C # {}, NEW x, x = Newest(C), NEW L, L = Up(C)[x.id]
  PROVE  /\ x \in C /\ x \in L /\ L \in SUBSET C /\ x.id \in Numbers
         /\ \A d \in L : d.id \in Nat /\ d.id <= x.id /\ (d # x => d.id < x.id)
<1>1. C \in SUBSET Checkpoint
  BY DEF Rooted
<1>2. x \in C
  BY <1>1, NewestOf
<1>3. x.id \in Numbers /\ x \in L
  BY <1>2, IdOf, UpOf
<1>4. L \in SUBSET C /\ \A d \in L : d.id <= x.id
  BY <1>3, UpBefore
<1>5. \A d \in L : d.id \in Nat /\ (d # x => d.id # x.id)
  BY <1>2, <1>4, IdOf, MaxAssumption DEF Rooted, Numbers
<1> QED  BY <1>2, <1>3, <1>4, <1>5, MaxAssumption DEF Numbers

LEMMA KeptIs ==
  ASSUME NEW C, Rooted(C), C # {}, NEW x, x = Newest(C), NEW L, L = Up(C)[x.id]
  PROVE  \A d : d \in Kept(C) <=>
           \/ d = x
           \/ /\ d \in L
              /\ \E ch \in Channels : /\ x.versions[ch] # 0 /\ ~Has(blobs, x, ch)
                                      /\ \A e \in L : e # x /\ e.id > d.id => ~Has(blobs, e, ch)
<1>1. Lineage(C, x) = L
  BY LineageIsUp
<1>2. Kept(C) = {x} \cup {d \in L \ {x} : \E ch \in Needed(x) :
         \A e \in L \ {x} : e.id > d.id => ~Materialized(e, ch)}
  BY <1>1, Zenon DEF Kept
<1>3. \A d, ch : Materialized(d, ch) <=> Has(blobs, d, ch)
  BY DEF Materialized, Has
<1>4. \A ch : ch \in Needed(x) <=> ch \in Channels /\ x.versions[ch] # 0 /\ ~Has(blobs, x, ch)
  BY <1>3 DEF Needed
<1> QED  BY <1>2, <1>3, <1>4

\* What pruning keeps of a history is its newest checkpoint with the nearest ancestors,
\* and these are all the ancestors it has then.
LEMMA KeptLine ==
  ASSUME NEW C, Rooted(C), C # {}, NEW x, x = Newest(C), NEW L, L = Up(C)[x.id],
         NEW K, K = Kept(C)
  PROVE  /\ x \in K /\ K \in SUBSET L /\ Rooted(K)
         /\ Newest(K) = x /\ Up(K)[x.id] = K
         /\ \A ch \in Channels : x.versions[ch] # 0 /\ ~Has(blobs, x, ch) =>
              \A d \in L : (\A e \in L : e # x /\ e.id > d.id => ~Has(blobs, e, ch)) => d \in K
<1>1. /\ x \in C /\ x \in L /\ L \in SUBSET C /\ x.id \in Numbers
      /\ \A d \in L : d.id \in Nat /\ d.id <= x.id /\ (d # x => d.id < x.id)
  BY LineOf
<1>2. \A d : d \in K <=>
           \/ d = x
           \/ /\ d \in L
              /\ \E ch \in Channels : /\ x.versions[ch] # 0 /\ ~Has(blobs, x, ch)
                                      /\ \A e \in L : e # x /\ e.id > d.id => ~Has(blobs, e, ch)
  BY KeptIs
<1>3. x \in K /\ K \in SUBSET L
  BY <1>1, <1>2
<1>4. Rooted(K)
  BY <1>1, <1>3 DEF Rooted
<1>5. Newest(K) = x
  <2>1. K \in SUBSET Checkpoint /\ K # {} /\ \A d \in K : d.id <= x.id
    BY <1>1, <1>3 DEF Rooted
  <2>2. Newest(K) \in K /\ x.id = Newest(K).id
    BY <1>3, <2>1, NewestOf
  <2> QED  BY <1>3, <1>4, <2>2 DEF Rooted
<1>6. Up(K)[x.id] = K
  <2>1. ASSUME NEW d \in L, NEW e \in L, d \notin K, e.id < d.id PROVE e \notin K
    <3>1. d.id \in Nat /\ e.id \in Nat /\ d # x /\ e.id < x.id
      BY <1>1, <1>3, <2>1
    <3>2. SUFFICES ASSUME NEW ch \in Channels, x.versions[ch] # 0, ~Has(blobs, x, ch)
                   PROVE  \E g \in L : g # x /\ g.id > e.id /\ Has(blobs, g, ch)
      BY <1>1, <1>2, <3>1
    <3>3. PICK g \in L : g # x /\ g.id > d.id /\ Has(blobs, g, ch)
      BY <1>2, <2>1, <3>2
    <3>4. g.id \in Nat
      BY <1>1
    <3> QED  BY <2>1, <3>1, <3>3, <3>4
  <2>2. Up(K)[x.id] = L \cap K
    <3>1. K \in SUBSET C
      BY <1>1, <1>3
    <3> QED  BY <1>1, <2>1, <3>1, UpCut
  <2> QED  BY <1>3, <2>2
<1> QED  BY <1>2, <1>3, <1>4, <1>5, <1>6

\* A channel is rebuilt from what pruning keeps as it was from the whole history.
LEMMA RebuiltFromKept ==
  ASSUME NEW C, Rooted(C), C # {}, NEW x, x = Newest(C), NEW L, L = Up(C)[x.id],
         NEW K, K = Kept(C), NEW ch \in Channels,
         \A d \in L : d.versions[ch] # 0 => x.versions[ch] # 0,
         blobs \in SUBSET Blob, writes \in SUBSET WriteGroup,
         NEW W \in SUBSET writes, NEW B \in SUBSET blobs,
         \A b \in blobs, d \in K : IsValueAt(b, d) => b \in B,
         \A g \in writes, d \in K : g.thread = x.thread /\ g.ns = x.ns /\ g.id = d.id => g \in W
  PROVE  RebuiltOf(W, B, K, x, ch) = RebuiltOf(writes, blobs, L, x, ch)
<1>1. /\ x \in C /\ x \in L /\ L \in SUBSET C
      /\ \A d \in L : d.id \in Nat /\ d.id <= x.id /\ (d # x => d.id < x.id)
  BY LineOf
<1>2. /\ x \in K /\ K \in SUBSET L
      /\ x.versions[ch] # 0 /\ ~Has(blobs, x, ch) =>
           \A d \in L : (\A e \in L : e # x /\ e.id > d.id => ~Has(blobs, e, ch)) => d \in K
  BY KeptLine
<1>3. \A d \in K : Has(B, d, ch) <=> Has(blobs, d, ch)
  BY DEF Has
<1> DEFINE F == FullOf(blobs, L, ch)
           G == FullOf(B, K, ch)
<1>4. F \in SUBSET L /\ G = F \cap K /\ F \in SUBSET Checkpoint
  BY <1>1, <1>2, <1>3 DEF FullOf, Rooted
<1>5. CASE x.versions[ch] = 0
  <2>1. F = {}
    <3>1. \A d \in L : d.versions[ch] = 0
      BY <1>5
    <3>2. \A b \in blobs : b.version # 0
      BY DEF Blob, Ids
    <3> QED  BY <3>1, <3>2 DEF FullOf, Has, IsValueAt
  <2>2. G = {}
    BY <1>4, <2>1
  <2>3. ValueOf(B, K, ch) = {} /\ ValueOf(blobs, L, ch) = {}
    BY <2>1, <2>2 DEF ValueOf
  <2>4. LogOf(W, B, K, x, ch) = {} /\ LogOf(writes, blobs, L, x, ch) = {}
    BY <1>5 DEF LogOf
  <2> QED  BY <2>3, <2>4 DEF RebuiltOf
<1>6. CASE x.versions[ch] # 0
  <2> DEFINE m == From(blobs, L, ch)
  <2>1. From(B, K, ch) = m /\ \A d \in L : d.id >= m => d \in K
    <3>1. CASE Has(blobs, x, ch)
      <4>1. x \in F /\ x \in G
        BY <1>1, <1>2, <1>4, <3>1 DEF FullOf
      <4>2. x.id = Newest(F).id /\ x.id = Newest(G).id
        <5>1. F # {} /\ \A d \in F : d.id <= x.id
          BY <1>1, <1>4, <4>1
        <5>2. G \in SUBSET Checkpoint /\ G # {} /\ \A d \in G : d.id <= x.id
          BY <1>4, <4>1, <5>1
        <5>3. x.id = Newest(F).id
          BY <1>4, <4>1, <5>1, NewestOf
        <5> HIDE DEF F, G
        <5>4. x.id = Newest(G).id
          BY <4>1, <5>2, NewestOf
        <5> QED  BY <5>3, <5>4
      <4>3. m = x.id /\ From(B, K, ch) = x.id
        BY <4>1, <4>2 DEF From
      <4> QED  BY <1>1, <1>2, <4>3
    <3>2. CASE ~Has(blobs, x, ch) /\ F = {}
      <4>1. m = 0 /\ From(B, K, ch) = 0
        BY <1>4, <3>2 DEF From
      <4>2. \A e \in L : ~Has(blobs, e, ch)
        BY <3>2 DEF FullOf
      <4> QED  BY <1>2, <1>6, <3>2, <4>1, <4>2
    <3>3. CASE ~Has(blobs, x, ch) /\ F # {}
      <4>1. Newest(F) \in F /\ \A d \in F : d.id <= Newest(F).id
        BY <1>4, <3>3, NewestOf
      <4>2. m = Newest(F).id
        BY <3>3 DEF From
      <4>3. ASSUME NEW d \in L, d.id >= m PROVE d \in K
        <5>1. d.id \in Nat /\ m \in Nat
          BY <1>1, <1>4, <4>1, <4>2
        <5>2. ASSUME NEW e \in L, e.id > d.id PROVE ~Has(blobs, e, ch)
          <6>1. ~ (e.id <= m) /\ e.id \in Nat
            BY <1>1, <4>3, <5>1, <5>2
          <6>2. e \notin F
            BY <4>1, <4>2, <6>1
          <6> QED  BY <6>2 DEF FullOf
        <5> QED  BY <1>2, <1>6, <3>3, <5>2
      <4>4. Newest(F) \in G
        <5>1. Newest(F).id >= m /\ Newest(F) \in L
          BY <1>1, <1>4, <4>1, <4>2
        <5> QED  BY <1>4, <4>1, <4>3, <5>1
      <4>5. Newest(F).id = Newest(G).id
        <5>1. G \in SUBSET Checkpoint /\ G # {} /\ \A d \in G : d.id <= Newest(F).id
          BY <1>4, <4>1, <4>4
        <5> HIDE DEF F, G
        <5> QED  BY <4>4, <5>1, NewestOf
      <4>6. From(B, K, ch) = m
        BY <4>2, <4>4, <4>5 DEF From
      <4> QED  BY <4>3, <4>6
    <3> QED  BY <3>1, <3>2, <3>3
  <2> HIDE DEF m, F, G
  <2>2. {b \in B : b.channel = ch /\ \E d \in G : d.id = m /\ IsValueAt(b, d)}
          = {b \in blobs : b.channel = ch /\ \E d \in F : d.id = m /\ IsValueAt(b, d)}
    <3>1. \A d \in F : d.id = m => d \in G /\ d \in K
      BY <1>1, <1>4, <2>1
    <3>2. \A d \in G : d \in F
      BY <1>4
    <3> QED  BY <3>1, <3>2
  <2>3. ValueOf(B, K, ch) = ValueOf(blobs, L, ch)
    BY <2>1, <2>2 DEF ValueOf, m, F, G
  <2>4. {h \in W : /\ x.versions[ch] # 0 /\ h.thread = x.thread /\ h.ns = x.ns /\ h.id < x.id
                   /\ \E d \in K : d.id = h.id /\ d.id >= m}
          = {h \in writes : /\ x.versions[ch] # 0 /\ h.thread = x.thread /\ h.ns = x.ns /\ h.id < x.id
                            /\ \E d \in L : d.id = h.id /\ d.id >= m}
    BY <1>2, <2>1
  <2>5. LogOf(W, B, K, x, ch) = LogOf(writes, blobs, L, x, ch)
    BY <2>1, <2>4 DEF LogOf, m
  <2> QED  BY <2>3, <2>5 DEF RebuiltOf
<1> QED  BY <1>5, <1>6

-----------------------------------------------------------------------------
(* Histories that mirror each other                                          *)

LEMMA RootedMirror ==
  ASSUME NEW C, Rooted(C), NEW D \in SUBSET Checkpoint, NEW h, Mirrors(h, C, D)
  PROVE  Rooted(D)
<1>1. ASSUME NEW c \in D, NEW d \in D, c.id = d.id PROVE c = d
  <2>1. PICK x \in C : c = h[x] /\ c.id = x.id
    BY DEF Mirrors
  <2>2. PICK y \in C : d = h[y] /\ d.id = y.id
    BY DEF Mirrors
  <2>3. x = y
    BY <1>1, <2>1, <2>2 DEF Rooted
  <2> QED  BY <2>1, <2>2, <2>3
<1>2. \A d \in D : d.parent < d.id
  BY DEF Mirrors, Rooted
<1> QED  BY <1>1, <1>2 DEF Rooted

LEMMA NewestMirrored ==
  ASSUME NEW C, NEW D, C \in SUBSET Checkpoint, D \in SUBSET Checkpoint, C # {},
         NEW h, \A c \in C : h[c] \in D /\ h[c].id = c.id, \A d \in D : \E c \in C : d = h[c]
  PROVE  D # {} /\ Newest(D).id = Newest(C).id
<1>1. Newest(C) \in C /\ \A c \in C : c.id <= Newest(C).id
  BY NewestOf
<1>2. h[Newest(C)] \in D /\ h[Newest(C)].id = Newest(C).id /\ \A d \in D : d.id <= Newest(C).id
  BY <1>1
<1> QED  BY <1>2, NewestOf

\* A state stays whole if the values of its checkpoints are still there.
LEMMA WholeMirrored ==
  ASSUME NEW S, NEW B, NEW s, NEW R, NEW V, NEW t, NEW n,
         Rooted(Hist(S, s, n)), Rooted(Hist(R, t, n)), NEW h, Mirrors(h, Hist(S, s, n), Hist(R, t, n)),
         \A c \in Hist(S, s, n) : /\ h[c].versions = c.versions
                                  /\ \A ch \in Channels : Has(B, c, ch) => Has(V, h[c], ch),
         WholeOf(S, B, s, n)
  PROVE  WholeOf(R, V, t, n)
<1> DEFINE C == Hist(S, s, n)
           D == Hist(R, t, n)
<1> SUFFICES ASSUME D # {}, NEW ch \in Channels
             PROVE  \E d \in Up(D)[Newest(D).id] :
                      Has(V, d, ch) \/ d.versions[ch] = 0 \/ d.parent = 0
  BY DEF WholeOf
<1>1. C # {} /\ C \in SUBSET Checkpoint /\ D \in SUBSET Checkpoint
  BY DEF Mirrors, Rooted
<1>2. Newest(D).id = Newest(C).id
  <2>1. /\ \A c \in C : h[c] \in D /\ h[c].id = c.id
        /\ \A d \in D : \E c \in C : d = h[c]
    BY DEF Mirrors
  <2> HIDE DEF C, D
  <2> QED  BY <1>1, <2>1, NewestMirrored
<1>3. Newest(C).id \in Numbers
  BY <1>1, NewestOf, IdOf
<1>4. PICK d \in Up(C)[Newest(C).id] : Has(B, d, ch) \/ d.versions[ch] = 0 \/ d.parent = 0
  BY <1>1 DEF WholeOf
<1>5. d \in C
  BY <1>3, UpBefore
<1>6. h[d] \in Up(D)[Newest(D).id]
  BY <1>2, <1>3, UpMirrored
<1>7. Has(V, h[d], ch) \/ h[d].versions[ch] = 0 \/ h[d].parent = 0
  BY <1>4, <1>5 DEF Mirrors
<1> QED  BY <1>6, <1>7

-----------------------------------------------------------------------------
(* Copies.  A thread that an operation leaves alone is a copy of itself.     *)

Copied(S, s, R, t) == Of(R, t) = Moved(S, s, t)

LEMMA SameThread ==
  ASSUME NEW t, NEW S, NEW R, Of(R, t) = Of(S, t),
         S \in SUBSET Checkpoint \/ S \in SUBSET WriteGroup \/ S \in SUBSET Blob
  PROVE  Copied(S, t, R, t)
<1>1. \A x \in Of(S, t) : [x EXCEPT !.thread = t] = x
  BY DEF Of, Checkpoint, WriteGroup, Blob
<1> QED  BY <1>1 DEF Copied, Moved

\* Where a copy has the checkpoints of the original.
Mover(S, s, t, n) == [c \in Hist(S, s, n) |-> [c EXCEPT !.thread = t]]

\* The checkpoints of a copy mirror those of the original, and find the same values.
LEMMA CopyMirrors ==
  ASSUME NEW s \in Threads, NEW t \in Threads, NEW n, NEW S \in SUBSET Checkpoint, NEW B \in SUBSET Blob,
         NEW R, NEW V, Copied(S, s, R, t), Copied(B, s, V, t),
         Rooted(Hist(S, s, n)), NEW h, h = Mover(S, s, t, n)
  PROVE  /\ Mirrors(h, Hist(S, s, n), Hist(R, t, n)) /\ Rooted(Hist(R, t, n))
         /\ \A c \in Hist(S, s, n) :
              /\ h[c].versions = c.versions /\ h[c].thread = t /\ h[c].ns = n
              /\ \A b \in Of(B, s) : IsValueAt([b EXCEPT !.thread = t], h[c]) <=> IsValueAt(b, c)
              /\ \A ch : Has(V, h[c], ch) <=> Has(B, c, ch)
<1> DEFINE C == Hist(S, s, n)
           D == Hist(R, t, n)
<1>1. \A c \in C : c \in S /\ c \in Checkpoint /\ c.thread = s /\ c.ns = n
  BY DEF Hist
<1>2. \A c \in C : /\ h[c] = [c EXCEPT !.thread = t] /\ h[c] \in Checkpoint
                   /\ h[c].id = c.id /\ h[c].parent = c.parent /\ h[c].versions = c.versions
                   /\ h[c].thread = t /\ h[c].ns = n
  BY <1>1 DEF Checkpoint, Mover
<1>3. \A c \in C : h[c] \in D
  BY <1>1, <1>2 DEF Copied, Moved, Of, Hist
<1>4. ASSUME NEW d \in D PROVE \E c \in C : d = h[c]
  <2>1. d \in Of(R, t) /\ d.ns = n
    BY DEF Hist, Of
  <2>2. PICK c \in Of(S, s) : d = [c EXCEPT !.thread = t]
    BY <2>1 DEF Copied, Moved
  <2>3. c \in Checkpoint /\ c \in S /\ c.thread = s
    BY <2>2 DEF Of
  <2>4. c.ns = n
    BY <2>1, <2>2, <2>3 DEF Checkpoint
  <2>5. c \in C
    BY <2>3, <2>4 DEF Hist
  <2> QED  BY <1>2, <2>2, <2>5
<1>5. D \in SUBSET Checkpoint
  BY <1>2, <1>4
<1> HIDE DEF C, D
<1>6. Mirrors(h, C, D)
  BY <1>2, <1>3, <1>4 DEF Mirrors
<1>7. Rooted(D)
  BY <1>5, <1>6, RootedMirror DEF C
<1>8. \A b \in Of(B, s) : /\ [b EXCEPT !.thread = t].thread = t
                          /\ [b EXCEPT !.thread = t].ns = b.ns
                          /\ [b EXCEPT !.thread = t].channel = b.channel
                          /\ [b EXCEPT !.thread = t].version = b.version
                          /\ [b EXCEPT !.thread = t].kind = b.kind
                          /\ b.thread = s /\ b \in B
  BY DEF Of, Blob
<1>9. ASSUME NEW c \in C, NEW b \in Of(B, s)
      PROVE  IsValueAt([b EXCEPT !.thread = t], h[c]) <=> IsValueAt(b, c)
  BY <1>1, <1>2, <1>8 DEF IsValueAt
<1>10. ASSUME NEW c \in C, NEW ch PROVE Has(V, h[c], ch) <=> Has(B, c, ch)
  <2>1. ASSUME NEW b \in B, b.channel = ch, IsValueAt(b, c) PROVE Has(V, h[c], ch)
    <3>1. b \in Of(B, s)
      BY <1>1, <2>1 DEF Of, IsValueAt
    <3>2. [b EXCEPT !.thread = t] \in V
      BY <3>1 DEF Copied, Moved, Of
    <3> QED  BY <1>8, <1>9, <2>1, <3>1, <3>2 DEF Has
  <2>2. ASSUME NEW v \in V, v.channel = ch, IsValueAt(v, h[c]) PROVE Has(B, c, ch)
    <3>1. v \in Of(V, t)
      BY <1>2, <2>2 DEF Of, IsValueAt
    <3>2. PICK b \in Of(B, s) : v = [b EXCEPT !.thread = t]
      BY <3>1 DEF Copied, Moved
    <3> QED  BY <1>8, <1>9, <2>2, <3>2 DEF Has
  <2> QED  BY <2>1, <2>2 DEF Has
<1> QED  BY <1>2, <1>6, <1>7, <1>9, <1>10 DEF C, D

\* The state of a copy is that of its original.
LEMMA CopyState ==
  ASSUME NEW s \in Threads, NEW t \in Threads, NEW n,
         NEW S \in SUBSET Checkpoint, NEW W \in SUBSET WriteGroup, NEW B \in SUBSET Blob,
         NEW R, NEW U, NEW V, Copied(S, s, R, t), Copied(W, s, U, t), Copied(B, s, V, t),
         Rooted(Hist(S, s, n))
  PROVE  StateOf(R, U, V, t, n) = StateOf(S, W, B, s, n)
<1>0. PICK h : h = Mover(S, s, t, n)
  OBVIOUS
<1>1. PICK C : C = Hist(S, s, n)
  OBVIOUS
<1>2. PICK D : D = Hist(R, t, n)
  OBVIOUS
<1>3. /\ Mirrors(h, C, D) /\ Rooted(C) /\ Rooted(D)
      /\ \A c \in C : /\ h[c].versions = c.versions /\ h[c].thread = t /\ h[c].ns = n
                      /\ c.thread = s /\ c.ns = n
                      /\ \A b \in Of(B, s) : IsValueAt([b EXCEPT !.thread = t], h[c]) <=> IsValueAt(b, c)
                      /\ \A ch : Has(V, h[c], ch) <=> Has(B, c, ch)
  <2>1. \A c \in C : c.thread = s /\ c.ns = n
    BY <1>1 DEF Hist
  <2>2. Rooted(C)
    BY <1>1
  <2>3. /\ Mirrors(h, C, D) /\ Rooted(D)
        /\ \A c \in C : /\ h[c].versions = c.versions /\ h[c].thread = t /\ h[c].ns = n
                        /\ \A b \in Of(B, s) :
                             IsValueAt([b EXCEPT !.thread = t], h[c]) <=> IsValueAt(b, c)
                        /\ \A ch : Has(V, h[c], ch) <=> Has(B, c, ch)
    BY <1>0, <1>1, <1>2, CopyMirrors
  <2> QED  BY <2>1, <2>2, <2>3
<1>4. CASE C = {}
  <2>1. D = {}
    BY <1>3, <1>4 DEF Mirrors
  <2> QED  BY <1>1, <1>2, <1>4, <2>1, Zenon DEF StateOf
<1>5. CASE C # {}
  <2>1. PICK x : x = Newest(C)
    OBVIOUS
  <2>2. PICK y : y = Newest(D)
    OBVIOUS
  <2>3. x \in C /\ y = h[x] /\ y.id = x.id /\ x.id \in Numbers /\ D # {}
    <3>1. /\ C \in SUBSET Checkpoint /\ D \in SUBSET Checkpoint
          /\ \A c \in C : h[c] \in D /\ h[c].id = c.id
          /\ \A d \in D : \E c \in C : d = h[c]
      BY <1>3 DEF Mirrors, Rooted
    <3>2. x \in C /\ D # {} /\ y.id = x.id
      BY <1>5, <2>1, <2>2, <3>1, NewestOf, NewestMirrored
    <3>3. y \in D
      BY <2>2, <3>1, <3>2, NewestOf
    <3>4. y = h[x]
      BY <1>3, <3>1, <3>2, <3>3 DEF Rooted
    <3> QED  BY <1>3, <3>2, <3>4, IdOf
  <2>4. PICK L : L = Up(C)[x.id]
    OBVIOUS
  <2>5. L \in SUBSET C /\ Up(D)[y.id] = {h[c] : c \in L}
    BY <1>3, <2>3, <2>4, UpBefore, UpMirrored
  <2>6. PICK M : M = {h[c] : c \in L}
    OBVIOUS
  <2>7. \A c \in L : /\ h[c] \in M /\ h[c].id = c.id /\ h[c].thread = t /\ h[c].ns = n
                     /\ c.thread = s /\ c.ns = n
    BY <1>3, <2>5, <2>6 DEF Mirrors
  <2>8. ASSUME NEW ch \in Channels PROVE RebuiltOf(U, V, M, y, ch) = RebuiltOf(W, B, L, x, ch)
    <3> DEFINE F == FullOf(B, L, ch)
               G == FullOf(V, M, ch)
    <3>1. /\ \A c \in F : c \in L /\ h[c] \in G
          /\ \A d \in G : \E c \in F : d = h[c]
      BY <1>3, <2>5, <2>6 DEF FullOf
    <3>2. F \in SUBSET Checkpoint /\ G \in SUBSET Checkpoint
      <4>1. M \in SUBSET D
        BY <1>3, <2>5, <2>6 DEF Mirrors
      <4> QED  BY <1>3, <2>5, <4>1 DEF FullOf, Rooted
    <3>3. From(V, M, ch) = From(B, L, ch)
      <4>1. CASE F = {}
        <5>1. G = {}
          BY <3>1, <4>1
        <5> QED  BY <4>1, <5>1 DEF From
      <4>2. CASE F # {}
        <5>1. \A c \in F : h[c] \in G /\ h[c].id = c.id
          BY <2>7, <3>1
        <5> HIDE DEF F, G
        <5>2. G # {} /\ Newest(G).id = Newest(F).id
          BY <3>1, <3>2, <4>2, <5>1, NewestMirrored
        <5> QED  BY <4>2, <5>2 DEF From, F, G
      <4> QED  BY <4>1, <4>2
    <3>4. PICK m : m = From(B, L, ch)
      OBVIOUS
    <3> HIDE DEF F, G
    <3>5. ValueOf(V, M, ch) = ValueOf(B, L, ch)
      <4> DEFINE X == {b \in B : b.channel = ch /\ \E d \in F : d.id = m /\ IsValueAt(b, d)}
                 Y == {b \in V : b.channel = ch /\ \E d \in G : d.id = m /\ IsValueAt(b, d)}
      <4>1. \A b \in Of(B, s) : /\ [b EXCEPT !.thread = t].channel = b.channel
                                /\ [b EXCEPT !.thread = t].version = b.version
                                /\ [b EXCEPT !.thread = t].size = b.size
                                /\ [b EXCEPT !.thread = t] \in V /\ b \in B
        BY DEF Of, Blob, Copied, Moved
      <4>2. ASSUME NEW b \in X
            PROVE  \E v \in Y : v.version = b.version /\ v.size = b.size
        <5>1. PICK d \in F : d.id = m /\ IsValueAt(b, d)
          OBVIOUS
        <5>2. b \in Of(B, s)
          BY <2>7, <3>1, <5>1 DEF Of, IsValueAt
        <5>3. h[d] \in G /\ h[d].id = m /\ d \in C
          BY <2>5, <2>7, <3>1, <5>1
        <5>4. IsValueAt([b EXCEPT !.thread = t], h[d])
          BY <1>3, <5>1, <5>2, <5>3
        <5>5. [b EXCEPT !.thread = t] \in Y
          BY <4>1, <5>2, <5>3, <5>4
        <5> QED  BY <4>1, <5>2, <5>5
      <4>3. ASSUME NEW v \in Y
            PROVE  \E b \in X : v.version = b.version /\ v.size = b.size
        <5>1. PICK d \in G : d.id = m /\ IsValueAt(v, d)
          OBVIOUS
        <5>2. PICK c \in F : d = h[c]
          BY <3>1
        <5>3. c \in L /\ c \in C /\ c.id = m /\ d.thread = t
          BY <2>5, <2>7, <3>1, <5>1, <5>2
        <5>4. v \in Of(V, t)
          BY <5>1, <5>3 DEF Of, IsValueAt
        <5>5. PICK b \in Of(B, s) : v = [b EXCEPT !.thread = t]
          BY <5>4 DEF Copied, Moved
        <5>6. IsValueAt(b, c)
          BY <1>3, <5>1, <5>2, <5>3, <5>5
        <5>7. b \in X
          BY <4>1, <5>2, <5>3, <5>5, <5>6
        <5> QED  BY <4>1, <5>5, <5>7
      <4>4. /\ ValueOf(B, L, ch) = {[version |-> b.version, size |-> b.size] : b \in X}
            /\ ValueOf(V, M, ch) = {[version |-> b.version, size |-> b.size] : b \in Y}
        BY <3>3, <3>4 DEF ValueOf, F, G
      <4> HIDE DEF X, Y
      <4> QED  BY <4>2, <4>3, <4>4
    <3>6. LogOf(U, V, M, y, ch) = LogOf(W, B, L, x, ch)
      <4> DEFINE X == {g \in W : /\ x.versions[ch] # 0 /\ g.thread = x.thread /\ g.ns = x.ns
                                 /\ g.id < x.id /\ \E d \in L : d.id = g.id /\ d.id >= m}
                 Y == {g \in U : /\ y.versions[ch] # 0 /\ g.thread = y.thread /\ g.ns = y.ns
                                 /\ g.id < y.id /\ \E d \in M : d.id = g.id /\ d.id >= m}
      <4>1. \A g \in Of(W, s) : /\ [g EXCEPT !.thread = t].thread = t
                                /\ [g EXCEPT !.thread = t].ns = g.ns
                                /\ [g EXCEPT !.thread = t].id = g.id
                                /\ [g EXCEPT !.thread = t].size = g.size
                                /\ [g EXCEPT !.thread = t] \in U /\ g \in W /\ g.thread = s
        BY DEF Of, WriteGroup, Copied, Moved
      <4>2. /\ y.versions = x.versions /\ y.id = x.id
            /\ y.thread = t /\ y.ns = n /\ x.thread = s /\ x.ns = n
        BY <1>3, <2>3
      <4>3. ASSUME NEW g \in X PROVE \E u \in Y : u.id = g.id /\ u.size = g.size
        <5>1. PICK d \in L : d.id = g.id /\ d.id >= m
          OBVIOUS
        <5>2. g \in Of(W, s)
          BY <4>2 DEF Of
        <5>3. h[d] \in M /\ h[d].id = d.id
          BY <2>7
        <5>4. [g EXCEPT !.thread = t] \in Y
          BY <4>1, <4>2, <5>1, <5>2, <5>3
        <5> QED  BY <4>1, <5>2, <5>4
      <4>4. ASSUME NEW u \in Y PROVE \E g \in X : u.id = g.id /\ u.size = g.size
        <5>1. PICK d \in M : d.id = u.id /\ d.id >= m
          OBVIOUS
        <5>2. PICK c \in L : d = h[c] /\ d.id = c.id
          BY <2>6, <2>7
        <5>3. u \in Of(U, t)
          BY <4>2 DEF Of
        <5>4. PICK g \in Of(W, s) : u = [g EXCEPT !.thread = t]
          BY <5>3 DEF Copied, Moved
        <5>5. g \in X
          BY <4>1, <4>2, <5>1, <5>2, <5>4
        <5> QED  BY <4>1, <5>4, <5>5
      <4>5. /\ LogOf(W, B, L, x, ch) = {[id |-> g.id, size |-> g.size] : g \in X}
            /\ LogOf(U, V, M, y, ch) = {[id |-> g.id, size |-> g.size] : g \in Y}
        BY <3>3, <3>4 DEF LogOf
      <4> HIDE DEF X, Y
      <4> QED  BY <4>3, <4>4, <4>5
    <3> QED  BY <3>5, <3>6 DEF RebuiltOf
  <2>9. {g.size : g \in {u \in Of(U, t) : u.ns = n /\ u.id = y.id}}
          = {g.size : g \in {u \in Of(W, s) : u.ns = n /\ u.id = x.id}}
    <3> DEFINE X == {u \in Of(W, s) : u.ns = n /\ u.id = x.id}
               Y == {u \in Of(U, t) : u.ns = n /\ u.id = y.id}
    <3>1. Of(U, t) = {[g EXCEPT !.thread = t] : g \in Of(W, s)}
      BY DEF Copied, Moved
    <3>2. \A g \in Of(W, s) : /\ [g EXCEPT !.thread = t].ns = g.ns
                              /\ [g EXCEPT !.thread = t].id = g.id
                              /\ [g EXCEPT !.thread = t].size = g.size
      BY DEF Of, WriteGroup
    <3>3. \A g \in X : [g EXCEPT !.thread = t] \in Y /\ [g EXCEPT !.thread = t].size = g.size
      BY <2>3, <3>1, <3>2
    <3>4. ASSUME NEW u \in Y PROVE \E g \in X : u.size = g.size
      <4>1. PICK g \in Of(W, s) : u = [g EXCEPT !.thread = t]
        BY <3>1
      <4>2. g \in X
        BY <2>3, <3>2, <4>1
      <4> QED  BY <3>2, <4>1, <4>2
    <3>5. \A g \in X : \E u \in Y : u.size = g.size
      BY <3>3
    <3> HIDE DEF X, Y
    <3>6. {g.size : g \in Y} = {g.size : g \in X}
      BY <3>4, <3>5
    <3> QED  BY <3>6 DEF X, Y
  <2>10. [ch \in Channels |-> RebuiltOf(U, V, Up(D)[y.id], y, ch)]
           = [ch \in Channels |-> RebuiltOf(W, B, Up(C)[x.id], x, ch)]
    BY <2>4, <2>5, <2>6, <2>8
  <2>11. StateOf(S, W, B, s, n) =
           [id |-> x.id, channels |-> [ch \in Channels |-> RebuiltOf(W, B, Up(C)[x.id], x, ch)],
            pending |-> {g.size : g \in {u \in Of(W, s) : u.ns = n /\ u.id = x.id}}]
    BY <1>1, <1>5, <2>1, Zenon DEF StateOf
  <2>12. StateOf(R, U, V, t, n) =
           [id |-> y.id, channels |-> [ch \in Channels |-> RebuiltOf(U, V, Up(D)[y.id], y, ch)],
            pending |-> {g.size : g \in {u \in Of(U, t) : u.ns = n /\ u.id = y.id}}]
    BY <1>2, <2>2, <2>3, Zenon DEF StateOf
  <2> QED  BY <2>3, <2>9, <2>10, <2>11, <2>12, Zenon
<1> QED  BY <1>4, <1>5

-----------------------------------------------------------------------------
(* Pruning keeps the state                                                   *)

LEMMA InvGives ==
  ASSUME HistoryInv
  PROVE  /\ TypeOK /\ HistoriesGrow /\ DataOK
         /\ \A t, n : /\ Rooted(Hist(storage, t, n))
                      /\ \A c, d \in Hist(storage, t, n) : c.parent = d.id =>
                           \A ch \in Channels : d.versions[ch] # 0 => c.versions[ch] # 0
BY RootedHistory DEF HistoryInv, SaverInv, TypeOK, DataOK

\* A thread that is left alone.
LEMMA AloneState ==
  ASSUME HistoryInv, NEW t \in Threads, NEW n, Of(storage, t)' = Of(storage, t),
         Of(writes, t)' = Of(writes, t), Of(blobs, t)' = Of(blobs, t)
  PROVE  State(t, n)' = State(t, n)
<1>1. Of(storage', t) = Of(storage, t) /\ Of(writes', t) = Of(writes, t) /\ Of(blobs', t) = Of(blobs, t)
  BY DEF Of
<1>2. Copied(storage, t, storage', t) /\ Copied(writes, t, writes', t) /\ Copied(blobs, t, blobs', t)
  BY <1>1, InvGives, SameThread DEF DataOK
<1>3. StateOf(storage', writes', blobs', t, n) = StateOf(storage, writes, blobs, t, n)
  <2>1. /\ storage \in SUBSET Checkpoint /\ writes \in SUBSET WriteGroup /\ blobs \in SUBSET Blob
        /\ Rooted(Hist(storage, t, n))
    BY InvGives DEF DataOK
  <2> QED  BY <1>2, <2>1, CopyState
<1> QED  BY <1>3, StateIs

LEMMA CopiedWhole ==
  ASSUME HistoryInv, NEW s \in Threads, NEW t \in Threads, NEW n,
         Copied(storage, s, storage', t), Copied(blobs, s, blobs', t), Whole(s, n)
  PROVE  Whole(t, n)'
<1>1. PICK h : h = Mover(storage, s, t, n)
  OBVIOUS
<1>2. /\ storage \in SUBSET Checkpoint /\ blobs \in SUBSET Blob /\ Rooted(Hist(storage, s, n))
      /\ WholeOf(storage, blobs, s, n)
  BY InvGives, WholeIs DEF DataOK
<1>3. /\ Mirrors(h, Hist(storage, s, n), Hist(storage', t, n)) /\ Rooted(Hist(storage', t, n))
      /\ \A c \in Hist(storage, s, n) :
           h[c].versions = c.versions /\ \A ch : Has(blobs', h[c], ch) <=> Has(blobs, c, ch)
  BY <1>1, <1>2, CopyMirrors
<1>4. WholeOf(storage', blobs', t, n)
  BY <1>2, <1>3, WholeMirrored
<1> QED  BY <1>4, WholeIs

LEMMA AloneWhole ==
  ASSUME HistoryInv, NEW t \in Threads, NEW n, Of(storage, t)' = Of(storage, t),
         Of(blobs, t)' = Of(blobs, t), Whole(t, n)
  PROVE  Whole(t, n)'
<1>1. Of(storage', t) = Of(storage, t) /\ Of(blobs', t) = Of(blobs, t)
  BY DEF Of
<1>2. Copied(storage, t, storage', t) /\ Copied(blobs, t, blobs', t)
  BY <1>1, InvGives, SameThread DEF DataOK
<1> QED  BY <1>2, CopiedWhole

\* What pruning does to the thread.
LEMMA PruneDoes ==
  ASSUME HistoryInv, NEW t \in Threads, Prune(t), NEW n \in Namespaces,
         NEW C, C = Hist(storage, t, n), NEW K, K = Kept(C)
  PROVE  /\ Hist(storage', t, n) = IF C = {} THEN {} ELSE K
         /\ C # {} =>
              /\ writes' \in SUBSET writes /\ blobs' \in SUBSET blobs
              /\ \A b \in blobs, d \in K : IsValueAt(b, d) => b \in blobs'
              /\ \A g \in writes, d \in K : g.thread = t /\ g.ns = n /\ g.id = d.id => g \in writes'
<1>1. /\ storage' = storage \ (Of(storage, t) \ KeptOf(t))
      /\ writes' = writes \ {g \in Of(writes, t) : ~StillWritten(g, KeptOf(t))}
      /\ blobs' = blobs \ {b \in Of(blobs, t) : ~StillNamed(b, KeptOf(t))}
  BY DEF Prune
<1>2. \A m : History(t, m) = Hist(storage, t, m) /\ Rooted(Hist(storage, t, m))
  <2>1. \A m : History(t, m) = Hist(storage, t, m)
    BY DEF History, Hist
  <2> QED  BY <2>1, InvGives
<1>3. ASSUME NEW m \in Namespaces, Hist(storage, t, m) # {}
      PROVE  Kept(Hist(storage, t, m)) \in SUBSET Hist(storage, t, m)
  <2>1. PICK H : H = Hist(storage, t, m)
    OBVIOUS
  <2>2. Rooted(H) /\ H # {}
    BY <1>2, <1>3, <2>1
  <2>3. PICK x : x = Newest(H)
    OBVIOUS
  <2>4. PICK L : L = Up(H)[x.id]
    OBVIOUS
  <2>5. Kept(H) \in SUBSET L
    BY <2>2, <2>3, <2>4, KeptLine
  <2>6. L \in SUBSET H
    BY <2>2, <2>3, <2>4, LineOf
  <2> QED  BY <2>1, <2>5, <2>6
<1>4. \A d : d \in KeptOf(t) <=>
        \E m \in Namespaces : Hist(storage, t, m) # {} /\ d \in Kept(Hist(storage, t, m))
  BY <1>2 DEF KeptOf
<1>5. \A d \in C : d \in KeptOf(t) <=> d \in K
  <2> SUFFICES ASSUME NEW d \in C PROVE d \in KeptOf(t) <=> d \in K
    OBVIOUS
  <2>1. C # {} /\ d.ns = n
    BY DEF Hist
  <2>2. \A m \in Namespaces : Hist(storage, t, m) # {} /\ d \in Kept(Hist(storage, t, m)) => m = n
    BY <1>3, <2>1 DEF Hist
  <2> QED  BY <1>4, <2>1, <2>2
<1>6. C # {} => K \in SUBSET C /\ \A d \in K : d \in KeptOf(t) /\ d.thread = t /\ d.ns = n
  <2>1. C # {} => K \in SUBSET C
    BY <1>3
  <2>2. \A d \in C : d.thread = t /\ d.ns = n
    BY DEF Hist
  <2> QED  BY <1>5, <2>1, <2>2
<1>7. Hist(storage', t, n) = IF C = {} THEN {} ELSE K
  <2>1. \A d : d \in Hist(storage', t, n) <=> d \in C /\ d \in KeptOf(t)
    BY <1>1 DEF Hist, Of
  <2> QED  BY <1>5, <1>6, <2>1
<1>8. ASSUME C # {}, NEW b \in blobs, NEW d \in K, IsValueAt(b, d) PROVE b \in blobs'
  <2>1. d \in KeptOf(t)
    BY <1>6, <1>8
  <2>2. StillNamed(b, KeptOf(t))
    BY <1>8, <2>1 DEF StillNamed, IsValueAt
  <2> QED  BY <1>1, <2>2
<1>9. ASSUME C # {}, NEW g \in writes, NEW d \in K, g.thread = t, g.ns = n, g.id = d.id
      PROVE  g \in writes'
  <2>1. d \in KeptOf(t) /\ d.ns = n
    BY <1>6, <1>9
  <2>2. StillWritten(g, KeptOf(t))
    BY <1>9, <2>1 DEF StillWritten
  <2> QED  BY <1>1, <2>2
<1> QED  BY <1>1, <1>7, <1>8, <1>9

LEMMA PruneState ==
  ASSUME HistoryInv, NEW s \in Threads, Prune(s), NEW t \in Threads, NEW n \in Namespaces
  PROVE  State(t, n)' = State(t, n)
<1>1. CASE t # s
  <2>1. /\ storage' = storage \ (Of(storage, s) \ KeptOf(s))
        /\ writes' = writes \ {g \in Of(writes, s) : ~StillWritten(g, KeptOf(s))}
        /\ blobs' = blobs \ {b \in Of(blobs, s) : ~StillNamed(b, KeptOf(s))}
    BY DEF Prune
  <2>2. /\ Of(storage, t)' = Of(storage, t) /\ Of(writes, t)' = Of(writes, t)
        /\ Of(blobs, t)' = Of(blobs, t)
    BY <1>1, <2>1 DEF Of
  <2> QED  BY <2>2, AloneState
<1>2. CASE t = s
  <2>1. PICK C : C = Hist(storage, t, n)
    OBVIOUS
  <2>2. PICK K : K = Kept(C)
    OBVIOUS
  <2>3. PICK D : D = Hist(storage', t, n)
    OBVIOUS
  <2>4. /\ D = IF C = {} THEN {} ELSE K
        /\ C # {} =>
             /\ writes' \in SUBSET writes /\ blobs' \in SUBSET blobs
             /\ \A b \in blobs, d \in K : IsValueAt(b, d) => b \in blobs'
             /\ \A g \in writes, d \in K : g.thread = t /\ g.ns = n /\ g.id = d.id => g \in writes'
    BY <1>2, <2>1, <2>2, <2>3, PruneDoes
  <2>5. StateOf(storage', writes', blobs', t, n) = StateOf(storage, writes, blobs, t, n)
    <3>1. CASE C = {}
      BY <2>1, <2>3, <2>4, <3>1, Zenon DEF StateOf
    <3>2. CASE C # {}
      <4>1. PICK x : x = Newest(C)
        OBVIOUS
      <4>2. PICK L : L = Up(C)[x.id]
        OBVIOUS
      <4>3. /\ Rooted(C) /\ DataOK
            /\ \A c, d \in C : c.parent = d.id =>
                 \A ch \in Channels : d.versions[ch] # 0 => c.versions[ch] # 0
        BY <2>1, InvGives
      <4>4. x \in K /\ Newest(D) = x /\ Up(D)[x.id] = K /\ D = K
        <5>1. x \in K /\ Newest(K) = x /\ Up(K)[x.id] = K
          BY <2>2, <3>2, <4>1, <4>2, <4>3, KeptLine
        <5> QED  BY <2>4, <3>2, <5>1
      <4>5. x \in C /\ x.thread = t /\ x.ns = n
        BY <2>1, <3>2, <4>1, <4>2, <4>3, LineOf DEF Hist
      <4>6. ASSUME NEW ch \in Channels
            PROVE  RebuiltOf(writes', blobs', K, x, ch) = RebuiltOf(writes, blobs, L, x, ch)
        <5>1. \A d \in L : d.versions[ch] # 0 => x.versions[ch] # 0
          BY <4>2, <4>3, <4>5, UpVersions
        <5>2. /\ blobs \in SUBSET Blob /\ writes \in SUBSET WriteGroup
              /\ writes' \in SUBSET writes /\ blobs' \in SUBSET blobs
              /\ \A b \in blobs, d \in K : IsValueAt(b, d) => b \in blobs'
              /\ \A g \in writes, d \in K : g.thread = x.thread /\ g.ns = x.ns /\ g.id = d.id => g \in writes'
          BY <2>4, <3>2, <4>3, <4>5 DEF DataOK
        <5> QED  BY <2>2, <3>2, <4>1, <4>2, <4>3, <5>1, <5>2, RebuiltFromKept
      <4>7. {g.size : g \in {u \in Of(writes', t) : u.ns = n /\ u.id = x.id}}
              = {g.size : g \in {u \in Of(writes, t) : u.ns = n /\ u.id = x.id}}
        <5>1. {u \in Of(writes', t) : u.ns = n /\ u.id = x.id}
                = {u \in Of(writes, t) : u.ns = n /\ u.id = x.id}
          BY <2>4, <3>2, <4>4 DEF Of
        <5> QED  BY <5>1
      <4>8. [ch \in Channels |-> RebuiltOf(writes', blobs', Up(D)[x.id], x, ch)]
              = [ch \in Channels |-> RebuiltOf(writes, blobs, Up(C)[x.id], x, ch)]
        BY <4>2, <4>4, <4>6
      <4>9. StateOf(storage, writes, blobs, t, n) =
              [id |-> x.id, channels |-> [ch \in Channels |-> RebuiltOf(writes, blobs, Up(C)[x.id], x, ch)],
               pending |-> {g.size : g \in {u \in Of(writes, t) : u.ns = n /\ u.id = x.id}}]
        BY <2>1, <3>2, <4>1, Zenon DEF StateOf
      <4>10. StateOf(storage', writes', blobs', t, n) =
              [id |-> x.id, channels |-> [ch \in Channels |-> RebuiltOf(writes', blobs', Up(D)[x.id], x, ch)],
               pending |-> {g.size : g \in {u \in Of(writes', t) : u.ns = n /\ u.id = x.id}}]
        <5>1. D # {}
          BY <4>4
        <5> QED  BY <2>3, <4>4, <5>1, Zenon DEF StateOf
      <4> QED  BY <4>7, <4>8, <4>9, <4>10, Zenon
    <3> QED  BY <3>1, <3>2
  <2> QED  BY <2>5, StateIs
<1> QED  BY <1>1, <1>2

\* Pruning a thread, keeping the latest, keeps the state of every namespace of it and of
\* all other threads: the walk up from the newest checkpoint goes as far as some channel is
\* without a value, and the blobs and writes of what is kept stay (InMemorySaver.prune).
THEOREM PruningKeepsState == Spec => PruneKeepsState
<1>1. HistoryInv =>
        [\A s \in Threads : Prune(s) =>
           \A t \in Threads, n \in Namespaces : State(t, n)' = State(t, n)]_data
  BY PruneState
<1> QED  BY <1>1, HistoryInvariant, PTL DEF PruneKeepsState

-----------------------------------------------------------------------------
(* Copies                                                                    *)

LEMMA CopyDoes ==
  ASSUME HistoryInv, NEW s \in Threads, NEW t \in Threads, Copy(s, t)
  PROVE  /\ Copied(storage, s, storage', t) /\ Copied(writes, s, writes', t)
         /\ Copied(blobs, s, blobs', t)
         /\ \A u : u # t => Of(storage, u)' = Of(storage, u) /\ Of(blobs, u)' = Of(blobs, u)
<1>1. /\ storage' = storage \cup Moved(storage, s, t) /\ writes' = writes \cup Moved(writes, s, t)
      /\ blobs' = blobs \cup Moved(blobs, s, t)
      /\ Of(storage, t) = {} /\ Of(writes, t) = {} /\ Of(blobs, t) = {}
  BY DEF Copy, Unused, MovedBlobs
<1>2. /\ \A x \in Moved(storage, s, t) : x.thread = t
      /\ \A x \in Moved(writes, s, t) : x.thread = t
      /\ \A x \in Moved(blobs, s, t) : x.thread = t
  BY InvGives DEF DataOK, Moved, Of, Checkpoint, WriteGroup, Blob
<1>3. /\ Of(storage', t) = Moved(storage, s, t) /\ Of(writes', t) = Moved(writes, s, t)
      /\ Of(blobs', t) = Moved(blobs, s, t)
  BY <1>1, <1>2 DEF Of
<1>4. \A u : u # t => Of(storage, u)' = Of(storage, u) /\ Of(blobs, u)' = Of(blobs, u)
  BY <1>1, <1>2 DEF Of
<1> QED  BY <1>3, <1>4 DEF Copied

\* A copy has the state of its original in every namespace: all checkpoints, their channel
\* values and their pending writes are copied (Threads.copy, InMemorySaver.copy_thread).
THEOREM CopiesHaveState == Spec => CopyHasState
<1>1. ASSUME HistoryInv, NEW s \in Threads, NEW t \in Threads, Copy(s, t), NEW n \in Namespaces
      PROVE  State(t, n)' = State(s, n)
  <2>1. StateOf(storage', writes', blobs', t, n) = StateOf(storage, writes, blobs, s, n)
    <3>1. /\ storage \in SUBSET Checkpoint /\ writes \in SUBSET WriteGroup /\ blobs \in SUBSET Blob
          /\ Rooted(Hist(storage, s, n))
      BY <1>1, InvGives DEF DataOK
    <3>2. /\ Copied(storage, s, storage', t) /\ Copied(writes, s, writes', t)
          /\ Copied(blobs, s, blobs', t)
      BY <1>1, CopyDoes
    <3> QED  BY <3>1, <3>2, CopyState
  <2> QED  BY <2>1, StateIs
<1>2. HistoryInv =>
        [\A s, t \in Threads : Copy(s, t) => \A n \in Namespaces : State(t, n)' = State(s, n)]_data
  BY <1>1
<1> QED  BY <1>2, HistoryInvariant, PTL DEF CopyHasState

-----------------------------------------------------------------------------
(* States that can be rebuilt                                                *)

\* A checkpoint on top of the newest one has its ancestors.
LEMMA UpOnTop ==
  ASSUME NEW C, Rooted(C), NEW D, D \in SUBSET Checkpoint, NEW c \in D, D = C \cup {c},
         \A d \in C : d.id < c.id, c.parent < c.id
  PROVE  /\ Rooted(D) /\ Newest(D) = c
         /\ Up(D)[c.id] = {c} \cup Up(C)[c.parent]
<1>1. \A d \in D : d.id \in Nat
  BY MaxAssumption DEF Checkpoint, Ids
<1>2. Rooted(D)
  BY <1>1 DEF Rooted
<1>3. Newest(D) = c
  <2>1. \A d \in D : d.id <= c.id
    BY <1>1
  <2>2. Newest(D) \in D /\ c.id = Newest(D).id
    BY <2>1, NewestOf
  <2> QED  BY <1>2, <2>2 DEF Rooted
<1>4. Up(D)[c.id] = {c} \cup Up(D)[c.parent] /\ c.parent \in Numbers /\ c.parent \in Nat
  BY <1>2, UpStep
<1>5. Up(D)[c.parent] \in SUBSET C
  <2>1. Up(D)[c.parent] \in SUBSET D /\ \A d \in Up(D)[c.parent] : d.id <= c.parent
    BY <1>2, <1>4, UpBefore
  <2>2. c \notin Up(D)[c.parent]
    BY <1>1, <1>4, <2>1
  <2> QED  BY <2>1, <2>2
<1>6. Up(C)[c.parent] = Up(D)[c.parent]
  <2>1. C \in SUBSET D /\ \A d, e \in Up(D)[c.parent] : d \notin C /\ e.id < d.id => e \notin C
    BY <1>5
  <2>2. Up(C)[c.parent] = Up(D)[c.parent] \cap C
    BY <1>2, <1>4, <2>1, UpCut
  <2> QED  BY <1>5, <2>2
<1> QED  BY <1>2, <1>3, <1>4, <1>6

LEMMA PutWhole ==
  ASSUME HistoryInv, NEW w \in Writers, Put(w), NEW t \in Threads, NEW n \in Namespaces, Whole(t, n)
  PROVE  \/ Whole(t, n)'
         \/ /\ writer[w] # Away /\ writer'[w] # writer[w]
            /\ writer[w].thread = t /\ writer[w].ns = n
            /\ \/ History(t, n) = {}
               \/ writer[w].base # Newest(History(t, n)).id
<1>0. SaverInv /\ TypeOK /\ HistoriesGrow /\ DataOK /\ Rooted(Hist(storage, t, n))
  BY InvGives DEF HistoryInv
<1>1. writer[w] # Away /\ made' = made + 1 /\ made \in Nat
  BY <1>0, PutDoes
<1>2. PICK c \in Checkpoint, new \in SUBSET Blob :
        /\ c.thread = writer[w].thread /\ c.ns = writer[w].ns /\ c.id = made + 1
        /\ c.parent = writer[w].base
        /\ \A x \in new : x.thread = c.thread /\ x.ns = c.ns /\ x.version = c.id
        /\ Store(c, new)
        /\ writer' = [writer EXCEPT ![w].base = c.id, ![w].versions = c.versions]
  BY <1>0, PutDoes
<1>3. \A d \in storage : d.id \in Nat /\ d.id <= made /\ d.id < c.id
  BY <1>0, <1>1, <1>2, MaxAssumption DEF TypeOK, Checkpoint, Ids, HistoriesGrow
<1>4. writer[w].base \in Nat /\ writer[w].base <= made /\ c.parent < c.id
  BY <1>0, <1>1, <1>2, BusyWriter, MaxAssumption DEF HistoriesGrow
<1>5. storage' = storage \cup {c}
  BY <1>3, <1>2 DEF Store, SameKey
<1>6. \A b \in blobs : b \in blobs'
  <2>1. \A b \in blobs : b.version \in Nat /\ b.version <= made
    BY <1>0, MaxAssumption DEF TypeOK, Blob, Ids, HistoriesGrow
  <2>2. \A b \in blobs : b.version # c.id
    BY <1>1, <1>2, <2>1
  <2> QED  BY <1>2, <2>2 DEF Store
<1>7. \A d, ch : Has(blobs, d, ch) => Has(blobs', d, ch)
  BY <1>6 DEF Has
<1>8. PICK C : C = Hist(storage, t, n)
  OBVIOUS
<1>9. PICK D : D = Hist(storage', t, n)
  OBVIOUS
<1>10. History(t, n) = C /\ WholeOf(storage, blobs, t, n) /\ Rooted(C)
  BY <1>0, <1>8, WholeIs DEF History, Hist
<1>11. CASE ~ (c.thread = t /\ c.ns = n)
  <2>1. D = C
    BY <1>5, <1>8, <1>9, <1>11 DEF Hist
  <2>2. PICK h : h = [d \in C |-> d]
    OBVIOUS
  <2>3. Mirrors(h, C, D) /\ \A d \in C : h[d] = d
    BY <2>1, <2>2 DEF Mirrors
  <2>4. WholeOf(storage', blobs', t, n)
    <3>1. \A d \in C : h[d].versions = d.versions /\ \A ch \in Channels : Has(blobs, d, ch) => Has(blobs', h[d], ch)
      BY <1>7, <2>3
    <3>2. Rooted(D)
      BY <1>10, <2>1
    <3> QED  BY <1>8, <1>9, <1>10, <2>3, <3>1, <3>2, WholeMirrored
  <2> QED  BY <2>4, WholeIs
<1>12. CASE c.thread = t /\ c.ns = n /\ (C = {} \/ writer[w].base # Newest(C).id)
  <2>1. writer'[w].base = c.id
    <3>1. writer[w] \in Busy /\ writer'[w] = [[writer[w] EXCEPT !.base = c.id] EXCEPT !.versions = c.versions]
      BY <1>0, <1>1, <1>2, BusyWriter DEF TypeOK
    <3> QED  BY <3>1 DEF Busy
  <2>2. writer'[w] # writer[w]
    <3>1. c.id # writer[w].base
      BY <1>1, <1>2, <1>4
    <3> QED  BY <2>1, <3>1
  <2> QED  BY <1>1, <1>2, <1>10, <1>12, <2>2
<1>13. CASE c.thread = t /\ c.ns = n /\ C # {} /\ writer[w].base = Newest(C).id
  <2>1. D = C \cup {c} /\ c \in D /\ D \in SUBSET Checkpoint /\ \A d \in C : d.id < c.id
    <3>1. D = C \cup {c}
      BY <1>5, <1>8, <1>9, <1>13 DEF Hist
    <3> QED  BY <1>3, <1>8, <1>10, <3>1 DEF Hist, Rooted
  <2>2. Newest(D) = c /\ Up(D)[c.id] = {c} \cup Up(C)[c.parent]
    BY <1>4, <1>10, <2>1, UpOnTop
  <2>3. c.parent = Newest(C).id
    BY <1>2, <1>13
  <2>4. WholeOf(storage', blobs', t, n)
    <3> SUFFICES ASSUME NEW ch \in Channels
                 PROVE  \E d \in Up(D)[c.id] : Has(blobs', d, ch) \/ d.versions[ch] = 0 \/ d.parent = 0
      BY <1>9, <2>2, Zenon DEF WholeOf
    <3>1. PICK d \in Up(C)[Newest(C).id] : Has(blobs, d, ch) \/ d.versions[ch] = 0 \/ d.parent = 0
      BY <1>8, <1>10, <1>13, Zenon DEF WholeOf
    <3> QED  BY <1>7, <2>2, <2>3, <3>1
  <2> QED  BY <2>4, WholeIs
<1> QED  BY <1>11, <1>12, <1>13

LEMMA PutAgainWhole ==
  ASSUME HistoryInv, NEW w \in Writers, PutAgain(w), NEW t \in Threads, NEW n \in Namespaces, Whole(t, n)
  PROVE  Whole(t, n)'
<1>0. SaverInv /\ DataOK /\ Rooted(Hist(storage, t, n))
  BY InvGives DEF HistoryInv
<1>1. PICK c \in storage, d \in Checkpoint, new \in SUBSET Blob, size \in NewSizes :
        /\ d = [c EXCEPT !.size = size]
        /\ new = {[b EXCEPT !.size = size] : b \in {x \in blobs :
                    x.thread = c.thread /\ x.ns = c.ns /\ x.version = c.id}}
        /\ \A x \in new : x.thread = d.thread /\ x.ns = d.ns /\ x.version = d.id
        /\ Store(d, new)
  BY <1>0, PutAgainDoes
<1>2. /\ d.thread = c.thread /\ d.ns = c.ns /\ d.id = c.id /\ d.parent = c.parent
      /\ d.versions = c.versions
  BY <1>0, <1>1 DEF DataOK, Checkpoint
<1>3. storage' = (storage \ {c}) \cup {d}
  <2>1. \A x \in storage : SameKey(x, d) <=> x = c
    BY <1>0, <1>2 DEF DataOK, SameKey
  <2> QED  BY <1>1, <2>1 DEF Store
<1>4. \A b \in blobs : \E x \in blobs' :
        /\ x.thread = b.thread /\ x.ns = b.ns /\ x.channel = b.channel /\ x.version = b.version
        /\ x.kind = b.kind
  <2> SUFFICES ASSUME NEW b \in blobs
               PROVE  \E x \in blobs' :
                        /\ x.thread = b.thread /\ x.ns = b.ns /\ x.channel = b.channel
                        /\ x.version = b.version /\ x.kind = b.kind
    OBVIOUS
  <2>1. CASE b.thread = c.thread /\ b.ns = c.ns /\ b.version = c.id
    <3>1. [b EXCEPT !.size = size] \in blobs'
      BY <1>1, <2>1 DEF Store
    <3>2. /\ [b EXCEPT !.size = size].thread = b.thread /\ [b EXCEPT !.size = size].ns = b.ns
          /\ [b EXCEPT !.size = size].channel = b.channel
          /\ [b EXCEPT !.size = size].version = b.version
          /\ [b EXCEPT !.size = size].kind = b.kind
      BY <1>0 DEF DataOK, Blob
    <3> QED  BY <3>1, <3>2
  <2>2. CASE ~ (b.thread = c.thread /\ b.ns = c.ns /\ b.version = c.id)
    <3>1. b \in blobs'
      BY <1>1, <1>2, <2>2 DEF Store
    <3> QED  BY <3>1
  <2> QED  BY <2>1, <2>2
<1>5. \A x, y, ch : x.thread = y.thread /\ x.ns = y.ns /\ x.versions = y.versions /\ Has(blobs, x, ch)
                      => Has(blobs', y, ch)
  BY <1>4 DEF Has, IsValueAt
<1>6. PICK C : C = Hist(storage, t, n)
  OBVIOUS
<1>7. PICK D : D = Hist(storage', t, n)
  OBVIOUS
<1>8. PICK h : h = [x \in C |-> IF x = c THEN d ELSE x]
  OBVIOUS
<1>9. \A x \in C : /\ h[x] = (IF x = c THEN d ELSE x) /\ h[x] \in D
                   /\ h[x].id = x.id /\ h[x].parent = x.parent /\ h[x].versions = x.versions
                   /\ h[x].thread = x.thread /\ h[x].ns = x.ns
  BY <1>2, <1>3, <1>6, <1>7, <1>8 DEF Hist
<1>10. \A y \in D : \E x \in C : y = h[x]
  <2> SUFFICES ASSUME NEW y \in D PROVE \E x \in C : y = h[x]
    OBVIOUS
  <2>1. CASE y = d
    <3>1. c \in C
      BY <1>2, <1>7, <2>1, <1>6 DEF Hist
    <3> QED  BY <1>9, <2>1, <3>1
  <2>2. CASE y # d
    <3>1. y \in C /\ y # c
      BY <1>3, <1>6, <1>7, <2>2 DEF Hist
    <3> QED  BY <1>9, <3>1
  <2> QED  BY <2>1, <2>2
<1>11. Mirrors(h, C, D)
  BY <1>9, <1>10 DEF Mirrors
<1>12. Rooted(C) /\ Rooted(D)
  <2>1. Rooted(C) /\ D \in SUBSET Checkpoint
    BY <1>0, <1>3, <1>6, <1>7 DEF DataOK, Hist
  <2> QED  BY <1>11, <2>1, RootedMirror
<1>13. \A x \in C : h[x].versions = x.versions /\ \A ch \in Channels : Has(blobs, x, ch) => Has(blobs', h[x], ch)
  BY <1>5, <1>9
<1>14. WholeOf(storage', blobs', t, n)
  <2>1. WholeOf(storage, blobs, t, n)
    BY WholeIs
  <2> QED  BY <1>6, <1>7, <1>11, <1>12, <1>13, <2>1, WholeMirrored
<1> QED  BY <1>14, WholeIs

LEMMA PruneWhole ==
  ASSUME HistoryInv, NEW t \in Threads, Prune(t), NEW n \in Namespaces, Whole(t, n)
  PROVE  Whole(t, n)'
<1>1. PICK C : C = Hist(storage, t, n)
  OBVIOUS
<1>2. PICK K : K = Kept(C)
  OBVIOUS
<1>3. PICK D : D = Hist(storage', t, n)
  OBVIOUS
<1>4. /\ D = IF C = {} THEN {} ELSE K
      /\ C # {} => \A b \in blobs, d \in K : IsValueAt(b, d) => b \in blobs'
  BY <1>1, <1>2, <1>3, PruneDoes
<1>5. CASE C = {}
  <2>1. WholeOf(storage', blobs', t, n)
    BY <1>3, <1>4, <1>5, Zenon DEF WholeOf
  <2> QED  BY <2>1, WholeIs
<1>6. CASE C # {}
  <2>1. PICK x : x = Newest(C)
    OBVIOUS
  <2>2. PICK L : L = Up(C)[x.id]
    OBVIOUS
  <2>3. Rooted(C)
    BY <1>1, InvGives
  <2>4. x \in K /\ K \in SUBSET L /\ Newest(D) = x /\ Up(D)[x.id] = K
    BY <1>2, <1>4, <1>6, <2>1, <2>2, <2>3, KeptLine
  <2>5. \A d \in K : \A ch : Has(blobs, d, ch) => Has(blobs', d, ch)
    BY <1>4, <1>6 DEF Has
  <2>6. ASSUME NEW ch \in Channels
        PROVE  \E d \in K : Has(blobs', d, ch) \/ d.versions[ch] = 0 \/ d.parent = 0
    <3>1. CASE x.versions[ch] = 0 \/ Has(blobs, x, ch)
      BY <2>4, <2>5, <3>1
    <3>2. CASE x.versions[ch] # 0 /\ ~Has(blobs, x, ch)
      <4>1. \A d \in L : (\A e \in L : e # x /\ e.id > d.id => ~Has(blobs, e, ch)) => d \in K
        BY <1>2, <1>6, <2>1, <2>2, <2>3, <3>2, KeptLine
      <4> DEFINE F == FullOf(blobs, L, ch)
      <4>2. CASE F = {}
        <5>1. PICK d \in L : Has(blobs, d, ch) \/ d.versions[ch] = 0 \/ d.parent = 0
          <6>1. WholeOf(storage, blobs, t, n)
            BY WholeIs
          <6> QED  BY <1>1, <1>6, <2>1, <2>2, <6>1, Zenon DEF WholeOf
        <5>2. \A e \in L : ~Has(blobs, e, ch)
          BY <4>2 DEF FullOf
        <5>3. d \in K
          BY <4>1, <5>2
        <5> QED  BY <5>1, <5>2, <5>3
      <4>3. CASE F # {}
        <5>1. L \in SUBSET C /\ \A d \in L : d.id \in Nat
          BY <1>6, <2>1, <2>2, <2>3, LineOf
        <5>2. F \in SUBSET Checkpoint /\ F \in SUBSET L
          BY <2>3, <5>1 DEF FullOf, Rooted
        <5>3. PICK d : d = Newest(F)
          OBVIOUS
        <5>4. d \in F /\ \A e \in F : e.id <= d.id
          BY <4>3, <5>2, <5>3, NewestOf
        <5>5. d \in L /\ Has(blobs, d, ch) /\ \A e \in L : e.id > d.id => ~Has(blobs, e, ch)
          <6>1. ASSUME NEW e \in L, e.id > d.id PROVE e \notin F
            BY <5>1, <5>2, <5>4, <6>1
          <6> QED  BY <5>4, <6>1 DEF FullOf
        <5>6. d \in K
          BY <4>1, <5>5
        <5> QED  BY <2>5, <5>5, <5>6
      <4> QED  BY <4>2, <4>3
    <3> QED  BY <3>1, <3>2
  <2>7. WholeOf(storage', blobs', t, n)
    BY <1>3, <2>4, <2>6, Zenon DEF WholeOf
  <2> QED  BY <2>7, WholeIs
<1> QED  BY <1>5, <1>6

\* Without checkpoints there is nothing to rebuild.
LEMMA NothingWhole ==
  ASSUME NEW t, NEW n, Of(storage, t)' = {}
  PROVE  Whole(t, n)'
<1>1. Hist(storage', t, n) = {}
  BY DEF Of, Hist
<1>2. WholeOf(storage', blobs', t, n)
  BY <1>1, Zenon DEF WholeOf
<1> QED  BY <1>2, WholeIs

\* The exceptions of StaysWhole.
Spoils(t, n) ==
  \/ \E r \in RunIds : DeleteRun(t, r)
  \/ \E s \in Threads : Copy(s, t) /\ ~Whole(s, n)
  \/ \E w \in Writers : /\ writer[w] # Away /\ writer'[w] # writer[w]
                        /\ writer[w].thread = t /\ writer[w].ns = n
                        /\ \/ History(t, n) = {}
                           \/ writer[w].base # Newest(History(t, n)).id

LEMMA WholeStep ==
  ASSUME HistoryInv, [Next]_vars, NEW t \in Threads, NEW n \in Namespaces, Whole(t, n)
  PROVE  Whole(t, n)' \/ Spoils(t, n)
<1>0. ASSUME UNCHANGED <<storage, blobs>> PROVE Whole(t, n)'
  BY <1>0, AloneWhole DEF Of
<1>1. ASSUME NEW w \in Writers, Put(w) PROVE Whole(t, n)' \/ Spoils(t, n)
  BY <1>1, PutWhole DEF Spoils
<1>2. ASSUME NEW w \in Writers, PutAgain(w) PROVE Whole(t, n)'
  BY <1>2, PutAgainWhole
<1>3. ASSUME NEW w \in Writers, PutWrites(w) PROVE Whole(t, n)'
  BY <1>0, <1>3 DEF PutWrites
<1>4. ASSUME NEW w \in Writers, NEW u \in Used, NEW m \in Namespaces, NEW r \in RunIds, Load(w, u, m, r)
      PROVE  Whole(t, n)'
  BY <1>0, <1>4 DEF Load, data
<1>5. ASSUME NEW u \in Threads, Prune(u) PROVE Whole(t, n)'
  <2>1. CASE u = t
    BY <1>5, <2>1, PruneWhole
  <2>2. CASE u # t
    <3>1. /\ storage' = storage \ (Of(storage, u) \ KeptOf(u))
          /\ blobs' = blobs \ {b \in Of(blobs, u) : ~StillNamed(b, KeptOf(u))}
      BY <1>5 DEF Prune
    <3>2. Of(storage, t)' = Of(storage, t) /\ Of(blobs, t)' = Of(blobs, t)
      BY <2>2, <3>1 DEF Of
    <3> QED  BY <3>2, AloneWhole
  <2> QED  BY <2>1, <2>2
<1>6. ASSUME NEW u \in Threads, DeleteThread(u) PROVE Whole(t, n)'
  <2>1. storage' = storage \ Of(storage, u) /\ blobs' = blobs \ Of(blobs, u)
    BY <1>6 DEF DeleteThread
  <2>2. CASE u = t
    BY <2>1, <2>2, NothingWhole DEF Of
  <2>3. CASE u # t
    BY <2>1, <2>3, AloneWhole DEF Of
  <2> QED  BY <2>2, <2>3
<1>7. ASSUME NEW u \in Threads, NEW r \in RunIds, DeleteRun(u, r)
      PROVE  Whole(t, n)' \/ Spoils(t, n)
  <2>1. CASE u = t
    BY <1>7, <2>1 DEF Spoils
  <2>2. CASE u # t
    <3>1. storage' = storage \ {c \in Of(storage, u) : c.run = r} /\ UNCHANGED blobs
      BY <1>7 DEF DeleteRun
    <3> QED  BY <2>2, <3>1, AloneWhole DEF Of
  <2> QED  BY <2>1, <2>2
<1>8. ASSUME NEW s \in Threads, NEW u \in Threads, Copy(s, u) PROVE Whole(t, n)' \/ Spoils(t, n)
  <2>1. CASE u = t /\ Whole(s, n)
    BY <1>8, <2>1, CopyDoes, CopiedWhole
  <2>2. CASE u = t /\ ~Whole(s, n)
    BY <1>8, <2>2 DEF Spoils
  <2>3. CASE u # t
    BY <1>8, <2>3, CopyDoes, AloneWhole
  <2> QED  BY <2>1, <2>2, <2>3
<1>9. ASSUME Clear PROVE Whole(t, n)'
  BY <1>9, NothingWhole DEF Clear, Of
<1>10. ASSUME Restart \/ UNCHANGED vars PROVE Whole(t, n)'
  BY <1>0, <1>10 DEF Restart, vars, data
<1> QED  BY <1>1, <1>2, <1>3, <1>4, <1>5, <1>6, <1>7, <1>8, <1>9, <1>10 DEF Next

\* A state that can be rebuilt stays so, whatever is put on top of it, put again, pruned,
\* deleted elsewhere or copied: only the deletion of a run of the thread, a copy of a state
\* that is not whole, or a writer that works on from something else can spoil it.
THEOREM StatesStayWhole == Spec => StaysWhole
<1>1. HistoryInv /\ [Next]_vars =>
        [\A t \in Threads, n \in Namespaces : Whole(t, n) =>
           \/ Whole(t, n)'
           \/ \E r \in RunIds : DeleteRun(t, r)
           \/ \E s \in Threads : Copy(s, t) /\ ~Whole(s, n)
           \/ \E w \in Writers : /\ writer[w] # Away /\ writer'[w] # writer[w]
                                 /\ writer[w].thread = t /\ writer[w].ns = n
                                 /\ \/ History(t, n) = {}
                                    \/ writer[w].base # Newest(History(t, n)).id]_data
  BY WholeStep DEF Spoils
<1> QED  BY <1>1, HistoryInvariant, PTL DEF Spec, StaysWhole
===============================================================================
