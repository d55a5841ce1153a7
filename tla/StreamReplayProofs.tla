-------------------------- MODULE StreamReplayProofs --------------------------
(***************************************************************************)
(* Proofs for StreamReplay, for any number of runs, readers, watchers and   *)
(* messages: a reader that a done message has sent away has all it asked    *)
(* for (EventsArrive), and what comes for the first time is later than all  *)
(* that came before (NewInOrder), but for events of one millisecond.        *)
(*                                                                         *)
(* And, of the watchers of the thread, no message comes twice in a          *)
(* connection, those of a run come in order, and from its subscription on   *)
(* none is lost (ThreadInOrder).                                            *)
(*                                                                         *)
(* Two inductive invariants.  ReplayInv: the ids of a stream grow with its  *)
(* numbers, so that what the replay skips is what the client has, or is of  *)
(* the millisecond of the last thing it has (Skipped); and the queue of a   *)
(* reader is the tail of its stream, so that the replay ends where the      *)
(* queue begins, or later.  WatchInv: what a watcher has been told of a run *)
(* stays behind what it has yet to replay and what its queue of the run     *)
(* holds, and what it was told and what it holds make up all of the run     *)
(* since it subscribed.                                                     *)
(***************************************************************************)
EXTENDS StreamReplay, SequenceTheorems, FiniteSetTheorems, WellFoundedInduction, TLAPS

-----------------------------------------------------------------------------
\* Lists and numbers.

\* Min finds the least of a set of numbers.
LEMMA LeastNumber ==
  ASSUME NEW S \in SUBSET Nat, S # {}
  PROVE  Min(S) \in S /\ \A n \in S : Min(S) <= n
<1> DEFINE R == OpToRel(<, Nat)
<1>1. IsWellFoundedOn(R, Nat)
  BY NatLessThanWellFounded
<1>2. \A m, n \in Nat : m < n => <<m, n>> \in R
  BY DEF OpToRel
<1> HIDE DEF R
<1>3. PICK x \in S : \A y \in S : ~ (<<y, x>> \in R)
  BY <1>1, WFMin
<1>4. ASSUME NEW y \in S
      PROVE  x =< y
  <2>1. x \in Nat /\ y \in Nat
    OBVIOUS
  <2>2. ~ (<<y, x>> \in R)
    BY <1>3
  <2>3. ~ (y < x)
    BY <1>2, <2>1, <2>2
  <2> QED  BY <2>1, <2>3
<1> QED  BY <1>4 DEF Min

\* How much two lengths differ.
LEMMA Difference ==
  ASSUME NEW p \in Nat, NEW q \in Nat
  PROVE  /\ p - q \in Int /\ p - q <= p
         /\ (p + 1) - (q + 1) = p - q /\ p + 1 = (p - q) + (q + 1)
OBVIOUS

\* A list with one element more.
LEMMA Longer ==
  ASSUME NEW S, NEW s \in Seq(S), NEW e \in S
  PROVE  /\ Append(s, e) \in Seq(S) /\ Len(s) \in Nat /\ Len(Append(s, e)) = Len(s) + 1
         /\ Append(s, e)[Len(s) + 1] = e
         /\ \A i \in 1..Len(s) : Append(s, e)[i] = s[i]
BY AppendProperties, LenProperties

\* A list without its first element.
LEMMA Shorter ==
  ASSUME NEW S, NEW s \in Seq(S), s # <<>>
  PROVE  /\ Tail(s) \in Seq(S) /\ Head(s) \in S /\ Head(s) = s[1]
         /\ Len(s) \in Nat \ {0} /\ Len(Tail(s)) = Len(s) - 1
         /\ \A i \in 1..Len(Tail(s)) : Tail(s)[i] = s[i + 1]
<1>1. Len(s) \in Nat /\ Len(s) # 0
  BY LenProperties, EmptySeq
<1>2. s[1] \in S
  BY <1>1, ElementOfSeq
<1> QED  BY <1>1, <1>2, HeadTailProperties

-----------------------------------------------------------------------------
\* Streams and readers.

\* What a stream and a connection to it are made of.
LEMMA ReaderType ==
  ASSUME TypeOK, NEW x \in Connections
  PROVE  /\ x.run \in Sources /\ x.run \in Runs /\ published[x.run] \in Seq(Messages)
         /\ Len(published[x.run]) \in 0..MaxEvents
         /\ \A n \in Numbers(x.run) : /\ published[x.run][n].id \in 1..MaxTime
                                     /\ published[x.run][n].done \in BOOLEAN
         /\ x.queue \in Seq(1..MaxEvents) /\ Len(x.queue) \in Nat
         /\ x.got \in SUBSET (1..MaxEvents)
         /\ x.since \in 0..MaxEvents /\ x.end \in 0..MaxEvents /\ x.pos \in 1..MaxEvents + 1
         /\ x.cursor \in Ids /\ x.last \in Ids
         /\ MaxEvents \in Nat /\ MaxTime \in Nat
<1>1. /\ x.run \in Runs /\ x.queue \in Seq(1..MaxEvents) /\ x.got \in SUBSET (1..MaxEvents)
      /\ x.since \in 0..MaxEvents /\ x.end \in 0..MaxEvents /\ x.pos \in 1..MaxEvents + 1
      /\ x.cursor \in Ids /\ x.last \in Ids
  BY DEF Connections
<1>2. x.run \in Sources /\ MaxEvents \in Nat /\ MaxTime \in Nat
  BY <1>1, BoundAssumption DEF Sources
<1>3. published[x.run] \in Seq(Messages) /\ Len(published[x.run]) <= MaxEvents
  BY <1>2 DEF TypeOK
<1>4. Len(published[x.run]) \in Nat /\ Len(x.queue) \in Nat
  BY <1>1, <1>3, LenProperties
<1>5. \A n \in Numbers(x.run) : published[x.run][n] \in Messages
  BY <1>3, ElementOfSeq DEF Numbers
<1>6. \A n \in Numbers(x.run) : /\ published[x.run][n].id \in 1..MaxTime
                               /\ published[x.run][n].done \in BOOLEAN
  BY <1>5 DEF Messages
<1> QED  BY <1>1, <1>2, <1>3, <1>4, <1>6

\* A reader that goes on has what has the id it goes on from, or goes on from the start.
LEMMA Cursor ==
  ASSUME TypeOK, NEW x \in Connections, NoGap(x), x.pc = "replay"
  PROVE  \/ x.cursor = 0 /\ x.since = 0
         \/ \E m \in x.got : /\ published[x.run][m].id = x.cursor
                             /\ x.since < m /\ m \in Numbers(x.run)
                             /\ \A n \in x.since + 1..m : Accounted(x, n)
<1>1. x.cursor # None
  BY DEF NoGap
<1>2. CASE x.cursor = 0
  BY <1>2 DEF NoGap, None
<1>3. CASE x.cursor # 0
  <2>1. PICK m \in x.got : published[x.run][m].id = x.cursor
    BY <1>1, <1>3 DEF NoGap
  <2>2. x.since < m /\ m <= Len(published[x.run]) /\ \A n \in x.since + 1..m : Accounted(x, n)
    BY DEF NoGap
  <2>3. m \in Numbers(x.run)
    BY <2>2, ReaderType DEF Numbers
  <2> QED  BY <2>1, <2>2, <2>3
<1> QED  BY <1>2, <1>3

\* What the replay skips the client has, or it is of the millisecond of the last it has.
LEMMA Skipped ==
  ASSUME TypeOK, IdsGrow, NEW x \in Connections, NoGap(x), x.pc = "replay",
         NEW n \in Numbers(x.run), x.since < n, ~ (published[x.run][n].id > x.cursor)
  PROVE  Accounted(x, n)
<1>1. published[x.run][n].id \in 1..MaxTime /\ x.cursor \in Ids /\ MaxTime \in Nat
  BY ReaderType
<1>2. x.cursor # 0
  BY <1>1 DEF Ids, None
<1>3. PICK m \in x.got : /\ published[x.run][m].id = x.cursor
                        /\ x.since < m /\ m \in Numbers(x.run)
                        /\ \A k \in x.since + 1..m : Accounted(x, k)
  BY <1>2, Cursor
<1>4. n \in Nat /\ m \in Nat /\ x.since \in Nat
  BY <1>3, ReaderType DEF Numbers
<1>5. CASE n <= m
  BY <1>3, <1>4, <1>5
<1>6. CASE m < n
  <2>1. m \in 1..n
    BY <1>3, <1>4, <1>6 DEF Numbers
  <2>2. published[x.run][m].id <= published[x.run][n].id
    BY <2>1, ReaderType DEF IdsGrow
  <2>3. published[x.run][m].id = published[x.run][n].id
    BY <1>1, <1>3, <2>2 DEF Ids, None
  <2> QED  BY <1>3, <1>6, <2>3 DEF Accounted
<1> QED  BY <1>4, <1>5, <1>6

\* What the replay gives is later than all that the client did not ask for.
LEMMA Asked ==
  ASSUME TypeOK, IdsGrow, NEW x \in Connections, NoGap(x), x.pc = "replay",
         NEW n \in Numbers(x.run), published[x.run][n].id > x.cursor
  PROVE  x.since < n
<1>1. CASE x.cursor = 0 /\ x.since = 0
  BY <1>1 DEF Numbers
<1>2. CASE ~ (x.cursor = 0 /\ x.since = 0)
  <2>1. PICK m \in x.got : /\ published[x.run][m].id = x.cursor
                          /\ x.since < m /\ m \in Numbers(x.run)
    BY <1>2, Cursor
  <2>2. n \in Nat /\ m \in Nat /\ x.since \in Nat
    BY <2>1, ReaderType DEF Numbers
  <2>3. CASE n <= m
    <3>1. n \in 1..m
      BY <2>2, <2>3 DEF Numbers
    <3>2. published[x.run][n].id <= published[x.run][m].id
      BY <2>1, <3>1, ReaderType DEF IdsGrow
    <3>3. published[x.run][n].id \in 1..MaxTime /\ published[x.run][m].id \in 1..MaxTime
      BY <2>1, ReaderType
    <3> QED  BY <2>1, <3>2, <3>3
  <2> QED  BY <2>1, <2>2, <2>3
<1> QED  BY <1>1, <1>2

-----------------------------------------------------------------------------
\* Steps of a reader.

\* One replaced connection: a handler of Runs.Stream.join disturbs nothing else.
LEMMA SetKeeps ==
  ASSUME ReplayInv, NEW c \in Readers, NEW x \in Connections, NoGap(x), Set(c, x)
  PROVE  ReplayInv'
<1>1. /\ UNCHANGED <<now, runs, active, published>>
      /\ reader' = [reader EXCEPT ![c] = x] /\ reader \in [Readers -> Connections]
  BY DEF Set, ReplayInv, TypeOK
<1>2. reader' \in [Readers -> Connections]
  BY <1>1
<1>3. TypeOK'
  BY <1>1, <1>2 DEF ReplayInv, TypeOK, Numbers
<1>4. IdsGrow'
  BY <1>1 DEF ReplayInv, IdsGrow, Numbers
<1>5. ASSUME NEW d \in Readers
      PROVE  NoGap(reader[d])'
  <2>1. reader'[d] = IF d = c THEN x ELSE reader[d]
    BY <1>1
  <2>2. NoGap(reader'[d])
    BY <2>1 DEF ReplayInv
  <2>3. \A k : Accounted(reader[d], k)' <=> Accounted(reader'[d], k)
    BY <1>1 DEF Accounted
  <2>4. Reached(reader[d])' = Reached(reader'[d])
    BY <1>1 DEF Reached
  <2> QED  BY <1>1, <2>2, <2>3, <2>4 DEF NoGap
<1> QED  BY <1>3, <1>4, <1>5 DEF ReplayInv

\* Message n may come to the reader x, which has gone past it in the stored messages or
\* in its queue: there is no gap before n.
MayCome(x, n) ==
  LET id(m) == published[x.run][m].id IN
    /\ n \in Numbers(x.run) /\ x.since < n
    /\ \A k \in x.since + 1..n - 1 : Accounted(x, k)
    /\ \A m \in x.got : /\ x.since < m /\ m <= Len(published[x.run])
                        /\ \A k \in x.since + 1..m : Accounted(x, k)
    /\ IF x.last = None THEN x.got = {} ELSE \E m \in x.got : id(m) = x.last
    /\ x.since <= Reached(x) /\ \A i \in 1..Len(x.queue) : x.queue[i] = Reached(x) + i
    /\ \/ /\ x.pc = "replay" /\ x.pos = n + 1 /\ x.cursor # None
          /\ x.cursor # 0 => \E m \in x.got : id(m) = x.cursor
          /\ x.cursor = 0 => x.since = 0
       \/ x.pc = "live" /\ Reached(x) = n

\* Whether n is an event or a done message, the reader has no gap with it.
LEMMA GivenKeeps ==
  ASSUME TypeOK, NEW x \in Connections, NEW n, MayCome(x, n)
  PROVE  Given(x, n) \in Connections /\ NoGap(Given(x, n))
<1>1. /\ n \in 1..MaxEvents /\ n \in 1..Len(published[x.run]) /\ n \in Nat
      /\ published[x.run][n].id \in 1..MaxTime
  BY ReaderType DEF MayCome, Numbers
<1>2. /\ x.since \in Nat /\ x.got \in SUBSET (1..MaxEvents) /\ Len(x.queue) \in Nat
      /\ Len(published[x.run]) \in Nat /\ Reached(x) \in Int
      /\ x.pos \in 1..MaxEvents + 1 /\ MaxEvents \in Nat
  BY ReaderType DEF Reached
<1>3. CASE published[x.run][n].done
  <2> DEFINE y == Given(x, n)
  <2>1. y = [x EXCEPT !.pc = "closed", !.end = n, !.queue = <<>>]
    BY <1>3 DEF Given
  <2>2. y \in Connections
    <3>1. <<>> \in Seq(1..MaxEvents) /\ n \in 0..MaxEvents
      BY <1>1, <1>2
    <3> QED  BY <2>1, <3>1 DEF Connections
  <2>3. /\ y.pc = "closed" /\ y.end = n /\ y.run = x.run /\ y.got = x.got
        /\ y.since = x.since /\ y.last = x.last
    BY <2>1 DEF Connections
  <2> HIDE DEF y
  <2>4. \A k : Accounted(y, k) <=> Accounted(x, k)
    BY <2>3 DEF Accounted
  <2>5. NoGap(y)
    BY <1>1, <1>2, <2>3, <2>4 DEF NoGap, MayCome
  <2> QED  BY <2>2, <2>5 DEF y
<1>4. CASE ~ published[x.run][n].done
  <2> DEFINE y == Given(x, n)
  <2>1. y = [x EXCEPT !.got = x.got \cup {n}, !.last = published[x.run][n].id]
    BY <1>4 DEF Given
  <2>2. y \in Connections
    <3>1. published[x.run][n].id \in Ids /\ x.got \cup {n} \in SUBSET (1..MaxEvents)
      BY <1>1, <1>2 DEF Ids, None
    <3> QED  BY <2>1, <3>1 DEF Connections
  <2>3. /\ y.pc = x.pc /\ y.run = x.run /\ y.got = x.got \cup {n} /\ y.queue = x.queue
        /\ y.since = x.since /\ y.last = published[x.run][n].id
        /\ y.cursor = x.cursor /\ y.pos = x.pos
    BY <2>1 DEF Connections
  <2> HIDE DEF y
  <2>4. \A k : Accounted(x, k) => Accounted(y, k)
    BY <2>3 DEF Accounted
  <2>5. Accounted(y, n)
    BY <2>3 DEF Accounted
  <2>6. \A k \in y.since + 1..n : Accounted(y, k)
    BY <1>1, <1>2, <2>3, <2>4, <2>5 DEF MayCome
  <2>7. Reached(y) = Reached(x)
    BY <2>3 DEF Reached
  <2>8. \A m \in y.got : /\ y.since < m /\ m <= Len(published[y.run])
                        /\ \A k \in y.since + 1..m : Accounted(y, k)
    BY <1>1, <2>3, <2>4, <2>6 DEF MayCome
  <2>9. y.last # None /\ \E m \in y.got : published[y.run][m].id = y.last
    BY <1>1, <2>3 DEF None
  <2>10. /\ y.since <= Len(published[y.run]) /\ y.since <= Reached(y)
         /\ \A i \in 1..Len(y.queue) : y.queue[i] = Reached(y) + i
    BY <1>1, <1>2, <2>3, <2>7 DEF MayCome
  <2>11. NoGap(y)
    <3>1. CASE y.pc = "replay"
      <4>1. /\ y.pos = n + 1 /\ y.cursor # None /\ (y.cursor = 0 => y.since = 0)
            /\ y.cursor # 0 => \E m \in y.got : published[y.run][m].id = y.cursor
        BY <2>3, <3>1 DEF MayCome
      <4>2. \A k \in y.since + 1..y.pos - 1 : Accounted(y, k)
        BY <1>1, <2>6, <4>1
      <4>3. y.pos <= Len(published[y.run]) + 1
        BY <1>1, <1>2, <2>3, <4>1
      <4> QED  BY <2>8, <2>9, <2>10, <3>1, <4>1, <4>2, <4>3 DEF NoGap
    <3>2. CASE y.pc = "live"
      <4>1. \A k \in y.since + 1..Reached(y) : Accounted(y, k)
        BY <2>3, <2>6, <2>7, <3>2 DEF MayCome
      <4> QED  BY <2>8, <2>9, <2>10, <3>2, <4>1 DEF NoGap
    <3> QED  BY <2>3, <3>1, <3>2 DEF MayCome
  <2> QED  BY <2>2, <2>11 DEF y
<1> QED  BY <1>3, <1>4

\* What the replay gives next may come.
LEMMA ReplayGives ==
  ASSUME ReplayInv, NEW c \in Readers, Replay(c)
  PROVE  \E y \in Connections : \E n \in Nat :
           /\ y.run = reader[c].run /\ y.got = reader[c].got
           /\ MayCome(y, n) /\ Set(c, Given(y, n))
<1> DEFINE x == reader[c]
           n == Min(ToRestore(x))
           y == [x EXCEPT !.pos = n + 1]
<1>1. /\ x.pc = "replay" /\ ToRestore(x) # {} /\ Set(c, Given(y, n))
      /\ x \in Connections /\ NoGap(x) /\ TypeOK /\ IdsGrow
  BY DEF Replay, ReplayInv, TypeOK
<1> HIDE DEF x
<1>2. /\ x.since \in Nat /\ x.got \in SUBSET (1..MaxEvents) /\ Len(x.queue) \in Nat
      /\ Len(published[x.run]) \in 0..MaxEvents /\ x.pos \in 1..MaxEvents + 1 /\ MaxEvents \in Nat
  BY <1>1, ReaderType
<1>3. n \in ToRestore(x) /\ \A k \in ToRestore(x) : n <= k
  <2>1. ToRestore(x) \in SUBSET Nat
    BY <1>2 DEF ToRestore
  <2> QED  BY <1>1, <2>1, LeastNumber
<1> HIDE DEF n
<1>4. n \in x.pos..Len(published[x.run]) /\ published[x.run][n].id > x.cursor
  BY <1>3 DEF ToRestore
<1>5. n \in Numbers(x.run) /\ n \in Nat /\ n + 1 \in 1..MaxEvents + 1
  BY <1>2, <1>4 DEF Numbers
<1>6. x.since < n
  BY <1>1, <1>4, <1>5, Asked
<1>7. \A k \in x.since + 1..n - 1 : Accounted(x, k)
  <2> SUFFICES ASSUME NEW k \in x.since + 1..n - 1 PROVE Accounted(x, k)
    OBVIOUS
  <2>1. k \in Nat /\ x.since < k /\ k < n /\ k \in Numbers(x.run)
    BY <1>2, <1>5 DEF Numbers
  <2>2. CASE k < x.pos
    BY <1>1, <1>2, <2>1, <2>2 DEF NoGap
  <2>3. CASE x.pos <= k
    <3>1. k \notin ToRestore(x)
      BY <1>3, <1>5, <2>1
    <3>2. ~ (published[x.run][k].id > x.cursor)
      BY <1>2, <2>1, <2>3, <3>1 DEF ToRestore, Numbers
    <3> QED  BY <1>1, <2>1, <3>2, Skipped
  <2> QED  BY <1>2, <2>1, <2>2, <2>3
<1>8. /\ y \in Connections /\ y.run = x.run /\ y.got = x.got /\ y.pc = x.pc /\ y.pos = n + 1
      /\ y.since = x.since /\ y.queue = x.queue /\ y.last = x.last /\ y.cursor = x.cursor
  BY <1>1, <1>5 DEF Connections
<1> HIDE DEF y
<1>9. Reached(y) = Reached(x) /\ \A k : Accounted(x, k) <=> Accounted(y, k)
  BY <1>8 DEF Reached, Accounted
<1>10. y.cursor # 0 => \E m \in y.got : published[y.run][m].id = y.cursor
  BY <1>1, <1>8 DEF NoGap
<1>11. /\ y.since <= Reached(y) /\ \A i \in 1..Len(y.queue) : y.queue[i] = Reached(y) + i
       /\ IF y.last = None THEN y.got = {} ELSE \E m \in y.got : published[y.run][m].id = y.last
       /\ y.cursor # None /\ (y.cursor = 0 => y.since = 0)
  BY <1>1, <1>8, <1>9 DEF NoGap
<1>12. \A m \in y.got : /\ y.since < m /\ m <= Len(published[y.run])
                       /\ \A k \in y.since + 1..m : Accounted(y, k)
  BY <1>1, <1>8, <1>9 DEF NoGap
<1>13. MayCome(y, n)
  BY <1>1, <1>5, <1>6, <1>7, <1>8, <1>9, <1>10, <1>11, <1>12 DEF MayCome
<1> QED  BY <1>1, <1>5, <1>8, <1>13 DEF x

\* What the queue gives next may come: it is the first that the reader has not reached.
LEMMA ReceiveGives ==
  ASSUME ReplayInv, NEW c \in Readers, Receive(c)
  PROVE  \E y \in Connections : \E n \in Nat :
           /\ y.run = reader[c].run /\ y.got = reader[c].got
           /\ MayCome(y, n) /\ Set(c, Given(y, n))
<1> DEFINE x == reader[c]
           n == Head(x.queue)
           y == [x EXCEPT !.queue = Tail(x.queue)]
<1>1. /\ x.pc = "live" /\ x.queue # <<>> /\ Set(c, Given(y, n))
      /\ x \in Connections /\ NoGap(x) /\ TypeOK
  BY DEF Receive, Listens, ReplayInv, TypeOK
<1> HIDE DEF x
<1>2. /\ x.since \in Nat /\ x.got \in SUBSET (1..MaxEvents) /\ x.queue \in Seq(1..MaxEvents)
      /\ Len(published[x.run]) \in 0..MaxEvents /\ MaxEvents \in Nat
  BY <1>1, ReaderType
<1>3. /\ Tail(x.queue) \in Seq(1..MaxEvents) /\ n = x.queue[1] /\ Len(x.queue) \in Nat \ {0}
      /\ Len(Tail(x.queue)) = Len(x.queue) - 1
      /\ \A i \in 1..Len(Tail(x.queue)) : Tail(x.queue)[i] = x.queue[i + 1]
  BY <1>1, <1>2, Shorter
<1>4. /\ \A i \in 1..Len(x.queue) : x.queue[i] = Reached(x) + i
      /\ x.since <= Reached(x) /\ \A k \in x.since + 1..Reached(x) : Accounted(x, k)
  BY <1>1 DEF NoGap
<1>5. Reached(x) = Len(published[x.run]) - Len(x.queue)
  BY DEF Reached
<1>6. n = Reached(x) + 1
  <2>1. 1 \in 1..Len(x.queue)
    BY <1>3
  <2> QED  BY <1>3, <1>4, <2>1
<1> HIDE DEF n
<1>15. /\ Len(x.queue) \in Nat /\ Len(x.queue) >= 1 /\ Len(published[x.run]) \in Nat
       /\ Reached(x) \in Nat /\ x.since <= Reached(x)
  <2>1. Len(x.queue) \in Nat /\ Len(x.queue) >= 1
    BY <1>3
  <2>2. Len(published[x.run]) \in Nat /\ x.since \in Nat
    BY <1>2
  <2>3. x.since <= Reached(x)
    BY <1>4
  <2>4. Reached(x) \in Int
    BY <2>1, <2>2 DEF Reached
  <2>5. Reached(x) \in Nat
    BY <2>2, <2>3, <2>4
  <2> QED  BY <2>1, <2>2, <2>3, <2>5
<1>7. n \in Nat /\ n \in Numbers(x.run) /\ x.since < n
  <2>1. x.since \in Nat
    BY <1>2
  <2>2. Reached(x) + 1 \in 1..Len(published[x.run]) /\ x.since < Reached(x) + 1
    <3> DEFINE p == Len(published[x.run])
               q == Len(x.queue)
               r == Reached(x)
    <3>1. p \in Nat /\ q \in Nat /\ q >= 1 /\ r \in Nat /\ x.since <= r /\ r = p - q
      BY <1>5, <1>15
    <3> HIDE DEF p, q, r
    <3>2. r + 1 \in 1..p /\ x.since < r + 1
      BY <2>1, <3>1
    <3> QED  BY <3>2 DEF p, r
  <2> QED  BY <1>6, <1>15, <2>2 DEF Numbers
<1>8. /\ y \in Connections /\ y.run = x.run /\ y.got = x.got /\ y.pc = x.pc
      /\ y.since = x.since /\ y.queue = Tail(x.queue) /\ y.last = x.last
  BY <1>1, <1>3 DEF Connections
<1> HIDE DEF y
<1>9. \A k : Accounted(x, k) <=> Accounted(y, k)
  BY <1>8 DEF Accounted
<1>10. Reached(y) = n
  <2>1. Len(y.queue) = Len(x.queue) - 1 /\ published[y.run] = published[x.run]
    BY <1>3, <1>8
  <2> QED  BY <1>5, <1>6, <1>15, <2>1 DEF Reached
<1>11. \A i \in 1..Len(y.queue) : y.queue[i] = Reached(y) + i
  <2> SUFFICES ASSUME NEW i \in 1..Len(y.queue) PROVE y.queue[i] = Reached(y) + i
    OBVIOUS
  <2>1. y.queue[i] = x.queue[i + 1] /\ i + 1 \in 1..Len(x.queue)
    BY <1>3, <1>8
  <2>2. x.queue[i + 1] = Reached(x) + (i + 1)
    BY <1>4, <2>1
  <2>3. i \in Nat
    BY <1>3, <1>8
  <2> QED  BY <1>6, <1>10, <1>15, <2>1, <2>2, <2>3
<1>12. \A k \in y.since + 1..n - 1 : Accounted(y, k)
  BY <1>4, <1>6, <1>8, <1>9, <1>15
<1>13. /\ IF y.last = None THEN y.got = {} ELSE \E m \in y.got : published[y.run][m].id = y.last
       /\ \A m \in y.got : /\ y.since < m /\ m <= Len(published[y.run])
                           /\ \A k \in y.since + 1..m : Accounted(y, k)
  BY <1>1, <1>8, <1>9 DEF NoGap
<1>14. MayCome(y, n)
  BY <1>1, <1>2, <1>7, <1>8, <1>10, <1>11, <1>12, <1>13 DEF MayCome
<1> QED  BY <1>1, <1>7, <1>8, <1>14 DEF x

\* A client that comes back asks for what is later than the last it has.
LEMMA ConnectKeeps ==
  ASSUME ReplayInv, NEW c \in Readers, NEW from \in Ids, Connect(c, from)
  PROVE  ReplayInv'
<1> DEFINE x == reader[c]
           since == IF from = None THEN Len(published[x.run]) ELSE IF from = 0 THEN 0 ELSE x.since
           y == [x EXCEPT !.pc = "subscribed", !.cursor = from, !.pos = 1, !.queue = <<>>,
                          !.since = since]
<1>1. x \in Connections /\ NoGap(x) /\ TypeOK
  BY DEF ReplayInv, TypeOK
<1>2. from \in (IF x.last = None THEN {None, 0} ELSE {x.last}) /\ Set(c, y)
  BY DEF Connect
<1> HIDE DEF x
<1>3. /\ x.since \in 0..MaxEvents /\ x.got \in SUBSET (1..MaxEvents)
      /\ Len(published[x.run]) \in 0..MaxEvents /\ MaxEvents \in Nat
      /\ \A n \in Numbers(x.run) : published[x.run][n].id \in 1..MaxTime
  BY <1>1, ReaderType
<1>4. since \in 0..MaxEvents /\ since <= Len(published[x.run])
  BY <1>1, <1>3 DEF NoGap
<1>5. /\ y \in Connections /\ y.run = x.run /\ y.got = x.got /\ y.pc = "subscribed" /\ y.pos = 1
      /\ y.since = since /\ y.queue = <<>> /\ y.last = x.last /\ y.cursor = from
  <2>1. <<>> \in Seq(1..MaxEvents) /\ 1 \in 1..MaxEvents + 1
    BY <1>3
  <2> QED  BY <1>1, <1>4, <2>1 DEF Connections
<1> HIDE DEF y
<1>6. Reached(y) = Len(published[x.run])
  <2>1. Len(y.queue) = 0 /\ Len(published[y.run]) \in Nat
    BY <1>3, <1>5
  <2> QED  BY <1>5, <2>1 DEF Reached
<1>7. \A k : Accounted(x, k) <=> Accounted(y, k)
  BY <1>5 DEF Accounted
<1>8. from \notin {None, 0} => since = x.since /\ \E m \in y.got : published[y.run][m].id = from
  BY <1>1, <1>2, <1>5 DEF NoGap
<1>9. from \in {None, 0} => x.got = {}
  <2>1. ASSUME x.last # None, x.last = 0
        PROVE  FALSE
    <3>1. PICK m \in x.got : published[x.run][m].id = 0
      BY <1>1, <2>1 DEF NoGap
    <3>2. m \in Numbers(x.run)
      BY <1>1, <1>3 DEF NoGap, Numbers
    <3> QED  BY <1>3, <3>1, <3>2
  <2> QED  BY <1>1, <1>2, <2>1 DEF NoGap, None
<1>10. \A m \in y.got : /\ y.since < m /\ m <= Len(published[y.run])
                       /\ \A k \in y.since + 1..m : Accounted(y, k)
  BY <1>1, <1>5, <1>7, <1>8, <1>9 DEF NoGap
<1>11. IF y.last = None THEN y.got = {} ELSE \E m \in y.got : published[y.run][m].id = y.last
  BY <1>1, <1>5 DEF NoGap
<1>12. (y.cursor = 0 => y.since = 0) /\ (y.cursor = None => y.since = Reached(y))
  BY <1>5, <1>6 DEF None
<1>13. Len(y.queue) = 0 /\ y.since <= Reached(y) /\ y.since <= Len(published[y.run])
  BY <1>4, <1>5, <1>6
<1> HIDE DEF since
<1>14. NoGap(y)
  BY <1>5, <1>8, <1>10, <1>11, <1>12, <1>13 DEF NoGap
<1> QED  BY <1>2, <1>5, <1>14, SetKeeps

\* The authorization and the end of the replay only change what is read next.
LEMMA TurnKeeps ==
  ASSUME ReplayInv, NEW c \in Readers, Authorized(c) \/ ReplayEnds(c)
  PROVE  ReplayInv'
<1> DEFINE x == reader[c]
           pc == IF x.pc = "subscribed" /\ x.cursor # None THEN "replay" ELSE "live"
           y == [x EXCEPT !.pc = pc]
<1>1. x \in Connections /\ NoGap(x) /\ TypeOK /\ IdsGrow
  BY DEF ReplayInv, TypeOK
<1>2. /\ x.pc \in {"subscribed", "replay"} /\ Set(c, y)
      /\ x.pc = "replay" => ToRestore(x) = {}
  BY DEF Authorized, ReplayEnds
<1> HIDE DEF x
<1>3. /\ x.since \in Nat /\ Len(x.queue) \in Nat /\ x.pos \in Nat
      /\ Len(published[x.run]) \in Nat
  <2>1. x.pos \in 1..MaxEvents + 1 /\ x.since \in 0..MaxEvents /\ Len(x.queue) \in Nat
        /\ Len(published[x.run]) \in 0..MaxEvents
    BY <1>1, ReaderType
  <2> QED  BY <2>1
<1>4. /\ y \in Connections /\ y.run = x.run /\ y.got = x.got /\ y.pc = pc /\ y.pos = x.pos
      /\ y.since = x.since /\ y.queue = x.queue /\ y.last = x.last /\ y.cursor = x.cursor
  BY <1>1 DEF Connections
<1> HIDE DEF y
<1>5. Reached(y) = Reached(x) /\ \A k : Accounted(x, k) <=> Accounted(y, k)
  BY <1>4 DEF Reached, Accounted
<1>6. ASSUME pc = "replay"
      PROVE  /\ y.cursor # None /\ y.pos <= Len(published[y.run]) + 1
             /\ \A k \in y.since + 1..y.pos - 1 : Accounted(y, k)
  <2>1. x.pc = "subscribed" /\ x.cursor # None
    BY <1>6
  <2>2. y.pos = 1 /\ y.since \in Nat
    BY <1>1, <1>3, <1>4, <2>1 DEF NoGap
  <2> QED  BY <1>3, <1>4, <2>1, <2>2
<1>7. ASSUME pc = "live"
      PROVE  \A k \in y.since + 1..Reached(y) : Accounted(y, k)
  <2>1. SUFFICES ASSUME NEW k \in x.since + 1..Reached(x) PROVE Accounted(x, k)
    BY <1>4, <1>5
  <2>2. Reached(x) = Len(published[x.run]) - Len(x.queue) /\ Reached(x) \in Int
    BY <1>3 DEF Reached
  <2>3. k \in Numbers(x.run) /\ k \in Nat /\ x.since < k /\ k <= Reached(x)
    BY <1>3, <2>2 DEF Numbers
  <2>4. x.pc = "replay"
    <3>1. CASE x.pc = "subscribed"
      <4>1. x.since = Reached(x)
        BY <1>1, <1>7, <3>1 DEF NoGap
      <4> QED  BY <1>3, <2>3, <4>1
    <3> QED  BY <1>2, <3>1
  <2>5. CASE k < x.pos
    BY <1>1, <1>3, <2>3, <2>4, <2>5 DEF NoGap
  <2>6. CASE x.pos <= k
    <3>1. k \in x.pos..Len(published[x.run]) /\ ToRestore(x) = {}
      BY <1>2, <1>3, <2>3, <2>4, <2>6 DEF Numbers
    <3>2. ~ (published[x.run][k].id > x.cursor)
      BY <3>1 DEF ToRestore
    <3> QED  BY <1>1, <2>3, <2>4, <3>2, Skipped
  <2> QED  BY <1>3, <2>3, <2>5, <2>6
<1>8. /\ y.since <= Len(published[y.run]) /\ y.since <= Reached(y)
      /\ \A i \in 1..Len(y.queue) : y.queue[i] = Reached(y) + i
      /\ IF y.last = None THEN y.got = {} ELSE \E m \in y.got : published[y.run][m].id = y.last
  BY <1>1, <1>2, <1>4, <1>5 DEF NoGap
<1>9. \A m \in y.got : /\ y.since < m /\ m <= Len(published[y.run])
                      /\ \A k \in y.since + 1..m : Accounted(y, k)
  BY <1>1, <1>4, <1>5 DEF NoGap
<1>10. /\ y.cursor \notin {None, 0} => \E m \in y.got : published[y.run][m].id = y.cursor
       /\ y.cursor = 0 => y.since = 0
  BY <1>1, <1>2, <1>4 DEF NoGap
<1>11. pc \in {"replay", "live"}
  OBVIOUS
<1> HIDE DEF pc
<1>12. NoGap(y)
  BY <1>4, <1>6, <1>7, <1>8, <1>9, <1>10, <1>11 DEF NoGap
<1> QED  BY <1>2, <1>4, <1>12, SetKeeps

\* A client that goes away keeps what it has.
LEMMA LeaveKeeps ==
  ASSUME ReplayInv, NEW c \in Readers, Disconnect(c) \/ TimesOut(c)
  PROVE  ReplayInv'
<1> DEFINE x == reader[c]
           y == [x EXCEPT !.pc = "off", !.queue = <<>>]
<1>1. x \in Connections /\ NoGap(x) /\ TypeOK
  BY DEF ReplayInv, TypeOK
<1>2. Set(c, y)
  <2>1. CASE Disconnect(c)
    BY <2>1 DEF Disconnect
  <2>2. CASE TimesOut(c)
    <3>1. x.queue = <<>> /\ Set(c, [x EXCEPT !.pc = "off"])
      BY <2>2 DEF TimesOut
    <3>2. [x EXCEPT !.pc = "off"] = y
      BY <1>1, <3>1 DEF Connections
    <3> QED  BY <3>1, <3>2
  <2> QED  BY <2>1, <2>2
<1> HIDE DEF x
<1>3. /\ y \in Connections /\ y.run = x.run /\ y.got = x.got /\ y.pc = "off"
      /\ y.since = x.since /\ y.last = x.last
  <2>1. <<>> \in Seq(1..MaxEvents)
    OBVIOUS
  <2> QED  BY <1>1, <2>1 DEF Connections
<1> HIDE DEF y
<1>4. \A k : Accounted(x, k) <=> Accounted(y, k)
  BY <1>3 DEF Accounted
<1>5. NoGap(y)
  BY <1>1, <1>3, <1>4 DEF NoGap
<1> QED  BY <1>2, <1>3, <1>5, SetKeeps

\* Every step of Runs.Stream.join.
LEMMA JoinKeeps ==
  ASSUME ReplayInv, NEW c \in Readers, Join(c)
  PROVE  ReplayInv'
<1>1. CASE Replay(c) \/ Receive(c)
  <2>1. PICK y \in Connections : \E n \in Nat :
          /\ y.run = reader[c].run /\ y.got = reader[c].got
          /\ MayCome(y, n) /\ Set(c, Given(y, n))
    BY <1>1, ReplayGives, ReceiveGives
  <2>2. PICK n \in Nat : MayCome(y, n) /\ Set(c, Given(y, n))
    BY <2>1
  <2>3. Given(y, n) \in Connections /\ NoGap(Given(y, n))
    BY <2>2, GivenKeeps DEF ReplayInv
  <2> QED  BY <2>2, <2>3, SetKeeps
<1> QED  BY <1>1, ConnectKeeps, TurnKeeps, LeaveKeeps DEF Join

-----------------------------------------------------------------------------
\* Steps of the publishers.

\* A message that is put comes last, with the latest id, and to every registered queue;
\* nothing that was stored moves.
LEMMA PutKeeps ==
  ASSUME ReplayInv, NEW s \in Sources, NEW done \in BOOLEAN,
         Len(published[s]) < MaxEvents, Put(s, done), UNCHANGED <<now, runs, active>>
  PROVE  ReplayInv'
<1> DEFINE e == [id |-> now, done |-> done]
           L == Len(published[s])
<1>1. /\ published \in [Sources -> Seq(Messages)] /\ now \in 1..MaxTime
      /\ reader \in [Readers -> Connections] /\ TypeOK /\ IdsGrow
      /\ MaxEvents \in Nat /\ MaxTime \in Nat
  BY BoundAssumption DEF ReplayInv, TypeOK
<1>2. e \in Messages /\ e.id = now
  BY <1>1 DEF Messages
<1>3. published' = [published EXCEPT ![s] = Append(published[s], e)]
  BY DEF Put
<1> HIDE DEF e
<1>4. /\ published'[s] = Append(published[s], e) /\ published'[s] \in Seq(Messages)
      /\ L \in Nat /\ Len(published'[s]) = L + 1 /\ published'[s][L + 1] = e
      /\ \A n \in 1..L : published'[s][n] = published[s][n]
  BY <1>1, <1>2, <1>3, Longer
<1>5. \A r \in Sources : r # s => published'[r] = published[r]
  BY <1>1, <1>3
<1>6. published' \in [Sources -> Seq(Messages)]
  BY <1>1, <1>3, <1>4
<1>7. \A r \in Sources : Len(published'[r]) <= MaxEvents
  <2> TAKE r \in Sources
  <2>1. CASE r = s
    BY <1>1, <1>4, <2>1
  <2>2. CASE r # s
    BY <1>1, <1>5, <2>2 DEF TypeOK
  <2> QED  BY <2>1, <2>2
<1>8. ASSUME NEW c \in Readers
      PROVE  LET x == reader[c] IN
             \/ reader'[c] = x /\ ~ (Registered(c) /\ x.run = s)
             \/ x.run = s /\ Registered(c) /\ reader'[c] = [x EXCEPT !.queue = Append(x.queue, L + 1)]
  BY DEF Put, Number
<1>9. ASSUME NEW c \in Readers
      PROVE  reader'[c] \in Connections
  <2> DEFINE x == reader[c]
  <2>1. x \in Connections
    BY <1>1
  <2>2. L + 1 \in 1..MaxEvents /\ x.queue \in Seq(1..MaxEvents)
    BY <1>1, <1>4, <2>1, ReaderType
  <2>3. Append(x.queue, L + 1) \in Seq(1..MaxEvents)
    BY <2>2, Longer
  <2> HIDE DEF x
  <2>4. [x EXCEPT !.queue = Append(x.queue, L + 1)] \in Connections
    BY <2>1, <2>3 DEF Connections
  <2> QED  BY <1>8, <2>1, <2>4 DEF x
<1>10. TypeOK'
  <2>1. reader' \in [Readers -> Connections]
    <3>1. \E f : reader' = [c \in Readers |-> f[c]]
      BY Zenon DEF Put
    <3> QED  BY <1>9, <3>1
  <2> QED  BY <1>1, <1>6, <1>7, <2>1 DEF TypeOK
<1>11. IdsGrow'
  <2> SUFFICES ASSUME NEW r \in Sources, NEW n \in 1..Len(published'[r])
               PROVE  /\ published'[r][n].id <= now
                      /\ \A m \in 1..n : published'[r][m].id <= published'[r][n].id
    BY DEF IdsGrow, Numbers
  <2>1. CASE r # s
    BY <1>1, <1>5, <2>1 DEF IdsGrow, Numbers
  <2>2. CASE r = s /\ n \in 1..L
    <3>1. \A m \in 1..n : m \in 1..L
      BY <1>4, <2>2
    <3> QED  BY <1>1, <1>4, <2>2, <3>1 DEF IdsGrow, Numbers
  <2>3. CASE r = s /\ n = L + 1
    <3>1. published'[r][n].id = now
      BY <1>2, <1>4, <2>3
    <3>2. \A m \in 1..n : m \in 1..L \/ m = n
      BY <1>4, <2>3
    <3>3. \A m \in 1..L : published'[s][m].id <= now
      BY <1>1, <1>4 DEF IdsGrow, Numbers
    <3>4. now <= now
      BY <1>1
    <3> QED  BY <2>3, <3>1, <3>2, <3>3, <3>4
  <2>4. r = s => n \in 1..L \/ n = L + 1
    BY <1>4
  <2> QED  BY <2>1, <2>2, <2>3, <2>4
<1>12. ASSUME NEW c \in Readers
       PROVE  NoGap(reader[c])'
  <2>1. PICK x \in Connections : x = reader[c]
    BY <1>1
  <2>2. PICK y \in Connections : y = reader'[c]
    BY <1>9
  <2>3. /\ NoGap(x) /\ x.run \in Sources /\ x.got \in SUBSET (1..MaxEvents) /\ x.since \in Nat
        /\ Len(x.queue) \in Nat /\ Len(published[x.run]) \in Nat
        /\ x.queue \in Seq(1..MaxEvents)
    <3>1. x.since \in 0..MaxEvents /\ Len(published[x.run]) \in 0..MaxEvents
      BY <1>1, ReaderType
    <3> QED  BY <1>1, <2>1, <3>1, ReaderType DEF ReplayInv
  <2>4. /\ y.pc = x.pc /\ y.run = x.run /\ y.cursor = x.cursor /\ y.last = x.last
        /\ y.pos = x.pos /\ y.got = x.got /\ y.since = x.since /\ y.end = x.end
        /\ \/ y.queue = x.queue
           \/ x.run = s /\ y.queue = Append(x.queue, L + 1)
    BY <1>8, <2>1, <2>2 DEF Connections
  <2>5. x.run = s /\ x.pc \in {"subscribed", "replay", "live"} => y.queue = Append(x.queue, L + 1)
    BY <1>8, <2>1, <2>2 DEF Connections, Registered
  <2>6. /\ Len(published[x.run]) <= Len(published'[x.run])
        /\ \A n \in 1..Len(published[x.run]) : published'[x.run][n] = published[x.run][n]
    <3>1. CASE x.run = s
      BY <1>4, <3>1
    <3>2. CASE x.run # s
      BY <1>5, <2>3, <3>2
    <3> QED  BY <3>1, <3>2
  <2> DEFINE Acc(k) == \/ published'[y.run][k].done
                       \/ k \in y.got
                       \/ \E m \in y.got : m < k /\ published'[y.run][m].id = published'[y.run][k].id
             Got(i) == \E m \in y.got : published'[y.run][m].id = i
             R == Len(published'[y.run]) - Len(y.queue)
  <2>7. \A m \in x.got : m \in 1..Len(published[x.run])
    BY <2>3 DEF NoGap
  <2>8. \A k \in 1..Len(published[x.run]) : Accounted(x, k) => Acc(k)
    BY <2>4, <2>6, <2>7 DEF Accounted
  <2>9. \A i : (\E m \in x.got : published[x.run][m].id = i) => Got(i)
    BY <2>4, <2>6, <2>7
  <2>10. x.pc \in {"subscribed", "replay", "live"} =>
           R = Reached(x) /\ \A i \in 1..Len(y.queue) : y.queue[i] = Reached(x) + i
    <3> SUFFICES ASSUME x.pc \in {"subscribed", "replay", "live"}
                 PROVE  R = Reached(x) /\ \A i \in 1..Len(y.queue) : y.queue[i] = Reached(x) + i
      OBVIOUS
    <3>1. \A i \in 1..Len(x.queue) : x.queue[i] = Reached(x) + i
      BY <2>3 DEF NoGap
    <3>2. CASE x.run # s
      BY <1>5, <2>3, <2>4, <3>1, <3>2 DEF Reached
    <3>3. CASE x.run = s
      <4>1. L + 1 \in 1..MaxEvents
        BY <1>1, <1>4
      <4>2. /\ y.queue = Append(x.queue, L + 1) /\ Len(y.queue) = Len(x.queue) + 1
            /\ y.queue[Len(x.queue) + 1] = L + 1
            /\ \A i \in 1..Len(x.queue) : y.queue[i] = x.queue[i]
        BY <2>3, <2>5, <3>3, <4>1, Longer
      <4>3. Reached(x) = L - Len(x.queue)
        BY <3>3 DEF Reached
      <4>4. R = Reached(x)
        <5>1. R = (L + 1) - (Len(x.queue) + 1)
          BY <1>4, <2>4, <3>3, <4>2
        <5> QED  BY <1>4, <2>3, <4>3, <5>1, Difference
      <4>5. \A i \in 1..Len(y.queue) : i \in 1..Len(x.queue) \/ i = Len(x.queue) + 1
        BY <2>3, <4>2
      <4>6. L + 1 = Reached(x) + (Len(x.queue) + 1)
        BY <1>4, <2>3, <4>3, Difference
      <4> QED  BY <3>1, <4>2, <4>4, <4>5, <4>6
    <3> QED  BY <3>2, <3>3
  <2> HIDE DEF Acc, Got, R
  <2>11. \A m \in y.got : /\ y.since < m /\ m <= Len(published'[y.run])
                         /\ \A k \in y.since + 1..m : Acc(k)
    <3> SUFFICES ASSUME NEW m \in y.got
                 PROVE  /\ y.since < m /\ m <= Len(published'[y.run])
                        /\ \A k \in y.since + 1..m : Acc(k)
      OBVIOUS
    <3>1. /\ x.since < m /\ m <= Len(published[x.run]) /\ m \in Nat
          /\ \A k \in x.since + 1..m : Accounted(x, k)
      BY <2>3, <2>4, <2>7 DEF NoGap
    <3>2. \A k \in x.since + 1..m : k \in 1..Len(published[x.run])
      BY <2>3, <3>1
    <3>3. m <= Len(published'[y.run])
      BY <2>4, <2>6, <2>7
    <3> QED  BY <2>4, <2>8, <3>1, <3>2, <3>3
  <2>12. \A n \in Nat : /\ n <= Len(published[x.run])
                        /\ \A k \in x.since + 1..n : Accounted(x, k)
                       => \A k \in y.since + 1..n : Acc(k)
    BY <2>3, <2>4, <2>8
  <2>13. y.since <= Len(published'[y.run])
    BY <2>3, <2>4, <2>6 DEF NoGap
  <2>14. IF y.last = None THEN y.got = {} ELSE Got(y.last)
    BY <2>3, <2>4, <2>9 DEF NoGap
  <2>15. y.pc \in {"subscribed", "replay", "live"} =>
           y.since <= R /\ \A i \in 1..Len(y.queue) : y.queue[i] = R + i
    BY <2>3, <2>4, <2>10 DEF NoGap
  <2>16. y.pc \in {"subscribed", "replay"} =>
           /\ y.cursor \notin {None, 0} => Got(y.cursor)
           /\ y.cursor = 0 => y.since = 0
    BY <2>3, <2>4, <2>9 DEF NoGap
  <2>17. y.pc = "subscribed" => y.pos = 1 /\ (y.cursor = None => y.since = R)
    BY <2>3, <2>4, <2>10 DEF NoGap
  <2>18. y.pc = "replay" => /\ y.cursor # None /\ y.pos <= Len(published'[y.run]) + 1
                           /\ \A k \in y.since + 1..y.pos - 1 : Acc(k)
    <3> SUFFICES ASSUME x.pc = "replay"
                 PROVE  /\ x.cursor # None /\ x.pos <= Len(published'[x.run]) + 1
                        /\ \A k \in y.since + 1..x.pos - 1 : Acc(k)
      BY <2>4
    <3>1. /\ x.cursor # None /\ x.pos <= Len(published[x.run]) + 1
          /\ \A k \in x.since + 1..x.pos - 1 : Accounted(x, k)
      BY <2>3 DEF NoGap
    <3>2. x.pos \in 1..MaxEvents + 1
      BY <1>1, ReaderType
    <3>3. x.pos - 1 \in Nat /\ x.pos - 1 <= Len(published[x.run])
      BY <1>1, <2>3, <3>1, <3>2
    <3>4. Len(published'[x.run]) \in Nat
      BY <1>6, <2>3, LenProperties
    <3>5. x.pos <= Len(published'[x.run]) + 1
      BY <1>1, <2>3, <2>6, <3>1, <3>2, <3>4
    <3> QED  BY <2>12, <3>1, <3>3, <3>5
  <2>19. y.pc = "live" => \A k \in y.since + 1..R : Acc(k)
    <3> SUFFICES ASSUME x.pc = "live" PROVE \A k \in y.since + 1..R : Acc(k)
      BY <2>4
    <3>1. /\ R = Reached(x) /\ x.since <= Reached(x)
          /\ \A k \in x.since + 1..Reached(x) : Accounted(x, k)
      BY <2>3, <2>10 DEF NoGap
    <3>2. Reached(x) \in Int /\ Reached(x) <= Len(published[x.run])
      BY <2>3, Difference DEF Reached
    <3>3. Reached(x) \in Nat
      BY <2>3, <3>1, <3>2
    <3> QED  BY <2>12, <3>1, <3>2, <3>3
  <2>20. y.pc = "closed" =>
           y.end <= Len(published'[y.run]) /\ \A k \in y.since + 1..y.end - 1 : Acc(k)
    <3> SUFFICES ASSUME x.pc = "closed"
                 PROVE  /\ x.end <= Len(published'[x.run])
                        /\ \A k \in y.since + 1..x.end - 1 : Acc(k)
      BY <2>4
    <3>1. /\ x.end <= Len(published[x.run])
          /\ \A k \in x.since + 1..x.end - 1 : Accounted(x, k)
      BY <2>3 DEF NoGap
    <3>2. x.end \in 0..MaxEvents
      BY <1>1, ReaderType
    <3>3. Len(published'[x.run]) \in Nat
      BY <1>6, <2>3, LenProperties
    <3>4. x.end <= Len(published'[x.run])
      BY <1>1, <2>3, <2>6, <3>1, <3>2, <3>3
    <3>5. \A k \in x.since + 1..x.end - 1 : k \in 1..Len(published[x.run])
      BY <1>1, <2>3, <3>1, <3>2
    <3> QED  BY <2>4, <2>8, <3>1, <3>4, <3>5
  <2>21. \A k : Accounted(reader[c], k)' <=> Acc(k)
    BY <2>2 DEF Accounted, Acc
  <2>22. Reached(reader[c])' = R
    BY <2>2 DEF Reached, R
  <2>23. \A i : Got(i) <=> \E m \in y.got : published'[y.run][m].id = i
    BY DEF Got
  <2> QED  BY <2>2, <2>11, <2>13, <2>14, <2>15, <2>16, <2>17, <2>18, <2>19, <2>20, <2>21, <2>22,
              <2>23 DEF NoGap
<1> QED  BY <1>10, <1>11, <1>12 DEF ReplayInv

\* A step that leaves streams and readers alone: the clock may go on, runs come and end.
LEMMA QuietKeeps ==
  ASSUME ReplayInv, UNCHANGED <<published, reader>>, now' \in 1..MaxTime, now <= now',
         runs' \in Seq(Runs), IsInjective(runs'), active' \subseteq ToSet(runs')
  PROVE  ReplayInv'
<1>1. TypeOK'
  BY DEF ReplayInv, TypeOK
<1>2. IdsGrow'
  <2> SUFFICES ASSUME NEW s \in Sources, NEW n \in Numbers(s)
               PROVE  /\ published[s][n].id <= now'
                      /\ \A m \in 1..n : published[s][m].id <= published[s][n].id
    BY DEF IdsGrow, Numbers
  <2>1. published[s] \in Seq(Messages)
    BY DEF ReplayInv, TypeOK
  <2>2. published[s][n] \in Messages
    BY <2>1, ElementOfSeq DEF Numbers
  <2>3. /\ published[s][n].id \in 1..MaxTime /\ published[s][n].id <= now
        /\ now \in 1..MaxTime /\ MaxTime \in Nat
        /\ \A m \in 1..n : published[s][m].id <= published[s][n].id
    BY <2>2, BoundAssumption DEF ReplayInv, IdsGrow, TypeOK, Messages
  <2> QED  BY <2>3
<1>3. \A c \in Readers : NoGap(reader[c])'
  <2> TAKE c \in Readers
  <2>1. \A k : Accounted(reader[c], k)' <=> Accounted(reader[c], k)
    BY DEF Accounted
  <2>2. Reached(reader[c])' = Reached(reader[c])
    BY DEF Reached
  <2> QED  BY <2>1, <2>2 DEF NoGap, ReplayInv
<1> QED  BY <1>1, <1>2, <1>3 DEF ReplayInv

\* A new run comes last, and only once.
LEMMA NewRunKeeps ==
  ASSUME ReplayInv, NEW r \in Runs, NewRun(r)
  PROVE  ReplayInv'
<1>1. /\ r \notin ToSet(runs) /\ runs' = Append(runs, r) /\ active' = active \cup {r}
      /\ UNCHANGED <<now, published, reader>>
      /\ runs \in Seq(Runs) /\ IsInjective(runs) /\ active \subseteq ToSet(runs)
      /\ now \in 1..MaxTime /\ MaxTime \in Nat
  BY BoundAssumption DEF NewRun, ReplayInv, TypeOK
<1>2. /\ Append(runs, r) \in Seq(Runs) /\ Len(runs) \in Nat
      /\ Len(Append(runs, r)) = Len(runs) + 1 /\ Append(runs, r)[Len(runs) + 1] = r
      /\ \A i \in 1..Len(runs) : Append(runs, r)[i] = runs[i]
  BY <1>1, Longer
<1>3. DOMAIN runs = 1..Len(runs) /\ DOMAIN runs' = 1..Len(runs) + 1
  BY <1>1, <1>2, LenProperties
<1>4. /\ ToSet(runs) = {runs[i] : i \in 1..Len(runs)}
      /\ ToSet(runs') = {runs'[i] : i \in 1..Len(runs) + 1}
  BY <1>3 DEF ToSet
<1>5. \A i \in 1..Len(runs) + 1 : i \in 1..Len(runs) \/ i = Len(runs) + 1
  BY <1>2
<1>6. \A i \in 1..Len(runs) : runs'[i] = runs[i] /\ runs[i] # r
  BY <1>1, <1>2, <1>4
<1>7. runs'[Len(runs) + 1] = r
  BY <1>1, <1>2
<1>8. IsInjective(runs')
  <2> SUFFICES ASSUME NEW i \in 1..Len(runs) + 1, NEW j \in 1..Len(runs) + 1, runs'[i] = runs'[j]
               PROVE  i = j
    BY <1>3 DEF IsInjective
  <2>1. CASE i \in 1..Len(runs) /\ j \in 1..Len(runs)
    BY <1>1, <1>3, <1>6, <2>1 DEF IsInjective
  <2>2. CASE i = Len(runs) + 1 \/ j = Len(runs) + 1
    BY <1>5, <1>6, <1>7, <2>2
  <2> QED  BY <1>5, <2>1, <2>2
<1>9. active' \subseteq ToSet(runs')
  <2>1. Len(runs) + 1 \in 1..Len(runs) + 1 /\ \A i \in 1..Len(runs) : i \in 1..Len(runs) + 1
    BY <1>2
  <2>2. r \in ToSet(runs') /\ ToSet(runs) \subseteq ToSet(runs')
    BY <1>4, <1>6, <1>7, <2>1
  <2> QED  BY <1>1, <2>2
<1> QED  BY <1>1, <1>2, <1>8, <1>9, QuietKeeps

\* A watcher changes nothing but its own connection.
LEMMA WatchesOnly ==
  ASSUME NEW w \in Watchers, JoinThread(w)
  PROVE  UNCHANGED <<now, runs, active, published, reader>>
<1>1. ASSUME NEW x, Watch(w, x)
      PROVE  UNCHANGED <<now, runs, active, published, reader>>
  BY <1>1 DEF Watch
<1>2. \E x : Watch(w, x)
  <2>1. CASE WatchReplays(w)
    BY <2>1, Zenon DEF WatchReplays
  <2>2. CASE WatchSubscribes(w)
    BY <2>2, Zenon DEF WatchSubscribes
  <2>3. CASE WatchDrains(w)
    BY <2>3, Zenon DEF WatchDrains
  <2>4. CASE WatchSleeps(w) \/ WatchLeaves(w) \/ \E from \in Ids : WatchStarts(w, from)
    BY <2>4, Zenon DEF WatchSleeps, WatchLeaves, WatchStarts
  <2> QED  BY <2>1, <2>2, <2>3, <2>4 DEF JoinThread
<1> QED  BY <1>1, <1>2

\* Every step keeps the invariant.
LEMMA StepKeeps ==
  ASSUME ReplayInv, [Next]_vars
  PROVE  ReplayInv'
<1> USE BoundAssumption
<1>1. /\ now \in 1..MaxTime /\ runs \in Seq(Runs) /\ IsInjective(runs) /\ active \subseteq ToSet(runs)
  BY DEF ReplayInv, TypeOK
<1>2. CASE Tick
  <2>1. now' \in 1..MaxTime /\ now <= now' /\ UNCHANGED <<runs, active, published, reader>>
    BY <1>1, <1>2 DEF Tick
  <2> QED  BY <1>1, <2>1, QuietKeeps
<1>3. ASSUME NEW r \in Runs, NewRun(r)
      PROVE  ReplayInv'
  BY <1>3, NewRunKeeps
<1>4. ASSUME NEW r \in Runs, RunOver(r)
      PROVE  ReplayInv'
  <2>1. now <= now /\ active' \subseteq ToSet(runs) /\ UNCHANGED <<now, runs, published, reader>>
    BY <1>1, <1>4 DEF RunOver
  <2> QED  BY <1>1, <2>1, QuietKeeps
<1>5. ASSUME NEW r \in Runs, NEW done \in BOOLEAN, Publish(r, done)
      PROVE  ReplayInv'
  <2>1. r \in Sources /\ Len(published[r]) < MaxEvents /\ Put(r, done) /\ UNCHANGED <<now, runs, active>>
    BY <1>5 DEF Publish, Sources
  <2> QED  BY <2>1, PutKeeps
<1>6. CASE PublishThread
  <2>1. /\ Thread \in Sources /\ Len(published[Thread]) < MaxEvents /\ Put(Thread, FALSE)
        /\ UNCHANGED <<now, runs, active>>
    BY <1>6 DEF PublishThread, Sources
  <2> QED  BY <2>1, PutKeeps
<1>7. ASSUME NEW c \in Readers, Join(c)
      PROVE  ReplayInv'
  BY <1>7, JoinKeeps
<1>8. ASSUME NEW w \in Watchers, JoinThread(w)
      PROVE  ReplayInv'
  <2>1. UNCHANGED <<now, runs, active, published, reader>>
    BY <1>8, WatchesOnly
  <2>2. now <= now
    BY <1>1
  <2> QED  BY <1>1, <2>1, <2>2, QuietKeeps
<1>9. CASE UNCHANGED vars
  <2>1. UNCHANGED <<now, runs, active, published, reader>> /\ now <= now
    BY <1>1, <1>9 DEF vars
  <2> QED  BY <1>1, <2>1, QuietKeeps
<1> QED  BY <1>2, <1>3, <1>4, <1>5, <1>6, <1>7, <1>8, <1>9 DEF Next

\* At the start nothing is published, and nobody reads.
LEMMA InitReplay == Init => ReplayInv
<1> SUFFICES ASSUME Init PROVE ReplayInv
  OBVIOUS
<1> USE BoundAssumption
<1>1. now \in 1..MaxTime /\ runs \in Seq(Runs) /\ IsInjective(runs) /\ active \subseteq ToSet(runs)
  BY DEF Init, IsInjective
<1>2. /\ published \in [Sources -> Seq(Messages)]
      /\ \A s \in Sources : Len(published[s]) = 0
  BY DEF Init
<1>3. ASSUME NEW c \in Readers
      PROVE  /\ reader[c] \in Connections /\ NoGap(reader[c])
  <2>1. PICK r \in Runs : reader[c] = [pc |-> "off", run |-> r, cursor |-> None, last |-> None,
                                      pos |-> 1, queue |-> <<>>, got |-> {}, since |-> 0, end |-> 0]
    BY DEF Init
  <2>2. /\ None \in Ids /\ 1 \in 1..MaxEvents + 1 /\ 0 \in 0..MaxEvents
        /\ <<>> \in Seq(1..MaxEvents)
    BY DEF None, Ids
  <2>3. reader[c] \in Connections
    BY <2>1, <2>2 DEF Connections
  <2>4. r \in Sources
    BY DEF Sources
  <2> QED  BY <1>2, <2>1, <2>3, <2>4 DEF NoGap
<1>4. reader \in [Readers -> Connections]
  <2>1. \E f : reader = [c \in Readers |-> f[c]]
    BY Zenon DEF Init
  <2> QED  BY <1>3, <2>1
<1>5. TypeOK
  BY <1>1, <1>2, <1>4 DEF TypeOK
<1>6. IdsGrow
  BY <1>2 DEF IdsGrow, Numbers
<1> QED  BY <1>3, <1>5, <1>6 DEF ReplayInv

-----------------------------------------------------------------------------
\* In every state the ids of a stream grow, and no reader has a gap between what it has
\* and what its connection will still give it (StreamManager.put, Runs.Stream.join).
THEOREM ReplayInvariant == Spec => []ReplayInv
BY InitReplay, StepKeeps, PTL DEF Spec

\* A reader that a done message has sent away has every event that came before it and that
\* it had asked for, or one of the same millisecond, however often it was disconnected.
THEOREM AllEventsArrive == Spec => []EventsArrive
<1>1. ReplayInv => EventsArrive
  BY DEF ReplayInv, NoGap, Accounted, EventsArrive
<1> QED  BY <1>1, ReplayInvariant, PTL

\* Only the replay and the queue bring a client anything.
LEMMA OnlyReading ==
  ASSUME ReplayInv, NEW c \in Readers, [Next]_vars, reader'[c].got # reader[c].got
  PROVE  Replay(c) \/ Receive(c)
<1>1. reader \in [Readers -> Connections]
  BY DEF ReplayInv, TypeOK
<1>2. ASSUME NEW x, NEW d \in Readers, Set(d, x), d # c \/ x.got = reader[c].got
      PROVE  FALSE
  BY <1>1, <1>2 DEF Set
<1>3. ASSUME NEW s \in Sources, NEW done \in BOOLEAN, Put(s, done)
      PROVE  FALSE
  <2>1. reader'[c] \in {reader[c], [reader[c] EXCEPT !.queue = Append(@, Number(s))]}
    BY <1>3 DEF Put
  <2> QED  BY <1>1, <2>1 DEF Connections
<1>4. ASSUME NEW d \in Readers, Join(d)
      PROVE  Replay(c) \/ Receive(c)
  <2>1. ASSUME NEW from \in Ids, Connect(d, from)
        PROVE  FALSE
    <3>1. PICK since : Set(d, [reader[d] EXCEPT !.pc = "subscribed", !.cursor = from, !.pos = 1,
                                              !.queue = <<>>, !.since = since])
      BY <2>1, Zenon DEF Connect
    <3>2. [reader[d] EXCEPT !.pc = "subscribed", !.cursor = from, !.pos = 1,
                            !.queue = <<>>, !.since = since].got = reader[d].got
      BY <1>1 DEF Connections
    <3> QED  BY <1>2, <3>1, <3>2
  <2>2. CASE Authorized(d) \/ ReplayEnds(d)
    <3>1. PICK pc : Set(d, [reader[d] EXCEPT !.pc = pc])
      BY <2>2, Zenon DEF Authorized, ReplayEnds
    <3>2. [reader[d] EXCEPT !.pc = pc].got = reader[d].got
      BY <1>1 DEF Connections
    <3> QED  BY <1>2, <3>1, <3>2
  <2>3. CASE Disconnect(d)
    <3>1. Set(d, [reader[d] EXCEPT !.pc = "off", !.queue = <<>>])
      BY <2>3 DEF Disconnect
    <3>2. [reader[d] EXCEPT !.pc = "off", !.queue = <<>>].got = reader[d].got
      BY <1>1 DEF Connections
    <3> QED  BY <1>2, <3>1, <3>2
  <2>4. CASE TimesOut(d)
    <3>1. Set(d, [reader[d] EXCEPT !.pc = "off"])
      BY <2>4 DEF TimesOut
    <3>2. [reader[d] EXCEPT !.pc = "off"].got = reader[d].got
      BY <1>1 DEF Connections
    <3> QED  BY <1>2, <3>1, <3>2
  <2>5. CASE (Replay(d) \/ Receive(d)) /\ d # c
    <3>1. \E x : Set(d, x)
      BY <2>5, Zenon DEF Replay, Receive
    <3> QED  BY <1>2, <2>5, <3>1
  <2> QED  BY <1>4, <2>1, <2>2, <2>3, <2>4, <2>5 DEF Join
<1>5. ASSUME NEW r \in Runs, NEW done \in BOOLEAN, Publish(r, done)
      PROVE  FALSE
  BY <1>3, <1>5 DEF Publish, Sources
<1>6. CASE PublishThread
  BY <1>3, <1>6 DEF PublishThread, Sources
<1>7. CASE Tick \/ (\E r \in Runs : NewRun(r) \/ RunOver(r)) \/ UNCHANGED vars
  BY <1>7 DEF Tick, NewRun, RunOver, vars
<1>8. ASSUME NEW w \in Watchers, JoinThread(w)
      PROVE  FALSE
  BY <1>8, WatchesOnly
<1> QED  BY <1>4, <1>5, <1>6, <1>7, <1>8 DEF Next

\* What comes for the first time is later than all that came before, for all that came
\* before leaves no gap; or a message of its millisecond came before.
LEMMA NewIsLate ==
  ASSUME ReplayInv, [Next]_vars, NEW c \in Readers, NEW n \in reader'[c].got \ reader[c].got
  PROVE  LET id(k) == published[reader[c].run][k].id IN
           \/ \A m \in reader[c].got : m < n
           \/ \E m \in reader[c].got : m < n /\ id(m) = id(n)
<1>1. PICK y \in Connections : \E k \in Nat :
        /\ y.run = reader[c].run /\ y.got = reader[c].got
        /\ MayCome(y, k) /\ Set(c, Given(y, k))
  BY OnlyReading, ReplayGives, ReceiveGives
<1>2. PICK k \in Nat : MayCome(y, k) /\ Set(c, Given(y, k))
  BY <1>1
<1>3. y.run = reader[c].run /\ y.got = reader[c].got
  BY <1>1
<1>4. reader'[c] = Given(y, k)
  BY <1>2 DEF Set, ReplayInv, TypeOK
<1>5. ~ published[y.run][k].done
  <2> SUFFICES ASSUME published[y.run][k].done PROVE FALSE
    OBVIOUS
  <2>1. Given(y, k) = [y EXCEPT !.pc = "closed", !.end = k, !.queue = <<>>]
    BY DEF Given
  <2>2. Given(y, k).got = y.got
    BY <2>1 DEF Connections
  <2> QED  BY <1>3, <1>4, <2>2
<1>6. n = k
  <2>1. Given(y, k) = [y EXCEPT !.got = y.got \cup {k}, !.last = published[y.run][k].id]
    BY <1>5 DEF Given
  <2>2. Given(y, k).got = y.got \cup {k}
    BY <2>1 DEF Connections
  <2> QED  BY <1>3, <1>4, <2>2
<1>7. ASSUME NEW m \in y.got, ~ (m < n)
      PROVE  \E j \in y.got : j < n /\ published[y.run][j].id = published[y.run][n].id
  <2>1. m \in Nat /\ y.since \in Nat
    <3>1. y.got \in SUBSET (1..MaxEvents) /\ y.since \in 0..MaxEvents /\ MaxEvents \in Nat
      BY ReaderType DEF ReplayInv
    <3> QED  BY <3>1
  <2>2. k \in y.since + 1..m
    BY <1>2, <1>6, <1>7, <2>1 DEF MayCome
  <2>3. Accounted(y, k)
    BY <1>2, <2>2 DEF MayCome
  <2> QED  BY <1>3, <1>5, <1>6, <2>3 DEF Accounted
<1> QED  BY <1>3, <1>7

\* A message that comes for the first time is later than all that came before, but for one
\* of the same millisecond as an earlier one that came.
THEOREM EventsInOrder == Spec => NewInOrder
<1> DEFINE A == \A c \in Readers :
                  LET id(n) == published[reader[c].run][n].id IN
                    \A n \in reader'[c].got \ reader[c].got :
                      \/ \A m \in reader[c].got : m < n
                      \/ \E m \in reader[c].got : m < n /\ id(m) = id(n)
<1>1. ReplayInv /\ [Next]_vars => A
  BY NewIsLate
<1>2. Spec => [][A]_vars
  BY <1>1, ReplayInvariant, PTL DEF Spec
<1> QED  BY <1>2 DEF NewInOrder

-----------------------------------------------------------------------------
(* Watchers                                                                  *)

Rank(P, p) == Cardinality({k \in P : k <= p})

\* The places of a list can be numbered in their order.
LEMMA Ranks ==
  ASSUME NEW n \in Nat, NEW P \in SUBSET (1..n)
  PROVE  /\ IsFiniteSet(P) /\ Cardinality(P) \in Nat
         /\ \A p \in P : Rank(P, p) \in 1..Cardinality(P)
         /\ \A p, q \in P : Rank(P, p) = Rank(P, q) => p = q
         /\ \A i \in 1..Cardinality(P) : \E p \in P : Rank(P, p) = i
<1>1. IsFiniteSet(P) /\ Cardinality(P) \in Nat
  <2>1. IsFiniteSet(1..n)
    BY FS_Interval
  <2>2. IsFiniteSet(P)
    BY <2>1, FS_Subset
  <2> QED  BY <2>2, FS_CardinalityType
<1> DEFINE Up(p) == {k \in P : k <= p}
<1>2. ASSUME NEW p \in P
      PROVE  /\ IsFiniteSet(Up(p)) /\ Rank(P, p) = Cardinality(Up(p))
             /\ Rank(P, p) \in 1..Cardinality(P)
  <2>1. Up(p) \in SUBSET P
    OBVIOUS
  <2>2. IsFiniteSet(Up(p)) /\ Cardinality(Up(p)) <= Cardinality(P)
    BY <1>1, <2>1, FS_Subset
  <2>3. Cardinality(Up(p)) \in Nat
    BY <2>2, FS_CardinalityType
  <2>4. p \in Up(p)
    OBVIOUS
  <2>5. Cardinality(Up(p)) # 0
    BY <2>2, <2>4, FS_EmptySet
  <2>6. Rank(P, p) = Cardinality(Up(p))
    BY DEF Rank
  <2> HIDE DEF Up
  <2> QED  BY <1>1, <2>2, <2>3, <2>5, <2>6
<1>3. ASSUME NEW p \in P, NEW q \in P, p < q
      PROVE  Rank(P, p) # Rank(P, q)
  <2>1. Up(p) \in SUBSET Up(q)
    <3>1. \A k \in P : k <= p => k <= q
      BY <1>3
    <3> QED  BY <3>1
  <2>2. q \in Up(q) /\ q \notin Up(p)
    BY <1>3
  <2>3. IsFiniteSet(Up(q)) /\ Rank(P, p) = Cardinality(Up(p)) /\ Rank(P, q) = Cardinality(Up(q))
    BY <1>2
  <2> HIDE DEF Up
  <2>4. SUFFICES ASSUME Cardinality(Up(q)) = Cardinality(Up(p)) PROVE FALSE
    BY <2>3
  <2>5. Up(q) = Up(p)
    BY <2>1, <2>3, <2>4, FS_Subset
  <2> QED  BY <2>2, <2>5
<1>4. \A p, q \in P : Rank(P, p) = Rank(P, q) => p = q
  <2> TAKE p, q \in P
  <2>1. p < q \/ q < p \/ p = q
    OBVIOUS
  <2> QED  BY <2>1, <1>3
<1> DEFINE f == [p \in P |-> Rank(P, p)]
<1>5. f \in Injection(P, 1..Cardinality(P))
  <2>1. f \in [P -> 1..Cardinality(P)]
    BY <1>2
  <2> QED  BY <2>1, <1>4 DEF Injection, IsInjective
<1>6. IsFiniteSet(1..Cardinality(P)) /\ Cardinality(1..Cardinality(P)) = Cardinality(P)
  BY <1>1, FS_Interval
<1>7. f \in Surjection(P, 1..Cardinality(P))
  <2> HIDE DEF f
  <2> QED  BY <1>5, <1>6, FS_Injection
<1>8. \A i \in 1..Cardinality(P) : \E p \in P : f[p] = i
  <2> HIDE DEF f
  <2> QED  BY <1>7 DEF Surjection
<1>9. \A i \in 1..Cardinality(P) : \E p \in P : Rank(P, p) = i
  BY <1>8
<1> QED  BY <1>1, <1>2, <1>4, <1>9

\* At(list, P) is a list of what is at the places P, each once.
LEMMA AtPlaces ==
  ASSUME NEW S, NEW list \in Seq(S), NEW P \in SUBSET (1..Len(list))
  PROVE  /\ At(list, P) \in Seq(S) /\ Len(At(list, P)) \in Nat
         /\ \E h \in [1..Len(At(list, P)) -> P] :
              /\ \A i \in 1..Len(At(list, P)) : At(list, P)[i] = list[h[i]]
              /\ \A i, j \in 1..Len(At(list, P)) : h[i] = h[j] => i = j
              /\ \A p \in P : \E i \in 1..Len(At(list, P)) : h[i] = p
<1>1. Len(list) \in Nat
  BY LenProperties
<1> DEFINE n == Cardinality(P)
           h == [i \in 1..n |-> CHOOSE p \in P : Rank(P, p) = i]
<1>2. n \in Nat
  BY <1>1, Ranks
<1>3. \A i \in 1..n : h[i] \in P /\ Rank(P, h[i]) = i
  BY <1>1, Ranks
<1>4. \A p \in P : h[Rank(P, p)] = p /\ Rank(P, p) \in 1..n
  <2> TAKE p \in P
  <2>1. Rank(P, p) \in 1..n
    BY <1>1, Ranks
  <2>2. h[Rank(P, p)] \in P /\ Rank(P, h[Rank(P, p)]) = Rank(P, p)
    BY <1>3, <2>1
  <2> HIDE DEF h
  <2> QED  BY <1>1, <2>1, <2>2, Ranks
<1>5. At(list, P) = [i \in 1..n |-> list[h[i]]]
  BY DEF At, Rank
<1>6. h \in [1..n -> P]
  BY <1>3
<1> HIDE DEF h, n
<1>7. \A i \in 1..n : list[h[i]] \in S
  BY <1>3, <1>1, ElementOfSeq
<1>8. At(list, P) \in Seq(S) /\ Len(At(list, P)) = n
  BY <1>2, <1>5, <1>7, IsASeq
<1>9. \A i \in 1..n : At(list, P)[i] = list[h[i]]
  BY <1>5
<1>10. \A i, j \in 1..n : h[i] = h[j] => i = j
  BY <1>3
<1>11. \A p \in P : \E i \in 1..n : h[i] = p
  BY <1>4
<1> QED  BY <1>2, <1>6, <1>8, <1>9, <1>10, <1>11


-----------------------------------------------------------------------------
\* The stream of a source, and the parts of a watcher's connection.
LEMMA StreamType ==
  ASSUME TypeOK, NEW s \in Sources
  PROVE  /\ published[s] \in Seq(Messages) /\ Len(published[s]) \in 0..MaxEvents
         /\ Len(published[s]) \in Nat /\ MaxEvents \in Nat
         /\ Numbers(s) = 1..Len(published[s]) /\ Numbers(s) \subseteq 1..MaxEvents
         /\ \A n \in Numbers(s) : published[s][n].id \in Ids /\ published[s][n].id \in Nat
<1>1. MaxEvents \in Nat /\ MaxTime \in Nat
  BY BoundAssumption
<1>2. published[s] \in Seq(Messages) /\ Len(published[s]) <= MaxEvents
  BY DEF TypeOK
<1>3. Len(published[s]) \in Nat
  BY <1>2, LenProperties
<1>4. \A n \in Numbers(s) : published[s][n] \in Messages
  BY <1>2, ElementOfSeq DEF Numbers
<1>5. \A n \in Numbers(s) : published[s][n].id \in 1..MaxTime
  BY <1>4 DEF Messages
<1> QED  BY <1>1, <1>2, <1>3, <1>5 DEF Numbers, Ids, None

LEMMA WatchingType ==
  ASSUME NEW x \in Watching
  PROVE  /\ x.todo \in Seq(Places) /\ Len(x.todo) \in Nat
         /\ \A i \in 1..Len(x.todo) : x.todo[i] \in Places
         /\ x.queues \in Seq(Queues) /\ Len(x.queues) \in Nat
         /\ \A i \in 1..Len(x.queues) : x.queues[i] \in Queues
         /\ x.told \in [Sources -> Seq(1..MaxEvents)]
         /\ \A s \in Sources : /\ Len(x.told[s]) \in Nat
                              /\ \A i \in 1..Len(x.told[s]) : x.told[s][i] \in 1..MaxEvents
         /\ x.at \in Nat \ {0} /\ x.last \in Ids
<1>1. /\ x.todo \in Seq(Places) /\ x.queues \in Seq(Queues)
      /\ x.told \in [Sources -> Seq(1..MaxEvents)]
      /\ x.at \in Nat \ {0} /\ x.last \in Ids
  BY DEF Watching
<1>2. \A s \in Sources : x.told[s] \in Seq(1..MaxEvents)
  BY <1>1
<1> QED  BY <1>1, <1>2, LenProperties, ElementOfSeq

LEMMA QueueType ==
  ASSUME NEW q \in Queues
  PROVE  /\ q.source \in Sources /\ q.base \in 0..MaxEvents /\ q.held \in Seq(1..MaxEvents)
         /\ Len(q.held) \in Nat /\ DOMAIN q.held = 1..Len(q.held)
<1>1. q.source \in Sources /\ q.base \in 0..MaxEvents /\ q.held \in Seq(1..MaxEvents)
  BY DEF Queues
<1> QED  BY <1>1, LenProperties

\* A later message is told in order.
LEMMA ToldInStep ==
  ASSUME TypeOK, NEW x \in Watching, InStep(x), NEW s \in Sources, NEW n \in Numbers(s),
         \A i \in 1..Len(x.told[s]) : x.told[s][i] < n, NEW z, z = Told(x, s, n)
  PROVE  /\ z.pc = x.pc /\ z.todo = x.todo /\ z.queues = x.queues /\ z.at = x.at
         /\ z \in Watching /\ InStep(z)
         /\ \A t \in Sources : t # s => z.told[t] = x.told[t]
         /\ Len(z.told[s]) = Len(x.told[s]) + 1 /\ z.told[s][Len(x.told[s]) + 1] = n
         /\ \A i \in 1..Len(x.told[s]) : z.told[s][i] = x.told[s][i]
<1> DEFINE t == Append(x.told[s], n)
           told == [x.told EXCEPT ![s] = t]
           last == published[s][n].id
           y == [x EXCEPT !.told = told, !.last = last]
<1>1. Told(x, s, n) = y
  BY DEF Told
<1>2. /\ n \in 1..MaxEvents /\ last \in Ids /\ x.told \in [Sources -> Seq(1..MaxEvents)]
      /\ Numbers(s) \subseteq 1..MaxEvents /\ MaxEvents \in Nat
  BY StreamType, WatchingType
<1>3. /\ t \in Seq(1..MaxEvents) /\ Len(x.told[s]) \in Nat /\ Len(t) = Len(x.told[s]) + 1
      /\ t[Len(x.told[s]) + 1] = n
      /\ \A i \in 1..Len(x.told[s]) : t[i] = x.told[s][i]
  BY <1>2, Longer
<1> HIDE DEF t
<1>4. /\ told \in [Sources -> Seq(1..MaxEvents)] /\ told[s] = t
      /\ \A r \in Sources : r # s => told[r] = x.told[r]
  BY <1>2, <1>3
<1> HIDE DEF told, last
<1>5. y \in Watching /\ y.told = told /\ y.last = last
  BY <1>2, <1>4 DEF Watching
<1>6. InOrder(t)
  <2>1. DOMAIN t = 1..Len(x.told[s]) + 1 /\ DOMAIN x.told[s] = 1..Len(x.told[s])
    BY <1>2, <1>3, LenProperties
  <2>2. InOrder(x.told[s])
    BY DEF InStep
  <2> SUFFICES ASSUME NEW i \in 1..Len(x.told[s]) + 1, NEW j \in 1..Len(x.told[s]) + 1, i < j
               PROVE  t[i] < t[j]
    BY <2>1 DEF InOrder
  <2>3. i \in 1..Len(x.told[s])
    BY <1>3
  <2>4. CASE j \in 1..Len(x.told[s])
    BY <1>3, <2>1, <2>2, <2>3, <2>4 DEF InOrder
  <2>5. CASE j = Len(x.told[s]) + 1
    BY <1>3, <2>3, <2>5
  <2> QED  BY <1>3, <2>4, <2>5
<1>7. \A i \in 1..Len(t) : t[i] \in Numbers(s)
  <2>1. \A i \in 1..Len(t) : i \in 1..Len(x.told[s]) \/ i = Len(x.told[s]) + 1
    BY <1>3
  <2> QED  BY <1>3, <2>1 DEF InStep
<1>8. InStep(y)
  <2> HIDE DEF y
  <2> SUFFICES ASSUME NEW r \in Sources
               PROVE  InOrder(y.told[r]) /\ \A i \in 1..Len(y.told[r]) : y.told[r][i] \in Numbers(r)
    BY DEF InStep
  <2>1. CASE r = s
    BY <1>4, <1>5, <1>6, <1>7, <2>1
  <2>2. CASE r # s
    BY <1>4, <1>5, <2>2 DEF InStep
  <2> QED  BY <2>1, <2>2
<1>9. y.pc = x.pc /\ y.todo = x.todo /\ y.queues = x.queues /\ y.at = x.at
  BY <1>5 DEF Watching
<1> HIDE DEF y
<1>10. z = y
  BY <1>1
<1> QED  BY <1>3, <1>4, <1>5, <1>8, <1>9, <1>10

\* What is said of a connection is said of it as long as no message is put.
LEMMA StaysWatched ==
  ASSUME NEW z, NEW w \in Watchers, Watched(z), watcher'[w] = z, UNCHANGED published
  PROVE  Watched(watcher[w])'
<1>1. InStep(watcher[w])'
  BY DEF Watched, InStep, InOrder, Numbers
<1>2. Ahead(watcher[w])'
  BY DEF Watched, Ahead, Numbers
<1>3. ASSUME NEW i \in 1..Len(z.queues)
      PROVE  UpTo(watcher[w], watcher[w].queues[i])'
  <2>1. UpTo(z, z.queues[i])
    BY DEF Watched
  <2>2. watcher'[w].queues[i] = z.queues[i] /\ watcher'[w] = z /\ published' = published
    OBVIOUS
  <2> QED  BY <2>1, <2>2 DEF UpTo
<1> QED  BY <1>1, <1>2, <1>3 DEF Watched

\* A watcher that goes on as it should.
LEMMA WatchKeeps ==
  ASSUME WatchInv, ReplayInv', NEW w \in Watchers, NEW y \in Watching, Watched(y), Watch(w, y)
  PROVE  WatchInv'
<1>1. UNCHANGED published /\ watcher' = [watcher EXCEPT ![w] = y] /\ watcher \in [Watchers -> Watching]
  BY DEF Watch, WatchInv
<1>2. watcher' \in [Watchers -> Watching]
  BY <1>1
<1>3. ASSUME NEW v \in Watchers PROVE Watched(watcher[v])'
  <2> DEFINE z == IF v = w THEN y ELSE watcher[v]
  <2>1. Watched(z) /\ watcher'[v] = z
    BY <1>1 DEF WatchInv
  <2>2. PICK u : u = z
    OBVIOUS
  <2> HIDE DEF z
  <2> QED  BY <1>1, <2>1, <2>2, StaysWatched
<1> QED  BY <1>2, <1>3 DEF WatchInv

\* A connection with nothing in it.
LEMMA NothingYet ==
  ASSUME TypeOK, NEW x \in Watching, x.queues = <<>>, x.at = 1,
         \A s \in Sources : x.told[s] = <<>>,
         \A i \in 1..Len(x.todo) : x.todo[i].n \in Numbers(x.todo[i].source),
         \A i, j \in 1..Len(x.todo) :
           i < j /\ x.todo[i].source = x.todo[j].source => x.todo[i].n < x.todo[j].n,
         x.pc \in {"subscribe", "drain"} => x.todo = <<>>
  PROVE  Watched(x)
<1>1. Len(x.queues) = 0 /\ \A s \in Sources : Len(x.told[s]) = 0
  OBVIOUS
<1>2. InStep(x)
  BY <1>1 DEF InStep, InOrder
<1>3. \A i \in 1..Len(x.todo) : x.todo[i].source \in Sources
  BY WatchingType DEF Places
<1>4. Ahead(x)
  BY <1>1, <1>3 DEF Ahead
<1> QED  BY <1>1, <1>2, <1>4 DEF Watched

\* A new connection, a message of the replay, a queue for each source, a message of a
\* queue: each leaves the connection as it should be.
LEMMA StartsWatched ==
  ASSUME WatchInv, NEW w \in Watchers, NEW from \in Ids, WatchStarts(w, from)
  PROVE  \E y \in Watching : Watched(y) /\ Watch(w, y)
<1>1. TypeOK /\ IdsGrow /\ watcher[w] \in Watching
  BY DEF WatchInv, ReplayInv
<1>2. PICK todo \in IF from = None THEN {<<>>} ELSE Restored(from) :
        Watch(w, Connection(IF from = None THEN "subscribe" ELSE "replay", todo, watcher[w].last))
  BY DEF WatchStarts
<1> DEFINE pc == IF from = None THEN "subscribe" ELSE "replay"
           y == Connection(pc, todo, watcher[w].last)
           S == Stored(from)
<1>3. S \in SUBSET Places /\ IsFiniteSet(S)
  <2>1. MaxEvents \in Nat /\ Len(runs) \in Nat /\ DOMAIN runs = 1..Len(runs)
    BY <1>1, BoundAssumption, LenProperties DEF TypeOK
  <2>2. ToSet(runs) = {runs[i] : i \in 1..Len(runs)}
    BY <2>1 DEF ToSet
  <2>3. ToSet(runs) \subseteq Sources
    BY <1>1, <2>1, <2>2, ElementOfSeq DEF TypeOK, Sources
  <2>4. IsFiniteSet(1..Len(runs)) /\ IsFiniteSet(1..MaxEvents)
    BY <2>1, FS_Interval
  <2>5. IsFiniteSet((1..Len(runs)) \X (1..MaxEvents))
    BY <2>4, FS_Product
  <2> DEFINE pair(t) == [source |-> runs[t[1]], n |-> t[2]]
             X == (1..Len(runs)) \X (1..MaxEvents)
             All == {pair(t) : t \in X}
             f == [t \in X |-> pair(t)]
  <2>6. IsFiniteSet(All)
    <3>1. f \in Surjection(X, All)
      <4> HIDE DEF pair, X
      <4> QED  BY DEF Surjection
    <3> HIDE DEF f, X, All
    <3> QED  BY <2>5, <3>1, FS_Surjection DEF X
  <2>7. S \in SUBSET All
    <3> SUFFICES ASSUME NEW m \in S PROVE m \in All
      OBVIOUS
    <3>1. m \in [source : ToSet(runs), n : 1..MaxEvents]
      BY DEF Stored
    <3>2. PICK i \in 1..Len(runs) : runs[i] = m.source
      BY <2>2, <3>1
    <3>3. m = pair(<<i, m.n>>) /\ <<i, m.n>> \in (1..Len(runs)) \X (1..MaxEvents)
      BY <3>1, <3>2
    <3> HIDE DEF pair
    <3> QED  BY <3>3
  <2>8. S \in SUBSET Places
    BY <2>3 DEF Stored, Places
  <2> HIDE DEF S, All
  <2> QED  BY <2>6, <2>7, <2>8, FS_Subset
<1>4. /\ todo \in Seq(Places)
      /\ \A i \in 1..Len(todo) : todo[i].n \in Numbers(todo[i].source) /\ todo[i].source \in Sources
      /\ \A i, j \in 1..Len(todo) :
           i < j /\ todo[i].source = todo[j].source => todo[i].n < todo[j].n
      /\ from = None => todo = <<>>
  <2>1. CASE from = None
    BY <1>2, <2>1
  <2>2. CASE from # None
    <3>1. /\ todo \in [1..Cardinality(S) -> S]
          /\ \A i, j \in DOMAIN todo : i < j => Earlier(todo[i], todo[j])
      BY <1>2, <2>2 DEF Restored
    <3>2. Cardinality(S) \in Nat
      BY <1>3, FS_CardinalityType
    <3>3. todo \in Seq(Places) /\ Len(todo) = Cardinality(S) /\ DOMAIN todo = 1..Len(todo)
      <4> HIDE DEF S
      <4>1. todo \in Seq(S) /\ Len(todo) = Cardinality(S)
        BY <3>1, <3>2
      <4> QED  BY <1>3, <3>1, <4>1
    <3>4. \A i \in 1..Len(todo) : todo[i] \in S
      BY <3>1, <3>3
    <3>5. \A i \in 1..Len(todo) : todo[i].n \in Numbers(todo[i].source) /\ todo[i].source \in Sources
      BY <1>3, <3>4 DEF Stored, Places
    <3>6. ASSUME NEW i \in 1..Len(todo), NEW j \in 1..Len(todo), i < j,
                 todo[i].source = todo[j].source
          PROVE  todo[i].n < todo[j].n
      <4> DEFINE s == todo[i].source
      <4>1. s \in Sources /\ todo[i].n \in Numbers(s) /\ todo[j].n \in Numbers(s)
        BY <3>5, <3>6
      <4>2. /\ todo[i].n \in Nat /\ todo[j].n \in Nat
            /\ published[s][todo[i].n].id \in Nat /\ published[s][todo[j].n].id \in Nat
        BY <1>1, <4>1, StreamType
      <4>3. \/ published[s][todo[i].n].id < published[s][todo[j].n].id
            \/ todo[i].n < todo[j].n
        BY <3>1, <3>3, <3>6 DEF Earlier
      <4>4. CASE todo[j].n <= todo[i].n
        <5>1. todo[j].n \in 1..todo[i].n
          BY <1>1, <4>1, <4>4, StreamType
        <5>2. published[s][todo[j].n].id <= published[s][todo[i].n].id
          BY <1>1, <4>1, <5>1 DEF IdsGrow
        <5> QED  BY <4>2, <4>3, <4>4, <5>2
      <4> QED  BY <4>2, <4>4
    <3> QED  BY <2>2, <3>3, <3>5, <3>6
  <2> QED  BY <2>1, <2>2
<1>e. y = [pc |-> pc, todo |-> todo, queues |-> <<>>, at |-> 1,
           told |-> [s \in Sources |-> <<>>], last |-> watcher[w].last]
  BY DEF Connection
<1>f. Watch(w, y)
  BY <1>2
<1> HIDE DEF y
<1>5. /\ y.pc = pc /\ y.todo = todo /\ y.queues = <<>> /\ y.at = 1
      /\ y.told = [s \in Sources |-> <<>>] /\ y.last = watcher[w].last
  BY <1>e
<1>6. y \in Watching
  <2>1. watcher[w].last \in Ids
    BY <1>1, WatchingType
  <2>2. <<>> \in Seq(1..MaxEvents) /\ <<>> \in Seq(Queues)
    OBVIOUS
  <2> QED  BY <1>4, <1>e, <2>1, <2>2 DEF Watching
<1>7. Watched(y)
  BY <1>1, <1>4, <1>5, <1>6, NothingYet
<1> QED  BY <1>f, <1>6, <1>7

LEMMA ReplaysWatched ==
  ASSUME WatchInv, NEW w \in Watchers, WatchReplays(w)
  PROVE  \E y \in Watching : Watched(y) /\ Watch(w, y)
<1>1. TypeOK /\ watcher[w] \in Watching /\ Watched(watcher[w])
  BY DEF WatchInv, ReplayInv
<1>2. PICK x \in Watching : x = watcher[w]
  BY <1>1
<1>3. /\ Watched(x) /\ x.pc = "replay" /\ x.todo # <<>> /\ x.queues = <<>>
      /\ InStep(x) /\ Ahead(x)
  BY <1>1, <1>2 DEF WatchReplays, Watched
<1> DEFINE s == Head(x.todo).source
           n == Head(x.todo).n
           z == [x EXCEPT !.todo = Tail(x.todo)]
           y == Told(z, s, n)
<1>4. Watch(w, y)
  BY <1>2 DEF WatchReplays
<1>5. /\ Tail(x.todo) \in Seq(Places) /\ Head(x.todo) = x.todo[1] /\ Len(x.todo) \in Nat \ {0}
      /\ Len(Tail(x.todo)) = Len(x.todo) - 1
      /\ \A i \in 1..Len(Tail(x.todo)) : Tail(x.todo)[i] = x.todo[i + 1]
  BY <1>3, WatchingType, Shorter
<1>6. /\ z \in Watching /\ z.todo = Tail(x.todo) /\ z.queues = <<>> /\ z.at = x.at /\ z.pc = "replay"
      /\ z.told = x.told
  <2>1. Tail(x.todo) \in Seq(Places)
    BY <1>5
  <2> QED  BY <1>3, <2>1 DEF Watching
<1>7. s \in Sources /\ n \in Numbers(s) /\ \A i \in 1..Len(x.told[s]) : x.told[s][i] < n
  <2>1. 1 \in 1..Len(x.todo) /\ x.todo[1] \in Places
    BY <1>5, WatchingType
  <2> QED  BY <1>3, <1>5, <2>1 DEF Ahead, Places
<1>8. InStep(z)
  BY <1>3, <1>6 DEF InStep
<1> HIDE DEF z, s, n
<1>t. /\ y.pc = z.pc /\ y.todo = z.todo /\ y.queues = z.queues /\ y.at = z.at /\ y \in Watching /\ InStep(y)
      /\ \A t \in Sources : t # s => y.told[t] = z.told[t]
      /\ Len(y.told[s]) = Len(z.told[s]) + 1 /\ y.told[s][Len(z.told[s]) + 1] = n
      /\ \A i \in 1..Len(z.told[s]) : y.told[s][i] = z.told[s][i]
  <2>1. \A i \in 1..Len(z.told[s]) : z.told[s][i] < n
    BY <1>6, <1>7
  <2>2. PICK v : v = y
    OBVIOUS
  <2> HIDE DEF y
  <2>3. v = Told(z, s, n)
    BY <2>2 DEF y
  <2> QED  BY <1>1, <1>6, <1>7, <1>8, <2>1, <2>2, <2>3, ToldInStep
<1>9. /\ y.pc = z.pc /\ y.todo = z.todo /\ y.queues = z.queues /\ y.at = z.at /\ y \in Watching /\ InStep(y)
      /\ \A t \in Sources : t # s => y.told[t] = x.told[t]
      /\ Len(y.told[s]) = Len(x.told[s]) + 1 /\ y.told[s][Len(x.told[s]) + 1] = n
      /\ \A i \in 1..Len(x.told[s]) : y.told[s][i] = x.told[s][i]
  <2> HIDE DEF y
  <2> QED  BY <1>6, <1>t
<1> HIDE DEF y
<1>10. y.todo = Tail(x.todo) /\ y.queues = <<>> /\ y.at = x.at /\ y.pc = "replay"
  BY <1>6, <1>9 DEF Watching
<1>11. Ahead(y)
  <2> DEFINE todo == Tail(x.todo)
  <2>1. \A i \in 1..Len(todo) : i + 1 \in 1..Len(x.todo) /\ todo[i] = x.todo[i + 1]
    BY <1>5
  <2>2. ASSUME NEW i \in 1..Len(todo)
        PROVE  /\ todo[i].n \in Numbers(todo[i].source)
               /\ \A k \in 1..Len(y.told[todo[i].source]) : y.told[todo[i].source][k] < todo[i].n
    <3>1. /\ i + 1 \in 1..Len(x.todo) /\ todo[i] = x.todo[i + 1] /\ todo[i].source \in Sources
          /\ todo[i].n \in Numbers(todo[i].source)
          /\ \A k \in 1..Len(x.told[todo[i].source]) : x.told[todo[i].source][k] < todo[i].n
      BY <1>3, <2>1, WatchingType DEF Ahead, Places
    <3>2. CASE todo[i].source # s
      BY <1>9, <3>1, <3>2
    <3>3. CASE todo[i].source = s
      <4>1. 1 \in 1..Len(x.todo) /\ 1 < i + 1
        BY <1>5
      <4>2. n < todo[i].n
        BY <1>3, <1>5, <3>1, <3>3, <4>1 DEF Ahead, s, n
      <4>3. Len(x.told[s]) \in Nat
        BY <1>7, WatchingType
      <4>4. \A k \in 1..Len(y.told[s]) : k \in 1..Len(x.told[s]) \/ k = Len(x.told[s]) + 1
        BY <1>9, <4>3
      <4> QED  BY <1>9, <3>1, <3>3, <4>2, <4>4
    <3> QED  BY <3>1, <3>2, <3>3
  <2>3. ASSUME NEW i \in 1..Len(todo), NEW j \in 1..Len(todo), i < j, todo[i].source = todo[j].source
        PROVE  todo[i].n < todo[j].n
    <3>1. i + 1 < j + 1
      BY <2>3
    <3> QED  BY <1>3, <2>1, <2>3, <3>1 DEF Ahead
  <2> HIDE DEF todo
  <2>4. y.todo = todo
    BY <1>10 DEF todo
  <2> QED  BY <2>2, <2>3, <2>4 DEF Ahead
<1>12. Watched(y)
  <2>1. Len(y.queues) = 0
    BY <1>10
  <2> QED  BY <1>3, <1>9, <1>10, <1>11, <2>1 DEF Watched
<1> QED  BY <1>4, <1>9, <1>12

\* How far a watcher is when it takes a message from a queue.
LEMMA Further ==
  ASSUME NEW len \in Nat, NEW held \in Nat \ {0}, NEW base \in Nat, base <= len - held
  PROVE  /\ len - held \in Nat /\ (len - held) + 1 \in 1..len
         /\ len - (held - 1) = (len - held) + 1
         /\ base <= (len - held) + 1
         /\ \A m \in base + 1..(len - held) + 1 : m = (len - held) + 1 \/ m \in base + 1..len - held
         /\ \A k \in 1..held - 1 : k + 1 \in 1..held /\ (len - held) + (k + 1) = ((len - held) + 1) + k
OBVIOUS

LEMMA DrainsWatched ==
  ASSUME WatchInv, NEW w \in Watchers, WatchDrains(w)
  PROVE  \E y \in Watching : Watched(y) /\ Watch(w, y)
<1>1. TypeOK /\ watcher[w] \in Watching /\ Watched(watcher[w])
  BY DEF WatchInv, ReplayInv
<1>2. PICK x \in Watching : x = watcher[w]
  BY <1>1
<1>3. /\ Watched(x) /\ x.pc = "drain" /\ x.todo = <<>> /\ Filled(x) # {}
      /\ InStep(x) /\ Ahead(x) /\ x.at \in Nat \ {0} /\ Len(x.queues) \in Nat
  BY <1>1, <1>2, WatchingType DEF WatchDrains, Watched
<1>4. PICK i \in Filled(x) : i = Min(Filled(x))
  <2>1. Filled(x) \in SUBSET Nat
    BY <1>3 DEF Filled
  <2> QED  BY <1>3, <2>1, LeastNumber
<1>5. i \in 1..Len(x.queues) /\ x.queues[i].held # <<>> /\ x.at <= i
  BY <1>3 DEF Filled
<1> DEFINE q == x.queues[i]
           s == q.source
           n == Head(q.held)
           r == [q EXCEPT !.held = Tail(q.held)]
           z == [x EXCEPT !.at = i, !.queues = [x.queues EXCEPT ![i] = r]]
           y == Told(z, s, n)
<1>6. Watch(w, y)
  <2>1. z = [x EXCEPT !.at = i, !.queues[i].held = Tail(@)]
    OBVIOUS
  <2> HIDE DEF z
  <2> QED  BY <1>2, <1>4, <2>1 DEF WatchDrains
<1>7. q \in Queues /\ UpTo(x, q) /\ q.held # <<>>
  BY <1>3, <1>5, WatchingType DEF Watched
<1> HIDE DEF q
<1>8. /\ q.source \in Sources /\ q.base \in 0..MaxEvents /\ q.held \in Seq(1..MaxEvents)
      /\ Tail(q.held) \in Seq(1..MaxEvents) /\ n = q.held[1] /\ Len(q.held) \in Nat \ {0}
      /\ Len(Tail(q.held)) = Len(q.held) - 1
      /\ \A k \in 1..Len(Tail(q.held)) : Tail(q.held)[k] = q.held[k + 1]
  BY <1>7, QueueType, Shorter
<1>9. r \in Queues /\ r.source = s /\ r.base = q.base /\ r.held = Tail(q.held)
  BY <1>7, <1>8 DEF Queues
<1> DEFINE reached == Len(published[s]) - Len(q.held)
<1>10. /\ Len(published[s]) \in 0..MaxEvents /\ MaxEvents \in Nat /\ Numbers(s) = 1..Len(published[s])
  BY <1>1, <1>8, StreamType
<1>11. /\ q.base <= reached /\ n = reached + 1
       /\ \A k \in 1..Len(q.held) : q.held[k] = reached + k
       /\ \A k \in 1..Len(x.told[s]) : x.told[s][k] <= reached
       /\ \A m \in q.base + 1..reached : \E k \in 1..Len(x.told[s]) : x.told[s][k] = m
  <2>1. 1 \in 1..Len(q.held)
    BY <1>8
  <2> HIDE DEF n
  <2> QED  BY <1>7, <1>8, <2>1 DEF UpTo
<1> HIDE DEF r, n
<1>12. /\ reached \in Nat /\ reached + 1 \in Numbers(s)
       /\ Len(published[s]) - Len(Tail(q.held)) = reached + 1
  <2>1. Len(published[s]) \in Nat /\ q.base \in Nat
    BY <1>8, <1>10
  <2> HIDE DEF s
  <2>2. /\ q.base <= reached /\ Len(q.held) \in Nat \ {0} /\ Len(Tail(q.held)) = Len(q.held) - 1
        /\ Numbers(s) = 1..Len(published[s])
    BY <1>8, <1>10, <1>11
  <2>3. /\ reached \in Nat /\ reached + 1 \in 1..Len(published[s])
        /\ Len(published[s]) - (Len(q.held) - 1) = reached + 1
    BY <2>1, <2>2, Further
  <2> HIDE DEF reached
  <2> QED  BY <2>2, <2>3
<1>m. /\ q.base <= reached + 1
      /\ \A m \in q.base + 1..reached + 1 : m = reached + 1 \/ m \in q.base + 1..reached
      /\ \A k \in 1..Len(q.held) - 1 : k + 1 \in 1..Len(q.held) /\ reached + (k + 1) = (reached + 1) + k
  <2>1. Len(published[s]) \in Nat /\ q.base \in Nat
    BY <1>8, <1>10
  <2> HIDE DEF s
  <2> QED  BY <1>8, <1>11, <2>1, Further
<1>13. \A k \in 1..Len(x.told[s]) : x.told[s][k] < n /\ x.told[s][k] <= reached + 1
  <2>1. \A k \in 1..Len(x.told[s]) : x.told[s][k] \in Nat
    BY <1>8, WatchingType
  <2>2. \A a \in Nat, b \in Nat : a <= b => a < b + 1 /\ a <= b + 1
    OBVIOUS
  <2> HIDE DEF reached
  <2> QED  BY <1>11, <1>12, <2>1, <2>2
<1>14. [x.queues EXCEPT ![i] = r] \in Seq(Queues) /\ Len([x.queues EXCEPT ![i] = r]) = Len(x.queues)
  <2>1. x.queues \in Seq(Queues)
    BY WatchingType
  <2> QED  BY <1>5, <1>9, <2>1, ExceptSeq
<1> DEFINE queues == [x.queues EXCEPT ![i] = r]
<1>q. /\ queues[i] = r /\ \A j \in 1..Len(x.queues) : j # i => queues[j] = x.queues[j]
  <2>1. DOMAIN x.queues = 1..Len(x.queues)
    BY WatchingType, LenProperties
  <2> QED  BY <1>5, <2>1
<1> HIDE DEF queues
<1>15. /\ z \in Watching /\ z.queues = queues /\ z.todo = <<>> /\ z.at = i /\ z.pc = "drain"
       /\ z.told = x.told
  <2>1. queues \in Seq(Queues) /\ i \in Nat \ {0} /\ z = [x EXCEPT !.at = i, !.queues = queues]
    BY <1>5, <1>14 DEF queues
  <2> HIDE DEF z
  <2> QED  BY <1>3, <2>1 DEF Watching
<1>16. InStep(z)
  BY <1>3, <1>15 DEF InStep
<1> HIDE DEF z
<1>17. /\ y.pc = z.pc /\ y.todo = z.todo /\ y.queues = z.queues /\ y.at = z.at /\ y \in Watching /\ InStep(y)
       /\ \A t \in Sources : t # s => y.told[t] = x.told[t]
       /\ Len(y.told[s]) = Len(x.told[s]) + 1 /\ y.told[s][Len(x.told[s]) + 1] = n
       /\ \A k \in 1..Len(x.told[s]) : y.told[s][k] = x.told[s][k]
  <2>1. s \in Sources /\ n \in Numbers(s)
    BY <1>8, <1>11, <1>12
  <2> HIDE DEF s
  <2>2. \A k \in 1..Len(z.told[s]) : z.told[s][k] < n
    BY <1>13, <1>15
  <2>3. /\ y.pc = z.pc /\ y.todo = z.todo /\ y.queues = z.queues /\ y.at = z.at /\ y \in Watching /\ InStep(y)
        /\ \A t \in Sources : t # s => y.told[t] = z.told[t]
        /\ Len(y.told[s]) = Len(z.told[s]) + 1 /\ y.told[s][Len(z.told[s]) + 1] = n
        /\ \A k \in 1..Len(z.told[s]) : y.told[s][k] = z.told[s][k]
    <3>2. PICK v : v = y
      OBVIOUS
    <3> HIDE DEF y
    <3>3. v = Told(z, s, n)
      BY <3>2 DEF y
    <3>4. TypeOK /\ z \in Watching
      BY <1>1, <1>15
    <3> QED  BY <1>16, <2>1, <2>2, <3>2, <3>3, <3>4, ToldInStep
  <2> HIDE DEF y
  <2> QED  BY <1>15, <2>3
<1> HIDE DEF y
<1>18. y.queues = queues /\ y.todo = <<>> /\ y.at = i /\ y.pc = "drain"
  BY <1>15, <1>17 DEF Watching
<1>19. UpTo(y, r)
  <2>1. \A k \in 1..Len(Tail(q.held)) : k + 1 \in 1..Len(q.held) /\ q.held[k + 1] = (reached + 1) + k
    BY <1>8, <1>11, <1>m
  <2>2. \A k \in 1..Len(r.held) : r.held[k] = (reached + 1) + k
    BY <1>8, <1>9, <2>1
  <2>l. Len(x.told[s]) \in Nat
    BY <1>8, WatchingType
  <2>3. \A k \in 1..Len(y.told[s]) : k \in 1..Len(x.told[s]) \/ k = Len(x.told[s]) + 1
    BY <1>17, <2>l
  <2>4. \A k \in 1..Len(y.told[s]) : y.told[s][k] <= reached + 1
    <3> HIDE DEF reached
    <3>1. y.told[s][Len(x.told[s]) + 1] = reached + 1 /\ reached + 1 <= reached + 1
      BY <1>11, <1>12, <1>17
    <3>2. \A k \in 1..Len(x.told[s]) : y.told[s][k] <= reached + 1
      BY <1>13, <1>17
    <3> QED  BY <2>3, <3>1, <3>2
  <2>5. ASSUME NEW m \in q.base + 1..reached + 1
        PROVE  \E k \in 1..Len(y.told[s]) : y.told[s][k] = m
    <3>1. Len(x.told[s]) + 1 \in 1..Len(y.told[s]) /\ \A k \in 1..Len(x.told[s]) : k \in 1..Len(y.told[s])
      BY <1>17, <2>l
    <3>2. CASE m = reached + 1
      BY <1>11, <1>17, <3>1, <3>2
    <3>3. CASE m # reached + 1
      <4>1. m \in q.base + 1..reached
        BY <1>m, <3>3
      <4>2. PICK k \in 1..Len(x.told[s]) : x.told[s][k] = m
        BY <1>11, <4>1
      <4> QED  BY <1>17, <3>1, <4>2
    <3> QED  BY <3>2, <3>3
  <2>6. Len(published[s]) - Len(r.held) = reached + 1 /\ q.base <= reached + 1
    BY <1>9, <1>12, <1>m
  <2> HIDE DEF reached
  <2> QED  BY <1>9, <2>2, <2>4, <2>5, <2>6 DEF UpTo
<1>20. ASSUME NEW j \in 1..Len(x.queues), j # i
       PROVE  UpTo(y, queues[j]) /\ queues[j].source # s
  <2>1. queues[j] = x.queues[j] /\ UpTo(x, x.queues[j]) /\ x.queues[j] \in Queues
    BY <1>3, <1>q, <1>20, WatchingType DEF Watched
  <2>2. x.queues[j].source # s /\ x.queues[j].source \in Sources
    BY <1>3, <1>5, <1>20, <2>1 DEF Watched, q, Queues
  <2>3. y.told[x.queues[j].source] = x.told[x.queues[j].source]
    BY <1>17, <2>2
  <2> QED  BY <2>1, <2>2, <2>3 DEF UpTo
<1>21. Len(queues) = Len(x.queues)
  BY <1>14 DEF queues
<1>22. \A j, k \in 1..Len(queues) : queues[j].source = queues[k].source => j = k
  <2> SUFFICES ASSUME NEW j \in 1..Len(queues), NEW k \in 1..Len(queues),
                      queues[j].source = queues[k].source, j # k
               PROVE  FALSE
    OBVIOUS
  <2>1. CASE j = i \/ k = i
    BY <1>9, <1>q, <1>20, <1>21, <2>1
  <2>2. CASE j # i /\ k # i
    BY <1>3, <1>q, <1>21, <2>2 DEF Watched
  <2> QED  BY <2>1, <2>2
<1>23. \A j \in 1..Len(queues) : UpTo(y, queues[j])
  BY <1>19, <1>q, <1>20, <1>21
<1>24. Ahead(y) /\ y.at <= Len(y.queues) + 1
  BY <1>3, <1>5, <1>18, <1>21 DEF Ahead
<1>25. Watched(y)
  BY <1>17, <1>18, <1>22, <1>23, <1>24 DEF Watched
<1> QED  BY <1>6, <1>17, <1>25

\* The sources a watcher has no queue for, each once.
LEMMA UnseenOnce ==
  ASSUME TypeOK, NEW x \in Watching
  PROVE  /\ Unseen(x) \in Seq(Sources) /\ Len(Unseen(x)) \in Nat
         /\ \A i \in 1..Len(Unseen(x)) : /\ Unseen(x)[i] \in Sources
                                        /\ \A j \in 1..Len(x.queues) : x.queues[j].source # Unseen(x)[i]
         /\ \A i, j \in 1..Len(Unseen(x)) : Unseen(x)[i] = Unseen(x)[j] => i = j
<1> DEFINE all == <<Thread>> \o runs
           P == {i \in 1..Len(all) : \A j \in DOMAIN x.queues : x.queues[j].source # all[i]}
<1>1. runs \in Seq(Runs) /\ IsInjective(runs) /\ Len(runs) \in Nat /\ DOMAIN runs = 1..Len(runs)
  BY LenProperties DEF TypeOK
<1>2. <<Thread>> \in Seq(Sources) /\ runs \in Seq(Sources) /\ Len(<<Thread>>) = 1
  BY <1>1 DEF Sources
<1>3. /\ all \in Seq(Sources) /\ Len(all) = Len(runs) + 1
      /\ \A i \in 1..Len(all) : all[i] = IF i <= 1 THEN <<Thread>>[i] ELSE runs[i - 1]
  <2>1. /\ all \in Seq(Sources) /\ Len(all) = Len(<<Thread>>) + Len(runs)
        /\ \A i \in 1..Len(<<Thread>>) + Len(runs) :
             all[i] = IF i <= Len(<<Thread>>) THEN <<Thread>>[i] ELSE runs[i - Len(<<Thread>>)]
    BY <1>2, ConcatProperties
  <2> HIDE DEF all
  <2> QED  BY <1>1, <1>2, <2>1
<1> HIDE DEF all
<1>4. \A i, j \in 1..Len(all) : all[i] = all[j] => i = j
  <2> SUFFICES ASSUME NEW i \in 1..Len(all), NEW j \in 1..Len(all), all[i] = all[j]
               PROVE  i = j
    OBVIOUS
  <2>1. \A k \in 1..Len(all) : \/ k = 1 /\ all[k] = Thread
                               \/ k - 1 \in 1..Len(runs) /\ all[k] = runs[k - 1] /\ runs[k - 1] \in Runs
    <3> SUFFICES ASSUME NEW k \in 1..Len(all), k # 1
                 PROVE  k - 1 \in 1..Len(runs) /\ all[k] = runs[k - 1] /\ runs[k - 1] \in Runs
      BY <1>3
    <3>1. k - 1 \in 1..Len(runs) /\ ~ (k <= 1)
      BY <1>1, <1>3
    <3> QED  BY <1>1, <1>3, <3>1, ElementOfSeq
  <2>2. CASE i = 1 \/ j = 1
    BY <2>1, <2>2, ThreadAssumption
  <2>3. CASE i # 1 /\ j # 1
    <3>1. /\ i - 1 \in 1..Len(runs) /\ j - 1 \in 1..Len(runs) /\ runs[i - 1] = runs[j - 1]
      BY <2>1, <2>3
    <3>2. i - 1 = j - 1
      BY <1>1, <3>1 DEF IsInjective
    <3> QED  BY <3>2
  <2> QED  BY <2>2, <2>3
<1>5. Unseen(x) = At(all, P) /\ P \in SUBSET (1..Len(all))
  BY DEF Unseen, all
<1>6. DOMAIN x.queues = 1..Len(x.queues)
  BY WatchingType, LenProperties
<1>7. \A p \in P : p \in 1..Len(all) /\ \A j \in 1..Len(x.queues) : x.queues[j].source # all[p]
  BY <1>6
<1> HIDE DEF P
<1>8. /\ At(all, P) \in Seq(Sources) /\ Len(At(all, P)) \in Nat
      /\ \E h \in [1..Len(At(all, P)) -> P] :
           /\ \A i \in 1..Len(At(all, P)) : At(all, P)[i] = all[h[i]]
           /\ \A i, j \in 1..Len(At(all, P)) : h[i] = h[j] => i = j
  BY <1>3, <1>5, AtPlaces
<1>9. PICK u : u = Unseen(x)
  OBVIOUS
<1>10. /\ u \in Seq(Sources) /\ Len(u) \in Nat
       /\ \E h \in [1..Len(u) -> P] : /\ \A i \in 1..Len(u) : u[i] = all[h[i]]
                                     /\ \A i, j \in 1..Len(u) : h[i] = h[j] => i = j
  BY <1>5, <1>8, <1>9
<1>11. PICK h \in [1..Len(u) -> P] : /\ \A i \in 1..Len(u) : u[i] = all[h[i]]
                                    /\ \A i, j \in 1..Len(u) : h[i] = h[j] => i = j
  BY <1>10
<1>12. ASSUME NEW i \in 1..Len(u)
       PROVE  u[i] \in Sources /\ \A j \in 1..Len(x.queues) : x.queues[j].source # u[i]
  <2>1. h[i] \in P /\ u[i] = all[h[i]]
    BY <1>11
  <2> QED  BY <1>7, <1>10, <2>1, ElementOfSeq
<1>13. \A i, j \in 1..Len(u) : u[i] = u[j] => i = j
  BY <1>4, <1>7, <1>11
<1> QED  BY <1>9, <1>10, <1>12, <1>13

LEMMA SubscribesWatched ==
  ASSUME WatchInv, NEW w \in Watchers, WatchSubscribes(w)
  PROVE  \E y \in Watching : Watched(y) /\ Watch(w, y)
<1>1. TypeOK /\ watcher[w] \in Watching /\ Watched(watcher[w])
  BY DEF WatchInv, ReplayInv
<1>2. PICK x \in Watching : x = watcher[w]
  BY <1>1
<1>3. PICK u : u = Unseen(x)
  OBVIOUS
<1> DEFINE N == Len(u)
           New == [i \in 1..N |-> [source |-> u[i], base |-> Len(published[u[i]]), held |-> <<>>]]
<1>n. PICK new : new = New
  OBVIOUS
<1> DEFINE y == [x EXCEPT !.pc = "drain", !.at = 1, !.queues = x.queues \o new]
<1>4. /\ u \in Seq(Sources) /\ N \in Nat
      /\ \A i \in 1..N : u[i] \in Sources /\ \A j \in 1..Len(x.queues) : x.queues[j].source # u[i]
      /\ \A i, j \in 1..N : u[i] = u[j] => i = j
  BY <1>1, <1>3, UnseenOnce
<1>5. /\ Watch(w, y) /\ Watched(x) /\ InStep(x) /\ x.todo = <<>> /\ Len(x.queues) \in Nat
      /\ x.queues \in Seq(Queues)
  <2>1. DOMAIN u = 1..N
    BY <1>4, LenProperties
  <2>2. Watch(w, y)
    BY <1>2, <1>3, <1>n, <2>1 DEF WatchSubscribes
  <2>3. x.todo = <<>>
    BY <1>1, <1>2 DEF WatchSubscribes, Watched
  <2> QED  BY <1>1, <1>2, <2>2, <2>3, WatchingType DEF Watched
<1>6. ASSUME NEW i \in 1..N
      PROVE  /\ new[i] \in Queues /\ new[i].source = u[i] /\ u[i] \in Sources
             /\ new[i].base = Len(published[u[i]]) /\ new[i].held = <<>>
  <2>1. u[i] \in Sources /\ Len(published[u[i]]) \in 0..MaxEvents
    BY <1>1, <1>4, StreamType
  <2>2. <<>> \in Seq(1..MaxEvents)
    OBVIOUS
  <2>3. new[i] = [source |-> u[i], base |-> Len(published[u[i]]), held |-> <<>>]
    BY <1>n
  <2> QED  BY <2>1, <2>2, <2>3 DEF Queues
<1>7. new \in Seq(Queues) /\ Len(new) = N
  <2>1. new = [i \in 1..N |-> new[i]]
    BY <1>n
  <2> QED  BY <1>4, <1>6, <2>1, IsASeq
<1> HIDE DEF New
<1> DEFINE queues == x.queues \o new
<1>8. /\ queues \in Seq(Queues) /\ Len(queues) = Len(x.queues) + N
      /\ \A i \in 1..Len(x.queues) + N :
           queues[i] = IF i <= Len(x.queues) THEN x.queues[i] ELSE new[i - Len(x.queues)]
  BY <1>5, <1>7, ConcatProperties
<1>9. y \in Watching /\ y.queues = queues /\ y.todo = <<>> /\ y.at = 1 /\ y.told = x.told /\ y.pc = "drain"
  <2> HIDE DEF queues
  <2>1. y = [x EXCEPT !.pc = "drain", !.at = 1, !.queues = queues]
    BY DEF queues
  <2> HIDE DEF y
  <2>2. queues \in Seq(Queues) /\ 1 \in Nat \ {0}
    BY <1>8
  <2>3. /\ y \in Watching /\ y.queues = queues /\ y.todo = x.todo /\ y.at = 1 /\ y.told = x.told
        /\ y.pc = "drain"
    BY <2>1, <2>2 DEF Watching
  <2> QED  BY <1>5, <2>3
<1> HIDE DEF y, queues, N
<1>10. \A i \in 1..Len(queues) :
         \/ i \in 1..Len(x.queues) /\ queues[i] = x.queues[i]
         \/ i - Len(x.queues) \in 1..N /\ queues[i] = new[i - Len(x.queues)]
  <2> SUFFICES ASSUME NEW i \in 1..Len(queues)
               PROVE  \/ i \in 1..Len(x.queues) /\ queues[i] = x.queues[i]
                      \/ i - Len(x.queues) \in 1..N /\ queues[i] = new[i - Len(x.queues)]
    OBVIOUS
  <2>1. i \in 1..Len(x.queues) \/ (~ (i <= Len(x.queues)) /\ i - Len(x.queues) \in 1..N)
    BY <1>4, <1>5, <1>8
  <2> QED  BY <1>4, <1>5, <1>8, <2>1
<1>11. ASSUME NEW i \in 1..Len(x.queues)
       PROVE  UpTo(y, x.queues[i])
  <2>1. UpTo(x, x.queues[i])
    BY <1>5 DEF Watched
  <2> QED  BY <1>9, <2>1 DEF UpTo
<1>12. ASSUME NEW i \in 1..N
       PROVE  UpTo(y, new[i])
  <2> DEFINE s == u[i]
             len == Len(published[s])
  <2>1. s \in Sources /\ len \in Nat /\ Numbers(s) = 1..len
    BY <1>1, <1>6, StreamType
  <2>2. \A k \in 1..Len(y.told[s]) : y.told[s][k] <= len
    BY <1>5, <1>9, <2>1 DEF InStep
  <2>3. /\ new[i].source = s /\ new[i].base = len /\ Len(new[i].held) = 0
    BY <1>6
  <2> HIDE DEF s, len
  <2>4. len - 0 = len /\ len <= len /\ 1..0 = {} /\ len + 1..len = {}
    BY <2>1
  <2>5. Len(published[s]) = len
    BY DEF s, len
  <2> QED  BY <2>1, <2>2, <2>3, <2>4, <2>5 DEF UpTo
<1>13. \A i \in 1..Len(queues) : UpTo(y, queues[i])
  BY <1>10, <1>11, <1>12
<1>14. ASSUME NEW i \in 1..Len(queues), NEW j \in 1..Len(queues), queues[i].source = queues[j].source
       PROVE  i = j
  <2>1. CASE i \in 1..Len(x.queues) /\ queues[i] = x.queues[i] /\ j \in 1..Len(x.queues) /\ queues[j] = x.queues[j]
    BY <1>5, <1>14, <2>1 DEF Watched
  <2>2. CASE /\ i - Len(x.queues) \in 1..N /\ queues[i] = new[i - Len(x.queues)]
             /\ j - Len(x.queues) \in 1..N /\ queues[j] = new[j - Len(x.queues)]
    <3>1. i - Len(x.queues) = j - Len(x.queues)
      BY <1>4, <1>6, <1>14, <2>2
    <3>2. i \in Int /\ j \in Int
      OBVIOUS
    <3> QED  BY <1>5, <3>1, <3>2
  <2>3. ASSUME NEW k \in 1..Len(x.queues), NEW m \in 1..N PROVE x.queues[k].source # new[m].source
    BY <1>4, <1>6
  <2> QED  BY <1>10, <1>14, <2>1, <2>2, <2>3
<1>15. InStep(y) /\ Ahead(y) /\ y.at <= Len(y.queues) + 1
  <2>1. Len(queues) \in Nat
    BY <1>4, <1>5, <1>8
  <2> QED  BY <1>5, <1>9, <2>1 DEF InStep, Ahead
<1>16. Watched(y)
  BY <1>9, <1>13, <1>14, <1>15 DEF Watched
<1> QED  BY <1>5, <1>9, <1>16

LEMMA TurnsWatched ==
  ASSUME WatchInv, NEW w \in Watchers, WatchSleeps(w) \/ WatchLeaves(w)
  PROVE  \E y \in Watching : Watched(y) /\ Watch(w, y)
<1>1. TypeOK /\ watcher[w] \in Watching /\ Watched(watcher[w])
  BY DEF WatchInv, ReplayInv
<1>2. PICK x \in Watching : x = watcher[w]
  BY <1>1
<1>3. CASE WatchSleeps(w)
  <2> DEFINE y == [x EXCEPT !.pc = "subscribe"]
  <2>1. Watch(w, y) /\ x.pc = "drain"
    BY <1>2, <1>3 DEF WatchSleeps
  <2>2. y \in Watching /\ y.pc = "subscribe" /\ y.todo = x.todo /\ y.queues = x.queues
        /\ y.at = x.at /\ y.told = x.told
    BY DEF Watching
  <2> HIDE DEF y
  <2>3. /\ InStep(x) /\ Ahead(x) /\ x.todo = <<>> /\ x.at <= Len(x.queues) + 1
        /\ \A i, j \in 1..Len(x.queues) : x.queues[i].source = x.queues[j].source => i = j
        /\ \A i \in 1..Len(x.queues) : UpTo(x, x.queues[i])
    BY <1>1, <1>2, <2>1 DEF Watched
  <2>4. InStep(y)
    BY <2>2, <2>3 DEF InStep
  <2>5. Ahead(y)
    BY <2>2, <2>3 DEF Ahead
  <2>6. ASSUME NEW i \in 1..Len(x.queues) PROVE UpTo(y, x.queues[i])
    <3>1. UpTo(x, x.queues[i]) /\ y.told = x.told
      BY <2>2, <2>3
    <3> QED  BY <3>1 DEF UpTo
  <2> QED  BY <2>1, <2>2, <2>3, <2>4, <2>5, <2>6 DEF Watched
<1>4. CASE WatchLeaves(w)
  <2> DEFINE y == Connection("off", <<>>, x.last)
  <2>1. Watch(w, y)
    BY <1>2, <1>4 DEF WatchLeaves
  <2>2. y = [pc |-> "off", todo |-> <<>>, queues |-> <<>>, at |-> 1,
             told |-> [s \in Sources |-> <<>>], last |-> x.last]
    BY DEF Connection
  <2> HIDE DEF y
  <2>3. x.last \in Ids /\ <<>> \in Seq(1..MaxEvents) /\ <<>> \in Seq(Queues) /\ <<>> \in Seq(Places)
    BY WatchingType
  <2>4. y \in Watching
    BY <2>2, <2>3 DEF Watching
  <2>5. Watched(y)
    BY <1>1, <2>2, <2>4, NothingYet
  <2> QED  BY <2>1, <2>4, <2>5
<1> QED  BY <1>3, <1>4

\* Whatever a watcher does.
LEMMA WatcherKeeps ==
  ASSUME WatchInv, ReplayInv', NEW w \in Watchers, JoinThread(w)
  PROVE  WatchInv'
<1>1. \E y \in Watching : Watched(y) /\ Watch(w, y)
  BY StartsWatched, ReplaysWatched, DrainsWatched, SubscribesWatched, TurnsWatched DEF JoinThread
<1> QED  BY <1>1, WatchKeeps

\* A message that is put comes last, in its stream and in its queues.
LEMMA PutToWatchers ==
  ASSUME WatchInv, ReplayInv', NEW s \in Sources, NEW done \in BOOLEAN,
         Len(published[s]) < MaxEvents, Put(s, done)
  PROVE  WatchInv'
<1> DEFINE L == Len(published[s])
<1>1. /\ TypeOK /\ TypeOK' /\ watcher \in [Watchers -> Watching]
      /\ published \in [Sources -> Seq(Messages)] /\ MaxEvents \in Nat
  BY BoundAssumption DEF WatchInv, ReplayInv, TypeOK
<1>2. /\ \A r \in Sources : r # s => published'[r] = published[r]
      /\ L \in Nat /\ Len(published'[s]) = L + 1
  <2>1. PICK e : published' = [published EXCEPT ![s] = Append(published[s], e)]
    BY DEF Put
  <2>2. Append(published[s], e) \in Seq(Messages)
    BY <1>1, <2>1 DEF TypeOK
  <2>3. published[s] \in Seq(Messages) /\ published'[s] = Append(published[s], e)
    BY <1>1, <2>1
  <2>4. L \in Nat /\ Len(published'[s]) = L + 1
    <3>1. Len(published[s]) \in Nat
      BY <2>3, LenProperties
    <3> QED  BY <2>3, <3>1
  <2> QED  BY <1>1, <2>1, <2>4
<1>3. \A r \in Sources : Len(published[r]) \in Nat /\ Len(published[r]) <= Len(published'[r])
  BY <1>1, <1>2, StreamType
<1>4. \A r \in Sources : \A n \in Numbers(r) : n \in Numbers(r)'
  <2> SUFFICES ASSUME NEW r \in Sources, NEW n \in 1..Len(published[r])
               PROVE  n \in 1..Len(published'[r])
    BY DEF Numbers
  <2>1. CASE r # s
    BY <1>2, <2>1
  <2>2. CASE r = s
    BY <1>2, <2>2
  <2> QED  BY <2>1, <2>2
<1>5. ASSUME NEW w \in Watchers
      PROVE  watcher'[w] \in Watching /\ Watched(watcher[w])'
  <2>1. PICK x \in Watching : x = watcher[w]
    BY <1>1
  <2> DEFINE N == Len(x.queues)
             New == [i \in 1..N |-> IF x.queues[i].source = s THEN Held(x.queues[i]) ELSE x.queues[i]]
             y == [x EXCEPT !.queues = New]
  <2>2. PICK queues : queues = New
    OBVIOUS
  <2>3. Watched(x) /\ N \in Nat /\ x.queues \in Seq(Queues) /\ DOMAIN x.queues = 1..N
    BY <2>1, WatchingType, LenProperties DEF WatchInv
  <2>4. watcher'[w] = [x EXCEPT !.queues = queues]
    BY <2>1, <2>2, <2>3 DEF Put
  <2>5. ASSUME NEW i \in 1..N
        PROVE  /\ queues[i] \in Queues /\ queues[i].source = x.queues[i].source
               /\ queues[i].base = x.queues[i].base
               /\ x.queues[i].source # s => queues[i] = x.queues[i]
               /\ x.queues[i].source = s => queues[i].held = Append(x.queues[i].held, L + 1)
    <3>1. PICK q \in Queues : q = x.queues[i]
      BY WatchingType
    <3>2. queues[i] = IF q.source = s THEN Held(q) ELSE q
      BY <2>2, <3>1
    <3>3. CASE q.source # s
      BY <3>1, <3>2, <3>3
    <3>4. CASE q.source = s
      <4>1. L + 1 \in 1..MaxEvents
        BY <1>1, <1>2
      <4>2. Append(q.held, L + 1) \in Seq(1..MaxEvents)
        BY <4>1, QueueType, Longer
      <4>3. Held(q) = [q EXCEPT !.held = Append(q.held, L + 1)]
        BY <3>4 DEF Held, Number
      <4> QED  BY <3>1, <3>2, <3>4, <4>2, <4>3 DEF Queues
    <3> QED  BY <3>3, <3>4
  <2>6. queues \in Seq(Queues) /\ Len(queues) = N
    <3>1. queues = [i \in 1..N |-> queues[i]]
      BY <2>2
    <3>2. N \in Nat /\ \A i \in 1..N : queues[i] \in Queues
      BY <2>3, <2>5
    <3> HIDE DEF N
    <3> QED  BY <3>1, <3>2, IsASeq
  <2> HIDE DEF New
  <2>7. PICK z \in Watching : /\ z = watcher'[w] /\ z.queues = queues /\ z.pc = x.pc /\ z.todo = x.todo
                             /\ z.at = x.at /\ z.told = x.told
    <3>1. [x EXCEPT !.queues = queues] \in Watching
      BY <2>6 DEF Watching
    <3> QED  BY <2>4, <3>1 DEF Watching
  <2>8. InStep(watcher[w])'
    BY <1>4, <2>3, <2>7 DEF Watched, InStep, InOrder
  <2>9. Ahead(watcher[w])'
    <3>1. \A i \in 1..Len(x.todo) : x.todo[i].source \in Sources
      BY WatchingType DEF Places
    <3>2. Ahead(x)
      BY <2>3 DEF Watched
    <3> QED  BY <1>4, <2>7, <3>1, <3>2 DEF Ahead
  <2>10. ASSUME NEW i \in 1..N
         PROVE  UpTo(watcher[w], queues[i])'
    <3>1. PICK q \in Queues : q = x.queues[i]
      BY WatchingType
    <3>2. PICK r \in Queues : r = queues[i]
      BY <2>5
    <3>3. UpTo(x, q) /\ r.source = q.source /\ r.base = q.base /\ q.source \in Sources
      BY <2>3, <2>5, <3>1, <3>2, QueueType DEF Watched
    <3>4. CASE q.source # s
      <4>1. r = q /\ published'[q.source] = published[q.source]
        BY <1>2, <2>5, <3>1, <3>2, <3>3, <3>4
      <4>2. PICK reached : reached = Len(published[q.source]) - Len(q.held)
        OBVIOUS
      <4>3. /\ q.base <= reached
            /\ \A k \in 1..Len(q.held) : q.held[k] = reached + k
            /\ \A k \in 1..Len(x.told[q.source]) : x.told[q.source][k] <= reached
            /\ \A n \in q.base + 1..reached : \E k \in 1..Len(x.told[q.source]) : x.told[q.source][k] = n
        BY <3>3, <4>2 DEF UpTo
      <4>4. watcher'[w] = z /\ z.told = x.told
        BY <2>7
      <4>5. /\ reached = Len(published'[r.source]) - Len(r.held) /\ r.base <= reached
            /\ \A k \in 1..Len(r.held) : r.held[k] = reached + k
        BY <4>1, <4>2, <4>3
      <4>6. /\ \A k \in 1..Len(z.told[r.source]) : z.told[r.source][k] <= reached
            /\ \A n \in r.base + 1..reached : \E k \in 1..Len(z.told[r.source]) : z.told[r.source][k] = n
        BY <4>1, <4>3, <4>4
      <4>7. UpTo(watcher[w], r)'
        <5>1. UpTo(z, r)'
          BY <4>5, <4>6 DEF UpTo
        <5> QED  BY <4>4, <5>1 DEF UpTo
      <4> QED  BY <3>2, <4>7
    <3>5. CASE q.source = s
      <4> DEFINE reached == L - Len(q.held)
      <4>1. /\ q.base <= reached
            /\ \A k \in 1..Len(q.held) : q.held[k] = reached + k
            /\ \A k \in 1..Len(x.told[s]) : x.told[s][k] <= reached
            /\ \A n \in q.base + 1..reached : \E k \in 1..Len(x.told[s]) : x.told[s][k] = n
        BY <3>3, <3>5 DEF UpTo
      <4>2. r.held = Append(q.held, L + 1) /\ L + 1 \in 1..MaxEvents
        BY <1>1, <1>2, <2>5, <3>1, <3>2, <3>5
      <4>3. /\ Len(q.held) \in Nat /\ Len(r.held) = Len(q.held) + 1
            /\ r.held[Len(q.held) + 1] = L + 1
            /\ \A k \in 1..Len(q.held) : r.held[k] = q.held[k]
        BY <4>2, QueueType, Longer
      <4>4. reached \in Int /\ Len(published'[s]) - Len(r.held) = reached
            /\ reached + (Len(q.held) + 1) = L + 1
        <5>1. L \in Nat /\ Len(published'[s]) = L + 1
          BY <1>2
        <5> HIDE DEF L
        <5> QED  BY <4>3, <5>1, Difference
      <4>5. \A k \in 1..Len(r.held) : k \in 1..Len(q.held) \/ k = Len(q.held) + 1
        BY <4>3
      <4> HIDE DEF reached
      <4>6. \A k \in 1..Len(r.held) : r.held[k] = reached + k
        BY <4>1, <4>3, <4>4, <4>5
      <4>7. PICK m : m = reached
        OBVIOUS
      <4>8. watcher'[w] = z /\ z.told = x.told /\ r.source = s /\ r.base = q.base
        BY <2>7, <3>3, <3>5
      <4>9. /\ m = Len(published'[r.source]) - Len(r.held) /\ r.base <= m
            /\ \A k \in 1..Len(r.held) : r.held[k] = m + k
        BY <4>1, <4>4, <4>6, <4>7, <4>8
      <4>10. /\ \A k \in 1..Len(z.told[r.source]) : z.told[r.source][k] <= m
             /\ \A n \in r.base + 1..m : \E k \in 1..Len(z.told[r.source]) : z.told[r.source][k] = n
        BY <4>1, <4>7, <4>8
      <4>11. UpTo(watcher[w], r)'
        <5>1. UpTo(z, r)'
          BY <4>9, <4>10 DEF UpTo
        <5> QED  BY <4>8, <5>1 DEF UpTo
      <4> QED  BY <3>2, <4>11
    <3> QED  BY <3>4, <3>5
  <2>11. \A i, j \in 1..N : queues[i].source = queues[j].source => i = j
    BY <2>3, <2>5 DEF Watched
  <2>12. /\ x.at <= N + 1 /\ (x.pc \in {"subscribe", "drain"} => x.todo = <<>>)
         /\ (x.pc = "replay" => queues = <<>>)
    <3>1. x.pc = "replay" => N = 0
      BY <2>3 DEF Watched
    <3>2. N = 0 => queues = <<>>
      BY <2>6, EmptySeq
    <3> QED  BY <2>3, <3>1, <3>2 DEF Watched
  <2>13. Watched(watcher[w])'
    BY <2>6, <2>7, <2>8, <2>9, <2>10, <2>11, <2>12 DEF Watched
  <2> QED  BY <2>7, <2>13
<1>6. watcher' \in [Watchers -> Watching]
  <2>1. watcher' = [w \in Watchers |-> watcher'[w]]
    BY DEF Put
  <2> QED  BY <1>5, <2>1
<1> QED  BY <1>5, <1>6 DEF WatchInv

LEMMA WatchStep == WatchInv /\ [Next]_vars => WatchInv'
<1> SUFFICES ASSUME WatchInv, [Next]_vars PROVE WatchInv'
  OBVIOUS
<1>1. ReplayInv'
  BY StepKeeps DEF WatchInv
<1>2. ASSUME UNCHANGED <<published, watcher>> PROVE WatchInv'
  <2>1. \A w \in Watchers : Watched(watcher[w])'
    <3> TAKE w \in Watchers
    <3>1. PICK z : z = watcher[w]
      OBVIOUS
    <3> QED  BY <1>2, <3>1, StaysWatched DEF WatchInv
  <2> QED  BY <1>1, <1>2, <2>1 DEF WatchInv
<1>3. CASE Tick \/ (\E r \in Runs : NewRun(r) \/ RunOver(r)) \/ UNCHANGED vars
  BY <1>2, <1>3 DEF Tick, NewRun, RunOver, vars
<1>4. ASSUME NEW r \in Runs, NEW done \in BOOLEAN, Publish(r, done) PROVE WatchInv'
  BY <1>1, <1>4, PutToWatchers DEF Publish, Sources
<1>5. CASE PublishThread
  BY <1>1, <1>5, PutToWatchers DEF PublishThread, Sources
<1>6. ASSUME NEW c \in Readers, Join(c) PROVE WatchInv'
  <2>1. \E x : Set(c, x)
    <3>1. CASE \E from \in Ids : Connect(c, from)
      BY <3>1, Zenon DEF Connect
    <3>2. CASE Authorized(c) \/ ReplayEnds(c) \/ Disconnect(c) \/ TimesOut(c)
      BY <3>2, Zenon DEF Authorized, ReplayEnds, Disconnect, TimesOut
    <3>3. CASE Replay(c) \/ Receive(c)
      BY <3>3, Zenon DEF Replay, Receive
    <3> QED  BY <1>6, <3>1, <3>2, <3>3 DEF Join
  <2> QED  BY <1>2, <2>1 DEF Set
<1>7. ASSUME NEW w \in Watchers, JoinThread(w) PROVE WatchInv'
  BY <1>1, <1>7, WatcherKeeps
<1> QED  BY <1>3, <1>4, <1>5, <1>6, <1>7 DEF Next

\* A list in order goes on in order with later numbers.
LEMMA GoesOn ==
  ASSUME NEW told, NEW held, NEW m \in Nat, told \in Seq(1..m), held \in Seq(1..m),
         InOrder(told), NEW reached \in Int,
         \A i \in 1..Len(told) : told[i] <= reached,
         \A k \in 1..Len(held) : held[k] = reached + k
  PROVE  InOrder(told \o held)
<1>1. /\ Len(told) \in Nat /\ Len(held) \in Nat /\ DOMAIN told = 1..Len(told)
      /\ told \o held \in Seq(1..m) /\ Len(told \o held) = Len(told) + Len(held)
      /\ \A i \in 1..Len(told) + Len(held) :
           (told \o held)[i] = IF i <= Len(told) THEN told[i] ELSE held[i - Len(told)]
  BY LenProperties, ConcatProperties
<1>2. PICK both : both = told \o held
  OBVIOUS
<1>3. DOMAIN both = 1..Len(told) + Len(held)
  BY <1>1, <1>2, LenProperties
<1> SUFFICES ASSUME NEW i \in 1..Len(told) + Len(held), NEW j \in 1..Len(told) + Len(held), i < j
             PROVE  both[i] < both[j]
  BY <1>2, <1>3 DEF InOrder
<1>4. \A k \in 1..Len(told) + Len(held) :
        \/ k \in 1..Len(told) /\ both[k] = told[k]
        \/ ~ (k <= Len(told)) /\ k - Len(told) \in 1..Len(held) /\ both[k] = reached + (k - Len(told))
  <2> TAKE k \in 1..Len(told) + Len(held)
  <2>1. k \in 1..Len(told) \/ (~ (k <= Len(told)) /\ k - Len(told) \in 1..Len(held))
    BY <1>1
  <2> QED  BY <1>1, <1>2, <2>1
<1>5. CASE i \in 1..Len(told) /\ both[i] = told[i] /\ j \in 1..Len(told) /\ both[j] = told[j]
  BY <1>1, <1>5 DEF InOrder
<1>6. CASE /\ i \in 1..Len(told) /\ both[i] = told[i]
           /\ j - Len(told) \in 1..Len(held) /\ both[j] = reached + (j - Len(told))
  <2>1. told[i] \in Int /\ told[i] <= reached /\ j - Len(told) \in Nat \ {0}
    BY <1>6, ElementOfSeq
  <2>2. \A a, b \in Int : \A c \in Nat \ {0} : a <= b => a < b + c
    OBVIOUS
  <2> QED  BY <1>6, <2>1, <2>2
<1>7. CASE /\ ~ (i <= Len(told)) /\ both[i] = reached + (i - Len(told))
           /\ ~ (j <= Len(told)) /\ both[j] = reached + (j - Len(told))
  <2>1. Len(told) \in Int /\ i \in Int /\ j \in Int
    BY <1>1
  <2> QED  BY <1>7, <2>1
<1>8. ~ (~ (i <= Len(told)) /\ j \in 1..Len(told))
  BY <1>1
<1> QED  BY <1>4, <1>5, <1>6, <1>7, <1>8

\* What is said of a connection says that nothing is lost or comes twice.
LEMMA NothingIsLost == WatchInv => ThreadInOrder
<1> SUFFICES ASSUME WatchInv PROVE ThreadInOrder
  OBVIOUS
<1>1. TypeOK
  BY DEF WatchInv, ReplayInv
<1>2. ASSUME NEW w \in Watchers, NEW x \in Watching, x = watcher[w]
      PROVE  /\ \A i \in DOMAIN x.todo : x.todo[i].n \in Numbers(x.todo[i].source)
             /\ \A i \in DOMAIN x.queues : x.queues[i].held \in Seq(Numbers(x.queues[i].source))
             /\ x.at <= Len(x.queues) + 1
             /\ \A s \in Sources : x.told[s] \in Seq(Numbers(s)) /\ InOrder(x.told[s])
             /\ \A i \in DOMAIN x.queues :
                  LET q == x.queues[i]
                      told == x.told[q.source]
                  IN  /\ InOrder(told \o q.held)
                      /\ ToSet(q.held) \cup {n \in ToSet(told) : n > q.base}
                           = q.base + 1..Len(published[q.source])
  <2>1. Watched(x)
    BY <1>2 DEF WatchInv
  <2>2. DOMAIN x.todo = 1..Len(x.todo) /\ DOMAIN x.queues = 1..Len(x.queues)
    BY WatchingType, LenProperties
  <2>3. ASSUME NEW s \in Sources
        PROVE  x.told[s] \in Seq(Numbers(s)) /\ InOrder(x.told[s])
    <3>1. PICK told : told = x.told[s]
      OBVIOUS
    <3>2. /\ told \in Seq(1..MaxEvents) /\ InOrder(told) /\ Len(told) \in Nat
          /\ \A i \in 1..Len(told) : told[i] \in Numbers(s)
      BY <2>1, <3>1, WatchingType DEF Watched, InStep
    <3>3. told = [i \in 1..Len(told) |-> told[i]]
      BY <3>2, LenProperties
    <3>4. told \in Seq(Numbers(s))
      BY <3>2, <3>3, IsASeq
    <3> QED  BY <3>1, <3>2, <3>4
  <2>4. ASSUME NEW i \in 1..Len(x.queues)
        PROVE  LET q == x.queues[i]
                   told == x.told[q.source]
               IN  /\ q.held \in Seq(Numbers(q.source))
                   /\ InOrder(told \o q.held)
                   /\ ToSet(q.held) \cup {n \in ToSet(told) : n > q.base}
                        = q.base + 1..Len(published[q.source])
    <3>1. PICK q \in Queues : q = x.queues[i]
      BY WatchingType
    <3>2. PICK s \in Sources : s = q.source
      BY QueueType
    <3>3. PICK told : told = x.told[s]
      OBVIOUS
    <3>4. PICK len : len = Len(published[s])
      OBVIOUS
    <3>5. len \in Nat /\ len \in 0..MaxEvents /\ MaxEvents \in Nat /\ Numbers(s) = 1..len
      BY <1>1, <3>4, StreamType
    <3>6. /\ q.base \in Nat /\ q.held \in Seq(1..MaxEvents) /\ Len(q.held) \in Nat
          /\ DOMAIN q.held = 1..Len(q.held)
          /\ told \in Seq(1..len) /\ InOrder(told) /\ Len(told) \in Nat /\ DOMAIN told = 1..Len(told)
      <4>1. q.base \in 0..MaxEvents
        BY QueueType
      <4>2. told \in Seq(1..len) /\ InOrder(told)
        BY <2>3, <3>3, <3>5
      <4> QED  BY <3>5, <4>1, <4>2, QueueType, LenProperties
    <3> DEFINE reached == len - Len(q.held)
    <3>7. /\ q.base <= reached /\ \A k \in 1..Len(q.held) : q.held[k] = reached + k
          /\ \A k \in 1..Len(told) : told[k] <= reached
          /\ \A n \in q.base + 1..reached : \E k \in 1..Len(told) : told[k] = n
      <4>1. UpTo(x, q)
        BY <2>1, <3>1 DEF Watched
      <4> QED  BY <3>2, <3>3, <3>4, <4>1 DEF UpTo
    <3>8. reached \in Nat /\ reached <= len /\ len = reached + Len(q.held)
      BY <3>5, <3>6, <3>7
    <3> HIDE DEF reached
    <3>9. q.held \in Seq(1..len)
      <4>1. PICK held : held = q.held
        OBVIOUS
      <4>2. Len(held) \in Nat /\ held = [k \in 1..Len(held) |-> held[k]]
        BY <3>6, <4>1, LenProperties
      <4>3. \A k \in 1..Len(held) : held[k] \in 1..len
        BY <3>5, <3>6, <3>7, <3>8, <4>1
      <4>4. PICK n \in Nat : n = Len(held)
        BY <4>2
      <4>5. [k \in 1..n |-> held[k]] \in Seq(1..len)
        BY <4>3, <4>4, IsASeq
      <4>6. held \in Seq(1..len)
        BY <4>2, <4>4, <4>5
      <4> QED  BY <4>1, <4>6
    <3>10. InOrder(told \o q.held)
      <4>1. reached \in Int
        BY <3>8
      <4>2. PICK held : held = q.held
        OBVIOUS
      <4>3. held \in Seq(1..len) /\ \A k \in 1..Len(held) : held[k] = reached + k
        BY <3>7, <3>9, <4>2
      <4>4. InOrder(told \o held)
        BY <3>5, <3>6, <3>7, <4>1, <4>3, GoesOn
      <4> QED  BY <4>2, <4>4
    <3>11. ToSet(q.held) = {q.held[k] : k \in 1..Len(q.held)} /\ ToSet(told) = {told[k] : k \in 1..Len(told)}
      BY <3>6 DEF ToSet
    <3>12. ToSet(q.held) \cup {n \in ToSet(told) : n > q.base} = q.base + 1..len
      <4>1. ASSUME NEW n \in ToSet(q.held) PROVE n \in q.base + 1..len
        <5>1. PICK k \in 1..Len(q.held) : n = reached + k
          BY <3>7, <3>11
        <5> QED  BY <3>6, <3>7, <3>8, <5>1
      <4>2. ASSUME NEW n \in ToSet(told), n > q.base PROVE n \in q.base + 1..len
        <5>1. PICK k \in 1..Len(told) : n = told[k]
          BY <3>11
        <5>2. n \in 1..len
          BY <3>6, <5>1, ElementOfSeq
        <5> QED  BY <3>5, <3>6, <4>2, <5>2
      <4>3. ASSUME NEW n \in q.base + 1..len
            PROVE  n \in ToSet(q.held) \/ (n \in ToSet(told) /\ n > q.base)
        <5>1. n \in Int /\ n > q.base
          BY <3>6
        <5>2. CASE n <= reached
          <6>1. n \in q.base + 1..reached
            BY <5>2
          <6>2. PICK k \in 1..Len(told) : told[k] = n
            BY <3>7, <6>1
          <6> QED  BY <3>11, <5>1, <6>2
        <5>3. CASE ~ (n <= reached)
          <6>1. n - reached \in 1..Len(q.held) /\ reached + (n - reached) = n
            BY <3>6, <3>8, <5>1, <5>3
          <6>2. q.held[n - reached] = n
            BY <3>7, <6>1
          <6> QED  BY <3>11, <6>1, <6>2
        <5> QED  BY <5>2, <5>3
      <4> QED  BY <4>1, <4>2, <4>3
    <3> QED  BY <3>1, <3>2, <3>3, <3>4, <3>5, <3>9, <3>10, <3>12
  <2>5. \A i \in 1..Len(x.todo) : x.todo[i].n \in Numbers(x.todo[i].source)
    BY <2>1 DEF Watched, Ahead
  <2>6. x.at <= Len(x.queues) + 1
    BY <2>1 DEF Watched
  <2> QED  BY <2>2, <2>3, <2>4, <2>5, <2>6
<1>3. \A w \in Watchers : watcher[w] \in Watching
  BY DEF WatchInv
<1>4. WatcherOK
  <2> SUFFICES ASSUME NEW w \in Watchers
               PROVE  LET x == watcher[w] IN
                        /\ x \in Watching
                        /\ \A i \in DOMAIN x.todo : x.todo[i].n \in Numbers(x.todo[i].source)
                        /\ \A i \in DOMAIN x.queues : x.queues[i].held \in Seq(Numbers(x.queues[i].source))
                        /\ x.at <= Len(x.queues) + 1
                        /\ \A s \in Sources : x.told[s] \in Seq(Numbers(s))
    BY DEF WatcherOK
  <2>1. PICK x \in Watching : x = watcher[w]
    BY <1>3
  <2> QED  BY <1>2, <2>1
<1>5. ASSUME NEW w \in Watchers
      PROVE  LET x == watcher[w] IN
               /\ \A s \in Sources : InOrder(x.told[s])
               /\ \A i \in DOMAIN x.queues :
                    LET q == x.queues[i]
                        told == x.told[q.source]
                    IN  /\ InOrder(told \o q.held)
                        /\ ToSet(q.held) \cup {n \in ToSet(told) : n > q.base}
                             = q.base + 1..Len(published[q.source])
  <2>1. PICK x \in Watching : x = watcher[w]
    BY <1>3
  <2> QED  BY <1>2, <2>1
<1> QED  BY <1>4, <1>5 DEF ThreadInOrder

\* In every state each watcher is where its queues and its replay say: the numbers of a
\* source come in order, and a queue goes on where the watcher was told last
\* (join_event_streaming, Threads.Stream.subscribe, StreamManager.put).
THEOREM WatchInvariant == Spec => []WatchInv
<1>1. Init => WatchInv
  <2> SUFFICES ASSUME Init PROVE WatchInv
    OBVIOUS
  <2>1. ReplayInv /\ TypeOK
    BY InitReplay DEF ReplayInv
  <2> DEFINE y == Away
  <2>2. y = [pc |-> "off", todo |-> <<>>, queues |-> <<>>, at |-> 1,
             told |-> [s \in Sources |-> <<>>], last |-> None]
    BY DEF Away, Connection
  <2>3. watcher = [w \in Watchers |-> y]
    BY DEF Init
  <2> HIDE DEF y
  <2>4. /\ None \in Ids /\ <<>> \in Seq(1..MaxEvents) /\ <<>> \in Seq(Queues)
        /\ <<>> \in Seq(Places)
    BY BoundAssumption DEF Ids, None
  <2>5. y \in Watching
    BY <2>2, <2>4 DEF Watching
  <2>6. Watched(y)
    BY <2>1, <2>2, <2>5, NothingYet
  <2> QED  BY <2>1, <2>3, <2>5, <2>6 DEF WatchInv
<1> QED  BY <1>1, WatchStep, PTL DEF Spec

\* Within a connection to the thread no message comes twice, those of a run come in
\* order, and from its subscription on none is lost, whatever runs join and whatever is
\* put between the look into the store, the replay and the subscription.
THEOREM ThreadsInOrder == Spec => []ThreadInOrder
BY NothingIsLost, WatchInvariant, PTL
=============================================================================
