-------------------------- MODULE RunControlProofs --------------------------
(***************************************************************************)
(* Proofs for RunControl, for any number of attempts, subscribers and      *)
(* requests: a retry is not ended by what the attempt before it left       *)
(* behind, a cancellation on its way to a worker stays so, and every       *)
(* queue holds messages only.                                              *)
(*                                                                         *)
(* The first two rest on who can meet a done message: it is sent when an   *)
(* attempt ends its block (DoneMeansEnded), and the next one is started    *)
(* only after that one has left (OneAttempt).                              *)
(***************************************************************************)
EXTENDS RunControl, SequenceTheorems, WellFoundedInduction, TLAPS

\* A message put into the control queues is in those that are listed, at the end.
LEMMA PutIsHeard ==
  ASSUME ControlTypes, NEW m \in Payload, PutControl(m)
  PROVE  /\ control' \in [Attempts -> Seq(Payload)] /\ key' = m
         /\ \A a \in Attempts :
              /\ ToSet(control[a]) \subseteq ToSet(control'[a])
              /\ ToSet(control'[a]) \subseteq ToSet(control[a]) \cup {m}
              /\ control'[a] # control[a] => a \in listed
<1>1. ASSUME NEW a \in Attempts
      PROVE  /\ Append(control[a], m) \in Seq(Payload)
             /\ ToSet(Append(control[a], m)) = ToSet(control[a]) \cup {m}
  <2> DEFINE s == control[a]
             t == Append(s, m)
  <2>1. s \in Seq(Payload)
    BY DEF ControlTypes
  <2>2. /\ t \in Seq(Payload) /\ Len(t) = Len(s) + 1 /\ t[Len(s) + 1] = m
        /\ \A i \in 1..Len(s) : t[i] = s[i]
    BY <2>1, AppendProperties
  <2>3. ToSet(s) = {s[i] : i \in 1..Len(s)} /\ ToSet(t) = {t[i] : i \in 1..Len(s) + 1}
    BY <2>1, <2>2 DEF ToSet
  <2> HIDE DEF t
  <2>4. ASSUME NEW i \in 1..Len(s) + 1 PROVE t[i] = m \/ (i \in 1..Len(s) /\ t[i] = s[i])
    BY <2>1, <2>2
  <2>5. m \in ToSet(t) /\ \A i \in 1..Len(s) : s[i] \in ToSet(t)
    BY <2>1, <2>2, <2>3
  <2>6. ToSet(t) = ToSet(s) \cup {m}
    BY <2>3, <2>4, <2>5
  <2> QED  BY <2>2, <2>6 DEF t
<1>2. \A a \in Attempts : control'[a] = IF a \in listed THEN Append(control[a], m) ELSE control[a]
  BY DEF PutControl
<1>3. control' = [a \in Attempts |-> IF a \in listed THEN Append(control[a], m) ELSE control[a]]
  BY DEF PutControl
<1>4. control' \in [Attempts -> Seq(Payload)]
  BY <1>1, <1>3 DEF ControlTypes
<1> QED  BY <1>1, <1>2, <1>4 DEF PutControl

-----------------------------------------------------------------------------
(* What a subscriber takes over: the control queues one after the other      *)

\* A set of numbers has a least one.
LEMMA LeastOne ==
  ASSUME NEW S \in SUBSET Nat, S # {}
  PROVE  \E m \in S : \A n \in S : m <= n
<1> DEFINE R == OpToRel(<, Nat)
<1>1. IsWellFoundedOn(R, Nat)
  BY NatLessThanWellFounded
<1>2. \A m, n \in Nat : m < n => <<m, n>> \in R
  BY DEF OpToRel
<1> HIDE DEF R
<1>3. PICK m \in S : \A n \in S : ~ (<<n, m>> \in R)
  BY <1>1, WFMin
<1>4. ASSUME NEW n \in S PROVE m <= n
  <2>1. ~ (n < m)
    BY <1>2, <1>3
  <2> QED  BY <2>1
<1> QED  BY <1>4

\* The recursive function by which FlattenSeq puts sequences one after the other
\* exists, and its values are sequences.
Joins(f, seqs, n) ==
  \A i \in 1..n : f[i] = IF i = 1 THEN seqs[i] ELSE f[i - 1] \o seqs[i]

LEMMA JoinedUpTo ==
  ASSUME NEW S, NEW N \in Nat, NEW seqs \in [1..N -> Seq(S)]
  PROVE  \E f \in [1..N -> Seq(S)] : Joins(f, seqs, N)
<1> DEFINE Good(n) == \E f \in [1..n -> Seq(S)] : Joins(f, seqs, n)
           Bad == {n \in 0..N : ~Good(n)}
<1>1. Good(0)
  <2> DEFINE f0 == [i \in 1..0 |-> <<>>]
  <2>1. f0 \in [1..0 -> Seq(S)]
    OBVIOUS
  <2>2. Joins(f0, seqs, 0)
    BY DEF Joins
  <2> HIDE DEF f0
  <2> QED  BY <2>1, <2>2
<1>2. ASSUME NEW n \in 0..N, n + 1 \in 0..N, Good(n)
      PROVE  Good(n + 1)
  <2>1. PICK f \in [1..n -> Seq(S)] : Joins(f, seqs, n)
    BY <1>2
  <2> DEFINE last == IF n + 1 = 1 THEN seqs[n + 1] ELSE f[n] \o seqs[n + 1]
             g == [i \in 1..(n + 1) |-> IF i = n + 1 THEN last ELSE f[i]]
  <2>2. n + 1 \in 1..N
    BY <1>2
  <2>3. last \in Seq(S)
    <3>1. CASE n = 0
      BY <2>2, <3>1
    <3>2. CASE n # 0
      <4>1. f[n] \in Seq(S) /\ seqs[n + 1] \in Seq(S)
        BY <2>2, <3>2
      <4> QED  BY <3>2, <4>1, ConcatProperties
    <3> QED  BY <3>1, <3>2
  <2>4. \A i \in 1..(n + 1) : i = n + 1 \/ i \in 1..n
    OBVIOUS
  <2> HIDE DEF last
  <2>5. g \in [1..(n + 1) -> Seq(S)]
    BY <2>3, <2>4
  <2>6. g[n + 1] = last /\ \A i \in 1..n : g[i] = f[i]
    OBVIOUS
  <2> HIDE DEF g
  <2>7. ASSUME NEW i \in 1..(n + 1)
        PROVE  g[i] = IF i = 1 THEN seqs[i] ELSE g[i - 1] \o seqs[i]
    <3>1. CASE i = n + 1
      <4>1. CASE n = 0
        BY <2>6, <3>1, <4>1 DEF last
      <4>2. CASE n # 0
        <5>1. n \in 1..n /\ i - 1 = n /\ i # 1
          BY <3>1, <4>2
        <5> QED  BY <2>6, <3>1, <5>1 DEF last
      <4> QED  BY <4>1, <4>2
    <3>2. CASE i \in 1..n
      <4>1. f[i] = IF i = 1 THEN seqs[i] ELSE f[i - 1] \o seqs[i]
        BY <2>1, <3>2 DEF Joins
      <4>2. i # 1 => i - 1 \in 1..n
        BY <3>2
      <4> QED  BY <2>6, <3>2, <4>1, <4>2
    <3> QED  BY <2>4, <3>1, <3>2
  <2> QED  BY <2>5, <2>7 DEF Joins
<1> HIDE DEF Good
<1>3. Bad = {}
  <2> SUFFICES ASSUME Bad # {} PROVE FALSE
    OBVIOUS
  <2>1. Bad \in SUBSET Nat
    OBVIOUS
  <2>2. PICK m \in Bad : \A n \in Bad : m <= n
    BY <2>1, LeastOne
  <2>3. m \in 0..N /\ ~Good(m) /\ m # 0
    BY <1>1
  <2>4. m - 1 \in 0..N /\ (m - 1) + 1 = m /\ ~ (m <= m - 1)
    BY <2>3
  <2>5. Good(m - 1)
    BY <2>2, <2>4
  <2> HIDE DEF Bad
  <2> QED  BY <1>2, <2>3, <2>4, <2>5
<1>4. Good(N)
  BY <1>3
<1> QED  BY <1>4 DEF Good

LEMMA JoinedType ==
  ASSUME NEW S, NEW N \in Nat, NEW seqs \in [1..N -> Seq(S)], NEW f, Joins(f, seqs, N)
  PROVE  \A i \in 1..N : f[i] \in Seq(S)
<1> DEFINE Bad == {i \in 1..N : f[i] \notin Seq(S)}
<1> SUFFICES ASSUME Bad # {} PROVE FALSE
  OBVIOUS
<1>1. Bad \in SUBSET Nat
  OBVIOUS
<1>2. PICK m \in Bad : \A n \in Bad : m <= n
  BY <1>1, LeastOne
<1>3. m \in 1..N /\ f[m] \notin Seq(S)
  OBVIOUS
<1>4. f[m] = IF m = 1 THEN seqs[m] ELSE f[m - 1] \o seqs[m]
  BY <1>3 DEF Joins
<1>5. m # 1
  BY <1>3, <1>4
<1>6. m - 1 \in 1..N /\ ~ (m <= m - 1)
  BY <1>3, <1>5
<1>7. f[m - 1] \in Seq(S)
  BY <1>2, <1>6
<1>8. seqs[m] \in Seq(S)
  BY <1>3
<1> QED  BY <1>3, <1>4, <1>5, <1>7, <1>8, ConcatProperties

LEMMA FlattenType ==
  ASSUME NEW S, NEW N \in Nat, NEW seqs \in [1..N -> Seq(S)]
  PROVE  FlattenSeq(seqs) \in Seq(S)
<1>1. seqs \in Seq(Seq(S)) /\ Len(seqs) = N
  OBVIOUS
<1>2. CASE N = 0
  <2>1. FlattenSeq(seqs) = seqs
    BY <1>1, <1>2 DEF FlattenSeq
  <2>2. seqs = <<>>
    BY <1>1, <1>2, EmptySeq
  <2>3. <<>> \in Seq(S)
    OBVIOUS
  <2> QED  BY <2>1, <2>2, <2>3
<1>3. CASE N # 0
  <2> DEFINE Rec(f) == [i \in 1..N |-> IF i = 1 THEN seqs[i] ELSE f[i - 1] \o seqs[i]]
             flat == CHOOSE f : f = Rec(f)
  <2>1. FlattenSeq(seqs) = flat[N]
    BY <1>1, <1>3 DEF FlattenSeq
  <2>2. \E f : f = Rec(f)
    <3>1. PICK f \in [1..N -> Seq(S)] : Joins(f, seqs, N)
      BY JoinedUpTo
    <3>2. f = Rec(f)
      BY <3>1 DEF Joins
    <3> QED  BY <3>2
  <2>3. flat = Rec(flat)
    <3> HIDE DEF Rec
    <3> QED  BY <2>2
  <2> HIDE DEF flat
  <2>4. Joins(flat, seqs, N)
    BY <2>3 DEF Joins
  <2>5. \A i \in 1..N : flat[i] \in Seq(S)
    BY <2>4, JoinedType
  <2> QED  BY <1>3, <2>1, <2>5
<1> QED  BY <1>2, <1>3

-----------------------------------------------------------------------------
(* The control messages                                                      *)

LEMMA InitControl == Init => ControlInv
BY AttemptsAssumption
   DEF Init, ControlInv, ControlTypes, OneAttempt, DoneMeansEnded, ListenerSays,
       Attempts, Active, Payload, Cancels, ToSet

LEMMA DispatchKeeps == ControlInv /\ Dispatch => ControlInv'
<1> SUFFICES ASSUME ControlInv, Dispatch PROVE ControlInv'
  OBVIOUS
<1>1. /\ worker' = [worker EXCEPT ![attempt + 1] = "task"] /\ attempt + 1 \in Attempts
      /\ attempt' = attempt + 1 /\ attempt \in Nat /\ status = "pending" /\ status' = "running"
      /\ UNCHANGED <<reported, ctlVars, outbox>>
  BY AttemptsAssumption DEF Dispatch, ControlInv, ControlTypes, Attempts
<1>2. ControlTypes'
  BY <1>1, AttemptsAssumption DEF ControlInv, ControlTypes, ctlVars, Attempts, Active
<1>3. OneAttempt'
  BY <1>1 DEF ControlInv, ControlTypes, OneAttempt, Attempts
<1>4. DoneMeansEnded' /\ ListenerSays'
  BY <1>1 DEF ControlInv, ControlTypes, DoneMeansEnded, ListenerSays, OneAttempt, ctlVars, Attempts
<1> QED  BY <1>2, <1>3, <1>4 DEF ControlInv

\* Two steps of the worker leave the control messages alone, or put one.
LEMMA WorkKeeps ==
  ASSUME ControlInv, NEW a \in Attempts, Work(a)
  PROVE  ControlInv'
<1> USE DEF Attempts
<1>0. /\ ControlTypes /\ OneAttempt /\ DoneMeansEnded /\ ListenerSays /\ attempt \in Nat
      /\ MaxAttempts \in Nat
  BY AttemptsAssumption DEF ControlInv, ControlTypes
<1>1. CASE Enter(a)
  <2>1. /\ worker' = [worker EXCEPT ![a] = "body"] /\ worker[a] = "task"
        /\ listed' = listed \cup {a} /\ listener' = [listener EXCEPT ![a] = "new"]
        /\ UNCHANGED <<status, attempt, reported, key, control, done, outbox>>
    BY <1>1 DEF Enter, runVars
  <2>2. ControlTypes'
    BY <1>0, <2>1 DEF ControlTypes
  <2>3. OneAttempt' /\ DoneMeansEnded' /\ ListenerSays'
    BY <1>0, <2>1 DEF ControlTypes, OneAttempt, DoneMeansEnded, ListenerSays
  <2> QED  BY <2>2, <2>3 DEF ControlInv
<1>2. CASE Publish(a)
  BY <1>0, <1>2 DEF Publish, runVars, workVars, ctlVars, ControlInv, ControlTypes, OneAttempt,
                    DoneMeansEnded, ListenerSays
<1>3. CASE Report(a)
  <2>1. /\ worker[a] \in {"body", "left"} /\ a \notin reported /\ reported' = reported \cup {a}
        /\ \/ status' \in {"finished", "interrupted", "gone"}
           \/ worker[a] = "left" /\ status' = "pending"
        /\ UNCHANGED <<attempt, worker, key, listed, control, listener, done, outbox>>
    BY <1>3 DEF Report, ctlVars
  <2>2. a = attempt
    BY <1>0, <2>1 DEF OneAttempt, ControlTypes
  <2>3. ControlTypes'
    BY <1>0, <2>1 DEF ControlTypes, Active
  <2>4. OneAttempt'
    BY <1>0, <2>1, <2>2 DEF OneAttempt
  <2>5. DoneMeansEnded' /\ ListenerSays'
    BY <1>0, <2>1 DEF DoneMeansEnded, ListenerSays
  <2> QED  BY <2>3, <2>4, <2>5 DEF ControlInv
<1>4. CASE ReportFails(a)
  <2>1. /\ status = "gone" /\ a \notin reported /\ reported' = reported \cup {a}
        /\ \/ /\ worker[a] = "body" /\ worker' = [worker EXCEPT ![a] = "failed"]
              /\ listener' = [listener EXCEPT ![a] = "over"]
           \/ UNCHANGED <<worker, listener>>
        /\ UNCHANGED <<status, attempt, key, listed, control, done, outbox>>
    BY <1>4 DEF ReportFails, runVars
  <2>2. ControlTypes'
    BY <1>0, <2>1 DEF ControlTypes
  <2>3. OneAttempt' /\ DoneMeansEnded' /\ ListenerSays'
    BY <1>0, <2>1 DEF ControlTypes, OneAttempt, DoneMeansEnded, ListenerSays
  <2> QED  BY <2>2, <2>3 DEF ControlInv
<1>5. CASE BlockEnds(a)
  <2>1. /\ worker' = [worker EXCEPT ![a] = "said"] /\ worker[a] = "body" /\ PutControl("done")
        /\ UNCHANGED <<status, attempt, reported, listed, listener, done, outbox>>
    BY <1>5 DEF BlockEnds, PutControl, runVars
  <2>2. "done" \in Payload
    BY DEF Payload
  <2>3. /\ control' \in [Attempts -> Seq(Payload)] /\ key' = "done"
        /\ \A b \in Attempts : "done" \in ToSet(control'[b])
             => "done" \in ToSet(control[b]) \/ b \in listed
    BY <1>0, <2>1, <2>2, PutIsHeard
  <2>a. a = attempt
    BY <1>0, <2>1 DEF OneAttempt
  <2>4. \A b \in Attempts : b # a /\ b \in listed => worker[b] = "left"
    BY <1>0, <2>a DEF OneAttempt, ListenerSays
  <2>5. ControlTypes'
    BY <1>0, <2>1, <2>2, <2>3 DEF ControlTypes
  <2>6. OneAttempt' /\ ListenerSays'
    BY <1>0, <2>1 DEF ControlTypes, OneAttempt, ListenerSays
  <2>7. DoneMeansEnded'
    BY <1>0, <2>1, <2>3, <2>4 DEF ControlTypes, DoneMeansEnded
  <2> QED  BY <2>5, <2>6, <2>7 DEF ControlInv
<1>6. CASE SignalDone(a)
  <2>1. /\ worker' = [worker EXCEPT ![a] = "closing"] /\ worker[a] = "said"
        /\ UNCHANGED <<status, attempt, reported, key, listed, control, listener, done, outbox>>
    BY <1>6 DEF SignalDone, runVars, ctlVars
  <2> QED
    BY <1>0, <2>1 DEF ControlInv, ControlTypes, OneAttempt, DoneMeansEnded, ListenerSays
<1>7. CASE Leave(a)
  <2>1. /\ worker' = [worker EXCEPT ![a] = "left"] /\ worker[a] = "closing"
        /\ listed' = listed \ {a} /\ control' = [control EXCEPT ![a] = <<>>]
        /\ listener' = [listener EXCEPT ![a] = "over"]
        /\ UNCHANGED <<status, attempt, reported, key, done, outbox>>
    BY <1>7 DEF Leave, runVars
  <2>2. <<>> \in Seq(Payload)
    OBVIOUS
  <2>3. ControlTypes'
    BY <1>0, <2>1, <2>2 DEF ControlTypes
  <2>4. OneAttempt' /\ DoneMeansEnded' /\ ListenerSays'
    BY <1>0, <2>1 DEF ControlTypes, OneAttempt, DoneMeansEnded, ListenerSays
  <2> QED  BY <2>3, <2>4 DEF ControlInv
<1> QED  BY <1>1, <1>2, <1>3, <1>4, <1>5, <1>6, <1>7 DEF Work

LEMMA ToSetIs ==
  ASSUME NEW S, NEW s \in Seq(S)
  PROVE  ToSet(s) = {s[i] : i \in 1..Len(s)}
BY DEF ToSet

\* The head of a control queue is one of its messages, and a tail has no others.
LEMMA HeadIsHeard ==
  ASSUME NEW s \in Seq(Payload), s # <<>>
  PROVE  /\ Head(s) \in ToSet(s) /\ Head(s) \in Payload
         /\ Tail(s) \in Seq(Payload) /\ ToSet(Tail(s)) \subseteq ToSet(s)
<1>1. /\ Head(s) \in Payload /\ Tail(s) \in Seq(Payload) /\ Len(Tail(s)) = Len(s) - 1
      /\ \A i \in 1..Len(Tail(s)) : Tail(s)[i] = s[i + 1]
  BY HeadTailProperties
<1>2. 1 \in 1..Len(s) /\ Head(s) = s[1]
  OBVIOUS
<1>3. \A i \in 1..Len(Tail(s)) : i + 1 \in 1..Len(s) /\ Tail(s)[i] = s[i + 1]
  BY <1>1
<1>4. /\ ToSet(s) = {s[i] : i \in 1..Len(s)}
      /\ ToSet(Tail(s)) = {Tail(s)[i] : i \in 1..Len(Tail(s))}
  BY <1>1, ToSetIs
<1> QED  BY <1>1, <1>2, <1>3, <1>4

LEMMA ListenKeeps ==
  ASSUME ControlInv, NEW a \in Attempts, Listen(a)
  PROVE  ControlInv'
<1>0. ControlTypes /\ OneAttempt /\ DoneMeansEnded /\ ListenerSays
  BY DEF ControlInv
<1>1. /\ UNCHANGED <<status, attempt, worker, reported, key, listed, outbox>>
      /\ listener[a] \in {"new", "waiting"}
  BY DEF Listen, ListenerStarts, ListenerHears, ListenerTimesOut, runVars, workVars
<1>2. OneAttempt'
  BY <1>0, <1>1 DEF OneAttempt
<1>3. CASE ListenerStarts(a)
  <2>1. /\ UNCHANGED control
        /\ \/ /\ done' = [done EXCEPT ![a] = key] /\ key \in Cancels
              /\ listener' = [listener EXCEPT ![a] = "over"]
           \/ UNCHANGED done /\ listener' = [listener EXCEPT ![a] = "waiting"]
    BY <1>3 DEF ListenerStarts, Heeded
  <2>2. ControlTypes'
    BY <1>0, <1>1, <2>1 DEF ControlTypes, Payload
  <2>3. DoneMeansEnded'
    BY <1>0, <1>1, <2>1 DEF ControlTypes, DoneMeansEnded, Cancels
  <2>4. ListenerSays'
    BY <1>0, <1>1, <2>1 DEF ControlTypes, ListenerSays, Cancels
  <2> QED  BY <1>2, <2>2, <2>3, <2>4 DEF ControlInv
<1>4. CASE ListenerHears(a)
  <2> DEFINE s == control[a]
  <2>1. /\ done' = [done EXCEPT ![a] = Head(s)] /\ control' = [control EXCEPT ![a] = Tail(s)]
        /\ listener' = [listener EXCEPT ![a] = "over"] /\ s # <<>>
    BY <1>4 DEF ListenerHears
  <2>2. /\ Head(s) \in ToSet(s) /\ Head(s) \in Payload
        /\ Tail(s) \in Seq(Payload) /\ ToSet(Tail(s)) \subseteq ToSet(s)
    BY <1>0, <2>1, HeadIsHeard DEF ControlTypes
  <2>3. ControlTypes'
    BY <1>0, <1>1, <2>1, <2>2 DEF ControlTypes
  <2>4. DoneMeansEnded'
    BY <1>0, <1>1, <2>1, <2>2 DEF ControlTypes, DoneMeansEnded
  <2>5. ListenerSays'
    BY <1>0, <1>1, <2>1 DEF ControlTypes, ListenerSays
  <2> QED  BY <1>2, <2>3, <2>4, <2>5 DEF ControlInv
<1>5. CASE ListenerTimesOut(a)
  <2>1. UNCHANGED <<control, done>> /\ listener' = [listener EXCEPT ![a] = "over"]
    BY <1>5 DEF ListenerTimesOut
  <2>2. ControlTypes' /\ DoneMeansEnded' /\ ListenerSays'
    BY <1>0, <1>1, <2>1 DEF ControlTypes, DoneMeansEnded, ListenerSays
  <2> QED  BY <1>2, <2>2 DEF ControlInv
<1> QED  BY <1>3, <1>4, <1>5 DEF Listen

\* Cancel requests never make a run pending again, and send no done message.
LEMMA CancelKeeps ==
  ASSUME ControlInv, Send \/ \E action \in Cancels, keyed \in Keyed : Cancel(action, keyed)
  PROVE  ControlInv'
<1>0. ControlTypes /\ OneAttempt /\ DoneMeansEnded /\ ListenerSays
  BY DEF ControlInv
<1>1. ASSUME NEW action \in Cancels, CancelSends(action) PROVE ControlInv'
  <2>1. /\ PutControl(action) /\ outbox' = outbox \ {action} /\ action \in Payload
        /\ UNCHANGED <<status, attempt, worker, reported, listed, listener, done>>
    BY <1>1 DEF CancelSends, PutControl, runVars, workVars, Payload
  <2>2. /\ control' \in [Attempts -> Seq(Payload)] /\ key' = action
        /\ \A b \in Attempts : "done" \in ToSet(control'[b]) => "done" \in ToSet(control[b])
    BY <1>0, <2>1, PutIsHeard DEF Cancels
  <2>3. ControlTypes'
    BY <1>0, <2>1, <2>2 DEF ControlTypes
  <2>4. OneAttempt' /\ DoneMeansEnded' /\ ListenerSays'
    BY <1>0, <2>1, <2>2 DEF OneAttempt, DoneMeansEnded, ListenerSays
  <2> QED  BY <2>3, <2>4 DEF ControlInv
<1>2. CASE CancelDeletes
  BY <1>0, <1>2 DEF CancelDeletes, workVars, ctlVars, ControlInv, ControlTypes, OneAttempt,
                    DoneMeansEnded, ListenerSays
<1>3. ASSUME NEW action \in Cancels, NEW keyed \in Keyed, Cancel(action, keyed) PROVE ControlInv'
  <2>1. /\ UNCHANGED <<attempt, worker, reported, key, listed, control, listener, done>>
        /\ status' \in {status, "interrupted"} /\ outbox' \in SUBSET (Cancels \cup {"delete"})
    BY <1>0, <1>3 DEF Cancel, workVars, ctlVars, ControlTypes
  <2> QED
    BY <1>0, <2>1 DEF ControlInv, ControlTypes, OneAttempt, DoneMeansEnded, ListenerSays
<1> QED  BY <1>1, <1>2, <1>3 DEF Send

\* A subscriber empties control queues and adds nothing to them.
LEMMA SubscriberKeeps ==
  ASSUME ControlInv, NEW s \in Subs, Subscribe(s) \/ JoinMoves(s) \/ Disconnect(s)
  PROVE  ControlInv'
<1>0. ControlTypes /\ OneAttempt /\ DoneMeansEnded /\ ListenerSays
  BY DEF ControlInv
<1>1. CASE Subscribe(s)
  <2>1. /\ control' = [a \in Attempts |-> IF a \in listed THEN <<>> ELSE control[a]]
        /\ UNCHANGED <<status, attempt, worker, reported, key, listed, listener, done, outbox>>
    BY <1>1 DEF Subscribe, runVars, workVars
  <2>2. <<>> \in Seq(Payload) /\ ToSet(<<>>) = {}
    BY DEF ToSet
  <2>3. ControlTypes'
    BY <1>0, <2>1, <2>2 DEF ControlTypes
  <2>4. OneAttempt' /\ ListenerSays'
    BY <1>0, <2>1 DEF OneAttempt, ListenerSays
  <2>5. DoneMeansEnded'
    BY <1>0, <2>1, <2>2 DEF DoneMeansEnded
  <2> QED  BY <2>3, <2>4, <2>5 DEF ControlInv
<1>2. CASE JoinMoves(s) \/ Disconnect(s)
  BY <1>0, <1>2 DEF JoinMoves, Receive, TimesOut, Disconnect, runVars, workVars, ctlVars,
                    ControlInv, ControlTypes, OneAttempt, DoneMeansEnded, ListenerSays
<1> QED  BY <1>1, <1>2

-----------------------------------------------------------------------------
(* The types of the stream side                                              *)

StreamTypes ==
  /\ sub \in [Subs -> {"off", "joining", "closed"}]
  /\ queue \in [Subs -> Seq(Payload \cup {"event"})]
  /\ spent \in [timeouts : 0..MaxTimeouts, cancels : 0..MaxCancels]

\* A message put into the stream queues leaves them sequences of messages.
LEMMA PutStreamTypes ==
  ASSUME StreamTypes, NEW m \in Payload \cup {"event"}, PutStream(m)
  PROVE  /\ queue' \in [Subs -> Seq(Payload \cup {"event"})]
         /\ UNCHANGED sub
<1> DEFINE S == Payload \cup {"event"}
<1>1. queue \in [Subs -> Seq(S)]
  BY DEF StreamTypes
<1>2. queue' = [s \in Subs |-> IF sub[s] = "joining" THEN Append(queue[s], m) ELSE queue[s]]
      /\ UNCHANGED sub
  BY DEF PutStream
<1> HIDE DEF S
<1>3. m \in S
  BY DEF S
<1>4. \A s \in Subs : Append(queue[s], m) \in Seq(S)
  BY <1>1, <1>3, AppendProperties
<1>5. queue' \in [Subs -> Seq(S)]
  BY <1>1, <1>2, <1>4
<1> QED  BY <1>2, <1>5 DEF S

\* One more time-out or cancel is within its bound.
LEMMA SpendTypes ==
  ASSUME spent \in [timeouts : 0..MaxTimeouts, cancels : 0..MaxCancels],
         \/ spent.timeouts < MaxTimeouts /\ spent' = [spent EXCEPT !.timeouts = @ + 1]
         \/ spent.cancels < MaxCancels /\ spent' = [spent EXCEPT !.cancels = @ + 1]
  PROVE  spent' \in [timeouts : 0..MaxTimeouts, cancels : 0..MaxCancels]
<1>1. /\ spent.timeouts \in 0..MaxTimeouts /\ spent.cancels \in 0..MaxCancels
      /\ MaxTimeouts \in Nat /\ MaxCancels \in Nat
  BY BoundsAssumption
<1> QED  BY <1>1

\* What a new subscriber takes over is a sequence of messages.
LEMMA TakenOverType ==
  ASSUME ControlTypes
  PROVE  FlattenSeq([a \in Attempts |-> IF a \in listed THEN control[a] ELSE <<>>])
           \in Seq(Payload \cup {"event"})
<1> DEFINE S == Payload \cup {"event"}
           taken == [a \in Attempts |-> IF a \in listed THEN control[a] ELSE <<>>]
<1>1. \A a \in Attempts : control[a] \in Seq(S)
  <2>1. control \in [Attempts -> Seq(Payload)] /\ Payload \subseteq S
    BY DEF ControlTypes
  <2>2. \A t \in Seq(Payload) : t \in Seq(S)
    BY <2>1
  <2> QED  BY <2>1, <2>2
<1>2. taken \in [1..MaxAttempts -> Seq(S)]
  <2>1. <<>> \in Seq(S)
    OBVIOUS
  <2> HIDE DEF S
  <2> QED  BY <1>1, <2>1 DEF Attempts
<1>3. MaxAttempts \in Nat
  BY AttemptsAssumption
<1> HIDE DEF taken
<1>4. FlattenSeq(taken) \in Seq(S)
  BY <1>2, <1>3, FlattenType
<1> QED  BY <1>4 DEF taken

LEMMA StreamTypesKept ==
  ASSUME ControlTypes, StreamTypes, Next
  PROVE  StreamTypes'
<1>u. ASSUME UNCHANGED <<subVars, spent>> PROVE StreamTypes'
  BY <1>u DEF subVars, StreamTypes
<1>s. ASSUME UNCHANGED subVars,
             \/ spent.timeouts < MaxTimeouts /\ spent' = [spent EXCEPT !.timeouts = @ + 1]
             \/ spent.cancels < MaxCancels /\ spent' = [spent EXCEPT !.cancels = @ + 1]
      PROVE  StreamTypes'
  <2>1. spent' \in [timeouts : 0..MaxTimeouts, cancels : 0..MaxCancels]
    BY <1>s, SpendTypes DEF StreamTypes
  <2> QED  BY <1>s, <2>1 DEF subVars, StreamTypes
<1>1. CASE Dispatch \/ Send
  BY <1>1, <1>u DEF Dispatch, Send, CancelDeletes, CancelSends
<1>2. ASSUME NEW a \in Attempts, Work(a) PROVE StreamTypes'
  <2>1. CASE Publish(a)
    <3>1. /\ queue' \in [Subs -> Seq(Payload \cup {"event"})] /\ UNCHANGED sub
      BY <2>1, PutStreamTypes DEF Publish
    <3> QED  BY <2>1, <3>1 DEF Publish, StreamTypes
  <2>2. CASE SignalDone(a)
    <3>1. /\ queue' \in [Subs -> Seq(Payload \cup {"event"})] /\ UNCHANGED sub
      BY <2>2, PutStreamTypes DEF SignalDone, Payload
    <3> QED  BY <2>2, <3>1 DEF SignalDone, StreamTypes
  <2>3. CASE Enter(a) \/ Report(a) \/ ReportFails(a) \/ BlockEnds(a) \/ Leave(a)
    BY <2>3, <1>u DEF Enter, Report, ReportFails, BlockEnds, Leave
  <2> QED  BY <1>2, <2>1, <2>2, <2>3 DEF Work
<1>3. ASSUME NEW a \in Attempts, Listen(a) PROVE StreamTypes'
  BY <1>3, <1>u, <1>s DEF Listen, ListenerStarts, ListenerHears, ListenerTimesOut
<1>4. ASSUME NEW action \in Cancels, NEW keyed \in Keyed, Cancel(action, keyed) PROVE StreamTypes'
  BY <1>4, <1>s DEF Cancel
<1>5. ASSUME NEW s \in Subs, Subscribe(s) PROVE StreamTypes'
  <2> DEFINE taken == FlattenSeq([a \in Attempts |-> IF a \in listed THEN control[a] ELSE <<>>])
  <2>1. taken \in Seq(Payload \cup {"event"})
    BY TakenOverType
  <2>2. /\ sub' = [sub EXCEPT ![s] = "joining"] /\ queue' = [queue EXCEPT ![s] = taken]
        /\ UNCHANGED spent
    BY <1>5 DEF Subscribe
  <2> HIDE DEF taken
  <2> QED  BY <2>1, <2>2 DEF StreamTypes
<1>6. ASSUME NEW s \in Subs, Receive(s) PROVE StreamTypes'
  <2> DEFINE S == Payload \cup {"event"}
  <2>1. /\ queue \in [Subs -> Seq(S)] /\ queue[s] # <<>> /\ UNCHANGED spent
        /\ \/ /\ sub' = [sub EXCEPT ![s] = "closed"]
              /\ queue' = [queue EXCEPT ![s] = <<>>]
           \/ queue' = [queue EXCEPT ![s] = Tail(queue[s])] /\ UNCHANGED sub
    BY <1>6 DEF Receive, StreamTypes
  <2> HIDE DEF S
  <2>2. Tail(queue[s]) \in Seq(S) /\ <<>> \in Seq(S)
    BY <2>1, HeadTailProperties
  <2>3. queue' \in [Subs -> Seq(S)]
    BY <2>1, <2>2
  <2> QED  BY <2>1, <2>3 DEF StreamTypes, S
<1>7. ASSUME NEW s \in Subs, TimesOut(s) \/ Disconnect(s) PROVE StreamTypes'
  <2>1. <<>> \in Seq(Payload \cup {"event"})
    OBVIOUS
  <2> QED  BY <1>7, <2>1 DEF TimesOut, Disconnect, StreamTypes
<1> QED  BY <1>1, <1>2, <1>3, <1>4, <1>5, <1>6, <1>7 DEF Next, JoinMoves

-----------------------------------------------------------------------------
(* Theorems *)

\* The control queues and listeners of any number of attempts, whatever cancels and
\* subscribers come in between.
THEOREM ControlInvariant == Spec => []ControlInv
<1>1. Init => ControlInv
  BY InitControl
<1>2. ControlInv /\ [Next]_vars => ControlInv'
  <2> SUFFICES ASSUME ControlInv, [Next]_vars PROVE ControlInv'
    OBVIOUS
  <2>1. CASE UNCHANGED vars
    BY <2>1 DEF vars, runVars, workVars, ctlVars, subVars, ControlInv, ControlTypes, OneAttempt,
                DoneMeansEnded, ListenerSays
  <2> QED
    BY <2>1, DispatchKeeps, WorkKeeps, ListenKeeps, CancelKeeps, SubscriberKeeps DEF Next
<1> QED  BY <1>1, <1>2, PTL DEF Spec

\* Every variable keeps its type: a new subscriber's queue, the control queues put one
\* after the other, holds messages only, and no counter passes its bound
\* (StreamManager.put, Runs.Stream.subscribe and join).
THEOREM TypesOfControl == Spec => []TypeOK
<1>1. Init => StreamTypes
  BY BoundsAssumption DEF Init, StreamTypes
<1>2. ControlInv /\ StreamTypes /\ [Next]_vars => StreamTypes'
  <2>1. CASE UNCHANGED vars
    BY <2>1 DEF vars, subVars, StreamTypes
  <2> QED  BY <2>1, StreamTypesKept DEF ControlInv
<1>3. ControlInv /\ StreamTypes => TypeOK
  BY DEF ControlInv, StreamTypes, TypeOK
<1> QED  BY <1>1, <1>2, <1>3, ControlInvariant, PTL DEF Spec

\* A retry is not stopped by the done message of the attempt before it, which goes to
\* every control queue of the run and stays in its control key (Runs.enter).
THEOREM RetriesRun == Spec => []RetryIsNotStopped
<1>1. ControlInv => RetryIsNotStopped
  BY DEF ControlInv, DoneMeansEnded, RetryIsNotStopped, Executing
<1> QED  BY <1>1, ControlInvariant, PTL

\* A cancellation that a worker has been told of, or will be, is lost to nothing but a
\* subscriber (Runs.cancel, listen_for_cancellation, Runs.Stream.subscribe).
THEOREM CancellationsStay == Spec => CancellationIsKept
<1> DEFINE Taken == \E s \in Subs : Subscribe(s)
           A == \A a \in Attempts :
                  OnItsWay(a) /\ Executing(a) /\ Executing(a)' => OnItsWay(a)' \/ Taken
<1>1. ControlInv /\ [Next]_vars => [A]_vars
  <2> SUFFICES ASSUME ControlInv, Next, NEW a \in Attempts, OnItsWay(a), Executing(a),
                      Executing(a)', ~Taken
               PROVE  OnItsWay(a)'
    OBVIOUS
  <2>0. ControlTypes /\ OneAttempt /\ DoneMeansEnded /\ ListenerSays
    BY DEF ControlInv
  <2>a. a = attempt /\ worker[a] \in {"task", "body"} /\ a \notin reported /\ worker'[a] \in {"task", "body"}
    BY <2>0 DEF Executing, OneAttempt, ControlTypes, Attempts
  <2>u. ASSUME UNCHANGED ctlVars PROVE OnItsWay(a)'
    BY <2>u DEF ctlVars, OnItsWay
  <2>1. CASE Dispatch
    BY <2>1, <2>u DEF Dispatch
  <2>2. ASSUME NEW b \in Attempts, Work(b) PROVE OnItsWay(a)'
    <3>1. CASE Enter(b)
      BY <2>0, <3>1 DEF Enter, OnItsWay, ControlTypes
    <3>2. CASE Publish(b) \/ Report(b) \/ SignalDone(b)
      BY <2>u, <3>2 DEF Publish, Report, SignalDone
    <3>3. CASE ReportFails(b)
      <4>1. b # a
        BY <3>3 DEF ReportFails, Executing
      <4> QED  BY <2>0, <3>3, <4>1 DEF ReportFails, OnItsWay, ControlTypes
    <3>4. CASE BlockEnds(b)
      <4>1. b = a
        BY <2>0, <2>a, <3>4 DEF BlockEnds, OneAttempt, ControlTypes, Attempts
      <4> QED  BY <2>0, <2>a, <3>4, <4>1 DEF BlockEnds, ControlTypes
    <3>5. CASE Leave(b)
      <4>1. b # a
        BY <2>a, <3>5 DEF Leave
      <4> QED  BY <2>0, <3>5, <4>1 DEF Leave, OnItsWay, ControlTypes
    <3> QED  BY <2>2, <3>1, <3>2, <3>3, <3>4, <3>5 DEF Work
  <2>3. ASSUME NEW b \in Attempts, Listen(b) PROVE OnItsWay(a)'
    <3>1. CASE b # a
      BY <2>0, <2>3, <3>1
         DEF Listen, ListenerStarts, ListenerHears, ListenerTimesOut, OnItsWay, ControlTypes
    <3>2. CASE ListenerStarts(a)
      BY <2>0, <3>2 DEF ListenerStarts, Heeded, OnItsWay, ControlTypes, ListenerSays, Cancels
    <3>3. CASE ListenerHears(a)
      <4>1. Head(control[a]) \in ToSet(control[a]) /\ Head(control[a]) \in Payload
        BY <2>0, <3>3, HeadIsHeard DEF ListenerHears, ControlTypes
      <4>2. Head(control[a]) # "done"
        BY <2>0, <2>a, <4>1 DEF DoneMeansEnded
      <4>3. done'[a] \in Cancels
        BY <2>0, <3>3, <4>1, <4>2 DEF ListenerHears, ControlTypes, Payload
      <4> QED  BY <4>3 DEF OnItsWay
    <3>4. CASE ListenerTimesOut(a)
      <4>1. listener[a] = "waiting" /\ control[a] = <<>> /\ ToSet(<<>>) = {}
        BY <3>4 DEF ListenerTimesOut, ToSet
      <4>2. done[a] \in Cancels
        BY <4>1 DEF OnItsWay
      <4> QED  BY <2>0, <4>1, <4>2 DEF ListenerSays, Cancels
    <3> QED  BY <2>3, <3>1, <3>2, <3>3, <3>4 DEF Listen
  <2>4. ASSUME NEW action \in Cancels, CancelSends(action) PROVE OnItsWay(a)'
    <3>1. PutControl(action) /\ action \in Payload /\ UNCHANGED <<listener, done>>
      BY <2>4 DEF CancelSends, PutControl, Payload
    <3>2. key' = action /\ ToSet(control[a]) \subseteq ToSet(control'[a])
      BY <2>0, <3>1, PutIsHeard
    <3> QED  BY <3>1, <3>2 DEF OnItsWay
  <2>5. CASE CancelDeletes \/ \E action \in Cancels, keyed \in Keyed : Cancel(action, keyed)
    BY <2>5, <2>u DEF CancelDeletes, Cancel
  <2>6. ASSUME NEW s \in Subs, Subscribe(s) \/ JoinMoves(s) \/ Disconnect(s) PROVE OnItsWay(a)'
    <3>1. ~Subscribe(s)
      OBVIOUS
    <3>2. CASE JoinMoves(s) \/ Disconnect(s)
      BY <2>u, <3>2 DEF JoinMoves, Receive, TimesOut, Disconnect
    <3> QED  BY <2>6, <3>1, <3>2
  <2> QED  BY <2>1, <2>2, <2>3, <2>4, <2>5, <2>6 DEF Next, Send
<1>2. Spec => [][A]_vars
  BY <1>1, ControlInvariant, PTL DEF Spec
<1> QED  BY <1>2 DEF CancellationIsKept
=============================================================================
