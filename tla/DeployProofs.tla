---------------------------- MODULE DeployProofs ----------------------------
(***************************************************************************)
(* Proofs for Deploy, for any number of requests, clients and operations   *)
(* and any buffer sizes: types and buffer bounds, that a running operation *)
(* always has something that will end it, that its stderr precedes its     *)
(* end, that nothing follows its end, and that a client who drops and      *)
(* comes back is sent each event once and in order while the buffer has    *)
(* not rotated.                                                            *)
(*                                                                         *)
(* The inductive invariant adds how an operation ends (EndsInOrder): the   *)
(* one task that closes it does so last.  The order of the streams has its *)
(* own (StreamsInOrder): what a client has been sent, with what waits in   *)
(* its queue, is the events of its operation one by one, up to where its   *)
(* next snapshot begins.                                                   *)
(***************************************************************************)
EXTENDS Deploy, SequenceTheorems, TLAPS

-----------------------------------------------------------------------------
(* Bounded buffers *)

\* What deque(maxlen=n) keeps of a sequence: all of it, or n entries.
LEMMA BoundedType ==
  ASSUME NEW S, NEW s \in Seq(S), NEW n \in Nat \ {0}
  PROVE  /\ Bounded(n, s) \in Seq(S)
         /\ Len(Bounded(n, s)) <= n
         /\ Len(Bounded(n, s)) <= Len(s)
         /\ Len(s) <= n => Bounded(n, s) = s
<1>1. CASE Len(s) > n
  <2>1. Len(s) - n + 1 \in Int /\ Len(s) \in Int /\ \A i \in Len(s) - n + 1 .. Len(s) : s[i] \in S
    BY <1>1
  <2>2. LastOf(n, s) \in Seq(S) /\ Len(LastOf(n, s)) = n
    BY <1>1, <2>1, SubSeqProperties DEF LastOf
  <2> QED  BY <1>1, <2>2 DEF Bounded
<1>2. CASE ~(Len(s) > n)
  BY <1>2 DEF Bounded
<1> QED  BY <1>1, <1>2

\* Handing over the first of what is queued keeps what is sent and queued.
LEMMA MoveOne ==
  ASSUME NEW S, NEW s \in Seq(S), NEW q \in Seq(S), q # <<>>
  PROVE  Append(s, Head(q)) \o Tail(q) = s \o q
<1> DEFINE one == <<Head(q)>>
           t == Tail(q)
<1>1. /\ t \in Seq(S) /\ Head(q) \in S /\ Head(q) = q[1]
      /\ Len(t) = Len(q) - 1 /\ Len(q) \in Nat /\ \A i \in 1..Len(t) : t[i] = q[i + 1]
  BY HeadTailProperties, EmptySeq, LenProperties
<1>2. one \in Seq(S) /\ Len(one) = 1 /\ one[1] = q[1] /\ Append(s, Head(q)) = s \o one
  BY <1>1, AppendIsConcat
<1> HIDE DEF one, t
<1>3. /\ one \o t \in Seq(S) /\ Len(one \o t) = 1 + Len(t)
      /\ \A i \in 1..1 + Len(t) : (one \o t)[i] = IF i <= 1 THEN one[i] ELSE t[i - 1]
  BY <1>1, <1>2, ConcatProperties
<1>4. Len(one \o t) = Len(q) /\ Len(t) \in Nat
  BY <1>1, <1>3, LenProperties
<1>5. \A i \in 1..Len(q) : (one \o t)[i] = q[i]
  <2> SUFFICES ASSUME NEW i \in 1..Len(q) PROVE (one \o t)[i] = q[i]
    OBVIOUS
  <2>1. CASE i = 1
    BY <1>1, <1>2, <1>3, <1>4, <2>1
  <2>2. CASE i > 1
    <3>1. i - 1 \in 1..Len(t) /\ (i - 1) + 1 = i /\ i \in 1..1 + Len(t)
      BY <1>1, <1>4, <2>2
    <3> QED  BY <1>1, <1>3, <2>2, <3>1
  <2>3. i = 1 \/ i > 1
    BY <1>1
  <2> QED  BY <2>1, <2>2, <2>3
<1>6. one \o t = q
  BY <1>3, <1>4, <1>5, SeqEqual
<1>7. (s \o one) \o t = s \o (one \o t)
  <2>1. one \in Seq(S)
    BY <1>2
  <2>2. t \in Seq(S)
    BY <1>1
  <2> QED  BY <2>1, <2>2, ConcatAssociative, SMTT(30)
<1>8. Append(s, Head(q)) \o t = s \o q
  BY <1>2, <1>6, <1>7
<1> QED  BY <1>8 DEF t

LEMMA ConcatHolds ==
  ASSUME NEW S, NEW s \in Seq(S), NEW t \in Seq(S)
  PROVE  ToSet(s) \subseteq ToSet(s \o t) /\ ToSet(t) \subseteq ToSet(s \o t)
<1>1. /\ Len(s \o t) = Len(s) + Len(t) /\ s \o t \in Seq(S)
      /\ \A i \in 1..Len(s) + Len(t) : (s \o t)[i] = IF i <= Len(s) THEN s[i] ELSE t[i - Len(s)]
  BY ConcatProperties
<1>2. \A i \in 1..Len(s) : i \in 1..Len(s \o t) /\ (s \o t)[i] = s[i]
  BY <1>1
<1>3. \A i \in 1..Len(t) : Len(s) + i \in 1..Len(s \o t) /\ (s \o t)[Len(s) + i] = t[i]
  BY <1>1
<1>4. /\ ToSet(s) = {s[i] : i \in 1..Len(s)} /\ ToSet(t) = {t[i] : i \in 1..Len(t)}
      /\ ToSet(s \o t) = {(s \o t)[i] : i \in 1..Len(s \o t)}
  BY <1>1 DEF ToSet
<1> QED  BY <1>2, <1>3, <1>4, Zenon

\* An operation whose buffers are within their bounds.
Sound(x) ==
  /\ x \in Operation
  /\ Len(x.events) <= Cap /\ Len(x.events) <= x.total /\ Len(x.tail) <= TailCap

LEMMA AppendedSound ==
  ASSUME NEW x, Sound(x), NEW es \in Seq(Event)
  PROVE  /\ Sound(Appended(x, es))
         /\ Appended(x, es).events = Bounded(Cap, x.events \o es)
         /\ Appended(x, es).total = x.total + Len(es)
         /\ Appended(x, es).tail = x.tail
         /\ Appended(x, es).status = x.status /\ Appended(x, es).reader = x.reader
         /\ Appended(x, es).final = x.final /\ Appended(x, es).drainer = x.drainer
         /\ Appended(x, es).watchdog = x.watchdog
<1>1. /\ x.events \in Seq(Event) /\ x.total \in Nat
      /\ x = [x EXCEPT !.events = x.events]
  BY DEF Sound, Operation
<1>2. x.events \o es \in Seq(Event) /\ Len(x.events \o es) = Len(x.events) + Len(es)
  BY <1>1, ConcatProperties
<1>3. /\ Bounded(Cap, x.events \o es) \in Seq(Event)
      /\ Len(Bounded(Cap, x.events \o es)) <= Cap
      /\ Len(Bounded(Cap, x.events \o es)) <= Len(x.events) + Len(es)
  BY <1>2, BoundedType, DeployAssumption
<1>4. Len(es) \in Nat /\ Len(x.events) \in Nat /\ x.total + Len(es) \in Nat
  BY <1>1
<1>5. Appended(x, es) = [x EXCEPT !.events = Bounded(Cap, x.events \o es), !.total = x.total + Len(es)]
  BY DEF Appended
<1>6. /\ Appended(x, es) \in Operation
      /\ Appended(x, es).events = Bounded(Cap, x.events \o es)
      /\ Appended(x, es).total = x.total + Len(es)
      /\ Appended(x, es).tail = x.tail
      /\ Appended(x, es).status = x.status /\ Appended(x, es).reader = x.reader
      /\ Appended(x, es).final = x.final /\ Appended(x, es).drainer = x.drainer
      /\ Appended(x, es).watchdog = x.watchdog
  BY <1>3, <1>4, <1>5 DEF Sound, Operation
<1>7. Len(Appended(x, es).events) <= Cap /\ Len(Appended(x, es).events) <= Appended(x, es).total
  BY <1>1, <1>3, <1>4, <1>6 DEF Sound
<1> QED  BY <1>6, <1>7 DEF Sound

-----------------------------------------------------------------------------
(* One operation and its process *)

\* What the invariant says of an operation x with a process in a given state.
Good(x, state) ==
  /\ Sound(x)
  /\ x.reader = "done" <=> x.status # "running"
  /\ x.reader = "done" => x.drainer = "done" /\ x.watchdog = "done"
  /\ x.reader # "reading" => x.final # "none"
  /\ x.status = "running" =>
       \/ x.reader = "draining"
       \/ state \in {"killed", "exited"}
       \/ x.watchdog \in {"asleep", "grace"}
  /\ x.status = "failed" /\ x.total <= Cap => ToSet(x.tail) \subseteq ToSet(x.events)

LEMMA InvIsGood ==
  ASSUME TypeOK, StreamsHaveOperation
  PROVE  DeployInv <=> \A o \in DOMAIN ops : Good(ops[o], procs[o].state)
<1>1. \A o \in DOMAIN ops : Sound(ops[o])
  BY DEF TypeOK, Sound
<1> QED
  BY <1>1 DEF DeployInv, EndsInOrder, RunningIsBounded, StderrComesBeforeStatus, Good

\* A step of an operation and its process, which leaves them good, keeps the invariant.
LEMMA UpdateKeeps ==
  ASSUME DeployInv, NEW o \in DOMAIN ops, NEW x, NEW y \in Process, Good(x, y.state),
         ops' = [ops EXCEPT ![o] = x], procs' = [procs EXCEPT ![o] = y],
         UNCHANGED <<poster, current, viewer>>
  PROVE  DeployInv'
<1>1. TypeOK /\ StreamsHaveOperation /\ \A i \in DOMAIN ops : Good(ops[i], procs[i].state)
  BY InvIsGood DEF DeployInv
<1>2. x \in Operation /\ DOMAIN ops = DOMAIN procs
  BY <1>1 DEF Good, Sound, TypeOK
<1>3. /\ ops' \in Seq(Operation) /\ Len(ops') = Len(ops)
      /\ procs' \in Seq(Process) /\ Len(procs') = Len(procs)
  BY <1>1, <1>2 DEF TypeOK
<1>4. \A i \in DOMAIN ops' : Good(ops'[i], procs'[i].state)
  BY <1>1, <1>2 DEF TypeOK
<1>5. \A i \in DOMAIN ops' : Sound(ops'[i])
  BY <1>4 DEF Good
<1>6. TypeOK' /\ StreamsHaveOperation'
  BY <1>1, <1>3, <1>5 DEF TypeOK, Sound, StreamsHaveOperation
<1> QED  BY <1>4, <1>6 DEF DeployInv, EndsInOrder, RunningIsBounded, StderrComesBeforeStatus, Good

\* The reader closes the operation: the stderr tail is added, unless the buffer is too
\* small for it, and nothing is left that could add to it.
LEMMA ClosesGood ==
  ASSUME NEW x, Sound(x), x.final # "none", NEW state
  PROVE  Good(ReaderCloses(x), state)
<1> DEFINE y == [x EXCEPT !.reader = "done", !.status = x.final,
                          !.drainer = "done", !.watchdog = "done"]
           es == IF x.final = "failed" THEN x.tail ELSE <<>>
           z == Appended(y, es)
<1>1. /\ y \in Operation /\ y.events = x.events /\ y.total = x.total /\ y.tail = x.tail
      /\ y.status = x.final /\ y.reader = "done" /\ y.drainer = "done" /\ y.watchdog = "done"
      /\ y.final = x.final
  BY DEF Sound, Operation
<1>2. Sound(y)
  BY <1>1 DEF Sound
<1>3. es \in Seq(Event) /\ x.tail \in Seq(Event) /\ x.events \in Seq(Event) /\ x.total \in Nat
      /\ x.final \in {"succeeded", "failed"}
  BY DEF Sound, Operation
<1> HIDE DEF y, es
<1>4. /\ Sound(z) /\ z.events = Bounded(Cap, y.events \o es) /\ z.total = y.total + Len(es)
      /\ z.tail = y.tail /\ z.status = y.status /\ z.reader = y.reader /\ z.final = y.final
      /\ z.drainer = y.drainer /\ z.watchdog = y.watchdog
  BY <1>2, <1>3, AppendedSound
<1> HIDE DEF z
<1>5. ASSUME z.status = "failed", z.total <= Cap
      PROVE  ToSet(z.tail) \subseteq ToSet(z.events)
  <2>1. es = x.tail
    BY <1>1, <1>4, <1>5 DEF es
  <2>2. Len(x.events \o x.tail) = Len(x.events) + Len(x.tail) /\ x.events \o x.tail \in Seq(Event)
    BY <1>3, ConcatProperties
  <2>a. z.total = x.total + Len(x.tail) /\ Len(x.events) <= x.total
    BY <1>1, <1>4, <2>1 DEF Sound
  <2>b. Len(x.events) \in Nat /\ Len(x.tail) \in Nat /\ Cap \in Nat
    BY <1>3, DeployAssumption
  <2>3. Len(x.events \o x.tail) <= Cap
    <3>1. x.total + Len(x.tail) <= Cap
      BY <1>5, <2>a
    <3>2. \A a, b, c, d \in Nat : a <= b /\ b + c <= d => a + c <= d
      OBVIOUS
    <3>3. Len(x.events) + Len(x.tail) <= Cap
      BY <1>3, <2>a, <2>b, <3>1, <3>2, Zenon
    <3> QED  BY <2>2, <3>3, Zenon
  <2>4. z.events = x.events \o x.tail
    BY <1>1, <1>4, <2>1, <2>2, <2>3, BoundedType, DeployAssumption
  <2> QED  BY <1>1, <1>3, <1>4, <2>4, ConcatHolds
<1>6. Good(z, state)
  BY <1>1, <1>3, <1>4, <1>5 DEF Good
<1> QED  BY <1>6 DEF ReaderCloses, y, es, z

LEMMA LeavesGood ==
  ASSUME NEW x, Sound(x), x.status = "running", x.final # "none", NEW state
  PROVE  Good(ReaderLeaves(x), state)
<1>1. CASE x.drainer = "done"
  BY <1>1, ClosesGood DEF ReaderLeaves
<1>2. CASE x.drainer # "done"
  <2> DEFINE y == [x EXCEPT !.reader = "draining"]
  <2>1. /\ y \in Operation /\ y.events = x.events /\ y.total = x.total /\ y.tail = x.tail
        /\ y.status = "running" /\ y.reader = "draining" /\ y.final = x.final
    BY DEF Sound, Operation
  <2> QED  BY <1>2, <2>1 DEF ReaderLeaves, Good, Sound
<1> QED  BY <1>1, <1>2

-----------------------------------------------------------------------------
(* The steps *)

LEMMA InitDeploy == Init => DeployInv
<1> SUFFICES ASSUME Init PROVE DeployInv
  OBVIOUS
<1>1. TypeOK
  BY DeployAssumption DEF Init, TypeOK, Viewer, NoStream
<1> QED
  BY <1>1 DEF Init, DeployInv, EndsInOrder, StreamsHaveOperation, RunningIsBounded,
              StderrComesBeforeStatus, NoStream

\* Requests: the check alone promises nothing about the state in which the operation
\* is recorded, after the suspension; nothing here depends on it.
LEMMA PostKeeps ==
  ASSUME DeployInv, NEW p \in Posters, Post(p)
  PROVE  DeployInv'
<1>1. CASE PostCheck(p)
  BY <1>1 DEF PostCheck, DeployInv, TypeOK, EndsInOrder, StreamsHaveOperation,
              RunningIsBounded, StderrComesBeforeStatus
<1>2. CASE PostStart(p)
  <2>1. NewOperation \in Operation /\ Sound(NewOperation)
    BY DeployAssumption DEF NewOperation, Operation, Sound
  <2>2. NewProcess \in Process
    BY DeployAssumption DEF NewProcess, Process
  <2>3. Good(NewOperation, NewProcess.state)
    BY <2>1 DEF Good, NewOperation
  <2>4. /\ \A o \in DOMAIN ops : Good(ops[o], procs[o].state)
        /\ TypeOK /\ StreamsHaveOperation
    BY InvIsGood DEF DeployInv
  <2>5. /\ ops' \in Seq(Operation) /\ Len(ops') = Len(ops) + 1 /\ Len(ops') <= MaxOps
        /\ procs' \in Seq(Process) /\ Len(procs') = Len(ops) + 1
        /\ \A o \in 1..Len(ops) : ops'[o] = ops[o] /\ procs'[o] = procs[o]
        /\ ops'[Len(ops) + 1] = NewOperation /\ procs'[Len(ops) + 1] = NewProcess
    BY <1>2, <2>1, <2>2, <2>4, DeployAssumption, AppendProperties DEF PostStart, TypeOK
  <2>6. \A o \in DOMAIN ops' : Good(ops'[o], procs'[o].state)
    BY <2>3, <2>4, <2>5 DEF TypeOK
  <2>7. \A o \in DOMAIN ops' : Sound(ops'[o])
    BY <2>6 DEF Good
  <2>8. TypeOK' /\ StreamsHaveOperation'
    BY <1>2, <2>4, <2>5, <2>7, DeployAssumption
       DEF PostStart, TypeOK, Sound, StreamsHaveOperation, Viewer
  <2> QED
    BY <2>6, <2>8 DEF DeployInv, EndsInOrder, RunningIsBounded, StderrComesBeforeStatus, Good
<1>3. CASE PostFails(p)
  BY <1>3 DEF PostFails, DeployInv, TypeOK, EndsInOrder, StreamsHaveOperation,
              RunningIsBounded, StderrComesBeforeStatus
<1> QED  BY <1>1, <1>2, <1>3 DEF Post

\* The subprocess: what it does by itself.
LEMMA SubprocessKeeps ==
  ASSUME DeployInv, NEW o \in DOMAIN ops, Subprocess(o)
  PROVE  DeployInv'
<1>1. /\ Good(ops[o], procs[o].state) /\ procs[o] \in Process
      /\ TypeOK /\ StreamsHaveOperation
      /\ ops' = [ops EXCEPT ![o] = ops[o]] /\ UNCHANGED <<poster, current, viewer>>
  BY InvIsGood DEF DeployInv, TypeOK, Subprocess, Writes, Exits
<1>0. procs[o] \in Process
  BY <1>1
<1>2. CASE Writes(o)
  <2> DEFINE n == procs[o].written + 1
  <2>1. n \in 1..MaxLines /\ n \in 0..MaxLines
    BY <1>1, <1>2, DeployAssumption DEF Writes, Process
  <2>2. ASSUME NEW kind \in {"event", "bad"},
               procs' = [procs EXCEPT ![o].written = n,
                                      ![o].out = Append(@, [kind |-> kind, n |-> n])]
        PROVE  DeployInv'
    <3> DEFINE lines == Append(procs[o].out, [kind |-> kind, n |-> n])
               y == [procs[o] EXCEPT !.written = n, !.out = lines]
    <3>0. lines \in Seq([kind : {"event", "bad"}, n : 1..MaxLines])
      BY <1>1, <2>1 DEF Process
    <3>2. procs' = [procs EXCEPT ![o] = y]
      BY <2>2
    <3> HIDE DEF lines, n
    <3>1. y \in Process /\ y.state = procs[o].state
      BY <1>0, <2>1, <3>0 DEF Process
    <3> QED  BY <1>1, <3>1, <3>2, UpdateKeeps
  <2>3. ASSUME procs' = [procs EXCEPT ![o].written = n, ![o].err = Append(@, n)]
        PROVE  DeployInv'
    <3> DEFINE lines == Append(procs[o].err, n)
               y == [procs[o] EXCEPT !.written = n, !.err = lines]
    <3>0. lines \in Seq(1..MaxLines)
      BY <1>1, <2>1 DEF Process
    <3>2. procs' = [procs EXCEPT ![o] = y]
      BY <2>3
    <3> HIDE DEF lines, n
    <3>1. y \in Process /\ y.state = procs[o].state
      BY <1>0, <2>1, <3>0 DEF Process
    <3> QED  BY <1>1, <3>1, <3>2, UpdateKeeps
  <2> QED  BY <1>2, <2>2, <2>3 DEF Writes
<1>3. CASE Exits(o)
  <2>1. PICK code \in {"zero", "nonzero"} :
          procs' = [procs EXCEPT ![o].state = "exited", ![o].code = code]
    BY <1>3 DEF Exits
  <2> DEFINE y == [procs[o] EXCEPT !.state = "exited", !.code = code]
  <2>2. y \in Process /\ y.state = "exited"
    BY <1>1 DEF Process
  <2>3. Good(ops[o], y.state)
    BY <1>1, <2>2 DEF Good
  <2>4. procs' = [procs EXCEPT ![o] = y]
    BY <2>1
  <2> QED  BY <1>1, <2>2, <2>3, <2>4, UpdateKeeps
<1> QED  BY <1>2, <1>3 DEF Subprocess

\* What the invariant gives to a task of operation o.
LEMMA TaskFacts ==
  ASSUME DeployInv, NEW o \in DOMAIN ops
  PROVE  /\ Good(ops[o], procs[o].state) /\ Sound(ops[o])
         /\ ops[o] \in Operation /\ procs[o] \in Process
         /\ procs = [procs EXCEPT ![o] = procs[o]]
         /\ ops \in Seq(Operation) /\ procs \in Seq(Process) /\ o \in DOMAIN procs
<1>1. Good(ops[o], procs[o].state) /\ TypeOK
  BY InvIsGood DEF DeployInv
<1> QED  BY <1>1 DEF Good, TypeOK

\* The reader: a line that is an event, one that raises, the end of the output, and
\* the end of its wait for the drainer.
LEMMA ReaderKeeps ==
  ASSUME DeployInv, NEW o \in DOMAIN ops, Reader(o)
  PROVE  DeployInv'
<1> DEFINE x == ops[o]
           y == procs[o]
<1>0. /\ Good(x, y.state) /\ Sound(x) /\ x \in Operation /\ y \in Process
      /\ procs = [procs EXCEPT ![o] = y] /\ ops \in Seq(Operation) /\ procs \in Seq(Process)
  BY TaskFacts
<1>1. CASE ReadLine(o)
  <2> DEFINE line == Head(y.out)
             rest == [y EXCEPT !.out = Tail(y.out)]
  <2>1. /\ line \in [kind : {"event", "bad"}, n : 1..MaxLines]
        /\ Tail(y.out) \in Seq([kind : {"event", "bad"}, n : 1..MaxLines])
    BY <1>0, <1>1, HeadTailProperties DEF ReadLine, Process
  <2>2. rest \in Process /\ rest.state = y.state
    BY <1>0, <2>1 DEF Process
  <2>3. procs' = [procs EXCEPT ![o] = rest] /\ UNCHANGED <<poster, current, viewer>>
    BY <1>1 DEF ReadLine
  <2>4. CASE line.kind = "event"
    <3> DEFINE es == << <<"out", line.n>> >>
    <3>1. es \in Seq(Event)
      BY <2>1 DEF Event
    <3>2. ops' = [ops EXCEPT ![o] = Appended(x, es)]
      BY <1>1, <2>4 DEF ReadLine
    <3> HIDE DEF es, x
    <3>3. Good(Appended(x, es), rest.state)
      BY <1>0, <1>1, <2>2, <3>1, AppendedSound DEF Good, ReadLine, x
    <3> QED  BY <2>2, <2>3, <3>2, <3>3, UpdateKeeps DEF x
  <2>5. CASE line.kind # "event"
    <3> DEFINE z == [x EXCEPT !.final = "failed"]
    <3>1. Sound(z) /\ z.final = "failed" /\ z.status = x.status
      BY <1>0 DEF Sound, Operation
    <3>2. ops' = [ops EXCEPT ![o] = ReaderLeaves(z)]
      BY <1>1, <2>5 DEF ReadLine
    <3>3. x.status = "running"
      BY <1>0, <1>1 DEF Good, ReadLine
    <3> HIDE DEF z
    <3>4. Good(ReaderLeaves(z), rest.state)
      BY <3>1, <3>3, LeavesGood
    <3> QED  BY <2>2, <2>3, <3>2, <3>4, UpdateKeeps
  <2> QED  BY <2>4, <2>5
<1>2. CASE ReadEnd(o)
  <2> DEFINE outcome == IF y.code = "zero" THEN "succeeded" ELSE "failed"
             z == [x EXCEPT !.exit = y.code, !.final = outcome]
  <2>1. Sound(z) /\ z.final # "none" /\ z.status = x.status
    BY <1>0 DEF Sound, Operation, Process
  <2>2. /\ ops' = [ops EXCEPT ![o] = ReaderLeaves(z)]
        /\ procs' = [procs EXCEPT ![o] = y] /\ UNCHANGED <<poster, current, viewer>>
    BY <1>0, <1>2 DEF ReadEnd
  <2>3. x.status = "running"
    BY <1>0, <1>2 DEF Good, ReadEnd
  <2> HIDE DEF z
  <2>4. Good(ReaderLeaves(z), y.state)
    BY <2>1, <2>3, LeavesGood
  <2> QED  BY <1>0, <2>2, <2>4, UpdateKeeps
<1>3. CASE ReaderEnds(o)
  <2>1. /\ ops' = [ops EXCEPT ![o] = ReaderCloses(x)]
        /\ procs' = [procs EXCEPT ![o] = y] /\ UNCHANGED <<poster, current, viewer>>
    BY <1>0, <1>3 DEF ReaderEnds
  <2>2. x.final # "none"
    BY <1>0, <1>3 DEF Good, ReaderEnds
  <2>3. Good(ReaderCloses(x), y.state)
    BY <1>0, <2>2, ClosesGood
  <2> QED  BY <1>0, <2>1, <2>3, UpdateKeeps
<1> QED  BY <1>1, <1>2, <1>3 DEF Reader

\* The stderr drainer adds to the tail of a running operation only.
LEMMA DrainKeeps ==
  ASSUME DeployInv, NEW o \in DOMAIN ops, Drain(o)
  PROVE  DeployInv'
<1> DEFINE x == ops[o]
           y == procs[o]
<1>0. /\ Good(x, y.state) /\ Sound(x) /\ x \in Operation /\ y \in Process
      /\ procs = [procs EXCEPT ![o] = y] /\ ops \in Seq(Operation) /\ procs \in Seq(Process)
  BY TaskFacts
<1>1. x.drainer = "reading" /\ x.reader # "done" /\ x.status = "running"
  BY <1>0 DEF Drain, Good
<1>2. UNCHANGED <<poster, current, viewer>>
  BY DEF Drain
<1>3. ASSUME y.err # <<>>,
             ops' = [ops EXCEPT ![o].tail = Bounded(TailCap, Append(@, <<"err", Head(y.err)>>))],
             procs' = [procs EXCEPT ![o].err = Tail(@)]
      PROVE  DeployInv'
  <2> DEFINE tail == Bounded(TailCap, Append(x.tail, <<"err", Head(y.err)>>))
             z == [x EXCEPT !.tail = tail]
             rest == [y EXCEPT !.err = Tail(y.err)]
  <2>1. Head(y.err) \in 1..MaxLines /\ Tail(y.err) \in Seq(1..MaxLines)
    BY <1>0, <1>3, HeadTailProperties DEF Process
  <2>a. <<"err", Head(y.err)>> \in Event /\ x.tail \in Seq(Event)
    BY <1>0, <2>1 DEF Operation, Event
  <2>2. Append(x.tail, <<"err", Head(y.err)>>) \in Seq(Event)
    BY <2>a
  <2>3. tail \in Seq(Event) /\ Len(tail) <= TailCap
    BY <2>2, BoundedType, DeployAssumption
  <2>4. rest \in Process /\ rest.state = y.state
    BY <1>0, <2>1 DEF Process
  <2>5. ops' = [ops EXCEPT ![o] = z] /\ procs' = [procs EXCEPT ![o] = rest]
    BY <1>3
  <2> HIDE DEF tail, x
  <2>6. /\ z \in Operation /\ z.events = x.events /\ z.total = x.total /\ z.tail = tail
        /\ z.status = x.status /\ z.reader = x.reader /\ z.final = x.final
        /\ z.watchdog = x.watchdog
    BY <1>0, <2>3 DEF Operation
  <2> HIDE DEF z, rest
  <2>7. Good(z, rest.state)
    BY <1>0, <1>1, <2>3, <2>4, <2>6 DEF Good, Sound
  <2> QED  BY <1>2, <2>4, <2>5, <2>7, UpdateKeeps
<1>4. ASSUME ops' = [ops EXCEPT ![o].drainer = "done"], UNCHANGED procs
      PROVE  DeployInv'
  <2> DEFINE z == [x EXCEPT !.drainer = "done"]
  <2>1. ops' = [ops EXCEPT ![o] = z] /\ procs' = [procs EXCEPT ![o] = y]
    BY <1>0, <1>4
  <2>2. Good(z, y.state)
    BY <1>0, <1>1 DEF Good, Sound, Operation
  <2> QED  BY <1>0, <1>2, <2>1, <2>2, UpdateKeeps
<1> QED  BY <1>3, <1>4 DEF Drain

\* The watchdog leaves when the operation or its process has ended, or with a kill.
LEMMA WatchdogKeeps ==
  ASSUME DeployInv, NEW o \in DOMAIN ops, Watchdog(o)
  PROVE  DeployInv'
<1> DEFINE x == ops[o]
           y == procs[o]
           quiet == [x EXCEPT !.watchdog = "done"]
<1>0. /\ Good(x, y.state) /\ Sound(x) /\ x \in Operation /\ y \in Process
      /\ procs = [procs EXCEPT ![o] = y] /\ ops \in Seq(Operation) /\ procs \in Seq(Process)
  BY TaskFacts
<1>1. x.watchdog \in {"asleep", "grace"} /\ x.reader # "done" /\ x.status = "running"
  BY <1>0 DEF Watchdog, TimesOut, GraceEnds, Good
<1>2. UNCHANGED <<poster, current, viewer>>
  BY DEF Watchdog, TimesOut, GraceEnds
<1>3. /\ quiet \in Operation /\ Sound(quiet) /\ quiet.watchdog = "done"
      /\ quiet.events = x.events /\ quiet.total = x.total /\ quiet.tail = x.tail
      /\ quiet.status = x.status /\ quiet.reader = x.reader /\ quiet.final = x.final
      /\ quiet.drainer = x.drainer
  BY <1>0 DEF Sound, Operation
<1>4. CASE y.state = "exited" /\ ops' = [ops EXCEPT ![o] = quiet] /\ UNCHANGED procs
  <2>1. Good(quiet, y.state)
    BY <1>0, <1>1, <1>3, <1>4 DEF Good
  <2> QED  BY <1>0, <1>2, <1>4, <2>1, UpdateKeeps
<1>5. CASE TimesOut(o) /\ y.state # "exited"
  <2> DEFINE waits == [x EXCEPT !.watchdog = "grace"]
             es == << <<"timeout", 0>> >>
             z == Appended(waits, es)
             ends == [y EXCEPT !.state = "terminating"]
  <2>1. es \in Seq(Event)
    BY DEF Event
  <2>2. Sound(waits) /\ waits.status = x.status /\ waits.reader = x.reader
        /\ waits.final = x.final /\ waits.watchdog = "grace"
    BY <1>0 DEF Sound, Operation
  <2>3. ends \in Process
    BY <1>0 DEF Process
  <2>4. ops' = [ops EXCEPT ![o] = z] /\ procs' = [procs EXCEPT ![o] = ends]
    BY <1>1, <1>5 DEF TimesOut
  <2> HIDE DEF waits, es
  <2>5. Good(z, ends.state)
    BY <1>0, <1>1, <2>1, <2>2, AppendedSound DEF Good
  <2> QED  BY <1>2, <2>3, <2>4, <2>5, UpdateKeeps
<1>6. CASE GraceEnds(o) /\ y.state # "exited"
  <2> DEFINE es == << <<"kill", 0>> >>
             z == Appended(quiet, es)
             ends == [y EXCEPT !.state = "killed"]
  <2>1. es \in Seq(Event)
    BY DEF Event
  <2>3. ends \in Process /\ ends.state = "killed"
    BY <1>0 DEF Process
  <2>4. ops' = [ops EXCEPT ![o] = z] /\ procs' = [procs EXCEPT ![o] = ends]
    BY <1>6 DEF GraceEnds
  <2> HIDE DEF quiet, es
  <2>5. Good(z, ends.state)
    BY <1>0, <1>1, <1>3, <2>1, <2>3, AppendedSound DEF Good
  <2> QED  BY <1>2, <2>3, <2>4, <2>5, UpdateKeeps
<1> QED  BY <1>1, <1>4, <1>5, <1>6 DEF Watchdog, TimesOut, GraceEnds

\* Requests that follow a stream read operations and change none.
LEMMA SnapshotType ==
  ASSUME NEW x, Sound(x), NEW cursor \in Nat
  PROVE  Snapshot(x, cursor) \in Seq(Sent)
<1> DEFINE start == x.total - Len(x.events)
           skip == IF cursor > start THEN cursor - start ELSE 0
           news == SubSeq(x.events, skip + 1, Len(x.events))
<1>1. x.events \in Seq(Event) /\ Len(x.events) \in Nat /\ x.total \in Nat /\ start \in Nat
  BY DEF Sound, Operation
<1>2. skip \in Nat /\ skip + 1 \in Int /\ \A i \in skip + 1 .. Len(x.events) : x.events[i] \in Event
  BY <1>1
<1> HIDE DEF skip, start
<1>3. news \in Seq(Event)
  BY <1>1, <1>2, SubSeqProperties
<1> HIDE DEF news
<1>4. \A i \in DOMAIN news : [id |-> start + skip + i, event |-> news[i]] \in Sent
  BY <1>1, <1>2, <1>3 DEF Sent
<1>5. [i \in DOMAIN news |-> [id |-> start + skip + i, event |-> news[i]]] \in Seq(Sent)
  BY <1>3, <1>4
<1> QED  BY <1>5 DEF Snapshot, start, skip, news

Streams(v) == Connect(v) \/ Serve(v) \/ Disconnect(v)

LEMMA ViewerUpdate ==
  ASSUME DeployInv, NEW v \in Viewers, NEW w \in Viewer, w.op <= Len(ops),
         w.pc # "off" => w.op # 0, viewer' = [viewer EXCEPT ![v] = w],
         UNCHANGED <<poster, ops, procs, current>>
  PROVE  DeployInv'
<1>1. TypeOK' /\ StreamsHaveOperation'
  BY DEF DeployInv, TypeOK, StreamsHaveOperation
<1>2. EndsInOrder' /\ RunningIsBounded' /\ StderrComesBeforeStatus'
  BY DEF DeployInv, EndsInOrder, RunningIsBounded, StderrComesBeforeStatus
<1> QED  BY <1>1, <1>2 DEF DeployInv

LEMMA StreamKeeps ==
  ASSUME DeployInv, NEW v \in Viewers, Streams(v)
  PROVE  DeployInv'
<1> DEFINE w == viewer[v]
<1>0. /\ w \in Viewer /\ w.op <= Len(ops) /\ (w.pc # "off" => w.op # 0)
      /\ w.queue \in Seq(Sent) /\ w.seen \in Seq(Sent)
      /\ ops \in Seq(Operation) /\ current \in 0..Len(ops) /\ Len(ops) <= MaxOps
      /\ viewer = [viewer EXCEPT ![v] = w]
  BY DEF DeployInv, TypeOK, StreamsHaveOperation, Viewer
<1>1. UNCHANGED <<poster, ops, procs, current>>
  BY DEF Streams, Serve, Connect, Disconnect, Poll, Emit, EmitEnds, StreamEnds
<1>2. w.op # 0 => w.op \in DOMAIN ops /\ Sound(ops[w.op])
  BY <1>0, TaskFacts DEF Viewer
<1>3. CASE Connect(v)
  <2>1. CASE Resumable(v) /\ viewer' = [viewer EXCEPT ![v].pc = "poll", ![v].cursor = Last(w.seen).id]
    <3> DEFINE z == [w EXCEPT !.pc = "poll", !.cursor = Last(w.seen).id]
    <3>1. Last(w.seen) \in Sent
      BY <1>0, <2>1 DEF Resumable, Last
    <3>2. z \in Viewer /\ z.op = w.op /\ w.op # 0
      BY <1>0, <1>3, <2>1, <3>1 DEF Viewer, Sent, Connect, Resumable
    <3>3. viewer' = [viewer EXCEPT ![v] = z]
      BY <2>1
    <3> HIDE DEF z
    <3> QED  BY <1>0, <1>1, <3>2, <3>3, ViewerUpdate
  <2>2. CASE viewer' = [viewer EXCEPT ![v] = [NoStream EXCEPT !.pc = "poll", !.op = current]]
    <3> DEFINE z == [NoStream EXCEPT !.pc = "poll", !.op = current]
    <3>1. current \in 0..MaxOps /\ current <= Len(ops) /\ current # 0 /\ <<>> \in Seq(Sent)
      BY <1>0, <1>3, DeployAssumption DEF Connect
    <3>2. NoStream \in Viewer
      BY <3>1, DeployAssumption DEF Viewer, NoStream
    <3>3. z \in Viewer /\ z.op = current
      BY <3>1, <3>2 DEF Viewer
    <3>4. viewer' = [viewer EXCEPT ![v] = z]
      BY <2>2
    <3> HIDE DEF z
    <3> QED  BY <1>1, <3>1, <3>3, <3>4, ViewerUpdate
  <2> QED  BY <1>3, <2>1, <2>2 DEF Connect
<1>4. CASE Poll(v)
  <2> DEFINE news == Snapshot(ops[w.op], w.cursor)
             z == [w EXCEPT !.pc = "emit", !.queue = news, !.upto = ops[w.op].total]
  <2>1. news \in Seq(Sent) /\ ops[w.op].total \in Nat
    BY <1>0, <1>2, <1>4, SnapshotType DEF Poll, Viewer, Sound, Operation
  <2>2. viewer' = [viewer EXCEPT ![v] = z]
    BY <1>4 DEF Poll
  <2> HIDE DEF news
  <2>3. z \in Viewer /\ z.op = w.op /\ w.op # 0
    BY <1>0, <1>4, <2>1 DEF Viewer, Poll
  <2> QED  BY <1>0, <1>1, <2>2, <2>3, ViewerUpdate
<1>5. CASE Emit(v)
  <2> DEFINE rest == Tail(w.queue)
             more == Append(w.seen, Head(w.queue))
             z == [w EXCEPT !.queue = rest, !.seen = more]
  <2>1. rest \in Seq(Sent) /\ more \in Seq(Sent)
    BY <1>0, <1>5, HeadTailProperties, AppendProperties DEF Emit
  <2>2. viewer' = [viewer EXCEPT ![v] = z]
    BY <1>5 DEF Emit
  <2> HIDE DEF rest, more
  <2>3. z \in Viewer /\ z.op = w.op /\ z.pc = w.pc
    BY <1>0, <2>1 DEF Viewer
  <2> QED  BY <1>0, <1>1, <2>2, <2>3, ViewerUpdate
<1>6. CASE EmitEnds(v)
  <2> DEFINE x == ops[w.op]
             last == Append(Snapshot(x, w.upto), Terminal(x))
  <2>1. w.upto \in Nat /\ w.op # 0 /\ Sound(x) /\ viewer' = [viewer EXCEPT ![v] = Polled(v, x)]
    BY <1>0, <1>2, <1>6 DEF EmitEnds, Viewer
  <2>2. Terminal(x) \in Sent
    BY <2>1 DEF Terminal, Sent, Event, Sound, Operation
  <2>3. last \in Seq(Sent)
    BY <2>1, <2>2, SnapshotType
  <2> HIDE DEF x, last
  <2>4. Polled(v, x) = IF x.status = "running"
                       THEN [w EXCEPT !.pc = "poll", !.cursor = w.upto]
                       ELSE [w EXCEPT !.pc = "last", !.cursor = w.upto, !.queue = last]
    BY DEF Polled, last
  <2>5. Polled(v, x) \in Viewer /\ Polled(v, x).op = w.op
    BY <1>0, <2>1, <2>3, <2>4 DEF Viewer
  <2> QED  BY <1>0, <1>1, <2>1, <2>5, ViewerUpdate
<1>7. CASE StreamEnds(v)
  <2> DEFINE z == [w EXCEPT !.pc = "off"]
  <2>1. z \in Viewer /\ z.op = w.op /\ viewer' = [viewer EXCEPT ![v] = z] /\ z.pc = "off"
    BY <1>0, <1>7 DEF Viewer, StreamEnds
  <2> QED  BY <1>0, <1>1, <2>1, ViewerUpdate
<1>8. CASE Disconnect(v)
  <2> DEFINE z == [w EXCEPT !.pc = "off", !.queue = <<>>]
  <2>1. viewer' = [viewer EXCEPT ![v] = z]
    BY <1>8 DEF Disconnect
  <2>2. <<>> \in Seq(Sent)
    OBVIOUS
  <2>3. z \in Viewer /\ z.op = w.op /\ z.pc = "off"
    BY <1>0, <2>2 DEF Viewer
  <2> QED  BY <1>0, <1>1, <2>1, <2>3, ViewerUpdate
<1> QED  BY <1>3, <1>4, <1>5, <1>6, <1>7, <1>8 DEF Streams, Serve

-----------------------------------------------------------------------------
(* Theorems *)

\* The types, the bounds of the buffers, and how operations end, for any number of
\* deployments that run, hang, are timed out and are followed at a time.
THEOREM DeployInvariant == Spec => []DeployInv
<1>1. Init => DeployInv
  BY InitDeploy
<1>2. DeployInv /\ [Next]_vars => DeployInv'
  <2> SUFFICES ASSUME DeployInv, [Next]_vars PROVE DeployInv'
    OBVIOUS
  <2>1. ASSUME NEW p \in Posters, Post(p) PROVE DeployInv'
    BY <2>1, PostKeeps
  <2>2. ASSUME NEW o \in DOMAIN ops, Subprocess(o) \/ Reader(o) \/ Drain(o) \/ Watchdog(o)
        PROVE  DeployInv'
    BY <2>2, SubprocessKeeps, ReaderKeeps, DrainKeeps, WatchdogKeeps
  <2>3. ASSUME NEW v \in Viewers, Connect(v) \/ Serve(v) \/ Disconnect(v) PROVE DeployInv'
    BY <2>3, StreamKeeps DEF Streams
  <2>4. CASE UNCHANGED vars
    BY <2>4 DEF vars, DeployInv, TypeOK, EndsInOrder, StreamsHaveOperation,
                RunningIsBounded, StderrComesBeforeStatus
  <2> QED  BY <2>1, <2>2, <2>3, <2>4 DEF Next
<1> QED  BY <1>1, <1>2, PTL DEF Spec

\* A hung or displaced deployment still has something that ends it
\* (_timeout_watchdog, and the bounded wait in _read_subprocess).
THEOREM DeploymentsEnd == Spec => []RunningIsBounded
BY DeployInvariant, PTL DEF DeployInv

\* A deployment that shows as failed shows the tail of its stderr.
THEOREM StderrFirst == Spec => []StderrComesBeforeStatus
BY DeployInvariant, PTL DEF DeployInv

\* Nothing is appended to an operation that has ended: the terminal event that a
\* stream sends is the last one of its clients.
THEOREM TerminalIsLast == Spec => NothingAfterTheEnd
<1> DEFINE A == \A o \in DOMAIN ops : ops[o].status # "running" =>
                  ops'[o].total = ops[o].total /\ ops'[o].status = ops[o].status
<1>1. DeployInv /\ [Next]_vars => [A]_vars
  <2> SUFFICES ASSUME DeployInv, Next, NEW o \in DOMAIN ops, ops[o].status # "running"
               PROVE  ops'[o].total = ops[o].total /\ ops'[o].status = ops[o].status
    OBVIOUS
  <2>1. ops[o].reader = "done" /\ ops[o].drainer = "done" /\ ops[o].watchdog = "done"
    BY TaskFacts DEF Good
  <2>2. ops \in Seq(Operation)
    BY DEF DeployInv, TypeOK
  <2>3. ASSUME NEW p \in Posters, Post(p) PROVE ops'[o] = ops[o]
    BY <2>2, <2>3 DEF Post, PostCheck, PostStart, PostFails
  <2>4. ASSUME NEW i \in DOMAIN ops, Subprocess(i) PROVE ops'[o] = ops[o]
    BY <2>4 DEF Subprocess, Writes, Exits
  <2>5. ASSUME NEW i \in DOMAIN ops, Reader(i) \/ Drain(i) \/ Watchdog(i) PROVE ops'[o] = ops[o]
    <3>1. i # o
      BY <2>1, <2>5 DEF Reader, ReadLine, ReadEnd, ReaderEnds, Drain, Watchdog, TimesOut, GraceEnds
    <3> QED
      BY <2>2, <2>5, <3>1
         DEF Reader, ReadLine, ReadEnd, ReaderEnds, Drain, Watchdog, TimesOut, GraceEnds
  <2>6. ASSUME NEW v \in Viewers, Connect(v) \/ Serve(v) \/ Disconnect(v) PROVE ops'[o] = ops[o]
    BY <2>6 DEF Serve, Connect, Disconnect, Poll, Emit, EmitEnds, StreamEnds
  <2> QED  BY <2>3, <2>4, <2>5, <2>6 DEF Next
<1>2. Spec => [][A]_vars
  BY <1>1, DeployInvariant, PTL DEF Spec
<1> QED  BY <1>2 DEF NothingAfterTheEnd
-----------------------------------------------------------------------------
(* What the clients of a stream receive *)

\* What one step does to the events of an operation: they stay, or some are appended.
Grows(x, y) ==
  \/ y.events = x.events /\ y.total = x.total
  \/ \E es \in Seq(Event) : y.events = Bounded(Cap, x.events \o es) /\ y.total = x.total + Len(es)

LEMMA ClosesGrows ==
  ASSUME NEW x, Sound(x)
  PROVE  Grows(x, ReaderCloses(x))
<1> DEFINE y == [x EXCEPT !.reader = "done", !.status = x.final,
                          !.drainer = "done", !.watchdog = "done"]
           es == IF x.final = "failed" THEN x.tail ELSE <<>>
<1>1. y.events = x.events /\ y.total = x.total
  BY DEF Sound, Operation
<1>2. es \in Seq(Event)
  BY DEF Sound, Operation
<1>3. ReaderCloses(x) = [y EXCEPT !.events = Bounded(Cap, y.events \o es), !.total = y.total + Len(es)]
  BY DEF ReaderCloses, Appended
<1>4. {"events", "total"} \subseteq DOMAIN y
  BY DEF Sound, Operation
<1> HIDE DEF y, es
<1>5. ReaderCloses(x).events = Bounded(Cap, y.events \o es) /\ ReaderCloses(x).total = y.total + Len(es)
  BY <1>3, <1>4
<1> QED  BY <1>1, <1>2, <1>5 DEF Grows

LEMMA LeavesGrows ==
  ASSUME NEW x, Sound(x), x.final # "none"
  PROVE  Grows(x, ReaderLeaves(x))
<1>1. CASE x.drainer = "done"
  BY <1>1, ClosesGrows DEF ReaderLeaves
<1>2. CASE x.drainer # "done"
  BY <1>2 DEF ReaderLeaves, Grows, Sound, Operation
<1> QED  BY <1>1, <1>2

LEMMA AppendedGrows ==
  ASSUME NEW x, Sound(x), NEW y, Sound(y), y.events = x.events, y.total = x.total,
         NEW es \in Seq(Event)
  PROVE  Grows(x, Appended(y, es))
BY AppendedSound DEF Grows

\* The tasks of an operation only append to its events, and keep the others as they are.
LEMMA TasksGrow ==
  ASSUME DeployInv, NEW o \in DOMAIN ops, Subprocess(o) \/ Reader(o) \/ Drain(o) \/ Watchdog(o)
  PROVE  /\ DOMAIN ops' = DOMAIN ops /\ UNCHANGED viewer
         /\ \A i \in DOMAIN ops : Grows(ops[i], ops'[i])
<1> DEFINE x == ops[o]
           y == procs[o]
<1>0. /\ Sound(x) /\ x \in Operation /\ y \in Process /\ ops \in Seq(Operation)
  BY TaskFacts
<1>1. UNCHANGED viewer
  BY DEF Subprocess, Writes, Exits, Reader, ReadLine, ReadEnd, ReaderEnds, Drain, Watchdog,
         TimesOut, GraceEnds
<1>2. ASSUME NEW z, ops' = [ops EXCEPT ![o] = z], Grows(x, z)
      PROVE  /\ DOMAIN ops' = DOMAIN ops /\ UNCHANGED viewer
             /\ \A i \in DOMAIN ops : Grows(ops[i], ops'[i])
  <2>1. DOMAIN ops' = DOMAIN ops /\ \A i \in DOMAIN ops : ops'[i] = IF i = o THEN z ELSE ops[i]
    BY <1>2
  <2>2. \A i \in DOMAIN ops : Grows(ops[i], ops'[i])
    BY <1>2, <2>1 DEF Grows
  <2> QED  BY <1>1, <2>1, <2>2
<1>3. CASE ops' = ops
  BY <1>1, <1>3 DEF Grows
<1>4. CASE ReadLine(o)
  <2> DEFINE line == Head(y.out)
  <2>1. line \in [kind : {"event", "bad"}, n : 1..MaxLines]
    BY <1>0, <1>4, HeadTailProperties DEF ReadLine, Process
  <2>2. CASE line.kind = "event"
    <3> DEFINE es == << <<"out", line.n>> >>
    <3>1. es \in Seq(Event)
      BY <2>1 DEF Event
    <3>2. ops' = [ops EXCEPT ![o] = Appended(x, es)]
      BY <1>4, <2>2 DEF ReadLine
    <3> HIDE DEF es, x
    <3> QED  BY <1>0, <1>2, <3>1, <3>2, AppendedGrows
  <2>3. CASE line.kind # "event"
    <3> DEFINE z == [x EXCEPT !.final = "failed"]
    <3>1. Sound(z) /\ z.final = "failed" /\ z.events = x.events /\ z.total = x.total
      BY <1>0 DEF Sound, Operation
    <3>2. ops' = [ops EXCEPT ![o] = ReaderLeaves(z)]
      BY <1>4, <2>3 DEF ReadLine
    <3> HIDE DEF z
    <3>3. Grows(x, ReaderLeaves(z))
      BY <3>1, LeavesGrows DEF Grows
    <3> QED  BY <1>2, <3>2, <3>3
  <2> QED  BY <2>2, <2>3
<1>5. CASE ReadEnd(o)
  <2> DEFINE outcome == IF y.code = "zero" THEN "succeeded" ELSE "failed"
             z == [x EXCEPT !.exit = y.code, !.final = outcome]
  <2>1. Sound(z) /\ z.final # "none" /\ z.events = x.events /\ z.total = x.total
    BY <1>0 DEF Sound, Operation, Process
  <2>2. ops' = [ops EXCEPT ![o] = ReaderLeaves(z)]
    BY <1>5 DEF ReadEnd
  <2> HIDE DEF z
  <2>3. Grows(x, ReaderLeaves(z))
    BY <2>1, LeavesGrows DEF Grows
  <2> QED  BY <1>2, <2>2, <2>3
<1>6. CASE ReaderEnds(o)
  BY <1>0, <1>2, <1>6, ClosesGrows DEF ReaderEnds
<1>7. CASE Drain(o)
  <2>1. ASSUME ops' = [ops EXCEPT ![o].tail =
                         Bounded(TailCap, Append(@, <<"err", Head(procs[o].err)>>))]
        PROVE  /\ DOMAIN ops' = DOMAIN ops /\ UNCHANGED viewer
               /\ \A i \in DOMAIN ops : Grows(ops[i], ops'[i])
    <3> DEFINE tail == Bounded(TailCap, Append(x.tail, <<"err", Head(y.err)>>))
               z == [x EXCEPT !.tail = tail]
    <3>1. ops' = [ops EXCEPT ![o] = z]
      BY <2>1
    <3> HIDE DEF tail
    <3>2. z.events = x.events /\ z.total = x.total
      BY <1>0 DEF Operation
    <3> QED  BY <1>2, <3>1, <3>2 DEF Grows
  <2>2. ASSUME ops' = [ops EXCEPT ![o].drainer = "done"]
        PROVE  /\ DOMAIN ops' = DOMAIN ops /\ UNCHANGED viewer
               /\ \A i \in DOMAIN ops : Grows(ops[i], ops'[i])
    <3>1. ops' = [ops EXCEPT ![o] = [x EXCEPT !.drainer = "done"]]
      BY <2>2
    <3> QED  BY <1>0, <1>2, <3>1 DEF Grows, Operation
  <2> QED  BY <1>7, <2>1, <2>2 DEF Drain
<1>8. CASE Watchdog(o)
  <2>1. ASSUME NEW pc \in {"grace", "done"}, NEW e \in Event,
               ops' = [ops EXCEPT ![o] = Appended([x EXCEPT !.watchdog = pc], <<e>>)]
        PROVE  /\ DOMAIN ops' = DOMAIN ops /\ UNCHANGED viewer
               /\ \A i \in DOMAIN ops : Grows(ops[i], ops'[i])
    <3> DEFINE z == [x EXCEPT !.watchdog = pc]
    <3>1. Sound(z) /\ z.events = x.events /\ z.total = x.total
      BY <1>0 DEF Sound, Operation
    <3>2. <<e>> \in Seq(Event)
      OBVIOUS
    <3> HIDE DEF z, x
    <3>3. Grows(x, Appended(z, <<e>>))
      BY <1>0, <3>1, <3>2, AppendedGrows
    <3> QED  BY <1>2, <2>1, <3>3 DEF z, x
  <2>2. CASE ops' = [ops EXCEPT ![o] = [x EXCEPT !.watchdog = "done"]]
    BY <1>0, <1>2, <2>2 DEF Grows, Operation
  <2>3. <<"timeout", 0>> \in Event /\ <<"kill", 0>> \in Event
    BY DEF Event
  <2> QED  BY <1>8, <2>1, <2>2, <2>3 DEF Watchdog, TimesOut, GraceEnds
<1>9. CASE Subprocess(o)
  BY <1>3, <1>9 DEF Subprocess, Writes, Exits
<1> QED  BY <1>1, <1>4, <1>5, <1>6, <1>7, <1>8, <1>9 DEF Reader

\* Growing keeps a buffer whole until it rotates.
LEMMA GrowthIsWhole ==
  ASSUME NEW x, Sound(x), NEW y, Grows(x, y), x.total <= Cap => Len(x.events) = x.total
  PROVE  /\ x.total <= y.total /\ x.total \in Nat /\ y.total \in Nat
         /\ y.total <= Cap => Len(y.events) = y.total
<1>1. x.events \in Seq(Event) /\ x.total \in Nat /\ Cap \in Nat \ {0}
  BY DeployAssumption DEF Sound, Operation
<1>2. CASE y.events = x.events /\ y.total = x.total
  BY <1>1, <1>2
<1>3. ASSUME NEW es \in Seq(Event), y.events = Bounded(Cap, x.events \o es), y.total = x.total + Len(es)
      PROVE  /\ x.total <= y.total /\ y.total \in Nat
             /\ y.total <= Cap => Len(y.events) = y.total
  <2>1. x.events \o es \in Seq(Event) /\ Len(x.events \o es) = Len(x.events) + Len(es)
    BY <1>1, ConcatProperties
  <2>2. Len(es) \in Nat
    OBVIOUS
  <2>3. x.total <= y.total /\ y.total \in Nat
    BY <1>1, <1>3, <2>2
  <2>4. ASSUME y.total <= Cap PROVE Len(y.events) = y.total
    <3>1. x.total <= Cap
      BY <1>1, <2>3, <2>4
    <3>2. Len(x.events \o es) = y.total
      BY <1>3, <2>1, <3>1
    <3>3. Bounded(Cap, x.events \o es) = x.events \o es
      BY <1>1, <2>1, <2>4, <3>2, BoundedType
    <3> QED  BY <1>3, <3>2, <3>3
  <2> QED  BY <2>3, <2>4
<1> QED  BY <1>1, <1>2, <1>3 DEF Grows

\* What a client has or awaits stays in order while its operation grows.
LEMMA OrderSurvives ==
  ASSUME StreamsInOrder, DeployInv, NEW v \in Viewers, UNCHANGED viewer,
         \A o \in DOMAIN ops : Grows(ops[o], ops'[o])
  PROVE  InOrder(viewer[v])'
<1> DEFINE w == viewer[v]
           sent == w.seen \o w.queue
<1>1. InOrder(w) /\ w \in Viewer /\ w.op <= Len(ops) /\ ops \in Seq(Operation)
  BY DEF StreamsInOrder, DeployInv, TypeOK, StreamsHaveOperation
<1>2. CASE w.op = 0
  BY <1>1, <1>2 DEF InOrder
<1>3. CASE w.op # 0
  <2>1. w.op \in DOMAIN ops
    BY <1>1, <1>3 DEF Viewer
  <2>2. Sound(ops[w.op]) /\ (ops[w.op].total <= Cap => Len(ops[w.op].events) = ops[w.op].total)
    BY <2>1, TaskFacts DEF StreamsInOrder, BuffersAreWhole
  <2>3. ops[w.op].total <= ops'[w.op].total /\ ops[w.op].total \in Nat /\ ops'[w.op].total \in Nat
    BY <2>1, <2>2, GrowthIsWhole
  <2>4. sent \in Seq(Sent) /\ \A i \in DOMAIN sent : sent[i].id \in Nat
    <3>1. w.seen \in Seq(Sent) /\ w.queue \in Seq(Sent)
      BY <1>1 DEF Viewer
    <3>2. sent \in Seq(Sent)
      BY <3>1, ConcatProperties
    <3> HIDE DEF sent
    <3>3. \A i \in DOMAIN sent : sent[i] \in Sent
      BY <3>2, LenProperties, ElementOfSeq
    <3> QED  BY <3>2, <3>3 DEF Sent
  <2>5. w.cursor \in Nat /\ w.upto \in Nat /\ Cap \in Nat
    BY <1>1, DeployAssumption DEF Viewer
  <2>6. /\ \A i, j \in DOMAIN sent : i < j => sent[i].id < sent[j].id
        /\ \A i \in DOMAIN sent :
             /\ sent[i].event # <<"terminal", 0>> => sent[i].id <= ops[w.op].total
             /\ ops[w.op].total <= Cap => sent[i].id = i
        /\ w.pc = "poll" => EndsAt(sent, w.cursor, ops[w.op])
        /\ w.pc = "emit" => EndsAt(sent, w.upto, ops[w.op])
        /\ w.pc \in {"off", "poll"} => w.queue = <<>>
    BY <1>1, <1>3 DEF InOrder, OneByOne
  <2>8. ops'[w.op].total <= Cap => ops[w.op].total <= Cap
    BY <2>3, <2>5
  <2>7. ASSUME NEW n \in Nat, EndsAt(sent, n, ops[w.op])
        PROVE  EndsAt(sent, n, ops'[w.op])
    <3> HIDE DEF sent, w
    <3>1. n <= ops'[w.op].total
      BY <2>3, <2>7 DEF EndsAt
    <3> QED  BY <2>7, <2>8, <3>1 DEF EndsAt
  <2>9. \A i \in DOMAIN sent : sent[i].event # <<"terminal", 0>> => sent[i].id <= ops'[w.op].total
    <3> HIDE DEF sent, w
    <3> SUFFICES ASSUME NEW i \in DOMAIN sent, sent[i].event # <<"terminal", 0>>
                 PROVE  sent[i].id <= ops'[w.op].total
      OBVIOUS
    <3>1. sent[i].id <= ops[w.op].total /\ sent[i].id \in Nat
      BY <2>4, <2>6
    <3> QED  BY <2>3, <3>1
  <2>10. viewer'[v] = w /\ viewer'[v].seen \o viewer'[v].queue = sent
    OBVIOUS
  <2> HIDE DEF sent, w
  <2>11. /\ w.pc = "poll" => EndsAt(sent, w.cursor, ops'[w.op])
         /\ w.pc = "emit" => EndsAt(sent, w.upto, ops'[w.op])
    BY <2>5, <2>6, <2>7
  <2>12. \A i \in DOMAIN sent : ops'[w.op].total <= Cap => sent[i].id = i
    BY <2>6, <2>8
  <2>13. OneByOne(sent, ops'[w.op])
    BY <2>6, <2>9, <2>12 DEF OneByOne
  <2> QED  BY <1>3, <2>6, <2>10, <2>11, <2>13 DEF InOrder
<1> QED  BY <1>2, <1>3

\* How much of a buffer of k entries, the last of t, a client at n skips.
LEMMA SkipIsRight ==
  ASSUME NEW t \in Nat, NEW k \in Nat, NEW n \in Nat, k <= t, n <= t
  PROVE  LET start == t - k
             skip == IF n > start THEN n - start ELSE 0
         IN /\ skip \in Nat /\ skip <= k /\ start + skip \in Nat
            /\ n <= start + skip /\ start + skip <= t
            /\ k - skip = t - (start + skip) /\ (k = t => start + skip = n)
OBVIOUS

\* The ids of a snapshot follow each other, from the first event after n that the buffer
\* still holds to the last there is.
LEMMA SnapshotIds ==
  ASSUME NEW x, Sound(x), NEW n \in Nat, n <= x.total
  PROVE  \E b \in Nat :
           /\ n <= b /\ b <= x.total
           /\ Len(x.events) = x.total => b = n
           /\ Snapshot(x, n) \in Seq(Sent) /\ Len(Snapshot(x, n)) = x.total - b
           /\ \A i \in DOMAIN Snapshot(x, n) : Snapshot(x, n)[i].id = b + i
<1> DEFINE len == Len(x.events)
           start == x.total - len
           skip == IF n > start THEN n - start ELSE 0
           news == SubSeq(x.events, skip + 1, len)
           b == start + skip
<1>1. x.events \in Seq(Event) /\ len \in Nat /\ x.total \in Nat /\ len <= x.total
  BY DEF Sound, Operation
<1> HIDE DEF len
<1>2. /\ skip \in Nat /\ skip <= len /\ b \in Nat /\ n <= b /\ b <= x.total
      /\ len - skip = x.total - b /\ (len = x.total => b = n)
  BY <1>1, SkipIsRight
<1>3. /\ news \in Seq(Event) /\ Len(news) = len - skip
  <2>1. skip + 1 \in Int /\ \A i \in skip + 1 .. len : x.events[i] \in Event
    BY <1>1, <1>2 DEF len
  <2>2. news \in Seq(Event) /\ Len(news) = IF skip + 1 <= len THEN len - (skip + 1) + 1 ELSE 0
    BY <1>1, <2>1, SubSeqProperties
  <2> HIDE DEF news, skip
  <2>3. (IF skip + 1 <= len THEN len - (skip + 1) + 1 ELSE 0) = len - skip
    BY <1>1, <1>2
  <2> QED  BY <2>2, <2>3
<1> HIDE DEF news
<1>4. Snapshot(x, n) = [i \in DOMAIN news |-> [id |-> start + skip + i, event |-> news[i]]]
  BY DEF Snapshot, start, skip, news, len
<1>5. Snapshot(x, n) \in Seq(Sent)
  BY SnapshotType
<1>6. DOMAIN Snapshot(x, n) = 1..Len(news)
  BY <1>3, <1>4, LenProperties
<1>7. Len(Snapshot(x, n)) = Len(news)
  BY <1>3, <1>5, <1>6, LenProperties
<1>8. \A i \in DOMAIN Snapshot(x, n) : Snapshot(x, n)[i].id = b + i
  BY <1>4
<1> HIDE DEF b
<1> QED  BY <1>2, <1>3, <1>5, <1>7, <1>8 DEF len

\* What a client has received is in order if what it was about to receive was as well.
LEMMA PrefixInRow ==
  ASSUME NEW x, NEW s \in Seq(Sent), NEW q \in Seq(Sent), OneByOne(s \o q, x)
  PROVE  OneByOne(s, x)
<1>1. DOMAIN s = 1..Len(s) /\ Len(s) \in Nat /\ Len(q) \in Nat
  BY LenProperties
<1>2. /\ s \o q \in Seq(Sent) /\ Len(s \o q) = Len(s) + Len(q)
      /\ \A i \in 1..Len(s) + Len(q) : (s \o q)[i] = IF i <= Len(s) THEN s[i] ELSE q[i - Len(s)]
  BY ConcatProperties
<1>3. \A i \in DOMAIN s : i \in DOMAIN (s \o q) /\ (s \o q)[i] = s[i]
  BY <1>1, <1>2, LenProperties
<1> QED  BY <1>3 DEF OneByOne

\* Events that follow the last one are added in order.
LEMMA RowExtended ==
  ASSUME NEW x, x.total \in Nat, NEW s \in Seq(Sent), NEW q \in Seq(Sent), NEW n \in Nat, NEW b \in Nat,
         OneByOne(s, x), EndsAt(s, n, x), n <= b, x.total <= Cap => b = n,
         \A i \in DOMAIN q :
           q[i].id = b + i /\ (q[i].event # <<"terminal", 0>> => q[i].id <= x.total)
  PROVE  OneByOne(s \o q, x)
<1> DEFINE r == s \o q
           k == Len(s)
<1>1. DOMAIN s = 1..k /\ DOMAIN q = 1..Len(q) /\ k \in Nat /\ Len(q) \in Nat
  BY LenProperties
<1>2. /\ r \in Seq(Sent) /\ DOMAIN r = 1..k + Len(q)
      /\ \A i \in 1..k + Len(q) : r[i] = IF i <= k THEN s[i] ELSE q[i - k]
  BY ConcatProperties, LenProperties
<1>3. \A i \in DOMAIN s : s[i].id \in Nat /\ s[i].id <= n /\ (x.total <= Cap => k = n)
  <2>1. \A i \in DOMAIN s : s[i] \in Sent
    BY <1>1, ElementOfSeq
  <2> QED  BY <2>1 DEF Sent, EndsAt
<1>4. x.total <= Cap => k = n
  BY DEF EndsAt
<1> HIDE DEF r, k
<1>5. \A i \in DOMAIN r : \/ i \in DOMAIN s /\ i <= k /\ r[i] = s[i]
                          \/ i \in Int /\ i > k /\ i - k \in DOMAIN q /\ r[i] = q[i - k]
  BY <1>1, <1>2
<1>6. ASSUME NEW i \in DOMAIN r, NEW j \in DOMAIN r, i < j
      PROVE  r[i].id < r[j].id
  <2>1. i \in Int /\ j \in Int
    BY <1>2
  <2>2. CASE j \in DOMAIN s /\ r[j] = s[j]
    <3>1. i \in DOMAIN s /\ r[i] = s[i]
      BY <1>1, <1>2, <1>6, <2>2
    <3> QED  BY <1>6, <2>2, <3>1 DEF OneByOne
  <2>3. CASE j - k \in DOMAIN q /\ r[j] = q[j - k] /\ j > k
    <3>1. r[j].id = b + (j - k)
      BY <2>3
    <3>2. CASE i \in DOMAIN s /\ r[i] = s[i]
      BY <1>1, <1>3, <2>1, <2>3, <3>1, <3>2
    <3>3. CASE i - k \in DOMAIN q /\ r[i] = q[i - k]
      <4>1. r[i].id = b + (i - k)
        BY <3>3
      <4> QED  BY <1>1, <1>6, <2>1, <3>1, <4>1
    <3> QED  BY <1>5, <3>2, <3>3
  <2> QED  BY <1>5, <2>2, <2>3
<1>7. ASSUME NEW i \in DOMAIN r
      PROVE  /\ r[i].event # <<"terminal", 0>> => r[i].id <= x.total
             /\ x.total <= Cap => r[i].id = i
  <2>1. CASE i \in DOMAIN s /\ r[i] = s[i]
    BY <2>1 DEF OneByOne
  <2>2. CASE i \in Int /\ i - k \in DOMAIN q /\ r[i] = q[i - k]
    <3>1. r[i].id = b + (i - k)
      BY <2>2
    <3>2. x.total <= Cap => b = k
      BY <1>4
    <3>3. ASSUME b = k PROVE r[i].id = i
      BY <1>1, <2>2, <3>1, <3>3
    <3> QED  BY <2>2, <3>2, <3>3
  <2> QED  BY <1>5, <2>1, <2>2
<1> QED  BY <1>6, <1>7 DEF OneByOne, r

\* After a snapshot, and after the last look with its terminal event.
LEMMA SnapshotExtends ==
  ASSUME NEW x, Sound(x), x.total <= Cap => Len(x.events) = x.total,
         NEW s \in Seq(Sent), NEW n \in Nat, OneByOne(s, x), EndsAt(s, n, x)
  PROVE  /\ OneByOne(s \o Snapshot(x, n), x)
         /\ EndsAt(s \o Snapshot(x, n), x.total, x)
         /\ OneByOne(s \o Append(Snapshot(x, n), Terminal(x)), x)
<1> DEFINE q == Snapshot(x, n)
           z == Append(q, Terminal(x))
<1>1. n <= x.total /\ x.total \in Nat /\ (x.total <= Cap => Len(s) = n)
  BY DEF EndsAt, Sound, Operation
<1>2. PICK b \in Nat :
        /\ n <= b /\ b <= x.total
        /\ Len(x.events) = x.total => b = n
        /\ q \in Seq(Sent) /\ Len(q) = x.total - b
        /\ \A i \in DOMAIN q : q[i].id = b + i
  BY <1>1, SnapshotIds
<1>3. DOMAIN q = 1..Len(q) /\ Len(q) \in Nat /\ DOMAIN s = 1..Len(s) /\ Len(s) \in Nat
  BY <1>2, LenProperties
<1> HIDE DEF q
<1>4. ASSUME NEW i \in DOMAIN q PROVE q[i].id <= x.total
  <2>1. i \in Nat /\ i <= x.total - b
    BY <1>2, <1>3
  <2> QED  BY <1>1, <1>2, <2>1
<1>5. OneByOne(s \o q, x)
  BY <1>1, <1>2, <1>4, RowExtended
<1>6. EndsAt(s \o q, x.total, x)
  <2>1. s \o q \in Seq(Sent) /\ Len(s \o q) = Len(s) + Len(q)
        /\ \A i \in 1..Len(s) + Len(q) : (s \o q)[i] = IF i <= Len(s) THEN s[i] ELSE q[i - Len(s)]
    BY <1>2, ConcatProperties
  <2>2. x.total <= Cap => Len(s \o q) = x.total
    <3>1. ASSUME b = n, Len(s) = n PROVE Len(s) + Len(q) = x.total
      BY <1>1, <1>2, <1>3, <3>1
    <3> QED  BY <1>1, <1>2, <2>1, <3>1
  <2>3. DOMAIN (s \o q) = 1..Len(s) + Len(q)
    BY <2>1, LenProperties
  <2>4. \A i \in DOMAIN s : s[i].id <= x.total
    <3> SUFFICES ASSUME NEW i \in DOMAIN s PROVE s[i].id <= x.total
      OBVIOUS
    <3>1. s[i] \in Sent
      BY <1>3, ElementOfSeq
    <3>2. s[i].id \in Nat /\ s[i].id <= n
      BY <3>1 DEF Sent, EndsAt
    <3> QED  BY <1>1, <3>2
  <2>5. ASSUME NEW i \in DOMAIN (s \o q) PROVE (s \o q)[i].id <= x.total
    <3>1. CASE i <= Len(s)
      BY <1>3, <2>1, <2>3, <2>4, <3>1
    <3>2. CASE ~(i <= Len(s))
      <4>1. i - Len(s) \in DOMAIN q /\ (s \o q)[i] = q[i - Len(s)]
        BY <1>3, <2>1, <2>3, <3>2
      <4> QED  BY <1>4, <4>1
    <3> QED  BY <3>1, <3>2
  <2> QED  BY <1>1, <2>2, <2>5 DEF EndsAt
<1>7. OneByOne(s \o z, x)
  <2>1. Terminal(x) \in Sent /\ Terminal(x).id = x.total + 1 /\ Terminal(x).event = <<"terminal", 0>>
    BY <1>1 DEF Terminal, Sent, Event
  <2>2. z \in Seq(Sent) /\ Len(z) = Len(q) + 1 /\ (\A i \in 1..Len(q) : z[i] = q[i])
        /\ z[Len(q) + 1] = Terminal(x)
    BY <1>2, <2>1, AppendProperties
  <2>3. DOMAIN z = 1..Len(q) + 1
    BY <2>2, LenProperties
  <2> HIDE DEF z
  <2>4. ASSUME NEW i \in DOMAIN z
        PROVE  z[i].id = b + i /\ (z[i].event # <<"terminal", 0>> => z[i].id <= x.total)
    <3>1. CASE i \in DOMAIN q
      BY <1>2, <1>3, <1>4, <2>2, <3>1
    <3>2. CASE i = Len(q) + 1
      <4>1. x.total + 1 = b + (Len(q) + 1)
        BY <1>1, <1>2
      <4> QED  BY <2>1, <2>2, <3>2, <4>1
    <3> QED  BY <1>3, <2>3, <3>1, <3>2
  <2> QED  BY <1>1, <1>2, <2>2, <2>4, RowExtended
<1> QED  BY <1>5, <1>6, <1>7 DEF q, z

\* One step of a client and its stream.
LEMMA StreamStaysInOrder ==
  ASSUME DeployInv, StreamsInOrder, NEW v \in Viewers, Streams(v)
  PROVE  StreamsInOrder'
<1> DEFINE w == viewer[v]
<1>0. /\ w \in Viewer /\ w.op <= Len(ops) /\ (w.pc # "off" => w.op # 0) /\ InOrder(w)
      /\ w.queue \in Seq(Sent) /\ w.seen \in Seq(Sent) /\ w.cursor \in Nat /\ w.upto \in Nat
      /\ ops \in Seq(Operation) /\ viewer = [viewer EXCEPT ![v] = w]
      /\ viewer \in [Viewers -> Viewer]
  BY DEF DeployInv, TypeOK, StreamsHaveOperation, Viewer, StreamsInOrder
<1>1. ops' = ops
  BY DEF Streams, Serve, Connect, Disconnect, Poll, Emit, EmitEnds, StreamEnds
<1>2. w.op # 0 => /\ w.op \in DOMAIN ops /\ Sound(ops[w.op])
                  /\ ops[w.op].total <= Cap => Len(ops[w.op].events) = ops[w.op].total
  BY <1>0, TaskFacts DEF Viewer, StreamsInOrder, BuffersAreWhole
<1>3. /\ w.seen \o <<>> = w.seen
      /\ w.seen \o w.queue \in Seq(Sent)
  BY <1>0, ConcatEmptySeq, ConcatProperties
<1>4. ASSUME NEW z, viewer' = [viewer EXCEPT ![v] = z], InOrder(z)
      PROVE  StreamsInOrder'
  <2>1. \A u \in Viewers : InOrder(viewer'[u])
    BY <1>0, <1>4 DEF StreamsInOrder
  <2>2. \A u \in Viewers : InOrder(viewer[u])'
    BY <1>1, <2>1 DEF InOrder, EndsAt, OneByOne
  <2> QED  BY <1>1, <2>2 DEF StreamsInOrder, BuffersAreWhole
<1>5. CASE Connect(v)
  <2>1. w.pc = "off" /\ w.queue = <<>> /\ w.op # 0 => OneByOne(w.seen, ops[w.op])
    BY <1>0, <1>3, <1>5 DEF Connect, InOrder
  <2>2. CASE Resumable(v) /\ viewer' = [viewer EXCEPT ![v].pc = "poll", ![v].cursor = Last(w.seen).id]
    <3> DEFINE n == Last(w.seen).id
               k == Len(w.seen)
               x == ops[w.op]
               z == [w EXCEPT !.pc = "poll", !.cursor = n]
    <3>1. /\ z.op = w.op /\ z.pc = "poll" /\ z.cursor = n /\ z.seen = w.seen /\ z.queue = w.queue
          /\ w.op # 0
      BY <1>0, <1>5, <2>2 DEF Viewer, Connect, Resumable
    <3>2. viewer' = [viewer EXCEPT ![v] = z]
      BY <2>2
    <3>3. /\ w.queue = <<>> /\ OneByOne(w.seen, x) /\ Last(w.seen) = w.seen[k]
          /\ k \in Nat /\ DOMAIN w.seen = 1..k /\ k # 0
          /\ Last(w.seen).event # <<"terminal", 0>>
      BY <1>0, <1>5, <2>1, <2>2, <3>1, EmptySeq, LenProperties DEF Last, Resumable, Connect, InOrder
    <3>4. k \in DOMAIN w.seen
      BY <3>3
    <3>5. n <= x.total /\ (x.total <= Cap => n = k)
      BY <3>3, <3>4 DEF OneByOne
    <3>6. \A i \in DOMAIN w.seen : w.seen[i].id <= n
      <4> SUFFICES ASSUME NEW i \in DOMAIN w.seen PROVE w.seen[i].id <= n
        OBVIOUS
      <4>1. w.seen[i].id \in Nat /\ n \in Nat
        <5>1. w.seen[i] \in Sent /\ w.seen[k] \in Sent
          BY <1>0, <3>3, <3>4, ElementOfSeq
        <5> QED  BY <3>3, <5>1 DEF Sent
      <4>2. CASE i = k
        BY <3>3, <4>1, <4>2
      <4>3. CASE i < k
        BY <3>3, <3>4, <4>1, <4>3 DEF OneByOne
      <4> QED  BY <3>3, <4>2, <4>3
    <3>7. EndsAt(w.seen, n, x)
      BY <3>5, <3>6 DEF EndsAt
    <3> HIDE DEF z, n
    <3>8. InOrder(z)
      BY <1>3, <3>1, <3>3, <3>7 DEF InOrder
    <3> QED  BY <1>4, <3>2, <3>8
  <2>3. CASE viewer' = [viewer EXCEPT ![v] = [NoStream EXCEPT !.pc = "poll", !.op = current]]
    <3> DEFINE z == [NoStream EXCEPT !.pc = "poll", !.op = current]
    <3>1. /\ z.op = current /\ z.pc = "poll" /\ z.cursor = 0 /\ z.seen = <<>> /\ z.queue = <<>>
          /\ current # 0
      BY <1>5 DEF Connect, NoStream
    <3>2. ops[current].total \in Nat
      BY <1>5, TaskFacts DEF Connect, DeployInv, TypeOK, Operation
    <3>3. <<>> \o <<>> = <<>>
      BY <1>0, ConcatEmptySeq
    <3>4. DOMAIN <<>> = {} /\ Len(<<>>) = 0
      OBVIOUS
    <3> HIDE DEF z
    <3>5. InOrder(z)
      BY <3>1, <3>2, <3>3, <3>4 DEF InOrder, OneByOne, EndsAt
    <3> QED  BY <1>4, <2>3, <3>5 DEF z
  <2> QED  BY <1>5, <2>2, <2>3 DEF Connect
<1>6. CASE Poll(v)
  <2> DEFINE x == ops[w.op]
             news == Snapshot(x, w.cursor)
             z == [w EXCEPT !.pc = "emit", !.queue = news, !.upto = x.total]
  <2>1. w.pc = "poll" /\ w.op # 0 /\ w.queue = <<>> /\ viewer' = [viewer EXCEPT ![v] = z]
    BY <1>0, <1>6 DEF Poll, InOrder
  <2>2. OneByOne(w.seen, x) /\ EndsAt(w.seen, w.cursor, x)
    BY <1>0, <1>3, <2>1 DEF InOrder
  <2>3. OneByOne(w.seen \o news, x) /\ EndsAt(w.seen \o news, x.total, x)
    BY <1>0, <1>2, <2>1, <2>2, SnapshotExtends
  <2> HIDE DEF news
  <2>4. /\ z.op = w.op /\ z.pc = "emit" /\ z.upto = x.total /\ z.seen = w.seen /\ z.queue = news
    BY <1>0 DEF Viewer
  <2> HIDE DEF z
  <2>5. InOrder(z)
    BY <2>1, <2>3, <2>4 DEF InOrder
  <2> QED  BY <1>4, <2>1, <2>5
<1>7. CASE Emit(v)
  <2> DEFINE rest == Tail(w.queue)
             first == Head(w.queue)
             more == Append(w.seen, first)
             z == [w EXCEPT !.queue = rest, !.seen = more]
  <2>1. /\ w.queue # <<>> /\ viewer' = [viewer EXCEPT ![v] = z]
    BY <1>7 DEF Emit
  <2>2. w.op # 0 /\ w.pc \notin {"off", "poll"}
    BY <1>0, <2>1 DEF InOrder
  <2>3. more \o rest = w.seen \o w.queue
    BY <1>0, <2>1, MoveOne
  <2> HIDE DEF rest, more
  <2>4. z.op = w.op /\ z.pc = w.pc /\ z.upto = w.upto /\ z.seen = more /\ z.queue = rest
    BY <1>0 DEF Viewer
  <2> HIDE DEF z
  <2>5. InOrder(z)
    BY <1>0, <2>2, <2>3, <2>4 DEF InOrder
  <2> QED  BY <1>4, <2>1, <2>5
<1>8. CASE EmitEnds(v)
  <2> DEFINE x == ops[w.op]
             last == Append(Snapshot(x, w.upto), Terminal(x))
  <2>1. /\ w.pc = "emit" /\ w.queue = <<>> /\ w.op # 0
        /\ viewer' = [viewer EXCEPT ![v] = Polled(v, x)]
    BY <1>0, <1>8 DEF EmitEnds
  <2>2. OneByOne(w.seen, x) /\ EndsAt(w.seen, w.upto, x)
    BY <1>0, <1>3, <2>1 DEF InOrder
  <2>3. OneByOne(w.seen \o last, x)
    BY <1>0, <1>2, <2>1, <2>2, SnapshotExtends
  <2>4. Polled(v, x) = IF x.status = "running"
                       THEN [w EXCEPT !.pc = "poll", !.cursor = w.upto]
                       ELSE [w EXCEPT !.pc = "last", !.cursor = w.upto, !.queue = last]
    BY DEF Polled
  <2> HIDE DEF last
  <2>5. CASE x.status = "running"
    <3> DEFINE z == [w EXCEPT !.pc = "poll", !.cursor = w.upto]
    <3>1. z.op = w.op /\ z.pc = "poll" /\ z.cursor = w.upto /\ z.seen = w.seen /\ z.queue = w.queue
      BY <1>0 DEF Viewer
    <3> HIDE DEF z
    <3>2. InOrder(z)
      BY <1>3, <2>1, <2>2, <3>1 DEF InOrder
    <3> QED  BY <1>4, <2>1, <2>4, <2>5, <3>2 DEF z
  <2>6. CASE x.status # "running"
    <3> DEFINE z == [w EXCEPT !.pc = "last", !.cursor = w.upto, !.queue = last]
    <3>1. z.op = w.op /\ z.pc = "last" /\ z.seen = w.seen /\ z.queue = last
      BY <1>0 DEF Viewer
    <3> HIDE DEF z
    <3>2. InOrder(z)
      BY <2>1, <2>3, <3>1 DEF InOrder
    <3> QED  BY <1>4, <2>1, <2>4, <2>6, <3>2 DEF z
  <2> QED  BY <2>5, <2>6
<1>9. CASE StreamEnds(v) \/ Disconnect(v)
  <2> DEFINE z == [w EXCEPT !.pc = "off", !.queue = <<>>]
  <2>1. viewer' = [viewer EXCEPT ![v] = z] /\ w.op # 0
    <3>1. CASE Disconnect(v)
      BY <1>0, <3>1 DEF Disconnect
    <3>2. CASE StreamEnds(v)
      <4>1. w.queue = <<>> /\ w.pc = "last" /\ viewer' = [viewer EXCEPT ![v] = [w EXCEPT !.pc = "off"]]
        BY <3>2 DEF StreamEnds
      <4>2. z = [w EXCEPT !.pc = "off"]
        BY <1>0, <4>1 DEF Viewer
      <4> QED  BY <1>0, <4>1, <4>2
    <3> QED  BY <1>9, <3>1, <3>2
  <2>2. z.op = w.op /\ z.pc = "off" /\ z.seen = w.seen /\ z.queue = <<>>
    BY <1>0 DEF Viewer
  <2>3. OneByOne(w.seen, ops[w.op])
    BY <1>0, <2>1, PrefixInRow DEF InOrder
  <2> HIDE DEF z
  <2>4. InOrder(z)
    BY <1>3, <2>1, <2>2, <2>3 DEF InOrder
  <2> QED  BY <1>4, <2>1, <2>4
<1> QED  BY <1>5, <1>6, <1>7, <1>8, <1>9 DEF Streams, Serve

\* Every step keeps the streams in order.
LEMMA OrderStep ==
  ASSUME DeployInv, StreamsInOrder, [Next]_vars
  PROVE  StreamsInOrder'
<1>0. /\ ops \in Seq(Operation) /\ viewer \in [Viewers -> Viewer]
      /\ \A v \in Viewers : viewer[v].op \in 0..Len(ops) /\ InOrder(viewer[v])
  BY DEF DeployInv, TypeOK, StreamsHaveOperation, StreamsInOrder, Viewer
<1>1. ASSUME NEW p \in Posters, Post(p) PROVE StreamsInOrder'
  <2>1. CASE PostStart(p)
    <3>1. /\ viewer' = viewer /\ DOMAIN ops = 1..Len(ops) /\ Len(ops) \in Nat
          /\ DOMAIN ops' = 1..Len(ops) + 1
          /\ \A o \in 1..Len(ops) : ops'[o] = ops[o]
          /\ ops'[Len(ops) + 1] = NewOperation
      <4>1. NewOperation \in Operation
        BY DeployAssumption DEF NewOperation, Operation
      <4> QED  BY <1>0, <2>1, <4>1, AppendProperties, LenProperties DEF PostStart
    <3>2. BuffersAreWhole'
      BY <3>1 DEF StreamsInOrder, BuffersAreWhole, NewOperation
    <3>3. ASSUME NEW v \in Viewers PROVE InOrder(viewer[v])'
      <4>1. viewer[v].op # 0 => ops'[viewer[v].op] = ops[viewer[v].op]
        BY <1>0, <3>1
      <4> QED  BY <1>0, <3>1, <4>1 DEF InOrder, EndsAt, OneByOne
    <3> QED  BY <3>2, <3>3 DEF StreamsInOrder
  <2>2. CASE PostCheck(p) \/ PostFails(p)
    <3>1. ops' = ops /\ viewer' = viewer
      BY <2>2 DEF PostCheck, PostFails
    <3>2. BuffersAreWhole'
      BY <3>1 DEF StreamsInOrder, BuffersAreWhole
    <3>3. \A v \in Viewers : InOrder(viewer[v])'
      BY <1>0, <3>1 DEF InOrder, EndsAt, OneByOne
    <3> QED  BY <3>2, <3>3 DEF StreamsInOrder
  <2> QED  BY <1>1, <2>1, <2>2 DEF Post
<1>2. ASSUME NEW o \in DOMAIN ops, Subprocess(o) \/ Reader(o) \/ Drain(o) \/ Watchdog(o)
      PROVE  StreamsInOrder'
  <2>1. /\ DOMAIN ops' = DOMAIN ops /\ UNCHANGED viewer
        /\ \A i \in DOMAIN ops : Grows(ops[i], ops'[i])
    BY <1>2, TasksGrow
  <2>2. BuffersAreWhole'
    <3> SUFFICES ASSUME NEW i \in DOMAIN ops', ops'[i].total <= Cap
                 PROVE  Len(ops'[i].events) = ops'[i].total
      BY DEF BuffersAreWhole
    <3>1. Sound(ops[i]) /\ (ops[i].total <= Cap => Len(ops[i].events) = ops[i].total)
      BY <2>1, TaskFacts DEF StreamsInOrder, BuffersAreWhole
    <3> QED  BY <2>1, <3>1, GrowthIsWhole
  <2>3. \A v \in Viewers : InOrder(viewer[v])'
    BY <2>1, OrderSurvives
  <2> QED  BY <2>2, <2>3 DEF StreamsInOrder
<1>3. ASSUME NEW v \in Viewers, Connect(v) \/ Serve(v) \/ Disconnect(v) PROVE StreamsInOrder'
  BY <1>3, StreamStaysInOrder DEF Streams
<1>4. CASE UNCHANGED vars
  BY <1>4 DEF vars, StreamsInOrder, BuffersAreWhole, InOrder, EndsAt, OneByOne
<1> QED  BY <1>1, <1>2, <1>3, <1>4 DEF Next

\* Whatever disconnects, resumes, rotates or ends in between: a client receives the events
\* of an operation in order and once each, and all of them while the buffer holds them
\* (stream_deploy_logs).
THEOREM StreamsResumeExactly == Spec => []ResumesExactly
<1> DEFINE J == DeployInv /\ StreamsInOrder
<1>1. Init => StreamsInOrder
  <2> SUFFICES ASSUME Init PROVE StreamsInOrder
    OBVIOUS
  <2>1. DOMAIN ops = {} /\ \A v \in Viewers : viewer[v].op = 0 /\ viewer[v].seen = <<>>
                                              /\ viewer[v].queue = <<>>
    BY DEF Init, NoStream
  <2> QED  BY <2>1 DEF StreamsInOrder, BuffersAreWhole, InOrder
<1>2. DeployInv /\ StreamsInOrder /\ [Next]_vars => StreamsInOrder'
  BY OrderStep
<1>3. DeployInv /\ StreamsInOrder => ResumesExactly
  <2> SUFFICES ASSUME DeployInv, StreamsInOrder, NEW v \in Viewers
               PROVE  LET seen == viewer[v].seen IN
                      /\ \A i \in 2..Len(seen) : seen[i - 1].id < seen[i].id
                      /\ seen # <<>> /\ ops[viewer[v].op].total <= Cap
                           => {seen[i].id : i \in DOMAIN seen} = 1..Last(seen).id
    BY DEF ResumesExactly
  <2> DEFINE w == viewer[v]
             seen == w.seen
             x == ops[w.op]
             k == Len(seen)
  <2>1. seen \in Seq(Sent) /\ w.queue \in Seq(Sent) /\ InOrder(w)
    BY DEF DeployInv, TypeOK, Viewer, StreamsInOrder
  <2>2. CASE w.op = 0
    BY <2>1, <2>2 DEF InOrder
  <2>3. CASE w.op # 0
    <3>1. OneByOne(seen, x)
      BY <2>1, <2>3, PrefixInRow DEF InOrder
    <3>2. DOMAIN seen = 1..k /\ k \in Nat /\ (seen # <<>> => k # 0)
      BY <2>1, LenProperties, EmptySeq
    <3> HIDE DEF seen, x, w, k
    <3>3. ASSUME NEW i \in 2..k PROVE seen[i - 1].id < seen[i].id
      <4>1. i - 1 \in DOMAIN seen /\ i \in DOMAIN seen /\ i - 1 < i
        BY <3>2
      <4> QED  BY <3>1, <4>1 DEF OneByOne
    <3>4. ASSUME seen # <<>>, x.total <= Cap
          PROVE  {seen[i].id : i \in DOMAIN seen} = 1..Last(seen).id
      <4>1. \A i \in 1..k : seen[i].id = i
        BY <3>1, <3>2, <3>4 DEF OneByOne
      <4>2. k \in 1..k
        BY <3>2, <3>4
      <4>3. Last(seen).id = k
        BY <4>1, <4>2 DEF Last, k
      <4>4. {seen[i].id : i \in 1..k} = 1..k
        BY <4>1
      <4> QED  BY <3>2, <4>3, <4>4
    <3> QED  BY <3>3, <3>4 DEF seen, x, w, k
  <2> QED  BY <2>2, <2>3
<1> QED  BY <1>1, <1>2, <1>3, DeployInvariant, PTL DEF Spec
=============================================================================
