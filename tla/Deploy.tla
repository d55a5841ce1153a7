------------------------------- MODULE Deploy -------------------------------
(***************************************************************************)
(* The deploy endpoints (routes.py): POST /deploy starts a subprocess and  *)
(* replaces the current operation; three tasks per operation read its      *)
(* stdout, drain its stderr and watch its time; GET /deploy/{id}/stream    *)
(* serves the buffered events with absolute ids, resumable by the id of    *)
(* the last event seen.                                                    *)
(*                                                                         *)
(* All of it runs on one event loop: an action is what happens between two *)
(* points where a task or a request is suspended.  The subprocess is       *)
(* external; it runs by itself and is seen through its pipes, its exit and *)
(* the signals sent to it.                                                 *)
(***************************************************************************)
EXTENDS Integers, Sequences, SequencesExt

CONSTANTS
  Posters,   \* POST requests that can be in progress together
  Viewers,   \* clients that follow a stream
  Cap,       \* maxlen of the event buffer
  TailCap,   \* maxlen of the stderr tail
  MaxOps,    \* bound: operations ever started
  MaxLines   \* bound: lines a subprocess writes, stdout and stderr together

ASSUME DeployAssumption ==
  Cap \in Nat \ {0} /\ TailCap \in Nat \ {0} /\ MaxOps \in Nat /\ MaxLines \in Nat

VARIABLES
  poster,   \* "idle", or "starting": past the check, not yet recorded
  ops,      \* the DeployOperation objects, in the order of their creation
  procs,    \* the subprocess of each operation
  current,  \* _current_op: its place in ops, 0 for None
  viewer    \* the stream of each client, and what the client has received

vars == <<poster, ops, procs, current, viewer>>

-----------------------------------------------------------------------------
(* Types *)

\* An event is told apart by where it comes from and which line it is.
Event == {"out", "err"} \X (1..MaxLines) \cup {"timeout", "kill", "terminal"} \X {0}
Sent == [id : Nat, event : Event]

Operation ==
  [status : {"running", "succeeded", "failed"},
   exit : {"none", "zero", "nonzero"},
   events : Seq(Event), total : Nat, tail : Seq(Event),
   reader : {"reading", "draining", "done"}, final : {"none", "succeeded", "failed"},
   drainer : {"reading", "done"}, watchdog : {"asleep", "grace", "done"}]

\* out: kinds and numbers of the unread stdout lines; err: numbers on stderr.
Process ==
  [state : {"running", "terminating", "killed", "exited"}, code : {"zero", "nonzero"},
   written : 0..MaxLines, err : Seq(1..MaxLines),
   out : Seq([kind : {"event", "bad"}, n : 1..MaxLines])]

Viewer ==
  [pc : {"off", "poll", "emit", "last"}, op : 0..MaxOps, cursor : Nat,
   upto : Nat, queue : Seq(Sent), seen : Seq(Sent)]

TypeOK ==
  /\ poster \in [Posters -> {"idle", "starting"}]
  /\ ops \in Seq(Operation) /\ Len(ops) <= MaxOps
  /\ procs \in Seq(Process) /\ Len(procs) = Len(ops)
  /\ current \in 0..Len(ops)
  /\ viewer \in [Viewers -> Viewer]
  /\ \A o \in DOMAIN ops :
       /\ Len(ops[o].events) <= Cap /\ Len(ops[o].events) <= ops[o].total
       /\ Len(ops[o].tail) <= TailCap

-----------------------------------------------------------------------------
NewOperation ==
  [status |-> "running", exit |-> "none", events |-> <<>>, total |-> 0, tail |-> <<>>,
   reader |-> "reading", final |-> "none", drainer |-> "reading", watchdog |-> "asleep"]
NewProcess ==
  [state |-> "running", code |-> "zero", written |-> 0, err |-> <<>>, out |-> <<>>]
NoStream ==
  [pc |-> "off", op |-> 0, cursor |-> 0, upto |-> 0, queue |-> <<>>, seen |-> <<>>]

Init ==
  /\ poster = [p \in Posters |-> "idle"]
  /\ ops = <<>> /\ procs = <<>> /\ current = 0
  /\ viewer = [v \in Viewers |-> NoStream]

\* deque(maxlen=n): the oldest entries make room.
LastOf(n, s) == SubSeq(s, Len(s) - n + 1, Len(s))
Bounded(n, s) == IF Len(s) > n THEN LastOf(n, s) ELSE s

\* op.events.append and op._total_appended += 1 for each of the events es.
Appended(x, es) == [x EXCEPT !.events = Bounded(Cap, @ \o es), !.total = @ + Len(es)]

-----------------------------------------------------------------------------
(* start_deploy *)

\* No deployment is running; the request body, the working directory and the
\* subprocess are awaited after this check.  Otherwise the answer is 409.
PostCheck(p) ==
  /\ poster[p] = "idle" /\ Len(ops) < MaxOps
  /\ current # 0 => ops[current].status # "running"
  /\ poster' = [poster EXCEPT ![p] = "starting"]
  /\ UNCHANGED <<ops, procs, current, viewer>>

PostStart(p) ==
  /\ poster[p] = "starting" /\ Len(ops) < MaxOps
  /\ ops' = Append(ops, NewOperation)
  /\ procs' = Append(procs, NewProcess)
  /\ current' = Len(ops) + 1
  /\ poster' = [poster EXCEPT ![p] = "idle"]
  /\ UNCHANGED viewer

\* The subprocess cannot be created.
PostFails(p) ==
  /\ poster[p] = "starting"
  /\ poster' = [poster EXCEPT ![p] = "idle"]
  /\ UNCHANGED <<ops, procs, current, viewer>>

-----------------------------------------------------------------------------
(* The subprocess *)

Writes(o) ==
  /\ procs[o].state \in {"running", "terminating"} /\ procs[o].written < MaxLines
  /\ LET n == procs[o].written + 1 IN
     \/ \E kind \in {"event", "bad"} :
          procs' = [procs EXCEPT ![o].written = n,
                                 ![o].out = Append(@, [kind |-> kind, n |-> n])]
     \/ procs' = [procs EXCEPT ![o].written = n, ![o].err = Append(@, n)]
  /\ UNCHANGED <<poster, ops, current, viewer>>

Exits(o) ==
  /\ procs[o].state # "exited"
  /\ \E code \in {"zero", "nonzero"} :
       /\ procs[o].state = "killed" => code = "nonzero"
       /\ procs' = [procs EXCEPT ![o].state = "exited", ![o].code = code]
  /\ UNCHANGED <<poster, ops, current, viewer>>

-----------------------------------------------------------------------------
(* _read_subprocess, _drain_stderr and _timeout_watchdog *)

\* The end of the reader's finally block: the drainer is over or is cancelled
\* after two seconds, the stderr tail follows a failure, and the status comes last.
\* (X_Y, placed before X, is X with a plausible defect; the model never uses it.)
ReaderCloses_Early(x) ==
  Appended([x EXCEPT !.reader = "done", !.status = x.final, !.watchdog = "done"],
           IF x.final = "failed" THEN x.tail ELSE <<>>)
ReaderCloses_Unwatched(x) ==
  Appended([x EXCEPT !.reader = "done", !.status = x.final, !.drainer = "done"],
           IF x.final = "failed" THEN x.tail ELSE <<>>)
ReaderCloses(x) ==
  Appended([x EXCEPT !.reader = "done", !.status = x.final,
                     !.drainer = "done", !.watchdog = "done"],
           IF x.final = "failed" THEN x.tail ELSE <<>>)

\* The reader leaves its loop with x.final; it suspends only for the drainer.
ReaderLeaves(x) ==
  IF x.drainer = "done" THEN ReaderCloses(x) ELSE [x EXCEPT !.reader = "draining"]

\* A line becomes an event, or raises: JSON that is not an object, a line longer
\* than the stream's limit.  (JSON without a message leaves no event, and is left out.)
ReadLine(o) ==
  /\ ops[o].reader = "reading" /\ procs[o].out # <<>>
  /\ LET line == Head(procs[o].out) IN
     ops' = [ops EXCEPT ![o] =
       IF line.kind = "event" THEN Appended(@, << <<"out", line.n>> >>)
       ELSE ReaderLeaves([@ EXCEPT !.final = "failed"])]
  /\ procs' = [procs EXCEPT ![o].out = Tail(@)]
  /\ UNCHANGED <<poster, current, viewer>>

\* End of file, then the exit code.  That the pipes end with the process is assumed of
\* it: a grandchild that has inherited them would keep them open.
ReadEnd(o) ==
  /\ ops[o].reader = "reading" /\ procs[o].out = <<>> /\ procs[o].state = "exited"
  /\ ops' = [ops EXCEPT ![o] = ReaderLeaves(
       [@ EXCEPT !.exit = procs[o].code,
                 !.final = IF procs[o].code = "zero" THEN "succeeded" ELSE "failed"])]
  /\ UNCHANGED <<poster, procs, current, viewer>>

ReaderEnds(o) ==
  /\ ops[o].reader = "draining"
  /\ ops' = [ops EXCEPT ![o] = ReaderCloses(@)]
  /\ UNCHANGED <<poster, procs, current, viewer>>

\* A line enters the tail; or the drainer is over, at the end of stderr or by the
\* exception that a line longer than the stream's limit raises.
Drain(o) ==
  /\ ops[o].drainer = "reading"
  /\ \/ /\ procs[o].err # <<>>
        /\ ops' = [ops EXCEPT ![o].tail = Bounded(TailCap, Append(@, <<"err", Head(procs[o].err)>>))]
        /\ procs' = [procs EXCEPT ![o].err = Tail(@)]
     \/ /\ procs[o].err # <<>> \/ procs[o].state = "exited"
        /\ ops' = [ops EXCEPT ![o].drainer = "done"]
        /\ UNCHANGED procs
  /\ UNCHANGED <<poster, current, viewer>>

\* The time is up: SIGTERM, unless the deployment or its process has ended.
TimesOut(o) ==
  /\ ops[o].watchdog = "asleep"
  /\ IF ops[o].status = "running" /\ procs[o].state # "exited"
     THEN /\ ops' = [ops EXCEPT ![o] =
                       Appended([@ EXCEPT !.watchdog = "grace"], << <<"timeout", 0>> >>)]
          /\ procs' = [procs EXCEPT ![o].state = "terminating"]
     ELSE /\ ops' = [ops EXCEPT ![o].watchdog = "done"]
          /\ UNCHANGED procs
  /\ UNCHANGED <<poster, current, viewer>>

\* The process went in its grace time, or is killed.
GraceEnds_NoKill(o) ==
  /\ ops[o].watchdog = "grace"
  /\ ops' = [ops EXCEPT ![o].watchdog = "done"]
  /\ UNCHANGED <<poster, procs, current, viewer>>
GraceEnds(o) ==
  /\ ops[o].watchdog = "grace"
  /\ IF procs[o].state = "exited"
     THEN /\ ops' = [ops EXCEPT ![o].watchdog = "done"]
          /\ UNCHANGED procs
     ELSE /\ ops' = [ops EXCEPT ![o] =
                       Appended([@ EXCEPT !.watchdog = "done"], << <<"kill", 0>> >>)]
          /\ procs' = [procs EXCEPT ![o].state = "killed"]
  /\ UNCHANGED <<poster, current, viewer>>

-----------------------------------------------------------------------------
(* stream_deploy_logs *)

\* The buffered events of x after `cursor`, each with its absolute id.
Snapshot(x, cursor) ==
  LET start == x.total - Len(x.events)
      skip == IF cursor > start THEN cursor - start ELSE 0
      news == SubSeq(x.events, skip + 1, Len(x.events))
  IN [i \in DOMAIN news |-> [id |-> start + skip + i, event |-> news[i]]]
Terminal(x) == [id |-> x.total + 1, event |-> <<"terminal", 0>>]

\* A client opens the stream of the current operation, from the start, or after
\* the last event it has seen of it unless that was the terminal event.  Any
\* other operation is not found (404).
Resumable(v) ==
  /\ viewer[v].op = current /\ viewer[v].seen # <<>>
  /\ Last(viewer[v].seen).event # <<"terminal", 0>>
Connect(v) ==
  /\ viewer[v].pc = "off" /\ current # 0
  /\ \/ /\ Resumable(v)
        /\ viewer' = [viewer EXCEPT ![v].pc = "poll", ![v].cursor = Last(viewer[v].seen).id]
     \/ viewer' = [viewer EXCEPT ![v] = [NoStream EXCEPT !.pc = "poll", !.op = current]]
  /\ UNCHANGED <<poster, ops, procs, current>>

\* A snapshot of the buffer is taken and then sent event by event.
Poll(v) ==
  /\ viewer[v].pc = "poll"
  /\ viewer' = [viewer EXCEPT ![v].pc = "emit",
                  ![v].queue = Snapshot(ops[viewer[v].op], viewer[v].cursor),
                  ![v].upto = ops[viewer[v].op].total]
  /\ UNCHANGED <<poster, ops, procs, current>>

Emit(v) ==
  /\ viewer[v].queue # <<>>
  /\ viewer' = [viewer EXCEPT ![v].queue = Tail(@),
                              ![v].seen = Append(@, Head(viewer[v].queue))]
  /\ UNCHANGED <<poster, ops, procs, current>>

\* The snapshot is out.  Unless the operation still runs, what was appended
\* meanwhile and the terminal event follow.
Polled_NoLastLook(v, x) ==
  IF x.status = "running"
  THEN [viewer[v] EXCEPT !.pc = "poll", !.cursor = viewer[v].upto]
  ELSE [viewer[v] EXCEPT !.pc = "last", !.queue = <<Terminal(x)>>]
Polled(v, x) ==
  IF x.status = "running"
  THEN [viewer[v] EXCEPT !.pc = "poll", !.cursor = viewer[v].upto]
  ELSE [viewer[v] EXCEPT !.pc = "last", !.cursor = viewer[v].upto,
                         !.queue = Append(Snapshot(x, viewer[v].upto), Terminal(x))]
EmitEnds(v) ==
  /\ viewer[v].pc = "emit" /\ viewer[v].queue = <<>>
  /\ viewer' = [viewer EXCEPT ![v] = Polled(v, ops[viewer[v].op])]
  /\ UNCHANGED <<poster, ops, procs, current>>

StreamEnds(v) ==
  /\ viewer[v].pc = "last" /\ viewer[v].queue = <<>>
  /\ viewer' = [viewer EXCEPT ![v].pc = "off"]
  /\ UNCHANGED <<poster, ops, procs, current>>

\* The client is disconnected; what was not sent yet is dropped with the stream.
Disconnect(v) ==
  /\ viewer[v].pc # "off"
  /\ viewer' = [viewer EXCEPT ![v].pc = "off", ![v].queue = <<>>]
  /\ UNCHANGED <<poster, ops, procs, current>>

-----------------------------------------------------------------------------
Post(p) == PostCheck(p) \/ PostStart(p) \/ PostFails(p)
Subprocess(o) == Writes(o) \/ Exits(o)
Reader(o) == ReadLine(o) \/ ReadEnd(o) \/ ReaderEnds(o)
Watchdog(o) == TimesOut(o) \/ GraceEnds(o)
Serve(v) == Poll(v) \/ Emit(v) \/ EmitEnds(v) \/ StreamEnds(v)

Next ==
  \/ \E p \in Posters : Post(p)
  \/ \E o \in DOMAIN ops : Subprocess(o) \/ Reader(o) \/ Drain(o) \/ Watchdog(o)
  \/ \E v \in Viewers : Connect(v) \/ Serve(v) \/ Disconnect(v)

Spec == Init /\ [][Next]_vars

-----------------------------------------------------------------------------
(* Properties *)

\* What a client has seen of an operation, over all its connections, comes in
\* the order of the ids and without a repetition, and nothing is missing as long as
\* the buffer has not rotated (generate in stream_deploy_logs).
ResumesExactly ==
  \A v \in Viewers :
    LET seen == viewer[v].seen IN
    /\ \A i \in 2..Len(seen) : seen[i - 1].id < seen[i].id
    /\ seen # <<>> /\ ops[viewer[v].op].total <= Cap
         => {seen[i].id : i \in DOMAIN seen} = 1..Last(seen).id

\* A failed operation shows its last stderr lines before it shows as failed
\* (unless the buffer has rotated past them): the drainer adds none afterwards.
StderrComesBeforeStatus ==
  \A o \in DOMAIN ops :
    ops[o].status = "failed" /\ ops[o].total <= Cap => ToSet(ops[o].tail) \subseteq ToSet(ops[o].events)

\* The terminal event is the last: once an operation has ended, no task of it,
\* the watchdog of a process that goes on included, appends to it.
NothingAfterTheEnd ==
  [][\A o \in DOMAIN ops : ops[o].status # "running" =>
        ops'[o].total = ops[o].total /\ ops'[o].status = ops[o].status]_vars

\* A deployment that runs has something that will end it: its reader is in the
\* bounded wait for stderr, its process is dead, or the watchdog has yet to kill
\* it.  So one that hangs or ignores SIGTERM, and one that a second request has
\* displaced from _current_op, still come to an end.
RunningIsBounded ==
  \A o \in DOMAIN ops : ops[o].status = "running" =>
    \/ ops[o].reader = "draining"
    \/ procs[o].state \in {"killed", "exited"}
    \/ ops[o].watchdog \in {"asleep", "grace"}

\* How an operation ends: the reader closes it after it has chosen the outcome, when
\* its other tasks are over, and the watchdog does not leave before the process does.
EndsInOrder ==
  \A o \in DOMAIN ops :
    /\ ops[o].reader = "done" <=> ops[o].status # "running"
    /\ ops[o].reader = "done" => ops[o].drainer = "done" /\ ops[o].watchdog = "done"
    /\ ops[o].reader # "reading" => ops[o].final # "none"

\* An open stream is that of an operation that exists.
StreamsHaveOperation ==
  \A v \in Viewers :
    viewer[v].op <= Len(ops) /\ (viewer[v].pc # "off" => viewer[v].op # 0)

\* What ResumesExactly rests on: until it rotates the buffer holds every event, and what
\* a client has seen together with what its stream is about to send ends where the next
\* snapshot will begin, at event n.
BuffersAreWhole ==
  \A o \in DOMAIN ops : ops[o].total <= Cap => Len(ops[o].events) = ops[o].total
OneByOne(sent, x) ==
  /\ \A i, j \in DOMAIN sent : i < j => sent[i].id < sent[j].id
  /\ \A i \in DOMAIN sent :
       /\ sent[i].event # <<"terminal", 0>> => sent[i].id <= x.total
       /\ x.total <= Cap => sent[i].id = i
EndsAt(sent, n, x) ==
  /\ n <= x.total
  /\ \A i \in DOMAIN sent : sent[i].id <= n
  /\ x.total <= Cap => Len(sent) = n
InOrder(w) ==
  LET x == ops[w.op]
      sent == w.seen \o w.queue
  IN /\ w.op = 0 => w.seen = <<>>
     /\ w.pc \in {"off", "poll"} => w.queue = <<>>
     /\ w.op # 0 =>
          /\ OneByOne(sent, x)
          /\ w.pc = "poll" => EndsAt(sent, w.cursor, x)
          /\ w.pc = "emit" => EndsAt(sent, w.upto, x)
StreamsInOrder == BuffersAreWhole /\ \A v \in Viewers : InOrder(viewer[v])

\* The inductive invariant of the operations.
DeployInv ==
  /\ TypeOK /\ EndsInOrder /\ StreamsHaveOperation
  /\ RunningIsBounded /\ StderrComesBeforeStatus
=============================================================================
