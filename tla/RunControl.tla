----------------------------- MODULE RunControl -----------------------------
(***************************************************************************)
(* How a cancellation reaches the worker of a run, and how the subscribers *)
(* of its stream learn that it is over: the StreamManager of               *)
(* inmem_stream.py, Runs.enter, listen_for_cancellation, Runs.cancel and   *)
(* Runs.Stream.                                                            *)
(*                                                                         *)
(* Every registry of the stream manager is keyed by thread and run, so the *)
(* module follows one run and its attempts.  The graph run itself belongs  *)
(* to the worker (external): it may last for ever, and may end at any      *)
(* time.  The worker reports a status with Threads.set_joint_status inside *)
(* the Runs.enter block or after it; a run is requeued for a retry only    *)
(* after it (the assumption of RunQueue that a task does nothing more for  *)
(* a run it has requeued).                                                 *)
(***************************************************************************)
EXTENDS Integers, Sequences, SequencesExt, FiniteSets

CONSTANTS
  Subs,         \* subscribers to the run's stream
  MaxAttempts,  \* attempts the worker makes
  MaxPending,   \* bound: messages waiting for a subscriber when an event is published
  MaxTimeouts,  \* bound: listeners whose wait of 240 seconds ends
  MaxCancels,   \* bound: calls of Runs.cancel
  Keyed         \* TRUE \in Keyed: cancels may name the thread; FALSE: go by status

ASSUME AttemptsAssumption == MaxAttempts \in Nat \ {0}
ASSUME BoundsAssumption ==
  MaxPending \in Nat /\ MaxTimeouts \in Nat /\ MaxCancels \in Nat
ASSUME KeyedAssumption == Keyed \subseteq BOOLEAN

VARIABLES
  status,     \* the run's status in store["runs"]; "gone" when deleted
  attempt,    \* attempts started
  worker,     \* where the worker of each attempt is
  reported,   \* attempts whose status has been reported
  key,        \* control_keys: the last control message
  listed,     \* attempts whose control queue is in control_queues
  control,    \* the contents of each attempt's control queue
  listener,   \* the listen_for_cancellation task of each attempt
  done,       \* the ValueEvent given to the worker
  sub,        \* each subscriber
  queue,      \* the stream queue of each subscriber
  outbox,     \* messages and deletions that cancel requests still have to send
  spent       \* time-outs and cancels so far (for the bounds)

runVars == <<status, attempt>>
workVars == <<worker, reported>>
ctlVars == <<key, listed, control, listener, done>>
subVars == <<sub, queue>>
vars == <<runVars, workVars, ctlVars, subVars, outbox, spent>>

-----------------------------------------------------------------------------
Attempts == 1..MaxAttempts
Active == {"pending", "running"}
Cancels == {"interrupt", "rollback"}
Payload == Cancels \cup {"done"}

ControlTypes ==
  /\ status \in Active \cup {"finished", "interrupted", "gone"}
  /\ attempt \in 0..MaxAttempts
  /\ worker \in [Attempts -> {"none", "task", "body", "said", "closing", "left", "failed"}]
  /\ reported \in SUBSET Attempts
  /\ key \in Payload \cup {"none"}
  /\ listed \in SUBSET Attempts
  /\ control \in [Attempts -> Seq(Payload)]
  /\ listener \in [Attempts -> {"none", "new", "waiting", "over"}]
  /\ done \in [Attempts -> Payload \cup {"unset"}]
  /\ outbox \in SUBSET (Cancels \cup {"delete"})

TypeOK ==
  /\ ControlTypes
  /\ sub \in [Subs -> {"off", "joining", "closed"}]
  /\ queue \in [Subs -> Seq(Payload \cup {"event"})]
  /\ spent \in [timeouts : 0..MaxTimeouts, cancels : 0..MaxCancels]

Init ==
  /\ status = "pending"
  /\ attempt = 0
  /\ worker = [a \in Attempts |-> "none"]
  /\ reported = {}
  /\ key = "none"
  /\ listed = {}
  /\ control = [a \in Attempts |-> <<>>]
  /\ listener = [a \in Attempts |-> "none"]
  /\ done = [a \in Attempts |-> "unset"]
  /\ sub = [s \in Subs |-> "off"]
  /\ queue = [s \in Subs |-> <<>>]
  /\ outbox = {}
  /\ spent = [timeouts |-> 0, cancels |-> 0]

-----------------------------------------------------------------------------
(* StreamManager.put: a control message is kept as the control key and goes  *)
(* to the control queues; any other goes to the stream queues.               *)

PutControl(m) ==
  /\ key' = m
  /\ control' = [a \in Attempts |->
                   IF a \in listed THEN Append(control[a], m) ELSE control[a]]
  /\ UNCHANGED <<listed, listener, done>>

PutStream(m) ==
  /\ queue' = [s \in Subs |->
                 IF sub[s] = "joining" THEN Append(queue[s], m) ELSE queue[s]]
  /\ UNCHANGED sub

-----------------------------------------------------------------------------
(* The worker and Runs.enter                                                 *)

\* The scheduler starts the next attempt (Runs.next).
Dispatch ==
  /\ status = "pending" /\ attempt < MaxAttempts
  /\ status' = "running"
  /\ attempt' = attempt + 1
  /\ worker' = [worker EXCEPT ![attempt + 1] = "task"]
  /\ UNCHANGED <<reported, ctlVars, subVars, outbox, spent>>

\* The control queue is added before the listener task is created.
Enter(a) ==
  /\ worker[a] = "task"
  /\ worker' = [worker EXCEPT ![a] = "body"]
  /\ listed' = listed \cup {a}
  /\ listener' = [listener EXCEPT ![a] = "new"]
  /\ UNCHANGED <<runVars, reported, key, control, done, subVars, outbox, spent>>

\* A run publishes as long as it likes; the bound is on what waits, not on what is sent.
Publish(a) ==
  /\ worker[a] = "body" /\ a \notin reported
  /\ \A s \in Subs : Len(queue[s]) < MaxPending
  /\ PutStream("event")
  /\ UNCHANGED <<runVars, workVars, ctlVars, outbox, spent>>

\* set_joint_status with a status, with "pending" for a retry, or with
\* "rollback", which deletes the run.
Report(a) ==
  /\ worker[a] \in {"body", "left"}
  /\ a \notin reported
  /\ status # "gone"
  /\ reported' = reported \cup {a}
  /\ \/ status' \in {"finished", "interrupted", "gone"}
     \/ worker[a] = "left" /\ a < MaxAttempts /\ status' = "pending"
  /\ UNCHANGED <<attempt, worker, ctlVars, subVars, outbox, spent>>

\* The run is gone: set_joint_status raises.  Inside the block nothing after
\* the yield runs, and the task group cancels the listener.
ReportFails(a) ==
  /\ status = "gone"
  /\ a \notin reported
  /\ reported' = reported \cup {a}
  /\ \/ /\ worker[a] = "body"
        /\ worker' = [worker EXCEPT ![a] = "failed"]
        /\ listener' = [listener EXCEPT ![a] = "over"]
     \/ /\ worker[a] = "left"
        /\ UNCHANGED <<worker, listener>>
  /\ UNCHANGED <<runVars, key, listed, control, done, subVars, outbox, spent>>

\* The block ends: done goes to the control queues, then to the subscribers,
\* then the control queue is removed.
BlockEnds(a) ==
  /\ worker[a] = "body"
  /\ worker' = [worker EXCEPT ![a] = "said"]
  /\ PutControl("done")
  /\ UNCHANGED <<runVars, reported, subVars, outbox, spent>>

SignalDone(a) ==
  /\ worker[a] = "said"
  /\ worker' = [worker EXCEPT ![a] = "closing"]
  /\ PutStream("done")
  /\ UNCHANGED <<runVars, reported, ctlVars, outbox, spent>>

Leave(a) ==
  /\ worker[a] = "closing"
  /\ worker' = [worker EXCEPT ![a] = "left"]
  /\ listed' = listed \ {a}
  /\ control' = [control EXCEPT ![a] = <<>>]
  /\ listener' = [listener EXCEPT ![a] = "over"]
  /\ UNCHANGED <<runVars, reported, key, done, subVars, outbox, spent>>

-----------------------------------------------------------------------------
(* listen_for_cancellation                                                   *)

\* A control key that asks for a cancellation; "done" is what an earlier attempt
\* left behind.  (X_Y, placed before X, is X with a plausible defect; the model
\* never uses it.)
Heeded_Always == TRUE
Heeded_Any == key # "none"
Heeded_Ignored == FALSE
Heeded == key \in Cancels

ListenerStarts(a) ==
  /\ listener[a] = "new"
  /\ IF Heeded
     THEN /\ done' = [done EXCEPT ![a] = key]
          /\ listener' = [listener EXCEPT ![a] = "over"]
     ELSE /\ listener' = [listener EXCEPT ![a] = "waiting"]
          /\ UNCHANGED done
  /\ UNCHANGED <<runVars, workVars, key, listed, control, subVars, outbox, spent>>

ListenerHears(a) ==
  /\ listener[a] = "waiting" /\ control[a] # <<>>
  /\ done' = [done EXCEPT ![a] = Head(control[a])]
  /\ control' = [control EXCEPT ![a] = Tail(@)]
  /\ listener' = [listener EXCEPT ![a] = "over"]
  /\ UNCHANGED <<runVars, workVars, key, listed, subVars, outbox, spent>>

ListenerTimesOut(a) ==
  /\ listener[a] = "waiting" /\ control[a] = <<>>
  /\ spent.timeouts < MaxTimeouts
  /\ spent' = [spent EXCEPT !.timeouts = @ + 1]
  /\ listener' = [listener EXCEPT ![a] = "over"]
  /\ UNCHANGED <<runVars, workVars, key, listed, control, done, subVars, outbox>>

-----------------------------------------------------------------------------
(* Runs.cancel: the status is written first, the messages go out together    *)
(* when all runs have been looked at.                                        *)

Subscribed == \E s \in Subs : sub[s] = "joining"

\* Without a thread_id the message is put under THREADLESS_KEY, where no queue
\* of this run is registered; so neither is a subscriber seen there.
Cancel(action, keyed) ==
  /\ spent.cancels < MaxCancels
  /\ spent' = [spent EXCEPT !.cancels = @ + 1]
  /\ status \in Active
  /\ IF action = "interrupt" \/ (keyed /\ Subscribed)
     THEN /\ status' = "interrupted"
          /\ outbox' = outbox \cup (IF keyed THEN {action} ELSE {})
     ELSE /\ outbox' = outbox \cup {"delete"} \cup (IF keyed THEN {action} ELSE {})
          /\ UNCHANGED status
  /\ UNCHANGED <<attempt, workVars, ctlVars, subVars>>

CancelSends(action) ==
  /\ action \in outbox \cap Cancels
  /\ outbox' = outbox \ {action}
  /\ PutControl(action)
  /\ UNCHANGED <<runVars, workVars, subVars, spent>>

CancelDeletes ==
  /\ "delete" \in outbox
  /\ outbox' = outbox \ {"delete"}
  /\ status' = "gone"
  /\ UNCHANGED <<attempt, workVars, ctlVars, subVars, spent>>

-----------------------------------------------------------------------------
(* Runs.Stream                                                               *)

\* A new subscriber takes over what is waiting in the control queues.
Subscribe(s) ==
  /\ sub[s] = "off"
  /\ sub' = [sub EXCEPT ![s] = "joining"]
  /\ queue' = [queue EXCEPT ![s] =
                 FlattenSeq([a \in Attempts |-> IF a \in listed THEN control[a] ELSE <<>>])]
  /\ control' = [a \in Attempts |-> IF a \in listed THEN <<>> ELSE control[a]]
  /\ UNCHANGED <<runVars, workVars, key, listed, listener, done, outbox, spent>>

\* join: the stream's done message ends it, everything else is passed on or
\* ignored; leaving removes the queue.
Receive(s) ==
  /\ sub[s] = "joining" /\ queue[s] # <<>>
  /\ IF Head(queue[s]) = "done"
     THEN /\ sub' = [sub EXCEPT ![s] = "closed"]
          /\ queue' = [queue EXCEPT ![s] = <<>>]
     ELSE /\ queue' = [queue EXCEPT ![s] = Tail(@)]
          /\ UNCHANGED sub
  /\ UNCHANGED <<runVars, workVars, ctlVars, outbox, spent>>

\* Half a second without a message: the joiner looks at the run itself.
RunOver_NotCancelled == status \in {"finished", "gone"}
RunOver == status \notin Active

TimesOut(s) ==
  /\ sub[s] = "joining" /\ queue[s] = <<>>
  /\ RunOver
  /\ sub' = [sub EXCEPT ![s] = "closed"]
  /\ UNCHANGED <<queue, runVars, workVars, ctlVars, outbox, spent>>

Disconnect(s) ==
  /\ sub[s] = "joining"
  /\ sub' = [sub EXCEPT ![s] = "closed"]
  /\ queue' = [queue EXCEPT ![s] = <<>>]
  /\ UNCHANGED <<runVars, workVars, ctlVars, outbox, spent>>

-----------------------------------------------------------------------------
Work(a) ==
  \/ Enter(a) \/ Publish(a) \/ Report(a) \/ ReportFails(a)
  \/ BlockEnds(a) \/ SignalDone(a) \/ Leave(a)
Listen(a) == ListenerStarts(a) \/ ListenerHears(a) \/ ListenerTimesOut(a)
Send == CancelDeletes \/ \E action \in Cancels : CancelSends(action)
JoinMoves(s) == Receive(s) \/ TimesOut(s)

Next ==
  \/ Dispatch \/ Send
  \/ \E a \in Attempts : Work(a) \/ Listen(a)
  \/ \E action \in Cancels, keyed \in Keyed : Cancel(action, keyed)
  \/ \E s \in Subs : Subscribe(s) \/ JoinMoves(s) \/ Disconnect(s)

Spec == Init /\ [][Next]_vars

\* Tasks of the event loop make progress.  A graph run need not end.
Fairness ==
  /\ WF_vars(Send)
  /\ \A a \in Attempts : WF_vars(ListenerStarts(a) \/ ListenerHears(a))
  /\ \A s \in Subs : WF_vars(JoinMoves(s))

FairSpec == Spec /\ Fairness

-----------------------------------------------------------------------------
(* Properties *)

\* The worker of attempt a executes the graph.
Executing(a) == worker[a] \in {"task", "body"} /\ a \notin reported

\* A cancellation that the worker of a has been told of, or will be: by the key
\* when its listener starts, or by a message in its queue.
OnItsWay(a) ==
  \/ done[a] \in Cancels
  \/ listener[a] \in {"none", "new"} /\ key \in Cancels
  \/ listener[a] \in {"new", "waiting"} /\ ToSet(control[a]) \cap Cancels # {}

\* A cancellation on its way to a worker is not lost, whatever the order of
\* message, queue and listener: only a new subscriber can take it away, from the
\* control queue (Runs.Stream.subscribe).
CancellationIsKept ==
  [][\A a \in Attempts :
       OnItsWay(a) /\ Executing(a) /\ Executing(a)'
         => OnItsWay(a)' \/ \E s \in Subs : Subscribe(s)]_vars

\* What an attempt left behind does not end the next one.
RetryIsNotStopped == \A a \in Attempts : done[a] = "done" => ~Executing(a)

\* A joiner does not wait for ever on a run that is over, whether or not a done message
\* was sent to it.  There is one way in which it does: an interrupted run whose worker
\* never hears of it (a cancel without thread_id, a message taken by a subscriber) or
\* does not heed it goes on publishing, and queue.get() in Runs.Stream.join never times out.
JoinEnds ==
  \A s \in Subs :
    \/ []<><<\E a \in Attempts : Publish(a)>>_vars
    \/ (sub[s] = "joining" /\ status \notin Active)
         ~> (sub[s] = "closed" \/ status \in Active)

\* What the two above rest on.  A new attempt starts only after the one before has
\* left its block and reported; a listener that is over has said what it heard; and
\* a done message reaches the queue of no attempt that is still to end its block.
OneAttempt ==
  \A a \in Attempts :
    /\ worker[a] = "none" <=> a > attempt
    /\ a < attempt \/ (a = attempt /\ status = "pending")
         => worker[a] = "left" /\ a \in reported
DoneMeansEnded ==
  \A a \in Attempts :
    done[a] = "done" \/ "done" \in ToSet(control[a])
      => worker[a] \notin {"none", "task", "body"}
ListenerSays ==
  \A a \in Attempts :
    /\ done[a] # "unset" => listener[a] = "over"
    /\ worker[a] \in {"none", "task"} <=> listener[a] = "none"
    /\ a \in listed => worker[a] \notin {"none", "task"}

\* The inductive invariant of the control messages.
ControlInv == ControlTypes /\ OneAttempt /\ DoneMeansEnded /\ ListenerSays
=============================================================================
