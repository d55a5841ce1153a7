----------------------------- MODULE StreamReplay -----------------------------
(***************************************************************************)
(* What the subscribers of resumable streams receive: StreamManager.put,    *)
(* put_thread and restore_messages (inmem_stream.py), Runs.Stream.join and  *)
(* Threads.Stream.join_event_streaming (ops.py).                            *)
(*                                                                         *)
(* The runs of one thread publish events and, at the end of each attempt, a *)
(* "done" message; all of them are resumable, so every message is stored.   *)
(* A message is known by its source and its number there.  Its id is the    *)
(* millisecond it was published in, and several may share one.  A reader is *)
(* a client that follows one run and resumes, after a disconnection, from   *)
(* the id it saw last; a watcher follows the whole thread.  A message that  *)
(* is yielded is taken to reach its client.  No filter on stream modes      *)
(* applies, and the runs stay in the store.                                 *)
(***************************************************************************)
EXTENDS Integers, FiniteSets, Sequences, SequencesExt, FiniteSetsExt

CONSTANTS
  Runs,       \* runs of the thread
  Thread,     \* the thread's own stream (Threads.Stream.publish)
  Readers,    \* clients of Runs.Stream.join
  Watchers,   \* clients of Threads.Stream.join_event_streaming
  MaxEvents,  \* bound: messages of a run, the done messages included
  MaxTime     \* bound: the clock in milliseconds

ASSUME BoundAssumption == MaxEvents \in Nat /\ MaxTime \in Nat \ {0}
ASSUME ThreadAssumption == Thread \notin Runs

Sources == Runs \cup {Thread}

\* What the list has at the places P, in its order.
At(list, P) ==
  [i \in 1..Cardinality(P) |-> list[CHOOSE p \in P : Cardinality({k \in P : k <= p}) = i]]

VARIABLES
  now,        \* int(time.time() * 1000)
  runs,       \* the thread's runs in store["runs"], in order
  active,     \* those of them that are pending or running
  published,  \* what each source has put; for a run this is its message_store
  reader,     \* each reader's connection, and what its client has
  watcher     \* each watcher's connection

vars == <<now, runs, active, published, reader, watcher>>

-----------------------------------------------------------------------------
(* Types *)

None == -1                \* last_event_id is None; 0 is an id before all others
Ids == None..MaxTime
Messages == [id : 1..MaxTime, done : BOOLEAN]
Numbers(s) == 1..Len(published[s])

Connections ==
  [pc : {"off", "subscribed", "replay", "live", "closed"}, run : Runs, cursor : Ids, last : Ids,
   pos : 1..MaxEvents + 1, queue : Seq(1..MaxEvents), got : SUBSET (1..MaxEvents),
   since : 0..MaxEvents, end : 0..MaxEvents]

TypeOK ==
  /\ now \in 1..MaxTime
  /\ runs \in Seq(Runs) /\ IsInjective(runs) /\ active \subseteq ToSet(runs)
  /\ published \in [Sources -> Seq(Messages)]
  /\ \A s \in Sources : Len(published[s]) <= MaxEvents
  /\ reader \in [Readers -> Connections]

Places == [source : Sources, n : 1..MaxEvents]
Queues == [source : Sources, base : 0..MaxEvents, held : Seq(1..MaxEvents)]
Watching ==
  [pc : {"off", "replay", "subscribe", "drain"}, todo : Seq(Places), queues : Seq(Queues),
   at : Nat \ {0}, told : [Sources -> Seq(1..MaxEvents)], last : Ids]

\* The watchers' lists name messages that exist.
WatcherOK ==
  \A w \in Watchers :
    LET x == watcher[w] IN
      /\ x \in Watching
      /\ \A i \in DOMAIN x.todo : x.todo[i].n \in Numbers(x.todo[i].source)
      /\ \A i \in DOMAIN x.queues : x.queues[i].held \in Seq(Numbers(x.queues[i].source))
      /\ x.at <= Len(x.queues) + 1
      /\ \A s \in Sources : x.told[s] \in Seq(Numbers(s))

-----------------------------------------------------------------------------
\* A watcher whose connection is new, or over.
Connection(pc, todo, last) ==
  [pc |-> pc, todo |-> todo, queues |-> <<>>, at |-> 1,
   told |-> [s \in Sources |-> <<>>], last |-> last]
Away == Connection("off", <<>>, None)

Init ==
  /\ now = 1 /\ runs = <<>> /\ active = {}
  /\ published = [s \in Sources |-> <<>>]
  /\ reader \in [Readers -> {[pc |-> "off", run |-> r, cursor |-> None, last |-> None, pos |-> 1,
                              queue |-> <<>>, got |-> {}, since |-> 0, end |-> 0] : r \in Runs}]
  /\ watcher = [w \in Watchers |-> Away]

Tick ==
  /\ now < MaxTime /\ now' = now + 1
  /\ UNCHANGED <<runs, active, published, reader, watcher>>

-----------------------------------------------------------------------------
(* Publication *)

\* (X_Y, placed before X, is X with a plausible defect; the model never uses it.)
Number_BeforeStoring(s) == Len(published[s])
Number(s) == Len(published[s]) + 1

\* Runs.Stream.subscribe registers a reader's queue, leaving join removes it.
Registered_WhenLive(c) == reader[c].pc = "live"
Registered(c) == reader[c].pc \in {"subscribed", "replay", "live"}

\* The message gets its id, is stored, and goes to every queue of its source.
Held(q) == [q EXCEPT !.held = Append(@, Number(q.source))]
Put(s, done) ==
  /\ published' = [published EXCEPT ![s] = Append(@, [id |-> now, done |-> done])]
  /\ reader' = [c \in Readers |->
                  IF Registered(c) /\ reader[c].run = s
                  THEN [reader[c] EXCEPT !.queue = Append(@, Number(s))] ELSE reader[c]]
  /\ watcher' = [w \in Watchers |->
                   [watcher[w] EXCEPT !.queues =
                      [i \in DOMAIN @ |-> IF @[i].source = s THEN Held(@[i]) ELSE @[i]]]]

NewRun(r) ==
  /\ r \notin ToSet(runs)
  /\ runs' = Append(runs, r) /\ active' = active \cup {r}
  /\ UNCHANGED <<now, published, reader, watcher>>

\* An event, or the done message of an attempt that a retry may follow.
Publish(r, done) ==
  /\ r \in ToSet(runs) /\ Len(published[r]) < MaxEvents
  /\ Put(r, done)
  /\ UNCHANGED <<now, runs, active>>

\* A status is reported, or the run cancelled, whatever is still to be published.
RunOver(r) ==
  /\ r \in active /\ active' = active \ {r}
  /\ UNCHANGED <<now, runs, published, reader, watcher>>

PublishThread ==
  /\ Len(published[Thread]) < MaxEvents
  /\ Put(Thread, FALSE)
  /\ UNCHANGED <<now, runs, active>>

-----------------------------------------------------------------------------
(* Runs.Stream.join *)

Set(c, x) ==
  /\ reader' = [reader EXCEPT ![c] = x]
  /\ UNCHANGED <<now, runs, active, published, watcher>>

\* A client resumes from the id it saw last; one that saw none asks for all or for
\* what comes (since: what it does not ask for).
Connect(c, from) ==
  /\ reader[c].pc = "off" /\ reader[c].run \in ToSet(runs)
  /\ from \in (IF reader[c].last = None THEN {None, 0} ELSE {reader[c].last})
  /\ Set(c, [reader[c] EXCEPT !.pc = "subscribed", !.cursor = from, !.pos = 1, !.queue = <<>>,
                              !.since = IF from = None THEN Len(published[reader[c].run])
                                        ELSE IF from = 0 THEN 0 ELSE @])

\* The authorization of the request is over.
Authorized(c) ==
  /\ reader[c].pc = "subscribed"
  /\ Set(c, [reader[c] EXCEPT !.pc = IF reader[c].cursor = None THEN "live" ELSE "replay"])

\* Message n reaches the client; a done message ends the connection instead.
Given(x, n) ==
  IF published[x.run][n].done
  THEN [x EXCEPT !.pc = "closed", !.end = n, !.queue = <<>>]
  ELSE [x EXCEPT !.got = @ \cup {n}, !.last = published[x.run][n].id]

\* restore_messages: the stored messages with a greater id, in their order.  The
\* list is the live one: what is put during the replay is still found in it.
ToRestore(x) ==
  {n \in x.pos..Len(published[x.run]) : published[x.run][n].id > x.cursor}

Replay(c) ==
  LET x == reader[c] IN
    /\ x.pc = "replay" /\ ToRestore(x) # {}
    /\ LET n == Min(ToRestore(x)) IN Set(c, Given([x EXCEPT !.pos = n + 1], n))
ReplayEnds(c) ==
  /\ reader[c].pc = "replay" /\ ToRestore(reader[c]) = {}
  /\ Set(c, [reader[c] EXCEPT !.pc = "live"])

\* The queue has been filling since the subscription: what was put before the end
\* of the replay comes a second time.
Listens_AtOnce(c) == reader[c].pc \in {"subscribed", "live"}
Listens(c) == reader[c].pc = "live"
Receive(c) ==
  LET x == reader[c] IN
    /\ Listens(c) /\ x.queue # <<>>
    /\ Set(c, Given([x EXCEPT !.queue = Tail(@)], Head(x.queue)))

\* The client goes away, or half a second passes and the run is over.
Disconnect(c) ==
  /\ Registered(c)
  /\ Set(c, [reader[c] EXCEPT !.pc = "off", !.queue = <<>>])
TimesOut(c) ==
  /\ reader[c].pc = "live" /\ reader[c].queue = <<>> /\ reader[c].run \notin active
  /\ Set(c, [reader[c] EXCEPT !.pc = "off"])

-----------------------------------------------------------------------------
(* Threads.Stream.join_event_streaming *)

Watch(w, x) ==
  /\ watcher' = [watcher EXCEPT ![w] = x]
  /\ UNCHANGED <<now, runs, active, published, reader>>

\* The stored messages of all runs, sorted by id.  Within a millisecond a run's
\* messages stay in order; which run comes first is the order of the message store,
\* any one here.
Stored(from) ==
  {m \in [source : ToSet(runs), n : 1..MaxEvents] :
     m.n \in Numbers(m.source) /\ published[m.source][m.n].id > from}
Earlier(a, b) ==
  LET id(m) == published[m.source][m.n].id
  IN  id(a) < id(b) \/ (id(a) = id(b) /\ (a.source = b.source => a.n < b.n))
Restored(from) ==
  {list \in [1..Cardinality(Stored(from)) -> Stored(from)] :
     \A i, j \in DOMAIN list : i < j => Earlier(list[i], list[j])}

\* All that is to be replayed is looked up before the first of it is yielded.
WatchStarts(w, from) ==
  /\ watcher[w].pc = "off"
  /\ from \in {None, 0, watcher[w].last}
  /\ \E todo \in IF from = None THEN {<<>>} ELSE Restored(from) :
       Watch(w, Connection(IF from = None THEN "subscribe" ELSE "replay", todo, watcher[w].last))

\* A message, or the metadata event that a done message becomes, is yielded.
Told(x, s, n) ==
  [x EXCEPT !.told[s] = Append(@, n), !.last = published[s][n].id]

WatchReplays(w) ==
  LET x == watcher[w] IN
    /\ x.pc = "replay" /\ x.todo # <<>>
    /\ Watch(w, Told([x EXCEPT !.todo = Tail(@)], Head(x.todo).source, Head(x.todo).n))

\* subscribe: queues for the thread and the runs that have none yet (seen_runs).
Unseen_NotKept(x) == <<Thread>> \o runs
Unseen(x) ==
  LET all == <<Thread>> \o runs
  IN  At(all, {i \in 1..Len(all) : \A j \in DOMAIN x.queues : x.queues[j].source # all[i]})

WatchSubscribes(w) ==
  LET x == watcher[w]
      new == [i \in DOMAIN Unseen(x) |->
                [source |-> Unseen(x)[i], base |-> Len(published[Unseen(x)[i]]), held |-> <<>>]]
  IN  /\ x.pc = "subscribe" \/ (x.pc = "replay" /\ x.todo = <<>>)
      /\ Watch(w, [x EXCEPT !.pc = "drain", !.at = 1, !.queues = @ \o new])

\* The queues are drained one after the other, each to its end; then the loop
\* sleeps and looks for new runs.
Filled(x) == {i \in x.at..Len(x.queues) : x.queues[i].held # <<>>}
WatchDrains(w) ==
  LET x == watcher[w] IN
    /\ x.pc = "drain" /\ Filled(x) # {}
    /\ LET i == Min(Filled(x))
           n == Head(x.queues[i].held)
       IN  Watch(w, Told([x EXCEPT !.at = i, !.queues[i].held = Tail(@)], x.queues[i].source, n))
WatchSleeps(w) ==
  /\ watcher[w].pc = "drain" /\ Filled(watcher[w]) = {}
  /\ Watch(w, [watcher[w] EXCEPT !.pc = "subscribe"])

WatchLeaves(w) ==
  /\ watcher[w].pc # "off"
  /\ Watch(w, Connection("off", <<>>, watcher[w].last))

-----------------------------------------------------------------------------
Join(c) ==
  \/ \E from \in Ids : Connect(c, from)
  \/ Authorized(c) \/ Replay(c) \/ ReplayEnds(c) \/ Receive(c) \/ Disconnect(c) \/ TimesOut(c)
JoinThread(w) ==
  \/ \E from \in Ids : WatchStarts(w, from)
  \/ WatchReplays(w) \/ WatchSubscribes(w) \/ WatchDrains(w) \/ WatchSleeps(w) \/ WatchLeaves(w)

Next ==
  \/ Tick \/ PublishThread
  \/ \E r \in Runs : NewRun(r) \/ RunOver(r) \/ \E done \in BOOLEAN : Publish(r, done)
  \/ \E c \in Readers : Join(c)
  \/ \E w \in Watchers : JoinThread(w)

Spec == Init /\ [][Next]_vars

-----------------------------------------------------------------------------
(* Properties *)

\* Message n of its run is no event, or has reached the reader's client, or is of the
\* same millisecond as an earlier one that has.
Accounted(x, n) ==
  \/ published[x.run][n].done
  \/ n \in x.got
  \/ \E m \in x.got : m < n /\ published[x.run][m].id = published[x.run][n].id

\* How far a reader is: its queue holds the latest messages of the run.
Reached(x) == Len(published[x.run]) - Len(x.queue)

\* A reader has no gap below what it has; what it resumed from it has; its queue begins
\* where the replay may end.
NoGap(x) ==
  LET id(n) == published[x.run][n].id
      queued == x.pc \in {"subscribed", "replay", "live"}
      replaying == x.pc \in {"subscribed", "replay"}
  IN  /\ x.since <= Len(published[x.run])
      /\ \A m \in x.got :
           /\ x.since < m /\ m <= Len(published[x.run])
           /\ \A n \in x.since + 1..m : Accounted(x, n)
      /\ IF x.last = None THEN x.got = {} ELSE \E m \in x.got : id(m) = x.last
      /\ queued => /\ x.since <= Reached(x)
                   /\ \A i \in 1..Len(x.queue) : x.queue[i] = Reached(x) + i
      /\ replaying => /\ x.cursor \notin {None, 0} => \E m \in x.got : id(m) = x.cursor
                      /\ x.cursor = 0 => x.since = 0
      /\ x.pc = "subscribed" => x.pos = 1 /\ (x.cursor = None => x.since = Reached(x))
      /\ x.pc = "replay" => /\ x.cursor # None /\ x.pos <= Len(published[x.run]) + 1
                            /\ \A n \in x.since + 1..x.pos - 1 : Accounted(x, n)
      /\ x.pc = "live" => \A n \in x.since + 1..Reached(x) : Accounted(x, n)
      /\ x.pc = "closed" =>
           x.end <= Len(published[x.run]) /\ \A n \in x.since + 1..x.end - 1 : Accounted(x, n)

\* The ids of a stream grow with the clock.
IdsGrow ==
  \A s \in Sources : \A n \in Numbers(s) :
    /\ published[s][n].id <= now
    /\ \A m \in 1..n : published[s][m].id <= published[s][n].id

\* What holds of the streams and their readers in every state: no reader has a gap.
ReplayInv == TypeOK /\ IdsGrow /\ \A c \in Readers : NoGap(reader[c])

\* What a watcher has been told of each source comes in order.
InOrder(list) == \A i, j \in DOMAIN list : i < j => list[i] < list[j]
InStep(x) ==
  \A s \in Sources : InOrder(x.told[s]) /\ \A i \in 1..Len(x.told[s]) : x.told[s][i] \in Numbers(s)

\* What is still to be replayed to it is later than what it was told of the same run.
Ahead(x) ==
  LET source(i) == x.todo[i].source
      n(i) == x.todo[i].n
  IN  /\ \A i \in 1..Len(x.todo) :
           /\ n(i) \in Numbers(source(i))
           /\ \A k \in 1..Len(x.told[source(i)]) : x.told[source(i)][k] < n(i)
      /\ \A i, j \in 1..Len(x.todo) : i < j /\ source(i) = source(j) => n(i) < n(j)

\* Queue q holds the latest messages of its source; it was told those before them,
\* from the subscription on, and none of them.
UpTo(x, q) ==
  LET told == x.told[q.source]
      reached == Len(published[q.source]) - Len(q.held)
  IN  /\ q.base <= reached
      /\ \A k \in 1..Len(q.held) : q.held[k] = reached + k
      /\ \A i \in 1..Len(told) : told[i] <= reached
      /\ \A n \in q.base + 1..reached : \E i \in 1..Len(told) : told[i] = n

\* A source has one queue at most, and none before the replay is over.
Watched(x) ==
  /\ InStep(x) /\ Ahead(x)
  /\ \A i \in 1..Len(x.queues) : UpTo(x, x.queues[i])
  /\ \A i, j \in 1..Len(x.queues) : x.queues[i].source = x.queues[j].source => i = j
  /\ x.at <= Len(x.queues) + 1
  /\ x.pc = "replay" => x.queues = <<>>
  /\ x.pc \in {"subscribe", "drain"} => x.todo = <<>>

\* What holds of the watchers in every state.
WatchInv ==
  /\ ReplayInv
  /\ watcher \in [Watchers -> Watching]
  /\ \A w \in Watchers : Watched(watcher[w])

\* A reader that a done message has sent away has every event that came before
\* that message and that it had asked for, however often it was disconnected and
\* whatever was put between its subscription, the replay and the queue.  Only an
\* event of the same millisecond as one it has can be missing: restore_messages
\* compares ids, and the sequence number in an id is always 0.
EventsArrive ==
  \A c \in Readers :
    LET x == reader[c] IN
      x.pc = "closed" =>
        \A n \in x.since + 1..x.end - 1 :
          \/ published[x.run][n].done
          \/ n \in x.got
          \/ \E m \in x.got : published[x.run][m].id = published[x.run][n].id

\* The replay and the queue overlap, and what was received before a resumption may
\* come again; but an event that comes for the first time is a later one than all
\* that came before (Runs.Stream.join).  Again one of the same millisecond as an
\* earlier one is the exception: the replay skips it and the queue brings it.
NewInOrder ==
  [][\A c \in Readers :
       LET id(n) == published[reader[c].run][n].id IN
         \A n \in reader'[c].got \ reader[c].got :
           \/ \A m \in reader[c].got : m < n
           \/ \E m \in reader[c].got : m < n /\ id(m) = id(n)]_vars

\* Within a connection to the thread no message comes twice and those of a run come
\* in order, although the replay and the queues of runs that join later are read one
\* after the other (seen_runs in join_event_streaming); and from its subscription on
\* nothing of a run is lost: what was told since, and what the queue holds, is all
\* that the run has put since.  (What was put between the look into the store and
\* the subscription never comes.)
ThreadInOrder ==
  WatcherOK /\ \A w \in Watchers :
    LET x == watcher[w] IN
      /\ \A s \in Sources : InOrder(x.told[s])
      /\ \A i \in DOMAIN x.queues :
           LET q == x.queues[i]
               told == x.told[q.source]
           IN  /\ InOrder(told \o q.held)
               /\ ToSet(q.held) \cup {n \in ToSet(told) : n > q.base}
                    = q.base + 1..Len(published[q.source])

=============================================================================
