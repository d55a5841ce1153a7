----------------------------- MODULE ThreadTTL ------------------------------
(***************************************************************************)
(* Expiry of threads: Threads.sweep_ttl, the loop of thread_ttl.py that    *)
(* runs it, and the requests that create, update and delete threads while  *)
(* it works.                                                               *)
(*                                                                         *)
(* With the built-in checkpointer a sweep never suspends, so the event     *)
(* loop runs nothing else during it.  With a custom one (custom = TRUE, a  *)
(* database saver) it suspends while a batch is pruned and while the       *)
(* checkpoints of a thread are deleted.                                    *)
(*                                                                         *)
(* The sweep keeps a reference to the TTL record it read.  Nobody but the  *)
(* sweep writes into a record (a new policy is a new record), so what it   *)
(* writes back is what it read, stamped.                                   *)
(***************************************************************************)
EXTENDS Integers, Sequences, SequencesExt, FiniteSets

CONSTANTS
  Threads,     \* thread ids
  Clients,     \* delete requests that can be in progress together
  Customs,     \* the kinds of checkpointer of this instance, subset of BOOLEAN
  Global,      \* the configured policy, or NoPolicy
  Overrides,   \* policies that requests set on threads
  NoPolicy,
  Limit,       \* sweep_limit
  BatchSize,   \* batch_size
  MaxNow       \* bound: the clock

ASSUME TTLAssumption ==
  /\ Limit \in Nat \ {0} /\ BatchSize \in Nat \ {0}
  /\ MaxNow \in Nat
  /\ Customs \subseteq BOOLEAN

VARIABLES
  custom,    \* a custom checkpointer is configured
  now,       \* the time
  order,     \* store["threads"]: thread ids in list order
  updated,   \* updated_at of each thread
  active,    \* threads with a pending or running run
  record,    \* store["thread_ttls"]
  sweep,     \* the sweep in progress
  client,    \* the suspended delete request of each client
  pruned     \* history: the updated_at for which a thread was last pruned

threadVars == <<order, updated, active>>
vars == <<custom, now, threadVars, record, sweep, client, pruned>>

-----------------------------------------------------------------------------
Never == -1
Times == 0..MaxNow
Policy == [strategy : {"delete", "keep_latest"}, ttl : Nat]
ASSUME PolicyAssumption ==
  Global \in Policy \cup {NoPolicy} /\ Overrides \subseteq Policy /\ NoPolicy \notin Policy

Record == [policy : Policy \cup {NoPolicy}, last : Times \cup {Never}]
NoRecord == [policy |-> NoPolicy, last |-> Never]

\* What the sweep remembers of an expired thread: the policy in force, the
\* thread's own record and its updated_at.
Item == [thread : Threads, policy : Policy, state : Record, updated : Times]

Idle == [pc |-> "idle", todo |-> <<>>, batch |-> <<>>, at |-> 0]
NotDeleting == [pc |-> "idle"]

TypeOK ==
  /\ custom \in BOOLEAN
  /\ now \in Times
  /\ order \in Seq(Threads)
  /\ updated \in [Threads -> Times]
  /\ active \in SUBSET Threads
  /\ record \in [Threads -> Record]
  /\ sweep \in [pc : {"idle", "next", "pruning", "batch", "deleting"},
                todo : Seq(Item), batch : Seq(Item), at : Nat]
  /\ client \in [Clients -> {NotDeleting} \cup
                 [pc : {"auth", "saver"}, thread : Threads, at : Nat \ {0}]]
  /\ pruned \in [Threads -> Times \cup {Never}]

Init ==
  /\ custom \in Customs
  /\ now = 0
  /\ order = <<>>
  /\ updated = [t \in Threads |-> 0]
  /\ active = {}
  /\ record = [t \in Threads |-> NoRecord]
  /\ sweep = Idle
  /\ client = [c \in Clients |-> NotDeleting]
  /\ pruned = [t \in Threads |-> Never]

-----------------------------------------------------------------------------
Exists(t) == t \in ToSet(order)

\* Requests run while the sweep waits between two sweeps, or for a custom
\* checkpointer.
LoopFree == sweep.pc = "idle" \/ (custom /\ sweep.pc \in {"pruning", "deleting"})

\* _effective_thread_ttl: the thread's own policy, else the configured one.
PolicyOf(t) == IF record[t].policy = NoPolicy THEN Global ELSE record[t].policy

\* _set_thread_ttl_override with a policy, or with one that has no duration,
\* which removes the thread's own: either way last_swept_updated_at is forgotten.
SetOverride(t, p) ==
  /\ record' = [record EXCEPT ![t] = [policy |-> p, last |-> Never]]
  /\ pruned' = [pruned EXCEPT ![t] = Never]

\* The ttl argument of a request is optional.
TTLArgument(t) ==
  \/ UNCHANGED <<record, pruned>>
  \/ \E p \in Overrides \cup {NoPolicy} : SetOverride(t, p)

-----------------------------------------------------------------------------
(* Requests and workers.  Time passes with every write, so no two threads are *)
(* updated at the same instant.                                              *)

Stamp(t) ==
  /\ now < MaxNow
  /\ now' = now + 1
  /\ updated' = [updated EXCEPT ![t] = now + 1]

Tick == now < MaxNow /\ now' = now + 1
        /\ UNCHANGED <<custom, threadVars, record, sweep, client, pruned>>

\* Threads.put
Create(t) ==
  /\ LoopFree /\ ~Exists(t)
  /\ order' = Append(order, t)
  /\ Stamp(t)
  /\ TTLArgument(t)
  /\ UNCHANGED <<custom, active, sweep, client>>

\* Threads.patch and the other writes to a thread (its position is RunQueue's).
Patch(t) ==
  /\ LoopFree /\ Exists(t)
  /\ Stamp(t)
  /\ TTLArgument(t)
  /\ UNCHANGED <<custom, order, active, sweep, client>>

\* Runs.put creates the thread, or updates it when it was not busy.
PutRun(t) ==
  /\ LoopFree
  /\ active' = active \cup {t}
  /\ order' = IF Exists(t) THEN order ELSE Append(order, t)
  /\ IF Exists(t) /\ t \in active THEN UNCHANGED <<now, updated>> ELSE Stamp(t)
  /\ UNCHANGED <<custom, record, sweep, client, pruned>>

\* The last active run ends: by set_joint_status, which stamps the thread, or
\* because it is deleted.
RunsEnd(t) ==
  /\ LoopFree /\ t \in active
  /\ active' = active \ {t}
  /\ \/ Exists(t) /\ Stamp(t)
     \/ UNCHANGED <<now, updated>>
  /\ UNCHANGED <<custom, order, record, sweep, client, pruned>>

\* Threads.delete finds the thread's position and waits for the auth handler; it
\* removes the thread's runs, lets the checkpointer delete (a custom one
\* suspends), and pops the position and the TTL record.
\* (X_Y, placed before X, is X with a plausible defect; the model never uses it.)
Position_ZeroBased(t) == SelectInSeq(order, LAMBDA u : u = t) - 1
Position(t) == SelectInSeq(order, LAMBDA u : u = t)
RemoveRuns(t) == active' = active \ {t}
PopThread(t, at) ==
  /\ order' = RemoveAt(order, at)
  /\ record' = [record EXCEPT ![t] = NoRecord]
  /\ pruned' = [pruned EXCEPT ![t] = Never]

DeleteBegin(c, t) ==
  /\ LoopFree /\ client[c] = NotDeleting /\ Exists(t)
  /\ client' = [client EXCEPT ![c] = [pc |-> "auth", thread |-> t, at |-> Position(t)]]
  /\ UNCHANGED <<custom, now, threadVars, record, sweep, pruned>>

\* Past the end of the list the pop raises.
ClientPops(c) ==
  /\ IF client[c].at <= Len(order)
     THEN PopThread(client[c].thread, client[c].at)
     ELSE UNCHANGED <<order, record, pruned>>
  /\ client' = [client EXCEPT ![c] = NotDeleting]

DeleteCommit(c) ==
  /\ LoopFree /\ client[c].pc = "auth"
  /\ RemoveRuns(client[c].thread)
  /\ IF custom
     THEN client' = [client EXCEPT ![c].pc = "saver"] /\ UNCHANGED <<order, record, pruned>>
     ELSE ClientPops(c)
  /\ UNCHANGED <<custom, now, updated, sweep>>

DeleteEnd(c) ==
  /\ LoopFree /\ client[c].pc = "saver"
  /\ ClientPops(c)
  /\ UNCHANGED <<custom, now, updated, active, sweep>>

-----------------------------------------------------------------------------
(* Threads.sweep_ttl                                                         *)

ExpiresAt(t) == updated[t] + PolicyOf(t).ttl

AlreadyPruned_Never(t) == FALSE
AlreadyPruned(t) == PolicyOf(t).strategy = "keep_latest" /\ record[t].last >= updated[t]

\* The threads the sweep leaves alone because they have a pending or running run.
Spared_None == {}
Spared == active

Expired ==
  {t \in ToSet(order) \ Spared :
     PolicyOf(t) # NoPolicy /\ ~AlreadyPruned(t) /\ ExpiresAt(t) <= now}

ItemOf(t) ==
  [thread |-> t, policy |-> PolicyOf(t), state |-> record[t], updated |-> updated[t]]

\* By expiry, the first Limit of them.
Sorted(S) ==
  {q \in [1..Cardinality(S) -> S] :
     \A i, j \in DOMAIN q : i < j => q[i] # q[j] /\ ExpiresAt(q[i]) <= ExpiresAt(q[j])}

SweepBegin ==
  /\ sweep.pc = "idle"
  /\ \E q \in Sorted(Expired) :
       sweep' = [Idle EXCEPT !.pc = "next",
                   !.todo = [i \in 1..(IF Len(q) < Limit THEN Len(q) ELSE Limit) |-> ItemOf(q[i])]]
  /\ UNCHANGED <<custom, now, threadVars, record, client, pruned>>

Keeps(item) == item.policy.strategy = "keep_latest"

NextBatch ==
  /\ sweep.pc = "next"
  /\ LET n == IF Len(sweep.todo) < BatchSize THEN Len(sweep.todo) ELSE BatchSize
         batch == SubSeq(sweep.todo, 1, n)
     IN IF n = 0
        THEN sweep' = Idle
        ELSE sweep' = [pc |-> IF \E i \in DOMAIN batch : Keeps(batch[i]) THEN "pruning" ELSE "batch",
                       todo |-> SubSeq(sweep.todo, n + 1, Len(sweep.todo)),
                       batch |-> batch, at |-> 0]
  /\ UNCHANGED <<custom, now, threadVars, record, client, pruned>>

\* checkpointer.aprune of the batch's keep_latest threads.
Prune ==
  /\ sweep.pc = "pruning"
  /\ pruned' = [t \in Threads |->
                  IF \E i \in DOMAIN sweep.batch : sweep.batch[i].thread = t /\ Keeps(sweep.batch[i])
                  THEN updated[t] ELSE pruned[t]]
  /\ sweep' = [sweep EXCEPT !.pc = "batch"]
  /\ UNCHANGED <<custom, now, threadVars, record, client>>

\* The item the loop over the batch is at.
AtItem == sweep.pc = "batch" /\ sweep.batch # <<>>
Current == Head(sweep.batch)
Advance == sweep' = [sweep EXCEPT !.pc = "batch", !.batch = Tail(@), !.at = 0]

BatchEnd ==
  /\ sweep.pc = "batch" /\ sweep.batch = <<>>
  /\ sweep' = [sweep EXCEPT !.pc = "next"]
  /\ UNCHANGED <<custom, now, threadVars, record, client, pruned>>

\* The record the sweep read, stamped with the updated_at it read, is stored.
Stamped_Lost(item) == item.state
Stamped(item) == [item.state EXCEPT !.last = item.updated]

MarkSwept ==
  /\ AtItem /\ Keeps(Current)
  /\ record' = [record EXCEPT ![Current.thread] = Stamped(Current)]
  /\ Advance
  /\ UNCHANGED <<custom, now, threadVars, client, pruned>>

\* Threads.delete of an expired thread; 404 passes it over.
SweepDeletes ==
  /\ AtItem /\ ~Keeps(Current)
  /\ IF Exists(Current.thread)
     THEN /\ RemoveRuns(Current.thread)
          /\ sweep' = [sweep EXCEPT !.pc = "deleting", !.at = Position(Current.thread)]
     ELSE Advance /\ UNCHANGED active
  /\ UNCHANGED <<custom, now, order, updated, record, client, pruned>>

SweepPops ==
  /\ sweep.pc = "deleting" /\ sweep.at <= Len(order)
  /\ PopThread(Current.thread, sweep.at)
  /\ Advance
  /\ UNCHANGED <<custom, now, updated, active, client>>

\* The custom checkpointer fails or the pop does: the loop logs it and waits for
\* the next interval.
SweepFails ==
  /\ custom /\ sweep.pc \in {"pruning", "deleting"}
  /\ sweep' = Idle
  /\ UNCHANGED <<custom, now, threadVars, record, client, pruned>>

Sweep ==
  \/ SweepBegin \/ NextBatch \/ Prune \/ BatchEnd
  \/ MarkSwept \/ SweepDeletes \/ SweepPops

-----------------------------------------------------------------------------
Next ==
  \/ Tick \/ Sweep \/ SweepFails
  \/ \E t \in Threads : Create(t) \/ Patch(t) \/ PutRun(t) \/ RunsEnd(t)
  \/ \E c \in Clients : DeleteCommit(c) \/ DeleteEnd(c) \/ \E t \in Threads : DeleteBegin(c, t)

Spec == Init /\ [][Next]_vars

\* The sweep loop runs for ever.
FairSpec == Spec /\ WF_vars(Sweep)

-----------------------------------------------------------------------------
(* Properties *)

\* The sweep asks for a batch to be pruned, or for a thread to be deleted.
PrunesNow(t) ==
  /\ sweep.pc = "next" /\ sweep'.pc = "pruning"
  /\ \E i \in DOMAIN sweep'.batch : sweep'.batch[i].thread = t /\ Keeps(sweep'.batch[i])
RemovesNow(t) ==
  sweep.pc = "batch" /\ sweep'.pc = "deleting" /\ Current.thread = t

\* With the built-in checkpointer no thread is pruned or deleted by the sweep
\* while it has a pending or running run.
ActiveIsSpared ==
  [][~custom => \A t \in Threads : PrunesNow(t) \/ RemovesNow(t) => t \notin active]_vars

\* "An expired inactive thread is pruned once.  It becomes eligible again only
\* after its updated_at advances": a prune never meets the updated_at of the
\* prune before, unless the thread was given a new policy or its record deleted.
PrunedOnce ==
  [][~custom => \A t \in Threads : PrunesNow(t) => pruned[t] # updated[t]]_vars

\* What the sweep read of a thread still holds: it has no active runs, was not updated,
\* and has the same policy unless it was deleted.
StillHolds(item) ==
  /\ item.thread \notin active /\ item.updated = updated[item.thread]
  /\ Exists(item.thread) => item.state.policy = record[item.thread].policy

\* With the built-in checkpointer a sweep works on what is: no thread is in it twice,
\* none that is still to be pruned has been pruned since its last update, those of the
\* batch that are to be recorded have been, and the position found for a deletion is
\* that of the thread.
SweepIsCurrent ==
  LET todo == sweep.todo
      batch == sweep.batch
  IN /\ \A i \in DOMAIN todo :
          /\ StillHolds(todo[i])
          /\ Keeps(todo[i]) => pruned[todo[i].thread] # updated[todo[i].thread]
          /\ \A j \in DOMAIN todo : i # j => todo[i].thread # todo[j].thread
          /\ \A j \in DOMAIN batch : todo[i].thread # batch[j].thread
     /\ \A i \in DOMAIN batch :
          /\ StillHolds(batch[i])
          /\ Keeps(batch[i]) /\ sweep.pc # "pruning"
               => pruned[batch[i].thread] = updated[batch[i].thread]
          /\ \A j \in DOMAIN batch : i # j => batch[i].thread # batch[j].thread
     /\ sweep.pc = "deleting" => order[sweep.at] = Current.thread

\* A thread's record says when it was last pruned, but for one whose batch has been
\* pruned and is still to be recorded.
PrunesAreRecorded ==
  \A t \in Threads :
    \/ pruned[t] = record[t].last
    \/ /\ sweep.pc \in {"batch", "deleting"}
       /\ \E i \in DOMAIN sweep.batch : sweep.batch[i].thread = t /\ Keeps(sweep.batch[i])

\* What holds in every state: types, a list of threads without repetitions whatever
\* stale positions were popped, and what a sweep rests on.
TTLInv ==
  /\ TypeOK /\ IsInjective(order)
  /\ sweep.pc = "idle" => sweep = Idle
  /\ sweep.pc = "next" => sweep.batch = <<>>
  /\ sweep.pc = "deleting" => sweep.batch # <<>> /\ sweep.at > 0
  /\ ~custom => SweepIsCurrent /\ PrunesAreRecorded

\* An expired thread without active runs is swept, unless it is updated first.
Due(t) == t \in Expired
ExpiredIsSwept == ~custom => \A t \in Threads : Due(t) ~> ~Due(t)

=============================================================================
