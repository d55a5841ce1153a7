--------------------------- MODULE CheckpointSaver ---------------------------
(***************************************************************************)
(* The built-in checkpointer: InMemorySaver with its three dictionaries    *)
(* and its size accounting, and the operations of ops.py on them (copy a   *)
(* thread, delete a run's checkpoints, prune, delete a thread).            *)
(*                                                                         *)
(* Each operation is one step: none of them suspends.  What interleaves    *)
(* are the writers (graph runs and state updates), which load a checkpoint *)
(* and put their own later, on top of what they loaded, while its history  *)
(* may be pruned, deleted or copied.                                       *)
(*                                                                         *)
(* A checkpoint does not hold values.  It names a version of each channel, *)
(* and the value of that version is a blob, or "empty" for a channel whose *)
(* value follows from the writes of the ancestors since its last snapshot  *)
(* (DeltaChannel, external).  Ids grow with time, and a version is named   *)
(* by the id of the checkpoint that made it.                               *)
(***************************************************************************)
EXTENDS Integers, FiniteSets

CONSTANTS
  Threads,     \* thread ids
  Used,        \* the threads that are written to; the others hold copies
  Namespaces,  \* checkpoint_ns: the graph and its subgraphs
  Channels,
  RunIds,      \* run_id in a checkpoint's metadata
  Writers,
  Sizes,       \* serialized sizes of a payload
  NewSizes,    \* its sizes when it is put again
  MaxIds,      \* bound: checkpoints put
  MaxWrites,   \* bound: size of a group of pending writes
  MaxGroups,   \* bound: groups of pending writes
  MaxUpkeep    \* bound: steps other than load, put and put_writes

ASSUME UsedAssumption == Used \subseteq Threads
ASSUME ChannelsAssumption == IsFiniteSet(Channels)
ASSUME SizesAssumption == Sizes \cup NewSizes \subseteq Nat \ {0}
ASSUME MaxAssumption == \A n \in {MaxIds, MaxWrites, MaxGroups, MaxUpkeep} : n \in Nat

VARIABLES
  storage,  \* checkpoints
  writes,   \* pending writes, one group per checkpoint
  blobs,    \* channel values
  tracked,  \* _by_thread: estimated bytes and number of checkpoints
  total,    \* _total_bytes and _total_checkpoints
  made,     \* checkpoints put so far
  upkeep,   \* steps so far other than load, put and put_writes
  writer    \* what each writer has loaded

data == <<storage, writes, blobs>>
vars == <<data, tracked, total, made, upkeep, writer>>

-----------------------------------------------------------------------------
Ids == 1..MaxIds
Versions == [Channels -> 0..MaxIds]  \* 0: the channel has no version yet
Checkpoint ==
  [thread : Threads, ns : Namespaces, id : Ids, parent : 0..MaxIds, run : RunIds,
   versions : Versions, size : Sizes \cup NewSizes]
WriteGroup == [thread : Threads, ns : Namespaces, id : Ids, size : 1..MaxWrites]
Blob ==
  [thread : Threads, ns : Namespaces, channel : Channels, version : Ids,
   kind : {"value", "empty"}, size : Sizes \cup NewSizes]
Estimate == [bytes : Nat, count : Nat]

Away == [pc |-> "away"]
Busy ==
  [pc : {"busy"}, thread : Threads, ns : Namespaces, run : RunIds, base : 0..MaxIds,
   versions : Versions]

\* The dictionaries have one checkpoint for a thread, namespace and id.
SameKey(c, d) == c.thread = d.thread /\ c.ns = d.ns /\ c.id = d.id

TypeOK ==
  /\ storage \in SUBSET Checkpoint /\ IsFiniteSet(storage)
  /\ \A c, d \in storage : SameKey(c, d) => c = d
  /\ writes \in SUBSET WriteGroup /\ IsFiniteSet(writes)
  /\ blobs \in SUBSET Blob /\ IsFiniteSet(blobs)
  /\ tracked \in [Threads -> Estimate]
  /\ total \in Estimate
  /\ made \in 0..MaxIds
  /\ upkeep \in 0..MaxUpkeep
  /\ writer \in [Writers -> Busy \cup {Away}]

NoVersions == [ch \in Channels |-> 0]
Nothing == [bytes |-> 0, count |-> 0]

Init ==
  /\ storage = {} /\ writes = {} /\ blobs = {}
  /\ tracked = [t \in Threads |-> Nothing]
  /\ total = Nothing
  /\ made = 0 /\ upkeep = 0
  /\ writer = [w \in Writers |-> Away]

-----------------------------------------------------------------------------
(* Sizes.  An operator whose name has the form X_Y, placed just before X, is *)
(* X with a plausible defect; it is never used by the model.                 *)

\* The estimated bytes of a set of checkpoints, write groups or blobs.
Bytes(S) == Cardinality(UNION {{x} \X (1..x.size) : x \in S})

\* What is stored under thread t.
Of(S, t) == {x \in S : x.thread = t}
Held(t) ==
  [bytes |-> Bytes(Of(storage, t)) + Bytes(Of(writes, t)) + Bytes(Of(blobs, t)),
   count |-> Cardinality(Of(storage, t))]

AtLeastZero(n) == IF n < 0 THEN 0 ELSE n

\* _CheckpointSizeState.adjust, and the assignment that it, copy_thread and
\* remove_thread share: the totals follow the difference.
SetEstimate_OnlySubtracted(t, new) ==
  /\ tracked' = [tracked EXCEPT ![t] = new]
  /\ total' = [bytes |-> total.bytes - tracked[t].bytes,
               count |-> total.count - tracked[t].count]
SetEstimate(t, new) ==
  /\ tracked' = [tracked EXCEPT ![t] = new]
  /\ total' = [bytes |-> total.bytes + new.bytes - tracked[t].bytes,
               count |-> total.count + new.count - tracked[t].count]
Adjust(t, bytes, count) ==
  SetEstimate(t, [bytes |-> AtLeastZero(tracked[t].bytes + bytes),
                  count |-> AtLeastZero(tracked[t].count + count)])

\* Counts the steps that are bounded by MaxUpkeep.
Upkeep == upkeep < MaxUpkeep /\ upkeep' = upkeep + 1

-----------------------------------------------------------------------------
(* Reading a history                                                         *)

History(t, n) == {c \in storage : c.thread = t /\ c.ns = n}
Newest(C) == CHOOSE c \in C : \A d \in C : d.id <= c.id

\* c and its ancestors, as far as they are stored.
Lineage(C, c) ==
  LET up[i \in 0..MaxIds] ==
        UNION {{d} \cup up[d.parent] : d \in {e \in C : e.id = i}}
  IN up[c.id]

\* Blob b holds the value of its channel at checkpoint c.
IsValueAt(b, c) ==
  /\ b.version = c.versions[b.channel] /\ b.kind = "value"
  /\ b.thread = c.thread /\ b.ns = c.ns
Materialized(c, ch) == \E b \in blobs : b.channel = ch /\ IsValueAt(b, c)

-----------------------------------------------------------------------------
(* Writers: a run or a state update loads a checkpoint, the newest or, to    *)
(* fork, an older one, and works on from it, until it stops and the next one *)
(* starts.                                                                   *)

Load(w, t, n, r) ==
  /\ made < MaxIds  \* bound: one that could put nothing is of no interest
  /\ \E base \in {[id |-> 0, versions |-> NoVersions]} \cup History(t, n) :
       /\ base.id = 0 => History(t, n) = {}
       /\ writer' = [writer EXCEPT ![w] =
            [pc |-> "busy", thread |-> t, ns |-> n, run |-> r,
             base |-> base.id, versions |-> base.versions]]
  /\ UNCHANGED <<data, tracked, total, made, upkeep>>

\* The accounting of put: what the checkpoint and the blobs of new_versions took
\* before, and what they take now.
Replaced_BlobsForgotten(c, new) == Bytes({d \in storage : SameKey(d, c)})
Replaced(c, new) ==
  Bytes({d \in storage : SameKey(d, c)})
    + Bytes({b \in blobs : b.thread = c.thread /\ b.ns = c.ns /\ b.version = c.id
                             /\ b.channel \in {x.channel : x \in new}})
Fresh(c) == ~ \E d \in storage : SameKey(d, c)

Store(c, new) ==
  /\ storage' = {d \in storage : ~SameKey(d, c)} \cup {c}
  /\ blobs' = {b \in blobs : ~ \E x \in new : /\ b.thread = x.thread /\ b.ns = x.ns
                                              /\ b.channel = x.channel /\ b.version = x.version}
                \cup new
  /\ Adjust(c.thread, c.size + Bytes(new) - Replaced(c, new), IF Fresh(c) THEN 1 ELSE 0)

\* put: a new checkpoint on top of what the writer has.  The channels in `changed`
\* get a new version; those in `full` are stored with their value.
Put(w) ==
  /\ writer[w] # Away /\ made < MaxIds
  /\ made' = made + 1
  /\ \E changed \in SUBSET Channels, size \in Sizes : \E full \in SUBSET changed :
       LET versions == [ch \in Channels |-> IF ch \in changed THEN made + 1
                                            ELSE writer[w].versions[ch]]
           c == [thread |-> writer[w].thread, ns |-> writer[w].ns, id |-> made + 1,
                 parent |-> writer[w].base, run |-> writer[w].run,
                 versions |-> versions, size |-> size]
       IN /\ Store(c, {[thread |-> c.thread, ns |-> c.ns, channel |-> ch, version |-> c.id,
                        kind |-> IF ch \in full THEN "value" ELSE "empty", size |-> size]
                       : ch \in changed})
          /\ writer' = [writer EXCEPT ![w].base = c.id, ![w].versions = versions]
  /\ UNCHANGED <<writes, upkeep>>

\* put of a checkpoint that is there already, with payloads of another size.
PutAgain(w) ==
  /\ writer[w] # Away /\ Upkeep
  /\ \E c \in History(writer[w].thread, writer[w].ns), size \in NewSizes :
       /\ c.id = writer[w].base /\ c.run = writer[w].run
       /\ Store([c EXCEPT !.size = size],
                {[b EXCEPT !.size = size] : b \in {x \in blobs :
                   x.thread = c.thread /\ x.ns = c.ns /\ x.version = c.id}})
  /\ UNCHANGED <<writes, made, writer>>

\* put_writes: the group of the writer's checkpoint gets writes of some size.
PutWrites(w) ==
  /\ writer[w] # Away /\ writer[w].base # 0
  /\ \E size \in 1..MaxWrites :
       LET old == {x \in writes : x.thread = writer[w].thread /\ x.ns = writer[w].ns
                                    /\ x.id = writer[w].base}
           group == [thread |-> writer[w].thread, ns |-> writer[w].ns,
                     id |-> writer[w].base, size |-> size]
       IN /\ old # {} \/ Cardinality(writes) < MaxGroups
          /\ writes' = (writes \ old) \cup {group}
          /\ Adjust(group.thread, size - Bytes(old), 0)
  /\ UNCHANGED <<storage, blobs, made, upkeep, writer>>

-----------------------------------------------------------------------------
(* Maintenance                                                               *)

\* prune, keep_latest: from the newest checkpoint the walk goes up as long as some
\* channel is without a value.
Needed(c) == {ch \in Channels : c.versions[ch] # 0 /\ ~Materialized(c, ch)}

Kept_NewestOnly(C) == {Newest(C)}
Kept_FirstFound(C) ==
  LET newest == Newest(C)
      ancestors == Lineage(C, newest) \ {newest}
  IN {newest} \cup {d \in ancestors : \A ch \in Needed(newest) :
       \A e \in ancestors : e.id > d.id => ~Materialized(e, ch)}
Kept(C) ==
  LET newest == Newest(C)
      ancestors == Lineage(C, newest) \ {newest}
  IN {newest} \cup {d \in ancestors : \E ch \in Needed(newest) :
       \A e \in ancestors : e.id > d.id => ~Materialized(e, ch)}

KeptOf(t) == UNION {Kept(History(t, n)) : n \in {m \in Namespaces : History(t, m) # {}}}

\* The writes and blobs that the kept checkpoints of a thread refer to.
StillWritten(g, K) == \E c \in K : c.ns = g.ns /\ c.id = g.id
StillNamed(b, K) == \E c \in K : c.ns = b.ns /\ c.versions[b.channel] = b.version

\* A thread without an entry in storage is passed over, which is no step; an entry
\* may also hold empty namespaces, and then only writes and blobs go.
Prune(t) ==
  /\ Upkeep
  /\ LET K == KeptOf(t)
         oldC == Of(storage, t) \ K
         oldW == {g \in Of(writes, t) : ~StillWritten(g, K)}
         oldB == {b \in Of(blobs, t) : ~StillNamed(b, K)}
     IN /\ storage' = storage \ oldC
        /\ writes' = writes \ oldW
        /\ blobs' = blobs \ oldB
        /\ Adjust(t, 0 - (Bytes(oldC) + Bytes(oldW) + Bytes(oldB)), 0 - Cardinality(oldC))
  /\ UNCHANGED <<made, writer>>

\* delete_thread, and prune with strategy "delete".
DeleteThread(t) ==
  /\ Upkeep
  /\ storage' = storage \ Of(storage, t)
  /\ writes' = writes \ Of(writes, t)
  /\ blobs' = blobs \ Of(blobs, t)
  /\ SetEstimate(t, Nothing)
  /\ UNCHANGED <<made, writer>>

\* clear, called by /internal/truncate in a thread of its own; taken as one step.
Clear ==
  /\ Upkeep
  /\ storage' = {} /\ writes' = {} /\ blobs' = {}
  /\ tracked' = [t \in Threads |-> Nothing] /\ total' = Nothing
  /\ UNCHANGED <<made, writer>>

\* Runs.delete: the checkpoints of the run go, its writes and blobs stay.
DeleteRun(t, r) ==
  LET gone == {c \in Of(storage, t) : c.run = r}
  IN /\ gone # {} /\ Upkeep
     /\ storage' = storage \ gone
     /\ Adjust(t, 0 - Bytes(gone), 0 - Cardinality(gone))
     /\ UNCHANGED <<writes, blobs, made, writer>>

\* Threads.copy to a thread id that was never used.
Unused(t) ==
  /\ Of(storage, t) = {} /\ Of(writes, t) = {} /\ Of(blobs, t) = {}
  /\ \A w \in Writers : writer[w] # Away => writer[w].thread # t
Moved(S, s, t) == {[x EXCEPT !.thread = t] : x \in Of(S, s)}
MovedBlobs_Forgotten(s, t) == {}
MovedBlobs(s, t) == Moved(blobs, s, t)

Copy(s, t) ==
  /\ Upkeep /\ Unused(t) /\ s # t
  /\ storage' = storage \cup Moved(storage, s, t)
  /\ writes' = writes \cup Moved(writes, s, t)
  /\ blobs' = blobs \cup MovedBlobs(s, t)
  /\ SetEstimate(t, tracked[s])
  /\ UNCHANGED <<made, writer>>

\* The process starts again on what was flushed; the estimates are built anew.
Restart ==
  /\ Upkeep
  /\ tracked' = [t \in Threads |-> Held(t)]
  /\ total' = [bytes |-> Bytes(storage) + Bytes(writes) + Bytes(blobs),
               count |-> Cardinality(storage)]
  /\ writer' = [w \in Writers |-> Away]
  /\ UNCHANGED <<data, made>>

-----------------------------------------------------------------------------
Next ==
  \/ \E w \in Writers : Put(w) \/ PutAgain(w) \/ PutWrites(w)
  \/ \E w \in Writers, t \in Used, n \in Namespaces, r \in RunIds : Load(w, t, n, r)
  \/ \E t \in Threads : Prune(t) \/ DeleteThread(t) \/ \E r \in RunIds : DeleteRun(t, r)
  \/ \E s, t \in Threads : Copy(s, t)
  \/ Clear \/ Restart

Spec == Init /\ [][Next]_vars

-----------------------------------------------------------------------------
(* Properties *)

\* The incremental estimates never drift from what is stored: not by overwriting,
\* pruning, copying or deleting, nor by a write after its thread was deleted.
SizesAgree ==
  /\ \A t \in Threads : tracked[t] = Held(t)
  /\ total.bytes = Bytes(storage) + Bytes(writes) + Bytes(blobs)
  /\ total.count = Cardinality(storage)

\* Histories grow: a checkpoint comes after its parent and has a version of each channel
\* that its parent has one of.  Writers go on from what is stored, if it still is.
HistoriesGrow ==
  /\ \A c \in storage : c.parent < c.id /\ c.id <= made
  /\ \A c, d \in storage :
       c.thread = d.thread /\ c.ns = d.ns /\ c.parent = d.id =>
         \A ch \in Channels : d.versions[ch] # 0 => c.versions[ch] # 0
  /\ \A b \in blobs : b.version <= made
  /\ \A w \in Writers : writer[w] # Away =>
       /\ writer[w].base <= made
       /\ \A d \in History(writer[w].thread, writer[w].ns) :
            d.id = writer[w].base => d.versions = writer[w].versions

\* What a reader rebuilds channel ch of checkpoint c from (external): the value of
\* the nearest checkpoint that has one, and the writes of the ancestors since;
\* nothing, if the channel has no version.
Rebuilt(C, c, ch) ==
  LET line == Lineage(C, c)
      full == {d \in line : Materialized(d, ch)}
      from == IF full = {} THEN 0 ELSE Newest(full).id
  IN [value |-> {[version |-> b.version, size |-> b.size] :
                   b \in {x \in blobs : x.channel = ch /\ \E d \in full : d.id = from /\ IsValueAt(x, d)}},
      log |-> {[id |-> g.id, size |-> g.size] : g \in {h \in writes :
                 /\ c.versions[ch] # 0 /\ h.thread = c.thread /\ h.ns = c.ns /\ h.id < c.id
                 /\ \E d \in line : d.id = h.id /\ d.id >= from}}]

\* The state of a thread as a client sees it: the newest checkpoint of a namespace,
\* its channels, and its pending writes.
State(t, n) ==
  LET C == History(t, n)
  IN IF C = {} THEN [id |-> 0]
     ELSE [id |-> Newest(C).id,
           channels |-> [ch \in Channels |-> Rebuilt(C, Newest(C), ch)],
           pending |-> {g.size : g \in {h \in Of(writes, t) : h.ns = n /\ h.id = Newest(C).id}}]

\* Pruning keeps the state of every namespace, of the thread and of all others.
PruneKeepsState ==
  [][\A s \in Threads : Prune(s) =>
       \A t \in Threads, n \in Namespaces : State(t, n)' = State(t, n)]_data

\* A copy has the state of its original.
CopyHasState ==
  [][\A s, t \in Threads : Copy(s, t) => \A n \in Namespaces : State(t, n)' = State(s, n)]_data

\* The newest checkpoint can be rebuilt: on the way up every channel is found with a
\* value, or before its first version.
Whole(t, n) ==
  LET C == History(t, n)
      line == Lineage(C, Newest(C))
  IN C # {} => \A ch \in Channels : \E d \in line :
       Materialized(d, ch) \/ d.versions[ch] = 0 \/ d.parent = 0

\* Only the deletion of a run, a copy of such a state, or a writer that does not
\* continue the newest checkpoint can leave a state that cannot be rebuilt.
StaysWhole ==
  [][\A t \in Threads, n \in Namespaces : Whole(t, n) =>
       \/ Whole(t, n)'
       \/ \E r \in RunIds : DeleteRun(t, r)
       \/ \E s \in Threads : Copy(s, t) /\ ~Whole(s, n)
       \/ \E w \in Writers : /\ writer[w] # Away /\ writer'[w] # writer[w]
                             /\ writer[w].thread = t /\ writer[w].ns = n
                             /\ \/ History(t, n) = {}
                                \/ writer[w].base # Newest(History(t, n)).id]_data

=============================================================================
