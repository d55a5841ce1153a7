----------------------------- MODULE Persistence -----------------------------
(***************************************************************************)
(* The files of the runtime and the process that reads and writes them:    *)
(* the dictionaries registered for flushing and the flush thread           *)
(* (_persistence.py), start_pool and stop_pool (database.py), the long-    *)
(* term store and its reconfiguration (store.py) and the savers that       *)
(* Checkpointer() makes (checkpoint.py).                                   *)
(*                                                                         *)
(* There is one file of each kind: "ops" for GLOBAL_STORE, "store" for the *)
(* long-term store, "ckpt" for the checkpointer.  What a dictionary or a   *)
(* file holds is the number of writes it contains; 0 is empty.  The flush  *)
(* thread, the threads that make savers and the event loop interleave; the *)
(* flush thread does between its test of a dictionary and its dump of it,  *)
(* and both it and a close() between the dump and the rename.  A dump is   *)
(* one step: two that overlap in one temporary file write the same.        *)
(* Time is left out: a pass of the flush thread may begin whenever the     *)
(* thread waits, except while the server stops, which is assumed to take   *)
(* less than the flush interval.                                           *)
(***************************************************************************)
EXTENDS Integers

CONSTANTS
  MaxWrites,  \* bound: writes a dictionary holds
  MaxBoots,   \* bound: times the process is started
  Ops         \* what the process of this instance does besides writing

ASSUME BoundAssumption == MaxWrites \in Nat /\ MaxBoots \in Nat

Files == {"ops", "store", "ckpt"}

VARIABLES
  pc,        \* where the process is between start and stop
  saver,     \* MEMORY, the process's checkpointer
  temp,      \* a saver made with an unpack_hook
  content,   \* what the dictionary in use for each file holds
  loaded,    \* what the dictionary of the temporary saver holds
  registry,  \* _stores: the dictionary registered for each file
  flusher,   \* the flush thread
  scratch,   \* the temporary files: those that are written, and not renamed yet
  disk,      \* the files
  kept,      \* history: what was in memory when the stop began
  boots      \* starts so far

memory == <<saver, temp, content, loaded>>
filesVars == <<pc, memory, registry, flusher, scratch, disk, kept, boots>>

-----------------------------------------------------------------------------
(* Types *)

Content == 0..MaxWrites
\* "retired" is the dictionary of the store that was closed for a new one, and "dead" a
\* weak reference whose dictionary is gone.
Registered == {"none", "used", "retired", "temporary", "dead"}

FilesTypeOK ==
  /\ pc \in {"down", "loadstore", "config", "closing", "replace", "reload", "loadops", "register",
             "up", "closeops", "closestore", "closesaver", "stopped"}
  /\ saver \in {"none", "loading", "up"}
  /\ temp \in {"none", "loading", "up"}
  /\ content \in [Files -> Content] /\ loaded \in Content
  /\ registry \in [Files -> Registered]
  /\ flusher \in [pc : {"none", "wait", "pass", "held", "write", "failed"}, todo : SUBSET Files,
                  drop : SUBSET Files, file : Files, of : Registered, dumped : Content]
  /\ scratch \subseteq Files
  /\ disk \in [Files -> Content]
  /\ kept \in [Files -> Content]
  /\ boots \in 0..MaxBoots

-----------------------------------------------------------------------------
Empty == [f \in Files |-> 0]
NoFlusher ==
  [pc |-> "none", todo |-> {}, drop |-> {}, file |-> "ops", of |-> "none", dumped |-> 0]

FilesInit ==
  /\ pc = "down" /\ saver = "none" /\ temp = "none"
  /\ content = Empty /\ loaded = 0
  /\ registry = [f \in Files |-> "none"]
  /\ flusher = NoFlusher /\ scratch = {}
  /\ disk = Empty /\ kept = Empty /\ boots = 0

\* register_persistent_dict: the dictionary replaces another one of the same file
\* name, and the flush thread is started unless there is one, dead or alive.
Registers(f, d) ==
  /\ registry' = [registry EXCEPT ![f] = d]
  /\ flusher' = IF flusher.pc = "none" THEN [flusher EXCEPT !.pc = "wait"] ELSE flusher

\* PersistentDict.close: the file is written and the dictionary emptied.  At a stop,
\* where no flush is under way, this is one step.
Closes(f) ==
  /\ disk' = [disk EXCEPT ![f] = content[f]]
  /\ content' = [content EXCEPT ![f] = 0]

\* The process is gone, and all that was in memory.  A temporary file it leaves is
\* overwritten by the next dump.
Gone ==
  /\ pc' = "down" /\ saver' = "none" /\ temp' = "none"
  /\ content' = Empty /\ loaded' = 0
  /\ registry' = [f \in Files |-> "none"]
  /\ flusher' = NoFlusher /\ scratch' = {} /\ kept' = Empty

-----------------------------------------------------------------------------
(* Start: import of store.py, set_store_config, start_pool *)

ImportStore ==
  /\ pc = "down" /\ boots < MaxBoots
  /\ boots' = boots + 1 /\ pc' = "loadstore"
  /\ Registers("store", "used")
  /\ UNCHANGED <<memory, scratch, disk, kept>>

LoadStore ==
  /\ pc = "loadstore"
  /\ content' = [content EXCEPT !["store"] = disk["store"]]
  /\ pc' = "config"
  /\ UNCHANGED <<saver, temp, loaded, registry, flusher, scratch, disk, kept, boots>>

\* Without a store configuration the store stays; with one it is closed: dumped into
\* the temporary file, which then takes the place of the file, and emptied.  It stays
\* registered until the new one takes its place.
KeepStore ==
  /\ pc = "config" /\ pc' = "loadops"
  /\ UNCHANGED <<memory, registry, flusher, scratch, disk, kept, boots>>
CloseOldStore ==
  /\ "configure" \in Ops
  /\ pc = "config" /\ pc' = "closing"
  /\ scratch' = scratch \cup {"store"}
  /\ UNCHANGED <<memory, registry, flusher, disk, kept, boots>>
\* The flush thread, where it has passed its test, holds the dictionary emptied here.
OldStoreClosed ==
  /\ pc = "closing" /\ "store" \in scratch
  /\ pc' = "replace" /\ scratch' = scratch \ {"store"}
  /\ Closes("store")
  /\ registry' = [registry EXCEPT !["store"] = "retired"]
  /\ flusher' = IF flusher.of = "used" /\ flusher.file = "store"
                THEN [flusher EXCEPT !.of = "retired"] ELSE flusher
  /\ UNCHANGED <<saver, temp, loaded, kept, boots>>
\* A flush has renamed the temporary file they share: start_pool raises.
CloseFindsNoFile ==
  /\ pc = "closing" /\ "store" \notin scratch
  /\ Gone
  /\ UNCHANGED <<disk, boots>>

RegisterNewStore ==
  /\ pc = "replace" /\ pc' = "reload"
  /\ Registers("store", "used")
  /\ UNCHANGED <<memory, scratch, disk, kept, boots>>

LoadNewStore ==
  /\ pc = "reload"
  /\ content' = [content EXCEPT !["store"] = disk["store"]]
  /\ pc' = "loadops"
  /\ UNCHANGED <<saver, temp, loaded, registry, flusher, scratch, disk, kept, boots>>

\* GLOBAL_STORE, made empty at import, is loaded first and registered then.
LoadOps ==
  /\ pc = "loadops"
  /\ content' = [content EXCEPT !["ops"] = disk["ops"]]
  /\ pc' = "register"
  /\ UNCHANGED <<saver, temp, loaded, registry, flusher, scratch, disk, kept, boots>>
\* A file that cannot be read is removed, and that of the retry counter with it:
\* the start goes on without them, or fails where the second one does not exist.
LoadOpsFails ==
  /\ "unreadable" \in Ops
  /\ pc = "loadops"
  /\ disk' = [disk EXCEPT !["ops"] = 0]
  /\ \/ pc' = "register" /\ UNCHANGED <<memory, registry, flusher, scratch, kept>>
     \/ Gone
  /\ UNCHANGED boots
RegisterOps ==
  /\ pc = "register" /\ pc' = "up"
  /\ Registers("ops", "used")
  /\ UNCHANGED <<memory, scratch, disk, kept, boots>>

-----------------------------------------------------------------------------
(* Checkpointer() *)

\* The first call makes MEMORY: its dictionary is registered, then loaded.
MakeSaver ==
  /\ pc = "up" /\ saver = "none"
  /\ saver' = "loading"
  /\ Registers("ckpt", "used")
  /\ UNCHANGED <<pc, temp, content, loaded, scratch, disk, kept, boots>>
LoadSaver ==
  /\ saver = "loading"
  /\ saver' = "up"
  /\ content' = [content EXCEPT !["ckpt"] = disk["ckpt"]]
  /\ UNCHANGED <<pc, temp, loaded, registry, flusher, scratch, disk, kept, boots>>

\* A call with an unpack_hook (State.get, State.list) makes a second saver in a
\* thread of its own.  Its dictionary takes MEMORY's place in the registry and
\* loads the file; its fields are then pointed at MEMORY's dictionaries, and its
\* own are gone when the saver is, or with the next garbage collection.
MakeTemporary ==
  /\ "read" \in Ops
  /\ pc \in {"up", "closeops", "closestore", "closesaver"} /\ saver = "up" /\ temp = "none"
  /\ temp' = "loading" /\ loaded' = 0
  /\ Registers("ckpt", "temporary")
  /\ UNCHANGED <<pc, saver, content, scratch, disk, kept, boots>>
LoadTemporary ==
  /\ temp = "loading"
  /\ temp' = "up" /\ loaded' = disk["ckpt"]
  /\ UNCHANGED <<pc, saver, content, registry, flusher, scratch, disk, kept, boots>>
DropTemporary ==
  /\ temp = "up"
  /\ temp' = "none"
  /\ registry' = [registry EXCEPT !["ckpt"] = IF @ = "temporary" THEN "dead" ELSE @]
  /\ UNCHANGED <<pc, saver, content, loaded, flusher, scratch, disk, kept, boots>>

Write(f) ==
  /\ pc = "up" /\ content[f] < MaxWrites
  /\ f = "ckpt" => saver = "up"
  /\ content' = [content EXCEPT ![f] = @ + 1]
  /\ UNCHANGED <<pc, saver, temp, loaded, registry, flusher, scratch, disk, kept, boots>>

-----------------------------------------------------------------------------
(* The flush thread *)

Stopping == pc \in {"closeops", "closestore", "closesaver", "stopped"}

FlushBegins ==
  /\ flusher.pc = "wait" /\ ~Stopping
  /\ flusher' = [flusher EXCEPT !.pc = "pass", !.todo = {f \in Files : registry[f] # "none"}]
  /\ UNCHANGED <<pc, memory, registry, scratch, disk, kept, boots>>

\* What the dictionary registered for f holds.
Holds(f) ==
  IF registry[f] = "retired" THEN 0 ELSE IF registry[f] = "temporary" THEN loaded ELSE content[f]

\* The loop takes an empty dictionary for one that is gone: both are falsy.
\* GLOBAL_STORE is never empty, its clear() puts empty lists back.
\* (X_Y, placed before X, is X with a plausible defect; the model never uses it.)
Falsy_OnlyDead(f) == registry[f] = "dead"
Falsy_Always(f) == registry[f] = "dead" \/ Holds(f) = 0
Falsy(f) == registry[f] = "dead" \/ (f # "ops" /\ Holds(f) = 0)

\* if store := _stores[store_key](): the dictionary is not empty now.
Look(f) ==
  /\ flusher.pc = "pass" /\ f \in flusher.todo
  /\ ~Falsy(f)
  /\ flusher' = [flusher EXCEPT !.pc = "held", !.todo = @ \ {f},
                               !.file = f, !.of = registry[f], !.dumped = Holds(f)]
  /\ UNCHANGED <<pc, memory, registry, scratch, disk, kept, boots>>

\* What the dictionary that the loop got holds now: a temporary saver's does not change
\* once it is loaded.
Held ==
  IF flusher.of = "retired" THEN 0
  ELSE IF flusher.of = "temporary" THEN flusher.dumped ELSE content[flusher.file]

\* store.sync(): the dictionary is dumped into the temporary file, which then takes the
\* place of the file; or, where close() has moved it away, the exception ends the thread.
Dump ==
  /\ flusher.pc = "held"
  /\ flusher' = [flusher EXCEPT !.pc = "write", !.dumped = Held]
  /\ scratch' = scratch \cup {flusher.file}
  /\ UNCHANGED <<pc, memory, registry, disk, kept, boots>>
Rename ==
  /\ flusher.pc = "write" /\ flusher.file \in scratch
  /\ disk' = [disk EXCEPT ![flusher.file] = flusher.dumped]
  /\ scratch' = scratch \ {flusher.file}
  /\ flusher' = [flusher EXCEPT !.pc = "pass", !.of = "none"]
  /\ UNCHANGED <<pc, memory, registry, kept, boots>>
RenameFindsNoFile ==
  /\ flusher.pc = "write" /\ flusher.file \notin scratch
  /\ flusher' = [flusher EXCEPT !.pc = "failed"]
  /\ UNCHANGED <<pc, memory, registry, scratch, disk, kept, boots>>

\* An entry found falsy is deleted when the pass ends, whatever has been written
\* into the dictionary or registered under its name since.
Drop(f) ==
  /\ flusher.pc = "pass" /\ f \in flusher.todo
  /\ Falsy(f)
  /\ flusher' = [flusher EXCEPT !.todo = @ \ {f}, !.drop = @ \cup {f}]
  /\ UNCHANGED <<pc, memory, registry, scratch, disk, kept, boots>>

FlushEnds ==
  /\ flusher.pc = "pass" /\ flusher.todo = {}
  /\ registry' = [f \in Files |-> IF f \in flusher.drop THEN "none" ELSE registry[f]]
  /\ flusher' = [flusher EXCEPT !.pc = "wait", !.drop = {}]
  /\ UNCHANGED <<pc, memory, scratch, disk, kept, boots>>

\* Pickling meets a dictionary whose size changes: the exception ends the thread.
FlushFails ==
  /\ "fail" \in Ops
  /\ flusher.pc = "held"
  /\ flusher' = [flusher EXCEPT !.pc = "failed"]
  /\ UNCHANGED <<pc, memory, registry, scratch, disk, kept, boots>>

-----------------------------------------------------------------------------
(* stop_pool, and the end of the process *)

\* stop_flush_loop joins the thread, which ends a pass it has begun.  No saver is
\* being made for the first time by then (assumed).
StopBegins ==
  /\ "stop" \in Ops
  /\ pc = "up" /\ saver # "loading"
  /\ pc' = "closeops"
  /\ kept' = [f \in Files |-> IF f = "ckpt" /\ saver = "none" THEN disk[f] ELSE content[f]]
  /\ UNCHANGED <<memory, registry, scratch, disk, boots>>
StopFlushing_NotJoined == StopBegins /\ UNCHANGED flusher
StopFlushing ==
  /\ flusher.pc \in {"none", "wait", "failed"}
  /\ StopBegins
  /\ flusher' = NoFlusher

CloseOps ==
  /\ pc = "closeops" /\ pc' = "closestore"
  /\ Closes("ops")
  /\ UNCHANGED <<saver, temp, loaded, registry, flusher, scratch, kept, boots>>
CloseStore ==
  /\ pc = "closestore" /\ pc' = "closesaver"
  /\ Closes("store")
  /\ UNCHANGED <<saver, temp, loaded, registry, flusher, scratch, kept, boots>>

\* async with Checkpointer(): MEMORY, made and loaded here if nothing has asked for
\* it yet, is closed after the flush thread that a registration may have started.
CloseSaver ==
  /\ pc = "closesaver" /\ pc' = "stopped"
  /\ flusher' = NoFlusher
  /\ IF saver = "up" THEN Closes("ckpt") ELSE UNCHANGED <<content, disk>>
  /\ UNCHANGED <<saver, temp, loaded, registry, scratch, kept, boots>>

Exit == pc = "stopped" /\ Gone /\ UNCHANGED <<disk, boots>>
Crash ==
  /\ "crash" \in Ops
  /\ pc \notin {"down", "stopped"}
  /\ Gone
  /\ UNCHANGED <<disk, boots>>

-----------------------------------------------------------------------------
Boot ==
  ImportStore \/ LoadStore \/ KeepStore \/ CloseOldStore \/ OldStoreClosed \/ CloseFindsNoFile
    \/ RegisterNewStore \/ LoadNewStore \/ LoadOps \/ LoadOpsFails \/ RegisterOps
Checkpointers ==
  MakeSaver \/ LoadSaver \/ MakeTemporary \/ LoadTemporary \/ DropTemporary
FlushLoop ==
  FlushBegins \/ Dump \/ Rename \/ RenameFindsNoFile \/ FlushEnds \/ FlushFails
    \/ \E f \in Files : Look(f) \/ Drop(f)
Stop == StopFlushing \/ CloseOps \/ CloseStore \/ CloseSaver

FilesNext ==
  Boot \/ Checkpointers \/ FlushLoop \/ Stop \/ Exit \/ Crash \/ \E f \in Files : Write(f)

FilesSpec == FilesInit /\ [][FilesNext]_filesVars

\* The flush thread runs as long as it lives, and takes each file of a pass.
FilesFairSpec == FilesSpec /\ WF_filesVars(FlushLoop)

-----------------------------------------------------------------------------
(* Properties *)

\* After an orderly stop the files hold what was in memory when the stop began,
\* whichever savers took MEMORY's place in the registry, whether or not the flush
\* thread was alive, and although a closed dictionary is empty and still
\* registered (stop_pool).
CleanStopSaves == pc = "stopped" => disk = kept

\* The one dump that takes something away: the store was closed for a new one between
\* the test of its dictionary and the dump of it.
DumpsRetired == Rename /\ flusher.of = "retired"

\* Runs, threads, assistants, crons and items that have reached their file stay in
\* it, through crashes at any point of a start, a replacement of the store, a flush
\* or a stop: no flush writes a dictionary that is not loaded yet, and none one that is
\* emptied already, but for the store's where start_pool closes it between the flush
\* thread's test and its dump.  Of the steps here start_pool alone removes a file, one
\* that it cannot read; the testing route that truncates is left out.
SavedStaysSaved ==
  [][\/ LoadOpsFails
     \/ /\ disk'["ops"] >= disk["ops"]
        /\ DumpsRetired \/ disk'["store"] >= disk["store"]]_filesVars

\* What the two properties above rest on.  No pass of the flush thread is under way
\* while the server stops.
QuietStop == Stopping => flusher.pc \in {"none", "wait"} /\ saver # "loading"

\* Nothing writes to the store's dictionary until the server is up: until it is closed it
\* is as its file, and while the new one is not loaded there is nothing in it.  Once
\* loaded a dictionary has no less than its file.  GLOBAL_STORE is not registered before.
Booting ==
  {"down", "loadstore", "config", "closing", "replace", "reload", "loadops", "register"}
LoadedCoversDisk ==
  /\ registry["store"] \in {"none", "used", "retired"} /\ registry["ops"] \in {"none", "used"}
  /\ registry["ckpt"] # "retired"
  /\ pc \in {"down", "loadstore", "replace", "reload"} => content["store"] = 0
  /\ pc \in {"config", "closing"} => content["store"] = disk["store"]
  /\ pc \in {"loadops", "register", "up", "closeops", "closestore"} =>
       content["store"] >= disk["store"]
  /\ pc \in {"register", "up", "closeops"} => content["ops"] >= disk["ops"]
  /\ registry["ops"] = "used" => pc \notin Booting
  /\ flusher.pc \in {"pass", "held", "write"} =>
       \A f \in {"ops", "store"} \cap flusher.todo : registry[f] # "none"

\* The dictionary the flush thread holds is the one in use, or the store's that was closed
\* for another; a dump of the former that can still be renamed is not older than its file.
DumpCoversDisk ==
  /\ flusher.pc \in {"held", "write"} /\ flusher.file = "store" =>
       IF flusher.of = "retired" THEN pc \in {"replace", "reload", "loadops", "register", "up"}
       ELSE flusher.of = "used" /\ pc \in {"config", "closing", "loadops", "register", "up"}
  /\ flusher.pc \in {"held", "write"} /\ flusher.file = "ops" => flusher.of = "used" /\ pc = "up"
  /\ flusher.pc \in {"held", "write"} /\ flusher.file = "ckpt" => flusher.of # "retired"
  /\ flusher.pc = "write" /\ flusher.of = "used" /\ flusher.file # "ckpt" =>
       flusher.dumped \in disk[flusher.file]..content[flusher.file]
  /\ flusher.pc = "write" /\ flusher.of = "retired" /\ flusher.file \in scratch =>
       flusher.dumped = 0

\* While the server stops, what the stop began with is in memory, or in the file.
StopKeeps ==
  Stopping =>
    /\ kept["ops"] = IF pc = "closeops" THEN content["ops"] ELSE disk["ops"]
    /\ kept["store"] = IF pc \in {"closeops", "closestore"} THEN content["store"] ELSE disk["store"]
    /\ kept["ckpt"] = IF pc # "stopped" /\ saver = "up" THEN content["ckpt"] ELSE disk["ckpt"]

\* The inductive invariant of the files.
FilesInv == FilesTypeOK /\ QuietStop /\ LoadedCoversDisk /\ DumpCoversDisk /\ StopKeeps

\* "Periodic flushing": what a dictionary holds reaches its file while the server
\* is up, unless an exception has ended the flush thread.
ReachesDisk(f) ==
  \A v \in 1..MaxWrites :
    (pc = "up" /\ content[f] >= v) ~> (disk[f] >= v \/ pc # "up" \/ flusher.pc = "failed")

\* Runs, threads, assistants and crons are flushed although the flush loop drops
\* what it finds empty, and whatever happens to the other dictionaries.
OpsAreFlushed == ReachesDisk("ops")

=============================================================================
