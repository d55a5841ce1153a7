---------------------------- MODULE DurableProofs ----------------------------
(***************************************************************************)
(* Proofs about what outlives the process: the files, written and read by  *)
(* Persistence, and the lists of assistants, versions and crons that the   *)
(* file of GLOBAL_STORE holds, in Assistants.  The two are proved about    *)
(* side by side, for any values of the constants of each; neither uses a   *)
(* fact or an assumption of the other.                                     *)
(*                                                                         *)
(* Of the files: what an orderly stop leaves in them, and that no flush    *)
(* takes anything away but in the one case SavedStaysSaved names, from the *)
(* inductive invariant FilesInv.  A flush could take something away by     *)
(* dumping a dictionary that is not loaded: such a dictionary is empty,    *)
(* which the loop takes for gone, or is GLOBAL_STORE, registered late      *)
(* (LoadedCoversDisk).  It could rename an old dump over a newer file: one *)
(* that the close of the store overtook finds no temporary file            *)
(* (DumpCoversDisk), and a stop comes after the flush thread was joined    *)
(* (QuietStop).  It can dump the store's dictionary that was closed after  *)
(* the test of it.                                                         *)
(*                                                                         *)
(* Of the lists: the versions of an assistant are 1, 2, ..., and nothing   *)
(* is left of what is deleted, from the inductive invariant AllInv.  Lists *)
(* are compared assistant by assistant: SameRecords says that two of them  *)
(* hold the same records of one assistant, in whatever places.  An         *)
(* operation on one assistant, a start or a truncation leaves the records  *)
(* of the others the same, and what is said of these carries over.         *)
(***************************************************************************)
EXTENDS Persistence, Assistants, FiniteSetTheorems, SequenceTheorems, WellFoundedInduction,
        TLAPS

-----------------------------------------------------------------------------
(* The files                                                                 *)


LEMMA InitFiles == FilesInit => FilesInv
BY BoundAssumption
   DEF FilesInit, FilesInv, FilesTypeOK, QuietStop, LoadedCoversDisk, DumpCoversDisk, StopKeeps,
       Stopping, Booting, Empty, NoFlusher, Files, Content, Registered

\* Import, configuration and start_pool.
LEMMA StartKeeps == FilesInv /\ Boot => FilesInv'
<1> SUFFICES ASSUME FilesInv, Boot PROVE FilesInv'
  OBVIOUS
<1> USE BoundAssumption
    DEF FilesInv, FilesTypeOK, QuietStop, LoadedCoversDisk, DumpCoversDisk, StopKeeps,
        Stopping, Booting, Files, Content, Registered, memory
<1>1. CASE ImportStore
  BY <1>1 DEF ImportStore, Registers
<1>2. CASE LoadStore
  BY <1>2 DEF LoadStore
<1>3. CASE KeepStore
  BY <1>3 DEF KeepStore
<1>4. CASE CloseOldStore
  BY <1>4 DEF CloseOldStore
<1>10. CASE OldStoreClosed
  BY <1>10 DEF OldStoreClosed, Closes
<1>11. CASE CloseFindsNoFile
  BY <1>11 DEF CloseFindsNoFile, Gone, Empty, NoFlusher
<1>5. CASE RegisterNewStore
  BY <1>5 DEF RegisterNewStore, Registers
<1>6. CASE LoadNewStore
  BY <1>6 DEF LoadNewStore
<1>7. CASE LoadOps
  BY <1>7 DEF LoadOps
<1>8. CASE LoadOpsFails
  <2>1. CASE Gone
    BY <1>8, <2>1 DEF LoadOpsFails, Gone, Empty, NoFlusher
  <2>2. CASE ~Gone
    <3>1. /\ disk' \in [Files -> Content] /\ pc' = "register"
          /\ disk'["ops"] = 0 /\ disk'["store"] = disk["store"] /\ disk'["ckpt"] = disk["ckpt"]
          /\ UNCHANGED <<memory, registry, flusher, scratch, kept, boots>>
      BY <1>8, <2>2 DEF LoadOpsFails
    <3>2. pc = "loadops"
      BY <1>8 DEF LoadOpsFails
    <3> QED  BY <3>1, <3>2
  <2> QED  BY <2>1, <2>2
<1>9. CASE RegisterOps
  BY <1>9 DEF RegisterOps, Registers
<1> QED
  BY <1>1, <1>2, <1>3, <1>4, <1>5, <1>6, <1>7, <1>8, <1>9, <1>10, <1>11 DEF Boot

\* The savers, and the writes of requests and runs.
LEMMA SaversKeep ==
  FilesInv /\ (Checkpointers \/ \E f \in Files : Write(f)) => FilesInv'
<1> SUFFICES ASSUME FilesInv, Checkpointers \/ \E f \in Files : Write(f) PROVE FilesInv'
  OBVIOUS
<1> USE BoundAssumption
    DEF FilesInv, FilesTypeOK, QuietStop, LoadedCoversDisk, DumpCoversDisk, StopKeeps,
        Stopping, Booting, Files, Content, Registered, memory
<1>1. CASE MakeSaver
  BY <1>1 DEF MakeSaver, Registers
<1>2. CASE LoadSaver
  BY <1>2 DEF LoadSaver
<1>3. CASE MakeTemporary
  BY <1>3 DEF MakeTemporary, Registers
<1>4. CASE LoadTemporary
  BY <1>4 DEF LoadTemporary
<1>5. CASE DropTemporary
  BY <1>5 DEF DropTemporary
<1>6. ASSUME NEW f \in Files, Write(f) PROVE FilesInv'
  BY <1>6 DEF Write
<1> QED  BY <1>1, <1>2, <1>3, <1>4, <1>5, <1>6 DEF Checkpointers

\* The flush thread.  No step of it is taken while the server stops, but for the end
\* of a pass that does not exist.
Flushers ==
  [pc : {"none", "wait", "pass", "held", "write", "failed"}, todo : SUBSET Files,
   drop : SUBSET Files, file : Files, of : Registered, dumped : Content]

LEMMA FlushKeeps == FilesInv /\ FlushLoop => FilesInv'
<1> SUFFICES ASSUME FilesInv, FlushLoop PROVE FilesInv'
  OBVIOUS
<1>f. flusher \in Flushers
  BY DEF FilesInv, FilesTypeOK, Flushers
<1>q. flusher.pc \in {"pass", "held", "write"} => ~Stopping
  BY DEF FilesInv, QuietStop
<1>1. ASSUME ~Stopping, UNCHANGED <<pc, memory, kept, boots>>, flusher' \in Flushers,
             scratch' \subseteq Files, registry' \in [Files -> Registered], disk' \in [Files -> Content],
             LoadedCoversDisk', DumpCoversDisk'
      PROVE  FilesInv'
  BY <1>1 DEF FilesInv, FilesTypeOK, Flushers, QuietStop, StopKeeps, Stopping, memory
<1>2. registry \in [Files -> Registered] /\ disk \in [Files -> Content] /\ scratch \subseteq Files
  BY DEF FilesInv, FilesTypeOK
<1>3. CASE FlushBegins
  <2>1. /\ flusher' \in Flushers /\ flusher'.pc = "pass"
        /\ flusher'.todo = {f \in Files : registry[f] # "none"}
    BY <1>3, <1>f DEF FlushBegins, Flushers
  <2>2. LoadedCoversDisk' /\ DumpCoversDisk'
    BY <1>3, <2>1 DEF FlushBegins, FilesInv, LoadedCoversDisk, DumpCoversDisk, memory
  <2> QED  BY <1>1, <1>2, <1>3, <2>1, <2>2 DEF FlushBegins
<1>4. CASE Rename
  <2>1. /\ flusher' \in Flushers /\ flusher'.pc = "pass" /\ flusher'.todo = flusher.todo
    BY <1>4, <1>f DEF Rename, Flushers, Registered
  <2>2. /\ scratch' \subseteq Files
        /\ disk' \in [Files -> Content]
        /\ \A f \in Files : disk'[f] = IF f = flusher.file THEN flusher.dumped ELSE disk[f]
    BY <1>2, <1>4, <1>f DEF Rename, Flushers
  <2>3. content["store"] \in Nat /\ content["ops"] \in Nat
    BY BoundAssumption DEF FilesInv, FilesTypeOK, Files, Content
  <2>4. LoadedCoversDisk'
    BY <1>4, <2>1, <2>2, <2>3, BoundAssumption
       DEF Rename, FilesInv, LoadedCoversDisk, DumpCoversDisk, memory, Files, Booting
  <2>5. DumpCoversDisk'
    BY <2>1 DEF DumpCoversDisk
  <2> QED  BY <1>1, <1>2, <1>4, <1>q, <2>1, <2>2, <2>4, <2>5 DEF Rename
<1>5. CASE FlushEnds
  <2>1. /\ flusher' \in Flushers /\ flusher'.pc = "wait"
    BY <1>5, <1>f DEF FlushEnds, Flushers
  <2>2. registry' \in [Files -> Registered]
    BY <1>2, <1>5 DEF FlushEnds, Registered
  <2>3. LoadedCoversDisk' /\ DumpCoversDisk'
    BY <1>5, <2>1 DEF FlushEnds, FilesInv, LoadedCoversDisk, DumpCoversDisk, memory, Files
  <2> QED  BY <1>1, <1>2, <1>5, <1>q, <2>1, <2>2, <2>3 DEF FlushEnds
<1>6. CASE FlushFails
  <2>1. /\ flusher' \in Flushers /\ flusher'.pc = "failed"
    BY <1>6, <1>f DEF FlushFails, Flushers
  <2>2. LoadedCoversDisk' /\ DumpCoversDisk'
    BY <1>6, <2>1 DEF FlushFails, FilesInv, LoadedCoversDisk, DumpCoversDisk, memory
  <2> QED  BY <1>1, <1>2, <1>6, <1>q, <2>1, <2>2 DEF FlushFails
<1>7. ASSUME NEW f \in Files, Look(f) PROVE FilesInv'
  <2>1. Holds(f) \in Content /\ registry[f] \in Registered
    BY BoundAssumption DEF Holds, FilesInv, FilesTypeOK, Content
  <2>2. /\ flusher' \in Flushers /\ flusher'.pc = "held" /\ flusher'.todo \subseteq flusher.todo
        /\ flusher'.file = f /\ flusher'.of = registry[f]
    BY <1>7, <1>f, <2>1 DEF Look, Flushers
  <2>3. content["store"] \in Nat
    BY BoundAssumption DEF FilesInv, FilesTypeOK, Files, Content
  <2>4. LoadedCoversDisk'
    BY <1>7, <2>2 DEF Look, FilesInv, LoadedCoversDisk, memory
  <2>5. pc \in Booting \/ pc = "up"
    BY <1>7, <1>q DEF Look, FilesInv, FilesTypeOK, Stopping, Booting
  <2>6. f \in {"store", "ops"} => registry[f] # "none"
    BY <1>7 DEF Look, FilesInv, LoadedCoversDisk
  <2>7. f = "store" => registry[f] = "used" /\ content["store"] # 0
    BY <1>7, <2>6 DEF Look, Falsy, Holds, FilesInv, LoadedCoversDisk
  <2>8. f = "ops" => pc = "up" /\ registry[f] = "used"
    BY <2>5, <2>6 DEF FilesInv, LoadedCoversDisk
  <2>9. DumpCoversDisk'
    BY <1>7, <2>2, <2>3, <2>5, <2>7, <2>8
       DEF Look, DumpCoversDisk, FilesInv, LoadedCoversDisk, Booting, memory
  <2> QED  BY <1>1, <1>2, <1>7, <1>q, <2>2, <2>4, <2>9 DEF Look
<1>9. CASE Dump
  <2>1. Held \in Content
    BY BoundAssumption DEF Held, FilesInv, FilesTypeOK, Content
  <2>2. /\ flusher' \in Flushers /\ flusher'.pc = "write" /\ flusher'.todo = flusher.todo
        /\ flusher'.file = flusher.file /\ flusher'.of = flusher.of /\ flusher'.dumped = Held
    BY <1>9, <1>f, <2>1 DEF Dump, Flushers
  <2>3. /\ scratch' \subseteq Files /\ flusher.file \in Files
    BY <1>2, <1>9, <1>f DEF Dump, Flushers
  <2>4. \A f \in Files : content[f] \in Nat /\ disk[f] \in Nat
    BY BoundAssumption DEF FilesInv, FilesTypeOK, Content
  <2>5. LoadedCoversDisk'
    BY <1>9, <2>2 DEF Dump, FilesInv, LoadedCoversDisk, memory
  <2>6. flusher.of = "used" => Held = content[flusher.file]
    BY DEF Held
  <2>7. flusher.of = "used" /\ flusher.file # "ckpt" =>
          disk[flusher.file] <= content[flusher.file]
    BY <1>9, <2>3, <2>4 DEF Dump, FilesInv, LoadedCoversDisk, DumpCoversDisk, Files
  <2>8. flusher.of = "retired" => Held = 0
    BY DEF Held
  <2>9. flusher.of = "retired" => flusher.file = "store"
    BY <1>9, <2>3 DEF Dump, FilesInv, DumpCoversDisk, Files
  <2>10. DumpCoversDisk'
    BY <1>9, <2>2, <2>3, <2>4, <2>6, <2>7, <2>8, <2>9
       DEF Dump, DumpCoversDisk, FilesInv, memory
  <2> QED  BY <1>1, <1>2, <1>9, <1>q, <2>2, <2>3, <2>5, <2>10 DEF Dump
<1>10. CASE RenameFindsNoFile
  <2>1. /\ flusher' \in Flushers /\ flusher'.pc = "failed"
    BY <1>10, <1>f DEF RenameFindsNoFile, Flushers
  <2>2. LoadedCoversDisk' /\ DumpCoversDisk'
    BY <1>10, <2>1 DEF RenameFindsNoFile, FilesInv, LoadedCoversDisk, DumpCoversDisk, memory
  <2> QED  BY <1>1, <1>2, <1>10, <1>q, <2>1, <2>2 DEF RenameFindsNoFile
<1>8. ASSUME NEW f \in Files, Drop(f) PROVE FilesInv'
  <2>1. /\ flusher' \in Flushers /\ flusher'.pc = "pass" /\ flusher'.todo \subseteq flusher.todo
    BY <1>8, <1>f DEF Drop, Flushers
  <2>2. LoadedCoversDisk' /\ DumpCoversDisk'
    BY <1>8, <2>1 DEF Drop, FilesInv, LoadedCoversDisk, DumpCoversDisk, memory
  <2> QED  BY <1>1, <1>2, <1>8, <1>q, <2>1, <2>2 DEF Drop
<1> QED  BY <1>3, <1>4, <1>5, <1>6, <1>7, <1>8, <1>9, <1>10 DEF FlushLoop

\* stop_pool, the exit and the crash.
LEMMA StopIsKept == FilesInv /\ (Stop \/ Exit \/ Crash) => FilesInv'
<1> SUFFICES ASSUME FilesInv, Stop \/ Exit \/ Crash PROVE FilesInv'
  OBVIOUS
<1> USE BoundAssumption
    DEF FilesInv, FilesTypeOK, QuietStop, LoadedCoversDisk, DumpCoversDisk, StopKeeps,
        Stopping, Booting, Files, Content, Registered, memory, NoFlusher
<1>1. CASE StopFlushing
  BY <1>1 DEF StopFlushing, StopBegins
<1>2. CASE CloseOps
  BY <1>2 DEF CloseOps, Closes
<1>3. CASE CloseStore
  BY <1>3 DEF CloseStore, Closes
<1>4. CASE CloseSaver
  BY <1>4 DEF CloseSaver, Closes
<1>5. CASE Exit
  BY <1>5 DEF Exit, Gone, Empty
<1>6. CASE Crash
  BY <1>6 DEF Crash, Gone, Empty
<1> QED  BY <1>1, <1>2, <1>3, <1>4, <1>5, <1>6 DEF Stop

LEMMA NextKeepsFiles == FilesInv /\ [FilesNext]_filesVars => FilesInv'
<1> SUFFICES ASSUME FilesInv, [FilesNext]_filesVars PROVE FilesInv'
  OBVIOUS
<1>1. CASE FilesNext
  BY <1>1, StartKeeps, SaversKeep, FlushKeeps, StopIsKept DEF FilesNext
<1>2. CASE UNCHANGED filesVars
  BY <1>2 DEF filesVars, memory, FilesInv, FilesTypeOK, QuietStop, LoadedCoversDisk, DumpCoversDisk,
              StopKeeps, Stopping, Booting
<1> QED  BY <1>1, <1>2

\* The inductive invariant: dictionaries, registry and flush thread never get into a
\* state from which a flush or an orderly stop would lose what is saved.
THEOREM FilesInvariant == FilesSpec => []FilesInv
<1>1. FilesInit => FilesInv
  BY InitFiles
<1>2. FilesInv /\ [FilesNext]_filesVars => FilesInv'
  BY NextKeepsFiles
<1> QED  BY <1>1, <1>2, PTL DEF FilesSpec

\* After an orderly stop the files hold what was in memory when the stop began
\* (stop_pool).
THEOREM StopSaves == FilesSpec => []CleanStopSaves
<1>1. FilesInv => CleanStopSaves
  BY DEF FilesInv, FilesTypeOK, StopKeeps, Stopping, CleanStopSaves, Files
<1> QED  BY <1>1, FilesInvariant, PTL

\* No start, flush, replacement or stop takes from the files of runs and items what
\* has reached them, but for the flush of a store that is closed under it.
LEMMA StepSavesFiles ==
  FilesInv /\ [FilesNext]_filesVars
    => [\/ LoadOpsFails
        \/ /\ disk'["ops"] >= disk["ops"]
           /\ DumpsRetired \/ disk'["store"] >= disk["store"]]_filesVars
<1> SUFFICES ASSUME FilesInv, FilesNext, ~LoadOpsFails
             PROVE  disk'["ops"] >= disk["ops"] /\ (DumpsRetired \/ disk'["store"] >= disk["store"])
  OBVIOUS
<1>1. disk["ops"] \in Nat /\ disk["store"] \in Nat
  BY BoundAssumption DEF FilesInv, FilesTypeOK, Files, Content
<1>2. CASE disk' = disk
  BY <1>1, <1>2
<1>3. CASE OldStoreClosed
  BY <1>1, <1>3 DEF OldStoreClosed, Closes, FilesInv, FilesTypeOK, LoadedCoversDisk
<1>4. CASE Rename
  <2>1. /\ flusher.pc = "write" /\ flusher.file \in Files
        /\ \A f \in Files : disk'[f] = IF f = flusher.file THEN flusher.dumped ELSE disk[f]
    BY <1>4 DEF Rename, FilesInv, FilesTypeOK
  <2>2. flusher.file = "ops" => disk'["ops"] >= disk["ops"]
    BY <1>1, <2>1 DEF FilesInv, DumpCoversDisk, Files
  <2>3. flusher.file = "store" => flusher.of = "retired" \/ disk'["store"] >= disk["store"]
    BY <1>1, <2>1 DEF FilesInv, DumpCoversDisk, Files
  <2> QED  BY <1>1, <1>4, <2>1, <2>2, <2>3 DEF DumpsRetired, Files
<1>5. CASE CloseOps
  BY <1>1, <1>5 DEF CloseOps, Closes, FilesInv, FilesTypeOK, LoadedCoversDisk
<1>6. CASE CloseStore
  BY <1>1, <1>6 DEF CloseStore, Closes, FilesInv, FilesTypeOK, LoadedCoversDisk
<1>7. CASE CloseSaver
  BY <1>1, <1>7 DEF CloseSaver, Closes, FilesInv, FilesTypeOK, Files
<1>8. \/ disk' = disk \/ OldStoreClosed \/ Rename \/ CloseOps \/ CloseStore \/ CloseSaver
  BY DEF FilesNext, Boot, Checkpointers, FlushLoop, Stop, ImportStore, LoadStore, KeepStore,
         CloseOldStore, CloseFindsNoFile, RegisterNewStore, LoadNewStore, LoadOps, RegisterOps, MakeSaver, LoadSaver,
         MakeTemporary, LoadTemporary, DropTemporary, FlushBegins, FlushEnds, FlushFails,
         Look, Dump, RenameFindsNoFile, Drop, StopFlushing, StopBegins, Exit, Crash, Write
<1> QED  BY <1>2, <1>3, <1>4, <1>5, <1>6, <1>7, <1>8

THEOREM SavedIsKept == FilesSpec => SavedStaysSaved
<1>1. FilesInv /\ [FilesNext]_filesVars
        => [\/ LoadOpsFails
            \/ /\ disk'["ops"] >= disk["ops"]
               /\ DumpsRetired \/ disk'["store"] >= disk["store"]]_filesVars
  BY StepSavesFiles
<1> QED  BY <1>1, FilesInvariant, PTL DEF FilesSpec, SavedStaysSaved


-----------------------------------------------------------------------------
(* What a list has at some of its places                                     *)

Rank(P, p) == Cardinality({k \in P : k <= p})

\* The places of a list can be numbered in their order.
LEMMA Ranks ==
  ASSUME NEW n \in Nat, NEW P \in SUBSET (1..n)
  PROVE  /\ IsFiniteSet(P) /\ Cardinality(P) \in Nat
         /\ \A p \in P : Rank(P, p) \in 1..Cardinality(P)
         /\ \A p, q \in P : Rank(P, p) = Rank(P, q) => p = q
         /\ \A i \in 1..Cardinality(P) : \E p \in P : Rank(P, p) = i
<1>1. IsFiniteSet(P) /\ Cardinality(P) \in Nat
  <2>1. IsFiniteSet(1..n)
    BY FS_Interval
  <2>2. IsFiniteSet(P)
    BY <2>1, FS_Subset
  <2> QED  BY <2>2, FS_CardinalityType
<1> DEFINE Up(p) == {k \in P : k <= p}
<1>2. ASSUME NEW p \in P
      PROVE  /\ IsFiniteSet(Up(p)) /\ Rank(P, p) = Cardinality(Up(p))
             /\ Rank(P, p) \in 1..Cardinality(P)
  <2>1. Up(p) \in SUBSET P
    OBVIOUS
  <2>2. IsFiniteSet(Up(p)) /\ Cardinality(Up(p)) <= Cardinality(P)
    BY <1>1, <2>1, FS_Subset
  <2>3. Cardinality(Up(p)) \in Nat
    BY <2>2, FS_CardinalityType
  <2>4. p \in Up(p)
    OBVIOUS
  <2>5. Cardinality(Up(p)) # 0
    BY <2>2, <2>4, FS_EmptySet
  <2>6. Rank(P, p) = Cardinality(Up(p))
    BY DEF Rank
  <2> HIDE DEF Up
  <2> QED  BY <1>1, <2>2, <2>3, <2>5, <2>6
<1>3. ASSUME NEW p \in P, NEW q \in P, p < q
      PROVE  Rank(P, p) # Rank(P, q)
  <2>1. Up(p) \in SUBSET Up(q)
    <3>1. \A k \in P : k <= p => k <= q
      BY <1>3
    <3> QED  BY <3>1
  <2>2. q \in Up(q) /\ q \notin Up(p)
    BY <1>3
  <2>3. IsFiniteSet(Up(q)) /\ Rank(P, p) = Cardinality(Up(p)) /\ Rank(P, q) = Cardinality(Up(q))
    BY <1>2
  <2> HIDE DEF Up
  <2>4. SUFFICES ASSUME Cardinality(Up(q)) = Cardinality(Up(p)) PROVE FALSE
    BY <2>3
  <2>5. Up(q) = Up(p)
    BY <2>1, <2>3, <2>4, FS_Subset
  <2> QED  BY <2>2, <2>5
<1>4. \A p, q \in P : Rank(P, p) = Rank(P, q) => p = q
  <2> TAKE p, q \in P
  <2>1. p < q \/ q < p \/ p = q
    OBVIOUS
  <2> QED  BY <2>1, <1>3
<1> DEFINE f == [p \in P |-> Rank(P, p)]
<1>5. f \in Injection(P, 1..Cardinality(P))
  <2>1. f \in [P -> 1..Cardinality(P)]
    BY <1>2
  <2> QED  BY <2>1, <1>4 DEF Injection, IsInjective
<1>6. IsFiniteSet(1..Cardinality(P)) /\ Cardinality(1..Cardinality(P)) = Cardinality(P)
  BY <1>1, FS_Interval
<1>7. f \in Surjection(P, 1..Cardinality(P))
  <2> HIDE DEF f
  <2> QED  BY <1>5, <1>6, FS_Injection
<1>8. \A i \in 1..Cardinality(P) : \E p \in P : f[p] = i
  <2> HIDE DEF f
  <2> QED  BY <1>7 DEF Surjection
<1>9. \A i \in 1..Cardinality(P) : \E p \in P : Rank(P, p) = i
  BY <1>8
<1> QED  BY <1>1, <1>2, <1>4, <1>9

\* At(list, P) is a list of what is at the places P, each once.
LEMMA AtPlaces ==
  ASSUME NEW S, NEW list \in Seq(S), NEW P \in SUBSET (1..Len(list))
  PROVE  /\ At(list, P) \in Seq(S) /\ Len(At(list, P)) \in Nat
         /\ \E h \in [1..Len(At(list, P)) -> P] :
              /\ \A i \in 1..Len(At(list, P)) : At(list, P)[i] = list[h[i]]
              /\ \A i, j \in 1..Len(At(list, P)) : h[i] = h[j] => i = j
              /\ \A p \in P : \E i \in 1..Len(At(list, P)) : h[i] = p
<1>1. Len(list) \in Nat
  BY LenProperties
<1> DEFINE n == Cardinality(P)
           h == [i \in 1..n |-> CHOOSE p \in P : Rank(P, p) = i]
<1>2. n \in Nat
  BY <1>1, Ranks
<1>3. \A i \in 1..n : h[i] \in P /\ Rank(P, h[i]) = i
  BY <1>1, Ranks
<1>4. \A p \in P : h[Rank(P, p)] = p /\ Rank(P, p) \in 1..n
  <2> TAKE p \in P
  <2>1. Rank(P, p) \in 1..n
    BY <1>1, Ranks
  <2>2. h[Rank(P, p)] \in P /\ Rank(P, h[Rank(P, p)]) = Rank(P, p)
    BY <1>3, <2>1
  <2> HIDE DEF h
  <2> QED  BY <1>1, <2>1, <2>2, Ranks
<1>5. At(list, P) = [i \in 1..n |-> list[h[i]]]
  BY DEF At, Rank
<1>6. h \in [1..n -> P]
  BY <1>3
<1> HIDE DEF h, n
<1>7. \A i \in 1..n : list[h[i]] \in S
  BY <1>3, <1>1, ElementOfSeq
<1>8. At(list, P) \in Seq(S) /\ Len(At(list, P)) = n
  BY <1>2, <1>5, <1>7, IsASeq
<1>9. \A i \in 1..n : At(list, P)[i] = list[h[i]]
  BY <1>5
<1>10. \A i, j \in 1..n : h[i] = h[j] => i = j
  BY <1>3
<1>11. \A p \in P : \E i \in 1..n : h[i] = p
  BY <1>4
<1> QED  BY <1>2, <1>6, <1>8, <1>9, <1>10, <1>11

-----------------------------------------------------------------------------
(* The records of one assistant                                              *)

Places(list, id) == {i \in 1..Len(list) : list[i].id = id}

\* The same records of an assistant, each at one place of both lists.
SameRecords(new, old, id) ==
  \E h \in [Places(new, id) -> Places(old, id)] :
    /\ \A i \in Places(new, id) : new[i] = old[h[i]]
    /\ \A i, j \in Places(new, id) : h[i] = h[j] => i = j
    /\ \A p \in Places(old, id) : \E i \in Places(new, id) : h[i] = p

\* What the invariant says of the lists, for one assistant.
Once(list, id) == \A i, j \in Places(list, id) : i = j
Numbered(list, id) ==
  /\ \A i, j \in Places(list, id) : list[i].version = list[j].version => i = j
  /\ \E n \in Nat : {list[i].version : i \in Places(list, id)} = 1..n
Described(list, old, id) ==
  /\ \A p \in Places(list, id) : \E i \in Places(old, id) :
       old[i].version = list[p].version /\ old[i].content = list[p].content
  /\ Places(list, id) = {} => Places(old, id) = {}

\* Lists with the same records at the same places.
LEMMA SamePlaces ==
  ASSUME NEW new, NEW old, NEW id, Places(new, id) = Places(old, id),
         \A i \in Places(old, id) : new[i] = old[i]
  PROVE  SameRecords(new, old, id)
<1> DEFINE h == [i \in Places(new, id) |-> i]
<1>1. h \in [Places(new, id) -> Places(old, id)]
  OBVIOUS
<1>2. /\ \A i \in Places(new, id) : new[i] = old[h[i]]
      /\ \A i, j \in Places(new, id) : h[i] = h[j] => i = j
      /\ \A p \in Places(old, id) : \E i \in Places(new, id) : h[i] = p
  OBVIOUS
<1> HIDE DEF h
<1> QED  BY <1>1, <1>2 DEF SameRecords

LEMMA SameThrough ==
  ASSUME NEW new, NEW mid, NEW old, NEW id, SameRecords(new, mid, id), SameRecords(mid, old, id)
  PROVE  SameRecords(new, old, id)
<1>1. PICK g \in [Places(new, id) -> Places(mid, id)] :
        /\ \A i \in Places(new, id) : new[i] = mid[g[i]]
        /\ \A i, j \in Places(new, id) : g[i] = g[j] => i = j
        /\ \A p \in Places(mid, id) : \E i \in Places(new, id) : g[i] = p
  BY DEF SameRecords
<1>2. PICK f \in [Places(mid, id) -> Places(old, id)] :
        /\ \A i \in Places(mid, id) : mid[i] = old[f[i]]
        /\ \A i, j \in Places(mid, id) : f[i] = f[j] => i = j
        /\ \A p \in Places(old, id) : \E i \in Places(mid, id) : f[i] = p
  BY DEF SameRecords
<1> DEFINE h == [i \in Places(new, id) |-> f[g[i]]]
<1>3. h \in [Places(new, id) -> Places(old, id)]
  OBVIOUS
<1>4. /\ \A i \in Places(new, id) : new[i] = old[h[i]]
      /\ \A i, j \in Places(new, id) : h[i] = h[j] => i = j
  BY <1>1, <1>2
<1>5. ASSUME NEW p \in Places(old, id) PROVE \E i \in Places(new, id) : h[i] = p
  <2>1. PICK m \in Places(mid, id) : f[m] = p
    BY <1>2
  <2>2. PICK i \in Places(new, id) : g[i] = m
    BY <1>1
  <2>3. h[i] = p
    BY <2>1, <2>2
  <2> QED  BY <2>3
<1> HIDE DEF h
<1> QED  BY <1>3, <1>4, <1>5 DEF SameRecords

\* All that is said of an assistant carries over to lists with the same records.
LEMMA Carries ==
  ASSUME NEW new, NEW old, NEW newer, NEW older, NEW id,
         SameRecords(new, old, id), SameRecords(newer, older, id)
  PROVE  /\ Places(new, id) = {} <=> Places(old, id) = {}
         /\ Once(old, id) => Once(new, id)
         /\ Numbered(old, id) => Numbered(new, id)
         /\ Described(old, older, id) => Described(new, newer, id)
<1>1. PICK g \in [Places(new, id) -> Places(old, id)] :
        /\ \A i \in Places(new, id) : new[i] = old[g[i]]
        /\ \A i, j \in Places(new, id) : g[i] = g[j] => i = j
        /\ \A p \in Places(old, id) : \E i \in Places(new, id) : g[i] = p
  BY DEF SameRecords
<1>2. PICK f \in [Places(newer, id) -> Places(older, id)] :
        /\ \A i \in Places(newer, id) : newer[i] = older[f[i]]
        /\ \A p \in Places(older, id) : \E i \in Places(newer, id) : f[i] = p
  BY DEF SameRecords
<1>3. Places(new, id) = {} <=> Places(old, id) = {}
  BY <1>1
<1>4. Places(newer, id) = {} <=> Places(older, id) = {}
  BY <1>2
<1>5. Once(old, id) => Once(new, id)
  BY <1>1 DEF Once
<1>6. ASSUME Numbered(old, id) PROVE Numbered(new, id)
  <2>1. \A i, j \in Places(new, id) : new[i].version = new[j].version => i = j
    BY <1>1, <1>6 DEF Numbered
  <2>2. {new[i].version : i \in Places(new, id)} = {old[i].version : i \in Places(old, id)}
    <3>1. \A i \in Places(new, id) : \E p \in Places(old, id) : new[i].version = old[p].version
      BY <1>1
    <3>2. ASSUME NEW p \in Places(old, id)
          PROVE  \E i \in Places(new, id) : new[i].version = old[p].version
      <4>1. PICK i \in Places(new, id) : g[i] = p
        BY <1>1
      <4> QED  BY <4>1, <1>1
    <3> QED  BY <3>1, <3>2
  <2> QED  BY <1>6, <2>1, <2>2 DEF Numbered
<1>7. ASSUME Described(old, older, id) PROVE Described(new, newer, id)
  <2>1. ASSUME NEW p \in Places(new, id)
        PROVE  \E i \in Places(newer, id) :
                 newer[i].version = new[p].version /\ newer[i].content = new[p].content
    <3>1. g[p] \in Places(old, id) /\ new[p] = old[g[p]]
      BY <1>1
    <3>2. PICK k \in Places(older, id) :
            older[k].version = old[g[p]].version /\ older[k].content = old[g[p]].content
      BY <1>7, <3>1 DEF Described
    <3>3. PICK i \in Places(newer, id) : f[i] = k
      BY <1>2
    <3> QED  BY <3>1, <3>2, <3>3, <1>2
  <2> QED  BY <2>1, <1>3, <1>4, <1>7 DEF Described
<1> QED  BY <1>3, <1>5, <1>6, <1>7

\* Taking out what is at other places.
LEMMA SameAt ==
  ASSUME NEW list \in Seq(Assistant), NEW P \in SUBSET (1..Len(list)), NEW id,
         Places(list, id) \subseteq P
  PROVE  SameRecords(At(list, P), list, id)
<1> DEFINE new == At(list, P)
<1>1. PICK h \in [1..Len(new) -> P] :
        /\ \A i \in 1..Len(new) : new[i] = list[h[i]]
        /\ \A i, j \in 1..Len(new) : h[i] = h[j] => i = j
        /\ \A p \in P : \E i \in 1..Len(new) : h[i] = p
  BY AtPlaces
<1> HIDE DEF new
<1> DEFINE g == [i \in Places(new, id) |-> h[i]]
<1>2. \A i \in Places(new, id) : i \in 1..Len(new) /\ g[i] \in Places(list, id) /\ g[i] = h[i]
  BY <1>1 DEF Places
<1>3. ASSUME NEW p \in Places(list, id) PROVE \E i \in Places(new, id) : g[i] = p
  <2>1. PICK i \in 1..Len(new) : h[i] = p
    BY <1>1
  <2>2. i \in Places(new, id)
    BY <2>1, <1>1 DEF Places
  <2> QED  BY <2>1, <2>2
<1>4. g \in [Places(new, id) -> Places(list, id)]
  BY <1>2
<1>5. /\ \A i \in Places(new, id) : new[i] = list[g[i]]
      /\ \A i, j \in Places(new, id) : g[i] = g[j] => i = j
  BY <1>1, <1>2
<1> HIDE DEF g
<1>6. SameRecords(new, list, id)
  BY <1>3, <1>4, <1>5 DEF SameRecords
<1> QED  BY <1>6 DEF new

LEMMA NoneAt ==
  ASSUME NEW list \in Seq(Assistant), NEW P \in SUBSET (1..Len(list)), NEW id,
         \A p \in P : list[p].id # id
  PROVE  Places(At(list, P), id) = {}
<1>1. PICK h \in [1..Len(At(list, P)) -> P] :
        \A i \in 1..Len(At(list, P)) : At(list, P)[i] = list[h[i]]
  BY AtPlaces
<1> QED  BY <1>1 DEF Places

\* Only and Remaining as seen by one assistant.
LEMMA OnlySome ==
  ASSUME NEW list \in Seq(Assistant), NEW ids, NEW id
  PROVE  /\ Only(list, ids) \in Seq(Assistant)
         /\ id \in ids => SameRecords(Only(list, ids), list, id)
         /\ id \notin ids => Places(Only(list, ids), id) = {}
<1> DEFINE P == {i \in 1..Len(list) : list[i].id \in ids}
<1>1. Only(list, ids) = At(list, P) /\ P \in SUBSET (1..Len(list))
  BY DEF Only
<1>2. \A p \in P : list[p].id \in ids
  OBVIOUS
<1>3. id \in ids => Places(list, id) \subseteq P
  BY DEF Places
<1> HIDE DEF P
<1> QED  BY <1>1, <1>2, <1>3, AtPlaces, SameAt, NoneAt

LEMMA RemainingType ==
  ASSUME NEW list \in Seq(Assistant)
  PROVE  Remaining(list) \in Seq(Assistant)
<1> DEFINE P == (1..Len(list)) \ Removed(list)
<1>1. P \in SUBSET (1..Len(list))
  OBVIOUS
<1> HIDE DEF P
<1>2. At(list, P) \in Seq(Assistant)
  BY <1>1, AtPlaces
<1> QED  BY <1>2 DEF Remaining, P

LEMMA RemainingClients ==
  ASSUME NEW list \in Seq(Assistant), NEW id, id \notin SystemIds
  PROVE  SameRecords(Remaining(list), list, id)
<1> DEFINE P == (1..Len(list)) \ Removed(list)
<1>1. Remaining(list) = At(list, P) /\ P \in SUBSET (1..Len(list))
  BY DEF Remaining
<1>2. \A i \in Removed(list) : list[i].id \in SystemIds
  BY DEF Removed
<1>3. Places(list, id) \subseteq P
  BY <1>2 DEF Places
<1> HIDE DEF P
<1> QED  BY <1>1, <1>3, SameAt

\* What is put behind a list.
LEMMA Behind ==
  ASSUME NEW list \in Seq(Assistant), NEW more \in Seq(Assistant), NEW id,
         Places(more, id) = {}
  PROVE  list \o more \in Seq(Assistant) /\ SameRecords(list \o more, list, id)
<1> DEFINE new == list \o more
<1>1. /\ new \in Seq(Assistant) /\ Len(list) \in Nat /\ Len(more) \in Nat
      /\ Len(new) = Len(list) + Len(more)
      /\ \A i \in 1..Len(new) : new[i] = IF i <= Len(list) THEN list[i] ELSE more[i - Len(list)]
  BY ConcatProperties, LenProperties
<1> HIDE DEF new
<1>2. \A i \in 1..Len(list) : i \in 1..Len(new) /\ new[i] = list[i]
  BY <1>1
<1>3. ASSUME NEW i \in 1..Len(new), i > Len(list) PROVE new[i].id # id
  <2>1. i - Len(list) \in 1..Len(more) /\ new[i] = more[i - Len(list)]
    BY <1>1, <1>3
  <2> QED  BY <2>1 DEF Places
<1>4. \A i \in 1..Len(new) : i \in 1..Len(list) \/ i > Len(list)
  BY <1>1
<1>5. Places(new, id) = Places(list, id)
  BY <1>2, <1>3, <1>4 DEF Places
<1>6. \A i \in Places(list, id) : new[i] = list[i]
  BY <1>2 DEF Places
<1>7. SameRecords(new, list, id)
  BY <1>5, <1>6, SamePlaces
<1> QED  BY <1>1, <1>7 DEF new

LEMMA AppendOther ==
  ASSUME NEW list \in Seq(Assistant), NEW entry \in Assistant, NEW id, entry.id # id
  PROVE  Append(list, entry) \in Seq(Assistant) /\ SameRecords(Append(list, entry), list, id)
<1> DEFINE new == Append(list, entry)
<1>1. /\ new \in Seq(Assistant) /\ Len(list) \in Nat /\ Len(new) = Len(list) + 1
      /\ new[Len(list) + 1] = entry /\ \A i \in 1..Len(list) : new[i] = list[i]
  BY AppendProperties, LenProperties
<1> HIDE DEF new
<1>2. 1..Len(new) = 1..Len(list) \cup {Len(list) + 1}
  BY <1>1
<1>3. Places(new, id) = Places(list, id)
  BY <1>1, <1>2 DEF Places
<1>4. \A i \in Places(list, id) : new[i] = list[i]
  BY <1>1 DEF Places
<1>5. SameRecords(new, list, id)
  BY <1>3, <1>4, SamePlaces
<1> QED  BY <1>1, <1>5 DEF new

\* An entry of this assistant more.
LEMMA AppendOwn ==
  ASSUME NEW list \in Seq(Assistant), NEW entry \in Assistant
  PROVE  /\ Append(list, entry) \in Seq(Assistant) /\ Len(list) \in Nat
         /\ Append(list, entry)[Len(list) + 1] = entry
         /\ \A i \in 1..Len(list) : Append(list, entry)[i] = list[i]
         /\ Places(Append(list, entry), entry.id) = Places(list, entry.id) \cup {Len(list) + 1}
         /\ \A i \in Places(list, entry.id) : i # Len(list) + 1 /\ i \in 1..Len(list)
<1> DEFINE new == Append(list, entry)
<1>1. /\ new \in Seq(Assistant) /\ Len(list) \in Nat /\ Len(new) = Len(list) + 1
      /\ new[Len(list) + 1] = entry /\ \A i \in 1..Len(list) : new[i] = list[i]
  BY AppendProperties, LenProperties
<1> HIDE DEF new
<1>2. 1..Len(new) = 1..Len(list) \cup {Len(list) + 1}
  BY <1>1
<1>3. Places(new, entry.id) = Places(list, entry.id) \cup {Len(list) + 1}
  BY <1>1, <1>2 DEF Places
<1>4. \A i \in Places(list, entry.id) : i # Len(list) + 1 /\ i \in 1..Len(list)
  BY <1>1 DEF Places
<1> QED  BY <1>1, <1>3, <1>4 DEF new

-----------------------------------------------------------------------------
(* What the operations put in the lists                                      *)

LEMMA InList ==
  ASSUME NEW list \in Seq(Assistant), NEW id
  PROVE  /\ id \in IdsOf(list) <=> Places(list, id) # {}
         /\ \A i \in Places(list, id) : i \in 1..Len(list) /\ list[i] \in Assistant
         /\ VersionsOf(id) = Places(versions, id)
<1>1. DOMAIN list = 1..Len(list) /\ \A i \in 1..Len(list) : list[i] \in Assistant
  BY LenProperties, ElementOfSeq
<1>2. id \in IdsOf(list) <=> \E i \in 1..Len(list) : list[i].id = id
  BY <1>1 DEF IdsOf, ToSet
<1> QED  BY <1>1, <1>2 DEF Places, VersionsOf

LEMMA FirstType ==
  ASSUME NEW id \in Everyone, NEW text \in Contents, NEW rest \in Rests
  PROVE  /\ FirstVersion(id, text, rest) \in Assistant
         /\ FirstVersion(id, text, rest).id = id /\ FirstVersion(id, text, rest).version = 1
         /\ FirstVersion(id, text, rest).content = text
<1>1. 1 \in 1..MaxVersion
  BY MaxAssumption
<1> QED  BY <1>1 DEF FirstVersion, Assistant

\* A finite set as a list.
LEMMA AsList ==
  ASSUME NEW S, IsFiniteSet(S)
  PROVE  SetToSeq(S) \in Seq(S)
<1>1. Cardinality(S) \in Nat /\ ExistsBijection(1..Cardinality(S), S)
  BY FS_CardinalityType
<1>2. \E f \in [1..Cardinality(S) -> S] : IsInjective(f)
  BY <1>1 DEF ExistsBijection, Bijection, Injection
<1>3. SetToSeq(S) \in [1..Cardinality(S) -> S]
  BY <1>2 DEF SetToSeq
<1> QED  BY <1>1, <1>3, SeqDef

\* A start adds assistants of the system only.
LEMMA AddedBySystem ==
  ASSUME NEW list \in Seq(Assistant), NEW G \in SUBSET SystemIds
  PROVE  /\ Added(list, G) \in Seq(Assistant)
         /\ \A id \in Ids : Places(Added(list, G), id) = {}
<1> DEFINE D == G \ IdsOf(list)
           c == CHOOSE c \in Contents : TRUE
           r == CHOOSE r \in Rests : TRUE
           f == [id \in D |-> FirstVersion(id, c, r)]
           S == {FirstVersion(id, c, r) : id \in D}
<1>1. IsFiniteSet(D) /\ D \subseteq SystemIds
  BY IdsAssumption, FS_Subset
<1>2. c \in Contents /\ r \in Rests
  BY ContentsAssumption
<1>3. f \in Surjection(D, S)
  BY DEF Surjection
<1>4. IsFiniteSet(S)
  <2> HIDE DEF f, S, D
  <2> QED  BY <1>1, <1>3, FS_Surjection
<1>5. S = {FirstVersion(id, text, rest) : id \in D, text \in {c}, rest \in {r}}
  <2> HIDE DEF c, r, D
  <2> QED  OBVIOUS
<1>6. Added(list, G) = SetToSeq(S)
  <2>1. Added(list, G) = SetToSeq({FirstVersion(id, text, rest) :
                                    id \in D, text \in {c}, rest \in {r}})
    BY DEF Added
  <2> HIDE DEF S, D, c, r
  <2> QED  BY <1>5, <2>1
<1> HIDE DEF c, r
<1>7. \A a \in S : a \in Assistant /\ a.id \in SystemIds
  BY <1>1, <1>2, FirstType DEF Everyone
<1> HIDE DEF S
<1>8. Added(list, G) \in Seq(S)
  BY <1>4, <1>6, AsList
<1>9. \A i \in 1..Len(Added(list, G)) : Added(list, G)[i] \in S
  BY <1>8, ElementOfSeq
<1>10. Added(list, G) \in Seq(Assistant)
  BY <1>7, <1>8, SeqDef
<1>11. \A id \in Ids : Places(Added(list, G), id) = {}
  BY <1>7, <1>9, IdsAssumption DEF Places
<1> QED  BY <1>10, <1>11

\* Among the versions of an assistant there is a latest.
LEMMA Latest ==
  ASSUME NEW list \in Seq(Assistant), NEW id, Places(list, id) # {}
  PROVE  \E i \in Places(list, id) : \A j \in Places(list, id) : list[j].version <= list[i].version
<1> DEFINE R == OpToRel(<, Nat)
           N == {MaxVersion - list[i].version : i \in Places(list, id)}
<1>1. \A i \in Places(list, id) : list[i].version \in 1..MaxVersion /\ MaxVersion \in Nat
  BY InList, MaxAssumption DEF Assistant
<1>2. N \in SUBSET Nat /\ N # {}
  BY <1>1
<1>3. IsWellFoundedOn(R, Nat)
  BY NatLessThanWellFounded
<1>4. \A m, n \in Nat : m < n => <<m, n>> \in R
  BY DEF OpToRel
<1>5. PICK x \in N : \A y \in N : ~ (<<y, x>> \in R)
  <2> HIDE DEF R, N
  <2> QED  BY <1>2, <1>3, WFMin
<1>6. PICK i \in Places(list, id) : x = MaxVersion - list[i].version
  OBVIOUS
<1>7. ASSUME NEW j \in Places(list, id) PROVE list[j].version <= list[i].version
  <2>1. MaxVersion - list[j].version \in N
    OBVIOUS
  <2> HIDE DEF R, N
  <2>2. ~ (MaxVersion - list[j].version < x)
    BY <1>2, <1>4, <1>5, <2>1
  <2> QED  BY <1>1, <1>6, <2>2
<1> QED  BY <1>7

\* The number of the next version.
LEMMA NextNumber ==
  ASSUME versions \in Seq(Assistant), NEW id, versions # <<>> => VersionsOf(id) # {}
  PROVE  /\ NextVersion(id) \in Nat \ {0}
         /\ \A n \in Nat \ {0} :
              {versions[i].version : i \in Places(versions, id)} = 1..n => NextVersion(id) = n + 1
<1>1. CASE versions = <<>>
  <2>1. NextVersion(id) = 1
    BY <1>1 DEF NextVersion
  <2>2. Places(versions, id) = {}
    BY <1>1 DEF Places
  <2>3. ASSUME NEW n \in Nat \ {0}, {versions[i].version : i \in Places(versions, id)} = 1..n
        PROVE  FALSE
    <3>1. 1 \in 1..n
      OBVIOUS
    <3> QED  BY <3>1, <2>2, <2>3
  <2> QED  BY <2>1, <2>3
<1>2. CASE versions # <<>>
  <2> DEFINE P == Places(versions, id)
             last == CHOOSE i \in P : \A j \in P : versions[j].version <= versions[i].version
  <2>1. VersionsOf(id) = P /\ P # {}
    BY <1>2, InList
  <2>2. last \in P /\ \A j \in P : versions[j].version <= versions[last].version
    BY <2>1, Latest
  <2>3. NextVersion(id) = 1 + versions[last].version
    BY <1>2, <2>1 DEF NextVersion
  <2>4. \A i \in P : versions[i].version \in 1..MaxVersion /\ MaxVersion \in Nat
    BY InList, MaxAssumption DEF Assistant
  <2> HIDE DEF P, last
  <2>5. ASSUME NEW n \in Nat \ {0}, {versions[i].version : i \in P} = 1..n
        PROVE  versions[last].version = n
    <3>1. n \in {versions[i].version : i \in P}
      <4>1. n \in 1..n
        OBVIOUS
      <4> QED  BY <2>5, <4>1
    <3>2. PICK i \in P : versions[i].version = n
      BY <3>1
    <3>3. versions[last].version \in 1..n
      BY <2>2, <2>5
    <3>4. n <= versions[last].version
      BY <2>2, <3>2
    <3> QED  BY <3>3, <3>4
  <2>6. NextVersion(id) \in Nat \ {0}
    BY <2>2, <2>3, <2>4
  <2>7. \A n \in Nat \ {0} : {versions[i].version : i \in P} = 1..n => NextVersion(id) = n + 1
    BY <2>3, <2>5
  <2> QED  BY <2>6, <2>7 DEF P
<1> QED  BY <1>1, <1>2

-----------------------------------------------------------------------------
(* The inductive invariant                                                   *)

ClientOK(list, old, id) == Once(list, id) /\ Numbered(old, id) /\ Described(list, old, id)

ListsInv ==
  /\ assistants \in Seq(Assistant) /\ versions \in Seq(Assistant)
  /\ \A id \in Ids : ClientOK(assistants, versions, id)
CronsInv ==
  /\ DOMAIN crons \subseteq CronIds /\ \A k \in DOMAIN crons : crons[k] \in Cron
  /\ scheduler \in {Idle} \cup Scanning \cup Firing
  /\ HandIsKnown
RestInv ==
  /\ threads \subseteq Threads
  /\ request \in [Requests -> {Idle} \cup Deleting \cup Scheduling]
  /\ restarts \in 0..MaxRestarts
AllInv == ListsInv /\ CronsInv /\ RestInv

LEMMA ClientCarries ==
  ASSUME NEW new, NEW old, NEW newer, NEW older, NEW id,
         SameRecords(new, old, id), SameRecords(newer, older, id), ClientOK(old, older, id)
  PROVE  ClientOK(new, newer, id)
<1>1. Once(new, id) /\ Described(new, newer, id)
  BY Carries DEF ClientOK
<1>2. Numbered(newer, id)
  BY Carries DEF ClientOK
<1> QED  BY <1>1, <1>2 DEF ClientOK

LEMMA GoneIsOK ==
  ASSUME NEW list, NEW old, NEW id, Places(list, id) = {}, Places(old, id) = {}
  PROVE  ClientOK(list, old, id)
<1>1. Numbered(old, id)
  <2>1. {old[i].version : i \in Places(old, id)} = 1..0
    OBVIOUS
  <2> QED  BY <2>1 DEF Numbered
<1> QED  BY <1>1 DEF ClientOK, Once, Described

\* What is recorded in numbers is what VersionsAreNumbered says.
LEMMA Counted ==
  ASSUME NEW old \in Seq(Assistant), NEW id, Numbered(old, id)
  PROVE  {old[i].version : i \in Places(old, id)} = 1..Cardinality(Places(old, id))
<1> DEFINE P == Places(old, id)
           f == [i \in P |-> old[i].version]
<1>1. PICK n \in Nat : {old[i].version : i \in P} = 1..n
  BY DEF Numbered
<1>2. f \in Bijection(P, 1..n)
  <2>1. f \in [P -> 1..n]
    BY <1>1
  <2>2. \A i, j \in P : f[i] = f[j] => i = j
    BY DEF Numbered
  <2>3. \A m \in 1..n : \E i \in P : f[i] = m
    BY <1>1
  <2> HIDE DEF f
  <2> QED  BY <2>1, <2>2, <2>3 DEF Bijection, Injection, IsInjective, Surjection
<1>3. IsFiniteSet(P)
  <2>1. Len(old) \in Nat
    BY LenProperties
  <2>2. IsFiniteSet(1..Len(old)) /\ P \in SUBSET (1..Len(old))
    BY <2>1, FS_Interval DEF Places
  <2> HIDE DEF P
  <2> QED  BY <2>2, FS_Subset
<1>4. Cardinality(1..n) = Cardinality(P)
  <2> HIDE DEF f, P
  <2>1. ExistsBijection(P, 1..n)
    BY <1>2 DEF ExistsBijection
  <2> QED  BY <1>3, <2>1, FS_Bijection
<1>5. Cardinality(1..n) = n
  BY FS_Interval
<1> QED  BY <1>1, <1>4, <1>5

LEMMA AllInvMeans ==
  ASSUME AllInv
  PROVE  AssistantsInv
<1>1. TypeOK
  BY DEF AllInv, ListsInv, CronsInv, RestInv, TypeOK, Version
<1>2. HandIsKnown
  BY DEF AllInv, CronsInv
<1>3. ASSUME NEW id \in Ids
      PROVE  /\ Once(assistants, id) /\ Numbered(versions, id)
             /\ Described(assistants, versions, id) /\ VersionsOf(id) = Places(versions, id)
             /\ assistants \in Seq(Assistant) /\ versions \in Seq(Assistant)
  BY InList DEF AllInv, ListsInv, ClientOK
<1>4. InListOnce
  BY <1>3 DEF InListOnce, Once, Places
<1>5. VersionsAreNumbered
  BY <1>3, Counted DEF VersionsAreNumbered
<1>6. AssistantIsItsVersion
  <2> SUFFICES ASSUME NEW id \in Ids
               PROVE  /\ Exists(id) => \E i \in VersionsOf(id) :
                           /\ versions[i].version = assistants[Place(id)].version
                           /\ versions[i].content = assistants[Place(id)].content
                      /\ ~Exists(id) => VersionsOf(id) = {}
    BY DEF AssistantIsItsVersion
  <2>1. Exists(id) <=> Places(assistants, id) # {}
    BY <1>3, InList DEF Exists
  <2>2. Exists(id) => Place(id) \in Places(assistants, id)
    BY <2>1 DEF Place, Places
  <2> QED  BY <1>3, <2>1, <2>2 DEF Described
<1> QED  BY <1>1, <1>2, <1>4, <1>5, <1>6 DEF AssistantsInv

-----------------------------------------------------------------------------
(* Steps on assistants and versions                                          *)

\* No client's assistant goes away.
ClientsStay ==
  \A id \in Ids : Places(assistants, id) # {} => Places(assistants', id) # {}

LEMMA PutStep ==
  ASSUME ListsInv, NEW id \in Ids, NEW text \in Contents, NEW rest \in Rests,
         Put(id, text, rest)
  PROVE  ListsInv' /\ ClientsStay
<1> DEFINE entry == FirstVersion(id, text, rest)
<1>1. /\ assistants \in Seq(Assistant) /\ versions \in Seq(Assistant)
      /\ \A x \in Ids : ClientOK(assistants, versions, x)
  BY DEF ListsInv
<1>2. assistants' = Append(assistants, entry) /\ versions' = Append(versions, entry)
  BY DEF Put
<1>3. entry \in Assistant /\ entry.id = id /\ entry.version = 1 /\ entry.content = text
  BY FirstType DEF Everyone
<1>4. Places(assistants, id) = {} /\ Places(versions, id) = {}
  <2>1. Places(assistants, id) = {}
    BY <1>1, InList DEF Put, Exists
  <2> QED  BY <1>1, <2>1 DEF ClientOK, Described
<1> HIDE DEF entry
<1>5. /\ assistants' \in Seq(Assistant) /\ Places(assistants', id) = {Len(assistants) + 1}
      /\ assistants'[Len(assistants) + 1] = entry
  <2>1. /\ assistants' \in Seq(Assistant) /\ assistants'[Len(assistants) + 1] = entry
        /\ Places(assistants', entry.id) = Places(assistants, entry.id) \cup {Len(assistants) + 1}
    BY <1>1, <1>2, <1>3, AppendOwn
  <2> QED  BY <1>3, <1>4, <2>1
<1>6. /\ versions' \in Seq(Assistant) /\ Places(versions', id) = {Len(versions) + 1}
      /\ versions'[Len(versions) + 1] = entry
  <2>1. /\ versions' \in Seq(Assistant) /\ versions'[Len(versions) + 1] = entry
        /\ Places(versions', entry.id) = Places(versions, entry.id) \cup {Len(versions) + 1}
    BY <1>1, <1>2, <1>3, AppendOwn
  <2> QED  BY <1>3, <1>4, <2>1
<1>7. ClientOK(assistants', versions', id)
  <2>1. Once(assistants', id)
    BY <1>5 DEF Once
  <2>2. Numbered(versions', id)
    <3>1. {versions'[i].version : i \in Places(versions', id)} = 1..1
      BY <1>3, <1>6
    <3> QED  BY <1>6, <3>1 DEF Numbered
  <2>3. Described(assistants', versions', id)
    BY <1>5, <1>6 DEF Described
  <2> QED  BY <2>1, <2>2, <2>3 DEF ClientOK
<1>8. ASSUME NEW x \in Ids, x # id
      PROVE  /\ ClientOK(assistants', versions', x)
             /\ Places(assistants', x) = {} <=> Places(assistants, x) = {}
  <2>1. SameRecords(assistants', assistants, x) /\ SameRecords(versions', versions, x)
    BY <1>1, <1>2, <1>3, <1>8, AppendOther
  <2> QED  BY <1>1, <2>1, ClientCarries, Carries
<1>9. ListsInv'
  BY <1>5, <1>6, <1>7, <1>8 DEF ListsInv
<1>10. ClientsStay
  BY <1>5, <1>8 DEF ClientsStay
<1> QED  BY <1>9, <1>10

\* The entry of an assistant replaced by another one of it.
LEMMA Overwritten ==
  ASSUME assistants \in Seq(Assistant), NEW id, NEW entry \in Assistant, entry.id = id,
         Place(id) \in 1..Len(assistants), assistants[Place(id)].id = id,
         assistants' = [assistants EXCEPT ![Place(id)] = entry]
  PROVE  /\ assistants' \in Seq(Assistant) /\ assistants'[Place(id)] = entry
         /\ \A x : Places(assistants', x) = Places(assistants, x)
         /\ \A x : x # id => SameRecords(assistants', assistants, x)
<1>1. PICK p \in 1..Len(assistants) : p = Place(id)
  OBVIOUS
<1>2. assistants' = [assistants EXCEPT ![p] = entry] /\ assistants[p].id = id
  BY <1>1
<1>3. /\ assistants' \in Seq(Assistant) /\ Len(assistants') = Len(assistants)
      /\ \A i \in 1..Len(assistants) : assistants'[i] = IF i = p THEN entry ELSE assistants[i]
  BY <1>2, ExceptSeq, LenProperties
<1>4. ASSUME NEW x PROVE Places(assistants', x) = Places(assistants, x)
  BY <1>2, <1>3 DEF Places
<1>5. ASSUME NEW x, x # id PROVE SameRecords(assistants', assistants, x)
  <2>1. \A i \in Places(assistants, x) : assistants'[i] = assistants[i]
    BY <1>2, <1>3, <1>5 DEF Places
  <2> QED  BY <1>4, <2>1, SamePlaces
<1> QED  BY <1>1, <1>3, <1>4, <1>5

LEMMA PatchStep ==
  ASSUME ListsInv, NEW id \in Patched, NEW text \in Contents, NEW rest \in Rests,
         Patch(id, text, rest)
  PROVE  ListsInv' /\ ClientsStay
<1> DEFINE entry == [id |-> id, version |-> NextVersion(id), content |-> text, rest |-> rest]
<1>1. /\ assistants \in Seq(Assistant) /\ versions \in Seq(Assistant)
      /\ \A x \in Ids : ClientOK(assistants, versions, x)
  BY DEF ListsInv
<1>2. /\ Exists(id) /\ (versions # <<>> => VersionsOf(id) # {})
      /\ NextVersion(id) <= MaxVersion
      /\ versions' = Append(versions, entry)
      /\ assistants' = [assistants EXCEPT ![Place(id)] = entry]
  BY DEF Patch
<1>3. entry \in Assistant /\ entry.id = id
  <2>1. NextVersion(id) \in Nat \ {0}
    BY <1>1, <1>2, NextNumber
  <2>2. id \in Everyone /\ NextVersion(id) \in 1..MaxVersion
    BY <1>2, <2>1, IdsAssumption, MaxAssumption DEF Everyone
  <2> QED  BY <2>2 DEF Assistant
<1>4. Place(id) \in 1..Len(assistants) /\ assistants[Place(id)].id = id
  <2>1. Places(assistants, id) # {}
    BY <1>1, <1>2, InList DEF Exists
  <2> QED  BY <2>1 DEF Places, Place
<1>5. entry.version = NextVersion(id) /\ entry.content = text
  OBVIOUS
<1> HIDE DEF entry
<1>6. /\ assistants' \in Seq(Assistant) /\ assistants'[Place(id)] = entry
      /\ \A x : Places(assistants', x) = Places(assistants, x)
      /\ \A x : x # id => SameRecords(assistants', assistants, x)
  BY <1>1, <1>2, <1>3, <1>4, Overwritten
<1>7. /\ versions' \in Seq(Assistant) /\ versions'[Len(versions) + 1] = entry
      /\ \A i \in 1..Len(versions) : versions'[i] = versions[i]
      /\ Places(versions', id) = Places(versions, id) \cup {Len(versions) + 1}
      /\ \A i \in Places(versions, id) : i # Len(versions) + 1 /\ i \in 1..Len(versions)
  BY <1>1, <1>2, <1>3, AppendOwn
<1>8. ASSUME id \in Ids
      PROVE  ClientOK(assistants', versions', id)
  <2>1. Once(assistants, id) /\ Numbered(versions, id) /\ Described(assistants, versions, id)
    BY <1>1, <1>8 DEF ClientOK
  <2>2. Place(id) \in Places(assistants, id)
    BY <1>4 DEF Places
  <2>3. PICK n \in Nat : {versions[i].version : i \in Places(versions, id)} = 1..n
    BY <2>1 DEF Numbered
  <2>4. n # 0
    <3>1. PICK i \in Places(versions, id) : TRUE
      BY <2>1, <2>2 DEF Described
    <3>2. versions[i].version \in 1..n
      BY <2>3
    <3> QED  BY <3>2
  <2>5. entry.version = n + 1
    BY <1>1, <1>2, <1>5, <2>3, <2>4, NextNumber
  <2>6. \A i \in Places(versions, id) : versions'[i] = versions[i] /\ versions[i].version \in 1..n
    BY <1>7, <2>3
  <2>7. Once(assistants', id)
    BY <1>6, <2>1 DEF Once
  <2>8. Described(assistants', versions', id)
    <3>1. \A p \in Places(assistants', id) : p = Place(id)
      BY <1>6, <2>1, <2>2 DEF Once
    <3>2. Len(versions) + 1 \in Places(versions', id)
      BY <1>7
    <3>3. \A p \in Places(assistants', id) : assistants'[p] = versions'[Len(versions) + 1]
      BY <1>6, <1>7, <3>1
    <3>4. Places(assistants', id) # {}
      BY <1>6, <2>2
    <3> QED  BY <3>2, <3>3, <3>4 DEF Described
  <2>9. Numbered(versions', id)
    <3>1. {versions'[i].version : i \in Places(versions', id)} = 1..(n + 1)
      <4>1. {versions'[i].version : i \in Places(versions', id)}
              = {versions[i].version : i \in Places(versions, id)} \cup {n + 1}
        BY <1>7, <2>5, <2>6
      <4>2. 1..(n + 1) = 1..n \cup {n + 1}
        OBVIOUS
      <4> QED  BY <2>3, <4>1, <4>2
    <3>2. ASSUME NEW i \in Places(versions', id), NEW j \in Places(versions', id),
                 versions'[i].version = versions'[j].version
          PROVE  i = j
      <4>1. CASE i \in Places(versions, id) /\ j \in Places(versions, id)
        BY <2>1, <2>6, <3>2, <4>1 DEF Numbered
      <4>2. CASE i = Len(versions) + 1 /\ j \in Places(versions, id)
        BY <1>7, <2>5, <2>6, <3>2, <4>2
      <4>3. CASE j = Len(versions) + 1 /\ i \in Places(versions, id)
        <5>1. versions'[j].version = n + 1 /\ versions'[i].version \in 1..n
          BY <1>7, <2>5, <2>6, <4>3
        <5> QED  BY <3>2, <5>1
      <4> QED  BY <1>7, <4>1, <4>2, <4>3
    <3> QED  BY <3>1, <3>2 DEF Numbered
  <2> QED  BY <2>7, <2>8, <2>9 DEF ClientOK
<1>9. ASSUME NEW x \in Ids, x # id
      PROVE  ClientOK(assistants', versions', x)
  <2>1. SameRecords(versions', versions, x)
    BY <1>1, <1>2, <1>3, <1>9, AppendOther
  <2> QED  BY <1>1, <1>6, <1>9, <2>1, ClientCarries
<1>10. ListsInv'
  BY <1>6, <1>7, <1>8, <1>9 DEF ListsInv
<1>11. ClientsStay
  BY <1>6 DEF ClientsStay
<1> QED  BY <1>10, <1>11

LEMMA SetLatestStep ==
  ASSUME ListsInv, NEW id \in Everyone, NEW number \in 1..MaxVersion, SetLatest(id, number)
  PROVE  ListsInv' /\ ClientsStay
<1>1. /\ assistants \in Seq(Assistant) /\ versions \in Seq(Assistant)
      /\ \A x \in Ids : ClientOK(assistants, versions, x)
  BY DEF ListsInv
<1>2. PICK i \in VersionsOf(id) :
        assistants' = [assistants EXCEPT ![Place(id)] = Recorded(@, versions[i])]
  BY DEF SetLatest
<1>3. Exists(id) /\ versions' = versions
  BY DEF SetLatest
<1>4. Place(id) \in 1..Len(assistants) /\ assistants[Place(id)].id = id
      /\ assistants[Place(id)] \in Assistant
  <2>1. Places(assistants, id) # {}
    BY <1>1, <1>3, InList DEF Exists
  <2>2. Place(id) \in 1..Len(assistants) /\ assistants[Place(id)].id = id
    BY <2>1 DEF Places, Place
  <2> QED  BY <1>1, <2>2, ElementOfSeq
<1> DEFINE entry == Recorded(assistants[Place(id)], versions[i])
<1>5. versions[i] \in Assistant /\ i \in Places(versions, id)
  BY <1>1, InList
<1>6. /\ entry \in Assistant /\ entry.id = id
      /\ entry.version = versions[i].version /\ entry.content = versions[i].content
  BY <1>4, <1>5 DEF Recorded, Assistant
<1>7. assistants' = [assistants EXCEPT ![Place(id)] = entry]
  BY <1>2
<1> HIDE DEF entry
<1>8. /\ assistants' \in Seq(Assistant) /\ assistants'[Place(id)] = entry
      /\ \A x : Places(assistants', x) = Places(assistants, x)
      /\ \A x : x # id => SameRecords(assistants', assistants, x)
  BY <1>1, <1>4, <1>6, <1>7, Overwritten
<1>9. ASSUME id \in Ids
      PROVE  ClientOK(assistants', versions', id)
  <2>1. Once(assistants, id) /\ Numbered(versions, id) /\ Described(assistants, versions, id)
    BY <1>1, <1>9 DEF ClientOK
  <2>2. Place(id) \in Places(assistants, id)
    BY <1>4 DEF Places
  <2>3. \A p \in Places(assistants', id) : p = Place(id)
    BY <1>8, <2>1, <2>2 DEF Once
  <2>4. Once(assistants', id)
    BY <2>3 DEF Once
  <2>5. Described(assistants', versions, id)
    BY <1>5, <1>6, <1>8, <2>2, <2>3 DEF Described
  <2> QED  BY <1>3, <2>1, <2>4, <2>5 DEF ClientOK
<1>10. ASSUME NEW x \in Ids, x # id
       PROVE  ClientOK(assistants', versions', x)
  <2>1. SameRecords(versions', versions, x)
    BY <1>3, SamePlaces
  <2> QED  BY <1>1, <1>8, <1>10, <2>1, ClientCarries
<1>11. ListsInv'
  BY <1>1, <1>3, <1>8, <1>9, <1>10 DEF ListsInv
<1>12. ClientsStay
  BY <1>8 DEF ClientsStay
<1> QED  BY <1>11, <1>12

\* A deletion takes the assistant and its versions out, and nothing of another's.
LEMMA DeleteLists ==
  ASSUME ListsInv, NEW id,
         assistants' = Only(assistants, Everyone \ {id}),
         versions' = Only(versions, Everyone \ {id})
  PROVE  /\ ListsInv'
         /\ \A x \in Ids \ {id} : Places(assistants, x) # {} => Places(assistants', x) # {}
<1>1. /\ assistants \in Seq(Assistant) /\ versions \in Seq(Assistant)
      /\ \A x \in Ids : ClientOK(assistants, versions, x)
  BY DEF ListsInv
<1>2. assistants' \in Seq(Assistant) /\ versions' \in Seq(Assistant)
  <2> DEFINE ids == Everyone \ {id}
  <2>1. assistants' = Only(assistants, ids) /\ versions' = Only(versions, ids)
    OBVIOUS
  <2> HIDE DEF ids
  <2> QED  BY <1>1, <2>1, OnlySome
<1>3. ASSUME NEW x \in Ids, x # id
      PROVE  /\ ClientOK(assistants', versions', x)
             /\ Places(assistants', x) = {} <=> Places(assistants, x) = {}
  <2>1. x \in Everyone \ {id}
    BY <1>3 DEF Everyone
  <2>2. SameRecords(assistants', assistants, x) /\ SameRecords(versions', versions, x)
    BY <1>1, <2>1, OnlySome
  <2> QED  BY <1>1, <2>2, ClientCarries, Carries
<1>4. ClientOK(assistants', versions', id)
  <2>1. id \notin Everyone \ {id}
    OBVIOUS
  <2>2. Places(assistants', id) = {} /\ Places(versions', id) = {}
    BY <1>1, <2>1, OnlySome
  <2> QED  BY <2>2, GoneIsOK
<1> QED  BY <1>2, <1>3, <1>4 DEF ListsInv

LEMMA TruncateLists ==
  ASSUME ListsInv, Truncate
  PROVE  ListsInv'
<1>1. assistants \in Seq(Assistant)
  BY DEF ListsInv
<1>2. assistants' = Only(assistants, SystemIds) /\ versions' = <<>>
  BY DEF Truncate
<1>3. assistants' \in Seq(Assistant)
  BY <1>1, <1>2, OnlySome
<1>4. versions' \in Seq(Assistant)
  BY <1>2
<1>5. ASSUME NEW x \in Ids PROVE ClientOK(assistants', versions', x)
  <2>1. x \notin SystemIds
    BY IdsAssumption
  <2>2. Places(assistants', x) = {}
    BY <1>1, <1>2, <2>1, OnlySome
  <2>3. Places(versions', x) = {}
    BY <1>2 DEF Places
  <2> QED  BY <2>2, <2>3, GoneIsOK
<1> QED  BY <1>3, <1>4, <1>5 DEF ListsInv

LEMMA RestartLists ==
  ASSUME ListsInv, NEW G \in SUBSET SystemIds, Restart(G)
  PROVE  ListsInv' /\ ClientsStay
<1>1. /\ assistants \in Seq(Assistant) /\ versions \in Seq(Assistant)
      /\ \A x \in Ids : ClientOK(assistants, versions, x)
  BY DEF ListsInv
<1> DEFINE stay == Remaining(assistants)
           more == Added(stay, G)
<1>2. assistants' = stay \o more /\ versions' = versions \o more
  BY DEF Restart, Start
<1>3. stay \in Seq(Assistant)
  BY <1>1, RemainingType
<1> HIDE DEF stay
<1>4. more \in Seq(Assistant) /\ \A id \in Ids : Places(more, id) = {}
  BY <1>3, AddedBySystem
<1> HIDE DEF more
<1>5. ASSUME NEW x \in Ids
      PROVE  /\ ClientOK(assistants', versions', x)
             /\ Places(assistants', x) = {} <=> Places(assistants, x) = {}
  <2>1. x \notin SystemIds
    BY IdsAssumption
  <2>2. SameRecords(stay, assistants, x)
    BY <1>1, <2>1, RemainingClients DEF stay
  <2>3. SameRecords(assistants', stay, x) /\ SameRecords(versions', versions, x)
    BY <1>1, <1>2, <1>3, <1>4, Behind
  <2>4. SameRecords(assistants', assistants, x)
    BY <2>2, <2>3, SameThrough
  <2> QED  BY <1>1, <2>3, <2>4, ClientCarries, Carries
<1>6. assistants' \in Seq(Assistant) /\ versions' \in Seq(Assistant)
  BY <1>1, <1>2, <1>3, <1>4, ConcatProperties
<1>7. ListsInv'
  BY <1>5, <1>6 DEF ListsInv
<1>8. ClientsStay
  BY <1>5 DEF ClientsStay
<1> QED  BY <1>7, <1>8

\* A step that leaves both lists alone.
LEMMA ListsFrame ==
  ASSUME ListsInv, assistants' = assistants, versions' = versions
  PROVE  ListsInv' /\ ClientsStay
BY DEF ListsInv, ClientsStay

-----------------------------------------------------------------------------
(* Steps on crons                                                            *)

\* The dates and plans of the crons that stay are what they were.
DatesStay ==
  \A k \in Stored \cap Stored' :
    crons'[k].date = crons[k].date /\ crons'[k].plan = crons[k].plan

\* What DateFollowsPlan and NoCronLeftBehind say of a step.
DatesFollow ==
  \A k \in Stored \cap Stored' :
    crons[k].date = crons[k].plan /\ crons'[k].date # crons'[k].plan =>
      \/ SetNextRunDate /\ scheduler.cron = k /\ scheduler.plan # crons[k].plan
      \/ \E zone \in Zones : RescheduleRejected(k, zone)
CronsGoAlong ==
  /\ \A id \in Ids : Exists(id) /\ ~Exists(id)' => \A k \in Stored' : crons'[k].assistant # id
  /\ \A t \in threads \ threads' : \A k \in Stored' : crons'[k].thread # t

LEMMA HandFrame ==
  ASSUME scheduler' = scheduler
  PROVE  InHand(scheduler)' = InHand(scheduler)
BY DEF InHand

LEMMA CronsFrame ==
  ASSUME CronsInv, crons' = crons, scheduler' = scheduler
  PROVE  CronsInv' /\ DatesStay
BY DEF CronsInv, HandIsKnown, InHand, DatesStay

LEMMA DatesStayFollow ==
  ASSUME DatesStay PROVE DatesFollow
BY DEF DatesStay, DatesFollow

\* Taking crons out of the list.
LEMMA WithoutStep ==
  ASSUME CronsInv, NEW C \in SUBSET Stored, crons' = Without(C), scheduler' = scheduler
  PROVE  /\ CronsInv' /\ DatesStay
         /\ \A k \in Stored' : k \in Stored \ C /\ crons'[k] = crons[k]
<1>1. /\ DOMAIN crons \subseteq CronIds /\ \A k \in DOMAIN crons : crons[k] \in Cron
      /\ InHand(scheduler) \subseteq DOMAIN crons
  BY DEF CronsInv, HandIsKnown
<1>2. /\ DOMAIN crons' = (DOMAIN crons \ C) \cup InHand(scheduler)
      /\ \A k \in DOMAIN crons' :
           crons'[k] = IF k \in C THEN [crons[k] EXCEPT !.stored = FALSE] ELSE crons[k]
  BY DEF Without
<1>3. \A k \in DOMAIN crons' : k \in DOMAIN crons
  BY <1>1, <1>2
<1>4. \A k \in DOMAIN crons : [crons[k] EXCEPT !.stored = FALSE] \in Cron
                              /\ [crons[k] EXCEPT !.stored = FALSE].stored = FALSE
  BY <1>1 DEF Cron
<1>5. \A k \in DOMAIN crons' : crons'[k] \in Cron /\ (k \in C => crons'[k].stored = FALSE)
  BY <1>1, <1>2, <1>3, <1>4
<1>6. ASSUME NEW k \in Stored' PROVE k \in Stored \ C /\ crons'[k] = crons[k]
  <2>1. k \in DOMAIN crons' /\ crons'[k].stored
    BY DEF Stored
  <2>2. k \notin C
    BY <1>5, <2>1
  <2> QED  BY <1>2, <1>3, <2>1, <2>2 DEF Stored
<1>7. DatesStay
  BY <1>6 DEF DatesStay
<1>8. CronsInv'
  <2>1. HandIsKnown'
    BY <1>2, HandFrame DEF HandIsKnown
  <2> QED  BY <1>1, <1>3, <1>5, <2>1 DEF CronsInv
<1> QED  BY <1>6, <1>7, <1>8

LEMMA NewCronStep ==
  ASSUME CronsInv, scheduler' = scheduler, NEW k \in CronIds, NEW id \in Everyone,
         NEW t \in Threads \cup {NoThread}, NEW plan \in Basis, NewCron(k, id, t, plan)
  PROVE  CronsInv' /\ DatesStay
<1>1. /\ DOMAIN crons \subseteq CronIds /\ \A j \in DOMAIN crons : crons[j] \in Cron
      /\ InHand(scheduler) \subseteq DOMAIN crons
  BY DEF CronsInv, HandIsKnown
<1>2. PICK active \in BOOLEAN : crons' = [j \in DOMAIN crons \cup {k} |->
       IF j # k THEN crons[j]
       ELSE [stored |-> TRUE, assistant |-> id, thread |-> t, plan |-> plan, date |-> plan,
             due |-> FALSE, active |-> active]]
  BY DEF NewCron
<1>3. [stored |-> TRUE, assistant |-> id, thread |-> t, plan |-> plan, date |-> plan,
       due |-> FALSE, active |-> active] \in Cron
  BY DEF Cron
<1>4. DOMAIN crons' = DOMAIN crons \cup {k} /\ \A j \in DOMAIN crons' : crons'[j] \in Cron
  BY <1>1, <1>2, <1>3
<1>5. k \notin Stored
  BY DEF NewCron
<1>6. DatesStay
  <2>1. \A j \in Stored : j # k /\ j \in DOMAIN crons
    BY <1>5 DEF Stored
  <2> QED  BY <1>2, <2>1 DEF DatesStay
<1>7. CronsInv'
  <2>1. HandIsKnown'
    BY <1>1, <1>4, HandFrame DEF HandIsKnown
  <2> QED  BY <1>1, <1>4, <2>1 DEF CronsInv
<1> QED  BY <1>6, <1>7

\* One stored cron is changed.
LEMMA UpdateStep ==
  ASSUME CronsInv, scheduler' = scheduler, NEW k \in Stored, NEW new \in Cron,
         crons' = [crons EXCEPT ![k] = new]
  PROVE  /\ CronsInv'
         /\ \A j \in Stored \cap Stored' : j # k => crons'[j] = crons[j]
         /\ crons'[k] = new
<1>1. /\ DOMAIN crons \subseteq CronIds /\ \A j \in DOMAIN crons : crons[j] \in Cron
      /\ InHand(scheduler) \subseteq DOMAIN crons
  BY DEF CronsInv, HandIsKnown
<1>2. k \in DOMAIN crons /\ \A j \in Stored : j \in DOMAIN crons
  BY DEF Stored
<1>3. /\ DOMAIN crons' = DOMAIN crons /\ crons'[k] = new
      /\ \A j \in DOMAIN crons : j # k => crons'[j] = crons[j]
  BY <1>2
<1>4. \A j \in DOMAIN crons' : crons'[j] \in Cron
  BY <1>1, <1>3
<1>5. CronsInv'
  <2>1. HandIsKnown'
    BY <1>1, <1>3, HandFrame DEF HandIsKnown
  <2> QED  BY <1>1, <1>3, <1>4, <2>1 DEF CronsInv
<1> QED  BY <1>2, <1>3, <1>5

\* The scheduler as what it is.
LEMMA SchedulerKinds ==
  ASSUME CronsInv
  PROVE  /\ scheduler = Idle \/ scheduler.pc = "scan" \/ scheduler.pc = "fire"
         /\ scheduler = Idle => InHand(scheduler) = {}
         /\ scheduler.pc = "scan" =>
              scheduler.todo \subseteq CronIds /\ InHand(scheduler) = scheduler.todo
         /\ scheduler.pc = "fire" =>
              /\ scheduler.todo \subseteq CronIds /\ InHand(scheduler) = scheduler.todo
              /\ scheduler.cron \in CronIds /\ scheduler.plan \in Basis
<1>1. scheduler \in {Idle} \cup Scanning \cup Firing
  BY DEF CronsInv
<1>2. CASE scheduler = Idle
  BY <1>2 DEF Idle, InHand
<1>3. CASE scheduler \in Scanning
  <2>1. scheduler.pc = "scan" /\ scheduler.todo \subseteq CronIds
    BY <1>3 DEF Scanning
  <2>2. scheduler # Idle
    BY <2>1 DEF Idle
  <2> QED  BY <2>1, <2>2 DEF InHand
<1>4. CASE scheduler \in Firing
  <2>1. /\ scheduler.pc = "fire" /\ scheduler.todo \subseteq CronIds
        /\ scheduler.cron \in CronIds /\ scheduler.plan \in Basis
    BY <1>4 DEF Firing
  <2>2. scheduler # Idle
    BY <2>1 DEF Idle
  <2> QED  BY <2>1, <2>2 DEF InHand
<1> QED  BY <1>1, <1>2, <1>3, <1>4

LEMMA ScanStep ==
  ASSUME CronsInv, Scan
  PROVE  CronsInv' /\ DatesStay
<1>1. scheduler' = [pc |-> "scan", todo |-> Stored] /\ crons' = crons
  BY DEF Scan
<1>2. Stored \subseteq DOMAIN crons /\ DOMAIN crons \subseteq CronIds
  BY DEF Stored, CronsInv
<1>3. scheduler' \in Scanning
  BY <1>1, <1>2 DEF Scanning
<1>4. HandIsKnown'
  BY <1>1, <1>2 DEF HandIsKnown, InHand
<1> QED  BY <1>1, <1>3, <1>4 DEF CronsInv, DatesStay

LEMMA NextCronStep ==
  ASSUME CronsInv, NextCron
  PROVE  CronsInv' /\ DatesStay
<1>1. /\ DOMAIN crons \subseteq CronIds /\ \A j \in DOMAIN crons : crons[j] \in Cron
      /\ scheduler.todo \subseteq DOMAIN crons
  BY SchedulerKinds DEF CronsInv, HandIsKnown, NextCron
<1>2. CASE scheduler.todo = {} /\ scheduler' = Idle /\ UNCHANGED crons
  <2>1. HandIsKnown'
    BY <1>2 DEF HandIsKnown, InHand
  <2> QED  BY <1>2, <2>1 DEF CronsInv, DatesStay
<1>3. ASSUME NEW k \in scheduler.todo,
             crons' = [j \in Stored \cup (scheduler.todo \ {k}) |-> crons[j]],
             scheduler' = IF crons[k].active /\ crons[k].due
                          THEN [pc |-> "fire", todo |-> scheduler.todo \ {k}, cron |-> k,
                                plan |-> crons[k].plan]
                          ELSE [pc |-> "scan", todo |-> scheduler.todo \ {k}]
      PROVE  CronsInv' /\ DatesStay
  <2>1. \A j \in Stored \cup (scheduler.todo \ {k}) : j \in DOMAIN crons
    BY <1>1 DEF Stored
  <2>2. k \in CronIds /\ crons[k].plan \in Basis
    BY <1>1 DEF Cron
  <2>3. scheduler' \in Scanning \cup Firing /\ InHand(scheduler') = scheduler.todo \ {k}
    <3>1. CASE crons[k].active /\ crons[k].due
      BY <1>1, <1>3, <2>2, <3>1 DEF Firing, InHand, Idle
    <3>2. CASE ~(crons[k].active /\ crons[k].due)
      BY <1>1, <1>3, <3>2 DEF Scanning, InHand, Idle
    <3> QED  BY <3>1, <3>2
  <2>4. HandIsKnown'
    BY <1>3, <2>3 DEF HandIsKnown
  <2>5. CronsInv'
    BY <1>1, <1>3, <2>1, <2>3, <2>4 DEF CronsInv
  <2>6. DatesStay
    BY <1>3 DEF DatesStay
  <2> QED  BY <2>5, <2>6
<1> QED  BY <1>2, <1>3 DEF NextCron

LEMMA SetNextRunDateStep ==
  ASSUME CronsInv, SetNextRunDate
  PROVE  CronsInv' /\ DatesFollow
<1>1. /\ DOMAIN crons \subseteq CronIds /\ \A j \in DOMAIN crons : crons[j] \in Cron
      /\ scheduler.todo \subseteq DOMAIN crons /\ scheduler.todo \subseteq CronIds
      /\ scheduler.plan \in Basis /\ scheduler.pc = "fire"
  BY SchedulerKinds DEF CronsInv, HandIsKnown, SetNextRunDate
<1>2. scheduler' \in Scanning /\ InHand(scheduler') = scheduler.todo
  BY <1>1 DEF SetNextRunDate, Scanning, InHand, Idle
<1>3. CASE scheduler.cron \in Stored
  <2> DEFINE c == scheduler.cron
             new == [crons[c] EXCEPT !.date = scheduler.plan, !.due = FALSE]
  <2>1. crons' = [crons EXCEPT ![c] = new]
    BY <1>3 DEF SetNextRunDate
  <2>2. c \in DOMAIN crons /\ crons[c] \in Cron
    BY <1>1, <1>3 DEF Stored
  <2>3. new \in Cron /\ new.date = scheduler.plan /\ new.plan = crons[c].plan
    BY <1>1, <2>2 DEF Cron
  <2> HIDE DEF new
  <2>4. /\ DOMAIN crons' = DOMAIN crons /\ crons'[c] = new
        /\ \A j \in DOMAIN crons : j # c => crons'[j] = crons[j]
    BY <2>1, <2>2
  <2>5. CronsInv'
    <3>1. HandIsKnown'
      BY <1>1, <1>2, <2>4 DEF HandIsKnown
    <3> QED  BY <1>1, <1>2, <2>3, <2>4, <3>1 DEF CronsInv
  <2>6. DatesFollow
    <3> SUFFICES ASSUME NEW k \in Stored, crons[k].date = crons[k].plan,
                        crons'[k].date # crons'[k].plan
                 PROVE  scheduler.cron = k /\ scheduler.plan # crons[k].plan
      BY DEF DatesFollow
    <3>1. k \in DOMAIN crons
      BY DEF Stored
    <3>2. k = c
      BY <2>4, <3>1
    <3> QED  BY <2>3, <2>4, <3>2
  <2> QED  BY <2>5, <2>6
<1>4. CASE scheduler.cron \notin Stored
  <2>1. crons' = crons
    BY <1>4 DEF SetNextRunDate
  <2>2. HandIsKnown'
    BY <1>1, <1>2, <2>1 DEF HandIsKnown
  <2> QED  BY <1>1, <1>2, <2>1, <2>2 DEF CronsInv, DatesFollow
<1> QED  BY <1>3, <1>4

-----------------------------------------------------------------------------
(* All steps                                                                 *)

\* What is shown of a step.
Sound == AllInv' /\ DatesFollow /\ CronsGoAlong

\* When no client's assistant and no thread goes away.
LEMMA NothingGoes ==
  ASSUME ListsInv, ListsInv', ClientsStay, threads' = threads
  PROVE  CronsGoAlong
<1>1. assistants \in Seq(Assistant) /\ assistants' \in Seq(Assistant)
  BY DEF ListsInv
<1>2. ASSUME NEW id \in Ids, Exists(id) PROVE Exists(id)'
  <2>1. Places(assistants, id) # {}
    BY <1>1, <1>2, InList DEF Exists
  <2>2. Places(assistants', id) # {}
    BY <2>1 DEF ClientsStay
  <2> QED  BY <1>1, <2>2, InList DEF Exists
<1> QED  BY <1>2 DEF CronsGoAlong

\* An operation on the lists alone.
LEMMA OnLists ==
  ASSUME AllInv, ListsInv', ClientsStay,
         UNCHANGED <<crons, threads, request, scheduler, restarts>>
  PROVE  Sound
<1>1. ListsInv /\ CronsInv /\ RestInv
  BY DEF AllInv
<1>2. CronsInv' /\ DatesFollow
  BY <1>1, CronsFrame, DatesStayFollow
<1>3. RestInv'
  BY <1>1 DEF RestInv
<1>4. CronsGoAlong
  BY <1>1, NothingGoes
<1> QED  BY <1>2, <1>3, <1>4 DEF Sound, AllInv

\* An operation on crons, and perhaps a request, while assistants and threads stay.
LEMMA OnCrons ==
  ASSUME AllInv, CronsInv', DatesFollow, RestInv',
         UNCHANGED <<assistants, versions, threads>>
  PROVE  Sound
<1>1. ListsInv
  BY DEF AllInv
<1>2. ListsInv' /\ ClientsStay
  BY <1>1, ListsFrame
<1>3. CronsGoAlong
  BY <1>1, <1>2, NothingGoes
<1> QED  BY <1>2, <1>3 DEF Sound, AllInv

LEMMA RestFrame ==
  ASSUME AllInv, UNCHANGED <<threads, request, restarts>>
  PROVE  RestInv'
BY DEF AllInv, RestInv

LEMMA RequestEnds ==
  ASSUME AllInv, NEW q \in Requests, NEW r \in {Idle} \cup Deleting \cup Scheduling,
         request' = [request EXCEPT ![q] = r], UNCHANGED <<threads, restarts>>
  PROVE  RestInv'
BY DEF AllInv, RestInv

LEMMA RequestKinds ==
  ASSUME AllInv, NEW q \in Requests
  PROVE  /\ request[q].pc = "delete" => request[q].id \in Everyone
         /\ request[q].pc = "cron" =>
              /\ request[q].cron \in CronIds /\ request[q].id \in Everyone
              /\ request[q].thread \in Threads /\ request[q].plan \in Basis
<1>1. request[q] \in {Idle} \cup Deleting \cup Scheduling
  BY DEF AllInv, RestInv
<1> QED  BY <1>1 DEF Idle, Deleting, Scheduling

LEMMA DeleteFinishStep ==
  ASSUME AllInv, NEW q \in Requests, DeleteFinish(q)
  PROVE  Sound
<1> DEFINE id == request[q].id
<1>1. ListsInv /\ CronsInv /\ id \in Everyone
  BY RequestKinds DEF AllInv, DeleteFinish
<1>2. /\ assistants' = Only(assistants, Everyone \ {id})
      /\ versions' = Only(versions, Everyone \ {id})
      /\ crons' = Without(CronsOf(id)) /\ request' = [request EXCEPT ![q] = Idle]
      /\ UNCHANGED <<threads, scheduler, restarts>>
  BY DEF DeleteFinish
<1> HIDE DEF id
<1>3. /\ ListsInv'
      /\ \A x \in Ids \ {id} : Places(assistants, x) # {} => Places(assistants', x) # {}
  BY <1>1, <1>2, DeleteLists
<1>4. CronsOf(id) \in SUBSET Stored
  BY DEF CronsOf
<1>5. /\ CronsInv' /\ DatesStay
      /\ \A k \in Stored' : k \in Stored \ CronsOf(id) /\ crons'[k] = crons[k]
  BY <1>1, <1>2, <1>4, WithoutStep
<1>6. RestInv'
  BY <1>2, RequestEnds
<1>7. CronsGoAlong
  <2>1. \A k \in Stored' : crons'[k].assistant # id
    BY <1>5 DEF CronsOf
  <2>2. ASSUME NEW x \in Ids, Exists(x), ~Exists(x)' PROVE x = id
    <3>1. assistants \in Seq(Assistant) /\ assistants' \in Seq(Assistant)
      BY <1>1, <1>3 DEF ListsInv
    <3>2. Places(assistants, x) # {} /\ Places(assistants', x) = {}
      BY <2>2, <3>1, InList DEF Exists
    <3> QED  BY <1>3, <3>2
  <2> QED  BY <1>2, <2>1, <2>2 DEF CronsGoAlong
<1> QED  BY <1>3, <1>5, <1>6, <1>7, DatesStayFollow DEF Sound, AllInv

LEMMA TruncateStep ==
  ASSUME AllInv, Truncate
  PROVE  Sound
<1>1. ListsInv /\ CronsInv /\ RestInv
  BY DEF AllInv
<1>2. ListsInv'
  BY <1>1, TruncateLists
<1>3. /\ restarts < MaxRestarts /\ restarts' = restarts + 1 /\ threads' = {}
      /\ crons' = Without(Stored) /\ UNCHANGED <<request, scheduler>>
  BY DEF Truncate
<1>4. CronsInv' /\ DatesStay /\ \A k \in Stored' : k \in Stored \ Stored
  BY <1>1, <1>3, WithoutStep
<1>5. RestInv'
  BY <1>1, <1>3, MaxAssumption DEF RestInv
<1>6. CronsGoAlong
  BY <1>4 DEF CronsGoAlong
<1> QED  BY <1>2, <1>4, <1>5, <1>6, DatesStayFollow DEF Sound, AllInv

LEMMA RestartStep ==
  ASSUME AllInv, NEW G \in SUBSET SystemIds, Restart(G)
  PROVE  Sound
<1>1. ListsInv /\ CronsInv /\ RestInv
  BY DEF AllInv
<1>2. ListsInv' /\ ClientsStay
  BY <1>1, RestartLists
<1>3. /\ restarts < MaxRestarts /\ restarts' = restarts + 1 /\ threads' = threads
      /\ crons' = [k \in Stored |-> crons[k]] /\ scheduler' = Idle
      /\ request' = [q \in Requests |-> Idle]
  BY DEF Restart
<1>4. CronsInv' /\ DatesStay
  <2>1. Stored \subseteq DOMAIN crons
    BY DEF Stored
  <2>2. HandIsKnown'
    BY <1>3 DEF HandIsKnown, InHand
  <2> QED  BY <1>1, <1>3, <2>1, <2>2 DEF CronsInv, DatesStay
<1>5. RestInv'
  BY <1>1, <1>3, MaxAssumption DEF RestInv
<1> QED  BY <1>1, <1>2, <1>3, <1>4, <1>5, NothingGoes, DatesStayFollow DEF Sound, AllInv

LEMMA DeleteThreadStep ==
  ASSUME AllInv, NEW t \in Threads, DeleteThread(t)
  PROVE  Sound
<1> DEFINE C == {k \in Stored : crons[k].thread = t}
<1>1. ListsInv /\ CronsInv /\ RestInv
  BY DEF AllInv
<1>2. /\ threads' = threads \ {t} /\ crons' = Without(C)
      /\ UNCHANGED <<assistants, versions, request, scheduler, restarts>>
  BY DEF DeleteThread
<1>3. \A k \in Stored \ C : crons[k].thread # t
  OBVIOUS
<1>4. C \in SUBSET Stored
  OBVIOUS
<1> HIDE DEF C
<1>5. /\ CronsInv' /\ DatesStay
      /\ \A k \in Stored' : k \in Stored \ C /\ crons'[k] = crons[k]
  BY <1>1, <1>2, <1>4, WithoutStep
<1>6. ListsInv' /\ RestInv'
  BY <1>1, <1>2, ListsFrame DEF RestInv
<1>7. CronsGoAlong
  <2>1. \A id \in Ids : Exists(id)' = Exists(id)
    BY <1>2 DEF Exists
  <2> QED  BY <1>2, <1>3, <1>5, <2>1 DEF CronsGoAlong
<1> QED  BY <1>5, <1>6, <1>7, DatesStayFollow DEF Sound, AllInv

\* The requests, and the operations of clients on crons.
LEMMA PutCronStep ==
  ASSUME AllInv, NEW k \in CronIds, NEW id \in Everyone, NEW plan \in Basis, PutCron(k, id, plan)
  PROVE  Sound
<1>1. /\ NewCron(k, id, NoThread, plan)
      /\ UNCHANGED <<assistants, versions, threads, request, scheduler, restarts>>
  BY DEF PutCron
<1>2. CronsInv' /\ DatesStay
  BY <1>1, NewCronStep DEF AllInv
<1> QED  BY <1>1, <1>2, DatesStayFollow, RestFrame, OnCrons

LEMMA PutCronFinishStep ==
  ASSUME AllInv, NEW q \in Requests, PutCronFinish(q)
  PROVE  Sound
<1>1. /\ request[q].pc = "cron" /\ request' = [request EXCEPT ![q] = Idle]
      /\ UNCHANGED <<assistants, versions, threads, scheduler, restarts>>
  BY DEF PutCronFinish
<1>2. RestInv'
  BY <1>1, RequestEnds
<1>3. CronsInv
  BY DEF AllInv
<1>4. CronsInv' /\ DatesStay
  <2>1. CASE crons' = crons
    BY <1>1, <1>3, <2>1, CronsFrame
  <2>2. CASE NewCron(request[q].cron, request[q].id, request[q].thread, request[q].plan)
    <3>1. /\ request[q].cron \in CronIds /\ request[q].id \in Everyone
          /\ request[q].thread \in Threads \cup {NoThread} /\ request[q].plan \in Basis
      BY <1>1, RequestKinds
    <3> QED  BY <1>1, <1>3, <2>2, <3>1, NewCronStep
  <2> QED  BY <2>1, <2>2 DEF PutCronFinish
<1> QED  BY <1>1, <1>2, <1>4, DatesStayFollow, OnCrons

LEMMA RequestStartStep ==
  ASSUME AllInv, NEW q \in Requests, NEW r \in Deleting \cup Scheduling,
         request' = [request EXCEPT ![q] = r],
         UNCHANGED <<assistants, versions, crons, threads, scheduler, restarts>>
  PROVE  Sound
<1>1. RestInv'
  BY RequestEnds
<1>2. CronsInv' /\ DatesStay
  BY CronsFrame DEF AllInv
<1> QED  BY <1>1, <1>2, DatesStayFollow, OnCrons

LEMMA UpdateCronStep ==
  ASSUME AllInv, NEW k \in CronIds, NEW new \in Cron, UpdateCron(k, new),
         \/ new.date = crons[k].date /\ new.plan = crons[k].plan
         \/ new.date = new.plan
         \/ \E zone \in Zones : RescheduleRejected(k, zone)
  PROVE  Sound
<1>1. /\ k \in Stored /\ crons' = [crons EXCEPT ![k] = new]
      /\ UNCHANGED <<assistants, versions, threads, request, scheduler, restarts>>
  BY DEF UpdateCron
<1>2. CronsInv
  BY DEF AllInv
<1>3. /\ CronsInv' /\ crons'[k] = new
      /\ \A j \in Stored \cap Stored' : j # k => crons'[j] = crons[j]
  BY <1>1, <1>2, UpdateStep
<1>4. DatesFollow
  <2> SUFFICES ASSUME NEW j \in Stored \cap Stored', crons[j].date = crons[j].plan,
                      crons'[j].date # crons'[j].plan
               PROVE  \E zone \in Zones : RescheduleRejected(j, zone)
    BY DEF DatesFollow
  <2>1. j = k
    BY <1>3
  <2> QED  BY <1>3, <2>1
<1> QED  BY <1>1, <1>3, <1>4, RestFrame, OnCrons

LEMMA StoredCron ==
  ASSUME AllInv, NEW k \in Stored
  PROVE  crons[k] \in Cron
BY DEF AllInv, CronsInv, Stored

LEMMA RescheduleStep ==
  ASSUME AllInv, NEW k \in CronIds, NEW plan \in Basis, Reschedule(k, plan)
  PROVE  Sound
<1>1. UpdateCron(k, Replanned(crons[k], plan)) /\ k \in Stored
  BY DEF Reschedule, UpdateCron
<1>2. crons[k] \in Cron
  BY <1>1, StoredCron
<1>3. Replanned(crons[k], plan) \in Cron
      /\ Replanned(crons[k], plan).date = Replanned(crons[k], plan).plan
  BY <1>2 DEF Replanned, Cron
<1> QED  BY <1>1, <1>3, UpdateCronStep

LEMMA RejectedStep ==
  ASSUME AllInv, NEW k \in CronIds, NEW zone \in Zones, RescheduleRejected(k, zone)
  PROVE  Sound
<1>1. UpdateCron(k, [crons[k] EXCEPT !.plan.zone = zone]) /\ k \in Stored
  BY DEF RescheduleRejected, UpdateCron
<1>2. crons[k] \in Cron
  BY <1>1, StoredCron
<1>3. [crons[k] EXCEPT !.plan.zone = zone] \in Cron
  BY <1>2 DEF Cron, Basis
<1> QED  BY <1>1, <1>3, UpdateCronStep

LEMMA SwitchStep ==
  ASSUME AllInv, NEW k \in CronIds, NEW active \in BOOLEAN, Switch(k, active)
  PROVE  Sound
<1>1. UpdateCron(k, [crons[k] EXCEPT !.active = active]) /\ k \in Stored
  BY DEF Switch, UpdateCron
<1>2. crons[k] \in Cron
  BY <1>1, StoredCron
<1>3. /\ [crons[k] EXCEPT !.active = active] \in Cron
      /\ [crons[k] EXCEPT !.active = active].date = crons[k].date
      /\ [crons[k] EXCEPT !.active = active].plan = crons[k].plan
  BY <1>2 DEF Cron
<1> QED  BY <1>1, <1>3, UpdateCronStep

LEMMA TimePassesStep ==
  ASSUME AllInv, NEW k \in CronIds, TimePasses(k)
  PROVE  Sound
<1>1. k \in Stored /\ crons[k] \in Cron
  BY StoredCron DEF TimePasses
<1> DEFINE late == [crons[k] EXCEPT !.due = TRUE]
           over == [crons[k] EXCEPT !.active = FALSE]
<1>2. /\ late \in Cron /\ late.date = crons[k].date /\ late.plan = crons[k].plan
      /\ over \in Cron /\ over.date = crons[k].date /\ over.plan = crons[k].plan
  BY <1>1 DEF Cron
<1>3. UpdateCron(k, late) \/ UpdateCron(k, over)
  BY <1>1 DEF TimePasses, UpdateCron
<1> HIDE DEF late, over
<1> QED  BY <1>2, <1>3, UpdateCronStep

LEMMA DeleteCronStep ==
  ASSUME AllInv, NEW k \in CronIds, DeleteCron(k)
  PROVE  Sound
<1>1. /\ k \in Stored /\ crons' = Without({k})
      /\ UNCHANGED <<assistants, versions, threads, request, scheduler, restarts>>
  BY DEF DeleteCron
<1>2. {k} \in SUBSET Stored
  BY <1>1
<1>3. CronsInv' /\ DatesStay
  BY <1>1, <1>2, WithoutStep DEF AllInv
<1> QED  BY <1>1, <1>3, DatesStayFollow, RestFrame, OnCrons

LEMMA SchedulerStep ==
  ASSUME AllInv, Scan \/ NextCron \/ SetNextRunDate
  PROVE  Sound
<1>1. UNCHANGED <<assistants, versions, threads, request, restarts>>
  BY DEF Scan, NextCron, SetNextRunDate
<1>2. CronsInv
  BY DEF AllInv
<1>3. CronsInv' /\ DatesFollow
  BY <1>2, ScanStep, NextCronStep, SetNextRunDateStep, DatesStayFollow
<1> QED  BY <1>1, <1>3, RestFrame, OnCrons

-----------------------------------------------------------------------------
(* The theorems                                                              *)

LEMMA InitSound ==
  ASSUME Init
  PROVE  AllInv
<1>1. PICK G \in SUBSET SystemIds : assistants = Added(<<>>, G) /\ versions = Added(<<>>, G)
  BY DEF Init
<1>2. <<>> \in Seq(Assistant)
  OBVIOUS
<1>3. /\ assistants \in Seq(Assistant) /\ versions \in Seq(Assistant)
      /\ \A id \in Ids : Places(assistants, id) = {} /\ Places(versions, id) = {}
  BY <1>1, <1>2, AddedBySystem
<1>4. ListsInv
  BY <1>3, GoneIsOK DEF ListsInv
<1>5. CronsInv
  BY DEF Init, CronsInv, HandIsKnown, InHand
<1>6. RestInv
  BY MaxAssumption DEF Init, RestInv
<1> QED  BY <1>4, <1>5, <1>6 DEF AllInv

LEMMA EveryStep ==
  ASSUME AllInv, [Next]_vars
  PROVE  Sound
<1>1. ASSUME NEW id \in Ids, NEW text \in Contents, NEW rest \in Rests, Put(id, text, rest)
      PROVE  Sound
  <2>1. UNCHANGED <<crons, threads, request, scheduler, restarts>>
    BY <1>1 DEF Put
  <2> QED  BY <1>1, <2>1, PutStep, OnLists DEF AllInv
<1>2. ASSUME NEW id \in Patched, NEW text \in Contents, NEW rest \in Rests,
             Patch(id, text, rest)
      PROVE  Sound
  <2>1. UNCHANGED <<crons, threads, request, scheduler, restarts>>
    BY <1>2 DEF Patch
  <2> QED  BY <1>2, <2>1, PatchStep, OnLists DEF AllInv
<1>3. ASSUME NEW id \in Everyone, NEW number \in 1..MaxVersion, SetLatest(id, number)
      PROVE  Sound
  <2>1. UNCHANGED <<crons, threads, request, scheduler, restarts>>
    BY <1>3 DEF SetLatest
  <2> QED  BY <1>3, <2>1, SetLatestStep, OnLists DEF AllInv
<1>4. ASSUME NEW q \in Requests, NEW id \in Everyone, DeleteStart(q, id)
      PROVE  Sound
  <2>1. [pc |-> "delete", id |-> id] \in Deleting
    BY DEF Deleting
  <2> QED  BY <1>4, <2>1, RequestStartStep DEF DeleteStart
<1>5. ASSUME NEW q \in Requests, NEW k \in CronIds, NEW id \in Everyone, NEW t \in Threads,
             NEW plan \in Basis, PutCronStart(q, k, id, t, plan)
      PROVE  Sound
  <2>1. [pc |-> "cron", cron |-> k, id |-> id, thread |-> t, plan |-> plan] \in Scheduling
    BY DEF Scheduling
  <2> QED  BY <1>5, <2>1, RequestStartStep DEF PutCronStart
<1>6. ASSUME NEW q \in Requests, DeleteFinish(q) \/ PutCronFinish(q)
      PROVE  Sound
  BY <1>6, DeleteFinishStep, PutCronFinishStep
<1>7. ASSUME NEW t \in Threads, DeleteThread(t)
      PROVE  Sound
  BY <1>7, DeleteThreadStep
<1>8. ASSUME NEW k \in CronIds, NEW id \in Everyone, NEW plan \in Basis, PutCron(k, id, plan)
      PROVE  Sound
  BY <1>8, PutCronStep
<1>9. ASSUME NEW k \in CronIds,
             \/ \E plan \in Basis : Reschedule(k, plan)
             \/ \E zone \in Zones : RescheduleRejected(k, zone)
             \/ \E active \in BOOLEAN : Switch(k, active)
             \/ DeleteCron(k) \/ TimePasses(k)
      PROVE  Sound
  BY <1>9, RescheduleStep, RejectedStep, SwitchStep, DeleteCronStep, TimePassesStep
<1>10. ASSUME NEW G \in SUBSET SystemIds, Restart(G)
       PROVE  Sound
  BY <1>10, RestartStep
<1>11. CASE UNCHANGED vars
  <2>1. UNCHANGED <<assistants, versions, threads, request, restarts>>
        /\ crons' = crons /\ scheduler' = scheduler
    BY <1>11 DEF vars
  <2>2. CronsInv' /\ DatesFollow
    BY <2>1, CronsFrame, DatesStayFollow DEF AllInv
  <2> QED  BY <2>1, <2>2, RestFrame, OnCrons
<1> QED
  BY <1>1, <1>2, <1>3, <1>4, <1>5, <1>6, <1>7, <1>8, <1>9, <1>10, <1>11, SchedulerStep,
     TruncateStep DEF Next

\* The inductive invariant, for any constants.
THEOREM AssistantsInductive == Spec => []AllInv
<1>1. Init => AllInv
  BY InitSound
<1>2. AllInv /\ [Next]_vars => AllInv'
  BY EveryStep DEF Sound
<1> QED  BY <1>1, <1>2, PTL DEF Spec

\* The versions of each client's assistant are 1, 2, ... without gap or repetition, and
\* it is what the record of its version says (Assistants.put, patch, set_latest, delete,
\* the start of the store).
THEOREM AssistantsInvariant == Spec => []AssistantsInv
<1>1. AllInv => AssistantsInv
  BY AllInvMeans
<1> QED  BY <1>1, AssistantsInductive, PTL

\* No cron is left of an assistant of a client, or of a thread, that goes away
\* (Assistants.delete, Threads.delete).
THEOREM CronsGoToo == Spec => NoCronLeftBehind
<1> DEFINE A == CronsGoAlong
<1>1. AllInv /\ [Next]_vars => [A]_vars
  BY EveryStep DEF Sound
<1>2. Spec => [][A]_vars
  BY <1>1, AssistantsInductive, PTL DEF Spec
<1> QED  BY <1>2 DEF NoCronLeftBehind, CronsGoAlong

\* The next date of a cron follows from its schedule and zone, until the scheduler
\* overwrites it with one computed before they changed, or an update is rejected
\* half-way (Crons.update, Crons.set_next_run_date).
THEOREM DatesFollowPlans == Spec => DateFollowsPlan
<1> DEFINE A == DatesFollow
<1>1. AllInv /\ [Next]_vars => [A]_vars
  BY EveryStep DEF Sound
<1>2. Spec => [][A]_vars
  BY <1>1, AssistantsInductive, PTL DEF Spec
<1> QED  BY <1>2 DEF DateFollowsPlan, DatesFollow

=============================================================================
