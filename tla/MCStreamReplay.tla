---------------------------- MODULE MCStreamReplay ----------------------------
(* Small instances of StreamReplay. *)
EXTENDS StreamReplay, TLC

Symmetry == Permutations(Runs)

\* Readers and watchers do not touch each other: a behaviour has the one or the
\* other, a reader with three messages of its run, a watcher with two of each run (to
\* a watcher a done message is one like others).
OneKind ==
  \/ /\ \A w \in Watchers : watcher[w] = Away
     /\ \A s \in Sources : published[s] # <<>> => \E c \in Readers : reader[c].run = s
  \/ /\ \A c \in Readers : reader[c].pc = "off" /\ reader[c].last = None
     /\ \A r \in Runs : Len(published[r]) <= 2 /\ \A n \in Numbers(r) : ~published[r][n].done
     /\ Len(published[Thread]) <= 1
=============================================================================
