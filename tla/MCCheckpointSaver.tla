------------------------- MODULE MCCheckpointSaver --------------------------
(* Small instances of CheckpointSaver. *)
EXTENDS CheckpointSaver, TLC

Symmetry == Permutations(Channels)
=============================================================================
