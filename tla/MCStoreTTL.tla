------------------------------ MODULE MCStoreTTL ------------------------------
(* Small instances of StoreTTL. *)
EXTENDS StoreTTL, TLC
=============================================================================
