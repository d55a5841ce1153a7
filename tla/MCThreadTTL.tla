---------------------------- MODULE MCThreadTTL -----------------------------
(* Small instances of ThreadTTL. *)
EXTENDS ThreadTTL, TLC

KeepAtOnce == [strategy |-> "keep_latest", ttl |-> 0]
KeepAfterOne == [strategy |-> "keep_latest", ttl |-> 1]
DeleteAfterOne == [strategy |-> "delete", ttl |-> 1]
BothOverrides == {KeepAfterOne, DeleteAfterOne}
=============================================================================
