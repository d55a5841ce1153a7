---------------------------- MODULE MCPersistence ----------------------------
(* Small instances of Persistence. *)
EXTENDS Persistence, TLC

AllOps == {"configure", "read", "fail", "stop", "crash", "unreadable"}
=============================================================================
