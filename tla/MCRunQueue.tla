----------------------------- MODULE MCRunQueue -----------------------------
(* Small instances of RunQueue. *)
EXTENDS RunQueue, TLC

HazardOps == {"put", "create", "delete_thread", "interrupt"}
SteadyOps == {"put", "delay", "put_create", "patch", "delete_run", "rollback", "state"}
DeleteOps == {"create", "delete_thread"}
PutOps == {"put", "create"}

\* Bounds.  One run may leave the store, by whatever way; and in queue_hazards nothing is
\* put or deleted after the restart: the scheduler, the workers, cancellations and the
\* creation of threads go on with the runs there are.
OneLeaves == Cardinality({r \in Runs \ stored : status[r] # "unborn"}) <= 1
NoRequestAfterRestart == crashes = 0 \/ \A c \in Clients : client[c].pc = "idle"

Symmetry == Permutations(Runs) \cup Permutations(Threads) \cup Permutations(Clients)
=============================================================================
