---------------------------- MODULE RunLifecycle ----------------------------
(***************************************************************************)
(* What the run queue promises its callers, without threads' objects,      *)
(* tokens, the scan, suspended requests or time: the life of a run, who    *)
(* executes it, and that a thread has one running run.  RunQueue           *)
(* implements it.                                                          *)
(***************************************************************************)
CONSTANTS Runs, Threads, None

VARIABLES
  phase,      \* what a caller sees of each run
  on,         \* the thread of each run
  executing   \* runs with a worker that has not reported yet

lifeVars == <<phase, on, executing>>

Phases == {"unborn", "waiting", "running", "over", "gone"}

LifeInit ==
  /\ phase = [r \in Runs |-> "unborn"]
  /\ on = [r \in Runs |-> None]
  /\ executing = {}

\* A run is put into the queue of its thread.
Submit(r, t) ==
  /\ phase[r] = "unborn"
  /\ phase' = [phase EXCEPT ![r] = "waiting"]
  /\ on' = [on EXCEPT ![r] = t]
  /\ UNCHANGED executing

\* A run gets a worker while no run of its thread is running and no other worker
\* has still to report on it; one that has requeued it may be winding down.  It
\* waited, or it was removed after the scan had picked it: then its worker will
\* find nothing to report to, and the run stays gone.
Start(r) ==
  /\ phase[r] \in {"waiting", "gone"} /\ r \notin executing
  /\ \A q \in Runs : on[q] = on[r] => phase[q] # "running"
  /\ phase' = [phase EXCEPT ![r] = IF @ = "gone" THEN "gone" ELSE "running"]
  /\ executing' = executing \cup {r}
  /\ UNCHANGED on

\* A worker reports: it has ended or requeued its run, or removed it, or found
\* nothing to report to.
Stop(r, p) ==
  /\ r \in executing
  /\ executing' = executing \ {r}
  /\ \/ phase[r] # "gone" /\ p \in {"waiting", "over", "gone"}
     \/ p = phase[r]
  /\ phase' = [phase EXCEPT ![r] = p]
  /\ UNCHANGED on

\* Runs that wait or run are cancelled; their workers hear of it later.
Cancel(S) ==
  /\ \A r \in S : phase[r] \in {"waiting", "running"}
  /\ UNCHANGED <<on, executing>>
  /\ phase' = [r \in Runs |-> IF r \in S THEN "over" ELSE phase[r]]

\* Runs are deleted, by themselves or with their thread.
Remove(S) ==
  /\ \A r \in S : phase[r] # "unborn"
  /\ UNCHANGED <<on, executing>>
  /\ phase' = [r \in Runs |-> IF r \in S THEN "gone" ELSE phase[r]]

\* The process starts anew: nothing is being executed.
Restart == executing' = {} /\ UNCHANGED <<phase, on>>

LifeNext ==
  \/ \E S \in SUBSET Runs : Cancel(S) \/ Remove(S)
  \/ \E r \in Runs :
       \/ \E t \in Threads : Submit(r, t)
       \/ Start(r)
       \/ \E p \in Phases : Stop(r, p)
  \/ Restart

LifeSpec == LifeInit /\ [][LifeNext]_lifeVars
=============================================================================
