SPECIFICATION Spec
CONSTANTS
  Runs = {r1, r2, r3}
  Threads = {t1, t2}
  Clients = {c1}
  None = None
  Concurrency = 2
  MaxAttempts = 2
  MaxObjects = 2
  MaxCrashes = 0
  Isolated = FALSE
  Ops <- SteadyOps
INVARIANTS RunningHasWorker ActiveKeepsThreadBusy
PROPERTY FifoPerThread
SYMMETRY Symmetry
CONSTRAINT OneLeaves
