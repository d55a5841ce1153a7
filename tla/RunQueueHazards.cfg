SPECIFICATION Spec
CONSTANTS
  Runs = {r1, r2}
  Threads = {t1, t2}
  Clients = {c1, c2}
  None = None
  Concurrency = 2
  MaxAttempts = 2
  MaxObjects = 2
  MaxCrashes = 1
  Isolated = TRUE
  Ops <- HazardOps
SYMMETRY Symmetry
INVARIANTS OneRunningPerThread TokensConserved TokensCoverScan OneTaskPerAttempt
PROPERTIES SettledIsFinal KeepsPromise
CONSTRAINTS OneLeaves NoRequestAfterRestart
