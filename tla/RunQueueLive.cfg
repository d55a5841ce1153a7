SPECIFICATION FairSpec
CONSTANTS
  Runs = {r1, r2, r3}
  Threads = {t1, t2}
  Clients = {c1}
  None = None
  Concurrency = 2
  MaxAttempts = 1
  MaxObjects = 2
  MaxCrashes = 0
  Isolated = FALSE
  Ops <- PutOps

PROPERTY DueRunLeavesQueue
