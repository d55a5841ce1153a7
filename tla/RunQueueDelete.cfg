SPECIFICATION Spec
CONSTANTS
  Runs = {r1}
  Threads = {t1, t2}
  Clients = {c1, c2}
  None = None
  Concurrency = 1
  MaxAttempts = 1
  MaxObjects = 2
  MaxCrashes = 0
  Isolated = FALSE
  Ops <- DeleteOps
PROPERTY DeleteRemovesItsThread
