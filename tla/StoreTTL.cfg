SPECIFICATION FairSpec
CONSTANTS
  Keys = {k1, k2}
  Batches = {b1}
  Threads = {t1}
  Minutes = {0, 2}
  None = None
  Sweeper = Sweeper
  MaxTime = 3
  MaxOps = 2
  MaxCrashes = 1
INVARIANT StoreInv
PROPERTIES  ExpiredIsSwept
