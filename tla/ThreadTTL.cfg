SPECIFICATION FairSpec
CONSTANTS
  Threads = {t1, t2, t3}
  Clients = {c1}
  Customs = {TRUE, FALSE}
  Global <- KeepAtOnce
  Overrides <- BothOverrides
  NoPolicy = NoPolicy
  Limit = 2
  BatchSize = 2
  MaxNow = 3
INVARIANT TTLInv
PROPERTIES ActiveIsSpared PrunedOnce ExpiredIsSwept
