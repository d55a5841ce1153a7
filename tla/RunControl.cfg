SPECIFICATION FairSpec
CONSTANTS
  Subs = {s1}
  MaxAttempts = 2
  MaxPending = 2
  MaxTimeouts = 1
  MaxCancels = 2
  Keyed = {TRUE, FALSE}
INVARIANTS TypeOK RetryIsNotStopped
PROPERTIES CancellationIsKept JoinEnds
CHECK_DEADLOCK FALSE
