SPECIFICATION FilesFairSpec
CONSTANTS
  MaxWrites = 2
  MaxBoots = 2
  Ops <- AllOps
INVARIANT CleanStopSaves
PROPERTIES SavedStaysSaved OpsAreFlushed
\* A process that has exited or died may stay down.
CHECK_DEADLOCK FALSE
