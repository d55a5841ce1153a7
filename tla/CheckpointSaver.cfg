SPECIFICATION Spec
CONSTANTS
  Threads = {t1, t2}
  Used = {t1}
  Namespaces = {n1}
  Channels = {ch1, ch2}
  RunIds = {r1}
  Writers = {w1}
  Sizes = {1}
  NewSizes = {3}
  MaxIds = 3
  MaxWrites = 1
  MaxGroups = 1
  MaxUpkeep = 2
INVARIANTS TypeOK SizesAgree
PROPERTIES PruneKeepsState CopyHasState StaysWhole
SYMMETRY Symmetry
CHECK_DEADLOCK FALSE
