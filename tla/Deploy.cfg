SPECIFICATION Spec
CONSTANTS
  Posters = {p1, p2}
  Viewers = {v1}
  Cap = 2
  TailCap = 1
  MaxOps = 2
  MaxLines = 1
SYMMETRY Symmetry
INVARIANTS ResumesExactly StderrComesBeforeStatus RunningIsBounded
PROPERTY NothingAfterTheEnd
