SPECIFICATION Spec
CONSTANTS
  Runs = {r1, r2}
  Thread = thread
  Readers = {c1}
  Watchers = {w1}
  MaxEvents = 3
  MaxTime = 2
SYMMETRY Symmetry
CONSTRAINT OneKind
INVARIANTS ReplayInv EventsArrive ThreadInOrder
PROPERTY NewInOrder
