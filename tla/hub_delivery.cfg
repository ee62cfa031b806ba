CONSTANTS
  Conns = {p1, d1, d2}
  Players = {p1}
  MaxSubs = 2
  Buffer = 1
  Broadcasters = {b1}
  MaxRevisions = 2
  MaxEvents = 1
SPECIFICATION Spec
SYMMETRY ConnSymmetry
INVARIANTS NoMissedPublish
CHECK_DEADLOCK FALSE
