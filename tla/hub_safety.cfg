CONSTANTS
  Conns = {p1, d1}
  Players = {p1}
  MaxSubs = 2
  Buffer = 1
  Broadcasters = {b1, b2}
  MaxRevisions = 1
  MaxEvents = 2
SPECIFICATION FairSpec
INVARIANTS TypeOK NoPanic SlotsReturned
PROPERTIES BroadcastEnds
CHECK_DEADLOCK FALSE
