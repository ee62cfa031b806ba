CONSTANTS
  w1 = w1
  w2 = w2
  w3 = w3
  p1 = p1
  p2 = p2
  Requests = {h1}
  Websites = {w1, w2, w3}
  Profiles = {p1, p2}
  ProfileOf <- SharedProfile
  MaxCaptures = 1
  Workloads <- Few
SPECIFICATION Spec
INVARIANTS LoginStaysOpen
CHECK_DEADLOCK FALSE
