CONSTANTS
  LockAfter = 2
  Window = 2
  BaseLock = 1
  MaxLock = 3
  MaxFailures = 4
  Handlers = {h1, h2}
  Tokens = {s1, s2}
  MaxUsers = 2
  MaxPasswords = 2
  PlanLength = 2
  MaxUpgrades = 1
  Workloads = {{"signin", "admin"}, {"signin", "own", "upgrade"}, {"signin", "guess"}}
SPECIFICATION Spec
SYMMETRY RequestSymmetry
INVARIANTS AdminRemains SessionsFollowCredential
 
CHECK_DEADLOCK FALSE
