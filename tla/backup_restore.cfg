CONSTANTS
  Handlers = {h1}
  Requests = {"create","restore","delete"}
  Retention = 2
  RTC = TRUE
  SlowReaders = FALSE
  MaxArchives = 4
  MaxWrites = 3
  MaxRestarts = 1
SPECIFICATION Spec
INVARIANTS ArchiveIsCurrent
PROPERTIES SnapshotBeforeSwap RestoreDelivers
CHECK_DEADLOCK FALSE
