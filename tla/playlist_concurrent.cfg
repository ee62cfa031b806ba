CONSTANTS
  Handlers = {h1, h2}
  Readers = {}
  Pinnable = {1}
  Retention = 2
  RTC = TRUE
  MaxRevisions = 4
  MaxScenes = 1
  MaxClock = 5
SPECIFICATION Spec
SYMMETRY HandlerSymmetry
INVARIANTS SingleDraft
PROPERTIES PublishGoesLive RollbackPointKept FreshDraftIsClean
CHECK_DEADLOCK FALSE
