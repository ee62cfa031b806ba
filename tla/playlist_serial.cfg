CONSTANTS
  Handlers = {h1}
  Readers = {p1}
  Pinnable = {2}
  Retention = 2
  RTC = TRUE
  MaxRevisions = 4
  MaxScenes = 2
  MaxClock = 5
SPECIFICATION FairSpec
INVARIANTS LiveFit UnpublishedFlagged ReadSurvivesPublish
PROPERTIES PublishedImmutable ImplementsLog ReaderMovesForward HubCatchesUp
CHECK_DEADLOCK FALSE
