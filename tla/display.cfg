CONSTANTS
  Day = 4
  Week = 2
  Lookahead = 3
  LastDay = 1
  Severity = {0, 1}
  Seeded <- DayWindow
  Windows <- FewWindows
  MaxOverride = 2
  Fetches = {f1, f2}
  MaxEdits = 2
  MaxTime = 4
  Reporters = {g1, g2}
  Scenes = {a}
  OfflineAfter = 2
  PersistInterval = 2
  Workloads = {{"rules", "overrides"}, {"emergencies", "page"}, {"rules", "page"}, {"overrides", "page"}, {"status"}}
SPECIFICATION FairSpec
INVARIANTS TypeOK RowIsLive NextChangeNotLate NightUnbroken
PROPERTIES PageCatchesUp
CHECK_DEADLOCK FALSE
