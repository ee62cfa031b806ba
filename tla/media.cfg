CONSTANTS
  Handlers = {h1, h2}
  Names = {1, 2}
  MaxPages = 1
  MinAge = 2
  Patience = 1
  MaxRestarts = 1
  Workloads = {{"image", "thumb", "sweep"}, {"pdf", "scenes"}, {"pdf", "sweep"}, {"video", "scenes"}}
SPECIFICATION FairSpec
 
PROPERTIES DeletionGuarded DiskReclaimed
CHECK_DEADLOCK FALSE
