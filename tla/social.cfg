CONSTANTS
  Requests = {h1, h2}
  Names = {n}
  MaxFeeds = 2
  MaxTokens = 2
  Posts = {1, 2}
  Decisions = {"approved", "rejected"}
  CacheMax = 1
  RefreshSec = 1
  BackoffBase = 1
  BackoffCap = 2
  MaxFailures = 2
  MaxFaults = 1
  Workloads = {{"posts", "delete"}, {"tokens", "second", "delete"}, {"tokens", "delete", "toggle", "manual", "fail"}, {"second", "fail"}}
SPECIFICATION FairSpec
INVARIANTS TypeOK ShownWasAllowed TokenOwned CacheCapped
PROPERTIES FeedRecovers
CHECK_DEADLOCK FALSE
