SPECIFICATION Spec
CONSTANTS
  Paths <- MCPaths
  Sizes = {1, 3}
  MaxChanges = 2
  None = None
  Dir = Dir
  PartSize = 2
  ZipSlots = 1
  Viewers = {1, 2, 3}
  Limit = 2
  MaxViews = 3
  MaxFaults = 1
  Askers = {1, 2}
  Selections <- MCSelections
  Unreadable = {3}
  SyncMax = 1
  Batch = 1
  MaxScan = 3
  MaxAsks = 2
  MaxMishaps = 1
CONSTRAINT Small
CHECK_DEADLOCK FALSE
INVARIANT PartsCoverOnce PlanIsTrue ThumbsTrue AnalysisTrue JobSuffices
PROPERTY ViewsEnd
