SPECIFICATION IndexSpec
CONSTANTS
  Names = {"a", "b", "f"}
  Paths <- MCPaths
  Sizes = {1, 2}
  Dir = Dir
  Nil = Nil
  BatchSize = 2
  Quota = 3
  Requests = {1, 2}
  Budget <- MCBudget
CONSTRAINT Small
CHECK_DEADLOCK FALSE
INVARIANT ScanIsTheDisk
PROPERTY IndexSettles UsageSettles
