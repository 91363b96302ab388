SPECIFICATION Spec
CONSTANTS
  d1 = d1
  d2 = d2
  Names = {"a", "b", "c"}
  Paths <- MCPaths
  Disk <- MCDisk
  Dirs = {d1, d2, d3}
  Files = {f1}
  None = None
  Slugs = {s}
  NoSlug = NoSlug
  Creators = {c1}
  MaxLink = 1
  MassMin = 2
  Budget <- MCBudget
CONSTRAINT Small
CHECK_DEADLOCK FALSE
PROPERTY MoveKeepsItem
