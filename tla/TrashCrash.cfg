SPECIFICATION FairSpec
CONSTANTS
  d1 = d1
  d2 = d2
  MaxActive = 3
  Job = {job}
  User = {user}
  Hourly = hourly
  Id = {d1}
  Path = {1, 2, 3}
  Folder = {1}
  Mount = {1, 2}
  File <- ThreeFiles
CONSTRAINT FewActive
VIEW LiveView
CHECK_DEADLOCK FALSE
INVARIANT NothingLost
INVARIANT WholeWhenDone
PROPERTY PendingResolved
