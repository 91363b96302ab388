SPECIFICATION FairSpec
CONSTANTS
  a1 = a1
  a2 = a2
  MaxStarted = 2
  Extract = {e1}
  Archive <- Archives
  Copy = {c1}
  Name = {n1, n2}
  Absent = Absent
  Owner = Owner
CONSTRAINT FewStarted
VIEW LiveView
INVARIANT JobsTypeOK
INVARIANT LeftoversListed
INVARIANT TextIsTrue
INVARIANT RunningSpared
PROPERTY LeftoversGo
