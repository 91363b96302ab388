SPECIFICATION Spec
CONSTANTS
  Users = {u1, u2}
  Requests = {r1, r2}
  None = None
  NumCodes = 1
  MaxClock = 2
  Changes <- MCChanges
  Budget = 3
CONSTRAINT Busy
VIEW LiveView
SYMMETRY Symmetry
CHECK_DEADLOCK FALSE
INVARIANT CodesOnce SessionsAreEarned AnAdminRemains
