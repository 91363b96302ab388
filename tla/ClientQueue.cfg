SPECIFICATION Spec
CONSTANTS
  s1 = s1
  s2 = s2
  o1 = o1
  o2 = o2
  Item = {1, 2}
  Chunked = {1}
  Chunks <- MCChunks
  Slot = {1, 2}
  SlotsPerFile = 2
  MaxAttempts = 2
  Sid <- MCSid
  Obj <- MCObj
  None = None
  MaxExtras = 1
SYMMETRY Symmetry
CONSTRAINT FewExtras
CONSTRAINT Calm
INVARIANT NoLostWakeup
INVARIANT NeverTwiceInFlight
INVARIANT DoneMeansStored
