SPECIFICATION Spec
CONSTANTS
  p1 = p1
  p2 = p2
  s1 = s1
  s2 = s2
  MaxActive = 2
  Proc <- MCProc
  Sid <- TwoSids
  Sender = {ana, bia}
  Name = {0, 1}
  Size = {1, 2}
  Quota = 2
  MaxFiles = 2
  PerSender = 1
  Tries = 2
  Absent = Absent
  Foreign = Foreign
CONSTRAINT SameName
VIEW LiveView
SYMMETRY Symmetry
INVARIANT ReservationsFit
INVARIANT VisitorsNeverCollide
INVARIANT ReceiptsTrue
