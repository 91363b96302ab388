SPECIFICATION Spec
CONSTANTS
  p1 = p1
  p2 = p2
  s1 = s1
  s2 = s2
  MaxActive = 2
  Proc <- MCProc
  Sid <- TwoSids
  SessionFile <- ChunkedFile
  PutFile <- OneFile
  Overwrite = {FALSE, TRUE}
  me = me
  visitor = visitor
  Client = {me, visitor}
  n1 = n1
  n2 = n2
  Name = {n1, n2}
  ChunkSize = 1
  MaxReserved = 3
  Mutex = {m1, m2, m3}
  Hardlinks = TRUE
  NoMtime = NoMtime
  Absent = Absent
  Foreign = Foreign
CONSTRAINT Folder
SYMMETRY Symmetry
VIEW LiveView
INVARIANT DeliveredWhole
PROPERTY AckedChunksKept
PROPERTY OnlySenderEnds
INVARIANT ReservedUnderCap
PROPERTY KeepsPromise
PROPERTY PruneSparesSessions
INVARIANT TypeOK
