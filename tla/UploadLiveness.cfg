SPECIFICATION FairSpec
CONSTANTS
  p1 = p1
  p2 = p2
  s1 = s1
  s2 = s2
  MaxActive = 2
  Proc <- MCProc
  Sid <- OneSid
  SessionFile <- OneFile
  PutFile <- OneFile
  Overwrite = {FALSE}
  Client = {me}
  me = me
  visitor = visitor
  Name = {n1}
  n1 = n1
  n2 = n2
  ChunkSize = 1
  MaxReserved = 0
  Mutex = {m1, m2, m3}
  Hardlinks = FALSE
  NoMtime = NoMtime
  Absent = Absent
  Foreign = Foreign
PROPERTY DeadSessionReleased
PROPERTY RequestsEnd
