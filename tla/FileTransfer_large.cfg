CONSTANTS
  j1 = j1  j2 = j2  A = A  B = B
  Jobs = {j1, j2}
  Clients = {A, B}
  Source <- FromA
  Target <- ToB
  SizeOf = 2
  Size <- EachSize
  SockBuf = 2
  BufSize = 2
  Faults = {}
  Mortal = {}
  Growing = {}
  Interrupted = {}
  None = None
SPECIFICATION FairSpec
CHECK_DEADLOCK FALSE
PROPERTY TransfersEnd
