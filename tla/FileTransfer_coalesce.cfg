CONSTANTS
  j1 = j1  j2 = j2  A = A  B = B
  Jobs = {j1}
  Clients = {A, B}
  Source <- FromA
  Target <- ToB
  SizeOf = 2
  Size <- EachSize
  SockBuf = 6
  BufSize = 4
  Faults = {"coalesce"}
  Mortal = {}
  Growing = {}
  Interrupted = {}
  None = None
SPECIFICATION FairSpec
PROPERTY SuccessIsStored
