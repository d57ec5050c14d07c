CONSTANTS
  j1 = j1  j2 = j2  A = A  B = B
  Jobs = {j1, j2}
  Clients = {A, B}
  Source <- FromA
  Target <- ToB
  SizeOf = 2
  Size <- LastSize
  SockBuf = 6
  BufSize = 2
  Faults = {"noread", "nowrite", "full", "shrink", "split"}
  Mortal = {A, B}
  Growing = {j1}
  Interrupted = {j1}
  None = None
SPECIFICATION FairSpec
CHECK_DEADLOCK FALSE
INVARIANTS
  TypeOK
  RelayFaithful
  StoredInOrder
  FailureKeepsTarget
  SuccessRelaysAll
PROPERTIES
  ImplementsFileCopy
  
  SuccessIsStored
