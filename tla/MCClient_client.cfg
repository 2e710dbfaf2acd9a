CONSTANTS
  k = k
  log = log
  n1 = n1
  n2 = n2
  A = A
  B = B
  t1 = t1
  t2 = t2
  t3 = t3
  x = x
  y = y
  z = z
  Clients = {A, B}
  Callers = {t1, t2, t3}
  ClientOf <- OwnerOf
  Nodes = {n1, n2}
  U16 = 65535
  U32 = 1000000000
  Neighbours <- SameList
  HashOf <- Hashes
  Keys = {k, log}
  EmptyKey = EmptyKey
  Atoms = {x, y, z}
  Blank = Blank
  MaxLen = 6
  Absent = Absent
  RequestsOf <- AnyRequests
  MaxSwitches = 2
  MaxCalls = 3
  MaxBreaks = 2
SPECIFICATION FairSpec
CHECK_DEADLOCK FALSE
INVARIANTS
  AppendsAccounted
PROPERTIES
  Witnessed
  CallsReturn
