CONSTANTS
  k1 = k1
  k2 = k2
  a = a
  c1 = c1
  c2 = c2
  U16 = 65535
  U32 = 1000000000
  Files <- SomeFiles
  PortArgs <- NoPort
  Local <- LocalNames
  Hosts <- Cluster
  Self <- SelfNode
  InitialMembers <- None
  Keys = {k1, k2}
  HashOf <- Hashes
  Conns = {c1, c2}
  Vals = {a}
  Absent = Absent
  Loaded <- Nothing
  MaxRequests = 2
  MaxAging = 1
  MaxErrors = 1
SPECIFICATION Spec
CHECK_DEADLOCK FALSE
INVARIANT SharedData
