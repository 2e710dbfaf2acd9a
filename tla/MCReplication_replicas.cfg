CONSTANTS
  self = self
  n1 = n1
  n2 = n2
  k = k
  a = a
  Hosts = {self, n1, n2}
  Self = self
  InitialMembers <- Three
  Keys = {k}
  HashOf <- Hashes
  Ops = {"APPEND", "REMOVE", "CMPSWP"}
  Vals = {a}
  NumReplicas = 2
  MaxReconnectAttempts = 1
  Buffer = 1
  MaxWrites = 2
  MaxEvents = 2
SPECIFICATION FairSpec
CHECK_DEADLOCK FALSE
INVARIANTS
  AppliedAsListed
  Converges
PROPERTY TasksEnd
