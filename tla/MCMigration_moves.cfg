CONSTANTS
  self = self
  n1 = n1
  n2 = n2
  k1 = k1
  k2 = k2
  a = a
  b = b
  m1 = m1
  m2 = m2
  Hosts = {self, n1, n2}
  Self = self
  InitialMembers <- Three
  Keys = {k1, k2}
  HashOf <- Hashes
  Migrators = {m1, m2}
  Vals = {a, b}
  Absent = Absent
  Initial <- Stored
  Refused = {}
  MaxWrites = 0
  MaxChanges = 1
  MaxTimeouts = 1
  MaxBreaks = 0
  MaxRuns = 2
SPECIFICATION Spec
CHECK_DEADLOCK FALSE
INVARIANTS
  NothingLost
PROPERTY RemovesOnlyMigrated
