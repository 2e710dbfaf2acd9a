CONSTANTS
  self = self
  n1 = n1
  n2 = n2
  k1 = k1
  k2 = k2
  a = a
  b = b
  m1 = m1
  m2 = m2
  Hosts = {self, n1, n2}
  Self = self
  InitialMembers <- Three
  Keys = {k1, k2}
  HashOf <- Hashes
  Migrators = {m1, m2}
  Vals = {a, b}
  Absent = Absent
  Initial <- Stored
  Refused = {}
  MaxWrites = 1
  MaxChanges = 0
  MaxTimeouts = 4
  MaxBreaks = 1
  MaxRuns = 2
SPECIFICATION FairSpec
CHECK_DEADLOCK FALSE
INVARIANT FlagNotStuck
PROPERTY MigrationEnds
