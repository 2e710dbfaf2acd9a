CONSTANTS
  t1 = t1
  t2 = t2
  k = k
  lock = lock
  free = free
  x = x
  y = y
  Tasks = {t1, t2}
  Keys = {k, lock}
  EmptyKey = EmptyKey
  Atoms = {free, x, y}
  Blank = Blank
  MaxLen = 4
  Absent = Absent
  Free <- FreeValue
  RequestsOf <- AnyRequests
  PollInterval = 2
  MaxRequests = 3
SPECIFICATION FairSpec
CHECK_DEADLOCK FALSE
INVARIANTS
  MetricsAgree
  PollsBounded
  CasExcludes
PROPERTY Answered
