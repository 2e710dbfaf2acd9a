CONSTANTS
  x = x
  y = y
  a = a
  b = b
  t1 = t1
  t2 = t2
  Letters = {x, y, Tilde}
  Tilde = Tilde
  Keys <- Apart
  Atoms = {a, b}
  Blank = Blank
  MaxLen = 2
  Absent = Absent
  Threads = {t1, t2}
  Nobody = Nobody
  Junk = Junk
  CrashInFlush = FALSE
  MaxLines = 3
  MaxCrashes = 2
  Faulty = {}
  MaxFaults = 0
SPECIFICATION Spec
INVARIANTS
  TypeOK
  LockDiscipline
  QuiescentDurable
  FlushCovers
PROPERTY Durable
