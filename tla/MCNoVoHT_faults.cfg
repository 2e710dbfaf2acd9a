CONSTANTS
  x = x
  y = y
  a = a
  b = b
  t1 = t1
  t2 = t2
  Letters = {x, y, Tilde}
  Tilde = Tilde
  Keys <- Glued
  Atoms = {a}
  Blank = Blank
  MaxLen = 1
  Absent = Absent
  Threads = {t1}
  Nobody = Nobody
  Junk = Junk
  CrashInFlush = TRUE
  MaxLines = 3
  MaxCrashes = 1
  Faulty = {"write", "flush", "read"}
  MaxFaults = 1
SPECIFICATION Spec

  
PROPERTIES
  FlushRestores
