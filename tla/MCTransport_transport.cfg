CONSTANTS
  k = k
  x = x
  y = y
  c1 = c1
  c2 = c2
  Base = 2
  SizeLimit = 16
  CountLimit = 128
  DigitByte = 0
  Garbled <- Noise
  Keys = {k}
  Atoms = {x, y}
  Blank = Blank
  MaxLen = 3
  Absent = Absent
  EmptyKey = EmptyKey
  Waiters = {w1}
  MaxShutdowns = 1
  Callers = {c1, c2}
  RequestsOf <- MixedRequests
  SizeOf <- Sizes
  MaxDatagram = 2
  ChunkThreshold = 3
  ChunkSize = 2
  Ids = {7, 8}
  NoValue = NoValue
  MaxCalls = 2
  MaxDups = 1
  Tasks = {t1, t2}
  Addrs = {h1, h2}
  NoConn = NoConn
  NoTask = NoTask
  MaxOps = 2
  GaugeSize = 8
  MaxUses = 3
  Peers = {p1, p2}
  MaxFrames = 1
  Asked = {"TCP", "udp", "MPI"}
  ThreadOf <- OwnThreads
SPECIFICATION FairSpec
CHECK_DEADLOCK FALSE
INVARIANTS
  OwnDatagram
  Reassembles
  NoLeak
  GaugeAgrees
  OnlyRemovalPanics
PROPERTIES
  UdpReturns
  ShutdownReaches
