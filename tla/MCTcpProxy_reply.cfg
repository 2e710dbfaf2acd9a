CONSTANTS
  c1 = c1
  c2 = c2
  Callers = {c1, c2}
  Kinds = {"sendrecv", "timed", "send_only"}
  MaxReconnectAttempts = 1
  MaxCalls = 2
  MaxFailures = 2
SPECIFICATION Spec
CHECK_DEADLOCK FALSE
SYMMETRY Symmetry
INVARIANTS
  MutexDiscipline
  OwnReply
  NoReplyLeftOver
  ExecutedPerAttempt
  OkWasExecuted
