\* The Release build: NDEBUG is defined.
CONSTANTS
  s1 = s1
  s2 = s2
  Sockets = {s1, s2}
  NoSession = NoSession
  AcceptCount = 1
  AssertsRun = FALSE
SPECIFICATION SafeSpec
INVARIANTS
  StartedWhenRunning
CHECK_DEADLOCK FALSE
