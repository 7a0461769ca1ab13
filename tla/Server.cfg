\* Four sockets, a pool of two accepts, and whatever may fail.
CONSTANTS
  s1 = s1
  s2 = s2
  s3 = s3
  s4 = s4
  Sockets = {s1, s2, s3, s4}
  NoSession = NoSession
  AcceptCount = 2
  AssertsRun = TRUE
SPECIFICATION SafeSpec
SYMMETRY SocketSymmetry
INVARIANTS
  TypeOK
  UsedIsAlive
  RegistriesAgree
  PoolArmed
  NothingLeaks
  ReleaseAssertHolds
CHECK_DEADLOCK FALSE
