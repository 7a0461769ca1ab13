\* Three sockets and a pool of two accepts: a third client finds none left.
CONSTANTS
  s1 = s1
  s2 = s2
  s3 = s3
  Sockets = {s1, s2, s3}
  NoSession = NoSession
  AcceptCount = 2
  AssertsRun = TRUE
SPECIFICATION Spec
PROPERTIES
  ClosedIsDestroyed
CHECK_DEADLOCK FALSE
