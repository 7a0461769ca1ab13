\* Two threads, and WSASend / WSARecv fail only with the connection.
CONSTANTS
  t1 = t1
  t2 = t2
  Threads = {t1, t2}
  MaxSends = 2
  SoftErrors = FALSE
SPECIFICATION Spec
INVARIANTS
  NoStranding
PROPERTIES
  PeerLossNoticed
  ImplementsLiveChannel
CHECK_DEADLOCK FALSE
