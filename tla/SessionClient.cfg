\* The five threads of DummyClient.cpp in one port; every failure is possible.
CONSTANTS
  t1 = t1
  t2 = t2
  t3 = t3
  t4 = t4
  t5 = t5
  Threads = {t1, t2, t3, t4, t5}
  MaxSends = 4
  SoftErrors = TRUE
SPECIFICATION SafeSpec
SYMMETRY ThreadSymmetry
INVARIANTS
  TypeOK
  SendExclusive
  SendBatchReady
  SendFifo
  RecvExclusive
  TeardownOnce
PROPERTIES
  PendingBatchStable
  ImplementsChannel
CHECK_DEADLOCK FALSE
