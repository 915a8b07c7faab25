SPECIFICATION Spec
CONSTANTS
  t1 = t1
  u1 = u1
  i1 = i1
  i2 = i2
  Opens = {t1, u1}
  UdpOpens = {u1}
  Ids = {i1, i2}
  MaxStreams = 1
  InitialCredit = 2
  QueueSize = 1
  Datagrams = 2
  LateResult = FALSE
INVARIANT RefreshClosesStreams
CHECK_DEADLOCK FALSE
