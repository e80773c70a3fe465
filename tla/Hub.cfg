CONSTANTS
  c1 = c1  c2 = c2
  b1 = b1
  Clients = {c1, c2}
  Broadcasters = {b1}
  SendCap = 1
  QueueCap = 1
  MaxMessages = 3
SPECIFICATION FairSpec
INVARIANTS NeverPanics NoGap
PROPERTIES BroadcastReturns DisconnectCleans
CHECK_DEADLOCK FALSE
