CONSTANTS
  g1 = g1  g2 = g2  g3 = g3
  Calls = {g1, g2}
  Cleaner = Cleaner
  None = None
  MaxClients = 4
  MaxSessions = 1
  MaxTroubles = 2
SPECIFICATION FairSpec
PROPERTIES EveryCallEnds
CHECK_DEADLOCK FALSE
