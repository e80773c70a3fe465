CONSTANTS
  g1 = g1  g2 = g2  g3 = g3
  Calls = {g1, g2, g3}
  Cleaner = Cleaner
  None = None
  MaxClients = 6
  MaxSessions = 3
  MaxTroubles = 1
SPECIFICATION Spec
SYMMETRY CallSymmetry
INVARIANTS ClosedLeavesPool KeepOnlyOne RetryCovers
CHECK_DEADLOCK FALSE
