CONSTANTS
  k1 = k1  h1 = h1  h2 = h2
  Keys = {k1}
  Trial = Trial
  NoKey = NoKey
  Background = Background
  Handlers = {h1}
  MaxSaves = 1
  MaxChanges = 1
  MaxTroubles = 1
SPECIFICATION FairSpec
INVARIANTS PersistedIsCurrent
PROPERTIES OutageKeepsPlan Converges
CHECK_DEADLOCK FALSE
