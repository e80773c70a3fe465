CONSTANTS
  t1 = t1  t2 = t2  t3 = t3
  w1 = w1  w2 = w2
  Tasks = {t1, t2}
  Workers = {w1, w2}
  Registered <- AllButT1
  NoTask = NoTask
  MaxFaults = 2
  MaxCrashes = 1
SPECIFICATION Spec
SYMMETRY WorkerSymmetry
INVARIANTS AtMostOnce HonestRow RunningHasOwner
PROPERTIES TerminalIsFinal
CHECK_DEADLOCK FALSE
