CONSTANTS
  t1 = t1  t2 = t2  t3 = t3
  w1 = w1  w2 = w2
  Tasks = {t1, t2, t3}
  Workers = {w1, w2}
  Registered <- AllButT1
  NoTask = NoTask
  MaxFaults = 0
  MaxCrashes = 0
SPECIFICATION FairSpec
PROPERTIES ImplementsDelivery WorkConserving RunningSettles
CHECK_DEADLOCK FALSE
