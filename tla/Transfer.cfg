CONSTANTS
  j1 = j1  j2 = j2
  r1 = r1  r2 = r2  r3 = r3
  Jobs = {j1, j2}
  Runs = {r1, r2, r3}
  NoJob = NoJob
  MaxTroubles = 1
SPECIFICATION FairSpec
INVARIANTS ActiveHasRun
PROPERTIES ActiveSettles
CHECK_DEADLOCK FALSE
