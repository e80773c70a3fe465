CONSTANTS
  Calls = {1, 2}
  NoCall = 0
  MaxTroubles = 0
  Branches = {"main", "dev"}
SPECIFICATION Spec
INVARIANTS RecordedIsExecuted
CHECK_DEADLOCK FALSE
