SPECIFICATION FairSpec
CONSTANTS
  QueueCap = 10
  Threshold = 1
  MaxInputs = 5
INVARIANTS RefusalHasProbe
CHECK_DEADLOCK FALSE
