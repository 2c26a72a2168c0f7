SPECIFICATION FairSpec
CONSTANTS
  MaxTimers = 2
  Ids = {1, 2, 3}
  FireTimes = {1, 3}
  MaxTime = 3
  Bootstrap = 2
INVARIANTS FlashAgrees
PROPERTIES KeepsAlarms DueFires
