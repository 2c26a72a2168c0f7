SPECIFICATION FairSpec
CONSTANTS
  LaneRoom = 2
  Phases = 2

PROPERTIES NeverFrozen
