SPECIFICATION FairSpec
CONSTANTS
  LaneRoom = 2
  Phases = 2
INVARIANTS RespondingHasAnEnd ReactionWaitsForRelease
PROPERTIES IdleUnclaimed RespondingEnds
