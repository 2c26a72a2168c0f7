SPECIFICATION FairSpec
CONSTANTS
  Conns = {1, 2}
  StreamCap = 2
  Boots = {1}
  MaxMissed = 2
  QueueCap = 1
  MaxSessions = 0
  MaxChunks = 1
  VadAvailable = FALSE
  MaxLosses = 1
  Downlink = {}
INVARIANTS
  ClientHasHandler
PROPERTIES
  SilenceIsNoticed
  LinkComesBack
