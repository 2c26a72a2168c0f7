SPECIFICATION Spec
CONSTANTS
  Conns = {1}
  StreamCap = 1
  Boots = {1}
  MaxMissed = 1
  QueueCap = 2
  MaxSessions = 2
  MaxChunks = 2
  VadAvailable = TRUE
  MaxLosses = 0
  Downlink <- Talk
INVARIANTS
  NoTurnOutlivesItsLink
  VoiceIsWhole
CONSTRAINT SpeaksToTheFirst
