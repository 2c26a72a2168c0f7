SPECIFICATION FairSpec
CONSTANTS
  QueueCap = 10
  Threshold = 1
  MaxInputs = 5
INVARIANTS TurnOwnsState ListeningIsSilent CallsAreSequential
PROPERTIES OneVoice WakeAnswered SpeakingEnds
CHECK_DEADLOCK FALSE
