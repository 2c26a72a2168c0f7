SPECIFICATION FairSpec
CONSTANTS
  RingCapacity = 2
  FadeTotal = 3
  Block = 2
  MaxBatch = 3
  Turns = {1, 2}
  Samples <- MCSamples
PROPERTIES PlaysInOrder ToneNeverSplitsSpeech FadeIsSmooth FallsSilent
