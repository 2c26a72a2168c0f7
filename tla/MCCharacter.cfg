SPECIFICATION Spec
CONSTANTS
  Stride = 1
  SneezePause = 1
  Tick = 33
  Wrap = 3300
  BlinkPauses = {1800, 2100}
  MinPause = 1800
  LongestPause = 2100
  BlinkBar = {80, 119}
  DoubleBlink = {600, 1199}
  CheckIn = 700
  SlowBlink = 650
  Sigh = 66
  Fixation = 66
  SaccadeTime = 80
  Openings = {30, 88}
  Dt = 1
  TapWindow = 4
  GrumpyPlan <- MCGrumpyPlan
  ReconcilePlan <- MCReconcilePlan
  PeakHold = 3
  Grid = 10
  Width = 320
  Height = 240
  Align = 16
INVARIANTS LightSleepHasACause DreamsOnce EyesReopen FaceInsideDirty
PROPERTIES OutburstIsEarned HeartIsEarned
