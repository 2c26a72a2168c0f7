SPECIFICATION PlatformSpec
CONSTANTS
  Width = 8
  Height = 6
  Align = 2
  StagePixels = 16
  MaxFailures = 2
  Volumes = {0, 50, 100}
  LogCapacity = 3
  Levels = {0, 1}
  MaxLines = 8
  Names = {"app_main", "face"}
  Timeouts = {2, 4}
  MaxTasks = 2
  Wrap = 7
  MaxTime = 16
  PowerOn <- MCPowerOn
  Poses <- MCPoses
  LitBy <- MCLitBy
  DirtyBy <- MCDirtyBy
INVARIANTS LossesAreTold CheckIsExact VolumeIsRestored PanelShowsFront FaceIsWhole
PROPERTIES StageIsStable FrameEnds
