SPECIFICATION Spec
CONSTANTS
  Modes <- DeployedMode
  Pose = {0, 1, 2, 3}
  ConfigPose = 2
  MaxJump = 1
  MaxScans = 7
PROPERTY
  ResetNeedsFailuresInARow
