SPECIFICATION Spec
CONSTANTS
  Modes <- AllModes
  Pose = {0, 1, 2, 3}
  ConfigPose = 2
  MaxJump = 1
  MaxScans = 7
INVARIANTS
  TypeOK
  FlagsAgree
  TfIsLatest
  FastTfWasComputed
