SPECIFICATION Spec
CONSTANTS
  Place <- MCPlace
  Field <- MCField
  Drift <- MCDrift
  RedBelow = 1
  Middle = 2
  BlueAbove = 2
  DetectR = 1
  MaxSpeed = 1
  MaxDt = 1
  DeleteTime = 1
  Confirm = 2
  Block = {b1, b2}
  MaxBirths = 2
SYMMETRY Blocks
PROPERTY HysteresisPerKF
