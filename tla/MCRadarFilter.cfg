SPECIFICATION Spec
CONSTANTS
  Number <- MCNumber
  CarNo <- MCCarNo
  VoteCap = 3
  Place <- MCPlace
  Drift <- MCDrift
  DetectR = 1
  MaxSpeed = 1
  MaxDt = 1
  DeleteTime = 1
  VoteAge = 0
  KeepTime = 1
  MyColor = 2
  Debug = FALSE
  Labels <- MCLabels
  MaxBirths = 2
  MaxHits = 2
INVARIANT OnlyEnemiesAndOwnSentry
