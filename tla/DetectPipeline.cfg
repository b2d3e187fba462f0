SPECIFICATION FairSpec
CONSTANTS
  DisplayCap = 2
  MaxFrames = 4
CHECK_DEADLOCK FALSE
INVARIANTS
  TypeOK
  NoThreadOutlivesNode
PROPERTIES
  LatestSpec
  NewestIsPublished
  NoLostWakeup
  ShutdownEnds
