SPECIFICATION OutputsSpec
CONSTANTS
  Places = {0, 1}
  Digits = {1}
  Plates = {"R"}
  MaxBoxes = 2
  MinHits = 2
  MaxLost = 2
  MaxMissed = 2
  MaxHistory = 2
  MaxFrames = 5
  MyColor = "Blue"
  Messages <- MCMessages
  MaxLocations = 2
  SeqMod = 4
  SeqLen = 1
  MinWindow = 1
  PubEvery = 2
  MaxMaps = 1
  Topics = {"location", "map_view"}
  MaxMessages = 1
  MaxWaves = 1
  MaxTicks = 1
  MaxBreaks = 1
CHECK_DEADLOCK FALSE
INVARIANTS
  OutputsTypeOK
  SentryToldAsServer
  VotesAreRecent
PROPERTIES
  DeadHistoriesAge
  ScreensCatchUp
