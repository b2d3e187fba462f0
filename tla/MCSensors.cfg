SPECIFICATION SensorsSpec
CONSTANTS
  Options <- MCOptions
  FwLimit = 0
  MaxFaults = 1
  MaxTries = 2
  RingSize = 2
  IndexMod = 4
  Depth = 1
  MaxPackets = 4
  QueueMax = 1
  AccumulateTime = 1
  Blank = {1}
  MaxCameras = 2
  MaxImages = 2
  Programs <- MCPrograms
  SeqMax = 2
  MaxSessions = 2
  MaxMishaps = 1
  Pieces = 2
  TryLimit = 2
  ProgressLimit = 2
  LogFiles = 2
  LogPackets = 2
  MaxLogSize = 3
  MaxSeconds = 1
  MaxRepeats = 1
  MaxQueued = 2
  StartFiles <- MCStartFiles
  Answering <- MCAnswering
  MaxStarts = 2
  MaxRefusals = 1
CHECK_DEADLOCK FALSE
INVARIANTS
  SensorsTypeOK
  BitsAreTrue
  ImageIsSound
  CallbackIsTrue
  SettingsReadBack
  OutcomeIsFinal
  LogsAreKept
  StartIsSound
PROPERTIES
  LidarConnects
  CloudsInOrder
  NoCloudStuck
  RegistrationStarts
  LastImageIsWhole
  UpgradeEnds
  LoggerStops
