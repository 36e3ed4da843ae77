SPECIFICATION ChannelsSpec
CONSTANTS
  Moves = {0, 1}
  InputTimeout = 1
  MaxPendingIntents = 1
  MaxIntents = 2
  MaxInputs = 2
  MaxTicks = 4
  MaxFlight = 2
  Candidates = {1, 2, 3, 4}
  SizeOf <- MCSizes
  ByteBudget = 2
  Weights = {1, 4}
  MaxSnapshotsWithoutSend = 3
  MaxAge = 9
  MaxRecords = 2
  Sights <- MCSights
  LockLoads <- MCLocks
  SendBudget = 400
  MaxPackets = 2
  Targets = {1, 2, 3}
  Pilots = {1}
  Hidden = {3}
  Local = {1}
  ShotOf <- ShotTemplates
  Meetings <- ShotMeetings
  Touches <- ShotTouches
  Rewinds = {0, 1}
  Seeds = {1}
  Salvos <- ShotSalvos
  MaxSights = 2
  MaxRefused = 1
  ShotTicks = 6
INVARIANTS
  InputsCount
  PacketsAgree
  NobodyStarves
  ShotsKept
PROPERTIES
  NoStaleInput
CHECK_DEADLOCK FALSE
