SPECIFICATION ServicesSpec
CONSTANTS
  GraphEdits = 2
  DraftEdits = 2
  Bodies = {1, 2}
  Templates <- StatusTemplates
  MaxActive = 2
  DedupCapacity = 4
  Retention = 2
  MaxAmount = 2
  RevisionRange = 16
  Owner = 1
  Requests <- StatusRequests
  MaxBatches = 3
  StatusTicks = 2
  MaxRefusals = 1
  MaxAnnounced = 1
  Volumes = {1, 2}
  Walkers = {3, 4}
  Missiles = {5}
  Players = {3}
  VolumeOf <- TriggerVolumes
  HitGraph <- TriggerHits
  TriggerTicks = 6
  Fighters = {1}
  Foes = {2}
  Explodes = {2}
  Mends = {1}
  Grace = 1
  Window = 1
  Flights = {2}
  Immune = 1
  Threshold = 2
  StaggerTicks = 1
  SteadyTicks = 1
  DecayDelay = 1
  DamageTicks = 4
  MaxHits = 2
  MaxDefences = 1
  EntityTemplates <- LifeTemplates
  PopulationRules <- LifeRules
  DefaultSeats = 2
  LifeTicks = 1
  MaxMade = 3
  Ceiling = 3
  PatrolCeiling = 3
  ReinforceCeiling = 1
  Maps <- DirectorMaps
  WorldRule <- DirectorRule
  Nests = {"nest"}
  Team = {1, 2}
  MissionWave = 1
  RingRetryTicks = 1
  MaxAgents = 5
  MaxEngaged = 1
  MaxLosses = 1
  DirectorTicks = 3
  Newcomers = {1, 2}
  Camps = {3}
  TeamRevives = 1
  RespawnDelay = 2
  PollBatch = 2
  Mission <- RulesMission
  MissionInterval = 1
  Loops = 5
  MaxDeeds = 3
INVARIANTS
  LoadersAgree
  StatusesKept
  TriggersKept
  WoundsKept
  LifecycleKept
  PopulationKept
  RulesKept
CHECK_DEADLOCK FALSE
