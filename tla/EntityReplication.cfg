CONSTANTS
  p = p
  x = x
  Player = p
  Others = {x}
  SpawnQuota = 1
  MetadataGrace = 0
  MaxBuffered = 2
  MaxTick = 3
  MaxQueued = 2
SPECIFICATION ReplicationFairSpec
INVARIANTS SessionMatchesClient NoFalseAlarm
PROPERTY ViewConverges
CHECK_DEADLOCK FALSE
