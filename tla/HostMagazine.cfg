CONSTANTS
  w1 = w1
  NoWeapon = NoWeapon
  Weapons <- MCWeapons
  FireTemplate <- MCFireHold
  ReloadTemplate <- MCReload
  MagazineSize <- MCMagazine
  ReserveMagazines <- MCReserve
  FireMode <- MCShot
  BeamLife = 1
  IdModulus = 8
  CountCap = 2
  TickCap = 2
  IntentIds = {1, 2}
  MaxInputsPerTick = 1
  MaxTick = 4
  Disturbances = {"Stagger"}
  RecentCapacity = 1
  BatchSize = 1
  MaxPending = 1
  ResultTimeout = 1
  TicksPerUpdate = 2
  SnapshotInterval = 2
SPECIFICATION HostSpec
INVARIANTS RoundsConserved
CHECK_DEADLOCK FALSE
