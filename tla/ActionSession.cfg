CONSTANTS
  w1 = w1
  NoWeapon = NoWeapon
  Weapons <- MCWeapons
  FireTemplate <- MCFireHold
  ReloadTemplate <- MCReload
  MagazineSize <- MCMagazine
  ReserveMagazines <- MCReserve
  FireMode <- MCShot
  BeamLife = 1
  IdModulus = 8
  CountCap = 2
  TickCap = 1
  IntentIds = {6, 7}
  MaxInputsPerTick = 1
  MaxTick = 4
  Disturbances = {"Stagger"}
  RecentCapacity = 1
  BatchSize = 1
SPECIFICATION Spec
INVARIANTS TypeOK ClaimIsLive IntentsAnswered CountsEffects RepeatRunsOnce
CHECK_DEADLOCK FALSE
