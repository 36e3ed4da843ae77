CONSTANTS
  w1 = w1
  NoWeapon = NoWeapon
  Weapons <- MCWeapons
  FireTemplate <- MCFirePress
  ReloadTemplate <- MCReload
  MagazineSize <- MCMagazine
  ReserveMagazines <- MCReserve
  FireMode <- MCStrike
  BeamLife = 1
  IdModulus = 8
  CountCap = 2
  TickCap = 1
  IntentIds = {6, 7}
  MaxInputsPerTick = 1
  MaxTick = 2
  Disturbances = {"Hands", "Death"}
  RecentCapacity = 1
  BatchSize = 1
SPECIFICATION Spec
PROPERTIES RefinesActor
CHECK_DEADLOCK FALSE
