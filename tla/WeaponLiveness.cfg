CONSTANTS
  w1 = w1
  w2 = w2
  w3 = w3
  NoWeapon = NoWeapon
  Weapons <- MCAllModes
  FireTemplate <- MCFireAll
  ReloadTemplate <- MCReload
  MagazineSize <- MCMagazineAll
  ReserveMagazines <- MCReserveAll
  FireMode <- MCModesAll
  BeamLife = 1
  IdModulus = 4
  CountCap = 2
  TickCap = 2
  Loadouts = {}
  IntentIds = {1}
  MaxInputsPerTick = 1
  Disturbances = {"Sheltered", "StatusBlocked", "KnockedBack"}
SPECIFICATION Spec
INVARIANTS NoCommitWhileHeld
PROPERTIES SilenceEndsAction
