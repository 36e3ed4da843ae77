CONSTANTS
  w1 = w1
  w2 = w2
  w3 = w3
  NoWeapon = NoWeapon
  Weapons <- MCWeapons
  FireTemplate <- MCFire
  ReloadTemplate <- MCReload
  MagazineSize <- MCMagazine
  ReserveMagazines <- MCReserve
  FireMode <- MCModes
  BeamLife = 2
  IdModulus = 8
  CountCap = 2
  TickCap = 2
  Loadouts <- MCLoadouts
  IntentIds = {1, 2}
  MaxInputsPerTick = 1
  Disturbances = {"Staggered"}
SPECIFICATION Spec
INVARIANTS TypeOK ReloadLatchHeld EndIsFinal
PROPERTIES CadenceKept
