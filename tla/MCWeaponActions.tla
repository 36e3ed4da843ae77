---------------------------- MODULE MCWeaponActions ----------------------------
(* Small weapons shaped like the catalog's: a held beam (beam_rifle_fire), a *)
(* press of two commits, a charge, and a press reload.                       *)
EXTENDS WeaponActions

CONSTANTS w1, w2, w3

Base == [mode |-> "Press", offset |-> 0, interval |-> 1, recovery |-> 0,
         maxCommits |-> 1, cost |-> 1, timeout |-> 0,
         cancelOnRelease |-> FALSE, cancelOnDeath |-> TRUE,
         cancelOnWeaponChange |-> TRUE, cancelBeforeFirstCommit |-> TRUE]

HoldTemplate ==
  [Base EXCEPT !.mode = "Hold", !.offset = 1, !.recovery = 1,
               !.maxCommits = 0, !.timeout = 2, !.cancelOnRelease = TRUE]
StrikeTemplate == [Base EXCEPT !.interval = 2]
BurstTemplate ==
  [Base EXCEPT !.maxCommits = 2, !.recovery = 1, !.cancelOnDeath = FALSE,
               !.cancelBeforeFirstCommit = FALSE, !.cancelOnWeaponChange = FALSE]
ChargeTemplate == [Base EXCEPT !.mode = "Charge", !.offset = 1, !.timeout = 2]
ReloadShort == [Base EXCEPT !.offset = 1, !.interval = 0, !.cost = 0]

\* A held beam beside a single-press strike.
MCWeapons == {w1, w2}
MCFire == [w \in Weapons |-> IF w = w1 THEN HoldTemplate ELSE StrikeTemplate]
MCReload == [w \in Weapons |-> ReloadShort]
MCMagazine == [w \in Weapons |-> IF w = w1 THEN 1 ELSE 2]
MCReserve == [w \in Weapons |-> IF w = w1 THEN 1 ELSE 0]
MCModes == [w \in Weapons |-> IF w = w1 THEN "Beam" ELSE "TargetedStrike"]
MCLoadouts == {Weapons, {w2}}

\* One weapon of every trigger mode, the lock-on missile among them.
MCAllModes == {w1, w2, w3}
MCFireAll == [w \in Weapons |-> IF w = w1 THEN HoldTemplate
                               ELSE IF w = w2 THEN BurstTemplate
                               ELSE ChargeTemplate]
MCMagazineAll == [w \in Weapons |-> 2]
MCReserveAll == [w \in Weapons |-> 0]
MCModesAll == [w \in Weapons |-> IF w = w2 THEN "LockMissile" ELSE "Shot"]

\* Both instances are catalogs the theorems on ends speak of.
ASSUME InstanceAssumption ==
  /\ SingleEffects /\ BeamsHold
  /\ IntentIds \subseteq 0..(IdModulus - 2)
=============================================================================
