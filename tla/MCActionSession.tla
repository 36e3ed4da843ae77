---------------------------- MODULE MCActionSession ----------------------------
(* One weapon shaped like the catalog's, a reload, and few ids.             *)
EXTENDS ActionSession

CONSTANT w1

Press == [mode |-> "Press", offset |-> 0, interval |-> 1, recovery |-> 1,
          maxCommits |-> 1, cost |-> 1, timeout |-> 0,
          cancelOnRelease |-> FALSE, cancelOnDeath |-> TRUE,
          cancelOnWeaponChange |-> TRUE, cancelBeforeFirstCommit |-> TRUE]
Hold == [Press EXCEPT !.mode = "Hold", !.offset = 1, !.maxCommits = 0,
                      !.timeout = 1, !.cancelOnRelease = TRUE]

MCWeapons == {w1}
MCFirePress == [w \in Weapons |-> Press]
MCFireHold == [w \in Weapons |-> Hold]
MCReload == [w \in Weapons |-> [Press EXCEPT !.offset = 1, !.recovery = 0, !.cost = 0]]
MCMagazine == [w \in Weapons |-> 2]
MCReserve == [w \in Weapons |-> 1]
MCShot == [w \in Weapons |-> "Shot"]
MCStrike == [w \in Weapons |-> "TargetedStrike"]

\* Both instances are catalogs the theorems on ends speak of.
ASSUME InstanceAssumption == SingleEffects /\ BeamsHold
=============================================================================
