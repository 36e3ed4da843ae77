----------------------------- MODULE MCListenHost -----------------------------
(* The host's player with one weapon, held or of two commits a press.       *)
EXTENDS ListenHost

CONSTANT w1

ASSUME InstanceAssumption == HostCatalog

Press == [mode |-> "Press", offset |-> 0, interval |-> 1, recovery |-> 0,
          maxCommits |-> 2, cost |-> 1, timeout |-> 0,
          cancelOnRelease |-> FALSE, cancelOnDeath |-> TRUE,
          cancelOnWeaponChange |-> TRUE, cancelBeforeFirstCommit |-> TRUE]
Hold == [Press EXCEPT !.mode = "Hold", !.maxCommits = 0, !.timeout = 1,
                      !.cancelOnRelease = TRUE]

MCWeapons == {w1}
MCFirePress == [w \in Weapons |-> Press]
MCFireHold == [w \in Weapons |-> Hold]
MCReload == [w \in Weapons |-> [Press EXCEPT !.offset = 2, !.maxCommits = 1, !.cost = 0]]
MCMagazine == [w \in Weapons |-> 2]
MCReserve == [w \in Weapons |-> 1]
MCShot == [w \in Weapons |-> "Shot"]
=============================================================================
