----------------------------- MODULE WeaponActions -----------------------------
(***************************************************************************)
(* One actor's weapon actions, tick after tick, against any input and any  *)
(* interruption: ActionRuntime's operators put in the order simulate_tick  *)
(* runs them.  The source of the inputs is left open (a player's session   *)
(* or an AI controller); ActionSession is the player's.                    *)
(***************************************************************************)
EXTENDS ActionRuntime

CONSTANTS
  IntentIds,        \* the instance ids the inputs use (bounds the model)
  MaxInputsPerTick, \* how many inputs one tick may bring (bounds the model)
  Disturbances,     \* the block reasons that happen (bounds the model)
  Loadouts          \* the weapon containers a player may pack (bounds the model)

ASSUME InputAssumption ==
  /\ IntentIds \subseteq Ids \ {0}
  /\ MaxInputsPerTick \in Nat
  /\ Disturbances \subseteq BlockReasons
  /\ Loadouts \subseteq SUBSET Weapons

VARIABLES
  actor,   \* the actor, see InitActor
  stage,   \* "between" ticks, taking "inputs", or "done" with the last pass
  taken,   \* inputs this tick has simulated
  ended    \* history: instances whose end was reported in an earlier tick

vars == <<actor, stage, taken, ended>>

Endings == {"Completed", "Corrected"}

Init ==
  /\ \E w \in Weapons : actor = InitActor(w)
  /\ stage = "between" /\ taken = 0 /\ ended = {}

-----------------------------------------------------------------------------
(* simulate_tick: a weapon pass per queued input, one with none, the next  *)
(* tick.                                                                   *)

SimulateInput(in) ==
  /\ stage \in {"between", "inputs"} /\ taken < MaxInputsPerTick
  /\ \E found \in BOOLEAN : actor' = WeaponPass(actor, in, found)
  /\ stage' = "inputs" /\ taken' = taken + 1
  /\ UNCHANGED ended

SimulateIdle ==
  /\ stage \in {"between", "inputs"}
  /\ \E found \in BOOLEAN : actor' = IdlePass(actor, found)
  /\ stage' = "done"
  /\ UNCHANGED <<taken, ended>>

NextTick ==
  /\ stage = "done"
  /\ ended' = ended \cup {actor.out[k].id : k \in
                 {j \in DOMAIN actor.out : actor.out[j].type \in Endings}}
  /\ actor' = TickOver(actor)
  /\ stage' = "between" /\ taken' = 0

-----------------------------------------------------------------------------
(* The rest of the world, which reaches the actor between weapon passes    *)
(* only: damage lands at the end of a tick, commands and item requests are *)
(* run before its first pass.                                              *)

\* apply_stagger leaves the dead and the already staggered alone; set_shelter
\* takes in neither the dead nor an actor in a knockback's flight; a knockback
\* passes over who is inside.
Disturb(reason) ==
  /\ stage = "between"
  /\ reason = "Staggered" => actor.alive /\ "Staggered" \notin actor.blocks
  /\ reason = "Sheltered" => actor.alive /\ "KnockedBack" \notin actor.blocks
  /\ reason = "KnockedBack" => "Sheltered" \notin actor.blocks
  /\ actor' = CASE reason = "Staggered" -> Staggered(actor)
                [] reason = "Sheltered" -> Sheltered(actor)
                [] OTHER -> Blocked(actor, reason)
  /\ UNCHANGED <<stage, taken, ended>>

Recover(reason) ==
  /\ stage = "between" /\ reason \in actor.blocks
  /\ actor' = Unblocked(actor, reason)
  /\ UNCHANGED <<stage, taken, ended>>

TakeHands ==
  /\ stage = "between"
  /\ actor' = HandsTaken(actor)
  /\ UNCHANGED <<stage, taken, ended>>

Die ==
  /\ stage = "between" /\ actor.alive
  /\ actor' = Killed(actor)
  /\ UNCHANGED <<stage, taken, ended>>

Revive ==
  /\ stage = "between" /\ ~actor.alive
  /\ actor' = Revived(actor)
  /\ UNCHANGED <<stage, taken, ended>>

ChangeLoadout(held) ==
  /\ stage = "between" /\ held # actor.equipped
  /\ \E first \in IF held = {} THEN {NoWeapon} ELSE held :
       actor' = rebuild_weapon_loadout(actor, held, first)
  /\ UNCHANGED <<stage, taken, ended>>

Next ==
  \/ \E in \in Inputs(IntentIds \cup {0}) : SimulateInput(in)
  \/ SimulateIdle
  \/ NextTick
  \/ \E reason \in Disturbances : Disturb(reason) \/ Recover(reason)
  \/ TakeHands
  \/ Die
  \/ Revive
  \/ \E held \in Loadouts : ChangeLoadout(held)

\* Ticks keep coming: update() runs one for every fixed_delta that passes.
\* Nothing else is owed, in particular no input.  Only SimulateIdle closes a
\* tick and only NextTick opens one, so fairness of the stage is theirs.
Fairness ==
  /\ WF_stage(stage # "done" /\ stage' = "done")
  /\ WF_stage(stage = "done" /\ stage' = "between")

Spec == Init /\ [][Next]_vars /\ Fairness

-----------------------------------------------------------------------------
(* Properties.                                                             *)

\* The actor is an ActorType and a magazine never holds more than its size:
\* a spend is checked against the rounds left and a reload fills exactly.
TypeOK ==
  /\ actor \in ActorType
  /\ \A w \in Weapons : actor.ammo[w] <= MagazineSize[w]
  /\ stage \in {"between", "inputs", "done"}
  /\ taken \in 0..MaxInputsPerTick
  /\ ended \subseteq Ids

\* is_reloading is never left behind: it stands only while a reload action is
\* under way.  A latch that outlived its action would refuse every shot as
\* Reloading for good (admit_action, release_action_resources).
ReloadLatchHeld ==
  actor.reloading => InProgress(actor) /\ actor.binding = "Reload"

\* Part of EndIsFinal: a beam burns only while the action that holds it is
\* under way, for beam templates that hold without limit and cancel before
\* their first commit (release_action_resources: every way an action ends lets
\* go of it).
BeamEndsWithAction == actor.effect > 0 => InProgress(actor)

\* An instance is reported ended once, and nothing but a refusal of its id is
\* reported after its end: the session and the client both take Completed or
\* Corrected for the last word (finalize_server_action_outcomes).  Nothing of it
\* stays behind: its beam goes with it.
EndIsFinal ==
  /\ BeamEndsWithAction
  /\ \A k \in DOMAIN actor.out :
       LET o == actor.out[k]
       IN o.type # "Rejected" =>
            /\ o.id \notin ended
            /\ \A j \in 1..(k - 1) :
                 actor.out[j].id = o.id => actor.out[j].type \notin Endings

\* Nothing commits in a tick the actor spends staggered, sheltered or under a
\* blocking status: the admission refuses, and the interrupts end what was
\* under way before it can commit.
NoCommitWhileHeld ==
  (\E k \in DOMAIN actor.out : actor.out[k].type = "Committed") =>
    actor.blocks \cap {"Sheltered", "StatusBlocked", "Staggered"} = {}

\* An action stays under way for ever only while its player keeps being heard
\* from: a press runs out of commits, a hold or charge that hears nothing
\* times out, and an interrupt cannot be waited out.
SilenceEndsAction ==
  []<>(\/ ~InProgress(actor)
       \/ /\ TemplateFor(actor.source, actor.binding).mode # "Press"
          /\ actor.silence = 0)

\* Cadence: between two committed shots of a weapon the loadout keeps, at
\* least its commit interval passes (projected_primary_commit_is_blocked).
CadenceKept ==
  [][\A w \in Weapons :
       actor'.ammo[w] < actor.ammo[w] => actor.cooldown[w] = 0]_vars
=============================================================================
