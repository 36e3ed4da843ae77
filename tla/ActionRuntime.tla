----------------------------- MODULE ActionRuntime -----------------------------
(***************************************************************************)
(* The server's simulation of one actor's weapon actions: action_system.cc *)
(* (admission, phases, commits, interrupts), the commit loop of            *)
(* weapon_system.cc and the weapon loadout it works on.                    *)
(*                                                                         *)
(* The actor is one record.  Every function of action_system.cc is an      *)
(* operator from an actor to an actor, so a pass over an input is their    *)
(* composition in the order simulate_actions calls them.                   *)
(*                                                                         *)
(* Absolute ticks appear in the code only through differences, and those   *)
(* are what the record keeps: "wait" is next_commit_tick - current_tick,   *)
(* "rest" is recovery_end_tick - current_tick, "cooldown" is               *)
(* next_primary_commit_tick - current_tick (all stop at 0, below which     *)
(* nothing distinguishes them), "silence" is current_tick -                *)
(* last_input_tick and "away" is current_tick - holstered_tick (both stop  *)
(* at TickCap, above which nothing distinguishes them).                    *)
(***************************************************************************)
EXTENDS Integers, Sequences

CONSTANTS
  Weapons,         \* weapon ids with a WeaponTuning definition
  NoWeapon,        \* a weapon id with none (an unarmed or unknown selection)
  FireTemplate,    \* weapon -> action template of PrimaryFire
  ReloadTemplate,  \* weapon -> action template of Reload
  MagazineSize,    \* weapon -> rounds of a full magazine
  ReserveMagazines,\* weapon -> spare magazines at the start
  FireMode,        \* weapon -> how its commit takes effect, see FireModes
  BeamLife,        \* ticks a beam outlives its last commit (lifetime_ticks)
  IdModulus,       \* 2^w for the width w of an action instance id
  CountCap,        \* UINT16_MAX: where a reported commit count saturates
  TickCap          \* the longest difference of ticks any template asks about

\* What tells the fire modes apart here is what a commit may find out about
\* the world: nothing, that a strike has nowhere to land, that a lock-on has
\* no target, or that a beam already burns.
FireModes == {"Shot", "TargetedStrike", "LockMissile", "Beam"}

Ticks == 0..TickCap
Counts == 0..CountCap
Modes == {"Press", "Hold", "Charge"}

ActionTemplates ==
  [mode: Modes, offset: Ticks, interval: Ticks, recovery: Ticks,
   maxCommits: Counts, cost: Nat, timeout: Ticks,
   cancelOnRelease: BOOLEAN, cancelOnDeath: BOOLEAN,
   cancelOnWeaponChange: BOOLEAN, cancelBeforeFirstCommit: BOOLEAN]

\* validate_action_template: what a catalog must satisfy to be loaded.
ValidTemplate(t) ==
  /\ t.maxCommits # 1 => t.interval # 0
  /\ t.mode = "Press" => t.maxCommits >= 1 /\ t.timeout = 0
  /\ t.mode = "Charge" => t.maxCommits = 1 /\ t.offset > 0 /\ t.timeout > 0
  /\ t.mode = "Hold" => t.timeout > 0

ASSUME RuntimeAssumption ==
  /\ NoWeapon \notin Weapons
  /\ IdModulus \in Nat \ {0, 1} /\ CountCap \in Nat \ {0} /\ TickCap \in Nat
  /\ BeamLife \in 1..TickCap
  /\ FireTemplate \in [Weapons -> ActionTemplates]
  /\ ReloadTemplate \in [Weapons -> ActionTemplates]
  /\ \A w \in Weapons : /\ ValidTemplate(FireTemplate[w])
                        /\ ValidTemplate(ReloadTemplate[w])
  /\ MagazineSize \in [Weapons -> Nat \ {0}]
  /\ ReserveMagazines \in [Weapons -> Nat]
  /\ FireMode \in [Weapons -> FireModes]

\* Two shapes of catalog, neither a condition of loading: what holds of the
\* ends of actions rests on them.

\* The commits that the world can refuse are the last of their action.  The
\* loader gives every reload one commit (gameplay_config.cc, reload_action);
\* nothing keeps a burst or a hold from being a targeted strike, and such a
\* weapon reports Corrected, the last word on an instance, in mid-action.
SingleEffects ==
  \A w \in Weapons :
    /\ ReloadTemplate[w].maxCommits = 1
    /\ FireMode[w] = "TargetedStrike" => FireTemplate[w].maxCommits = 1

\* A beam is held without limit and can be let go of before it burns.
BeamsHold ==
  \A w \in Weapons :
    FireMode[w] = "Beam" => /\ FireTemplate[w].maxCommits = 0
                            /\ FireTemplate[w].cancelBeforeFirstCommit

Ids == 0..(IdModulus - 1)
Bindings == {"PrimaryFire", "Reload"}
Phases == {"None", "Windup", "Active", "Recovery"}
BlockReasons == {"Sheltered", "StatusBlocked", "Staggered", "KnockedBack"}
OutcomeTypes == {"Admitted", "Committed", "Completed", "Corrected", "Rejected"}
Reasons ==
  BlockReasons \cup
  {"None", "InvalidActionId", "Busy", "MissingTemplate", "Dead", "Reloading",
   "NoAmmo", "Cooldown", "EffectFailed", "ItemAction", "WeaponChanged",
   "TimedOut", "Cancelled"}
\* An intent whose binding, flags or reserved field is not one of v1.
Malformed == "Malformed"

NoIntent == [id |-> 0, binding |-> "PrimaryFire"]

Arms == Weapons \cup {NoWeapon}
PerWeapon(S) == [Weapons -> S]
OutcomeBindings == Bindings \cup {Malformed}

\* A frame of input as simulate_actions reads it: the edge that starts an
\* action, the weapon in hand, and the continuous hold of an instance.
Intents(ids) == [id: ids, binding: OutcomeBindings]
Inputs(ids) ==
  [intent: Intents(ids), selected: Arms, holdId: ids, held: BOOLEAN]

Outcomes ==
  [id: Ids, binding: OutcomeBindings, count: Counts, type: OutcomeTypes,
   reason: Reasons]

ActorType ==
  [phase: Phases, id: Ids, binding: Bindings, source: Arms, commits: Counts,
   wait: Ticks, rest: Ticks, cancelAfter: BOOLEAN, nextId: Ids,
   advanced: BOOLEAN, selected: Arms, contId: Ids, contHeld: BOOLEAN,
   silence: Ticks, ammo: PerWeapon(Nat), reserve: PerWeapon(Nat),
   cooldown: PerWeapon(Ticks), equipped: SUBSET Weapons, active: Arms,
   holstered: PerWeapon(BOOLEAN), away: PerWeapon(Ticks), reloading: BOOLEAN,
   effect: Ticks, alive: BOOLEAN, blocks: SUBSET BlockReasons,
   stagger: BOOLEAN, hands: BOOLEAN, out: Seq(Outcomes)]

MinOf(a, b) == IF a <= b THEN a ELSE b
Down(n) == IF n = 0 THEN 0 ELSE n - 1

-----------------------------------------------------------------------------
(* Outcomes and the ways an action ends.                                   *)

InProgress(s) == s.phase \in {"Windup", "Active"}

TemplateFor(weapon, binding) ==
  IF binding = "Reload" THEN ReloadTemplate[weapon] ELSE FireTemplate[weapon]

Outcome(id, binding, count, type, reason) ==
  [id |-> id, binding |-> binding, count |-> MinOf(CountCap, count),
   type |-> type, reason |-> reason]

\* The outcomes that let go of a session's claim on the instance.
Ends(o) == o.type \in {"Completed", "Corrected", "Rejected"}

push(s, outcome) == [s EXCEPT !.out = Append(@, outcome)]

push_outcome(s, type, reason) ==
  push(s, Outcome(s.id, s.binding, s.commits, type, reason))

push_rejection(s, intent, reason) ==
  push(s, Outcome(intent.id, intent.binding, 0, "Rejected", reason))

reset_action(s) ==
  [s EXCEPT !.phase = "None", !.id = 0, !.binding = "PrimaryFire",
            !.source = NoWeapon, !.commits = 0, !.wait = 0, !.rest = 0,
            !.cancelAfter = FALSE]

\* Faulty variants: an end that lets go of one resource only.
ReleaseBeamOnly(s) == [s EXCEPT !.effect = 0]
ReleaseLatchOnly(s) == [s EXCEPT !.reloading = @ /\ s.binding # "Reload"]

\* The reload latch and the live beam.
release_action_resources(s) ==
  [s EXCEPT !.reloading = @ /\ s.binding # "Reload", !.effect = 0]

enter_recovery(s, t) ==
  LET r == release_action_resources(s)
  IN IF t.recovery = 0
     THEN reset_action(r)
     ELSE [r EXCEPT !.rest = t.recovery, !.phase = "Recovery",
                    !.cancelAfter = FALSE]

settle_recovery(s) ==
  IF s.phase = "Recovery" /\ s.rest = 0 THEN reset_action(s) ELSE s

\* Ends the action with nothing owed: no recovery on top of what ended it.
EndOutright(s, reason) ==
  reset_action(release_action_resources(push_outcome(s, "Corrected", reason)))

-----------------------------------------------------------------------------
(* Interrupts, run at the head of every pass.                              *)

interrupt_staggered_actions(s) ==
  LET seen == [s EXCEPT !.stagger = FALSE]
  IN IF s.stagger /\ InProgress(s) THEN EndOutright(seen, "Staggered") ELSE seen

\* A status that blocks actions, and a shelter, end the action for as long as
\* they stand.
interrupt_status_blocked_actions(s) ==
  IF "StatusBlocked" \in s.blocks /\ InProgress(s)
  THEN EndOutright(s, "StatusBlocked") ELSE s

\* Faulty variant: only an action that has already committed is ended.
ShelterActiveOnly(s) ==
  IF "Sheltered" \in s.blocks /\ s.phase = "Active"
  THEN EndOutright(s, "Sheltered") ELSE s

interrupt_sheltered_actions(s) ==
  IF "Sheltered" \in s.blocks /\ InProgress(s)
  THEN EndOutright(s, "Sheltered") ELSE s

interrupt_actions_for_items(s) ==
  LET seen == [s EXCEPT !.hands = FALSE]
  IN IF ~(s.hands /\ InProgress(s)) THEN seen
     ELSE IF s.commits > 0
     THEN enter_recovery(push_outcome(seen, "Corrected", "ItemAction"),
                         TemplateFor(s.source, s.binding))
     ELSE EndOutright(seen, "ItemAction")

Interrupts(s) ==
  interrupt_actions_for_items(
    interrupt_sheltered_actions(
      interrupt_status_blocked_actions(interrupt_staggered_actions(s))))

-----------------------------------------------------------------------------
(* Reading an input.                                                       *)

\* Faulty variant: the holstered reload does not ask for a spare magazine.
HoldWithoutReserve(s, w) ==
  IF w \notin s.equipped \/ w = s.active \/ InProgress(s) THEN s
  ELSE [s EXCEPT !.active = w,
                 !.holstered = [v \in Weapons |-> v # w /\ (v = s.active \/ @[v])],
                 !.ammo[w] = IF s.holstered[w] THEN MagazineSize[w] ELSE @,
                 !.reserve[w] = IF s.holstered[w] THEN @ - 1 ELSE @]

\* The weapon in hand follows the selection unless it is in use; one that was
\* away for its reload time comes out reloaded.
hold_selected_weapon(s, w) ==
  IF w \notin s.equipped \/ w = s.active \/ InProgress(s) THEN s
  ELSE LET put == [s EXCEPT !.holstered =
                     [v \in Weapons |-> IF v = w THEN FALSE
                                        ELSE v = s.active \/ @[v]],
                            !.away = [v \in Weapons |->
                                        IF v = s.active \/ v = w THEN 0 ELSE @[v]],
                            !.active = w]
       IN IF /\ s.holstered[w]
             /\ s.away[w] >= ReloadTemplate[w].offset
             /\ s.ammo[w] < MagazineSize[w]
             /\ s.reserve[w] > 0
          THEN [put EXCEPT !.ammo[w] = MagazineSize[w], !.reserve[w] = @ - 1]
          ELSE put

\* Hold and release reach only the instance under way.
take_continuous_input(s, in) ==
  IF in.holdId # 0 /\ in.holdId = s.id
  THEN [s EXCEPT !.contId = in.holdId, !.contHeld = in.held, !.silence = 0]
  ELSE s

\* What keeps the actor from starting an action, strongest first.
action_block_reason(s) ==
  IF "Sheltered" \in s.blocks THEN "Sheltered"
  ELSE IF "StatusBlocked" \in s.blocks THEN "StatusBlocked"
  ELSE IF "Staggered" \in s.blocks THEN "Staggered"
  ELSE IF "KnockedBack" \in s.blocks THEN "KnockedBack"
  ELSE "None"

\* Faulty variant: one tick early.
BlockedOneTickShort(s, w) == FireTemplate[w].offset + 1 < s.cooldown[w]

\* The first commit of a shot started now would come before the cadence of
\* the last one allows.
projected_primary_commit_is_blocked(s, w) ==
  FireTemplate[w].offset < s.cooldown[w]

\* The first reason admit_action has to refuse an intent; "None" to admit it.
AdmissionRefusal(s, intent, weapon) ==
  IF intent.binding = Malformed THEN "InvalidActionId"
  ELSE IF intent.id <= (s.nextId - 1) % IdModulus THEN "InvalidActionId"
  ELSE IF action_block_reason(s) # "None" THEN action_block_reason(s)
  ELSE IF s.phase # "None" THEN "Busy"
  ELSE IF weapon \notin Weapons THEN "MissingTemplate"
  ELSE IF ~s.alive THEN "Dead"
  ELSE IF weapon \notin s.equipped THEN "MissingTemplate"
  ELSE IF intent.binding = "PrimaryFire"
       THEN IF s.reloading THEN "Reloading"
            ELSE IF s.ammo[weapon] < FireTemplate[weapon].cost THEN "NoAmmo"
            ELSE IF projected_primary_commit_is_blocked(s, weapon)
                 THEN "Cooldown" ELSE "None"
  ELSE IF s.ammo[weapon] >= MagazineSize[weapon] \/ s.reserve[weapon] = 0
       THEN "EffectFailed" ELSE "None"

\* Faulty variant: the admitted id itself stays acceptable.
SameGenerated(id) == id

\* next_generated_instance_id, which an id of UINT32_MAX leaves where it is.
NextGenerated(id) == IF (id + 1) % IdModulus = 0 THEN id ELSE (id + 1) % IdModulus

Start(s, intent, weapon) ==
  LET t == TemplateFor(weapon, intent.binding)
      a == [s EXCEPT !.nextId = NextGenerated(intent.id), !.id = intent.id,
                     !.binding = intent.binding, !.source = weapon,
                     !.wait = t.offset, !.rest = 0, !.commits = 0,
                     !.cancelAfter = FALSE, !.silence = 0,
                     !.phase = IF t.offset = 0 THEN "Active" ELSE "Windup",
                     !.reloading = @ \/ intent.binding = "Reload"]
  IN push_outcome(a, "Admitted", "None")

admit_action(s, in) ==
  IF in.intent.id = 0 THEN s
  ELSE LET a == settle_recovery(s)
           refusal == AdmissionRefusal(a, in.intent, in.selected)
       IN IF refusal = "None" THEN Start(a, in.intent, in.selected)
          ELSE push_rejection(a, in.intent, refusal)

ReadInput(s, in) ==
  LET chosen == hold_selected_weapon([s EXCEPT !.selected = in.selected],
                                     in.selected)
  IN take_continuous_input(
       admit_action(take_continuous_input(chosen, in), in), in)

-----------------------------------------------------------------------------
(* Advancing the action: cancellation, then the commit that is due.        *)

Released(s) == s.contId = s.id /\ ~s.contHeld

\* Faulty variant: only a hold times out.
HoldTimedOut(s, t) == t.mode = "Hold" /\ t.timeout # 0 /\ s.silence >= t.timeout

TimedOut(s, t) ==
  t.mode \in {"Hold", "Charge"} /\ t.timeout # 0 /\ s.silence >= t.timeout

\* What ends a charge that has not cast: nothing has been spent yet.
ChargeStop(s, t) ==
  IF ~s.alive THEN "Dead"
  ELSE IF s.selected # s.source THEN "WeaponChanged"
  ELSE IF TimedOut(s, t) THEN "TimedOut"
  ELSE IF Released(s) /\ s.wait > 0 THEN "Cancelled"
  ELSE "None"

CancelReason(s, t) ==
  IF ~s.alive /\ t.cancelOnDeath THEN "Dead"
  ELSE IF s.selected # s.source /\ t.cancelOnWeaponChange THEN "WeaponChanged"
  ELSE IF Released(s) /\ t.mode # "Charge" /\ t.cancelOnRelease THEN "Cancelled"
  ELSE IF TimedOut(s, t) THEN "TimedOut"
  ELSE "None"

CanSpend(s, t) ==
  /\ s.source \in s.equipped
  /\ s.binding = "PrimaryFire" => s.ammo[s.source] >= t.cost

\* The commit that is due: the actor after it, and the ActionCommit it emits.
EmitCommit(s, t) ==
  LET count == MinOf(CountCap, s.commits + 1)
      done == (t.maxCommits # 0 /\ count >= t.maxCommits) \/ s.cancelAfter
      a == [s EXCEPT !.phase = "Active", !.commits = count, !.wait = t.interval]
  IN [actor |-> IF done THEN enter_recovery(a, t) ELSE a,
      commits |-> << [id |-> s.id, binding |-> s.binding, weapon |-> s.source,
                      count |-> count, completes |-> done] >>]

Still(s) == [actor |-> s, commits |-> << >>]

\* An action under way and not waiting for a charge to be let go.
ContinueAction(s, t) ==
  LET reason == CancelReason(s, t)
      a == [s EXCEPT !.cancelAfter = @ \/ reason # "None"]
  IN IF reason # "None" /\ (s.commits > 0 \/ t.cancelBeforeFirstCommit)
     THEN Still(enter_recovery(push_outcome(s, "Corrected", reason), t))
     ELSE IF a.wait > 0 THEN Still([a EXCEPT !.phase = "Windup"])
     ELSE IF ~CanSpend(a, t)
     THEN Still(enter_recovery(push_outcome(a, "Corrected", "EffectFailed"), t))
     ELSE EmitCommit(a, t)

\* last_advanced_tick: the actor advances once a tick however many inputs
\* the tick brought.
advance_action(s) ==
  IF s.advanced THEN Still(s)
  ELSE LET a == [settle_recovery(s) EXCEPT !.advanced = TRUE]
           t == TemplateFor(a.source, a.binding)
           charging == t.mode = "Charge" /\ a.commits = 0
       IN IF ~InProgress(a) THEN Still(a)
          ELSE IF charging /\ ChargeStop(a, t) # "None"
          THEN Still(EndOutright(a, ChargeStop(a, t)))
          ELSE IF charging /\ ~Released(a)
          THEN Still([a EXCEPT !.phase = "Windup"])
          ELSE ContinueAction(a, t)

-----------------------------------------------------------------------------
(* Commits take effect: the commit loop of simulate_weapons.               *)

Refuse(s, c, reason) ==
  push(s, Outcome(c.id, c.binding, c.count, "Corrected", reason))

Confirm(s, c) ==
  LET a == push(s, Outcome(c.id, c.binding, c.count, "Committed", "None"))
  IN IF c.completes
     THEN push(a, Outcome(c.id, c.binding, c.count, "Completed", "None"))
     ELSE a

CommitReload(s, c) ==
  LET latched == [s EXCEPT !.reloading = FALSE]
  IN IF s.reserve[c.weapon] = 0 \/ s.ammo[c.weapon] >= MagazineSize[c.weapon]
     THEN Refuse(latched, c, "EffectFailed")
     ELSE Confirm([latched EXCEPT !.ammo[c.weapon] = MagazineSize[c.weapon],
                                  !.reserve[c.weapon] = @ - 1], c)

\* found: the strike has a place to land, the lock-on has a target.
CommitFire(s, c, found) ==
  LET t == FireTemplate[c.weapon]
      mode == FireMode[c.weapon]
      spent == IF mode = "LockMissile" /\ ~found THEN 0 ELSE t.cost
  IN IF s.ammo[c.weapon] < t.cost \/ (mode = "TargetedStrike" /\ ~found)
     THEN Refuse(s, c, "EffectFailed")
     ELSE Confirm([s EXCEPT !.ammo[c.weapon] = @ - spent,
                            !.cooldown[c.weapon] = t.interval,
                            !.effect = IF mode = "Beam" THEN BeamLife ELSE @], c)

ApplyCommit(s, c, found) ==
  IF c.weapon \notin s.equipped THEN Refuse(s, c, "MissingTemplate")
  ELSE LET a == [s EXCEPT !.active = c.weapon]
       IN IF c.binding = "Reload" THEN CommitReload(a, c)
          ELSE CommitFire(a, c, found)

AdvanceAndCommit(s, found) ==
  LET adv == advance_action(s)
  IN IF adv.commits = << >> THEN adv.actor
     ELSE ApplyCommit(adv.actor, Head(adv.commits), found)

\* simulate_weapons for one queued input, and for none at the end of the tick.
WeaponPass(s, in, found) == AdvanceAndCommit(ReadInput(Interrupts(s), in), found)
IdlePass(s, found) == AdvanceAndCommit(Interrupts(s), found)

\* What one more tick does to the differences of ticks.
TickOver(s) ==
  [s EXCEPT !.wait = Down(@), !.rest = Down(@), !.effect = Down(@),
            !.cooldown = [w \in Weapons |-> Down(@[w])],
            !.silence = MinOf(TickCap, @ + 1),
            !.away = [w \in Weapons |-> IF s.holstered[w]
                                        THEN MinOf(TickCap, @[w] + 1) ELSE 0],
            !.advanced = FALSE, !.out = << >>]

-----------------------------------------------------------------------------
(* What the rest of the tick may do to the actor between two weapon        *)
(* passes.                                                                 *)

\* apply_stagger: the meter filled; the interrupt waits for the next pass.
Staggered(s) == [s EXCEPT !.stagger = TRUE, !.blocks = @ \cup {"Staggered"}]
\* set_shelter: going in drops the stagger.
Sheltered(s) == [s EXCEPT !.stagger = FALSE,
                          !.blocks = (@ \ {"Staggered"}) \cup {"Sheltered"}]
\* A blocking status, or the flight of a knockback or pull.
Blocked(s, reason) == [s EXCEPT !.blocks = @ \cup {reason}]
Unblocked(s, reason) == [s EXCEPT !.blocks = @ \ {reason}]
HandsTaken(s) == [s EXCEPT !.hands = TRUE]

\* enter_death_state and revive: both drop the knockback and the stagger, a
\* revive the statuses too.
Killed(s) == [s EXCEPT !.alive = FALSE, !.stagger = FALSE,
                       !.blocks = @ \ {"Staggered", "KnockedBack"}]
Revived(s) == [s EXCEPT !.alive = TRUE, !.stagger = FALSE,
                        !.blocks = @ \cap {"Sheltered"}]

\* rebuild_weapon_loadout after the weapon container changed to hold "held".
\* A weapon keeps its rounds with its item; its cadence and its holstered
\* clock only if it stays, and the reload latch only if the weapon in hand
\* does.  "first" is the weapon of the lowest occupied category.
rebuild_weapon_loadout(s, held, first) ==
  LET stays(w) == w \in held \cap s.equipped
  IN [s EXCEPT !.equipped = held,
               !.active = IF s.active \in held THEN @ ELSE first,
               !.reloading = @ /\ s.active \in held,
               !.cooldown = [w \in Weapons |-> IF stays(w) THEN @[w] ELSE 0],
               !.holstered = [w \in Weapons |-> stays(w) /\ @[w]],
               !.away = [w \in Weapons |-> IF stays(w) THEN @[w] ELSE 0]]

InitActor(w) ==
  [phase |-> "None", id |-> 0, binding |-> "PrimaryFire", source |-> NoWeapon,
   commits |-> 0, wait |-> 0, rest |-> 0, cancelAfter |-> FALSE,
   nextId |-> 1, advanced |-> FALSE,
   selected |-> NoWeapon, contId |-> 0, contHeld |-> FALSE, silence |-> TickCap,
   ammo |-> MagazineSize, reserve |-> ReserveMagazines,
   cooldown |-> [v \in Weapons |-> 0], equipped |-> Weapons, active |-> w,
   holstered |-> [v \in Weapons |-> FALSE], away |-> [v \in Weapons |-> 0],
   reloading |-> FALSE, effect |-> 0,
   alive |-> TRUE, blocks |-> {}, stagger |-> FALSE, hands |-> FALSE,
   out |-> << >>]
=============================================================================
