----------------------------- MODULE CatalogActors -----------------------------
(***************************************************************************)
(* The actors of a catalog: the actor template with what it carries and    *)
(* moves with, the rig a legged actor walks on, the brain of an agent, and *)
(* the behavior a spawn source gives the agents it makes.  Like            *)
(* CatalogTemplates this module holds the rules of the loader and of the   *)
(* kernel; Catalog is the machine that edits, reads and loads.  A brain    *)
(* stays in the game server, so only the loader judges it.                 *)
(*                                                                         *)
(* Distances are decimetres in a brain, classes of numbers elsewhere.      *)
(***************************************************************************)
EXTENDS CatalogTemplates

Finite0(x) == IsFinite(x) /\ x >= 0          \* finite and not negative

(***************************************************************************)
(* Actor templates.                                                        *)
(***************************************************************************)

MaxWeaponSlots == 2         \* 4, scaled
MaxStaggerTicks == 2        \* KERNEL_MAX_STAGGER_TICKS, scaled
MaxKnockdownTicks == 2      \* KERNEL_MAX_KNOCKDOWN_RECOVERY_TICKS, scaled

movement_controller_type_from_yaml(controller) ==
    controller \in {"none", "grounded", "kinematic", "character", "hover"}
movement_collision_mask_from_yaml(mask) ==
    mask # {} /\ mask \subseteq {"terrain", "static_obstacle", "actor", "limb"}

EmptyBlock == -8            \* a block without the key it needs
ReadStagger(t) ==
    t.stagger.written => t.stagger.threshold # Absent /\ t.stagger.duration # Absent
ReadKnockdown(t) == t.knockdown # EmptyBlock

ReadMovement(t) ==
    /\ movement_controller_type_from_yaml(t.controller)
    /\ t.movementKeys             \* controller, speed and collider are there
    /\ t.moveMask # {"unset"} => movement_collision_mask_from_yaml(t.moveMask)
    /\ (t.hover # Absent) <=> (t.controller = "hover")

\* The active slot is read as an int and kept in a byte.
ActiveSlot(t) == t.active % 256
SlotsHold(t) ==
    /\ t.slots \in (IF t.type = "player" THEN 0 ELSE 1)..MaxWeaponSlots
    /\ IF t.slots = 0 THEN ActiveSlot(t) = 0 ELSE ActiveSlot(t) < t.slots
ReadWeaponSlots(t) == SlotsHold(t) /\ t.weaponsKnown

InventoryCapacityMax == 3   \* UINT16_MAX, scaled
ReadInventory(t) ==
    /\ (t.capacity # Absent) <=> t.bag.written
    /\ t.capacity # Absent =>
          t.capacity \in 1..InventoryCapacityMax /\ t.bag.slots <= t.capacity

\* A rigged actor is hit on its bones, and its collider is only its bounds.
apply_actor_hit_collider(t) ==
    /\ t.flags # "none" => t.flags = "hit"
    /\ t.collider = IF t.flags # "none" THEN "bounds aabb" ELSE "hit aabb"

actor_template_from_yaml(t) ==
    /\ t.keysKnown /\ ~t.hitbox
    /\ t.death \in {"unset", "destroy", "dormant"}
    /\ ReadStagger(t) /\ ReadKnockdown(t)
    /\ t.hp # Absent
    /\ ReadMovement(t) /\ ReadWeaponSlots(t) /\ ReadInventory(t)
    /\ t.moveCollider # "dangling" /\ t.collider # "dangling"
    /\ apply_actor_hit_collider(t)

\* The contract of both sides.
stagger_profile_is_authorable(s) ==
    LET threshold == IF s.written THEN s.threshold ELSE 0 IN
    /\ Finite0(threshold)
    /\ threshold # 0 =>
          /\ Finite0(s.gain)
          /\ s.duration \in 1..MaxStaggerTicks /\ s.immunity \in 0..MaxStaggerTicks

HoverHolds(t) == t.controller = "hover" => IsFinite(t.hover) /\ ~NotPositive(t.hover)

ValidateInventory(t) ==
    t.capacity # Absent =>
        /\ t.type = "player"
        /\ t.bag.slots > 0 =>
              /\ t.bag.item # "unknown"
              /\ t.bag.quantity # 0 /\ t.bag.quantity <= t.bag.stack
              /\ t.bag.item = "stateful" => t.bag.quantity = 1

ValidateActorColliders(t) ==
    /\ t.moveCollider = "movement capsule"
    /\ t.visionCollider \in {"none", "vision cone"}

\* The actor loops of validate_gameplay_config.
ValidateActor(t) ==
    /\ t.id # 0 /\ t.twin = "none"
    /\ t.hp # 0 /\ t.maxHp # 0 /\ t.hp <= t.maxHp
    /\ ~NotPositive(t.speed)
    /\ t.controller # "none" /\ HoverHolds(t)
    /\ ~NotPositive(t.slope) /\ t.slope \notin {OverLimit, Inf}
    /\ t.step = NaN \/ t.step >= 0
    /\ ~NotPositive(t.probe)
    /\ SlotsHold(t)
    /\ ValidateInventory(t)
    /\ Finite0(t.resistance)
    /\ stagger_profile_is_authorable(t.stagger)
    /\ t.knockdown <= MaxKnockdownTicks
    /\ ValidateActorColliders(t)
    /\ t.type # "player" => ~t.isThePlayer

\* The kernel's rules for the actor, its entity and its movement.
LoadActor(t) ==
    /\ t.id # 0
    /\ t.collider # "dangling" /\ t.visionCollider \in {"none", "vision cone"}
LoadActorEntity(t) ==
    /\ stagger_profile_is_authorable(t.stagger)
    /\ t.knockdown <= MaxKnockdownTicks
LoadMovement(t) ==
    /\ HoverHolds(t) /\ t.controller # "none"
    /\ t.moveMask # {"unset"} =>
          t.moveMask \subseteq {"terrain", "static_obstacle", "actor", "limb"}
    /\ t.moveCollider = "movement capsule"

(***************************************************************************)
(* Rigs: the skeleton asset, its rig file, and the locomotion and          *)
(* collision_flags of a template that walks on it.                         *)
(***************************************************************************)

MaxLegs == 3                \* KERNEL_MAX_SKELETON_LEGS, scaled
MaxFootholds == 2           \* KERNEL_MAX_FOOTHOLD_CANDIDATES, scaled
MaxBones == 6               \* 1024, scaled
MaxBoneColliders == 2       \* KERNEL_MAX_SKELETON_COLLIDERS, scaled

load_skeleton_assets_from_directory(r) ==
    /\ r.manifest = "ok"        \* keys, version, and a non-empty directory
    /\ r.hash = "matches"
    /\ r.bones \in 1..MaxBones /\ r.bonesOrdered /\ r.bonesNamedOnce
    /\ r.twin = "none" /\ r.id # 0

RigLegs(r) ==
    /\ r.legs \in 1..MaxLegs /\ ~r.legTwin
    /\ r.chain                  \* foot's parent is the knee, knee's the hip
    /\ r.pole = "a direction"
skeleton_collider_shape_from_yaml(shape) == shape \in {"unset", "oriented_box", "sphere"}
hit_zone_from_yaml(zone) == Finite0(zone) /\ zone # OverLimit
RigColliders(r) ==
    r.boneColliders # Absent =>
        /\ r.boneColliders <= MaxBoneColliders /\ ~r.boneColliderTwin
        /\ skeleton_collider_shape_from_yaml(r.boneShape)
        /\ hit_zone_from_yaml(r.hitZone)
load_skeleton_rig(r) ==
    /\ r.keysKnown /\ r.version = 2 /\ r.named /\ r.forward = "positive_z"
    /\ r.bonesKnown
    /\ r.hinge \notin {"zero", "not finite"}
    /\ RigLegs(r) /\ RigColliders(r)

NoFlags == {"no collision_flags"}
skeleton_collision_purpose_from_yaml(purposes) ==
    purposes \subseteq {"limb", "hit", "damage", "trigger"}

\* Every leg tuned once, in any order; a leg has a step, a reach and a group.
LegsTuned(r) ==
    /\ r.tuned = "every leg once"
    /\ Finite0(r.step)
    /\ IsFinite(r.reach) /\ r.reach > 0 /\ r.reach # OverLimit
    /\ r.group < r.legs
GaitHolds(r) ==
    /\ r.order = "a permutation"
    /\ IsFinite(r.threshold) /\ r.threshold > 0
    /\ r.duration # 0
    /\ r.swinging \in 1..r.legs
FootholdHolds(r) ==
    /\ r.query = "raycast"
    /\ Finite0(r.start) /\ IsFinite(r.distance) /\ r.distance > 0
    /\ r.candidates \in 1..MaxFootholds
BodyHolds(r) ==
    Finite0(r.follow) /\ Finite0(r.slope) /\ r.slope # OverLimit
DeadzoneHolds(r) == Finite0(r.deadzone) /\ r.deadzone # OverLimit
YawHolds(r) == IsFinite(r.yaw) /\ r.yaw > 0

CollisionFlagsRead(r) ==
    r.flags # NoFlags =>
        /\ r.layer # "unset"
        /\ skeleton_collision_purpose_from_yaml(r.flags) /\ "hit" \in r.flags
        /\ r.boneColliders > 0
        /\ r.slope = 0          \* a follower holds an identity tilt

\* The skeleton and locomotion of actor_template_from_yaml.
ReadSkeleton(r) ==
    /\ r.pair = "known" /\ r.pinned \in {"no hash", "matches"}
    /\ r.locomotion = "procedural_legged"
    /\ DeadzoneHolds(r) /\ YawHolds(r)
    /\ LegsTuned(r) /\ GaitHolds(r) /\ FootholdHolds(r) /\ BodyHolds(r)
    /\ CollisionFlagsRead(r)

LoaderAcceptsRig(r) ==
    /\ load_skeleton_assets_from_directory(r)
    /\ r.hasRig /\ load_skeleton_rig(r)      \* without one there are no legs
    /\ ReadSkeleton(r)

\* The archive itself is read here: joints, names and rest pose.
load_runtime_skeleton_asset(r) ==
    r.id # 0 /\ r.hash = "matches" /\ r.bones \in 1..MaxBones /\ r.archive = "ok"

validate_locomotion_definition(r) ==
    /\ r.legs \in 1..MaxLegs
    /\ GaitHolds(r) /\ r.group < r.legs
    /\ DeadzoneHolds(r) /\ BodyHolds(r) /\ FootholdHolds(r)
    /\ r.hinge \notin {"zero", "not finite"}

\* The knee's hinge against the bind pose, which only the archive has.
validate_locomotion_rig(r) ==
    validate_locomotion_definition(r) /\ r.bindLegs = "bent" /\ r.hinge = "along the bend"

\* The size of a bone's collider is the bone's own rest scale.
validate_locomotion_colliders(r) ==
    r.flags # NoFlags /\ r.boneColliders # Absent /\ r.boneColliders > 0 =>
        /\ r.layer # "none"
        /\ r.scale # "unit"
        /\ r.boneShape = "sphere" => r.scale # "uneven"

LoadSkeleton(r) ==
    /\ load_runtime_skeleton_asset(r)
    /\ validate_locomotion_definition(r) /\ YawHolds(r)
    /\ Finite0(r.step) /\ IsFinite(r.reach) /\ r.reach > 0 /\ r.reach # OverLimit
    /\ r.chain
    /\ validate_locomotion_rig(r) /\ validate_locomotion_colliders(r)

(***************************************************************************)
(* Brains.                                                                 *)
(***************************************************************************)

Chases(b) == b.behavior # "sentry"
WeaponSkills(b) == {b.skills[i] : i \in {j \in DOMAIN b.skills : b.skills[j].type = "weapon"}}
SpAttacks(b) ==
    {b.skills[i] : i \in {j \in DOMAIN b.skills : b.skills[j].type \in {"leap", "charge"}}}
MaxSkills == 3              \* kMaxAgentSkills, scaled

MaxOf(S) == CHOOSE x \in S : \A y \in S : y <= x

hunter_tuning_from_yaml(repath) == repath # 0
LeashHolds(b) ==
    /\ Finite0(b.leash) /\ Finite0(b.leashResume)
    /\ b.leash > 0 => b.leashResume < b.leash
BehaviorBlocks(b) ==
    /\ "lock_target" \in b.blocks => b.repath # 0 /\ b.relations \in {"unset", "hostile"}
    /\ "hunter" \in b.blocks => hunter_tuning_from_yaml(b.repath)
    /\ "guard" \in b.blocks => LeashHolds(b)

\* An item is used on an event, or on a condition that something ends.
ItemSkillHolds(s) ==
    /\ s.when # {}
    /\ s.when \cap {"on_state_enter", "on_spawn", "on_damaged"} = {} =>
          s.cooldown # 0 \/ s.once \/ "missing_status" \in s.when
    /\ "hp_below" \in s.when => s.share = "in (0, 1]"
SkillHolds(s) ==
    /\ s.type \in {"weapon", "leap", "charge", "item"}
    /\ IF s.type = "item" THEN ItemSkillHolds(s) ELSE ~s.once
    /\ Finite0(s.min) /\ Finite0(s.max) /\ (s.max > 0 => s.max > s.min)
    /\ s.weight # 0

ai_role_from_yaml(b) ==
    /\ b.keysKnown
    /\ b.remote => b.camp = "player_side"
    /\ b.behavior \in {"sentry", "guard", "squad", "hunter"}
    /\ ~Chases(b) => ~b.moves /\ b.blocks = {}
    /\ b.stationary # "unset" => (b.stationary = "yes") <=> ~Chases(b)
    /\ BehaviorBlocks(b)
    /\ Len(b.skills) \in 1..MaxSkills
    /\ \A i \in DOMAIN b.skills : SkillHolds(b.skills[i])

chaser_config_from_yaml(b) ==
    b.retreat.on =>
        /\ b.retreat.trigger # Absent
        /\ CASE b.retreat.style = "turn_and_run" ->
                  /\ b.retreat.target = Absent /\ b.retreat.maxTicks = Absent
                  /\ ~b.retreat.fire /\ b.retreat.runTicks # Absent
             [] b.retreat.style = "backpedal" -> b.retreat.runTicks = Absent
             [] OTHER -> FALSE

\* sp_attack_template_from_yaml: the two kinds and what each needs.
sp_attack_template_from_yaml(b) ==
    \A s \in SpAttacks(b) : b.spForm = "ok" /\ b.spTwin = "none"

\* How far the agent's weapons reach from where it stops; 0 has no limit,
\* Absent is nothing at all.
ReachOf(weapons) ==
    CASE weapons = {} -> Absent
      [] \E s \in weapons : s.max = 0 -> 0
      [] OTHER -> MaxOf({s.max : s \in weapons})
HoldingWeapons(b) == {s \in WeaponSkills(b) : ~(s.min > b.stop)}
AttackRange(b) == ReachOf(HoldingWeapons(b))

SentrySkills(b) ==
    /\ SpAttacks(b) = {}
    /\ Cardinality({i \in DOMAIN b.skills : b.skills[i].type = "weapon"}) = 1
    /\ \A s \in WeaponSkills(b) : s.min = 0 /\ s.max = 0 /\ s.cooldown = 0

SpAttackHolds(b, s) ==
    /\ s.known /\ s.max > 0
    /\ s.type = "leap" => b.landsWith = "one of its weapon skills" /\ b.leadMatches
    /\ Cardinality({i \in DOMAIN b.skills : b.skills[i].type = s.type}) = 1

WithinSight(b, s) ==
    b.vision > 0 /\ s.type # "item" =>
        /\ s.min < b.vision
        /\ s.type \in {"leap", "charge"} => s.max <= b.vision

\* Where a backpedal comes to rest.
RetreatTarget(b) ==
    LET reach == ReachOf(WeaponSkills(b)) IN
    IF b.retreat.target \notin {Absent, 0} THEN b.retreat.target
    ELSE IF reach > 0 /\ 9 * reach < 10 * b.resume THEN (9 * reach) \div 10
    ELSE b.resume

Backpedals(b) == b.retreat.on /\ b.retreat.style = "backpedal" /\ b.retreat.trigger # 0

RetreatHolds(b) ==
    b.retreat.on /\ b.retreat.trigger # 0 =>
        /\ Chases(b)
        /\ IsFinite(b.retreat.trigger) /\ b.retreat.trigger > 0
        /\ b.retreat.trigger < b.stop
        /\ b.retreat.power = "in (0, 1]"
        /\ IF Backpedals(b)
           THEN LET target == RetreatTarget(b)
                    reach == ReachOf(WeaponSkills(b)) IN
                /\ ~b.legged
                /\ IsFinite(target) /\ b.stop <= target /\ target <= b.resume
                /\ reach > 0 => target <= reach
                /\ b.vision > 0 => target < b.vision
                /\ b.retreat.maxTicks # 0
           ELSE b.retreat.runTicks # 0

resolve_agent_skills(b) ==
    /\ \A i \in DOMAIN b.skills : b.skills[i].known   \* carried, or in the catalog
    /\ WeaponSkills(b) # {}
    /\ \A s \in SpAttacks(b) : SpAttackHolds(b, s)
    /\ ~Chases(b) => SentrySkills(b)
    /\ Chases(b) =>
          /\ \A i \in DOMAIN b.skills : WithinSight(b, b.skills[i])
          /\ AttackRange(b) # Absent
    /\ RetreatHolds(b)

\* The agent's part of the actor loop of validate_gameplay_config.
ValidateSentry(b) == b.ticks # 0 /\ ~NotPositive(b.turnMin) /\ ~(b.turnMax < b.turnMin)
ValidateChaser(b) ==
    Chases(b) =>
        /\ Finite0(b.stop) /\ IsFinite(b.resume) /\ b.stop < b.resume
        /\ b.power = "in (0, 1]" /\ Finite0(b.spacing)
        /\ AttackRange(b) > 0 => b.resume <= AttackRange(b)
ValidateSpAttack(b) ==
    \A s \in SpAttacks(b) :
        IF s.type = "leap"
        THEN /\ Finite0(b.landing)
             /\ s.min > b.landing
             /\ AttackRange(b) > 0 => b.landing <= AttackRange(b)
             /\ b.arc = "ok"        \* apex and speed, one of them positive
        ELSE b.rush = "ok" /\ b.contact = "carried"

LoaderAcceptsBrain(b) ==
    /\ ai_role_from_yaml(b) /\ chaser_config_from_yaml(b)
    /\ sp_attack_template_from_yaml(b)
    /\ resolve_agent_skills(b)
    /\ ValidateSentry(b) /\ ValidateChaser(b) /\ ValidateSpAttack(b)

(***************************************************************************)
(* Spawn sources: the role they give the agents they make.                 *)
(***************************************************************************)

RoleGiven(s) == IF s.type = "unset" /\ s.route # 0 THEN "patrol" ELSE s.type

controller_spec_from_yaml(s) ==
    /\ s.type \in {"unset", "sentry", "guard", "patrol", "hunter"}
    /\ s.hunterKeys => s.type = "hunter" /\ hunter_tuning_from_yaml(s.repath)
    /\ s.route # 0 => s.routeAllowed /\ s.route >= 2 /\ s.routeFinite
    /\ s.route # 0 => s.type \in {"unset", "patrol"}
    /\ RoleGiven(s) = "patrol" => s.route # 0

validate_controller_spec(s) ==
    RoleGiven(s) # "unset" =>
        /\ s.template # "no ai"
        /\ (RoleGiven(s) = "sentry") <=> (s.template = "sentry")

LoaderAcceptsSource(s) == controller_spec_from_yaml(s) /\ validate_controller_spec(s)

(***************************************************************************)
(* What an author starts from and may write.                               *)
(***************************************************************************)

ActorDrafts ==
    {[kind |-> "actor", type |-> type, keysKnown |-> TRUE, hitbox |-> FALSE,
      id |-> 1, twin |-> "none", death |-> "unset", hp |-> 1, maxHp |-> 2,
      stagger |-> [written |-> FALSE, threshold |-> 1, gain |-> 1, duration |-> 1,
                   immunity |-> 0],
      knockdown |-> 0, controller |-> "character", movementKeys |-> TRUE,
      moveMask |-> {"unset"}, hover |-> Absent, speed |-> 1, slope |-> 1,
      step |-> 0, probe |-> 1, resistance |-> 0, slots |-> 1, active |-> 0,
      weaponsKnown |-> TRUE, capacity |-> Absent,
      bag |-> [written |-> FALSE, slots |-> 1, item |-> "fungible",
               quantity |-> 1, stack |-> 2],
      collider |-> "hit aabb", flags |-> "none", moveCollider |-> "movement capsule",
      visionCollider |-> IF type = "agent" THEN "vision cone" ELSE "none",
      isThePlayer |-> type = "player"] :
        type \in {"player", "agent"}}

RigDrafts ==
    {[kind |-> "rig", manifest |-> "ok", hash |-> "matches", bones |-> 4,
      bonesOrdered |-> TRUE, bonesNamedOnce |-> TRUE, twin |-> "none", id |-> 1,
      hasRig |-> TRUE, keysKnown |-> TRUE, version |-> 2, named |-> TRUE,
      forward |-> "positive_z", bonesKnown |-> TRUE, hinge |-> "along the bend",
      legs |-> 2, legTwin |-> FALSE, chain |-> TRUE, pole |-> "a direction",
      boneColliders |-> 1, boneColliderTwin |-> FALSE, boneShape |-> "unset",
      hitZone |-> 1, scale |-> "even", archive |-> "ok", bindLegs |-> "bent",
      pair |-> "known", pinned |-> "no hash", locomotion |-> "procedural_legged",
      deadzone |-> 0, yaw |-> 1, tuned |-> "every leg once", step |-> 0,
      reach |-> 1, group |-> 0, order |-> "a permutation", threshold |-> 1,
      duration |-> 1, swinging |-> 1, query |-> "raycast", start |-> 0,
      distance |-> 1, candidates |-> 1, follow |-> 0, slope |-> 0,
      flags |-> flags, layer |-> "actor"] :
        flags \in {NoFlags, {"hit"}}}

Skill(type, min, max) ==
    [type |-> type, known |-> TRUE, min |-> min, max |-> max, cooldown |-> 0,
     weight |-> 1, once |-> FALSE, share |-> "in (0, 1]",
     when |-> IF type = "item" THEN {"on_damaged"} ELSE {}]
NoRetreat ==
    [on |-> FALSE, style |-> "backpedal", trigger |-> Absent, target |-> Absent,
     power |-> "in (0, 1]", maxTicks |-> Absent, runTicks |-> Absent, fire |-> FALSE]
Backpedal == [NoRetreat EXCEPT !.on = TRUE, !.trigger = 5]
TurnAndRun == [Backpedal EXCEPT !.style = "turn_and_run", !.runTicks = 1]

BrainDrafts ==
    {[kind |-> "brain", keysKnown |-> TRUE, camp |-> "enemy_side", remote |-> FALSE,
      behavior |-> IF way = "sentry" THEN "sentry" ELSE "guard",
      stationary |-> "unset", moves |-> way # "sentry",
      blocks |-> {}, leash |-> 2, leashResume |-> 1, repath |-> 1,
      relations |-> "unset",
      skills |-> CASE way = "sentry" -> <<Skill("weapon", 0, 0)>>
                   [] way = "two weapons" ->
                         <<Skill("weapon", 0, 10), Skill("weapon", 10, 30)>>
                   [] way = "leap" -> <<Skill("weapon", 0, 20), Skill("leap", 20, 30)>>
                   [] way = "charge" -> <<Skill("weapon", 0, 20), Skill("charge", 20, 30)>>
                   [] way = "item" -> <<Skill("weapon", 0, 20), Skill("item", 0, 0)>>
                   [] OTHER -> <<Skill("weapon", 0, 30)>>,
      stop |-> 10, resume |-> 20, power |-> "in (0, 1]", spacing |-> 0,
      retreat |-> CASE way = "backpedal" -> Backpedal
                    [] way = "turn and run" -> TurnAndRun [] OTHER -> NoRetreat,
      legged |-> FALSE, vision |-> 40, ticks |-> 1, turnMin |-> 1, turnMax |-> 2,
      spForm |-> "ok", spTwin |-> "none", landsWith |-> "one of its weapon skills",
      leadMatches |-> TRUE, landing |-> 10, arc |-> "ok", rush |-> "ok",
      contact |-> "carried"] :
        way \in {"sentry", "two weapons", "leap", "charge", "item", "backpedal",
                 "turn and run"}}

SourceDrafts ==
    {[kind |-> "source", type |-> type, hunterKeys |-> FALSE, repath |-> 1,
      routeAllowed |-> TRUE, route |-> IF type = "patrol" THEN 2 ELSE 0,
      routeFinite |-> TRUE, template |-> IF type = "sentry" THEN "sentry" ELSE "moves"] :
        type \in {"unset", "sentry", "guard", "patrol", "hunter", "squad",
                  "lock_target"}}

Metres == {0, 10, 20, 30, 40}

SkillChoices(skills) ==
    UNION {{[skills EXCEPT ![i].min = v] : v \in Metres \cup {-1, NaN}} \cup
           {[skills EXCEPT ![i].max = v] : v \in Metres \cup {Inf}} \cup
           {[skills EXCEPT ![i].known = FALSE], [skills EXCEPT ![i].weight = 0],
            [skills EXCEPT ![i].once = TRUE], [skills EXCEPT ![i].cooldown = 1],
            [skills EXCEPT ![i].type = "song"],
            [skills EXCEPT ![i].share = "elsewhere"]} \cup
           {[skills EXCEPT ![i].when = w] :
                w \in {{}, {"state"}, {"hp_below"}, {"state", "missing_status"}}} :
             i \in DOMAIN skills}
      \cup {Append(skills, Skill(type, 20, 30)) : type \in {"weapon", "leap", "charge"}}
      \cup {<<>>, skills \o skills \o skills \o skills}

RetreatChoices(r) ==
    {[r EXCEPT !.on = TRUE], [r EXCEPT !.style = "turn_and_run"],
     [r EXCEPT !.style = "hover"], [r EXCEPT !.power = "elsewhere"],
     [r EXCEPT !.fire = TRUE]}
      \cup {[r EXCEPT !.trigger = v] : v \in {Absent, 0, 5, 20, NaN}}
      \cup {[r EXCEPT !.target = v] : v \in {0, 5, 15, 20, 30, Inf}}
      \cup {[r EXCEPT !.maxTicks = v] : v \in {0, 1}}
      \cup {[r EXCEPT !.runTicks = v] : v \in {0, 1}}

BrainChoices(b, field) ==
    CASE field = "camp" -> {"player_side"}
      [] field = "behavior" -> {"sentry", "guard", "squad", "hunter", "patrol",
                                "lock_target", "garrison"}
      [] field = "stationary" -> {"yes", "no"}
      [] field = "blocks" -> {{x} : x \in {"guard", "hunter", "lock_target", "squad"}}
      [] field \in {"leash", "leashResume"} -> {-1, 0, 1, 2, NaN}
      [] field \in {"repath", "ticks"} -> {0}
      [] field = "relations" -> {"hostile", "friendly"}
      [] field = "skills" -> SkillChoices(b.skills)
      [] field \in {"stop", "resume"} -> Metres \cup {-1, Inf, NaN}
      [] field = "power" -> {"elsewhere"}
      [] field \in {"spacing", "turnMin", "turnMax"} -> {-1, 0, 3, NaN}
      [] field = "retreat" -> RetreatChoices(b.retreat)
      [] field = "vision" -> {0, 10, 20, 30}
      [] field = "spForm" -> {"bad"}
      [] field = "spTwin" -> {"id", "name"}
      [] field = "landsWith" -> {"a weapon it has no skill for"}
      [] field = "landing" -> {-1, 0, 20, 30, NaN}
      [] field \in {"arc", "rush"} -> {"bad"}
      [] field = "contact" -> {"only in the catalog"}
      [] OTHER -> BOOLEAN        \* keysKnown, remote, moves, legged, leadMatches

SourceChoices(s, field) ==
    CASE field \in {"hunterKeys", "routeAllowed", "routeFinite"} -> BOOLEAN
      [] field = "repath" -> {0}
      [] field = "route" -> {0, 1, 2}
      [] field = "template" -> {"no ai", "sentry", "moves"}

RigChoices(r, field) ==
    CASE field \in {"manifest", "archive"} -> {"bad"}
      [] field \in {"hash", "pinned"} -> {"matches", "differs"}
      [] field \in {"bones", "candidates", "boneColliders", "legs"} ->
            {0, 1, 3, OverLimit}
      [] field = "twin" -> {"id", "name"}
      [] field \in {"id", "group", "duration", "swinging"} -> {0, 1, 2, 3}
      [] field = "version" -> {1}
      [] field = "forward" -> {"positive_x"}
      [] field = "hinge" -> {"zero", "not finite", "across the bend"}
      [] field = "pole" -> {"zero", "not finite"}
      [] field = "boneShape" -> {"sphere", "oriented_box", "capsule"}
      [] field = "scale" -> {"unit", "uneven"}
      [] field = "bindLegs" -> {"straight"}
      [] field = "pair" -> {"unknown"}
      [] field = "locomotion" -> {"wheels"}
      [] field = "tuned" -> {"a leg twice", "a leg missing", "a leg it has not"}
      [] field = "order" -> {"a leg twice", "a leg missing"}
      [] field = "query" -> {"sweep"}
      [] field \in {"deadzone", "yaw", "step", "reach", "threshold", "start",
                    "distance", "follow", "slope", "hitZone"} ->
            {-1, 0, 1, OverLimit, Inf, NaN}
      [] field = "flags" -> {NoFlags, {}, {"limb"}, {"hit", "trigger"}, {"hit", "vision"}}
      [] field = "layer" -> {"none", "unset"}
      [] OTHER -> BOOLEAN

ActorChoices(t, field) ==
    CASE field \in {"keysKnown", "hitbox", "movementKeys", "weaponsKnown",
                    "isThePlayer"} -> BOOLEAN
      [] field = "id" -> {0}
      [] field = "twin" -> {"id", "name"}
      [] field = "death" -> {"destroy", "dormant", "other"}
      [] field \in {"hp", "maxHp"} -> {0, 1, 2, 3}
      [] field = "stagger" ->
            {[t.stagger EXCEPT !.written = TRUE]}
              \cup {[t.stagger EXCEPT !.written = TRUE, !.threshold = v] :
                       v \in {Absent, -1, 0, NaN}}
              \cup {[t.stagger EXCEPT !.gain = v] : v \in {-1, NaN}}
              \cup {[t.stagger EXCEPT !.written = TRUE, !.duration = v] :
                       v \in {Absent, 0, OverLimit}}
              \cup {[t.stagger EXCEPT !.immunity = OverLimit]}
      [] field = "knockdown" -> {1, OverLimit, EmptyBlock}
      [] field = "controller" -> {"none", "grounded", "hover", "teleport"}
      [] field = "moveMask" -> {{}, {"limb"}, {"hostile_side"}}
      [] field = "hover" -> {-1, 1, Inf, NaN}
      [] field \in {"speed", "slope", "step", "probe", "resistance"} ->
            {-1, 0, 1, OverLimit, Inf, NaN}
      [] field = "slots" -> {0, 2, 3}
      [] field = "active" -> {1, -1, 256}
      [] field = "capacity" -> {0, 1, OverLimit}
      [] field = "bag" ->
            {[t.bag EXCEPT !.written = TRUE], [t.bag EXCEPT !.written = TRUE, !.slots = 2],
             [t.bag EXCEPT !.written = TRUE, !.slots = 0]}
              \cup {[t.bag EXCEPT !.written = TRUE, !.item = i] : i \in {"stateful", "unknown"}}
              \cup {[t.bag EXCEPT !.written = TRUE, !.quantity = q] : q \in {0, 2, 3}}
      [] field = "collider" -> {"bounds aabb", "hit sphere", "dangling"}
      [] field = "flags" -> {"hit", "limb only"}
      [] field = "moveCollider" -> {"short-lived capsule", "aabb", "dangling"}
      [] field = "visionCollider" -> {"none", "damage cone", "sphere", "dangling"}

LoaderAcceptsActor(t) ==
    CASE t.kind = "actor" -> actor_template_from_yaml(t) /\ ValidateActor(t)
      [] t.kind = "rig" -> LoaderAcceptsRig(t)
      [] t.kind = "brain" -> LoaderAcceptsBrain(t)
      [] OTHER -> LoaderAcceptsSource(t)

KernelAcceptsActor(t) ==
    CASE t.kind = "actor" -> LoadActor(t) /\ LoadActorEntity(t) /\ LoadMovement(t)
      [] t.kind = "rig" -> LoadSkeleton(t)
      [] OTHER -> TRUE

\* What only the kernel can see: the archive behind a rig, with the bind pose
\* and the bones' sizes; and a rig's colliders on no layer.
ActorDrift(t) ==
    t.kind = "rig" /\
        \/ t.archive # "ok" \/ t.bindLegs # "bent" \/ t.hinge = "across the bend"
        \/ t.flags # NoFlags
             /\ (t.scale = "unit" \/ t.layer = "none"
                   \/ (t.scale = "uneven" /\ t.boneShape = "sphere"))
=============================================================================
