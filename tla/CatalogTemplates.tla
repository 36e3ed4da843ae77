---------------------------- MODULE CatalogTemplates ----------------------------
(***************************************************************************)
(* The templates a fight is made of, on their way from YAML into the       *)
(* kernel: action, weapon, collider, projectile and status templates, and  *)
(* the graph of projectiles that spawn projectiles.  The game server reads *)
(* a template (..._from_yaml), resolves what it names, checks the whole    *)
(* configuration (validate_gameplay_config) and hands it over; the kernel  *)
(* checks every definition again by rules of its own (load_gameplay_       *)
(* catalog) and refuses the whole catalog over one of them.                *)
(*                                                                         *)
(* This module holds the rules of both; Catalog is the machine that edits, *)
(* reads and loads.  Numbers are classes: negative, zero, a few small      *)
(* ones, OverLimit for past a limit, Inf and NaN, which YAML can spell and *)
(* which pass any test of the form "refuse when x <= 0".                   *)
(***************************************************************************)
EXTENDS Integers, Sequences, FiniteSets

Absent == -9
OverLimit == 9
Inf == 90
NaN == 91

\* float comparisons: every one with NaN is false.
NotPositive(x) == x # NaN /\ x <= 0          \* x <= 0.0f
Positive(x) == x # NaN /\ x > 0              \* x > 0.0f
IsFinite(x) == x \notin {Inf, NaN}
positive_finite(x) == IsFinite(x) /\ x > 0

(***************************************************************************)
(* Action templates.                                                       *)
(***************************************************************************)

\* The contract both sides state: valid_action_template_definition here,
\* validate_action_template in the kernel.
valid_action_template_definition(t) ==
    /\ t.id # 0
    /\ t.commits # 1 => t.interval > 0
    /\ CASE t.mode = "press" -> t.commits >= 1 /\ t.timeout = 0
         [] t.mode = "charge" -> t.commits = 1 /\ t.offset > 0 /\ t.timeout > 0
         [] OTHER -> t.timeout > 0

action_flag_from_name(flag) ==
    flag \in {"cancel_on_release", "cancel_on_death", "cancel_on_weapon_change",
              "cancel_before_first_commit"}

action_template_from_yaml(t) ==
    /\ t.keysKnown
    /\ t.mode \in {"press", "hold", "charge"}
    /\ t.flagsListed /\ \A flag \in t.flags : action_flag_from_name(flag)
    /\ t.named
    /\ valid_action_template_definition(t)

\* Another template of the same id or name.
load_action_templates_from_source(t) ==
    action_template_from_yaml(t) /\ t.twin = "none"

\* Faulty variant: the kernel forgets that a charge takes time.
validate_action_template_instant(t) ==
    t.mode # "charge" \/ t.offset = 0

validate_action_template(t) == valid_action_template_definition(t)

LoadActionTemplates(t) == validate_action_template(t) /\ t.twin # "id"

(***************************************************************************)
(* Weapons, with the shot, the collider and the actions they name.         *)
(***************************************************************************)

InstantWeapons == {"hitscan", "shotgun"}
LockWeapons == {"lock_instant", "lock_missile"}
SpawningWeapons == {"projectile", "area_effect", "beam"}
ConeWeapons == {"melee"} \cup LockWeapons
WeaponTypes ==
    InstantWeapons \cup SpawningWeapons \cup ConeWeapons \cup {"targeted_strike"}

HeldWeaponNone == 255

\* The keys weapon_from_yaml needs for each type; a shotgun's spread goes with
\* its count.
WeaponKeys(type) ==
    {"projectile_template"}
      \cup (IF type \in InstantWeapons \cup {"targeted_strike"}
            THEN {"max_range"} ELSE {})
      \cup (IF type = "shotgun" THEN {"pellet_count"} ELSE {})
      \cup (IF type = "melee" THEN {"melee_collider"} ELSE {})
      \cup (IF type \in LockWeapons THEN {"lock_collider"} ELSE {})

weapon_from_yaml(t) ==
    /\ t.id \in 0..(HeldWeaponNone - 1)
    /\ t.keysKnown
    /\ t.inline = "none"
    /\ t.type \in WeaponTypes
    /\ WeaponKeys(t.type) \subseteq t.keys

load_weapon_catalog_from_source(t) ==
    /\ weapon_from_yaml(t)
    /\ t.twin = "none"
    /\ t.category >= 0 /\ t.category # OverLimit

\* Pellets and bursts are read as an int and kept in a byte.
PelletCount(t) ==
    CASE t.type = "shotgun" -> t.pellets % 256
      [] t.type = "projectile" ->
            IF "burst_count" \in t.keys THEN t.pellets % 256 ELSE 1
      [] OTHER -> 1

\* action_template_from_ref, and the interval a fire action must have.
FireActionResolves(t) ==
    "fire_action_template" \in t.keys => t.fireFound /\ t.interval # 0
ReloadActionResolves(t) == "reload_action_template" \in t.keys => t.reloadFound

MaxLockArcs == 4      \* KERNEL_MAX_LOCK_ARCS, scaled
MaxFlight == 5        \* UINT8_MAX ticks of a missile's flight, scaled

AtLeastOne(n) == IF n = 0 THEN 1 ELSE n

LockResolves(t) ==
    /\ t.hits <= MaxLockArcs
    /\ t.type = "lock_missile" => t.lifetime \in 1..MaxFlight
    /\ t.type = "lock_instant" =>
          /\ "fire_action_template" \in t.keys
          /\ t.cost = AtLeastOne(t.hits)
          /\ t.magazine % AtLeastOne(t.hits) = 0

\* A strike lands where only the server knows; what leaves a muzzle must not
\* fall back on the shooter.
SpawnedShotResolves(t) ==
    /\ t.type = "targeted_strike" => t.shotType # "beam" /\ t.shotSync = "server"
    /\ t.type \in SpawningWeapons => ~t.shotLaunch

\* A client tells a remote shooter's lock-on weapon by its fire action.
LockNamedByAction(t) == t.type = "lock_instant" => ~t.fireShared

apply_weapon_template_references(t) ==
    /\ FireActionResolves(t) /\ ReloadActionResolves(t)
    /\ t.shotFound
    /\ t.type \in InstantWeapons => "segment_collider" \in t.keys
    /\ t.type \in InstantWeapons \cup ConeWeapons => t.colliderFound
    /\ t.type \in LockWeapons => LockResolves(t)
    /\ SpawnedShotResolves(t) /\ LockNamedByAction(t)

\* What the weapon's definition holds once its references are resolved.
WeaponDefinition(t) ==
    [mode |-> IF t.type \in SpawningWeapons THEN "projectile" ELSE t.type,
     magazine |-> t.magazine, damage |-> t.damage, range |-> t.range,
     pellets |-> PelletCount(t),
     fire |-> "fire_action_template" \in t.keys,
     collider |-> t.shape, purpose |-> t.purpose, size |-> t.size]

\* validate_weapon_mechanics, the game server's copy.
validate_weapon_mechanics(w) ==
    /\ w.magazine # 0
    /\ w.mode \notin {"projectile", "targeted_strike"} => w.damage # 0
    /\ w.fire              \* and a reload action, its own or the catalog's
    /\ w.mode = "targeted_strike" => Positive(w.range)
    /\ w.mode \in InstantWeapons => ~NotPositive(w.range)
    /\ w.mode = "shotgun" => w.pellets # 0

\* What a spawning weapon's shot collides with binds the weapon too.
ValidateWeapon(t) ==
    /\ validate_weapon_mechanics(WeaponDefinition(t))
    /\ t.type \in SpawningWeapons => t.shotCollider
    /\ ~t.shotDerived                     \* validate_derived_projectiles

\* validate_weapon_mechanics, the kernel's.
KernelWeaponMechanics(w) ==
    /\ w.magazine # 0
    /\ w.mode \notin {"projectile", "targeted_strike"} => w.damage # 0
    /\ w.fire
    /\ w.mode = "targeted_strike" => Positive(w.range)
    /\ w.mode \in InstantWeapons => ~NotPositive(w.range)
    /\ w.mode = "shotgun" => w.pellets # 0

\* A cone weapon reaches as far as the cone on its collider does: anything
\* but a damage cone (or, for a lock_strike, a sphere) is refused.
resolve_lock_volume(w, sphereAllowed) ==
    /\ w.purpose = "damage"
    /\ w.collider = "cone" \/ (sphereAllowed /\ w.collider = "sphere")
    /\ Positive(w.size)

resolve_weapon_cone(w) == w.mode \in ConeWeapons => resolve_lock_volume(w, FALSE)

LoadWeapons(t) ==
    LET w == WeaponDefinition(t) IN
    KernelWeaponMechanics(w) /\ t.twin # "id" /\ resolve_weapon_cone(w)

(***************************************************************************)
(* Collider templates.                                                     *)
(***************************************************************************)

\* What each shape reads of its template.
ShapeKeys ==
    [aabb |-> {"center", "half_extents"}, oriented_box |-> {"center", "half_extents"},
     sphere |-> {"center", "radius"}, segment |-> {"radius"},
     cone |-> {"center", "range", "fov_degrees"},
     capsule |-> {"center", "half_height", "radius"},
     cylinder |-> {"half_height", "radius"}]
collider_shape_type_from_yaml(shape) == shape \in DOMAIN ShapeKeys
collider_purpose_from_yaml(purpose) ==
    purpose \in {"hit", "damage", "vision", "movement", "trigger", "bounds"}

\* A key the shape does not read is refused, one it has to read is needed.
OptionalShapeKeys == {"center"}
reject_keys_the_shape_does_not_read(t) == t.keys \subseteq ShapeKeys[t.shape]
collider_shape_params_from_yaml(t) ==
    t.shape # "segment" => ShapeKeys[t.shape] \ OptionalShapeKeys \subseteq t.keys

load_collider_catalog_from_source(t) ==
    /\ t.keysKnown
    /\ collider_shape_type_from_yaml(t.shape)
    /\ collider_purpose_from_yaml(t.purpose)
    /\ reject_keys_the_shape_does_not_read(t)
    /\ collider_shape_params_from_yaml(t)
    /\ t.twin = "none"

\* The rules on a shape's numbers; a segment's may be zero, a cone's second
\* is an angle of at most a full turn.
ShapeSized(t) ==
    IF t.shape = "segment" THEN t.size = NaN \/ t.size >= 0
    ELSE ~NotPositive(t.size)
        /\ t.shape = "cone" => t.size # OverLimit /\ t.size # Inf
ShapeServesPurpose(t) ==
    /\ t.shape = "cone" => t.purpose \in {"vision", "damage"}
    /\ t.shape = "capsule" => t.purpose = "movement" /\ t.lifetime = 0
    /\ t.shape = "cylinder" => t.purpose = "damage" /\ t.lifetime = 0

ValidateCollider(t) ==
    t.id # 0 /\ t.layer # {} /\ ShapeSized(t) /\ ShapeServesPurpose(t)

\* Bounds are an actor's hitbox: a box that is nothing else.
BoundsAreABox(t) == t.purpose = "bounds" => t.shape = "aabb" /\ t.lifetime = 0

LoadColliders(t) ==
    t.id # 0 /\ ShapeSized(t) /\ ShapeServesPurpose(t) /\ BoundsAreABox(t)

(***************************************************************************)
(* Projectile templates.                                                   *)
(***************************************************************************)

StaticWorld == {"terrain", "obstacle"}

motion_model_from_yaml(t) == IF t.movement = "unset" THEN "linear" ELSE t.movement
hit_response_from_yaml(t) == t.response \notin {"bounce", "attach"}
damage_shape_from_yaml(t) == t.damageShape \notin {"explosion", "persistent_beam"}
projectile_sync_mode_from_yaml(sync) == IF sync = "unset" THEN "hybrid" ELSE sync

\* The layers a mask may name; "none" is the empty mask.
collision_mask_from_yaml(mask) ==
    mask \subseteq {"actor", "limb", "prop", "projectile", "vision"} \cup StaticWorld

\* What a projectile of each type may be told to hit.
SupportedMask(type) ==
    {"limb"} \cup
    (CASE type = "area_effect" -> {"actor", "prop"}
       [] type = "beam" -> {"actor"} \cup StaticWorld
       [] OTHER -> {"actor", "projectile"} \cup StaticWorld)
require_supported_collision_mask(mask, supported) == mask \subseteq supported

SyncOf(t) ==
    IF t.type = "area_effect" \/ t.launch \/ t.replication = "derived"
    THEN IF t.sync = "unset" THEN "server" ELSE t.sync
    ELSE projectile_sync_mode_from_yaml(t.sync)

SpeedOf(t) == IF t.launch \/ t.speed = Absent THEN 0 ELSE t.speed

is_stationary_marker(t) ==
    /\ t.type = "standard" /\ SpeedOf(t) = 0 /\ t.mask = {}
    /\ motion_model_from_yaml(t) = "linear" /\ ~t.gravity

\* read_projectile_launch: one class stands for the elevations, the height
\* and the fall, OverLimit for an elevation past 90 degrees; a fall lasts one
\* tick.
FallTicks == 1
read_projectile_launch(t) ==
    /\ t.type = "standard" /\ motion_model_from_yaml(t) = "linear"
    /\ SyncOf(t) = "server" /\ ~t.gravity
    /\ IsFinite(t.number) /\ t.number > 0 /\ t.number # OverLimit
    /\ t.lifetime > FallTicks

\* An area effect's reach is its collider's, centred on the field.
area_effect_reach_from_collider(t) ==
    t.collider \in {"sphere", "cylinder"} /\ t.centred

area_effect_motion_from_yaml(t) ==
    CASE t.motion \in {"unset", "linear"} -> TRUE
      [] t.motion = "ground_follow" ->
            /\ Positive(SpeedOf(t))
            /\ "terrain" \in t.motionMask
            /\ SyncOf(t) # "hybrid"
            /\ positive_finite(t.number) /\ t.number # OverLimit
      [] OTHER -> FALSE           \* settings on a linear motion, other types

ReadAreaEffect(t) ==
    /\ "damage_behavior" \in t.keys
    /\ t.movement = "unset" /\ t.response = "unset" /\ t.damageShape = "unset"
    /\ ~t.onExpired /\ ~t.launch
    /\ t.replication = "derived" => t.sync \in {"unset", "server"}
    /\ IsFinite(SpeedOf(t)) /\ SpeedOf(t) >= 0
    /\ area_effect_reach_from_collider(t)
    /\ require_supported_collision_mask(t.motionMask, StaticWorld)
    /\ t.motionMask # {} => Positive(SpeedOf(t))
    /\ area_effect_motion_from_yaml(t)

\* A derived projectile is drawn from a path every client works out alone.
ReadDerived(t) ==
    t.replication = "derived" =>
        /\ SyncOf(t) = "server"
        /\ t.type # "beam" /\ motion_model_from_yaml(t) # "homing"
        /\ t.mask \subseteq StaticWorld

ReadBeam(t) ==
    IF t.type = "beam"
    THEN t.collider \in {"aabb", "oriented_box"} /\ ~t.beamReach
    ELSE "beam" \notin t.keys

ReadHoming(t) ==
    IF motion_model_from_yaml(t) = "homing"
    THEN /\ "homing" \in t.keys
         /\ (IF t.homingSync # "unset" THEN t.homingSync
             ELSE projectile_sync_mode_from_yaml(t.sync)) = SyncOf(t)
    ELSE "homing" \notin t.keys

ReadFlying(t) ==
    /\ t.collider # "cylinder"
    /\ t.motion = "unset" /\ t.motionMask = {} /\ "hit_instigator" \notin t.keys
    /\ ReadDerived(t)
    /\ hit_response_from_yaml(t) /\ damage_shape_from_yaml(t)
    /\ t.launch => t.speed = Absent /\ read_projectile_launch(t)
    /\ ~t.launch => t.speed # Absent
    /\ t.type = "standard" /\ ~t.launch =>
          Positive(SpeedOf(t)) \/ is_stationary_marker(t)
    /\ ReadBeam(t) /\ ReadHoming(t)

projectile_template_from_yaml(t) ==
    /\ t.keysKnown              \* and none of the keys that moved elsewhere
    /\ t.collider # "dangling"
    /\ t.replication \in {"replicated", "derived"}
    /\ t.stagger # Absent => IsFinite(t.stagger) /\ t.stagger >= 0
    /\ collision_mask_from_yaml(t.mask) /\ collision_mask_from_yaml(t.motionMask)
    /\ require_supported_collision_mask(t.mask, SupportedMask(t.type))
    /\ IF t.type = "area_effect" THEN ReadAreaEffect(t) ELSE ReadFlying(t)

HitsOf(t) ==
    IF t.type = "area_effect" \/ t.hits = Absent THEN 1 ELSE t.hits
DamageShapeOf(t) ==
    CASE t.type = "area_effect" -> IF t.damage = 0 THEN "none" ELSE "direct_hit"
      [] t.damageShape = "unset" -> "direct_hit"
      [] OTHER -> t.damageShape
DamageSuitsShape(t) == (DamageShapeOf(t) = "none") <=> (t.damage = 0)

\* The projectile loop of validate_gameplay_config.
ValidateProjectile(t) ==
    /\ t.id # 0 /\ t.twin = "none"
    /\ DamageSuitsShape(t)
    /\ t.collider = "none" => t.mask = {} \/ t.unspawned
    /\ t.collider # "cone"
    /\ t.type = "standard" =>
          /\ NotPositive(SpeedOf(t)) => is_stationary_marker(t) \/ t.launch
          /\ t.lifetime # 0 /\ HitsOf(t) # 0
    /\ t.type = "area_effect" =>
          ~NotPositive(t.size) /\ t.interval # 0 /\ t.lifetime # 0
    /\ t.type = "beam" => ~NotPositive(t.size) /\ t.damage # 0 /\ t.lifetime # 0
    /\ motion_model_from_yaml(t) = "homing" =>
          ~NotPositive(t.number) /\ t.number # OverLimit

(***************************************************************************)
(* The kernel's rules for a projectile.                                    *)
(***************************************************************************)

validate_homing_mechanics(t) ==
    SyncOf(t) = "hybrid" /\ Positive(t.number) /\ t.number # OverLimit

validate_launch_mechanics(t) == t.launch => read_projectile_launch(t)

validate_area_effect_shape(t) == t.collider = "cylinder" => positive_finite(t.size)
validate_area_effect_motion(t) ==
    t.motion = "ground_follow" =>
        "terrain" \in t.motionMask /\ positive_finite(t.number)
validate_area_effect_mechanics(t) ==
    /\ Positive(t.size) /\ t.interval > 0 /\ t.lifetime > 0
    /\ t.mask \subseteq {"actor", "prop"}
    /\ t.motionMask \subseteq StaticWorld
    /\ validate_area_effect_shape(t) /\ validate_area_effect_motion(t)

validate_beam_mechanics(t) ==
    /\ Positive(t.size) /\ t.damage > 0 /\ t.lifetime > 0
    /\ t.mask \subseteq {"actor", "limb"} \cup StaticWorld

validate_projectile_mechanics(t) ==
    /\ hit_response_from_yaml(t)
    /\ t.stagger # Absent => IsFinite(t.stagger) /\ t.stagger >= 0
    /\ DamageSuitsShape(t) /\ HitsOf(t) # 0
    /\ t.mask \subseteq SupportedMask(t.type)
    /\ validate_launch_mechanics(t)
    /\ t.replication = "derived" =>
          /\ SyncOf(t) = "server" /\ t.type # "beam"
          /\ motion_model_from_yaml(t) # "homing"
    /\ t.type = "standard" =>
          /\ NotPositive(SpeedOf(t)) => is_stationary_marker(t) \/ t.launch
          /\ t.lifetime # 0
    /\ motion_model_from_yaml(t) = "homing" =>
          t.type = "standard" /\ validate_homing_mechanics(t)
    /\ t.type = "area_effect" => validate_area_effect_mechanics(t)
    /\ t.type = "beam" => validate_beam_mechanics(t)

\* With the collider it names: a cylinder is an area effect's only.
LoadProjectiles(t) ==
    /\ t.id # 0 /\ validate_projectile_mechanics(t)
    /\ t.collider \notin {"cone", "dangling"}
    /\ t.collider = "cylinder" => t.type = "area_effect"

(***************************************************************************)
(* Projectiles that spawn projectiles.  spawns[p][trigger] lists what each *)
(* action of the trigger spawns, 0 for an action that spawns nothing.      *)
(***************************************************************************)

Shots == 1..3
ShotTriggers == {"on_projectile_impact", "on_expired"}
Named(s) == {s[i] : i \in DOMAIN s} \ {0}

\* The loader follows the first action of each trigger, which the trigger
\* mirrors ...
FirstSpawned(t) ==
    {<<p, q>> \in Shots \X Shots :
        \E on \in ShotTriggers : t.spawns[p][on] # <<>> /\ q = t.spawns[p][on][1]}
\* ... and the kernel all of them (spawned_projectile_ids).
spawned_projectile_ids(t) ==
    {<<p, q>> \in Shots \X Shots : \E on \in ShotTriggers : q \in Named(t.spawns[p][on])}

\* A path returns to itself iff some set of shots always has a way on.
HasCycle(edges) ==
    \E S \in SUBSET Shots \ {{}} : \A p \in S : \E q \in S : <<p, q>> \in edges

projectile_template_has_trigger_cycle(t) == HasCycle(spawned_projectile_ids(t))

\* Faulty variant: a derived shot may spawn what it likes.
validate_derived_projectiles_lax(t) ==
    \A p \in Shots, q \in t.derived :
        <<p, q>> \in spawned_projectile_ids(t) =>
            p \in t.derived \/ (t.strike = p /\ t.marker)

\* validate_derived_projectiles: what a derived projectile descends from.
\* Shot 1 is the one a targeted strike lands, or another weapon fires.
validate_derived_projectiles(t) ==
    /\ t.strike \notin t.derived
    /\ \A p \in Shots, q \in Shots : <<p, q>> \in spawned_projectile_ids(t) =>
          /\ p \in t.derived => q \in t.derived
          /\ q \in t.derived => p \in t.derived \/ (t.strike = p /\ t.marker)
    /\ ~(t.entity.spawns \in t.derived /\ t.entity.names = "by name"
           /\ t.entity.on \in {"on_activated", "on_collision",
                               "on_health_depleted", "on_destroy_entity"})

LoadChains(t) == ~projectile_template_has_trigger_cycle(t)

(***************************************************************************)
(* Status effect templates.                                                *)
(***************************************************************************)

StackMax == 3         \* 32 stacks, scaled

status_effect_template_from_yaml(t) ==
    /\ t.keysKnown
    /\ t.policy \in {"replace", "refresh", "stack"}
    /\ IF t.policy = "stack" THEN t.stackKeys /\ t.stacks \in 2..StackMax
                             ELSE ~t.stackKeys
    /\ t.id # 0 /\ t.named /\ t.duration # 0 /\ t.interval <= t.duration
    /\ t.onTick => t.interval # 0

load_status_effect_templates_from_source(t) ==
    /\ status_effect_template_from_yaml(t)
    /\ t.twin = "none"            \* id, name, or a channel hash that collides

LoadStatuses(t) ==
    /\ t.id # 0 /\ t.duration # 0 /\ t.interval <= t.duration
    /\ t.policy = "stack" => t.stacks \in 2..StackMax
    /\ t.policy # "stack" => ~t.stackKeys
    /\ t.onTick => t.interval # 0
    /\ t.twin # "id"

(***************************************************************************)
(* What an author starts from and may write.                               *)
(***************************************************************************)

Actions ==
    {[kind |-> "action", keysKnown |-> TRUE, named |-> TRUE, mode |-> mode,
      flagsListed |-> TRUE, flags |-> {"cancel_on_death"}, twin |-> "none",
      id |-> 1, commits |-> 1, offset |-> 1, interval |-> 1,
      timeout |-> IF mode = "press" THEN 0 ELSE 1] :
        mode \in {"press", "hold", "charge"}}

Weapons ==
    {[kind |-> "weapon", keysKnown |-> TRUE, type |-> type, inline |-> "none",
      keys |-> WeaponKeys(type) \cup {"fire_action_template"}
                  \cup (IF type \in InstantWeapons
                        THEN {"segment_collider"} ELSE {}),
      id |-> 1, twin |-> "none", category |-> 0, magazine |-> 2, range |-> 1,
      pellets |-> 1, fireFound |-> TRUE, interval |-> 1, cost |-> 1,
      fireShared |-> FALSE, reloadFound |-> TRUE, shotFound |-> TRUE,
      damage |-> 1, hits |-> 1, lifetime |-> 2, shotType |-> "standard",
      shotSync |-> IF type = "targeted_strike" THEN "server" ELSE "hybrid",
      shotLaunch |-> FALSE, shotDerived |-> FALSE, shotCollider |-> TRUE,
      colliderFound |-> TRUE, purpose |-> "damage", size |-> 1,
      shape |-> IF type \in ConeWeapons THEN "cone" ELSE "segment"] :
        type \in WeaponTypes}

Colliders ==
    {[kind |-> "collider", keysKnown |-> TRUE, shape |-> shape, id |-> 1,
      keys |-> ShapeKeys[shape] \ OptionalShapeKeys, twin |-> "none",
      size |-> 1, lifetime |-> 0, layer |-> {"actor"},
      purpose |-> IF shape = "capsule" THEN "movement" ELSE "damage"] :
        shape \in DOMAIN ShapeKeys}

Projectiles ==
    {[kind |-> "projectile", keysKnown |-> TRUE, type |-> type, id |-> 1,
      twin |-> "none", movement |-> movement, response |-> "unset",
      damageShape |-> "unset", sync |-> "unset", homingSync |-> "unset",
      keys |-> (IF type = "area_effect" THEN {"damage_behavior"} ELSE {})
                 \cup (IF movement = "homing" THEN {"homing"} ELSE {}),
      collider |-> CASE type = "area_effect" -> "sphere"
                     [] type = "beam" -> "oriented_box" [] OTHER -> "sphere",
      centred |-> TRUE, size |-> 1, mask |-> {"actor"}, motionMask |-> {},
      motion |-> "unset", launch |-> FALSE, speed |-> 1, gravity |-> FALSE,
      number |-> 1, lifetime |-> 2, interval |-> 1, damage |-> 1,
      hits |-> Absent, stagger |-> Absent, onExpired |-> FALSE,
      replication |-> "replicated", beamReach |-> FALSE, unspawned |-> FALSE] :
        type \in {"standard", "area_effect", "beam"},
        movement \in {"unset", "homing"}}

Chains ==
    {[kind |-> "chain",
      spawns |-> [p \in Shots |-> [on \in ShotTriggers |-> <<>>]],
      derived |-> {}, strike |-> strike, marker |-> TRUE,
      entity |-> [spawns |-> 0, on |-> "on_activated", names |-> "by name"]] :
        strike \in 0..1}

Statuses ==
    {[kind |-> "status", keysKnown |-> TRUE, named |-> TRUE, policy |-> policy,
      stackKeys |-> policy = "stack", stacks |-> IF policy = "stack" THEN 2 ELSE 0,
      id |-> 1, duration |-> 2, interval |-> 1, onTick |-> TRUE, twin |-> "none"] :
        policy \in {"replace", "refresh", "stack"}}

\* What an author may write, by field.
TemplateChoices(t, field) ==
    CASE field \in {"keysKnown", "named", "flagsListed", "fireFound",
                    "reloadFound", "fireShared", "shotFound", "shotLaunch",
                    "shotDerived", "shotCollider", "colliderFound", "centred",
                    "launch", "gravity", "onExpired", "beamReach", "unspawned",
                    "marker", "stackKeys", "onTick"} -> BOOLEAN
      [] field = "twin" -> {"id", "name"}
      [] field \in {"id", "commits", "offset", "timeout", "magazine", "cost",
                    "hits", "lifetime", "duration", "stacks", "damage"} ->
            {0, 1, 2, 4, 6}
      [] field = "interval" -> {0, 1, 4}
      [] field \in {"category", "size", "range", "number"} ->
            {-1, 0, 1, OverLimit, Inf, NaN}
      [] field \in {"speed", "stagger"} -> {Absent, -1, 0, 1, Inf, NaN}
      [] field = "pellets" -> {-1, 0, 1, 256}
      [] field = "inline" -> {"area_effect", "beam"}
      [] field = "flags" -> {{}, {"cancel_sometimes"}}
      [] field = "keys" ->
            LET all == IF t.kind = "weapon"
                       THEN {"projectile_template", "max_range", "pellet_count",
                             "melee_collider", "lock_collider", "segment_collider",
                             "burst_count", "fire_action_template",
                             "reload_action_template"}
                       ELSE IF t.kind = "collider"
                       THEN {"center", "half_extents", "half_height", "radius",
                             "range", "fov_degrees"}
                       ELSE {"damage_behavior", "hit_instigator", "beam", "homing"}
            IN  {t.keys \cup {k} : k \in all} \cup {t.keys \ {k} : k \in t.keys}
      [] field = "purpose" -> {"hit", "damage", "vision", "movement", "trigger",
                               "bounds", "limb"}
      [] field = "shape" -> {"aabb", "sphere", "cone"}
      [] field = "layer" -> {{}}
      [] field \in {"mask", "motionMask"} ->
            {{}, {"terrain"}, {"limb"}, {"prop"}, {"projectile"}, {"vision"}, {"sky"}}
      [] field \in {"sync", "homingSync", "shotSync"} -> {"local", "server", "hybrid"}
      [] field = "movement" -> {"linear", "parabolic", "homing"}
      [] field = "response" -> {"destroy", "continue", "bounce", "attach"}
      [] field = "damageShape" -> {"direct_hit", "none", "piercing_segment", "explosion"}
      [] field = "collider" -> {"none", "dangling", "aabb", "sphere", "cylinder", "cone"}
      [] field = "motion" -> {"linear", "linear with settings", "ground_follow"}
      [] field = "replication" -> {"derived", "other"}
      [] field = "shotType" -> {"beam"}
      [] field = "spawns" ->
            {[t.spawns EXCEPT ![p] = [@ EXCEPT ![on] = Append(@, q)]] :
                p \in Shots, on \in ShotTriggers, q \in 0..3}
      [] field = "derived" -> {t.derived \cup {p} : p \in Shots}
      [] field = "entity" ->
            [spawns : Shots, on : {"on_activated", "on_enter"},
             names : {"by name", "by id", "by default"}]
      [] OTHER -> {}

TemplateDrafts ==
    Actions \cup Weapons \cup Colliders \cup Projectiles \cup Chains \cup Statuses

\* Reading, references and validate_gameplay_config.
LoaderAcceptsTemplate(t) ==
    CASE t.kind = "action" -> load_action_templates_from_source(t)
      [] t.kind = "weapon" ->
            /\ load_weapon_catalog_from_source(t)
            /\ apply_weapon_template_references(t)
            /\ ValidateWeapon(t)
      [] t.kind = "collider" ->
            load_collider_catalog_from_source(t) /\ ValidateCollider(t)
      [] t.kind = "projectile" ->
            projectile_template_from_yaml(t) /\ ValidateProjectile(t)
      [] t.kind = "chain" ->
            ~HasCycle(FirstSpawned(t)) /\ validate_derived_projectiles(t)
      [] OTHER -> load_status_effect_templates_from_source(t)

KernelAcceptsTemplate(t) ==
    CASE t.kind = "action" -> LoadActionTemplates(t)
      [] t.kind = "weapon" -> LoadWeapons(t)
      [] t.kind = "collider" -> LoadColliders(t)
      [] t.kind = "projectile" -> LoadProjectiles(t)
      [] t.kind = "chain" -> LoadChains(t)
      [] OTHER -> LoadStatuses(t)

\* The templates the loader lets through and the kernel refuses in this code.
TemplateDrift(t) ==
    \/ t.kind = "weapon" /\ t.type \in ConeWeapons
         /\ (t.shape # "cone" \/ t.purpose # "damage" \/ ~Positive(t.size))
    \/ t.kind = "collider" /\ t.purpose = "bounds"
         /\ (t.shape # "aabb" \/ t.lifetime # 0)
    \/ t.kind = "projectile" /\
         \/ motion_model_from_yaml(t) = "homing"
              /\ (SyncOf(t) # "hybrid" \/ t.type # "standard" \/ t.number = NaN)
         \/ t.type = "beam" /\ (t.hits = 0 \/ t.size = NaN)
         \/ t.type = "area_effect" /\
              (t.mask = {"limb"} \/ t.size = NaN
                 \/ (t.collider = "cylinder" /\ t.size = Inf))
    \/ t.kind = "chain" /\ projectile_template_has_trigger_cycle(t)

\* The spawns validate_derived_projectiles does not look at: the volume
\* triggers of an entity, and a shot named by its id or by the graph.
UncheckedSpawn(t) == t.entity.on = "on_enter" \/ t.entity.names # "by name"
=============================================================================
