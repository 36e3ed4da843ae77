----------------------------- MODULE CatalogGraphs -----------------------------
(***************************************************************************)
(* An authored action graph on its way into the game: the YAML of the      *)
(* graph is read (action_graph_template_from_yaml), one trigger binds it   *)
(* and the loader compiles the pair (compile_projectile_trigger_binding,   *)
(* compile_action_trigger_binding), the kernel checks the compiled trigger *)
(* by a table of its own when the catalog arrives (validate_projectile_    *)
(* mechanics, validate_status_trigger, the entity loop of                  *)
(* load_gameplay_catalog, valid_item_used_graph), and the simulation       *)
(* compiles it once more to run it (compile_action_trigger_definition).    *)
(* Four hand-written tables hold one set of rules; the module asks where   *)
(* they disagree.                                                          *)
(*                                                                         *)
(* A graph holds `count' copies of one action.  Its numbers are abstracted *)
(* to one number of the classes -1, 0, 1, Big and Over (past whichever     *)
(* limit the action's number has); a key of the YAML is present or not;    *)
(* ids, names and vectors are what the checks tell apart.  An author starts     *)
(* from a well-formed action of any type under any trigger and makes       *)
(* GraphEdits edits.                                                       *)
(***************************************************************************)
EXTENDS Integers, FiniteSets, TLC

CONSTANT GraphEdits   \* edits an author makes to the well-formed graph

ASSUME GraphEditsAssumption == GraphEdits \in Nat

VARIABLES
    graph,        \* the authored graph and the binding that names it
    graphEdits,   \* edits left
    graphStage,   \* how far it has come
    trigger       \* the KernelActionTriggerDefinition the loader compiled

graphVars == <<graph, graphEdits, graphStage, trigger>>

Over == 9         \* past the limit: uint16, 300 ticks, 16 repeats, 20 m/s, 5 m
Big == 8          \* within it once, and past it for a full stack of statuses
MaxActions == 8   \* KERNEL_MAX_ACTION_GRAPH_ACTIONS

EntityTriggers == {"on_activated", "on_collision", "on_health_depleted",
                   "on_destroy_entity", "on_enter", "on_overlap", "on_exit"}
VolumeTriggers == {"on_enter", "on_overlap", "on_exit"}
ProjectileTriggers == {"on_projectile_impact", "on_expired"}
StatusTriggers == {"on_apply", "on_tick", "on_expire"}
Triggers == EntityTriggers \cup ProjectileTriggers \cup StatusTriggers
                \cup {"on_item_used"}

StatusBound == {"apply_speed_modifier", "apply_block_actions",
                "apply_suspend_movement", "apply_hover_movement",
                "apply_untargetable"}

(***************************************************************************)
(* What the YAML of an action may and must say.                            *)
(***************************************************************************)

\* The keys reject_unknown_keys lets through for any action.
ActionKeys ==
    {"type", "projectile_template", "entity_template", "position", "direction",
     "owner", "target", "amount", "strength", "status", "operation", "value",
     "lockout_ticks", "stagger", "item_template", "quantity", "when",
     "lifetime_ticks", "repeat", "anchor", "distance", "airtime_ticks",
     "max_speed", "ui_id", "placement", "count", "percent", "rise_speed",
     "drift_speed", "height_meters", "vertical_speed", "collider", "mode",
     "origin_lift"}

\* The keys that belong to one kind of action and are refused on the others.
OnlyOn ==
    [k \in {"stagger"} |-> {"apply_damage"}] @@
    [k \in {"anchor", "distance", "airtime_ticks", "max_speed"} |->
        {"apply_pull"}] @@
    [k \in {"placement"} |-> {"spawn_entity"}] @@
    [k \in {"rise_speed", "drift_speed"} |-> {"apply_suspend_movement"}] @@
    [k \in {"height_meters", "vertical_speed"} |-> {"apply_hover_movement"}] @@
    [k \in {"ui_id"} |-> {"open_ui"}] @@
    [k \in {"lifetime_ticks"} |-> {"spawn_projectile"}] @@
    [k \in {"repeat"} |-> {"spawn_projectile", "lock_strike"}]

\* The keys an action of each type has to carry.
RequiredKeys ==
    [t \in {"spawn_projectile"} |->
        {"projectile_template", "position", "direction"}] @@
    [t \in {"lock_strike"} |->
        {"mode", "collider", "projectile_template", "position"}] @@
    [t \in {"spawn_entity"} |-> {"entity_template", "position", "owner"}] @@
    [t \in {"apply_damage", "apply_health_change"} |-> {"target", "amount"}] @@
    [t \in {"apply_impulse"} |-> {"target", "strength", "direction"}] @@
    [t \in {"apply_pull"} |->
        {"target", "airtime_ticks", "max_speed", "strength"}] @@
    [t \in {"apply_status", "remove_status"} |-> {"target", "status"}] @@
    [t \in {"refill_weapon_reserve"} |-> {"target"}] @@
    [t \in {"open_ui"} |-> {"target", "ui_id"}] @@
    [t \in {"apply_suspend_movement"} |-> {"target", "rise_speed"}] @@
    [t \in {"apply_hover_movement"} |->
        {"target", "height_meters", "vertical_speed"}] @@
    [t \in {"apply_block_actions", "apply_untargetable", "teleport"} |->
        {"target"}] @@
    [t \in {"apply_speed_modifier"} |-> {"target", "operation", "value"}]

ActionTypes == DOMAIN RequiredKeys

\* The branches of action_graph_template_from_yaml: which keys an action
\* refuses by name, which go together, and what a literal number is held to
\* (a number bound to a parameter is read per binding).
PlainKeys == {"projectile_template", "position", "owner", "amount",
              "entity_template", "item_template", "quantity"}

\* read_spawn_repeat: count, and the radius the copies scatter over.
read_spawn_repeat(keys, n) == "repeat" \in keys => n > 0 /\ n # Over

ReadSpawnProjectile(keys, n) ==
    /\ keys \cap {"entity_template", "owner", "target", "amount",
                  "item_template", "quantity"} = {}
    /\ read_spawn_repeat(keys, n)

ReadSpawnEntity(keys) ==
    /\ keys \cap {"projectile_template", "target", "amount"} = {}
    /\ "item_template" \in keys <=> "quantity" \in keys

ReadLockStrike(keys, n) ==
    /\ keys \subseteq RequiredKeys["lock_strike"]
          \cup {"type", "when", "direction", "origin_lift", "repeat"}
    /\ n >= 0 /\ n # Over

ReadHarm(t, keys, n) ==
    IF t = "apply_impulse"
    THEN /\ keys \cap PlainKeys = {}
         /\ "lockout_ticks" \in keys => n # Over
    ELSE keys \cap ((PlainKeys \ {"amount"})
                       \cup {"direction", "strength", "lockout_ticks"}) = {}

ReadPull(keys, n) ==
    /\ keys \cap (PlainKeys \cup {"lockout_ticks"}) = {}
    /\ ("anchor" \in keys) # ("direction" \in keys)
    /\ "direction" \in keys => "distance" \in keys
    /\ n > 0 /\ n # Over                              \* pull_is_authorable

ReadStatus(t, keys, n) ==
    /\ keys \cap (PlainKeys \cup {"operation", "value", "lockout_ticks"}) = {}
    /\ t = "remove_status" => keys \cap {"direction", "strength"} = {}
    /\ "strength" \in keys => n > 0

ReadService(t, keys, n) ==
    /\ keys \cap (PlainKeys \cup {"direction", "strength", "status",
                    "operation", "value", "lockout_ticks"}) = {}
    /\ IF t = "refill_weapon_reserve"
       THEN ("count" \in keys) # ("percent" \in keys) /\ n > 0 /\ n # Over
       ELSE n # 0                                      \* open_ui

ReadHold(t, keys, n) ==
    /\ IF t = "apply_speed_modifier"
       THEN keys \cap (PlainKeys \cup {"direction", "strength", "status",
                                       "lockout_ticks"}) = {}
       ELSE keys \subseteq RequiredKeys[t] \cup {"type", "when", "drift_speed"}
    /\ t = "apply_suspend_movement" => n >= 0 /\ n # Over
    /\ t = "apply_hover_movement" => n > 0 /\ n # Over

ReadAction(t, keys, n) ==
    CASE t = "spawn_projectile" -> ReadSpawnProjectile(keys, n)
      [] t = "spawn_entity" -> ReadSpawnEntity(keys)
      [] t = "lock_strike" -> ReadLockStrike(keys, n)
      [] t \in {"apply_damage", "apply_health_change", "apply_impulse"} ->
            ReadHarm(t, keys, n)
      [] t = "apply_pull" -> ReadPull(keys, n)
      [] t \in {"apply_status", "remove_status"} -> ReadStatus(t, keys, n)
      [] t \in {"refill_weapon_reserve", "open_ui"} -> ReadService(t, keys, n)
      [] OTHER -> ReadHold(t, keys, n)

\* load_action_graph_templates_from_source: the id is action_<snake_case>, the
\* file's own name and unique; the graph has a parameters map.
GraphNamed(g) == g.form = "ok"

\* Every params.<name> an action uses is a parameter of the graph, and only a
\* direction has a vector for a default, which points somewhere.
ParametersDeclared(g) == g.declared /\ g.direction # "zero vec3"

ReadableNumber == 1      \* stands in for a number no literal gives

action_graph_template_from_yaml(g) ==
    /\ GraphNamed(g)
    /\ g.count \in 0..MaxActions
    /\ g.count > 0 =>
          /\ g.keys \subseteq ActionKeys
          /\ \A k \in g.keys \cap DOMAIN OnlyOn : g.type \in OnlyOn[k]
          /\ g.when \in {"always", "event.has_target"}
          /\ RequiredKeys[g.type] \subseteq g.keys
          /\ ReadAction(g.type, g.keys,
                        IF g.bound THEN ReadableNumber ELSE g.number)
    /\ ParametersDeclared(g)

(***************************************************************************)
(* The loader compiles a binding of the graph.                             *)
(***************************************************************************)

EntityRefs == {"self", "event.subject", "event.target", "event.instigator"}

\* Which expressions the loader says a trigger provides.
event_expression_available(on, expression) ==
    CASE expression \in {"event.subject", "event.position"} -> TRUE
      [] expression = "event.target" ->
            on \in {"on_activated", "on_item_used", "on_collision",
                    "on_projectile_impact"} \cup VolumeTriggers
      [] expression = "event.instigator" -> on # "on_collision"
      [] expression = "event.direction" ->
            on \in {"on_activated", "on_item_used", "on_collision",
                    "on_destroy_entity"} \cup ProjectileTriggers
                        \cup VolumeTriggers
      [] expression \in {"event.subject_direction", "event.subject_position"} ->
            on \in ProjectileTriggers
      [] expression = "event.surface_normal" -> on = "on_projectile_impact"
      [] OTHER -> TRUE          \* a literal: self, a number, a vec3, a name

\* The fields of an action that name a parameter holding an expression.
Expressions(g) ==
    (IF "target" \in g.keys \/ "owner" \in g.keys THEN {g.target} ELSE {})
        \cup (IF "position" \in g.keys \/ "anchor" \in g.keys
              THEN {g.position} ELSE {})
        \cup (IF "direction" \in g.keys THEN {g.direction} ELSE {})

validate_trigger_parameters(g) ==
    /\ ~g.stray                 \* the binding passes only declared parameters
    /\ g.supplied               \* each has a binding or a default
    /\ \A x \in Expressions(g) : event_expression_available(g.on, x)

\* What a number is held to once the binding supplies it.
compile_impulse_lockout(g) ==
    g.bound /\ "lockout_ticks" \in g.keys => g.number # Over
compile_status_strength(g) == "strength" \in g.keys => g.number >= 0
compile_reserve_refill(g) == g.number > 0 /\ g.number # Over
compile_spawn_repeat(g) ==
    "repeat" \in g.keys => g.number > 0 /\ g.number # Over
\* A [horizontal, vertical] pair may push straight up; a pair the graph
\* defaults to is overridden by a pair only.
compile_impulse_strength(g) ==
    /\ g.number > 0 \/ (g.pair = "pair" /\ g.number = 0)
    /\ g.pair # "scalar over a pair"
\* bound_float, bound_uint32 and the amounts.
BoundNumberOk(g) ==
    CASE g.type = "apply_damage" -> g.number > 0 /\ g.number # Over
      [] g.type = "apply_health_change" ->
            /\ g.number # Over
            /\ IF g.on \in ProjectileTriggers THEN g.number > 0 ELSE g.number # 0
      [] g.type = "apply_impulse" ->
            compile_impulse_strength(g) /\ compile_impulse_lockout(g)
      [] g.type = "apply_status" -> compile_status_strength(g)
      [] g.type = "refill_weapon_reserve" -> compile_reserve_refill(g)
      [] g.type = "spawn_projectile" -> compile_spawn_repeat(g)
      [] OTHER -> ReadAction(g.type, g.keys, g.number)

DirectionUnset(g) == "direction" \notin g.keys

\* compile_pull_action: the point comes from the event.
compile_pull_action(g) ==
    IF "anchor" \in g.keys
    THEN g.position \in {"event.subject_position", "event.position"}
    ELSE g.direction \in {"event.direction", "event.subject_direction"}

\* compile_status_direction: an event direction or a vec3 default, or none.
compile_status_direction(g) ==
    DirectionUnset(g)
        \/ g.direction \in {"event.direction", "event.subject_direction", "vec3"}

\* Something that never moves has no heading to report.
Travels(g) == g.direction = "event.subject_direction" => g.travels

\* Its branches for what harms or pushes, and for what it becomes.
compile_projectile_harm(g) ==
    /\ g.target \in EntityRefs
    /\ g.type = "apply_impulse" =>
          g.direction \in {"event.direction", "event.subject_direction", "vec3"}
              /\ Travels(g)

compile_projectile_spawn(g) ==
    /\ g.position = "event.position"
    /\ g.direction \in {"event.direction", "event.surface_normal"}
    /\ g.direction = "event.surface_normal" => g.standard
    /\ g.refs

\* compile_projectile_trigger_binding: a projectile's triggers take damage,
\* health, impulse, pull, status and further projectiles.
compile_projectile_trigger_binding(g) ==
    CASE g.type = "apply_status" ->
            g.refs /\ g.target \in EntityRefs /\ compile_status_direction(g)
      [] g.type = "apply_pull" ->
            /\ g.target \in EntityRefs
            /\ compile_pull_action(g)
            /\ "direction" \in g.keys => Travels(g)
      [] g.type \in {"apply_damage", "apply_health_change", "apply_impulse"} ->
            compile_projectile_harm(g)
      [] g.type = "spawn_projectile" -> compile_projectile_spawn(g)
      [] OTHER -> FALSE

\* compile_action_trigger_binding, branch by branch: what spawns and strikes.
compile_spawn(g) ==
    /\ g.position = "event.position"
    /\ g.refs
    /\ IF g.type = "spawn_projectile"
       THEN /\ g.on \notin StatusTriggers     \* no projectile templates there
            /\ g.direction = "event.direction"
       ELSE /\ DirectionUnset(g) \/ g.direction = "event.direction"
            /\ g.target \in EntityRefs         \* the owner
            /\ "item_template" \in g.keys => g.on = "on_item_used"

compile_lock_strike(g) ==
    /\ g.on \in EntityTriggers                 \* the colliders are known there
    /\ g.position = "event.position"
    /\ DirectionUnset(g) \/ g.direction = "event.direction"
    /\ g.cone => ~DirectionUnset(g)
    /\ g.refs

compile_impulse(g) == g.direction \in {"event.direction", "vec3"}

compile_refill(g) == g.on = "on_item_used"

\* Faulty variant: any trigger may open an interface.
compile_portal_or_ui_anywhere(g) ==
    g.type = "teleport" => g.on \in {"on_enter", "on_overlap"} /\ g.portal

\* A portal's volume knows who walked in; an activation has someone asking.
compile_portal_or_ui(g) ==
    IF g.type = "teleport"
    THEN g.on \in {"on_enter", "on_overlap"} /\ g.portal
    ELSE g.on = "on_activated"

compile_pull(g) == g.on \notin StatusTriggers /\ compile_pull_action(g)

compile_status(g) == g.refs /\ compile_status_direction(g)

\* What lives as long as a status belongs to its on_apply.
compile_status_bound(g) == g.on = "on_apply"

compile_action_trigger_binding(g) ==
    IF g.type \in {"spawn_projectile", "spawn_entity"} THEN compile_spawn(g)
    ELSE IF g.type = "lock_strike" THEN compile_lock_strike(g)
    ELSE /\ g.target \in EntityRefs
         /\ CASE g.type = "apply_impulse" -> compile_impulse(g)
              [] g.type = "refill_weapon_reserve" -> compile_refill(g)
              [] g.type \in {"teleport", "open_ui"} -> compile_portal_or_ui(g)
              [] g.type = "apply_pull" -> compile_pull(g)
              [] g.type \in {"apply_status", "remove_status"} -> compile_status(g)
              [] g.type \in StatusBound -> compile_status_bound(g)
              [] OTHER -> TRUE                   \* damage, health change

\* compile_status_trigger, of build_kernel_gameplay_catalog.
compile_status_trigger(g) ==
    /\ g.type \in {"apply_damage", "apply_health_change"} \cup StatusBound
    /\ g.type \in StatusBound =>
          g.on = "on_apply" /\ g.target \in {"self", "event.subject"}

\* validate_scaled_trigger: what a full stack adds up to still fits, for the
\* amounts that repeat.
validate_scaled_trigger(g) ==
    ~(g.type = "apply_damage" /\ g.on # "on_apply" /\ g.stacks
        /\ g.number = Big)

Compiles(g) ==
    /\ validate_trigger_parameters(g)
    /\ g.count > 0 =>
          /\ BoundNumberOk(g)
          /\ IF g.on \in ProjectileTriggers
             THEN compile_projectile_trigger_binding(g)
             ELSE compile_action_trigger_binding(g)
          /\ g.on \in StatusTriggers =>
                compile_status_trigger(g) /\ validate_scaled_trigger(g)

\* The number an action carries over, zero for one that takes none.
NumberOf(g) ==
    IF \/ g.type \in {"remove_status", "teleport", "apply_block_actions",
                     "apply_untargetable", "spawn_entity"}
       \/ g.type = "apply_status" /\ "strength" \notin g.keys
       \/ g.type = "spawn_projectile" /\ "repeat" \notin g.keys
    THEN 0 ELSE g.number

\* The trigger the loader hands over: the sources each kind of action sets,
\* the others left at zero (Self, Position).
Compiled(g) ==
    [on |-> g.on, count |-> g.count, type |-> g.type, when |-> g.when,
     target |-> IF "target" \in g.keys \/ "owner" \in g.keys
                THEN g.target ELSE "self",
     position |-> IF "anchor" \in g.keys THEN g.position ELSE "event.position",
     direction |-> IF DirectionUnset(g) THEN "event.position" ELSE g.direction,
     along |-> "direction" \in g.keys,
     number |-> NumberOf(g), repeats |-> "repeat" \in g.keys, cone |-> g.cone,
     portal |-> g.portal, standard |-> g.standard, consumes |-> g.consumes,
     stacks |-> g.stacks]

NoTrigger == [on |-> "none"]

(***************************************************************************)
(* The kernel's tables.                                                    *)
(***************************************************************************)

\* The rules of action_graph.h that loader and kernel share.
pull_action_is_authorable(a) ==
    /\ a.number > 0 /\ a.number # Over
    /\ IF a.along
       THEN a.direction \in {"event.direction", "event.subject_direction"}
       ELSE a.position \in {"event.position", "event.subject_position"}
spawn_repeat_is_authorable(a) ==
    a.repeats => a.type \in {"spawn_projectile", "lock_strike"}
                    /\ a.number > 0 /\ a.number # Over
Directions == {"event.direction", "event.subject_direction", "vec3"}

\* valid_trigger of validate_projectile_mechanics: no actions at all reads as
\* one action of type none, which no branch takes.
valid_trigger(a) ==
    /\ a.count > 0
    /\ spawn_repeat_is_authorable(a)
    /\ CASE a.type = "spawn_projectile" ->
               /\ a.position = "event.position"
               /\ \/ a.direction = "event.direction"
                  \/ /\ a.on = "on_projectile_impact" /\ a.standard
                     /\ a.direction = "event.surface_normal"
         [] a.type = "apply_damage" -> a.number > 0
         [] a.type = "apply_impulse" -> a.direction \in Directions
         [] a.type = "apply_pull" -> pull_action_is_authorable(a)
         [] a.type = "apply_status" ->
               a.number >= 0 /\ a.direction # "event.surface_normal"
         [] OTHER -> FALSE

\* The trigger loop of load_gameplay_catalog over an entity template: what an
\* action does to whom the event names ...
EntityDeedHolds(a) ==
    CASE a.type = "apply_damage" -> a.number > 0
      [] a.type = "apply_health_change" -> a.number # 0 /\ a.number # Over
      [] a.type = "apply_impulse" -> a.direction \in Directions
      [] a.type = "apply_pull" ->
            /\ pull_action_is_authorable(a)
            /\ a.position # "event.subject_position"
      [] a.type \in {"apply_status", "remove_status"} ->
            a.number >= 0 /\ a.direction # "event.surface_normal"

\* ... and what it opens or makes.  A speed modifier lives in a status, and has
\* no branch.
EntityServiceHolds(a) ==
    CASE a.type = "teleport" ->
            a.on \in {"on_enter", "on_overlap"} /\ a.portal
      [] a.type = "open_ui" -> a.on = "on_activated" /\ a.number # 0
      [] a.type = "spawn_entity" -> a.position = "event.position"
      [] a.type = "spawn_projectile" ->
            /\ a.position = "event.position"
            /\ a.direction = "event.direction"
            /\ spawn_repeat_is_authorable(a)
      [] a.type = "lock_strike" ->
            /\ a.position = "event.position"
            /\ a.direction \in {"event.position", "event.direction"}
            /\ a.cone => a.direction = "event.direction"
            /\ a.number >= 0 /\ a.number # Over
      [] OTHER -> FALSE

ValidEntityTrigger(a) ==
    a.count > 0 =>
        IF a.type \in {"apply_damage", "apply_health_change", "apply_impulse", "apply_pull",
                      "apply_status", "remove_status"}
        THEN EntityDeedHolds(a) ELSE EntityServiceHolds(a)

\* valid_item_graph_action and valid_item_used_graph, asked only of an item
\* that is used up.
ValidItemTrigger(a) ==
    a.consumes /\ a.count > 0 =>
       CASE a.type = "apply_damage" -> a.number > 0
         [] a.type = "spawn_entity" -> a.position = "event.position"
         [] a.type = "spawn_projectile" ->
               {a.position, a.direction} \subseteq
                  {"event.position", "event.direction"}
         [] a.type = "apply_health_change" -> a.number # 0 /\ a.number # Over
         [] a.type = "apply_status" -> a.number >= 0
         [] a.type = "refill_weapon_reserve" -> a.number > 0
         [] OTHER -> FALSE

\* Which expressions the simulation says an event provides.
expression_available_for_event(on, expression) ==
    CASE expression = "event.target" ->
            on \in {"on_activated", "on_item_used", "on_collision",
                    "on_projectile_impact"} \cup StatusTriggers
                        \cup VolumeTriggers
      [] expression = "event.instigator" -> on # "on_collision"
      [] expression \in {"event.subject_direction", "event.subject_position"} ->
            on \in ProjectileTriggers
      [] expression = "event.surface_normal" -> on = "on_projectile_impact"
      [] expression = "event.direction" ->
            on \in {"on_activated", "on_item_used", "on_collision",
                    "on_destroy_entity"} \cup ProjectileTriggers
                        \cup VolumeTriggers
      [] OTHER -> TRUE

\* The expressions compile_action_trigger_definition binds, branch by branch.
SpawnBinds(a) ==
    {a.position}
      \cup (IF a.type = "spawn_entity" THEN {a.target} ELSE {})
      \cup (IF a.type = "spawn_projectile" \/ a.direction = "event.direction"
            THEN {a.direction} ELSE {})
PullBinds(a) == {a.target, IF a.along THEN a.direction ELSE a.position}
StatusBinds(a) ==
    {a.target} \cup (IF a.type = "apply_status" /\ a.along /\ a.direction # "vec3"
                     THEN {a.direction} ELSE {})
\* An impulse along an authored vector binds no direction ...
ImpulseBinds(a) ==
    {a.target} \cup (IF a.direction = "vec3" THEN {} ELSE {a.direction})
BoundExpressions(a) ==
    CASE a.type \in {"spawn_projectile", "spawn_entity", "lock_strike"} ->
            SpawnBinds(a)
      [] a.type = "apply_pull" -> PullBinds(a)
      [] a.type \in {"apply_status", "remove_status"} -> StatusBinds(a)
      [] a.type = "apply_impulse" -> ImpulseBinds(a)
      [] OTHER -> {a.target}

\* ... and leaves the parameter declared for it without a value, which
\* validate_action_graph_binding refuses.
ParametersAvailable(a) ==
    /\ \A x \in BoundExpressions(a) : expression_available_for_event(a.on, x)
    /\ ~(a.type = "apply_impulse" /\ a.direction = "vec3")

\* The numbers an action carries, held to their limits once more.
MovementNumberHolds(a) ==
    /\ a.type = "apply_suspend_movement" => a.number >= 0 /\ a.number # Over
    /\ a.type = "apply_hover_movement" => a.number > 0 /\ a.number # Over
ActionNumberHolds(a) ==
    /\ a.type = "refill_weapon_reserve" => a.number > 0 /\ a.number # Over
    /\ a.type = "open_ui" => a.number # 0
    /\ a.type = "apply_pull" => a.number > 0 /\ a.number # Over
    /\ a.type = "apply_status" => a.number >= 0

validate_action_graph_binding(a) ==
    ParametersAvailable(a) /\ MovementNumberHolds(a) /\ ActionNumberHolds(a)

\* The events an action may answer, where the branch says so.
StatusBoundRuns(a) ==
    a.type \in StatusBound \ {"apply_speed_modifier"} =>
        a.on = "on_apply" /\ a.target \in {"self", "event.subject"}
ServiceRuns(a) ==
    /\ a.type = "refill_weapon_reserve" => a.on = "on_item_used"
    /\ a.type = "teleport" => a.on \in {"on_enter", "on_overlap"}
    /\ a.type = "open_ui" => a.on = "on_activated"

compile_action_trigger_definition(a) ==
    a.count > 0 => /\ validate_action_graph_binding(a)
                   /\ StatusBoundRuns(a)
                   /\ ServiceRuns(a)

\* validate_scaled_action: the same rule, spelled out again.
validate_scaled_action(a) ==
    a.type = "apply_damage" /\ a.on \in {"on_tick", "on_expire"} /\ a.stacks
        => a.number # Big

\* validate_status_trigger of load_gameplay_catalog.
validate_status_trigger(a) ==
    /\ compile_action_trigger_definition(a)
    /\ a.count > 0 =>
          /\ a.type \in {"apply_damage", "apply_health_change"} \cup
                (IF a.on = "on_apply" THEN StatusBound ELSE {})
          /\ validate_scaled_action(a)
          /\ a.type \in StatusBound => a.target \in {"self", "event.subject"}

KernelAccepts(a) ==
    CASE a.on \in ProjectileTriggers -> valid_trigger(a)
      [] a.on \in EntityTriggers -> ValidEntityTrigger(a)
      [] a.on \in StatusTriggers -> validate_status_trigger(a)
      [] OTHER -> ValidItemTrigger(a)

(***************************************************************************)
(* The author, the loader, the kernel and the simulation.                  *)
(***************************************************************************)

WellFormed(on, type) ==
    [on |-> on, type |-> type, form |-> "ok", count |-> 1, when |-> "always",
     keys |-> RequiredKeys[type] \cup {"type"}
                \cup (IF type = "apply_pull" THEN {"anchor"} ELSE {})
                \cup (IF type = "refill_weapon_reserve" THEN {"count"} ELSE {}),
     target |-> "event.subject", position |-> "event.position",
     direction |-> "event.direction", number |-> 1, pair |-> "scalar",
     bound |-> FALSE, declared |-> TRUE, supplied |-> TRUE, stray |-> FALSE,
     refs |-> TRUE, travels |-> TRUE, standard |-> TRUE, portal |-> TRUE,
     consumes |-> TRUE, cone |-> FALSE, stacks |-> FALSE]

\* What an author may write in each field.
Alternatives ==
    [form |-> {"bad"}, count |-> {0, 2, MaxActions + 1},
     when |-> {"event.has_target", "other"},
     target |-> EntityRefs \cup {"name"},
     position |-> {"event.position", "event.direction", "event.subject_position"},
     direction |-> {"event.direction", "event.subject_direction",
                    "event.surface_normal", "event.position", "vec3",
                    "zero vec3"},
     number |-> {-1, 0, 1, Big, Over},
     pair |-> {"pair", "scalar over a pair"},
     bound |-> {TRUE}, declared |-> {FALSE}, supplied |-> {FALSE},
     stray |-> {TRUE}, refs |-> {FALSE}, travels |-> {FALSE},
     standard |-> {FALSE}, portal |-> {FALSE}, consumes |-> {FALSE},
     cone |-> {TRUE}, stacks |-> {TRUE}]

\* The fields that say something about this action under this trigger.
Relevant(g) ==
    DOMAIN Alternatives \
        ((IF g.on \in ProjectileTriggers THEN {} ELSE {"travels", "standard"})
         \cup (IF g.on \in StatusTriggers THEN {} ELSE {"stacks"})
         \cup (IF g.on = "on_item_used" THEN {} ELSE {"consumes"})
         \cup (IF g.type = "teleport" THEN {} ELSE {"portal"})
         \cup (IF g.type = "lock_strike" THEN {} ELSE {"cone"})
         \cup (IF g.type = "apply_impulse" THEN {} ELSE {"pair"}))

GraphInit ==
    /\ \E on \in Triggers, type \in ActionTypes : graph = WellFormed(on, type)
    /\ graphEdits = GraphEdits
    /\ graphStage = "authored"
    /\ trigger = NoTrigger

EditField ==
    /\ graphStage = "authored" /\ graphEdits > 0
    /\ \E f \in Relevant(graph) : \E v \in Alternatives[f] \ {graph[f]} :
          graph' = [graph EXCEPT ![f] = v]
    /\ graphEdits' = graphEdits - 1
    /\ UNCHANGED <<graphStage, trigger>>

\* A key is added or forgotten: the first edit only.
EditKeys ==
    /\ graphStage = "authored" /\ graphEdits = GraphEdits /\ graphEdits > 0
    /\ \E k \in ActionKeys \cup {"collision_mask"} :
          graph' = [graph EXCEPT !.keys = IF k \in @ THEN @ \ {k} ELSE @ \cup {k}]
    /\ graphEdits' = graphEdits - 1
    /\ UNCHANGED <<graphStage, trigger>>

ReadGraph ==
    /\ graphStage = "authored"
    /\ graphStage' = IF action_graph_template_from_yaml(graph)
                     THEN "read" ELSE "loader refuses"
    /\ graphEdits' = 0
    /\ UNCHANGED <<graph, trigger>>

CompileTrigger ==
    /\ graphStage = "read"
    /\ IF Compiles(graph)
       THEN graphStage' = "compiled" /\ trigger' = Compiled(graph)
       ELSE graphStage' = "loader refuses" /\ UNCHANGED trigger
    /\ UNCHANGED <<graph, graphEdits>>

LoadTrigger ==
    /\ graphStage = "compiled"
    /\ graphStage' = IF KernelAccepts(trigger) THEN "loaded" ELSE "kernel refuses"
    /\ UNCHANGED <<graph, graphEdits, trigger>>

\* The binding the simulation keeps; without one the event runs nothing.
BindTrigger ==
    /\ graphStage = "loaded"
    /\ graphStage' = IF compile_action_trigger_definition(trigger)
                     THEN "live" ELSE "silent"
    /\ UNCHANGED <<graph, graphEdits, trigger>>

GraphNext ==
    \/ EditField \/ EditKeys \/ ReadGraph \/ CompileTrigger \/ LoadTrigger
    \/ BindTrigger

GraphSpec == GraphInit /\ [][GraphNext]_graphVars

(***************************************************************************)
(* Properties.                                                             *)
(***************************************************************************)

GraphTypeOK ==
    /\ graphEdits \in 0..GraphEdits
    /\ graphStage \in {"authored", "read", "compiled", "loaded", "live", "silent",
                      "loader refuses", "kernel refuses"}
    /\ (trigger = NoTrigger) <=>
          (graphStage \in {"authored", "read", "loader refuses"})

\* The triggers on which the four tables disagree in this code: the kernel
\* refuses a projectile trigger that changes health or runs an empty graph,
\* and a used-up item that pushes, pulls or lifts a status; the simulation
\* cannot compile an impulse along an authored vector.
Drift(g) ==
    \/ g.on \in ProjectileTriggers
         /\ (g.type = "apply_health_change" \/ g.count = 0)
    \/ g.on = "on_item_used" /\ g.consumes
         /\ g.type \in {"apply_impulse", "apply_pull", "remove_status"}
    \/ g.type = "apply_impulse" /\ g.direction = "vec3"

\* Whatever the loader lets through the kernel loads and the simulation runs,
\* apart from Drift: a trigger the kernel refuses costs the whole catalog
\* (the comment over the SpawnProjectile branch in load_gameplay_catalog),
\* and one the simulation cannot compile is silently dead.
TablesAgree ==
    graphStage \in {"kernel refuses", "silent"} => Drift(graph)

\* What the kernel has accepted, the simulation can run: a trigger never
\* passes every check of the load and then does nothing.
AcceptedTriggersRun == graphStage # "silent"
=============================================================================
