------------------------------ MODULE CatalogProps ------------------------------
(***************************************************************************)
(* The things of a catalog: props with what they hold, trigger and lead    *)
(* to, the population rule a prop counts under, items, and the directors   *)
(* that run a mission.  Rules only, as in CatalogTemplates and             *)
(* CatalogActors.  A director never reaches the kernel.                    *)
(***************************************************************************)
EXTENDS CatalogActors

Capabilities == {"pickupable", "deployable", "carryable", "consumable", "throwable",
                 "interactable"}
item_capability_from_yaml(capability) == capability \in Capabilities

ActorMask == {"player_side", "enemy_side"}
StaticMask == {"terrain", "static_obstacle"}

\* A quantity against the stack of the item it counts.
StackOf(item) == IF item \in {"stateful", "weapon"} THEN 1 ELSE 2
QuantityHolds(item, quantity) == quantity \in 1..StackOf(item)

(***************************************************************************)
(* Throws, common to props and items.                                      *)
(***************************************************************************)

Trajectories == {"none", "linear", "beam", "still", "dangling"}
valid_throw_trajectory(trajectory) == trajectory = "linear"
valid_throw_collider(collider) == collider = "hit box"

(***************************************************************************)
(* Population rules and props.                                             *)
(***************************************************************************)

MaxAlive == 3               \* 256, scaled
MaxOptions == 2             \* kMaxLoadoutOptions and kMaxCampStock, scaled
MaxShelter == 3             \* KERNEL_MAX_SHELTER_CAPACITY, scaled

prop_population_rules_from_yaml(p) ==
    p.rule.id # 0 /\ p.rule.alive \in 1..MaxAlive /\ p.rule.twin = "none"
prop_population_group_id_from_ref(group) == group # "unknown"

ReadLifecycle(p) ==
    p.lifecycle.written =>
        /\ p.lifecycle.lifetime # Absent \/ p.lifecycle.group # "none"
        /\ p.lifecycle.lifetime # 0
        /\ prop_population_group_id_from_ref(p.lifecycle.group)
        /\ p.lifecycle.importance # Absent =>
              p.lifecycle.group # "none" /\ p.lifecycle.importance \in 0..255

ReadLoadout(p) == p.loadout.written => p.loadout.options \in 1..MaxOptions
ReadStock(p) == p.stock.written => p.stock.options \in 1..MaxOptions
ReadShelter(p) == p.shelter # Absent => p.shelter \in 1..MaxShelter

\* Where it leads is read as it stands; the way out is made a unit vector.
ReadPortal(p) ==
    p.portal.written => p.portal.forward \in {"level", "down"}

ReadInteraction(p) ==
    p.interaction.written =>
        /\ p.interaction.listed
        /\ \A c \in p.interaction.can : item_capability_from_yaml(c)
        /\ p.interaction.blocking \subseteq ActorMask \cup StaticMask

VolumesNamed(p) == p.volumes.named # {}

ReadTriggers(p) ==
    /\ p.collision.written =>
          /\ p.collision.mask # {"unset"}
          /\ p.collision.mask \subseteq ActorMask \cup StaticMask \cup {"limb"}
    /\ VolumesNamed(p) =>
          /\ p.volumes.mask # {"unset"}
          /\ p.volumes.mask # {} /\ p.volumes.mask \subseteq ActorMask
          /\ p.volumes.who \in {"unset", "actors", "players"}
          /\ Cardinality(p.volumes.named) > 1 => p.volumes.agree
          /\ p.triggerCollider # "none"

prop_template_from_yaml(p) ==
    /\ p.keysKnown /\ p.twin = "none"
    /\ p.triggerCollider \in {"none", "trigger box"}
    /\ prop_population_rules_from_yaml(p)
    /\ ReadLifecycle(p) /\ ReadLoadout(p) /\ ReadStock(p) /\ ReadShelter(p)
    /\ ReadPortal(p) /\ ReadInteraction(p)
    /\ p.trajectory # "dangling" /\ p.collider # "dangling"
    /\ ReadTriggers(p)

ValidateLoadout(p) ==
    p.loadout.written =>
        /\ p.loadout.item \notin {"weapon", "quest", "unknown"}
        /\ QuantityHolds(p.loadout.item, p.loadout.quantity)
        /\ p.loadout.weapon \in {"none", "weapon"}

ValidateStock(p) ==
    p.stock.written =>
        /\ p.shelter # Absent
        /\ p.stock.item \notin {"unknown", "quest"}
        /\ QuantityHolds(p.stock.item, p.stock.quantity)

Holds(mask, layer) == layer \in mask
ValidateProp(p) ==
    /\ Finite0(p.resistance)
    /\ ValidateLoadout(p) /\ ValidateStock(p)
    /\ p.trajectory # "none" => p.collision.written /\ Holds(p.collision.mask, "terrain")

\* The prop's part of build_kernel_gameplay_catalog, which still refuses.
BuildProp(p) ==
    /\ p.portal.exit \in {"none", "a plain prop"} \/ ~p.portal.written
    /\ p.volumes.teleports /\ VolumesNamed(p) => p.portal.written

\* A member removed to make room runs its on_destroy, which makes no member.
CleanupEnds(p) ==
    p.lifecycle.written /\ p.lifecycle.group = "known" /\ p.rule.cleanup =>
        p.destroySpawns # "a member"

LoaderAcceptsProp(p) ==
    prop_template_from_yaml(p) /\ ValidateProp(p) /\ BuildProp(p) /\ CleanupEnds(p)

overlap_trigger_is_authorable(p) ==
    VolumesNamed(p) =>
        /\ p.triggerCollider # "none"
        /\ p.volumes.mask # {} /\ p.volumes.mask \subseteq ActorMask
portal_is_authorable(p) ==
    p.portal.written => IsFinite(p.portal.destination) /\ p.portal.forward \in {"level", "down"}

Can(p) == IF p.interaction.written THEN p.interaction.can ELSE {}
LoadInteraction(p) ==
    /\ Can(p) \subseteq {"carryable", "throwable", "interactable"}
    /\ Can(p) \cap {"carryable", "interactable"} # {} => ~NotPositive(p.interaction.range)
    /\ "interactable" \in Can(p) => p.activated
    /\ ("throwable" \in Can(p)) <=> (p.trajectory # "none")
LoadThrow(p) ==
    "throwable" \in Can(p) =>
        valid_throw_trajectory(p.trajectory) /\ valid_throw_collider(p.collider)
LoadPopulation(p) == p.rule.id # 0 /\ p.rule.alive \in 1..MaxAlive

LoadTriggers(p) ==
    /\ p.collision.written =>
          p.collision.mask \subseteq ActorMask \cup StaticMask \cup {"limb"}
    /\ p.lifecycle.written /\ p.lifecycle.importance \notin {Absent, 0} =>
          p.lifecycle.group # "none"
LoadNamedByProp(p) ==
    /\ p.portal.written => p.portal.exit \in {"none", "a plain prop"}
    /\ p.triggerCollider \in {"none", "trigger box"}

KernelAcceptsProp(p) ==
    /\ LoadPopulation(p)
    /\ p.shelter # Absent => p.shelter <= MaxShelter
    /\ overlap_trigger_is_authorable(p) /\ portal_is_authorable(p)
    /\ LoadTriggers(p) /\ LoadInteraction(p) /\ CleanupEnds(p)
    /\ LoadNamedByProp(p) /\ LoadThrow(p)

PropDrift(p) ==
    \/ p.portal.written /\ ~IsFinite(p.portal.destination)
    \/ ~(Can(p) \subseteq {"carryable", "throwable", "interactable"})
    \/ Can(p) # {} /\ NotPositive(p.interaction.range)
    \/ "interactable" \in Can(p) /\ ~p.activated
    \/ ("throwable" \in Can(p)) # (p.trajectory # "none")
    \/ "throwable" \in Can(p) /\ (p.trajectory # "linear" \/ p.collider # "hit box")

(***************************************************************************)
(* Items.                                                                  *)
(***************************************************************************)

MaxFields == 3              \* KERNEL_MAX_PORTABLE_STATE_FIELDS, scaled

ReadPortableState(i) ==
    /\ i.fields.count \in 0..MaxFields
    /\ i.fields.count > 0 =>
          /\ i.fields.type \in {"uint32", "float", "bool"}
          /\ i.fields.projection \in {"none", "health_current"}
item_template_from_yaml(i) ==
    /\ i.keysKnown
    /\ i.tag \in {"none", "quest"} /\ i.instance \in {"fungible", "stateful"}
    /\ \A c \in i.can : item_capability_from_yaml(c)
    /\ i.entity.type # "unknown"
    /\ i.blocking \subseteq ActorMask \cup StaticMask
    /\ i.throws \in {"none", "identity_preserving", "consume_and_spawn"}
    /\ i.trajectory # "dangling"
    /\ ReadPortableState(i)
load_item_templates_from_source(i) == item_template_from_yaml(i) /\ i.twin = "none"

\* A weapon's item carries its rounds in two fields of its own.
resolve_weapon_item_templates(i) ==
    i.weapon # "none" =>
        i.weapon = "categorised" /\ i.fields.count + 2 <= MaxFields /\ ~i.fields.rounds

ValidateItem(i) ==
    i.entity.type # "none" =>
        /\ ~i.entity.counted
        /\ i.weapon # "none" =>
              i.instance = "stateful" /\ i.can \cap {"consumable", "throwable"} = {}
        /\ i.throws = "identity_preserving" => i.entity.terrain

LoaderAcceptsItem(i) ==
    load_item_templates_from_source(i) /\ resolve_weapon_item_templates(i)
        /\ ValidateItem(i)

valid_item_used_graph(i) ==
    CASE i.throws = "consume_and_spawn" -> i.used = "spawns"
      [] "consumable" \in i.can -> i.used \in {"spawns", "heals"}
      [] OTHER -> TRUE

Projects(i) == i.fields.count > 0 /\ i.fields.projection = "health_current"
ProjectionHolds(i) ==
    Projects(i) =>
        /\ i.instance = "stateful" /\ i.fields.type = "uint32" /\ i.fields.count = 1
        /\ i.entity.type = "prop"
        /\ i.entity.maxHp # 0 /\ i.fields.default <= i.entity.maxHp
FieldsHold(i) == ~i.fields.twin
ThrowHolds(i) ==
    /\ i.throws = "identity_preserving" => i.entity.type # "none" /\ i.trajectory # "none"
    /\ i.throws # "identity_preserving" => i.trajectory = "none"
    /\ ("throwable" \in i.can) <=> (i.throws # "none")
validate_item_template(i) ==
    /\ i.id # 0 /\ i.stack # 0 /\ (i.instance = "stateful" => i.stack = 1)
    /\ i.weapon # "none" =>
          i.instance = "stateful" /\ i.can \cap {"consumable", "throwable"} = {}
    /\ FieldsHold(i)
    /\ i.can \cap {"pickupable", "carryable", "interactable"} # {} => ~NotPositive(i.range)
    /\ "deployable" \in i.can => i.entity.type # "none"
    /\ ThrowHolds(i)
    /\ valid_item_used_graph(i)
    /\ i.charge \in {"none", "a uint32 field"}

LoadItemEntity(i) ==
    i.entity.type # "none" =>
        /\ i.entity.type = "prop" /\ ~i.entity.counted /\ ~i.entity.capable
        /\ i.throws = "identity_preserving" => valid_throw_collider(i.entity.collider)
        /\ "interactable" \in i.can => i.entity.activated

KernelAcceptsItem(i) ==
    /\ validate_item_template(i)
    /\ i.throws = "identity_preserving" => valid_throw_trajectory(i.trajectory)
    /\ ProjectionHolds(i) /\ LoadItemEntity(i)

(***************************************************************************)
(* Directors.  A mission is a graph of nodes: a node waits for a group it  *)
(* has spawned to be gone, or for players, and then starts the next ones.  *)
(***************************************************************************)

MissionNodes == 1..3        \* kMaxGameRuleNodes = 64, scaled
MaxEdges == 4               \* kMaxGameRuleEdges = 256, scaled

SpawnHolds(n) ==
    /\ n.spawn.count # 0 /\ n.spawn.group = "its own"
    /\ IsFinite(n.spawn.position) /\ Finite0(n.spawn.radius)
NodeHolds(n) ==
    CASE n.waits = "group_eliminated" ->
            n.group = "named" /\ n.players = Absent /\ n.spawns /\ SpawnHolds(n)
      [] n.waits = "player_count_at_least" ->
            n.group = "none" /\ n.players \notin {Absent, 0} /\ ~n.spawns
      [] OTHER -> FALSE

\* Faulty variant: the visit stops at the first node it has seen.
MissionHasCycleShallow(next) == \E n \in MissionNodes : <<n, n>> \in next

\* The depth-first search of the loader, by the edges it follows.
MissionHasCycle(next) ==
    LET Reach[k \in 0..Cardinality(MissionNodes)] ==
            IF k = 0 THEN next
            ELSE Reach[k - 1] \cup
                 {<<e[1], f[2]>> : <<e, f>> \in
                     {p \in Reach[k - 1] \X next : p[1][2] = p[2][1]}}
    IN \E n \in MissionNodes : <<n, n>> \in Reach[Cardinality(MissionNodes)]

EdgesHold(d) ==
    /\ ~d.edgeTwin /\ ~d.edgeUnknown
    /\ \A n \in MissionNodes : <<n, n>> \notin d.next
    /\ Cardinality(d.next) <= MaxEdges
    /\ ~MissionHasCycle(d.next)

director_from_yaml(d) ==
    /\ d.keysKnown /\ d.controller = "director"
    /\ IF d.type = "game_rule"
       THEN /\ ~d.worldSpawn /\ d.nodesNamedOnce /\ d.groupsNamedOnce
            /\ \A n \in MissionNodes : NodeHolds(d.nodes[n])
            /\ EdgesHold(d)
       ELSE d.worldSpawn /\ d.next = {}

\* Who is spawned: a world rule fills its quota with actors, a mission with
\* anything that can be destroyed and is nobody's player.
load_entity_templates_from_source(d) ==
    /\ d.twin = "none"
    /\ IF d.type = "game_rule"
       THEN \A n \in MissionNodes :
               d.nodes[n].spawns => d.nodes[n].spawn.what \in {"agent", "destructible prop"}
       ELSE d.spawned \in {"agent", "player"}

LoaderAcceptsDirector(d) == director_from_yaml(d) /\ load_entity_templates_from_source(d)

(***************************************************************************)
(* What an author starts from, and may write.                              *)
(***************************************************************************)

PropDrafts ==
    {[kind |-> "prop", keysKnown |-> TRUE, twin |-> "none", resistance |-> 0,
      triggerCollider |-> IF use = "portal" THEN "trigger box" ELSE "none",
      collider |-> "hit box",
      rule |-> [id |-> 1, alive |-> 2, twin |-> "none", cleanup |-> TRUE],
      lifecycle |-> [written |-> use = "litter", lifetime |-> 1, group |-> "known",
                     importance |-> 1],
      loadout |-> [written |-> use = "crate", options |-> 1, item |-> "fungible",
                   quantity |-> 1, weapon |-> "none"],
      stock |-> [written |-> use = "camp", options |-> 1, item |-> "fungible",
                 quantity |-> 1],
      shelter |-> IF use = "camp" THEN 1 ELSE Absent,
      portal |-> [written |-> use = "portal", destination |-> 1, forward |-> "level",
                  exit |-> "a plain prop"],
      interaction |-> [written |-> use \in {"stone", "lever"}, listed |-> TRUE,
                       can |-> IF use = "stone" THEN {"carryable", "throwable"}
                               ELSE {"interactable"},
                       range |-> 1, blocking |-> StaticMask],
      trajectory |-> IF use = "stone" THEN "linear" ELSE "none",
      collision |-> [written |-> use = "stone", mask |-> StaticMask],
      volumes |-> [named |-> IF use = "portal" THEN {"on_enter"} ELSE {},
                   mask |-> ActorMask, who |-> "players", agree |-> TRUE,
                   teleports |-> use = "portal"],
      activated |-> use = "lever", destroySpawns |-> "an outsider"] :
        use \in {"litter", "crate", "camp", "portal", "stone", "lever"}}

ItemDrafts ==
    {[kind |-> "item", keysKnown |-> TRUE, twin |-> "none", id |-> 1, tag |-> "none",
      instance |-> IF use \in {"shield", "gun"} THEN "stateful" ELSE "fungible",
      stack |-> IF use \in {"shield", "gun"} THEN 1 ELSE 2,
      can |-> CASE use = "potion" -> {"pickupable", "consumable"}
                [] use = "rock" -> {"pickupable", "throwable"}
                [] use = "grenade" -> {"throwable"}
                [] OTHER -> {"pickupable", "deployable"},
      entity |-> [type |-> "prop", counted |-> FALSE, capable |-> FALSE, terrain |-> TRUE,
                  collider |-> "hit box", maxHp |-> 2, activated |-> FALSE],
      range |-> 1, blocking |-> StaticMask,
      throws |-> CASE use = "rock" -> "identity_preserving"
                   [] use = "grenade" -> "consume_and_spawn" [] OTHER -> "none",
      trajectory |-> IF use = "rock" THEN "linear" ELSE "none",
      fields |-> [count |-> IF use = "shield" THEN 1 ELSE 0, twin |-> FALSE,
                  type |-> "uint32", projection |-> "health_current", default |-> 2,
                  rounds |-> FALSE],
      weapon |-> IF use = "gun" THEN "categorised" ELSE "none", charge |-> "none",
      used |-> CASE use = "potion" -> "heals" [] use = "grenade" -> "spawns"
                 [] OTHER -> "none"] :
        use \in {"potion", "rock", "grenade", "shield", "gun"}}

GroupNode ==
    [waits |-> "group_eliminated", group |-> "named", players |-> Absent, spawns |-> TRUE,
     spawn |-> [count |-> 1, group |-> "its own", position |-> 1, radius |-> 0,
                what |-> "agent"]]
PlayersNode == [GroupNode EXCEPT !.waits = "player_count_at_least", !.group = "none",
                                 !.players = 1, !.spawns = FALSE]

DirectorDrafts ==
    {[kind |-> "director", type |-> type, keysKnown |-> TRUE, twin |-> "none",
      controller |-> "director", worldSpawn |-> type = "world_rule", spawned |-> "agent",
      nodesNamedOnce |-> TRUE, groupsNamedOnce |-> TRUE,
      nodes |-> [n \in MissionNodes |-> IF n = 1 THEN PlayersNode ELSE GroupNode],
      next |-> IF type = "game_rule" THEN {<<1, 2>>, <<2, 3>>} ELSE {},
      edgeTwin |-> FALSE, edgeUnknown |-> FALSE] : type \in {"game_rule", "world_rule"}}

PropChoices(p, field) ==
    CASE field \in {"keysKnown", "activated"} -> BOOLEAN
      [] field = "twin" -> {"id", "name"}
      [] field = "resistance" -> {-1, 1, Inf, NaN}
      [] field = "triggerCollider" -> {"none", "hit box", "trigger sphere"}
      [] field = "collider" -> {"bounds box", "none", "dangling"}
      [] field = "rule" ->
            {[p.rule EXCEPT !.id = 0], [p.rule EXCEPT !.twin = "id"],
             [p.rule EXCEPT !.cleanup = FALSE]}
              \cup {[p.rule EXCEPT !.alive = n] : n \in {0, MaxAlive, MaxAlive + 1}}
      [] field = "lifecycle" ->
            {[p.lifecycle EXCEPT !.written = TRUE]}
              \cup {[p.lifecycle EXCEPT !.lifetime = v] : v \in {Absent, 0}}
              \cup {[p.lifecycle EXCEPT !.group = g] : g \in {"none", "unknown"}}
              \cup {[p.lifecycle EXCEPT !.importance = v] : v \in {Absent, 255, 256}}
      [] field = "loadout" ->
            {[p.loadout EXCEPT !.written = TRUE, !.options = n] : n \in 0..MaxOptions + 1}
              \cup {[p.loadout EXCEPT !.item = i] :
                        i \in {"stateful", "weapon", "quest", "unknown"}}
              \cup {[p.loadout EXCEPT !.quantity = q] : q \in {0, 2, 3}}
              \cup {[p.loadout EXCEPT !.weapon = w] : w \in {"weapon", "fungible"}}
      [] field = "stock" ->
            {[p.stock EXCEPT !.written = TRUE, !.options = n] : n \in 0..MaxOptions + 1}
              \cup {[p.stock EXCEPT !.item = i] :
                        i \in {"stateful", "weapon", "quest", "unknown"}}
              \cup {[p.stock EXCEPT !.quantity = q] : q \in {0, 2, 3}}
      [] field = "shelter" -> {Absent, 0, MaxShelter, MaxShelter + 1}
      [] field = "portal" ->
            {[p.portal EXCEPT !.written = TRUE, !.destination = v] : v \in {1, Inf, NaN}}
              \cup {[p.portal EXCEPT !.forward = f] : f \in {"down", "up", "zero"}}
              \cup {[p.portal EXCEPT !.exit = e] : e \in {"none", "another portal", "unknown"}}
      [] field = "interaction" ->
            {[p.interaction EXCEPT !.written = TRUE, !.can = c] :
                c \in {{}, {"carryable"}, {"throwable"}, {"pickupable"}, {"interactable"}}}
              \cup {[p.interaction EXCEPT !.range = v] : v \in {-1, 0, NaN}}
              \cup {[p.interaction EXCEPT !.listed = FALSE],
                    [p.interaction EXCEPT !.blocking = {"limb"}]}
      [] field = "trajectory" -> Trajectories
      [] field = "collision" ->
            {[p.collision EXCEPT !.written = TRUE, !.mask = m] :
                m \in {{"unset"}, {}, StaticMask, {"limb"}, {"vision"}}}
      [] field = "volumes" ->
            {[p.volumes EXCEPT !.named = n] : n \in {{"on_exit"}, {"on_enter", "on_exit"}}}
              \cup {[p.volumes EXCEPT !.mask = m] : m \in {{"unset"}, {}, StaticMask}}
              \cup {[p.volumes EXCEPT !.who = w] : w \in {"unset", "actors", "items"}}
              \cup {[p.volumes EXCEPT !.agree = FALSE], [p.volumes EXCEPT !.teleports = TRUE]}
      [] field = "destroySpawns" -> {"nothing", "a member"}

ItemChoices(i, field) ==
    CASE field = "keysKnown" -> BOOLEAN
      [] field = "twin" -> {"id", "name"}
      [] field = "id" -> {0}
      [] field = "tag" -> {"quest", "other"}
      [] field = "instance" -> {"fungible", "stateful", "other"}
      [] field = "stack" -> {0, 1, 2}
      [] field = "can" -> {i.can \cup {c} : c \in Capabilities \cup {"edible"}}
                            \cup {i.can \ {c} : c \in Capabilities}
      [] field = "entity" ->
            {[i.entity EXCEPT !.type = t] : t \in {"none", "actor", "unknown"}}
              \cup {[i.entity EXCEPT !.maxHp = v] : v \in {0, 1}}
              \cup {[i.entity EXCEPT !.counted = TRUE], [i.entity EXCEPT !.capable = TRUE],
                    [i.entity EXCEPT !.terrain = FALSE],
                    [i.entity EXCEPT !.collider = "bounds box"],
                    [i.entity EXCEPT !.activated = TRUE]}
      [] field = "range" -> {-1, 0, NaN}
      [] field = "blocking" -> {{}, {"limb"}}
      [] field = "throws" -> {"none", "identity_preserving", "consume_and_spawn", "lob"}
      [] field = "trajectory" -> Trajectories
      [] field = "fields" ->
            {[i.fields EXCEPT !.count = n] : n \in 0..MaxFields + 1}
              \cup {[i.fields EXCEPT !.type = t] : t \in {"float", "string"}}
              \cup {[i.fields EXCEPT !.projection = t] : t \in {"none", "ammo"}}
              \cup {[i.fields EXCEPT !.default = 3], [i.fields EXCEPT !.twin = TRUE],
                    [i.fields EXCEPT !.rounds = TRUE]}
      [] field = "weapon" -> {"none", "unknown", "no category", "categorised"}
      [] field = "charge" -> {"a uint32 field", "another field"}
      [] field = "used" -> {"none", "heals", "spawns"}

DirectorChoices(d, field) ==
    CASE field = "twin" -> {"id", "name"}
      [] field = "controller" -> {"none", "agent"}
      [] field = "spawned" -> {"player", "prop", "unknown"}
      [] field = "nodes" ->
            {[d.nodes EXCEPT ![n] = m] : n \in MissionNodes,
                m \in {PlayersNode, GroupNode}
                    \cup {[GroupNode EXCEPT !.waits = w] : w \in {"timer", "unset"}}
                    \cup {[GroupNode EXCEPT !.group = "none"],
                          [GroupNode EXCEPT !.spawns = FALSE],
                          [PlayersNode EXCEPT !.players = 0],
                          [PlayersNode EXCEPT !.spawns = TRUE]}
                    \cup {[GroupNode EXCEPT !.spawn.count = 0],
                          [GroupNode EXCEPT !.spawn.group = "another"],
                          [GroupNode EXCEPT !.spawn.position = NaN],
                          [GroupNode EXCEPT !.spawn.radius = -1]}
                    \cup {[GroupNode EXCEPT !.spawn.what = w] :
                              w \in {"destructible prop", "lasting prop", "player", "unknown"}}}
      [] field = "next" -> SUBSET (MissionNodes \X MissionNodes)
      [] OTHER -> BOOLEAN   \* keysKnown, worldSpawn, nodesNamedOnce, groupsNamedOnce, edge...
=============================================================================
