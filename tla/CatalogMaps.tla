------------------------------ MODULE CatalogMaps ------------------------------
(***************************************************************************)
(* Who comes out where, and the map it happens on: spawners and patrols,   *)
(* and the root of a catalog with its map variants.  Rules only, as in     *)
(* CatalogProps; all of it stays on the game server, so the loader alone   *)
(* judges it.                                                              *)
(***************************************************************************)
EXTENDS CatalogProps, SpawnSampling

(***************************************************************************)
(* Spawners.  A wave comes out around its carrier, or through a door of it: *)
(* a door is [start, exit], points [x, z] around the carrier's middle.     *)
(***************************************************************************)

\* How fast, and how wide, are those a spawner may put out; a turret stands still.
UnitSpeed == [walker |-> 1, runner |-> 2, turret |-> 0]
UnitRadius == [walker |-> 1, runner |-> 1, turret |-> 2]
CarrierHalf == 2            \* half the side of the carrier's collider
SpawnerEntryArrival == 1    \* kSpawnerEntryArrivalMeters

Distance(x) == IF x < 0 THEN -x ELSE x
Squared(door) ==
    LET dx == door.exit.x - door.start.x
        dz == door.exit.z - door.start.z
    IN dx * dx + dz * dz

spawner_from_yaml(s) ==
    /\ s.keysKnown /\ s.trigger \in {"interval", "on_alert"}
    /\ s.calls # Absent => s.trigger = "on_alert"
    /\ s.count.written /\ s.compositionListed
    /\ s.entry.written => s.entry.exits # <<>> /\ s.entry.complete
    /\ s.entry.written /\ s.entry.mask # {"unset"} => movement_collision_mask_from_yaml(s.entry.mask)

\* What is not authored: a tick's interval is, a radius is not.
SpawnerInterval(s) == IF s.interval = Absent THEN 300 ELSE s.interval
SpawnerRadius(s) == IF s.radius = Absent THEN 0 ELSE s.radius
SpawnerCalls(s) == IF s.calls = Absent THEN 1 ELSE s.calls
EntryTicks(s) == IF s.entry.ticks = Absent THEN 45 ELSE s.entry.ticks
SpawnerWave(s) == [units |-> s.units, min |-> s.count.min, max |-> s.count.max]

ValidateSpawner(s) ==
    /\ validate_spawn_composition(SpawnerWave(s))
    /\ ~NotPositive(SpawnerRadius(s)) /\ SpawnerInterval(s) # 0
    /\ s.ceiling # 0 => s.ceiling >= s.count.max
    /\ IsFinite(s.offset)
    /\ s.trigger = "on_alert" => ~s.entry.written /\ (SpawnerCalls(s) # 0 \/ s.ceiling # 0)
    /\ s.entry.written => EntryTicks(s) # 0

\* The slowest and the widest of a wave.  A unit that stands still is the slowest
\* only if nobody moves: the loop takes a speed of zero for one not yet set.
Moving(s) == {k \in DOMAIN s.units : UnitSpeed[k] > 0}
SlowestSpeed(s) == IF Moving(s) = {} THEN 0 ELSE Min({UnitSpeed[k] : k \in Moving(s)})
WidestRadius(s) == Max({0} \cup {UnitRadius[k] : k \in DOMAIN s.units})

\* Faulty variant: a unit has to be out on either axis by its middle only.
EntryPlacedByMiddle(s) ==
    \A n \in DOMAIN s.entry.exits :
        LET door == s.entry.exits[n]
        IN Distance(door.exit.x) >= CarrierHalf \/ Distance(door.exit.z) >= CarrierHalf

\* Whoever comes to an exit is clear of the carrier, and comes there in time.
validate_spawner_entry_placement(s) ==
    /\ SlowestSpeed(s) > 0
    /\ \A n \in DOMAIN s.entry.exits :
          LET door == s.entry.exits[n]
              clear == CarrierHalf + WidestRadius(s) + SpawnerEntryArrival
              reach == SlowestSpeed(s) * EntryTicks(s)      \* a tick is a second here
          IN /\ Distance(door.exit.x) >= clear \/ Distance(door.exit.z) >= clear
             /\ Squared(door) <= reach * reach

apply_catalog_population_budget_config(s) == IF s.budget = Absent THEN 0 ELSE s.budget

\* A call for help needs somebody who can call, and room for a whole wave.
apply_catalog_spawner_config(s) ==
    /\ s.namesKnown
    /\ ValidateSpawner(s)
    /\ s.trigger = "on_alert" =>
          /\ s.carrier \in {"sentry agent", "chaser agent"}
          /\ apply_catalog_population_budget_config(s) # 0
          /\ apply_catalog_population_budget_config(s) >= s.count.max
    /\ s.entry.written => validate_spawner_entry_placement(s)

LoaderAcceptsSpawner(s) == spawner_from_yaml(s) /\ apply_catalog_spawner_config(s)

(***************************************************************************)
(* Patrols.  A squad walks an area of the map, or is aimed at a group of   *)
(* players; then a table of tiers may say how large it is for how many.    *)
(***************************************************************************)

patrol_area_from_yaml(a) ==
    CASE a.shape \in {"unset", "circle"} -> a.radius # Absent
      [] a.shape = "rect" -> a.extents # Absent
      [] OTHER -> FALSE
validate_spawn_area(a) ==
    IF a.shape = "rect" THEN ~NotPositive(a.extents) ELSE ~NotPositive(a.radius)

patrol_around_players_from_yaml(p) == p.mode = "around_players"
validate_around_players(p) ==
    /\ positive_finite(p.ring.min) /\ positive_finite(p.ring.max) /\ p.ring.min < p.ring.max
    /\ positive_finite(p.pass) /\ p.pass < p.ring.min
    /\ Finite0(p.spread) /\ p.spread # OverLimit
    /\ positive_finite(p.groupRadius)
    /\ positive_finite(p.perMember) /\ positive_finite(p.perPlayer)

patrol_composition_from_yaml(squad) == squad.listed /\ squad.namesKnown
patrol_count_from_yaml(squad) == squad.counted
patrol_squad_tiers_from_yaml(p) ==
    /\ p.tiers # <<>>
    /\ \A n \in DOMAIN p.tiers :
          /\ p.tiers[n].from # Absent /\ p.tiers[n].to # 0
          /\ patrol_count_from_yaml(p.tiers[n].squad)
          /\ patrol_composition_from_yaml(p.tiers[n].squad)

\* One tier after the other from a lone player up, only the last unbounded.
validate_squad_tiers(tiers) ==
    \A n \in DOMAIN tiers :
        /\ tiers[n].from = IF n = 1 THEN 1 ELSE tiers[n - 1].to + 1
        /\ (tiers[n].to = Absent) <=> (n = Len(tiers))
        /\ tiers[n].to # Absent => tiers[n].to >= tiers[n].from
        /\ validate_spawn_composition(tiers[n].squad)

patrol_definition_from_yaml(p) ==
    /\ p.keysKnown /\ p.id # 0
    /\ IF "where" \in p.placement
       THEN /\ p.placement = {"where"} /\ p.liveGroups = Absent
            /\ patrol_around_players_from_yaml(p)
       ELSE p.placement = {"area"} /\ patrol_area_from_yaml(p.area)
    /\ IF "tiers" \in p.squads
       THEN p.squads = {"tiers"} /\ patrol_squad_tiers_from_yaml(p)
       ELSE p.squads = {"one"} /\ patrol_count_from_yaml(p.squad)
                               /\ patrol_composition_from_yaml(p.squad)

ValidatePatrol(p) ==
    /\ IF "tiers" \in p.squads
       THEN "where" \in p.placement /\ validate_squad_tiers(p.tiers)
       ELSE validate_spawn_composition(p.squad)
    /\ IF "where" \in p.placement THEN validate_around_players(p)
       ELSE validate_spawn_area(p.area)

\* The file names what it holds; a map lists, once each, definitions there are.
apply_catalog_patrol_config(p) ==
    /\ patrol_definition_from_yaml(p) /\ ValidatePatrol(p)
    /\ p.file = "named after it" /\ p.twin = "none"
    /\ p.listed.key = "ids"
    /\ \A m, n \in DOMAIN p.listed.ids : p.listed.ids[m] = p.listed.ids[n] => m = n
    /\ \A n \in DOMAIN p.listed.ids : p.listed.ids[n] = p.id

(***************************************************************************)
(* The root of a catalog: a function from its sections to what they hold,  *)
(* in turn functions from key to value, lists or single values.            *)
(***************************************************************************)

Mappings == {"player", "map", "terrain", "static_collision_scene", "navigation_mesh"}
VariantSections == Mappings \cup {"agent_routes", "preload_directors", "stamp_template_dir"}

Overlay(base, over) ==
    [key \in DOMAIN base \cup DOMAIN over |-> IF key \in DOMAIN over THEN over[key] ELSE base[key]]

\* Mappings merge key by key, anything else replaces.
merge_map_variant_node(section, base, over) ==
    IF section \in Mappings THEN Overlay(base, over) ELSE over

\* Every variant is looked at, not only the one in play.
VariantsHold(d) ==
    IF DOMAIN d.variants = {} THEN d.chosen = "none"
    ELSE /\ \A v \in DOMAIN d.variants : DOMAIN d.variants[v] \subseteq VariantSections
         /\ d.chosen \in DOMAIN d.variants
apply_map_variant(d) ==
    IF d.chosen \notin DOMAIN d.variants THEN d.root
    ELSE LET over == d.variants[d.chosen]
         IN [section \in DOMAIN d.root \cup DOMAIN over |->
                CASE section \notin DOMAIN over -> d.root[section]
                  [] section \notin DOMAIN d.root -> over[section]
                  [] OTHER -> merge_map_variant_node(section, d.root[section], over[section])]

Wrote(root, section) == section \in DOMAIN root
Value(root, section, key, default) ==
    IF Wrote(root, section) /\ key \in DOMAIN root[section] THEN root[section][key] ELSE default

\* An axis-aligned box with x and z judged alike.
Below(low, high) == IsFinite(low) /\ IsFinite(high) /\ low < high
BoundsAuthored(root) == Wrote(root, "map") /\ "playable_bounds" \in DOMAIN root.map
map_config_from_yaml(root) ==
    BoundsAuthored(root) =>
        \A axis \in {"x", "z"} :
            Below(root.map.playable_bounds.min[axis], root.map.playable_bounds.max[axis])

MaxRouteId == 2             \* UINT16_MAX, scaled
RoutesHold(root) ==
    Wrote(root, "agent_routes") =>
        LET routes == root.agent_routes
        IN /\ \A n \in DOMAIN routes : routes[n].id \in 1..MaxRouteId
                                       /\ routes[n].waypoints >= 2 /\ routes[n].finite
           /\ \A m, n \in DOMAIN routes : routes[m].id = routes[n].id => m = n

TerrainGrid == 4            \* the 12 m a map's side is a multiple of, scaled
TerrainHalf(root) == root.terrain.map_size \div 2
TerrainMargin(root) == Value(root, "terrain", "playable_margin", 0)
terrain_catalog_from_yaml(root) ==
    /\ {"map_size", "recipe", "ground_maps", "stamps"} \subseteq DOMAIN root.terrain
    /\ positive_finite(root.terrain.map_size) /\ root.terrain.map_size % TerrainGrid = 0
    /\ Value(root, "terrain", "max_retries", 8) >= 1
    /\ Value(root, "terrain", "riser_slope_degrees", 28) \notin {0, 90, NaN}
    /\ root.terrain.ground_maps >= 1
    /\ Wrote(root, "stamp_template_dir") /\ root.stamp_template_dir.files # {}
    /\ root.stamp_template_dir.named /\ ~root.stamp_template_dir.twin
    /\ root.terrain.stamps.min_count \in 0..root.terrain.stamps.count
    /\ root.terrain.stamps.pool \subseteq root.stamp_template_dir.files
    /\ root.terrain.recipe = "stands"      \* validate_recipe

\* Tests as they stand: a margin that is no number passes the first.
TerrainFits(root) ==
    LET margin == TerrainMargin(root)
        half == IF IsFinite(margin) THEN TerrainHalf(root) - margin ELSE margin
    IN /\ half # Inf /\ ~NotPositive(half)
       /\ BoundsAuthored(root) /\ half # NaN =>
             \A axis \in {"x", "z"} : /\ root.map.playable_bounds.min[axis] >= -half
                                      /\ root.map.playable_bounds.max[axis] <= half

\* The bounds follow the map unless authored.
PlayableBounds(root) ==
    IF BoundsAuthored(root) THEN root.map.playable_bounds
    ELSE LET half == TerrainHalf(root) - TerrainMargin(root)
         IN [min |-> [x |-> -half, z |-> -half], max |-> [x |-> half, z |-> half]]

\* A map's ground is a mesh, or is generated and then brings its own navigation.
GroundHolds(root) ==
    /\ Wrote(root, "navigation_mesh") => "entry_path" \in DOMAIN root.navigation_mesh
    /\ Wrote(root, "static_collision_scene") =>
          /\ "ids" \in DOMAIN root.static_collision_scene
          /\ ("entry_path" \in DOMAIN root.static_collision_scene) # Wrote(root, "terrain")
    /\ IF Wrote(root, "terrain")
       THEN /\ terrain_catalog_from_yaml(root)
            /\ Wrote(root, "static_collision_scene") /\ ~Wrote(root, "navigation_mesh")
            /\ TerrainFits(root)
       ELSE ~Wrote(root, "stamp_template_dir")

FallDeathHeight == -2       \* KERNEL_FALL_DEATH_HEIGHT_METERS
PlayerSpawn(root) == Value(root, "player", "spawn_position", Absent)
FallHeight(root) == Value(root, "player", "fall_death_height", FallDeathHeight)

\* Faulty variant: the new spawn is compared before the fall height is read.
SpawnAboveDefault(root) == PlayerSpawn(root) # Absent => PlayerSpawn(root) > FallDeathHeight

apply_catalog_player_config(root) ==
    /\ Value(root, "player", "template", "known") = "known"
    /\ Finite0(Value(root, "player", "delay_seconds", 0))
    /\ Value(root, "player", "team_revive_times", -1) >= -1
    /\ IsFinite(FallHeight(root))
    /\ PlayerSpawn(root) # Absent =>
          IsFinite(PlayerSpawn(root)) /\ PlayerSpawn(root) > FallHeight(root)

apply_catalog_director_preload_config(root) ==
    Wrote(root, "preload_directors") =>
        LET refs == root.preload_directors
        IN /\ \A n \in DOMAIN refs : refs[n] \notin {"unknown", "a prop"}
           /\ \A m, n \in DOMAIN refs : refs[m] = refs[n] => m = n

LoaderAcceptsMap(d) ==
    VariantsHold(d) /\
        LET root == apply_map_variant(d)
        IN /\ d.rootKeysKnown /\ d.version \in 8..17 /\ d.reload
           /\ RoutesHold(root) /\ map_config_from_yaml(root) /\ GroundHolds(root)
           /\ apply_catalog_player_config(root)
           /\ apply_catalog_director_preload_config(root)

(***************************************************************************)
(* What an author starts from, and may write.                              *)
(***************************************************************************)

Between(lo, hi) == [min |-> lo, max |-> hi]
At(x, z) == [x |-> x, z |-> z]
Door(start, exit) == [start |-> start, exit |-> exit]
NoEntry == [written |-> FALSE, complete |-> TRUE, ticks |-> Absent, mask |-> {"unset"}, exits |-> <<>>]
FrontDoor == [NoEntry EXCEPT !.written = TRUE, !.exits = <<Door(At(0, 0), At(4, 0))>>]

SpawnerDrafts ==
    {[kind |-> "spawner", keysKnown |-> TRUE, trigger |-> trigger,
      calls |-> IF trigger = "on_alert" THEN 1 ELSE Absent, interval |-> 1, radius |-> 1,
      ceiling |-> 2, offset |-> 0, count |-> [written |-> TRUE, min |-> 1, max |-> 2],
      compositionListed |-> TRUE, namesKnown |-> TRUE,
      units |-> [walker |-> Between(0, 1), runner |-> Between(1, 1)],
      entry |-> IF trigger = "interval" THEN FrontDoor ELSE NoEntry,
      carrier |-> IF trigger = "interval" THEN "prop" ELSE "chaser agent", budget |-> 2] :
        trigger \in {"interval", "on_alert"}}

SpawnerChoices(s, field) ==
    CASE field \in {"keysKnown", "compositionListed", "namesKnown"} -> BOOLEAN
      [] field = "trigger" -> {"interval", "on_alert", "on_death"}
      [] field = "calls" -> {Absent, 0, 2}
      [] field = "interval" -> {Absent, 0}
      [] field = "radius" -> {Absent, -1, 0, NaN}
      [] field \in {"ceiling", "budget"} -> {0, 1, 3}
      [] field = "offset" -> {Inf, NaN}
      [] field = "count" -> {[s.count EXCEPT !.written = FALSE]}
                              \cup {[s.count EXCEPT !.min = m, !.max = n] : m, n \in 0..3}
      [] field = "units" ->
            {[k \in {} |-> Between(0, 1)], [turret |-> Between(1, 2)],
             [turret |-> Between(0, 1), walker |-> Between(0, 2)]}
              \cup {[walker |-> Between(l, h), runner |-> Between(m, 2)] : l, m \in 0..2, h \in 0..1}
      [] field = "entry" ->
            {NoEntry, FrontDoor, [FrontDoor EXCEPT !.exits = <<>>],
             [FrontDoor EXCEPT !.complete = FALSE]}
              \cup {[FrontDoor EXCEPT !.ticks = t] : t \in {0, 1, 3, 4}}
              \cup {[FrontDoor EXCEPT !.mask = m] :
                        m \in {{}, {"terrain"}, {"terrain", "limb"}, {"vision"}}}
              \cup {[FrontDoor EXCEPT !.ticks = 5,
                                      !.exits = <<Door(At(0, 0), At(0, 5)), Door(At(1, 0), exit)>>] :
                        exit \in {At(2, 2), At(3, 3), At(1, -4), At(3, 4), At(-4, 3), At(5, 3)}}
      [] field = "carrier" -> {"prop", "sentry agent", "hover agent", "player"}

Squad(lo, hi, units) ==
    [min |-> lo, max |-> hi, units |-> units, listed |-> TRUE, namesKnown |-> TRUE, counted |-> TRUE]
PatrolSquad == Squad(1, 2, [grunt |-> Between(0, 1), caller |-> Between(1, 1)])
PatrolTier(from, to) == [from |-> from, to |-> to, squad |-> PatrolSquad]

PatrolDrafts ==
    {[kind |-> "patrol", keysKnown |-> TRUE, id |-> 1, file |-> "named after it", twin |-> "none",
      listed |-> [key |-> "ids", ids |-> <<1>>], placement |-> {where},
      area |-> [shape |-> "unset", radius |-> 1, extents |-> Absent],
      liveGroups |-> IF where = "area" THEN 1 ELSE Absent, mode |-> "around_players",
      ring |-> Between(3, 4), pass |-> 2, spread |-> 1, groupRadius |-> 1, perMember |-> 1,
      perPlayer |-> 1, squads |-> IF where = "area" THEN {"one"} ELSE {"tiers"},
      squad |-> PatrolSquad, tiers |-> <<PatrolTier(1, 2), PatrolTier(3, Absent)>>] :
        where \in {"area", "where"}}

SquadChoices(squad) ==
    {[squad EXCEPT !.listed = FALSE], [squad EXCEPT !.namesKnown = FALSE],
     [squad EXCEPT !.counted = FALSE], [squad EXCEPT !.max = 3],
     [squad EXCEPT !.units = [k \in {} |-> Between(0, 1)]]}
      \cup {[squad EXCEPT !.min = m] : m \in {0, 2, 3}}
      \cup {[squad EXCEPT !.units = [grunt |-> Between(l, h), caller |-> Between(1, 1)]] :
                l \in {1, 2}, h \in {0, 1, 2}}

PatrolChoices(p, field) ==
    CASE field = "keysKnown" -> BOOLEAN
      [] field = "id" -> {0, 2}
      [] field = "file" -> {"another name"}
      [] field = "twin" -> {"id"}
      [] field = "listed" -> {[key |-> "id", ids |-> <<>>]}
                               \cup {[p.listed EXCEPT !.ids = i] : i \in {<<>>, <<1, 1>>, <<2>>}}
      [] field = "placement" -> SUBSET {"area", "where"}
      [] field = "area" ->
            {[shape |-> s, radius |-> r, extents |-> e] :
                s \in {"rect", "circle", "hexagon"}, r \in {Absent, 0, 1}, e \in {Absent, -1, 1, NaN}}
      [] field = "liveGroups" -> {Absent, 1}
      [] field = "mode" -> {"area"}
      [] field = "ring" -> {[p.ring EXCEPT !.min = v] : v \in {0, 2, 4, Inf}}
                             \cup {[p.ring EXCEPT !.max = v] : v \in {3, NaN}}
      [] field = "pass" -> {0, 3, NaN}
      [] field = "spread" -> {-1, 0, OverLimit}
      [] field \in {"groupRadius", "perMember", "perPlayer"} -> {0, Inf}
      [] field = "squads" -> SUBSET {"one", "tiers"}
      [] field = "squad" -> SquadChoices(p.squad)
      [] field = "tiers" ->
            {<<>>, <<PatrolTier(1, Absent)>>, <<PatrolTier(1, 2)>>,
             <<PatrolTier(1, Absent), PatrolTier(2, Absent)>>,
             <<PatrolTier(1, 1), PatrolTier(2, 1), PatrolTier(2, Absent)>>}
              \cup {[p.tiers EXCEPT ![n].to = v] : n \in DOMAIN p.tiers, v \in {Absent, 0, 1, 3}}
              \cup {[p.tiers EXCEPT ![n].from = v] : n \in DOMAIN p.tiers, v \in {Absent, 0, 1, 2}}
              \cup {[p.tiers EXCEPT ![n].squad = q] : n \in DOMAIN p.tiers, q \in SquadChoices(PatrolSquad)}

Route(id, waypoints) == [id |-> id, waypoints |-> waypoints, finite |-> TRUE]
Box(lo, hi) == [min |-> At(lo, lo), max |-> At(hi, hi)]
Terrain ==
    [map_size |-> 8, recipe |-> "stands", ground_maps |-> 1,
     stamps |-> [count |-> 1, min_count |-> 1, pool |-> {7}]]
Stamps == [files |-> {7}, named |-> TRUE, twin |-> FALSE]

MeshRoot ==
    [player |-> [spawn_position |-> 1, fall_death_height |-> 0],
     map |-> [playable_bounds |-> Box(-2, 2)],
     static_collision_scene |-> [ids |-> TRUE, entry_path |-> TRUE],
     navigation_mesh |-> [entry_path |-> TRUE],
     agent_routes |-> <<Route(1, 2)>>, preload_directors |-> <<"a director">>]
TerrainRoot ==
    [player |-> [spawn_position |-> 1], static_collision_scene |-> [ids |-> TRUE],
     terrain |-> Terrain, stamp_template_dir |-> Stamps]

MapDrafts ==
    {[kind |-> "map", rootKeysKnown |-> TRUE, version |-> 17, reload |-> TRUE, root |-> root,
      variants |-> [v \in {"lowland"} |-> [player |-> [fall_death_height |-> -1]]],
      chosen |-> "lowland"] : root \in {MeshRoot, TerrainRoot}}

Dropping(f, key) == [k \in DOMAIN f \ {key} |-> f[k]]
SectionChoices(section) ==
    CASE section = "player" ->
            {[spawn_position |-> v] : v \in {-2, -1, 0, 2, NaN}}
              \cup {[fall_death_height |-> v] : v \in {-1, 0, 1, 2, NaN}}
              \cup {[spawn_position |-> 0, fall_death_height |-> -1], [template |-> "unknown"],
                    [delay_seconds |-> -1], [delay_seconds |-> Inf]}
              \cup {[team_revive_times |-> n] : n \in {-2, -1, 0}}
      [] section = "map" ->
            {[playable_bounds |-> [min |-> At(a, b), max |-> At(3, c)]] :
                a \in {-3, 3}, b \in {-3, -5, NaN}, c \in {-3, 3, 5, Inf}}
      [] section = "terrain" ->
            {[Terrain EXCEPT !.map_size = v] : v \in {0, 4, 6, NaN}}
              \cup {[Terrain EXCEPT !.ground_maps = 0], [Terrain EXCEPT !.recipe = "falls"],
                    Dropping(Terrain, "stamps")}
              \cup {[Terrain EXCEPT !.stamps.min_count = n] : n \in {0, 2}}
              \cup {[Terrain EXCEPT !.stamps.pool = pool] : pool \in {{}, {8}}}
              \cup {Overlay(Terrain, [playable_margin |-> v]) : v \in {-1, 1, 4, Inf, NaN}}
              \cup {Overlay(Terrain, over) : over \in {[max_retries |-> 0], [riser_slope_degrees |-> 90]}}
      [] section = "static_collision_scene" ->
            {[ids |-> TRUE], [entry_path |-> TRUE], [ids |-> TRUE, entry_path |-> TRUE]}
      [] section = "navigation_mesh" -> {[key \in {} |-> TRUE], [entry_path |-> TRUE]}
      [] section = "agent_routes" ->
            {<<Route(1, 2), Route(id, n)>> : id \in 0..MaxRouteId + 1, n \in {1, 2}}
              \cup {<<[Route(1, 2) EXCEPT !.finite = FALSE]>>}
      [] section = "preload_directors" ->
            {<<>>, <<"unknown">>, <<"a prop">>, <<"a director", "a director">>,
             <<"a director", "another director">>}
      [] section = "stamp_template_dir" ->
            {Stamps, [Stamps EXCEPT !.files = {}], [Stamps EXCEPT !.named = FALSE],
             [Stamps EXCEPT !.twin = TRUE], [Stamps EXCEPT !.files = {7, 8}]}
SectionEdits(f) ==
    {Dropping(f, section) : section \in DOMAIN f}
      \cup UNION {{Overlay(f, [s \in {section} |-> value]) : value \in SectionChoices(section)} :
                    section \in VariantSections}

MapChoices(d, field) ==
    CASE field \in {"rootKeysKnown", "reload"} -> BOOLEAN
      [] field = "version" -> {1, 7, 8, 18}
      [] field = "chosen" -> {"none", "lowland", "highland"}
      [] field = "root" -> SectionEdits(d.root)
      [] field = "variants" ->
            {[v \in {} |-> MeshRoot], [v \in {"lowland"} |-> [weapons |-> <<>>]],
             [v \in {"lowland", "highland"} |-> IF v = "lowland" THEN MeshRoot ELSE TerrainRoot],
             [v \in {"lowland", "highland"} |-> IF v = "lowland" THEN MeshRoot ELSE [weapons |-> <<>>]]}
              \cup {[v \in {"lowland"} |-> over] : over \in SectionEdits([player |-> [fall_death_height |-> -1]])}

(***************************************************************************)
(* What may go wrong between the parts.                                    *)
(***************************************************************************)

\* A wave that is let through is whole, whatever its size and draw; a ceiling or a
\* budget can take it; who moves is through the door in time, and clear of it.
WavesComeOut(s) ==
    /\ \A n \in s.count.min..s.count.max :
          /\ draw_spawn_composition(s.units, n) # {}
          /\ \A drawn \in draw_spawn_composition(s.units, n) : FoldFunction(+, 0, drawn) = n
    /\ s.ceiling # 0 => \A n \in s.count.min..s.count.max : n <= s.ceiling
    /\ s.trigger = "on_alert" => s.count.max <= s.budget /\ (SpawnerCalls(s) # 0 \/ s.ceiling # 0)
    /\ \A n \in DOMAIN s.entry.exits, k \in DOMAIN s.units :
          LET door == s.entry.exits[n]
              step == UnitSpeed[k] * EntryTicks(s)
              inside == CarrierHalf + UnitRadius[k]
          IN /\ UnitSpeed[k] > 0 => Squared(door) <= step * step
             /\ \A short \in 0..SpawnerEntryArrival :
                   \/ Distance(door.exit.x) - short >= inside
                   \/ Distance(door.exit.z) - short >= inside

\* However many players a group has there is one squad for it, and that squad is
\* whole; the squad passes closer than the ring it came from.
SquadsComeOut(p) ==
    /\ p.squads = {"tiers"} =>
          \A players \in 1..4 :
              Cardinality({n \in DOMAIN p.tiers :
                  p.tiers[n].from <= players
                    /\ (p.tiers[n].to = Absent \/ players <= p.tiers[n].to)}) = 1
    /\ \A squad \in (IF p.squads = {"one"} THEN {p.squad} ELSE {p.tiers[n].squad : n \in DOMAIN p.tiers}) :
          \A n \in squad.min..squad.max :
              \A drawn \in draw_spawn_composition(squad.units, n) : FoldFunction(+, 0, drawn) = n
    /\ p.placement = {"where"} => 0 < p.pass /\ p.pass < p.ring.min /\ p.ring.min < p.ring.max

\* Known gap: a margin below zero, or that is no number, leaves bounds that reach
\* over the edge of the terrain, or none at all.
UncheckedMargin(root) == TerrainMargin(root) < 0 \/ TerrainMargin(root) = NaN

\* Whoever plays a map, in the variant chosen, comes to life above the height that
\* kills, and has ground inside the bounds.
MapIsPlayable(d) ==
    LET root == apply_map_variant(d)
    IN /\ PlayerSpawn(root) # Absent => PlayerSpawn(root) > FallHeight(root)
       /\ Wrote(root, "terrain") /\ ~UncheckedMargin(root) =>
             \A axis \in {"x", "z"} :
                /\ PlayableBounds(root).min[axis] < PlayableBounds(root).max[axis]
                /\ PlayableBounds(root).min[axis] >= -TerrainHalf(root)
                /\ PlayableBounds(root).max[axis] <= TerrainHalf(root)
================================================================================
