------------------------------ MODULE Directors ------------------------------
(***************************************************************************)
(* Who fills the world with agents: the patrols, the world rule, the       *)
(* missions and the spawners take their turns in one tick of the agent     *)
(* runtime, under a budget of agents, and in between agents die, notice    *)
(* players and are destroyed by what was asked for.                        *)
(*                                                                         *)
(* A tick is a chain of turns, `chain.phase' says whose it is; nothing else *)
(* happens until the chain is through.                                     *)
(***************************************************************************)
EXTENDS SpawnSampling, Sequences, FiniteSets, SequencesExt

CONSTANTS
    Ceiling,            \* agent_budget.max_live_agents
    PatrolCeiling,      \* patrol_budget.max_live_agents
    ReinforceCeiling,   \* reinforce_max_live_agents; 0 is no ceiling in all three
    Maps,               \* the catalogs to look at: [patrols, spawners, standing]
    WorldRule,          \* [target, interval]
    Nests,              \* kinds that are props
    Team,               \* the players
    MissionWave,        \* the most a mission creates in a tick
    RingRetryTicks,     \* kRingRetryTicks
    MaxAgents, MaxEngaged, MaxLosses, DirectorTicks     \* bounds

\* What the loader lets through.
validate_spawner_config(c) ==
    /\ validate_spawn_composition(c) /\ c.interval > 0
    /\ c.ceiling = 0 \/ c.ceiling >= c.max
    /\ c.trigger = "alert" => c.calls # 0 \/ c.ceiling # 0
validate_patrol_definition(d) ==
    IF d.around THEN /\ \A n \in DOMAIN d.tiers : validate_spawn_composition(d.tiers[n])
                     /\ d.perMember.num > 0 /\ d.perPlayer.num > 0
    ELSE validate_spawn_composition(d)

ASSUME DirectorAssumption ==
    \A m \in Maps : /\ \A k \in DOMAIN m.spawners : validate_spawner_config(m.spawners[k])
                    /\ \A d \in DOMAIN m.patrols : validate_patrol_definition(m.patrols[d])

VARIABLES
    map,        \* the catalog and what stands on the map
    folk,       \* [alive, kind, from]: who lives, and by id its kind and origin
    doomed,     \* destruction asked for, and not done yet
    engaged,    \* agents whose sentry is engaged
    groups,     \* patrol_groups_
    rounds,     \* by patrol definition: its counters and what threatens whom
    ruleLeft,   \* ticks_until_spawn of the world rule
    spawners,   \* by carrier: the spawner's instance
    reinforce,  \* reinforce_live_net_ids_
    mute,       \* cannot_call_net_ids_
    alerts,     \* alert_signals_
    known,      \* agents_, each with engaged_last_tick
    despawning, \* despawn_pending_
    chain, day,  \* the turn, and ticks so far
    losses      \* agents killed so far

directorVars ==
    <<map, folk, doomed, engaged, groups, rounds, ruleLeft, spawners, reinforce, mute, alerts,
      known, despawning, chain, day, losses>>

Patrols == map.patrols              \* the patrol definitions, in order
SpawnerConfigs == map.spawners      \* kind -> its spawner; other kinds carry none
Standing == map.standing            \* the kinds of what there is at first

Ids(f) == 1..Len(f.kind)
Agents(f) == {i \in f.alive : f.kind[i] \notin Nests}
Carries(kind, trigger) ==
    kind \in DOMAIN SpawnerConfigs /\ SpawnerConfigs[kind].trigger = trigger
ConfigOf(c) == SpawnerConfigs[folk.kind[c]]

Unbounded == 99
RoomUnder(ceiling, live) ==
    IF ceiling = 0 THEN Unbounded ELSE IF live >= ceiling THEN 0 ELSE ceiling - live

Add(f, kinds, from) ==
    [alive |-> f.alive \cup {Len(f.kind) + n : n \in 1..Len(kinds)},
     kind |-> f.kind \o kinds, from |-> f.from \o [n \in 1..Len(kinds) |-> from]]
Added(f, g) == g.alive \ f.alive

\* Of those drawn some creates may fail, and the rest are made all the same: all
\* of them fail once MaxAgents have been made.
Room(f) == MaxAgents - Len(f.kind)
OfKind(kind, n) == [m \in 1..n |-> kind]
Waves(units, n) ==
    LET kinds == SetToSeq(DOMAIN units)
        made(drawn) == {f \in [DOMAIN units -> 0..n] :
                          /\ \A k \in DOMAIN units : f[k] <= drawn[k]
                          /\ FoldFunction(+, 0, f) <= Room(folk)}
        inOrder(f) == FlattenSeq([k \in 1..Len(kinds) |-> OfKind(kinds[k], f[kinds[k]])])
    IN UNION {{inOrder(f) : f \in made(drawn)} : drawn \in draw_spawn_composition(units, n)}

(***************************************************************************)
(* Patrols.                                                                *)
(***************************************************************************)

Members(gs) == FoldSeq(LAMBDA g, sum : Cardinality(g.members) + sum, 0, gs)
OfDefinition(gs, d) == Cardinality({n \in 1..Len(gs) : gs[n].def = d})

\* The tick begins.  While a despawn is not through nobody has a turn; patrols
\* at the end of their way, or far from everybody, go unless they fight.
BeginTick ==
    /\ chain.phase = "idle" /\ day < DirectorTicks /\ day' = day + 1
    /\ IF despawning /\ Agents(folk) # {}
       THEN alerts' = {} /\ UNCHANGED <<despawning, doomed, groups, chain>>
       ELSE \E retired \in SUBSET {n \in 1..Len(groups) : ~groups[n].holding} :
              LET staying == SelectSeq(groups, LAMBDA g : \A n \in retired : groups[n] # g)
              IN /\ groups' = staying
                 /\ doomed' = doomed \cup UNION {groups[n].members : n \in retired}
                 /\ despawning' = FALSE
                 /\ chain' = [chain EXCEPT !.phase = "patrols", !.turn = 1, !.grew = FALSE, !.sent = FALSE,
                                         !.live = Members(staying), !.unseen = 0,
                                         !.budget = Cardinality(Agents(folk))]
                 /\ UNCHANGED alerts
    /\ UNCHANGED <<folk, engaged, rounds, ruleLeft, spawners, reinforce, mute, known>>

\* A squad is there if at least one of its members could be made.
place_squad(d, wave, cost) ==
    LET made == Add(folk, wave, "patrol")
    IN /\ folk' = made
       /\ IF wave = <<>> THEN UNCHANGED <<groups, known>> /\ chain' = [chain EXCEPT !.turn = @ + 1]
          ELSE /\ groups' = Append(groups, [def |-> d, members |-> Added(folk, made),
                                            holding |-> FALSE])
               /\ chain' = [chain EXCEPT !.turn = @ + 1, !.grew = TRUE, !.live = @ + cost,
                                       !.budget = @ + cost]
               /\ UNCHANGED known

NoSquad == chain' = [chain EXCEPT !.turn = @ + 1] /\ UNCHANGED <<folk, groups, known>>

\* Faulty variant: the room is what is left before this patrol.
PatrolRoomAny(shape) == RoomUnder(PatrolCeiling, chain.live) > 0 /\ RoomUnder(Ceiling, chain.budget) > 0
PatrolRoom(shape) ==
    /\ shape.max <= RoomUnder(PatrolCeiling, chain.live)
    /\ shape.max <= RoomUnder(Ceiling, chain.budget)

\* A patrol of the map: every interval, if there are not enough of it.
spawn_patrol(d) ==
    LET def == Patrols[d]
    IN IF rounds[d].left > 0
       THEN rounds' = [rounds EXCEPT ![d].left = @ - 1] /\ NoSquad
       ELSE \/ /\ OfDefinition(groups, d) < def.groups /\ PatrolRoom(def)
               /\ \E n \in def.min..def.max : \E wave \in Waves(def.units, n) :
                    /\ place_squad(d, wave, def.max)
                    /\ rounds' = IF wave = <<>> THEN rounds
                                 ELSE [rounds EXCEPT ![d].left = def.interval]
            \/ UNCHANGED rounds /\ NoSquad      \* no room, or no route

(***************************************************************************)
(* Patrols that look for players.                                          *)
(***************************************************************************)

CeilProduct(n, per) == (n * per.num + per.den - 1) \div per.den
group_squad_cap(def, members) == CeilProduct(members, def.perMember)
definition_squad_cap(def, players) == CeilProduct(players, def.perPlayer)
squad_shape_for(def, members) == def.tiers[members]

\* Since when no squad has been near a player.
observe(threats, players, close) ==
    [p \in players |-> IF p \notin DOMAIN threats \/ close[p] # {} THEN day ELSE threats[p]]
group_starved_ticks(threats, group) == day - Max({threats[p] : p \in group})

squads_near_group(group, close) == Cardinality(UNION {close[p] : p \in group})

\* Larger groups of players come first, then the one with the lowest id.
GroupBefore(g, h) ==
    \/ Cardinality(g) > Cardinality(h)
    \/ Cardinality(g) = Cardinality(h) /\ Min(g) < Min(h)
FirstBy(S, key(_)) ==
    CHOOSE g \in S : \A h \in S \ {g} :
       \/ key(g) > key(h)
       \/ key(g) = key(h) /\ GroupBefore(g, h)

UnderGroupCap(def, g, close) == squads_near_group(g, close) < group_squad_cap(def, Cardinality(g))
Fits(def, g) == PatrolRoom(squad_shape_for(def, Cardinality(g)))

\* Players nobody has come for in a while have a squad whatever the interval
\* and the number of squads; then those without one near, then those with few.
choose_patrol_target(d, def, parties, close, threats, elapsed) ==
    LET open == {g \in parties : UnderGroupCap(def, g, close) /\ Fits(def, g)}
        starved(g) == group_starved_ticks(threats, g)
        floor == {g \in open : def.floor # 0 /\ starved(g) >= def.floor}
        alone == {g \in open : squads_near_group(g, close) = 0}
        players == Cardinality(UNION parties)
    IN IF floor # {} THEN {FirstBy(floor, starved)}
       ELSE IF ~elapsed \/ OfDefinition(groups, d) >= definition_squad_cap(def, players) THEN {}
       ELSE IF alone # {} THEN {FirstBy(alone, LAMBDA g : Cardinality(g) * 100 + starved(g))}
       ELSE IF open # {} THEN {FirstBy(open, Cardinality)}
       ELSE {}

\* Players near each other are one party: here all of them, or none.
group_players(players, together) ==
    IF players = {} THEN {} ELSE IF together THEN {players} ELSE {{p} : p \in players}

tick_around_players(d) ==
    \E players \in {Team, {Min(Team)}}, together \in BOOLEAN, near \in SUBSET Team :
       LET def == Patrols[d]
           close == [p \in players |-> IF p \in near THEN 1..Len(groups) ELSE {}]
           threats == observe(rounds[d].threats, players, close)
           elapsed == rounds[d].left = 0
           after == [rounds EXCEPT ![d].threats = threats,
                                   ![d].left = IF elapsed THEN 0 ELSE @ - 1]
           parties == group_players(players, together)
       IN IF rounds[d].retry > 0
          THEN rounds' = [after EXCEPT ![d].retry = @ - 1] /\ NoSquad
          ELSE LET target == choose_patrol_target(d, def, parties, close, threats, elapsed)
               IN \/ target = {} /\ rounds' = after /\ NoSquad
                  \/ /\ target # {}                         \* no way around them
                     /\ rounds' = [after EXCEPT ![d].retry = RingRetryTicks] /\ NoSquad
                  \/ \E g \in target :
                       LET shape == squad_shape_for(def, Cardinality(g))
                       IN \E n \in shape.min..shape.max : \E wave \in Waves(shape.units, n) :
                            /\ place_squad(d, wave, shape.max)
                            /\ rounds' = IF wave = <<>> THEN after
                                         ELSE [after EXCEPT ![d].left = def.interval]

PatrolTurn ==
    /\ chain.phase = "patrols" /\ chain.turn <= Len(Patrols)
    /\ IF Patrols[chain.turn].around THEN tick_around_players(chain.turn) ELSE spawn_patrol(chain.turn)
    /\ UNCHANGED <<doomed, engaged, ruleLeft, spawners, reinforce, mute, alerts, despawning, day>>

\* The squads are counted as what they are, and no more as what they may be.
PatrolsDone ==
    /\ chain.phase = "patrols" /\ chain.turn > Len(Patrols)
    /\ chain' = [chain EXCEPT !.phase = "world",
                            !.budget = IF chain.grew THEN Cardinality(Agents(folk)) ELSE @]
    /\ UNCHANGED <<folk, doomed, engaged, groups, rounds, ruleLeft, spawners, reinforce, mute,
                   alerts, known, despawning, day>>

(***************************************************************************)
(* The world rule and the missions: neither asks for room.                 *)
(***************************************************************************)

WorldTurn ==
    LET left == IF ruleLeft > 0 THEN ruleLeft - 1 ELSE 0
    IN /\ chain.phase = "world"
       /\ IF WorldRule.target <= chain.budget \/ left > 0
          THEN /\ ruleLeft' = left /\ UNCHANGED folk
               /\ chain' = [chain EXCEPT !.phase = "missions"]
          ELSE \E made \in 0..Min({Room(folk), WorldRule.target - chain.budget}) :
                 /\ folk' = Add(folk, OfKind("grunt", made), "world")
                 /\ ruleLeft' = IF made = 0 THEN 0 ELSE Max({1, WorldRule.interval})
                 /\ chain' = [chain EXCEPT !.phase = "missions", !.budget = @ + made]
    /\ UNCHANGED <<doomed, engaged, groups, rounds, spawners, reinforce, mute, alerts, known,
                   despawning, day>>

MissionTurn ==
    /\ chain.phase = "missions"
    /\ \E made \in 0..Min({Room(folk), MissionWave}) :
         /\ folk' = Add(folk, OfKind("grunt", made), "mission")
         /\ chain' = [chain EXCEPT !.phase = "carriers", !.unseen = made]
    /\ UNCHANGED <<doomed, engaged, groups, rounds, ruleLeft, spawners, reinforce, mute, alerts,
                   known, despawning, day>>

(***************************************************************************)
(* Spawners.                                                               *)
(***************************************************************************)

Spawner(left) == [left |-> left, spawned |-> {}, calls |-> 0, refused |-> FALSE]
IntervalCarriers(f) == {i \in f.alive : Carries(f.kind[i], "interval")}
CountedDown(s) == [s EXCEPT !.left = IF @ > 0 THEN @ - 1 ELSE 0]

\* Carriers that came have their interval before them; those gone are forgotten.
BeginCarriers ==
    LET here == IntervalCarriers(folk)
        callers == {c \in DOMAIN spawners : Carries(folk.kind[c], "alert")}
        kept == here \cup callers
        entry(c) == IF c \in DOMAIN spawners THEN spawners[c] ELSE Spawner(ConfigOf(c).interval)
    IN /\ chain.phase = "carriers"
       /\ spawners' = [c \in kept |->
                         IF c \in callers THEN spawners[c]
                         ELSE [CountedDown(entry(c)) EXCEPT !.spawned = @ \cap folk.alive]]
       /\ chain' = [chain EXCEPT !.phase = "intervals", !.todo = here]
       /\ UNCHANGED <<folk, doomed, engaged, groups, rounds, ruleLeft, reinforce, mute, alerts,
                      known, despawning, day>>

With(c, entry) ==
    [d \in DOMAIN spawners \cup {c} |-> IF d = c THEN entry ELSE spawners[d]]

\* No wave this time.
Quiet(c, entry) ==
    /\ spawners' = With(c, entry) /\ chain' = [chain EXCEPT !.todo = @ \ {c}]
    /\ UNCHANGED <<folk, reinforce, mute>>

\* Faulty variant: who came without a call can call.
CannotCallAgain(new, ids, called) == {i \in ids : called /\ Carries(new.kind[i], "alert")}
CannotCall(new, ids, called) == {i \in ids : Carries(new.kind[i], "alert")}

\* The wave: what could be made is remembered as the carrier's, as called for,
\* and as unable to call in its turn.
Sent(c, entry, ids, called) ==
    /\ spawners' = With(c, [entry EXCEPT !.spawned = @ \cup ids, !.left = ConfigOf(c).interval,
                                         !.calls = IF called THEN @ + 1 ELSE @])
    /\ reinforce' = IF called THEN reinforce \cup ids ELSE reinforce
    /\ mute' = mute \cup CannotCall(folk', ids, called)
    /\ chain' = [chain EXCEPT !.todo = @ \ {c}, !.sent = TRUE,
                            !.budget = @ + Cardinality(ids)]

emit_wave(c, entry, n, called) ==
    \E wave \in Waves(ConfigOf(c).units, n) :
       IF wave = <<>> THEN Quiet(c, entry)
       ELSE /\ folk' = Add(folk, wave, IF called THEN "call" ELSE "spawner")
            /\ Sent(c, entry, Added(folk, folk'), called)

IntervalRoom(c) ==
    Min({RoomUnder(ConfigOf(c).ceiling, Cardinality(spawners[c].spawned)),
         RoomUnder(Ceiling, chain.budget)})

\* One carrier after the other, in the order they were found.
IntervalTurn ==
    /\ chain.phase = "intervals"
    /\ \E c \in chain.todo :
         IF spawners[c].left > 0 THEN Quiet(c, spawners[c])
         ELSE \E drawn \in ConfigOf(c).min..ConfigOf(c).max :
                IF Min({drawn, IntervalRoom(c)}) < ConfigOf(c).min THEN Quiet(c, spawners[c])
                ELSE emit_wave(c, spawners[c], Min({drawn, IntervalRoom(c)}), FALSE)
    /\ UNCHANGED <<doomed, engaged, groups, rounds, ruleLeft, alerts, known, despawning, day>>

\* Then those who call when they see somebody.
BeginCalls ==
    LET lost == {c \in DOMAIN spawners : Carries(folk.kind[c], "alert") /\ c \notin folk.alive}
    IN /\ chain.phase = "intervals" /\ chain.todo = {}
       /\ reinforce' = reinforce \cap folk.alive /\ mute' = mute \cap folk.alive
       /\ spawners' = [c \in DOMAIN spawners \ lost |->
                         IF Carries(folk.kind[c], "alert") THEN CountedDown(spawners[c])
                         ELSE spawners[c]]
       /\ chain' = [chain EXCEPT !.phase = "calls", !.todo = {s.id : s \in alerts}]
       /\ UNCHANGED <<folk, doomed, engaged, groups, rounds, ruleLeft, alerts, known, despawning,
                      day>>

\* The instance the signal is for: a new engagement starts afresh.
Signalled(s) ==
    LET entry == IF s.id \in DOMAIN spawners THEN spawners[s.id] ELSE Spawner(0)
    IN IF s.started THEN [entry EXCEPT !.calls = 0, !.refused = FALSE] ELSE entry

MayCall(s, entry) ==
    /\ ~entry.refused /\ s.sees /\ entry.left = 0
    /\ ConfigOf(s.id).calls = 0 \/ entry.calls < ConfigOf(s.id).calls
    /\ s.id \notin mute

\* Faulty variant: whoever else has been called is not counted.
CallRoomOwn(c, live) ==
    Min({RoomUnder(ConfigOf(c).ceiling, live), RoomUnder(Ceiling, chain.budget)})
CallRoom(c, live) ==
    Min({RoomUnder(ConfigOf(c).ceiling, live), RoomUnder(Ceiling, chain.budget),
         RoomUnder(ReinforceCeiling, Cardinality(reinforce))})

\* A call that finds no room is not tried again while the engagement lasts.
Call(s, entry) ==
    \E drawn \in ConfigOf(s.id).min..ConfigOf(s.id).max :
       LET n == Min({drawn, CallRoom(s.id, Cardinality(entry.spawned))})
       IN IF n < ConfigOf(s.id).min THEN Quiet(s.id, [entry EXCEPT !.refused = TRUE])
          ELSE IF s.id \notin folk.alive THEN Quiet(s.id, entry)
          ELSE emit_wave(s.id, entry, n, TRUE)

\* The signals are those of the tick before: who sent one may be dead by now.
CallTurn ==
    /\ chain.phase = "calls" /\ chain.todo # {}
    /\ \E s \in alerts :
         /\ s.id = Min(chain.todo)
         /\ IF MayCall(s, Signalled(s))
            THEN Call(s, [Signalled(s) EXCEPT !.spawned = @ \cap folk.alive])
            ELSE Quiet(s.id, Signalled(s))
    /\ UNCHANGED <<doomed, engaged, groups, rounds, ruleLeft, alerts, known, despawning, day>>

(***************************************************************************)
(* The end of the tick, and what happens in between.                       *)
(***************************************************************************)

\* Groups lose their dead, and hold while somebody fights.
Held(g, fighting) ==
    [g EXCEPT !.members = @ \cap Agents(folk),
              !.holding = g.members \cap Agents(folk) \cap fighting # {}]

\* The controllers run last: whom they engage, and who of them sees anybody.
EndChain ==
    LET staying == SelectSeq(groups, LAMBDA g : g.members \cap Agents(folk) # {})
    IN /\ chain.phase = "calls" /\ chain.todo = {}
       /\ groups' = [n \in 1..Len(staying) |-> Held(staying[n], engaged)]
       /\ \E now \in UNION {kSubset(n, Agents(folk)) : n \in 0..MaxEngaged}, sees \in BOOLEAN :
            /\ engaged' = now
            /\ known' = [i \in Agents(folk) |-> i \in now]
            /\ alerts' = {[id |-> i, sees |-> sees,
                           started |-> i \notin DOMAIN known \/ ~known[i]] :
                             i \in {j \in now : Carries(folk.kind[j], "alert")}}
       /\ chain' = [chain EXCEPT !.phase = "idle", !.sent = FALSE]
       /\ UNCHANGED <<folk, doomed, rounds, ruleLeft, spawners, reinforce, mute, despawning, day>>

Idle == chain.phase = "idle"
Away(ids) ==
    /\ folk' = [folk EXCEPT !.alive = @ \ ids]
    /\ doomed' = doomed \ ids /\ engaged' = engaged \ ids
    /\ known' = [i \in DOMAIN known \ ids |-> known[i]]
    /\ UNCHANGED <<groups, rounds, ruleLeft, spawners, reinforce, mute, alerts, despawning, chain, day>>

\* Somebody is killed; and the commands asked for are executed.
Killed(i) ==
    /\ Idle /\ i \in folk.alive /\ Away({i})
    /\ losses < MaxLosses /\ losses' = losses + 1
ExecuteCommands == Idle /\ doomed # {} /\ Away(doomed) /\ UNCHANGED losses

\* Everybody the runtime knows of is to go.
despawn_all ==
    /\ Idle /\ ~despawning
    /\ doomed' = doomed \cup DOMAIN known /\ known' = [i \in {} |-> FALSE] /\ despawning' = TRUE
    /\ UNCHANGED <<folk, engaged, groups, rounds, ruleLeft, spawners, reinforce, mute, alerts, chain,
                   day>>

DirectorInit ==
    /\ map \in Maps
    /\ folk = [alive |-> 1..Len(Standing), kind |-> Standing,
               from |-> [i \in 1..Len(Standing) |-> "map"]]
    /\ doomed = {} /\ engaged = {} /\ groups = <<>> /\ ruleLeft = 0
    /\ rounds = [d \in 1..Len(Patrols) |->
                   [left |-> Patrols[d].interval, retry |-> 0, threats |-> [p \in {} |-> 0]]]
    /\ spawners = [c \in {} |-> Spawner(0)] /\ reinforce = {} /\ mute = {} /\ alerts = {}
    /\ known = [i \in {} |-> FALSE] /\ despawning = FALSE /\ day = 0 /\ losses = 0
    /\ chain = [phase |-> "idle", turn |-> 1, todo |-> {}, live |-> 0, budget |-> 0, unseen |-> 0,
               grew |-> FALSE, sent |-> FALSE]

DirectorNext ==
    /\ UNCHANGED map
    /\ \/ /\ UNCHANGED losses
          /\ \/ BeginTick \/ PatrolTurn \/ PatrolsDone \/ WorldTurn \/ MissionTurn
             \/ BeginCarriers \/ IntervalTurn \/ BeginCalls \/ CallTurn \/ EndChain \/ despawn_all
       \/ ExecuteCommands
       \/ \E i \in Ids(folk) : Killed(i)

DirectorSpec == DirectorInit /\ [][DirectorNext]_directorVars

(***************************************************************************)
(* Properties.                                                             *)
(***************************************************************************)

DirectorTypeOK ==
    /\ folk.alive \subseteq Ids(folk) /\ Len(folk.from) = Len(folk.kind)
    /\ doomed \subseteq Ids(folk) /\ DOMAIN known \subseteq Agents(folk)
    /\ chain.phase \in {"idle", "patrols", "world", "missions", "carriers", "intervals", "calls"}
    /\ \A c \in DOMAIN spawners : spawners[c].left \in 0..ConfigOf(c).interval

Under(n, ceiling) == ceiling = 0 \/ n <= ceiling
LiveOf(ids) == Cardinality(ids \cap folk.alive)

\* However the turns fall and whoever dies in between: no carrier and no call
\* has more alive than it may, nobody who was called in calls in turn, patrols
\* are as many as they may be and each of the living walks in one at most, and
\* the living are within the budget whenever a patrol or a spawner has made one,
\* apart from those the missions made in this tick.
PopulationHolds ==
    /\ \A c \in DOMAIN spawners : Under(LiveOf(spawners[c].spawned), ConfigOf(c).ceiling)
    /\ Under(LiveOf(reinforce), ReinforceCeiling)
    /\ \A c \in DOMAIN spawners :
          Carries(folk.kind[c], "alert") /\ spawners[c].spawned # {} =>
             folk.from[c] \notin {"call", "spawner"}
    /\ Under(Members(groups), PatrolCeiling)
    /\ \A d \in 1..Len(Patrols) :
          ~Patrols[d].around => OfDefinition(groups, d) <= Patrols[d].groups
    /\ \A m, n \in 1..Len(groups) : m # n => groups[m].members \cap groups[n].members = {}
    /\ chain.grew /\ chain.phase = "patrols" => Under(Cardinality(Agents(folk)), Ceiling)
    /\ chain.sent => Under(Cardinality(Agents(folk)) - chain.unseen, Ceiling)

=============================================================================
