------------------------------ MODULE Projectiles ------------------------------
(***************************************************************************)
(* Shots in the air.  A tick ages every projectile, lets those that meet   *)
(* consume each other, resolves what each has touched or that its time is  *)
(* up, runs the graphs these triggers are bound to, and then serves the    *)
(* area effects and the beams.  A shot fired at a rewound tick is first    *)
(* swept through the recorded frames.                                      *)
(*                                                                         *)
(* Projectiles marked derived are never sent.  A client that has heard of  *)
(* the root of a chain re-runs the same passes on a world of its own, at   *)
(* its own render tick; the server keeps the spent root until its chain is *)
(* over, so that the root's despawn tells the client whether the chain was *)
(* called off or ran its course.                                           *)
(*                                                                         *)
(* Geometry is an input: which projectiles meet, what a shot touches, whom *)
(* an area or a beam covers.  Only the ground is kept, as the age at which *)
(* a falling projectile reaches it, because both worlds must agree on it.  *)
(***************************************************************************)
EXTENDS Integers, Sequences, FiniteSets, FiniteSetsExt, SequencesExt, Functions, TLC

CONSTANTS Targets,      \* the actors a shot may touch
          Pilots,       \* those of them a peer owns
          Hidden,       \* those that no source may damage
          Local,        \* the pilots whose client this is
          ShotOf,       \* [kind -> projectile template]
          Meetings,     \* the interaction rules, in order
          Touches,      \* what a shot may touch in a tick, nearest first
          Rewinds,      \* how many ticks back a shot may be resolved
          Seeds,        \* what the launch of a chain is seeded with
          Salvos,       \* who fires what, in order
          MaxSights, MaxRefused, ShotTicks

VARIABLES flightTick,   \* the tick the server simulates next
          sky,          \* the server's projectiles: [shots, made, handed]
          alive,        \* the targets with health left
          dealt,        \* [damage request -> how many there have been]
          triggered,    \* [shot -> terminal triggers it has queued]
          sight,        \* [root -> what the session last told the client of it]
          past,         \* [root -> [tick -> what its chain looked like]]
          ended,        \* [root -> the tick it was destroyed]
          frayed,       \* the roots with a batch that was not committed
          inbox,        \* what is under way to the client
          render,       \* the tick the client draws
          chains,       \* the presenter: [root -> chain]
          drawn,        \* the roots the client has an entity for
          deferred,     \* despawns held until the render tick reaches them
          heardRoots,   \* [root -> what the client has heard: its root, whether in range]
          spentShots    \* bounds: [salvo, sights, refused]

serverSide == <<flightTick, sky, alive, dealt, triggered, sight, past, ended, frayed>>
clientSide == <<render, chains, drawn, deferred, heardRoots>>
shotVars == <<serverSide, inbox, clientSide, spentShots>>

ShotKinds == DOMAIN ShotOf
AmpleRoom == 100    \* no batch is refused for want of room
Wall == -1          \* what is hit and is no actor
NoBinding == [spawns |-> <<>>, forwards |-> FALSE]
kMaxDerivedChainDepth == 16

OneOrMore(n) == IF n = 0 THEN 1 ELSE n
Peer(a) == IF a \in Pilots THEN a ELSE 0

\* Tables, spelled out.
Table(f) == f @@ <<>>
Dropping(f, ids) == Table(Restrict(f, DOMAIN f \ ids))

(***************************************************************************)
(* How long what a projectile leaves behind goes on: the longest path of   *)
(* derived spawns below it.                                                *)
(***************************************************************************)

\* Faulty variant: only what a projectile spawns itself counts.
derived_chain_ticks_one_level ==
    [k \in ShotKinds |->
        Max({0} \cup {(IF s.life # 0 THEN s.life ELSE ShotOf[s.kind].life) + s.stagger :
                        s \in {x \in Range(ShotOf[k].expired.spawns \o ShotOf[k].impact.spawns) :
                                  ShotOf[x.kind].derived}})]

derived_chain_ticks ==
    LET chain[depth \in 0 .. kMaxDerivedChainDepth] ==
            [k \in ShotKinds |->
                IF depth = 0 THEN 0
                ELSE Max({0} \cup
                         {(IF s.life # 0 THEN s.life ELSE ShotOf[s.kind].life) + s.stagger
                            + chain[depth - 1][s.kind] :
                            s \in {x \in Range(ShotOf[k].expired.spawns \o ShotOf[k].impact.spawns) :
                                      ShotOf[x.kind].derived}})]
    IN chain[kMaxDerivedChainDepth]

(***************************************************************************)
(* Spawning.  An area effect and a beam end at a tick; the others at an    *)
(* age.  Only a weapon's own shot is guided.                               *)
(***************************************************************************)

NewShot(kind, by, peer, root, seed, born, age, life, now, guided) ==
    [kind |-> kind, by |-> by, peer |-> peer, root |-> root, seed |-> seed, born |-> born,
     age |-> age, life |-> life, hits |-> 0, hold |-> 0, ready |-> 0, aim |-> 0,
     still |-> ShotOf[kind].still, derived |-> ShotOf[kind].derived /\ ~guided,
     phase |-> IF guided /\ ShotOf[kind].homing THEN "boost" ELSE "none",
     until |-> IF ShotOf[kind].type = "standard" THEN 0 ELSE now + OneOrMore(life)]

\* A world's projectiles: the highest id given, and the batches handed on.
Empty(made) == [shots |-> <<>>, made |-> made, handed |-> <<>>]

Launch(s, shot) == [s EXCEPT !.shots = @ @@ (s.made + 1 :> shot), !.made = @ + 1]

\* What one command of a graph spawns; a stagger adds what the seed draws.
spawn_projectile_from_template(s, parent, spawn, now) ==
    LET id == s.made + 1
        life == (IF spawn.life # 0 THEN spawn.life ELSE ShotOf[spawn.kind].life)
                + Min({parent.seed, spawn.stagger})
    IN Launch(s, NewShot(spawn.kind, parent.by, parent.peer,
                      IF ShotOf[spawn.kind].derived THEN parent.root ELSE id,
                      parent.seed, now, 0, life, now, FALSE))

SpawnAll(s, parent, spawns, now) ==
    FoldLeft(LAMBDA w, spawn : spawn_projectile_from_template(w, parent, spawn, now), s, spawns)

(***************************************************************************)
(* Ageing and guidance.                                                    *)
(***************************************************************************)

\* Whom a missile may pursue.
Pursuable(shot) ==
    {a \in alive : /\ a # shot.by
                   /\ shot.peer = 0 \/ Peer(a) # shot.peer
                   /\ ShotOf[shot.kind].actors}

\* `near' is the target its seeker finds, or 0; `strays' that its target has
\* left its range.
advance_homing_projectile(shot, now, near, strays) ==
    IF shot.phase = "boost" /\ now >= shot.born + ShotOf[shot.kind].boost
    THEN [shot EXCEPT !.age = @ + 1, !.aim = IF near \in Pursuable(shot) THEN near ELSE 0,
                      !.phase = IF near \in Pursuable(shot) THEN "guided" ELSE "lost"]
    ELSE IF shot.phase = "guided" /\ (strays \/ shot.aim \notin Pursuable(shot))
    THEN [shot EXCEPT !.age = @ + 1, !.aim = 0, !.phase = "lost"]
    ELSE [shot EXCEPT !.age = @ + 1]

\* A moving area effect stops for good at the first obstacle in its way.
Flown(shot, now, touch, near, strays) ==
    CASE ShotOf[shot.kind].type = "beam" -> shot
      [] ShotOf[shot.kind].type = "area" /\ shot.still -> shot
      [] ShotOf[shot.kind].type = "area" /\ ~shot.still ->
            [shot EXCEPT !.age = @ + 1, !.still = Wall \in Range(touch)]
      [] shot.phase # "none" -> advance_homing_projectile(shot, now, near, strays)
      [] OTHER -> [shot EXCEPT !.age = @ + 1]

(***************************************************************************)
(* Projectiles that meet: pairs in order of their ids, each consumed once. *)
(***************************************************************************)

\* The first rule that names both, and whether the first of them is its left.
match_projectile_interaction_rule(a, b) ==
    LET fits(r) == \/ r.left = a.kind /\ r.right = b.kind
                   \/ r.symmetric /\ r.left = b.kind /\ r.right = a.kind
        at == {i \in DOMAIN Meetings : fits(Meetings[i])}
    IN IF at = {} THEN <<>>
       ELSE LET r == Meetings[Min(at)]
            IN <<[rule |-> r, straight |-> r.left = a.kind /\ r.right = b.kind]>>

MayMeet(a, b) ==
    /\ ShotOf[a.kind].shots /\ ShotOf[b.kind].shots
    /\ a.peer = 0 \/ a.peer # b.peer
    /\ match_projectile_interaction_rule(a, b) # <<>>

\* One match: who of the pair is consumed, and what is left in their place.
\* What they leave names the projectile it came from as its shooter.
Meet(w, pair, now) ==
    LET a == w.sky.shots[pair[1]]
        b == w.sky.shots[pair[2]]
        m == match_projectile_interaction_rule(a, b)[1]
        goesA == IF m.straight THEN m.rule.endLeft ELSE m.rule.endRight
        goesB == IF m.straight THEN m.rule.endRight ELSE m.rule.endLeft
        from == IF m.straight THEN pair[1] ELSE pair[2]
        left == w.sky.shots[from]
    IN IF pair[1] \in w.gone \/ pair[2] \in w.gone THEN w
       ELSE [gone |-> w.gone \cup (IF goesA THEN {pair[1]} ELSE {})
                             \cup (IF goesB THEN {pair[2]} ELSE {}),
             sky |-> IF m.rule.spawn = "none" THEN w.sky
                     ELSE Launch(w.sky, NewShot(m.rule.spawn, from, left.peer, w.sky.made + 1, 0, now,
                                             0, ShotOf[m.rule.spawn].life, now, FALSE))]

process_projectile_interactions(s, meets, now) ==
    FoldLeft(LAMBDA w, pair : Meet(w, pair, now), [sky |-> s, gone |-> {}],
             SetToSortSeq(meets, LAMBDA p, q : p[1] < q[1] \/ (p[1] = q[1] /\ p[2] < q[2])))

(***************************************************************************)
(* What a shot has touched.                                                *)
(***************************************************************************)

\* The shooter is never among the hits, nor what the mask leaves out.
Contacted(shot, touch) ==
    LET falls == IF ShotOf[shot.kind].fall # 0 /\ shot.age >= ShotOf[shot.kind].fall
                 THEN <<Wall>> ELSE <<>>
    IN SelectSeq(touch, LAMBDA x : x # shot.by /\ (IF x = Wall THEN ShotOf[shot.kind].walls
                                                   ELSE ShotOf[shot.kind].actors)) \o falls

\* A piercing shot's hits up to the one that stops it: an obstacle, or its last.
Pierce(shot, hits) ==
    FoldLeft(LAMBDA w, x :
                IF w.stopped \/ w.shot.hits >= OneOrMore(ShotOf[shot.kind].maxHits) THEN w
                ELSE IF x = Wall THEN [w EXCEPT !.stopped = TRUE]
                ELSE IF x \in Hidden THEN w
                ELSE [w EXCEPT !.shot.hits = @ + 1, !.hurt = Append(@, x)],
             [shot |-> shot, stopped |-> FALSE, hurt |-> <<>>], hits)

Outcome(shot, victims, fires, gone) ==
    [shot |-> shot, hurt |-> victims, fires |-> fires, gone |-> gone]

process_projectile_hit_records(shot, hits) ==
    IF ShotOf[shot.kind].pierces /\ ShotOf[shot.kind].damage > 0
    THEN LET p == Pierce(shot, hits)
         IN Outcome(p.shot, p.hurt, IF p.stopped THEN "impact" ELSE "none",
                    p.stopped \/ p.shot.hits >= OneOrMore(ShotOf[shot.kind].maxHits))
    ELSE Outcome(shot,
                 IF /\ ~ShotOf[shot.kind].pierces /\ ShotOf[shot.kind].damage > 0
                    /\ hits[1] # Wall /\ hits[1] \notin Hidden
                 THEN <<hits[1]>> ELSE <<>>,
                 "impact", TRUE)

\* A root is kept past its own end, until its chain has run.
Expire(shot, now) ==
    IF ~shot.derived /\ derived_chain_ticks[shot.kind] > 0
    THEN Outcome([shot EXCEPT !.hold = now + derived_chain_ticks[shot.kind] + 1],
                 <<>>, "expired", FALSE)
    ELSE Outcome(shot, <<>>, "expired", TRUE)

\* A tick of one shot.  One that touches something is not expired in that tick.
ResolveShot(shot, hits, now) ==
    IF ShotOf[shot.kind].type # "standard" THEN Outcome(shot, <<>>, "none", FALSE)
    ELSE IF shot.hold # 0 THEN Outcome(shot, <<>>, "none", now >= shot.hold)
    ELSE IF hits # <<>> THEN process_projectile_hit_records(shot, hits)
    ELSE IF shot.life > 0 /\ shot.age >= shot.life THEN Expire(shot, now)
    ELSE Outcome(shot, <<>>, "none", FALSE)

(***************************************************************************)
(* The graphs.  Triggers are dispatched all or none; a batch that only     *)
(* spawns runs here if the record of batches has room, any other is handed *)
(* on and counts as committed.                                             *)
(***************************************************************************)

BindingOf(shot, fires) ==
    IF fires = "expired" THEN ShotOf[shot.kind].expired ELSE ShotOf[shot.kind].impact

\* The shots with a trigger that is bound to a graph.
BoundShots(outcomes) ==
    {id \in DOMAIN outcomes : /\ outcomes[id].fires # "none"
                              /\ BindingOf(outcomes[id].shot, outcomes[id].fires) # NoBinding}

\* w: [sky, room, committed, forwarded]
Batch(w, shot, id, binding, now) ==
    IF binding.forwards
    THEN [w EXCEPT !.committed = @ \cup {id}, !.forwarded = Append(@, <<shot, binding.spawns>>)]
    ELSE IF w.room = 0 THEN w
    ELSE [w EXCEPT !.committed = @ \cup {id}, !.room = @ - 1,
                   !.sky = SpawnAll(@, shot, binding.spawns, now)]

execute_queued_trigger_events(s, outcomes, room, dispatched, now) ==
    FoldLeft(LAMBDA w, id : Batch(w, outcomes[id].shot, id,
                                     BindingOf(outcomes[id].shot, outcomes[id].fires), now),
                [sky |-> s, room |-> room, committed |-> {}, forwarded |-> <<>>],
                IF dispatched THEN SetToSortSeq(BoundShots(outcomes), <) ELSE <<>>)

(***************************************************************************)
(* The pass over all projectiles.  w: [sky, gone, outcomes]                *)
(***************************************************************************)

\* A damage request: by which shot, to whom.
Wound(id, shot, whom) == [by |-> id, kind |-> shot.kind, life |-> shot.life, whom |-> whom]

HurtBy(outcomes) ==
    UNION {{Wound(id, outcomes[id].shot, x) : x \in Range(outcomes[id].hurt)} : id \in DOMAIN outcomes}

\* Held roots whose batch did not commit have no chain to wait for.
SettleShots(w, gone, outcomes, before) ==
    LET rootless == {id \in DOMAIN outcomes : /\ outcomes[id].shot.hold # 0 /\ before[id].hold = 0
                                             /\ id \notin w.committed}
        over == gone \cup rootless \cup {id \in DOMAIN outcomes : outcomes[id].gone}
    IN [sky |-> [w.sky EXCEPT !.shots = Dropping([id \in DOMAIN w.sky.shots |->
                                                    IF id \in DOMAIN outcomes THEN outcomes[id].shot
                                                    ELSE w.sky.shots[id]], over)],
        hurt |-> HurtBy(outcomes), forwarded |-> w.forwarded,
        fired |-> {id \in DOMAIN outcomes : outcomes[id].fires # "none"},
        refused |-> {outcomes[id].shot.root :
                        id \in BoundShots(outcomes) \ w.committed}]

TouchOf(touch, id) == IF id \in DOMAIN touch THEN touch[id] ELSE <<>>

Ending(met, room, dispatched, now, outcomes) ==
    SettleShots(execute_queued_trigger_events(met.sky, outcomes, room, dispatched, now), met.gone, outcomes,
             met.sky.shots)

Resolve(met, touch, room, dispatched, now) ==
    Ending(met, room, dispatched, now, Table([id \in DOMAIN met.sky.shots \ met.gone |->
                        ResolveShot(met.sky.shots[id], Contacted(met.sky.shots[id], TouchOf(touch, id)), now)]))

simulate_projectiles(s, meets, touch, near, strays, room, dispatched, now) ==
    Resolve(process_projectile_interactions(
                [s EXCEPT !.shots = Table([id \in DOMAIN @ |->
                                            Flown(@[id], now, TouchOf(touch, id), near, strays)])],
                meets, now),
            touch, room, dispatched, now)

(***************************************************************************)
(* Area effects and beams.                                                 *)
(***************************************************************************)

AreaStep(shot, now) == [shot EXCEPT !.ready = now + OneOrMore(ShotOf[shot.kind].interval)]

\* An effect whose turn it is serves everything it covers, once each.
AreaServes(shot, now) ==
    /\ ShotOf[shot.kind].type = "area" /\ now < shot.until
    /\ ShotOf[shot.kind].damage > 0 \/ ShotOf[shot.kind].impact # NoBinding
    /\ now >= shot.ready

simulate_area_effects(s, now) ==
    LET ends == {id \in DOMAIN s.shots : /\ ShotOf[s.shots[id].kind].type = "area"
                                         /\ now >= s.shots[id].until}
    IN [s EXCEPT !.shots = Table([id \in DOMAIN @ \ ends |->
                                    IF AreaServes(@[id], now) THEN AreaStep(@[id], now) ELSE @[id]])]

AreaHurts(s, covers, now) ==
    {Wound(p[1], s.shots[p[1]], p[2]) :
        p \in {q \in (DOMAIN s.shots) \X (covers \ Hidden) :
                 /\ AreaServes(s.shots[q[1]], now) /\ ShotOf[s.shots[q[1]].kind].damage > 0
                 /\ q[2] # s.shots[q[1]].by \/ ShotOf[s.shots[q[1]].kind].instigator}}

simulate_beams(s, now) ==
    [s EXCEPT !.shots = Dropping(@, {id \in DOMAIN @ : /\ ShotOf[@[id].kind].type = "beam"
                                                     /\ now >= @[id].until})]

\* A beam hurts everything it covers in every tick; its shooter is never covered.
BeamHurts(s, covers, now) ==
    {Wound(p[1], s.shots[p[1]], p[2]) :
        p \in {q \in (DOMAIN s.shots) \X (covers \ Hidden) :
                 /\ ShotOf[s.shots[q[1]].kind].type = "beam" /\ now < s.shots[q[1]].until
                 /\ q[2] # s.shots[q[1]].by}}

(***************************************************************************)
(* The server.                                                             *)
(***************************************************************************)

\* What a chain looks like: how many of which projectile, at which age.
Picture(shots, ids) ==
    LET looks == {<<shots[id].kind, shots[id].age>> : id \in ids}
    IN [l \in looks |-> Cardinality({id \in ids : l = <<shots[id].kind, shots[id].age>>})]

ChainOf(shots, root) == {id \in DOMAIN shots : shots[id].derived /\ shots[id].root = root}

\* The projectiles a client derives a chain from.
RootsIn(shots) ==
    {id \in DOMAIN shots : ~shots[id].derived /\ derived_chain_ticks[shots[id].kind] > 0}

ShotInit ==
    /\ flightTick = 1
    /\ sky = Empty(10)
    /\ alive = Targets
    /\ dealt = <<>> /\ triggered = <<>>
    /\ sight = <<>> /\ past = <<>> /\ ended = <<>> /\ frayed = {}
    /\ inbox = <<>>
    /\ render = 0
    /\ chains = <<>>
    /\ drawn = {} /\ deferred = {}
    /\ heardRoots = <<>>
    /\ spentShots \in [salvo : Salvos, sights : {0}, refused : {0}]

\* The damage requests and terminal triggers so far, with those of this step.
Count(f, added) ==
    [x \in DOMAIN f \cup added |-> (IF x \in DOMAIN f THEN f[x] ELSE 0) + (IF x \in added THEN 1 ELSE 0)]

Book(hurts, fired) ==
    /\ dealt' = Count(dealt, hurts)
    /\ triggered' = Count(triggered, fired)

\* Resolved `back' ticks ago, a shot may have met `met' in a recorded frame: it
\* is then over, and only one that deals its damage directly has dealt it.
resolve_projectile_historical_hit(id, shot, met, room) ==
    LET run == execute_queued_trigger_events(Launch(sky, shot), id :> Outcome(shot, <<>>, "impact", TRUE),
                                             room, TRUE, flightTick)
    IN /\ sky' = [run.sky EXCEPT !.shots = Dropping(@, {id}), !.handed = @ \o run.forwarded]
       /\ Book(IF ~ShotOf[shot.kind].pierces /\ ShotOf[shot.kind].damage > 0
               THEN {Wound(id, shot, met)} ELSE {}, {id})

\* A weapon's shot.  A beam that is still there is turned instead of fired anew.
fire_projectile(a, kind, back, met, room) ==
    LET beams == {i \in DOMAIN sky.shots : sky.shots[i].by = a /\ sky.shots[i].kind = kind}
        shot == NewShot(kind, a, Peer(a), sky.made + 1, 0, flightTick - back, back,
                        ShotOf[kind].life, flightTick, TRUE)
    IN IF ShotOf[kind].type = "beam" /\ beams # {}
       THEN /\ sky' = [sky EXCEPT !.shots = [i \in DOMAIN @ |->
                          IF i \in beams
                          THEN [@[i] EXCEPT !.until = flightTick + OneOrMore(ShotOf[kind].life)]
                          ELSE @[i]]]
            /\ UNCHANGED <<dealt, triggered>>
       ELSE IF met = 0 \/ back = 0 \/ ShotOf[kind].homing
       THEN sky' = Launch(sky, shot) /\ UNCHANGED <<dealt, triggered>>
       ELSE resolve_projectile_historical_hit(sky.made + 1, shot, met, room)

\* A strike lands the root of a chain: its spawn carries what seeds the chain.
spawn_projectile_at(a, kind, seed) ==
    /\ sky' = Launch(sky, NewShot(kind, a, Peer(a), sky.made + 1, seed, flightTick, 0, ShotOf[kind].life, flightTick, FALSE))
    /\ UNCHANGED <<dealt, triggered>>

Fire ==
    /\ spentShots.salvo # <<>>
    /\ LET a == Head(spentShots.salvo).by
           kind == Head(spentShots.salvo).kind
       IN \/ /\ ShotOf[kind].weapon = "projectile"
             /\ \E back \in Rewinds, met \in {0} \cup (Targets \ (Hidden \cup {a})), room \in {0, 1} :
                   /\ back < flightTick
                   /\ met # 0 => ShotOf[kind].actors /\ back # 0
                   /\ room # 0 \/ met # 0
                   /\ fire_projectile(a, kind, back, met, room)
          \/ /\ ShotOf[kind].weapon = "strike"
             /\ \E seed \in Seeds : spawn_projectile_at(a, kind, seed)
    /\ spentShots' = [spentShots EXCEPT !.salvo = Tail(@)]
    /\ UNCHANGED <<flightTick, alive, sight, past, ended, frayed, inbox, clientSide>>

\* Roots the tick has destroyed are despawned at every client that knows them.
finalize_simulated_projectile_destructions(s) ==
    LET over == RootsIn(sky.shots) \ DOMAIN s.shots
        told == over \cap DOMAIN sight
    IN /\ ended' = ended @@ [r \in over |-> flightTick]
       /\ sight' = Dropping(sight, over)
       /\ inbox' = inbox \o SetToSeq({[type |-> "despawn", root |-> r, tick |-> flightTick,
                                       reason |-> "destroyed"] : r \in told})
       /\ past' = [r \in DOMAIN past \cup RootsIn(s.shots) |->
                      (IF r \in DOMAIN past THEN past[r] ELSE <<>>)
                      @@ (flightTick :> Picture(s.shots, ChainOf(s.shots, r)))]

Served(p, forwarded, covers) ==
    /\ sky' = simulate_beams(forwarded, flightTick)
    /\ frayed' = frayed \cup p.refused
    /\ Book(p.hurt \cup AreaHurts(p.sky, covers, flightTick) \cup BeamHurts(forwarded, covers, flightTick), p.fired)
    /\ finalize_simulated_projectile_destructions(simulate_beams(forwarded, flightTick))

\* Batches handed on, this tick or by a weapon, run once the area effects have
\* been served.
Tick(p, covers) ==
    Served(p, FoldLeft(LAMBDA w, f : SpawnAll(w, f[1], f[2], flightTick),
                       [simulate_area_effects(p.sky, flightTick) EXCEPT !.handed = <<>>],
                       p.sky.handed \o p.forwarded), covers)

\* The shots whose touches are a matter of this tick's geometry.
Reaching(shots) ==
    {id \in DOMAIN shots :
        CASE ShotOf[shots[id].kind].type = "standard" ->
               /\ shots[id].hold = 0 /\ ShotOf[shots[id].kind].fall = 0
               /\ ShotOf[shots[id].kind].actors \/ ShotOf[shots[id].kind].walls
          [] ShotOf[shots[id].kind].type = "area" -> ~shots[id].still
          [] OTHER -> FALSE}

\* Whether an area effect or a beam could hurt anyone.
Covering(shots) ==
    \E id \in DOMAIN shots : /\ ShotOf[shots[id].kind].type # "standard"
                              /\ ShotOf[shots[id].kind].damage > 0

\* Whether a tick can run a graph at all.
Bound(shots) ==
    \E id \in DOMAIN shots : /\ ShotOf[shots[id].kind].type = "standard" /\ shots[id].hold = 0
                              /\ {ShotOf[shots[id].kind].expired, ShotOf[shots[id].kind].impact}
                                   # {NoBinding}

\* How a tick's triggers fare: whether they are dispatched, and for how many
\* batches the record of batches has room.
Dispatches == {<<TRUE, AmpleRoom>>, <<TRUE, 1>>, <<TRUE, 0>>, <<FALSE, 0>>}

Simulate ==
    /\ flightTick < ShotTicks
    /\ flightTick' = flightTick + 1
    /\ \E meets \in SUBSET {p \in (DOMAIN sky.shots) \X (DOMAIN sky.shots) :
                               p[1] < p[2] /\ MayMeet(sky.shots[p[1]], sky.shots[p[2]])},
          touch \in [Reaching(sky.shots) -> Touches],
          covers \in SUBSET (IF Covering(sky.shots) THEN Targets \ Hidden ELSE {}),
          near \in IF \E id \in DOMAIN sky.shots : sky.shots[id].phase = "boost"
                   THEN {0} \cup alive ELSE {0},
          strays \in IF \E id \in DOMAIN sky.shots : sky.shots[id].phase = "guided"
                     THEN BOOLEAN ELSE {FALSE},
          d \in IF Bound(sky.shots) /\ spentShots.refused < MaxRefused THEN Dispatches
                ELSE {<<TRUE, AmpleRoom>>} :
             /\ spentShots' = [spentShots EXCEPT !.refused = @ + IF d[2] = AmpleRoom THEN 0 ELSE 1]
             /\ Tick(simulate_projectiles(sky, meets, touch, near, strays, d[2], d[1], flightTick), covers)
    /\ UNCHANGED <<alive, clientSide>>

\* Deaths matter here to what a missile pursues.
TargetDies(a) ==
    /\ a \in alive
    /\ \E id \in DOMAIN sky.shots : sky.shots[id].phase = "guided"
    /\ alive' = alive \ {a}
    /\ UNCHANGED <<flightTick, sky, dealt, triggered, sight, past, ended, frayed, inbox, clientSide, spentShots>>

\* A root comes into a client's range: its spawn is sent with its own tick.
send_projectile_spawn_batch(r) ==
    /\ r \in DOMAIN past /\ (r \in DOMAIN sight => sight[r] = "away")
    /\ spentShots.sights < MaxSights
    /\ spentShots' = [spentShots EXCEPT !.sights = @ + 1]
    /\ sight' = (r :> "there") @@ sight
    /\ inbox' = Append(inbox, [type |-> "spawn", root |-> r, shot |-> sky.shots[r]])
    /\ UNCHANGED <<flightTick, sky, alive, dealt, triggered, past, ended, frayed, clientSide>>

\* It leaves the range.
LoseSight(r) ==
    /\ r \in DOMAIN sight /\ sight[r] = "there"
    /\ sight' = [sight EXCEPT ![r] = "away"]
    /\ inbox' = Append(inbox, [type |-> "despawn", root |-> r, tick |-> flightTick - 1, reason |-> "range"])
    /\ UNCHANGED <<flightTick, sky, alive, dealt, triggered, past, ended, frayed, clientSide, spentShots>>

(***************************************************************************)
(* The client.                                                             *)
(***************************************************************************)

\* A chain is held from its root's spawn to a tick after its natural end.
add_root(r, shot) ==
    IF r \in DOMAIN chains THEN chains
    ELSE (r :> [root |-> shot, next |-> 0, sky |-> Empty(0),
                end |-> shot.born + ShotOf[shot.kind].life + derived_chain_ticks[shot.kind] + 1]) @@ chains

natural_end_tick(r) == chains[r].end - 1

\* Despawns take their root's chain away if it could not have ended yet.
CalledOff(gone) ==
    {d.root : d \in {x \in gone : x.root \in DOMAIN chains /\ x.tick < natural_end_tick(x.root)}}

\* Whether a despawn waits for the tick the client draws to reach it.
Waits(m) ==
    /\ m.reason # "range"
    /\ render < m.tick
    /\ m.root \in drawn /\ heardRoots[m.root].shot.by \notin Local

HandleSpawn(m) ==
    /\ m.type = "spawn"
    /\ chains' = add_root(m.root, m.shot)
    /\ drawn' = drawn \cup {m.root}
    /\ heardRoots' = (m.root :> [there |-> TRUE, shot |-> m.shot]) @@ heardRoots
    /\ UNCHANGED deferred

handle_client_despawn(m) ==
    /\ m.type = "despawn"
    /\ heardRoots' = IF m.reason = "range" THEN [heardRoots EXCEPT ![m.root].there = FALSE] ELSE heardRoots
    /\ IF Waits(m)
       THEN deferred' = deferred \cup {m} /\ UNCHANGED <<chains, drawn>>
       ELSE /\ chains' = Dropping(chains, CalledOff({m}))
            /\ drawn' = drawn \ {m.root}
            /\ UNCHANGED deferred

Deliver ==
    /\ inbox # <<>>
    /\ inbox' = Tail(inbox)
    /\ HandleSpawn(Head(inbox)) \/ handle_client_despawn(Head(inbox))
    /\ UNCHANGED <<serverSide, render, spentShots>>

\* The shadow world has no actors and room for every batch.
ShadowTick(s, now) ==
    simulate_area_effects(
        simulate_projectiles(s, {}, <<>>, 0, FALSE, AmpleRoom, TRUE, now).sky, now)

ShadowRoot(chain) ==
    Launch(chain.sky, NewShot(chain.root.kind, chain.root.by, chain.root.peer, 1, chain.root.seed,
                           chain.root.born, 0, ShotOf[chain.root.kind].life, chain.root.born, FALSE))

\* A chain heard of late is brought up from its root's spawn.
Stepped(chain, to) ==
    IF chain.next = 0 /\ to < chain.root.born THEN chain
    ELSE LET from == IF chain.next = 0 THEN chain.root.born ELSE chain.next
             upTo == Min({to, chain.end})
         IN [chain EXCEPT
                !.sky = FoldLeft(ShadowTick, IF chain.next = 0 THEN ShadowRoot(chain) ELSE @,
                                 [i \in 1 .. upTo - from + 1 |-> from + i - 1]),
                !.next = Max({from, upTo + 1})]

advance_to_tick(held, to) ==
    LET stepped == [r \in DOMAIN held |-> Stepped(held[r], to)]
    IN Dropping(stepped, {r \in DOMAIN held : stepped[r].next > stepped[r].end})

\* Despawns that have come due are handled before the chains are stepped.
Render ==
    /\ \E to \in {render + 1, flightTick - 1} \ {render, flightTick} :
          LET due == {d \in deferred : to >= d.tick}
          IN /\ render' = to
             /\ deferred' = deferred \ due
             /\ drawn' = drawn \ {d.root : d \in due}
             /\ chains' = advance_to_tick(Dropping(chains, CalledOff(due)), to)
    /\ UNCHANGED <<serverSide, inbox, heardRoots, spentShots>>

ShotNext ==
    \/ Simulate
    \/ Fire
    \/ \E a \in Targets : TargetDies(a)
    \/ \E r \in RootsIn(sky.shots) : send_projectile_spawn_batch(r) \/ LoseSight(r)
    \/ Deliver
    \/ Render

ShotSpec == ShotInit /\ [][ShotNext]_shotVars

(***************************************************************************)
(* Properties.                                                             *)
(***************************************************************************)

\* Type invariant.
ShotTypeOK ==
    /\ flightTick \in 1 .. ShotTicks /\ render \in 0 .. flightTick - 1
    /\ \A id \in DOMAIN sky.shots :
          LET s == sky.shots[id]
          IN /\ s.kind \in ShotKinds /\ s.age \in 0 .. s.life + ShotTicks /\ s.hits \in Nat
             /\ s.phase \in {"none", "boost", "guided", "lost"} /\ s.aim \in Targets \cup {0}
             /\ id \in 11 .. sky.made
    /\ DOMAIN sight \subseteq RootsIn(sky.shots)
    /\ deferred \subseteq {d \in deferred : d.root \in drawn}

\* The server keeps the root of a chain for as long as the chain has anything in
\* the air: no client is told that a chain is over before it is.
RootOutlivesChain ==
    \A id \in DOMAIN sky.shots : sky.shots[id].derived => sky.shots[id].root \in DOMAIN sky.shots

\* What a client draws of a chain at a tick is what the server had in the air at
\* that tick, however late it heard of the root and however often the root left
\* its range.  Left out: chains of which the server has refused a batch.
ChainIsTheServers ==
    \A r \in DOMAIN chains \ frayed :
       chains[r].next # 0 =>
          Picture(chains[r].sky.shots, DOMAIN chains[r].sky.shots \ {1}) = past[r][chains[r].next - 1]

\* The tick a chain is over, a tick after the server destroys its root.
EndOf(root) == root.born + ShotOf[root.kind].life + derived_chain_ticks[root.kind] + 1

\* A client that knows of a root draws its chain to the end: the despawn of a root
\* whose chain has run its course takes nothing away from a client whose render
\* tick is still behind.
ChainIsDrawnOut ==
    \A r \in DOMAIN heardRoots \ frayed :
       heardRoots[r].there /\ render < EndOf(heardRoots[r].shot) => r \in DOMAIN chains

\* A chain whose root the server has ended early, because its batch was refused,
\* is not drawn once the client has handled the despawn.
CalledOffIsGone ==
    \A r \in DOMAIN chains \cap DOMAIN ended :
       \/ ended[r] >= EndOf(chains[r].root) - 1
       \/ \E m \in Range(inbox) \cup deferred : m.type = "despawn" /\ m.root = r

\* A projectile ends once: it queues at most one terminal trigger, and once it
\* has, only a root waiting for its chain is still there.
ShotsEndOnce ==
    \A id \in DOMAIN triggered :
       /\ triggered[id] <= 1
       /\ id \in DOMAIN sky.shots => sky.shots[id].hold # 0

\* However a shot is resolved, in a recorded frame or tick by tick, it deals its
\* damage once, a piercing one at most as often as it may hit; an area effect
\* serves a target no more often than its interval allows in its lifetime.
ShotsDealFairly ==
    /\ \A w \in DOMAIN dealt :
          ShotOf[w.kind].type = "area" =>
             dealt[w] <= 1 + (OneOrMore(w.life) - 1) \div OneOrMore(ShotOf[w.kind].interval)
    /\ \A id \in {w.by : w \in {x \in DOMAIN dealt : ShotOf[x.kind].type = "standard"}} :
          LET mine == {w \in DOMAIN dealt : w.by = id}
              kind == (CHOOSE w \in mine : TRUE).kind
          IN MapThenSumSet(LAMBDA w : dealt[w], mine)
                <= IF ShotOf[kind].pierces THEN OneOrMore(ShotOf[kind].maxHits) ELSE 1

\* All of the above.
ProjectilesHold ==
    /\ RootOutlivesChain /\ ChainIsTheServers /\ ChainIsDrawnOut /\ CalledOffIsGone
    /\ ShotsEndOnce /\ ShotsDealFairly
===============================================================================
