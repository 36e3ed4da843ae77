---------------------------- MODULE DamagePipeline ----------------------------
(***************************************************************************)
(* From a hit to a death.  A hit is queued with the time it happened; at   *)
(* the end of a tick what is queued becomes pending, and what is pending   *)
(* is applied once its time has come.  A hit of the world on a player      *)
(* waits for a grace period, in which the player's dodge or parry, made    *)
(* before the hit and received after it, still counts.  A hit scheduled    *)
(* ahead, a missile's, happens when it arrives and waits for nothing else. *)
(***************************************************************************)
EXTENDS Integers, Sequences, FiniteSets, SequencesExt

CONSTANTS
    Fighters,       \* players: they stay where they die
    Foes,           \* agents: the dead are destroyed
    Explodes,       \* those whose on_health_depleted graph harms everybody else
    Grace,          \* kGraceWindowUs, in ticks
    Window,         \* kDefensiveActionWindowUs, in ticks
    Mends,          \* those whose graph, if its conditions hold, heals them
    Flights,        \* ticks a missile may fly
    Immune,         \* ticks a player cannot be hurt after it stands up again
    Threshold, StaggerTicks, SteadyTicks, DecayDelay,   \* the stagger profile
    DamageTicks, MaxHits, MaxDefences       \* bounds

ASSUME DamageAssumption ==
    /\ Fighters \cap Foes = {} /\ Explodes \cup Mends \subseteq Fighters \cup Foes
    /\ Grace \in Nat /\ Window \in Nat /\ Flights \subseteq Nat \ {0}
    /\ Threshold \in Nat \ {0} /\ StaggerTicks \in Nat \ {0} /\ SteadyTicks \in Nat

VARIABLES
    now,
    fighter,    \* everybody: [here, hp, immune, sheltered, meter, hit, until, steady]
    queued,     \* queued_damage_
    pending,    \* pending_damage_
    defences,   \* defensive_actions_
    seen,       \* every defensive action ever taken in, and when it was
    wounds,     \* what the last drain applied
    fell,       \* when somebody last died, -1 if never
    deaths,     \* EntityDied events since it last stood up
    made        \* hits so far

damageVars == <<now, fighter, queued, pending, defences, seen, wounds, fell, deaths, made>>

Everybody == Fighters \cup Foes
FullHealth == 2

DamageInit ==
    /\ now = 0
    /\ fighter = [e \in Everybody |->
                    [here |-> TRUE, hp |-> FullHealth, immune |-> 0, sheltered |-> FALSE,
                     meter |-> 0, hit |-> 0, until |-> 0, steady |-> 0]]
    /\ queued = <<>> /\ pending = <<>> /\ defences = {} /\ seen = {} /\ wounds = {}
    /\ fell = [e \in Everybody |-> -1] /\ deaths = [e \in Everybody |-> 0]
    /\ made = 0

(***************************************************************************)
(* During a tick.                                                          *)
(***************************************************************************)

\* Faulty variant: a missile is dodged as it is launched.
RequestAtLaunch(id, source, target, amount, due) ==
    [id |-> id, source |-> source, target |-> target, amount |-> amount, tick |-> now,
     hitAt |-> now, due |-> due]
DamageRequest(id, source, target, amount, due) ==
    [id |-> id, source |-> source, target |-> target, amount |-> amount, tick |-> now,
     hitAt |-> IF due # 0 THEN due ELSE now, due |-> due]

submit_damage_request(source, target, due) ==
    /\ made < MaxHits /\ source # target /\ now < DamageTicks
    /\ \E amount \in 1..2 :
          queued' = Append(queued, DamageRequest(made + 1, source, target, amount, due))
    /\ made' = made + 1
    /\ UNCHANGED <<now, fighter, pending, defences, seen, wounds, fell, deaths>>

\* A hit that lands as it is made, and one that flies first, the further the longer.
submit_hit(source, target) == submit_damage_request(source, target, 0)
launch_lock_missile(source, target) ==
    \E flight \in Flights : submit_damage_request(source, target, now + flight)

action_overlaps_hit(action, hit) == action.at <= hit.hitAt /\ hit.hitAt <= action.at + Window
parry_reduced_damage(amount) == IF amount = 0 THEN 0 ELSE (amount + 1) \div 2

Answers(hit, type, actions) ==
    \E a \in actions : a.who = hit.target /\ a.type = type /\ action_overlaps_hit(a, hit)

\* A dodge undoes a hit; a parry halves it, once.
apply_defensive_actions(hit, actions) ==
    CASE hit.canceled -> hit
      [] Answers(hit, "dodge", actions) -> [hit EXCEPT !.canceled = TRUE]
      [] ~hit.parried /\ Answers(hit, "parry", actions) ->
            [hit EXCEPT !.amount = parry_reduced_damage(@), !.parried = TRUE]
      [] OTHER -> hit
Defended(hits, actions) ==
    [i \in DOMAIN hits |-> apply_defensive_actions(hits[i], actions)]

\* Faulty variant: an action is forgotten once it is over for the present.
prune_defensive_actions_now(actions) == {a \in actions : a.at >= now}
prune_defensive_actions(actions) == {a \in actions : a.at + Window >= now}

\* A player's input arrives with the time it was made, now or a little ago.
ingest_defensive_input(p, type) ==
    /\ Cardinality(seen) < MaxDefences /\ now < DamageTicks
    /\ \E at \in {now, now - 1} \cap Nat :
          LET actions == defences \cup {[who |-> p, type |-> type, at |-> at]}
          IN /\ pending' = Defended(pending, actions)
             /\ defences' = prune_defensive_actions(actions)
             /\ seen' = seen \cup {[who |-> p, type |-> type, at |-> at, heard |-> now]}
    /\ UNCHANGED <<now, fighter, queued, wounds, fell, deaths, made>>

(***************************************************************************)
(* The end of a tick.                                                      *)
(***************************************************************************)

Pending(request) ==
    [id |-> request.id, source |-> request.source, target |-> request.target,
     amount |-> request.amount, tick |-> request.tick, hitAt |-> request.hitAt,
     due |-> request.due,
     confirm |-> IF request.source \in Foes /\ request.target \in Fighters
                 THEN request.hitAt + Grace ELSE request.hitAt,
     canceled |-> FALSE, parried |-> FALSE]

\* What is pending once the queue has joined it.
AllPending ==
    LET present == SelectSeq(queued, LAMBDA r : fighter[r.target].here)
    IN Defended(pending \o [i \in DOMAIN present |-> Pending(present[i])], defences)

Waiting(hit) == IF hit.due # 0 THEN now < hit.due ELSE now < hit.confirm

\* Hits are applied in the order they were submitted, whenever they happened.
InOrder(hits) == SetToSortSeq(Range(hits), LAMBDA h, k :
                    h.tick < k.tick \/ (h.tick = k.tick /\ h.id < k.id))

\* The meter fills with hits and drains while there are none.
apply_stagger(body, amount) ==
    LET idle == now - body.hit
        meter == amount + (IF body.meter > 0 /\ idle > DecayDelay
                           THEN Max({0, body.meter - (idle - DecayDelay)}) ELSE body.meter)
    IN CASE body.hp = 0 \/ now < body.until \/ now < body.steady -> body
         [] meter < Threshold -> [body EXCEPT !.meter = meter, !.hit = now]
         [] OTHER -> [body EXCEPT !.meter = 0, !.hit = now, !.until = now + 1 + StaggerTicks,
                                  !.steady = now + 1 + StaggerTicks + SteadyTicks]

\* The dead, the sheltered and the invulnerable are not hurt.
Hurts(bodies, hit) ==
    LET body == bodies[hit.target]
    IN body.here /\ body.hp # 0 /\ now >= body.immune /\ ~body.sheltered

apply_damage_applications(bodies, hits) ==
    FoldLeft(LAMBDA acc, hit :
                IF ~Hurts(acc.bodies, hit) THEN acc
                ELSE [bodies |-> [acc.bodies EXCEPT ![hit.target] =
                                    apply_stagger([@ EXCEPT !.hp = Max({0, @ - hit.amount})],
                                                  hit.amount)],
                      applied |-> acc.applied \cup {hit}],
             [bodies |-> bodies, applied |-> {}], hits)

\* Whoever is below the height at which the world ends dies at once.
reclaim_fallen_entities(bodies, fallen) ==
    [e \in Everybody |-> IF e \in fallen /\ bodies[e].here THEN [bodies[e] EXCEPT !.hp = 0]
                         ELSE bodies[e]]

\* Their graphs run: an explosion hits everybody else, from the next tick on.
process_health_depleted(depleted) ==
    LET blasts == {<<s, t>> \in (depleted \cap Explodes) \X Everybody : s # t}
        order == SetToSortSeq(blasts, LAMBDA b, c :
                    b[1] < c[1] \/ (b[1] = c[1] /\ b[2] < c[2]))
    IN [i \in DOMAIN order |-> DamageRequest(0, order[i][1], order[i][2], 1, 0)]

\* Faulty variant: only what is still queued is called off.
cancel_pending_queued_only(hits, dead) == hits
\* The hits that were on their way to the dead are called off.
cancel_pending_for_target(hits, dead) ==
    [i \in DOMAIN hits |-> IF hits[i].target \in dead THEN [hits[i] EXCEPT !.canceled = TRUE]
                           ELSE hits[i]]

\* Of those whose health is gone, whom no graph of theirs has healed are dead.
\* What they were doing ends; agents go.
enter_death_state(bodies, dead) ==
    [e \in Everybody |->
       CASE e \notin dead -> bodies[e]
         [] OTHER -> [bodies[e] EXCEPT !.meter = 0, !.hit = 0, !.until = 0, !.steady = 0,
                                       !.here = e \in Fighters]]

Resolved(hits, done, fallen) ==
    LET bodies == reclaim_fallen_entities(done.bodies, fallen)
        depleted == {e \in Everybody : bodies[e].hp = 0 /\ fighter[e].hp # 0}
    IN /\ \E healed \in SUBSET (depleted \cap Mends) :
            LET dead == depleted \ healed
                mended == [e \in Everybody |-> IF e \in healed THEN [bodies[e] EXCEPT !.hp = 1]
                                               ELSE bodies[e]]
            IN /\ pending' = cancel_pending_for_target(SelectSeq(hits, Waiting), dead)
               /\ queued' = SelectSeq(process_health_depleted(depleted),
                                      LAMBDA r : r.target \notin dead)
               /\ fighter' = enter_death_state(mended, dead)
               /\ fell' = [e \in Everybody |-> IF e \in dead THEN now ELSE fell[e]]
               /\ deaths' = [e \in Everybody |-> deaths[e] + (IF e \in dead THEN 1 ELSE 0)]
       /\ wounds' = {[hit |-> h, when |-> now, fell |-> fell[h.target]] : h \in done.applied}

drain_ready_damage ==
    /\ now < DamageTicks /\ now' = now + 1
    /\ \E fallen \in {{}} \cup {{e} : e \in Everybody} :
          Resolved(AllPending,
                   apply_damage_applications(fighter, InOrder(SelectSeq(AllPending,
                      LAMBDA h : ~Waiting(h) /\ ~h.canceled /\ h.amount # 0))),
                   fallen)
    /\ defences' = prune_defensive_actions(defences)
    /\ UNCHANGED <<seen, made>>

(***************************************************************************)
(* Between ticks.                                                          *)
(***************************************************************************)

\* It stands up, with its health and for a while safe from harm.
StandUp(e) ==
    /\ fighter[e].here /\ fighter[e].hp = 0 /\ now < DamageTicks
    /\ fighter' = [fighter EXCEPT ![e].hp = FullHealth, ![e].immune = now + Immune,
                                  ![e].meter = 0, ![e].hit = 0, ![e].until = 0, ![e].steady = 0]
    /\ deaths' = [deaths EXCEPT ![e] = 0]
    /\ UNCHANGED <<now, queued, pending, defences, seen, wounds, fell, made>>

GoUnderCover(e) ==
    /\ fighter[e].here /\ now < DamageTicks /\ (fighter[e].sheltered \/ fighter[e].hp # 0)
    /\ fighter' = [fighter EXCEPT ![e].sheltered = ~@]
    /\ UNCHANGED <<now, queued, pending, defences, seen, wounds, fell, deaths, made>>

DamageNext ==
    \/ \E source, target \in Everybody :
          submit_hit(source, target) \/ launch_lock_missile(source, target)
    \/ \E p \in Fighters, type \in {"dodge", "parry"} : ingest_defensive_input(p, type)
    \/ drain_ready_damage
    \/ \E e \in Fighters : StandUp(e) \/ GoUnderCover(e)

DamageSpec == DamageInit /\ [][DamageNext]_damageVars

(***************************************************************************)
(* Properties.                                                             *)
(***************************************************************************)

DamageTypeOK ==
    /\ now \in 0..DamageTicks /\ made \in 0..MaxHits
    /\ \A e \in Everybody : fighter[e].hp \in 0..FullHealth
    /\ \A h \in Range(pending) : h.tick <= now /\ h.hitAt - h.tick \in Flights \cup {0}

\* What had been heard of a player's defences when a hit was judged.  The grace
\* period is long enough for all of them; other hits are judged as they land.
HeardFor(w) ==
    IF w.hit.source \in Foes /\ w.hit.due = 0 THEN seen ELSE {a \in seen : a.heard <= w.when}

\* When a hit lands, whatever it says of itself.
Landing(hit) == [hit EXCEPT !.hitAt = IF hit.due # 0 THEN hit.due ELSE hit.tick]

\* No hit wounds a player who dodged it in time, whenever within the grace
\* period the dodge came in, and a parry that came in time has halved it (except
\* for what a graph does after the hits of a tick were drained: it waits in the
\* queue, and the dodge may be forgotten first).  No hit wounds before it lands,
\* or twice, and none launched before a death wounds the one who stood up from
\* it.  And a body dies once until it stands up: the dead are announced, and
\* agents among them gone.
WoundsAreFair ==
    /\ \A w \in wounds :
          /\ Landing(w.hit).hitAt <= w.when /\ w.hit.tick > w.fell
          /\ w.hit.id # 0 =>
                /\ ~Answers(Landing(w.hit), "dodge", HeardFor(w))
                /\ Answers(Landing(w.hit), "parry", HeardFor(w)) => w.hit.parried
                /\ \A h \in Range(pending) \cup Range(queued) : h.id # w.hit.id
    /\ \A e \in Everybody : /\ deaths[e] = IF fighter[e].hp = 0 THEN 1 ELSE 0
                            /\ fighter[e].here \/ e \in Foes
                            /\ fighter[e].here \/ fighter[e].hp = 0
=============================================================================
