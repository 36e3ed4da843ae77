------------------------------ MODULE Lifecycle ------------------------------
(***************************************************************************)
(* How entities come and go on the server: props with a lifetime, groups   *)
(* of props of which only so many may exist, portals that bring an exit of *)
(* their own, buildings that actors shelter in, and the graphs that run as *)
(* something is destroyed and create more.                                 *)
(*                                                                         *)
(* Creating and destroying call each other: the realm they work on is a    *)
(* record, and an operation of the server is one application of them.      *)
(***************************************************************************)
EXTENDS Integers, Sequences, FiniteSets, SequencesExt

CONSTANTS
    EntityTemplates,    \* name -> what the template says, see Made
    PopulationRules,    \* group -> [max, runs]: max_alive, cleanup_runs_on_destroy
    DefaultSeats,       \* KERNEL_SHELTER_CAPACITY
    LifeTicks, MaxMade  \* bounds: ticks, and operations that create

ASSUME LifecycleAssumption ==
    /\ DefaultSeats \in Nat \ {0} /\ LifeTicks \in Nat /\ MaxMade \in Nat

VARIABLES
    realm,      \* [ent, next, tick]: the entities by id, the next id, the tick
    asked       \* operations that create, so far

lifeVars == <<realm, asked>>

None == 0
Template(w, id) == EntityTemplates[w.ent[id].template]
IsProp(w, id) == Template(w, id).type = "prop"

\* What is there of an entity as it is made.
Made(name, tick, portal) ==
    [template |-> name, born |-> tick, life |-> EntityTemplates[name].life, exit |-> None,
     portal |-> portal, alive |-> TRUE, lock |-> "none", shelter |-> None, seat |-> 0,
     mask |-> EntityTemplates[name].mask, prior |-> "none"]

LifeInit ==
    /\ realm = [ent |-> [id \in {} |-> None], next |-> 1, tick |-> 0]
    /\ asked = 0

(***************************************************************************)
(* Shelter.                                                                *)
(***************************************************************************)

\* Out again, in the state of movement one went in with.
leave_shelter(w, a) ==
    [w EXCEPT !.ent[a].shelter = None, !.ent[a].seat = 0, !.ent[a].mask = w.ent[a].prior,
              !.ent[a].prior = "none"]

\* Faulty variant: only who came first is seen.
FirstOccupant(w, s) == {a \in DOMAIN w.ent : w.ent[a].shelter = s /\ w.ent[a].seat = 0}
Occupants(w, s) == {a \in DOMAIN w.ent : w.ent[a].shelter = s}

Seats(w, s) ==
    IF Template(w, s).seats # 0 THEN Template(w, s).seats ELSE DefaultSeats
FreeSeats(w, s) == (0..(Seats(w, s) - 1)) \ {w.ent[a].seat : a \in Occupants(w, s)}

take_shelter(w, a, s) ==
    LET seat == CHOOSE n \in FreeSeats(w, s) : \A m \in FreeSeats(w, s) : n <= m
    IN [w EXCEPT !.ent[a].shelter = s, !.ent[a].seat = seat,
                 !.ent[a].prior = w.ent[a].mask, !.ent[a].mask = "terrain"]

(***************************************************************************)
(* Create and destroy.                                                     *)
(***************************************************************************)

RECURSIVE create(_, _, _), destroy(_, _, _)

GroupOf(w, id) == Template(w, id).group
InGroup(w, group) == {id \in DOMAIN w.ent : GroupOf(w, id) = group}

\* Whom a group can spare first: the least important, of those the oldest.
Candidates(w, group, spawned) ==
    SetToSortSeq(InGroup(w, group) \ {spawned}, LAMBDA i, j :
       LET p == Template(w, i).importance
           q == Template(w, j).importance
       IN \/ p < q
          \/ p = q /\ w.ent[i].born < w.ent[j].born
          \/ p = q /\ w.ent[i].born = w.ent[j].born /\ i < j)

\* Faulty variant: the new one is not counted.
SurplusBefore(w, group) == Cardinality(InGroup(w, group)) - PopulationRules[group].max - 1
Surplus(w, group) == Cardinality(InGroup(w, group)) - PopulationRules[group].max

cleanup_runs_on_destroy(group) ==
    group \in DOMAIN PopulationRules /\ PopulationRules[group].runs

enforce_prop_population_limit(w, group, spawned) ==
    IF group \notin DOMAIN PopulationRules THEN w
    ELSE LET candidates == Candidates(w, group, spawned)
         IN FoldLeft(LAMBDA v, id : destroy(v, id, cleanup_runs_on_destroy(group)), w,
                     SubSeq(candidates, 1, Min({Len(candidates), Surplus(w, group)})))

\* The group makes room, then the exit is built; the link is made if the
\* portal is there still.
Linked(w, id, exit) == IF id \in DOMAIN w.ent THEN [w EXCEPT !.ent[id].exit = exit] ELSE w
Opened(w, id, name) ==
    IF EntityTemplates[name].exit = "none" THEN w
    ELSE Linked(create(w, EntityTemplates[name].exit, id), id, w.next)

create(w, name, portal) ==
    LET id == w.next
        made == [w EXCEPT !.next = @ + 1,
                          !.ent = [i \in DOMAIN @ \cup {id} |->
                                     IF i = id THEN Made(name, w.tick, portal) ELSE @[i]]]
    IN Opened(enforce_prop_population_limit(made, EntityTemplates[name].group, id), id, name)

\* What its graph creates, once it is gone.
Remains(w, id, graph) ==
    FoldLeft(LAMBDA v, name : create(v, name, None),
             [w EXCEPT !.ent = [i \in DOMAIN @ \ {id} |-> @[i]]],
             IF graph THEN Template(w, id).leaves ELSE <<>>)

\* The occupants come out while the building stands, and a portal takes its
\* exit along.  What the exit's graph does may be the end of the portal itself.
destroy(w, id, graph) ==
    IF id \notin DOMAIN w.ent THEN w
    ELSE LET out == FoldLeft(leave_shelter, w, SetToSortSeq(Occupants(w, id), <))
             closed == destroy(out, w.ent[id].exit, graph)
         IN IF id \in DOMAIN closed.ent THEN Remains(closed, id, graph) ELSE closed

(***************************************************************************)
(* Operations.                                                             *)
(***************************************************************************)

Things == DOMAIN realm.ent
Actors == {id \in Things : ~IsProp(realm, id)}

create_entity(name) ==
    /\ asked < MaxMade /\ asked' = asked + 1
    /\ realm' = create(realm, name, None)

destroy_entity(id) ==
    /\ realm' = destroy(realm, id, TRUE)
    /\ UNCHANGED asked

\* A tick: lifetimes run out, and who has come down or run out of way is free.
update_prop_lifetimes ==
    LET lived == [realm EXCEPT !.tick = @ + 1,
                    !.ent = [id \in Things |->
                               [@[id] EXCEPT !.life = IF @ = 0 THEN 0 ELSE @ - 1,
                                             !.lock = "none"]]]
        expired == {id \in Things : realm.ent[id].life = 1}
    IN /\ realm.tick < LifeTicks
       /\ realm' = FoldLeft(LAMBDA w, id :
                               destroy(w, id, cleanup_runs_on_destroy(GroupOf(realm, id))),
                            lived, SetToSortSeq(expired, <))
       /\ UNCHANGED asked

CanGoIn(a, s) ==
    /\ realm.ent[a].shelter = None /\ realm.ent[a].alive /\ realm.ent[a].lock = "none"
    /\ IsProp(realm, s) /\ FreeSeats(realm, s) # {}

set_shelter(a, s) ==
    /\ IF s = None THEN realm.ent[a].shelter # None /\ realm' = leave_shelter(realm, a)
       ELSE s \in Things /\ CanGoIn(a, s) /\ realm' = take_shelter(realm, a, s)
    /\ UNCHANGED asked

\* An agent leaps or charges: not from a shelter, not while it does already.
StartsFrom(a) ==
    /\ Template(realm, a).type = "agent"
    /\ realm.ent[a].shelter = None /\ realm.ent[a].lock = "none" /\ realm.ent[a].alive
start_leap(a) ==
    /\ StartsFrom(a)
    /\ realm' = [realm EXCEPT !.ent[a].lock = "leap"] /\ UNCHANGED asked
start_charge(a) ==
    /\ StartsFrom(a)
    /\ realm' = [realm EXCEPT !.ent[a].lock = "charge"] /\ UNCHANGED asked

\* Death: a player lies where it is, an agent is gone, with its graph run.
Die(a) ==
    LET w == [realm EXCEPT !.ent[a].alive = FALSE, !.ent[a].lock = "none"]
    IN /\ realm.ent[a].alive
       /\ realm' = IF Template(realm, a).type = "player" THEN w ELSE destroy(w, a, TRUE)
       /\ UNCHANGED asked

StandUpAgain(a) ==
    /\ ~realm.ent[a].alive
    /\ realm' = [realm EXCEPT !.ent[a].alive = TRUE, !.ent[a].lock = "none"]
    /\ UNCHANGED asked

\* The actor takes the movement of another template.
set_actor_template(a, name) ==
    /\ EntityTemplates[name].type # "prop"
    /\ realm' = [realm EXCEPT !.ent[a].mask = EntityTemplates[name].mask]
    /\ UNCHANGED asked

LifeNext ==
    \/ \E name \in DOMAIN EntityTemplates : create_entity(name)
    \/ \E id \in Things : destroy_entity(id)
    \/ update_prop_lifetimes
    \/ \E a \in Actors, s \in Things \cup {None} : set_shelter(a, s)
    \/ \E a \in Actors : start_leap(a) \/ start_charge(a) \/ Die(a) \/ StandUpAgain(a)
    \/ \E a \in Actors, name \in DOMAIN EntityTemplates : set_actor_template(a, name)

LifeSpec == LifeInit /\ [][LifeNext]_lifeVars

(***************************************************************************)
(* Properties.                                                             *)
(***************************************************************************)

LifeTypeOK ==
    /\ realm.tick \in 0..LifeTicks /\ asked \in 0..MaxMade
    /\ \A id \in Things : realm.ent[id].lock \in {"none", "leap", "charge"}
    /\ Things \subseteq 1..(realm.next - 1)

\* However things are made and end, by hand, by age, by eviction or by the
\* graphs of others that end with them: who is in a shelter is in one that
\* stands, on a seat of its own, and not in the middle of a leap, and who is in
\* none can move in the world; an exit never outlives its portal; and a group
\* never has more than it may.
LifecycleHolds ==
    /\ \A a \in Actors : realm.ent[a].shelter # None =>
          LET s == realm.ent[a].shelter
          IN /\ s \in Things /\ IsProp(realm, s)
             /\ realm.ent[a].seat < Seats(realm, s) /\ realm.ent[a].lock = "none"
             /\ \A b \in Occupants(realm, s) \ {a} : realm.ent[b].seat # realm.ent[a].seat
    /\ \A a \in Actors : realm.ent[a].shelter = None => realm.ent[a].mask # "terrain"
    /\ \A id \in Things : realm.ent[id].portal # None => realm.ent[id].portal \in Things
    /\ \A group \in DOMAIN PopulationRules :
          Cardinality(InGroup(realm, group)) <= PopulationRules[group].max
=============================================================================
