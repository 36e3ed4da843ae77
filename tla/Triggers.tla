------------------------------- MODULE Triggers -------------------------------
(***************************************************************************)
(* What starts a graph in the world: an actor that enters, stays in or     *)
(* leaves a trigger volume, and a thrown prop that hits somebody or comes  *)
(* to rest.  Each is a pass of the server's tick that compares what the    *)
(* physics reports with what it found a tick ago, orders the events, and   *)
(* hands them to the dispatcher.                                           *)
(*                                                                         *)
(* Where things are is what the physics says: any actor may be found in    *)
(* any volume, and a prop in flight may touch any actor.                   *)
(***************************************************************************)
EXTENDS GraphExecution

CONSTANTS
    Volumes, Walkers, Missiles,     \* net ids
    Players,                        \* the walkers that are players
    VolumeOf,                       \* volume -> what its template says
    HitGraph,                       \* missile -> its on_collision graph
    TriggerTicks                    \* bound: ticks of the server

ASSUME TriggersAssumption == Players \subseteq Walkers /\ TriggerTicks \in Nat

VARIABLES
    clock,
    walker,     \* walker -> [here, alive, sheltered, until]
    inside,     \* volume -> who was found in it at the last tick
    mode,       \* missile -> "in_flight" or "placed"
    pairs,      \* active_prop_collision_pairs_
    holds,      \* volume -> walker -> enters run less exits run
    contacts    \* missile -> walker -> contacts run less contacts begun

triggerVars == <<clock, walker, inside, mode, pairs, holds, contacts>>

TriggerInit ==
    /\ clock = 0
    /\ walker = [a \in Walkers |->
                    [here |-> TRUE, alive |-> TRUE, sheltered |-> FALSE, until |-> 0]]
    /\ inside = [v \in Volumes |-> {}]
    /\ mode = [m \in Missiles |-> "in_flight"] /\ pairs = {}
    /\ holds = [v \in Volumes |-> [a \in Walkers |-> 0]]
    /\ contacts = [m \in Missiles |-> [a \in Walkers |-> 0]]

\* Between ticks an actor takes shelter or comes out, dies or stands up again,
\* or is destroyed.
Change(a) ==
    /\ walker[a].here /\ clock < TriggerTicks /\ clock % 2 = 0
    /\ \/ walker' = [walker EXCEPT ![a].sheltered = ~@]
       \/ walker' = [walker EXCEPT ![a].alive = ~@]
       \/ walker' = [walker EXCEPT ![a].here = FALSE]
    /\ UNCHANGED <<clock, inside, mode, pairs, holds, contacts>>

(***************************************************************************)
(* The dispatcher: events in the order of their subjects, and within a     *)
(* subject in the order they were queued.  One graph that cannot be        *)
(* evaluated and nothing at all is carried out.                            *)
(***************************************************************************)

Event(type, subject, instigator, target, graph) ==
    [type |-> type, subject |-> subject, instigator |-> instigator, target |-> target,
     graph |-> graph]

dispatch_action_graph_triggers(queued) ==
    LET order == SetToSortSeq(DOMAIN queued, LAMBDA i, j :
                    \/ queued[i].subject < queued[j].subject
                    \/ queued[i].subject = queued[j].subject /\ i < j)
    IN IF \E i \in DOMAIN queued :
             evaluate_action_graph(queued[i].graph, queued[i]) = CannotEvaluate
       THEN <<>> ELSE [i \in DOMAIN order |-> queued[order[i]]]

(***************************************************************************)
(* Trigger volumes.                                                        *)
(***************************************************************************)

\* The dead and the sheltered never count, and no portal takes an arrival.
qualifies(v, a) ==
    /\ walker[a].here /\ walker[a].alive /\ ~walker[a].sheltered
    /\ VolumeOf[v].playersOnly => a \in Players
    /\ VolumeOf[v].portal => clock >= walker[a].until

\* `at' is where the physics finds the actors.
Found(at, v) == {a \in Walkers : v \in at[a] /\ qualifies(v, a)}

\* Faulty variant: one who no longer qualifies where it stands is not seen to
\* leave.
LeftOnFoot(at, v) == {a \in inside[v] : walker[a].here /\ v \notin at[a]}
Left(at, v) == {a \in inside[v] \ Found(at, v) : walker[a].here}

FactsOf(at, v) ==
    LET Fact(type, a) == Event(type, v, a, a, VolumeOf[v][type])
    IN {Fact("exit", a) : a \in Left(at, v)}
         \cup {Fact("enter", a) : a \in Found(at, v) \ inside[v]}
         \cup {Fact("overlap", a) : a \in Found(at, v) \cap inside[v]}

Rank == [exit |-> 0, enter |-> 1, overlap |-> 2]
Queued(at) ==
    SetToSortSeq({f \in UNION {FactsOf(at, v) : v \in Volumes} : f.graph # <<>>},
                 LAMBDA f, g :
                    \/ Rank[f.type] < Rank[g.type]
                    \/ f.type = g.type /\ f.subject < g.subject
                    \/ f.type = g.type /\ f.subject = g.subject /\ f.target < g.target)

\* A portal's graph moves the actor and gives it a while to walk away.
teleport_through_portal(batches) ==
    [a \in Walkers |->
       LET through == {i \in DOMAIN batches : batches[i].target = a
                         /\ \E j \in DOMAIN batches[i].graph :
                               batches[i].graph[j].type = "teleport"}
           last == CHOOSE i \in through : \A j \in through : j <= i
       IN IF through = {} \/ ~walker[a].alive \/ walker[a].sheltered THEN walker[a]
          ELSE [walker[a] EXCEPT !.until = clock + VolumeOf[batches[last].subject].grace]]

Ran(batches, type, subject, a) ==
    Cardinality({i \in DOMAIN batches : batches[i].type = type
                   /\ batches[i].subject = subject /\ batches[i].target = a})

HasGraph(v) == VolumeOf[v].enter # <<>> \/ VolumeOf[v].exit # <<>> \/ VolumeOf[v].overlap # <<>>

update_overlaps(at, batches) ==
    /\ inside' = [v \in Volumes |-> IF HasGraph(v) THEN Found(at, v) ELSE inside[v]]
    /\ walker' = teleport_through_portal(batches)
    /\ holds' = [v \in Volumes |-> [a \in Walkers |->
                   IF walker[a].here
                   THEN holds[v][a] + Ran(batches, "enter", v, a) - Ran(batches, "exit", v, a)
                   ELSE 0]]

(***************************************************************************)
(* Thrown props.                                                           *)
(***************************************************************************)

Flying == {m \in Missiles : mode[m] = "in_flight"}

\* `touches' are the pairs of a prop and an actor the physics reports.
Touching(touches) == {p \in touches : p[1] \in Flying /\ walker[p[2]].here}

\* Faulty variant: a contact counts anew in every tick it lasts.
ContactsAlways(touches) == Touching(touches)
Contacts(touches) == Touching(touches) \ pairs

\* The ones that come to rest have hit something that is nobody.
Hits(touches, landing) ==
    SetToSortSeq(
       {Event("collision", p[1], Nobody, p[2], HitGraph[p[1]]) : p \in Contacts(touches)}
         \cup {Event("collision", m, Nobody, Nobody, HitGraph[m]) : m \in landing},
       LAMBDA f, g : f.subject < g.subject \/ (f.subject = g.subject /\ f.target < g.target))

update_collisions(touches, landing, batches) ==
    /\ pairs' = Touching(touches)
    /\ mode' = [m \in Missiles |-> IF m \in landing THEN "placed" ELSE mode[m]]
    /\ contacts' = [m \in Missiles |-> [a \in Walkers |->
                      contacts[m][a] + Ran(batches, "collision", m, a)
                        - (IF <<m, a>> \in Touching(touches) \ pairs THEN 1 ELSE 0)]]

(***************************************************************************)
(* A tick: first what was thrown, then the volumes.  The clock counts      *)
(* both.                                                                   *)
(***************************************************************************)

TriggerCollisions ==
    /\ clock < TriggerTicks /\ clock % 2 = 0 /\ clock' = clock + 1
    /\ \E touches \in SUBSET (Missiles \X Walkers), landing \in SUBSET Flying :
          update_collisions(touches, landing,
                            dispatch_action_graph_triggers(Hits(touches, landing)))
    /\ UNCHANGED <<walker, inside, holds>>

TriggerOverlaps ==
    /\ clock % 2 = 1 /\ clock' = clock + 1
    /\ \E at \in [Walkers -> SUBSET Volumes] :
          update_overlaps(at, dispatch_action_graph_triggers(Queued(at)))
    /\ UNCHANGED <<mode, pairs, contacts>>

TriggerNext ==
    \/ \E a \in Walkers : Change(a)
    \/ TriggerCollisions
    \/ TriggerOverlaps

TriggerSpec == TriggerInit /\ [][TriggerNext]_triggerVars

(***************************************************************************)
(* Properties.                                                             *)
(***************************************************************************)

TriggerTypeOK ==
    /\ clock \in 0..(TriggerTicks + 1)
    /\ \A v \in Volumes : inside[v] \subseteq Walkers
    /\ pairs \subseteq Missiles \X Walkers

Whole(v) == VolumeOf[v].enter # <<>> /\ VolumeOf[v].exit # <<>>

\* What a volume hands out as one enters it takes back as one leaves, in
\* whatever way one leaves: on foot, into shelter, by dying or through a portal.
\* Who holds it is who is inside, and nobody holds it twice.  And a thrown prop
\* runs its graph once for a contact that lasts, at most: it may be lost, with
\* all others of its tick, when one of them cannot be evaluated.
TriggersPair ==
    /\ \A v \in Volumes : Whole(v) =>
          \A a \in Walkers : walker[a].here =>
             holds[v][a] = IF a \in inside[v] THEN 1 ELSE 0
    /\ \A m \in Missiles, a \in Walkers : contacts[m][a] <= 0
=============================================================================
