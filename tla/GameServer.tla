------------------------------ MODULE GameServer ------------------------------
(***************************************************************************)
(* The rules of the game around the kernel: players who die come back      *)
(* while the team has revives left, buildings are entered and left through *)
(* their screens, loadouts are picked inside camps, and a mission is a     *)
(* graph of fights.  The game server knows the players by the kernel's     *)
(* events alone, and takes only so many of them in one turn of its loop.   *)
(***************************************************************************)
EXTENDS Integers, Sequences, FiniteSets, SequencesExt

CONSTANTS
    Newcomers,          \* the players, each of whom may join once
    Camps,              \* the buildings with a loadout
    TeamRevives,        \* team_revive_times; below 0 there is no end of them
    RespawnDelay,       \* delay_seconds, in turns of the loop
    PollBatch,          \* events taken in a turn
    Mission,            \* its nodes: [next, waits, count, wave]
    MissionInterval,    \* tick_interval
    Loops, MaxDeeds     \* bounds: turns; leaves, losses and screens together

ASSUME GameServerAssumption == PollBatch \in Nat \ {0} /\ MissionInterval \in Nat \ {0}

VARIABLES
    kern,       \* the kernel: who is here, alive, inside what; camps; foes; commands
    events,     \* the kernel's events, not polled yet
    mail,       \* loadouts selected, not read yet
    server,     \* the game server's directors
    quest,      \* the mission
    chances     \* how much has happened, and the revives so far

serverVars == <<kern, events, mail, server, quest, chances>>

Outside == 0
Nodes == 1..Len(Mission)
Before(n) == {m \in Nodes : n \in Mission[m].next}
OfKindEvent(type, who, what) == [type |-> type, who |-> who, what |-> what]

ServerInit ==
    /\ kern = [alive |-> [p \in {} |-> TRUE], inside |-> [p \in {} |-> Outside], camps |-> Camps,
               foes |-> {}, made |-> 0, orders |-> <<>>, came |-> {}]
    /\ events = <<>> /\ mail = <<>>
    /\ server = [players |-> {}, died |-> {}, due |-> [p \in {} |-> 0], remaining |-> TeamRevives,
                 deaths |-> 0, now |-> 0, inside |-> [p \in {} |-> Outside],
                 loadouts |-> [p \in {} |-> 0]]
    /\ quest = [state |-> [n \in Nodes |-> "inactive"], members |-> [n \in Nodes |-> {}],
                failed |-> {}, status |-> "running", left |-> 0, initialized |-> FALSE]
    /\ chances = [deeds |-> 0, revived |-> 0]

Present == DOMAIN kern.alive
Minus(f, p) == [q \in DOMAIN f \ {p} |-> f[q]]
Set(f, p, v) == [q \in DOMAIN f \cup {p} |-> IF q = p THEN v ELSE f[q]]

(***************************************************************************)
(* What happens in the kernel.                                             *)
(***************************************************************************)

Join(p) ==
    /\ p \notin kern.came
    /\ kern' = [kern EXCEPT !.came = @ \cup {p}, !.alive = Set(@, p, TRUE),
                            !.inside = Set(@, p, Outside)]
    /\ events' = Append(events, OfKindEvent("joined", p, 0))
    /\ UNCHANGED <<mail, server, quest, chances>>

\* The player is gone at once; both events say so.
Leave(p) ==
    /\ p \in Present /\ chances.deeds < MaxDeeds
    /\ kern' = [kern EXCEPT !.alive = Minus(@, p), !.inside = Minus(@, p)]
    /\ events' = events \o <<OfKindEvent("left", p, 0), OfKindEvent("destroyed", p, 0)>>
    /\ chances' = [chances EXCEPT !.deeds = @ + 1]
    /\ UNCHANGED <<mail, server, quest>>

Fall(p) ==
    /\ p \in Present /\ kern.alive[p] /\ chances.deeds < MaxDeeds
    /\ kern' = [kern EXCEPT !.alive[p] = FALSE]
    /\ events' = Append(events, OfKindEvent("died", p, 0))
    /\ chances' = [chances EXCEPT !.deeds = @ + 1]
    /\ UNCHANGED <<mail, server, quest>>

\* Who is inside comes out while the building stands.
CampFalls(c) ==
    LET out == SetToSortSeq({p \in Present : kern.inside[p] = c}, <)
    IN /\ c \in kern.camps /\ chances.deeds < MaxDeeds
       /\ kern' = [kern EXCEPT !.camps = @ \ {c},
                     !.inside = [p \in Present |-> IF @[p] = c THEN Outside ELSE @[p]]]
       /\ events' = events \o [n \in 1..Len(out) |-> OfKindEvent("shelter", out[n], Outside)]
                           \o <<OfKindEvent("destroyed", c, 0)>>
       /\ chances' = [chances EXCEPT !.deeds = @ + 1]
       /\ UNCHANGED <<mail, server, quest>>

FoeFalls(f) ==
    /\ f \in kern.foes /\ chances.deeds < MaxDeeds
    /\ kern' = [kern EXCEPT !.foes = @ \ {f}]
    /\ chances' = [chances EXCEPT !.deeds = @ + 1]
    /\ UNCHANGED <<events, mail, server, quest>>

\* A player opens the screen of a building, or sends what it picked there.
OpenUi(p, c) ==
    /\ p \in Present /\ kern.alive[p] /\ c \in kern.camps /\ chances.deeds < MaxDeeds
    /\ events' = Append(events, OfKindEvent("ui", p, c))
    /\ chances' = [chances EXCEPT !.deeds = @ + 1]
    /\ UNCHANGED <<kern, mail, server, quest>>

Select(p, c, pick) ==
    /\ p \in Present /\ chances.deeds < MaxDeeds
    /\ mail' = Append(mail, [who |-> p, camp |-> c, pick |-> pick])
    /\ chances' = [chances EXCEPT !.deeds = @ + 1]
    /\ UNCHANGED <<kern, events, server, quest>>

\* The shelter commands, in the order they were given: in if outside and alive,
\* out if inside.
Ordered(w, order) ==
    LET p == order.who
        allowed == IF order.camp = Outside THEN w.k.inside[p] # Outside
                   ELSE w.k.inside[p] = Outside /\ w.k.alive[p] /\ order.camp \in w.k.camps
    IN IF p \in DOMAIN w.k.alive /\ allowed
       THEN [w EXCEPT !.k.inside[p] = order.camp,
                      !.e = Append(@, OfKindEvent("shelter", p, order.camp))]
       ELSE w
Commanded(k, e) ==
    FoldLeft(Ordered, [k |-> [k EXCEPT !.orders = <<>>], e |-> e], k.orders)

(***************************************************************************)
(* Events.                                                                 *)
(***************************************************************************)

\* Faulty variant: a death just reported is still waited for.
on_player_left_waiting(g, p) == [g EXCEPT !.due = Minus(@, p)]
on_player_left(g, p) == [g EXCEPT !.due = Minus(@, p), !.died = @ \ {p}]

joins_dead(g) == g.remaining = 0 /\ g.deaths # 0

ShelterOf(g, p) == IF p \in DOMAIN g.inside THEN g.inside[p] ELSE Outside

\* The screen of the building one is in leads out, that of another one in,
\* and from inside one building nowhere.
Asked(w, p, c) ==
    LET inside == ShelterOf(w.g, p)
        order(camp) == [w EXCEPT !.k.orders = Append(@, [who |-> p, camp |-> camp])]
    IN IF inside = c THEN order(Outside) ELSE IF inside = Outside THEN order(c) ELSE w

HeardShelter(w, p, c) ==
    [w EXCEPT !.g.inside = IF c = Outside THEN Minus(@, p) ELSE Set(@, p, c)]

handle_event(w, event) ==
    LET p == event.who
    IN CASE event.type = "joined" ->
              [w EXCEPT !.g.players = @ \cup {p},
                        !.k.alive = IF joins_dead(w.g) /\ p \in DOMAIN @
                                    THEN [@ EXCEPT ![p] = FALSE] ELSE @]
         [] event.type = "left" ->
              [w EXCEPT !.g = [on_player_left(w.g, p) EXCEPT
                                 !.players = @ \ {p}, !.inside = Minus(@, p),
                                 !.loadouts = Minus(@, p)]]
         [] event.type = "died" ->
              [w EXCEPT !.g.died = IF p \in w.g.players THEN @ \cup {p} ELSE @]
         [] event.type = "destroyed" -> [w EXCEPT !.g.inside = Minus(@, p)]
         [] event.type = "shelter" -> HeardShelter(w, p, event.what)
         [] event.type = "ui" -> Asked(w, p, event.what)

(***************************************************************************)
(* The turn of the game server.                                            *)
(***************************************************************************)

\* Who is alive and, as far as the director knows, inside that camp may pick;
\* to pick nothing is to go back to the default.
handle_message(w, message) ==
    LET p == message.who
    IN IF /\ p \in DOMAIN w.k.alive /\ w.k.alive[p] /\ message.camp \in w.k.camps
          /\ ShelterOf(w.g, p) = message.camp
       THEN [w EXCEPT !.g.loadouts = IF message.pick = 0 THEN Minus(@, p)
                                     ELSE Set(@, p, message.pick)]
       ELSE w

\* Each death takes a revive from the team, if there is one, and is due later.
\* Faulty variant: the last ones are due together.
CountedTogether(g) ==
    LET granted == IF g.remaining = 0 THEN {} ELSE g.died
    IN [g EXCEPT !.died = {}, !.deaths = @ + Cardinality(g.died), !.now = @ + 1,
                 !.remaining = IF @ <= 0 THEN @ ELSE IF @ < Cardinality(granted) THEN 0
                               ELSE @ - Cardinality(granted),
                 !.due = [p \in DOMAIN @ \cup granted |->
                            IF p \in granted THEN g.now + RespawnDelay ELSE @[p]]]
Counted(g) ==
    LET fallen == SetToSortSeq(g.died, <)
        granted == IF g.remaining < 0 THEN g.died
                   ELSE {fallen[n] : n \in 1..(IF Len(fallen) < g.remaining THEN Len(fallen)
                                               ELSE g.remaining)}
    IN [g EXCEPT !.died = {}, !.deaths = @ + Cardinality(g.died), !.now = @ + 1,
                 !.remaining = IF @ < 0 THEN @ ELSE @ - Cardinality(granted),
                 !.due = [p \in DOMAIN @ \cup granted |->
                            IF p \in granted THEN g.now + RespawnDelay ELSE @[p]]]

Due(g) == {p \in DOMAIN g.due : g.due[p] <= g.now}
advance(w) ==
    LET counted == Counted(w.g)
        ready == Due(counted)
    IN [k |-> [w.k EXCEPT !.alive = [p \in DOMAIN @ |-> @[p] \/ p \in ready]],
        g |-> [counted EXCEPT !.due = [p \in DOMAIN @ \ ready |-> @[p]]]]

(***************************************************************************)
(* The mission.                                                            *)
(***************************************************************************)

\* A node's wave: if one of them cannot be made the mission has failed.
\* The kernel makes no more than room of them.
activate_node(v, n, room) ==
    LET made == IF room < Mission[n].wave THEN room ELSE Mission[n].wave
        foes == (v.k.made + 1)..(v.k.made + made)
    IN IF Mission[n].wave = 0
       THEN [v EXCEPT !.q.state[n] = "active",
                      !.q.status = IF Mission[n].waits = "players" THEN @ ELSE "failed"]
       ELSE [q |-> [v.q EXCEPT !.state[n] = "active", !.members[n] = foes,
                               !.failed = IF made < Mission[n].wave THEN @ \cup {n} ELSE @,
                               !.status = IF made < Mission[n].wave THEN "failed" ELSE @],
             k |-> [v.k EXCEPT !.made = @ + made, !.foes = @ \cup foes]]

Activated(v, nodes, room) ==
    FoldLeft(LAMBDA w, n : activate_node(w, n, room), v, SetToSortSeq(nodes, <))

Complete(v, n) ==
    IF Mission[n].waits = "players" THEN Cardinality(DOMAIN v.k.alive) >= Mission[n].count
    ELSE n \notin v.q.failed /\ v.q.members[n] \cap v.k.foes = {}

Completed(v) ==
    [v EXCEPT !.q.state = [n \in Nodes |-> IF @[n] = "active" /\ Complete(v, n) THEN "completed"
                                           ELSE @[n]]]

\* Faulty variant: one of those before it is enough.
ReadyAfterOne(v) ==
    {n \in Nodes : /\ v.q.state[n] = "inactive" /\ Before(n) # {}
                   /\ \E m \in Before(n) : v.q.state[m] = "completed"}
Ready(v) ==
    {n \in Nodes : /\ v.q.state[n] = "inactive" /\ Before(n) # {}
                   /\ \A m \in Before(n) : v.q.state[m] = "completed"}

Finished(v) ==
    [v EXCEPT !.q.status = IF @ = "running" /\ \A n \in Nodes : v.q.state[n] = "completed"
                           THEN "completed" ELSE @]

MissionTick(v, room) ==
    IF v.q.status # "running" THEN v
    ELSE IF v.q.left > 0 THEN [v EXCEPT !.q.left = @ - 1]
    ELSE LET due == [v EXCEPT !.q.left = MissionInterval]
         IN IF ~v.q.initialized
            THEN Activated([due EXCEPT !.q.initialized = TRUE], {n \in Nodes : Before(n) = {}}, room)
            ELSE LET done == Completed(due)
                 IN Finished(Activated(done, Ready(done), room))

\* A turn of the loop: commands, so many events, the mail, the revives, the
\* mission.
Loop(room) ==
    LET kernel == Commanded(kern, events)
        batch == SubSeq(kernel.e, 1, IF Len(kernel.e) < PollBatch THEN Len(kernel.e) ELSE PollBatch)
        heard == FoldLeft(handle_event, [k |-> kernel.k, g |-> server], batch)
        read == FoldLeft(handle_message, heard, mail)
        risen == advance(read)
        played == MissionTick([k |-> risen.k, q |-> quest], room)
    IN /\ events' = SubSeq(kernel.e, Len(batch) + 1, Len(kernel.e)) /\ mail' = <<>>
       /\ kern' = played.k /\ server' = risen.g /\ quest' = played.q
       /\ chances' = [chances EXCEPT !.revived = @ +
            Cardinality({p \in DOMAIN risen.k.alive : risen.k.alive[p] /\ ~read.k.alive[p]})]

ServerNext ==
    \/ \E p \in Newcomers : Join(p) \/ Leave(p) \/ Fall(p)
    \/ \E c \in Camps : CampFalls(c)
    \/ \E f \in kern.foes : FoeFalls(f)
    \/ \E p \in Newcomers, c \in Camps : OpenUi(p, c) \/ \E pick \in {0, 1} : Select(p, c, pick)
    \/ server.now < Loops /\ \E room \in 0..Max({Mission[n].wave : n \in Nodes}) : Loop(room)

ServerSpec == ServerInit /\ [][ServerNext]_serverVars

(***************************************************************************)
(* Properties.                                                             *)
(***************************************************************************)

ServerTypeOK ==
    /\ kern.came \subseteq Newcomers /\ Present \subseteq kern.came /\ DOMAIN kern.inside = Present
    /\ server.now \in 0..Loops
    /\ quest.status \in {"running", "completed", "failed"}

\* Is a death of p still to be heard of?
Unheard(p) == \E n \in 1..Len(events) : events[n] = OfKindEvent("died", p, 0)
\* What the director believes once it has heard everything.
Believed == FoldLeft(handle_event, [k |-> kern, g |-> server], events).g

\* However late the events come, and whoever leaves, falls or is inside what
\* falls in the meantime: the team has no more revives than it was given, and
\* while it has some nobody who is dead is forgotten; whoever left is waited
\* for by nobody; the director knows who is inside what once it has heard all
\* there is to hear; and the mission does not get ahead of its fights.
GameServerHolds ==
    /\ TeamRevives >= 0 => chances.revived <= TeamRevives
    /\ \A p \in Present : kern.alive[p] \/ Unheard(p) \/ p \in server.died \/ p \in DOMAIN server.due
                       \/ server.remaining = 0
    /\ server.died \cup DOMAIN server.due \cup DOMAIN server.loadouts \subseteq server.players
    /\ \A p \in Newcomers :
          ShelterOf(Believed, p) = IF p \in Present THEN kern.inside[p] ELSE Outside
    /\ \A n \in Nodes : quest.state[n] # "inactive" =>
          \A m \in Before(n) : quest.state[m] = "completed" /\ quest.members[m] \cap kern.foes = {}
    /\ quest.status = "completed" => \A n \in Nodes : quest.members[n] \cap kern.foes = {}
=============================================================================
