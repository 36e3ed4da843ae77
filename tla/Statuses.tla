------------------------------- MODULE Statuses -------------------------------
(***************************************************************************)
(* Status effects over time: graphs run by requests and by hits, the       *)
(* server's pass over what is active, the damage of a tick, and the copy   *)
(* of a player's own statuses that the player's client keeps.              *)
(*                                                                         *)
(* A tick of the server prunes what it remembers of batches, runs what     *)
(* players asked for, passes over the statuses, runs what hit somebody,    *)
(* resolves the damage and repeats the packets the transport refused.      *)
(***************************************************************************)
EXTENDS GraphExecution

CONSTANTS
    Owner,          \* the body of the player whose client is modelled
    Requests,       \* request id -> what its graph does and to whom
    MaxBatches,     \* bound: batches submitted, repetitions included
    StatusTicks,    \* bound: ticks of the server
    MaxRefusals,    \* bound: packets the transport refuses
    MaxAnnounced    \* bound: how often the owner's entity is announced again

VARIABLES
    world,      \* what the server has, see GraphExecution
    pass,       \* where in its tick the server is: "asked" or "hits"
    mirror,     \* what the owner's client shows: [revision, active]
    news,       \* packets on their way to it, in order
    again,      \* status_effect_state_retry
    failed,     \* bodies a batch failed on after it had begun, not told since
    ran,        \* request id -> the ticks in which its graph was carried out
    spent       \* what the bounds count: [batches, refusals, announced]

statusVars == <<world, pass, mirror, news, again, failed, ran, spent>>

NoMirror == [revision |-> 0, active |-> {}]
FreshWorld ==
    [body |-> [b \in Bodies |->
                 [Body("actor") EXCEPT !.resistance = IF b = Owner THEN 0 ELSE 1]],
     next |-> 1, tick |-> 0, done |-> {}, reserved |-> {}, ok |-> TRUE,
     published |-> <<>>, changed |-> {}, damage |-> <<>>,
     effects |-> <<>>, room |-> 1]

StatusInit ==
    /\ world = FreshWorld /\ pass = "asked" /\ mirror = NoMirror /\ news = <<>>
    /\ again = FALSE /\ failed = {} /\ ran = [r \in DOMAIN Requests |-> <<>>]
    /\ spent = [batches |-> 0, refusals |-> 0, announced |-> 0]

(***************************************************************************)
(* Telling the owner.                                                      *)
(***************************************************************************)

\* Packets go out in order; the transport takes some of them and refuses the
\* others.  The last one decides whether the state is sent again.
send_status_effect_state(packets, due, cost) ==
    \E refused \in SUBSET DOMAIN packets :
       /\ cost.refusals + Cardinality(refused) <= MaxRefusals
       /\ again' = IF packets = <<>> THEN due ELSE Len(packets) \in refused
       /\ spent' = [cost EXCEPT !.refusals = @ + Cardinality(refused)]
       /\ LET taken == SetToSortSeq(DOMAIN packets \ refused, <)
          IN news' = news \o [i \in DOMAIN taken |-> packets[taken[i]]]

\* What a step of the server has published is sent.
publish_status_effect_state(w, cost) ==
    /\ send_status_effect_state(
          SelectSeq(w.published, LAMBDA p : p.target = Owner), again, cost)
    /\ world' = [w EXCEPT !.published = <<>>, !.ok = TRUE, !.effects = <<>>]
    /\ failed' = {b \in Bodies :
                    \/ b \in failed /\ \A i \in DOMAIN w.published : w.published[i].target # b
                    \/ ~w.ok /\ Records(w.body[b].active) # Records(world.body[b].active)}

\* At the end of a tick, what was refused before.
retry_status_effect_states(w) ==
    IF again /\ w.body[Owner].here /\ w.body[Owner].revision # 0
    THEN [w EXCEPT !.published = Append(@, StatePacket(w, Owner))] ELSE w

(***************************************************************************)
(* Batches.                                                                *)
(***************************************************************************)

\* The same request may come again.
Answered(w, r) ==
    /\ publish_status_effect_state(w, [spent EXCEPT !.batches = @ + 1])
    /\ ran' = [ran EXCEPT ![r] =
                 IF \E d \in w.done \ world.done : d.key = <<"request", r>>
                 THEN Append(@, world.tick) ELSE @]

Evaluated(r) == evaluate_action_graph(Requests[r].graph, Requests[r].event)
execute_action_graph_command_batch(r) ==
    /\ spent.batches < MaxBatches
    /\ IF Evaluated(r) = CannotEvaluate THEN Answered(world, r)
       ELSE Answered(execute_action_graph_commands(world, <<"request", r>>, Evaluated(r)), r)
    /\ UNCHANGED <<pass, mirror>>

(***************************************************************************)
(* The pass over the statuses: bodies in the order of their ids, statuses  *)
(* in the order they began.  A graph that cannot be carried out ends the   *)
(* pass, for everybody.                                                    *)
(***************************************************************************)

RunAlone(w, prepared) ==
    IF prepared.batch = <<>> THEN w
    ELSE execute_action_graph_commands(w, prepared.key, prepared.batch)

\* Faulty variant: what has expired goes without a word to its owner.
NotedSilently(w, b) == w
ChangeNoted(w, b) == IF w.ok THEN [w EXCEPT !.changed = @ \cup {b}] ELSE w

\* A status whose ending cannot be prepared stays.
ExpireOne(w, b, e, prepared) ==
    IF prepared.ok THEN ChangeNoted(RunAlone(Without(w, b, {e}), prepared), b) ELSE w

Postponed(w, b, e) ==
    IF ~w.ok THEN w
    ELSE [w EXCEPT !.body[b].active =
            (@ \ {e}) \cup {[e EXCEPT !.next = @ + Templates[e.name].interval]}]
TickOne(w, b, e, prepared) ==
    IF prepared.ok THEN Postponed(RunAlone(w, prepared), b, e) ELSE Failed(w)

simulate_one(w, b, e) ==
    CASE ~w.ok -> w
      [] w.tick >= e.expire -> ExpireOne(w, b, e, Expiring(w, b, e))
      [] Templates[e.name].interval # 0 /\ w.tick >= e.next ->
            TickOne(w, b, e, prepare_status_lifecycle_trigger(
                       w, b, e.source, e.instance, e.stacks, "tick", Templates[e.name].onTick))
      [] OTHER -> w

PublishChanged(w, b) == IF w.ok /\ b \in w.changed THEN Publish(w, b) ELSE w
simulate_body(w, b) ==
    IF ~w.ok \/ ~w.body[b].here THEN w
    ELSE PublishChanged(FoldLeft(LAMBDA v, e : simulate_one(v, b, e),
                                 w, ByInstance(w.body[b].active)), b)

simulate_status_effects ==
    /\ pass = "asked" /\ pass' = "hits"
    /\ publish_status_effect_state(
          [FoldLeft(simulate_body, world, SetToSortSeq(Bodies, <)) EXCEPT !.changed = {}], spent)
    /\ UNCHANGED <<mirror, ran>>

(***************************************************************************)
(* The rest of the tick.                                                   *)
(***************************************************************************)

\* Damage that is ready, in order.  Nothing harms who cannot be struck.
Harmed(w, hit) ==
    LET body == w.body[hit[1]]
    IN IF ~body.here \/ body.hp = 0 \/ status_untargetable(w, hit[1]) THEN w
       ELSE [w EXCEPT !.body[hit[1]].hp = IF hit[2] >= @ THEN 0 ELSE @ - hit[2]]

\* The dead no longer fly, and one that is not a player's goes, with all that
\* was on it.
destroy_dead_entities(w) ==
    [w EXCEPT !.body = [b \in Bodies |->
        CASE @[b].hp # 0 -> @[b]
          [] b = Owner -> [@[b] EXCEPT !.flung = FALSE]
          [] OTHER -> [Body(@[b].kind) EXCEPT !.here = FALSE, !.hp = 0]]]

EndTick ==
    LET resolved == FoldLeft(Harmed, world, world.damage)
        w == destroy_dead_entities([resolved EXCEPT !.damage = <<>>])
        sent == retry_status_effect_states(w)
    IN /\ pass = "hits" /\ pass' = "asked"
       /\ world.tick < StatusTicks
       /\ publish_status_effect_state(
             prune_action_graph_batches([sent EXCEPT !.tick = @ + 1]), spent)
       /\ UNCHANGED <<mirror, ran>>

\* The player stands up again, free of everything.
revive ==
    LET body == [world.body[Owner] EXCEPT !.hp = MaxHp, !.flung = FALSE]
        free == recompute_speed([body EXCEPT !.active = {}, !.slows = {}])
        w == [world EXCEPT !.body[Owner] = free]
    IN /\ world.body[Owner].hp = 0 /\ pass = "hits"
       /\ IF body.active = {}
          THEN publish_status_effect_state([world EXCEPT !.body[Owner] = body], spent)
          ELSE publish_status_effect_state(Publish(w, Owner), spent)
       /\ UNCHANGED <<pass, mirror, ran>>

(***************************************************************************)
(* The owner's client.                                                     *)
(***************************************************************************)

\* The entity is announced again: the client forgets its statuses with the
\* despawn, and the state follows the spawn.
Announce ==
    LET forget == [target |-> Nobody, revision |-> 0, active |-> {}]
    IN /\ spent.announced < MaxAnnounced
       /\ world.body[Owner].revision # 0
       /\ \E taken \in BOOLEAN :
             /\ taken \/ spent.refusals < MaxRefusals
             /\ news' = news \o <<forget>>
                             \o (IF taken THEN <<StatePacket(world, Owner)>> ELSE <<>>)
             /\ again' = ~taken
             /\ spent' = [spent EXCEPT !.announced = @ + 1,
                                       !.refusals = @ + (IF taken THEN 0 ELSE 1)]
       /\ failed' = failed \ (IF again' THEN {} ELSE {Owner})
       /\ UNCHANGED <<world, pass, mirror, ran>>

\* Revisions wrap: newer is less than half the way round.
NewerRevision(r, than) == LET d == (r - than) % RevisionRange
                          IN d # 0 /\ 2 * d < RevisionRange

Sound(records) ==
    /\ \A e \in records : e.stacks \in 1..Templates[e.name].maxStacks
    /\ \A e, f \in records : Templates[e.name].channel = Templates[f.name].channel => e = f

handle_client_status_effect_state ==
    LET packet == Head(news)
    IN /\ news # <<>> /\ news' = Tail(news)
       /\ mirror' = CASE packet.target = Nobody -> NoMirror
                      [] /\ mirror # NoMirror
                         /\ ~NewerRevision(packet.revision, mirror.revision) -> mirror
                      [] ~Sound(packet.active) -> mirror
                      [] OTHER -> [revision |-> packet.revision, active |-> packet.active]
       /\ UNCHANGED <<world, pass, again, failed, ran, spent>>

StatusNext ==
    \/ \E r \in DOMAIN Requests : execute_action_graph_command_batch(r)
    \/ simulate_status_effects
    \/ EndTick
    \/ revive
    \/ Announce
    \/ handle_client_status_effect_state

StatusSpec == StatusInit /\ [][StatusNext]_statusVars

(***************************************************************************)
(* Properties.                                                             *)
(***************************************************************************)

StatusTypeOK ==
    /\ world.tick \in 0..StatusTicks /\ pass \in {"asked", "hits"}
    /\ world.reserved = {} /\ world.ok /\ world.published = <<>>
    /\ \A b \in Bodies : world.body[b].hp \in 0..MaxHp
    /\ again \in BOOLEAN /\ failed \subseteq Bodies

\* A body has at most one status in a channel, no more than it can carry, none
\* stacked higher than its template allows; and a slow lasts exactly as long as
\* the status that brought it, so that speed is always what the statuses that
\* are there make of it.
StatusesHold ==
    \A b \in Bodies :
       LET body == world.body[b]
       IN /\ Sound(body.active) /\ Cardinality(body.active) <= MaxActive
          /\ \A s \in body.slows : \E e \in body.active : e.instance = s.instance
          /\ body.speed = recompute_speed(body).speed

\* The owner's client shows what the server has, once the packets have arrived
\* and none is owed: whatever was refused, repeated, outrun by a later one or
\* sent again with the entity.  Only a batch that fails half way changes a body
\* without telling anyone.
OwnerSeesStatuses ==
    news = <<>> /\ ~again /\ Owner \notin failed =>
       mirror.active = Records(world.body[Owner].active)

\* A request that comes again is carried out again only once the server has had
\* the time to forget it; and the server remembers no more than it has room for.
RequestRunsOnce ==
    /\ \A r \in DOMAIN Requests : \A i, j \in DOMAIN ran[r] :
          i < j => ran[r][j] - ran[r][i] >= Retention
    /\ Cardinality(world.done) <= DedupCapacity
=============================================================================
