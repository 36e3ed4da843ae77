-------------------------- MODULE EntityReplication --------------------------
(***************************************************************************)
(* What one client is told about the entities of the server's world: which *)
(* of them its session introduces and takes away again (reliable spawn,    *)
(* projectile batch and despawn), which snapshot records it is sent        *)
(* (unreliable), and what the client keeps of all that.                    *)
(*                                                                         *)
(* Every handler on both sides works on one net id at a time and the       *)
(* reliable channel keeps its order, so messages about different entities  *)
(* commute: the channel is one queue per entity.  A snapshot record may be *)
(* lost, repeated and overtaken; a record that was sent stays deliverable. *)
(***************************************************************************)
EXTENDS Naturals, Sequences, FiniteSets, SequencesExt

CONSTANTS
  Player,            \* the session's own player
  Others,            \* the other net ids the world hands out
  SpawnQuota,        \* kMaxEntitySpawnsPerSnapshot
  MetadataGrace,     \* kClientSnapshotMetadataGraceTicks
  MaxBuffered,       \* kMaxClientSnapshots
  MaxTick,           \* bound: the tick at which the world stops changing
  MaxQueued          \* bound: messages in flight about one entity

ASSUME ReplicationAssumption ==
  /\ Player \notin Others
  /\ SpawnQuota \in Nat \ {0} /\ MaxQueued \in Nat \ {0}
  /\ MaxBuffered \in Nat \ {0} /\ MaxTick \in Nat \ {0}
  /\ MetadataGrace \in Nat

Entities == {Player} \cup Others
Ticks == 0..MaxTick

VARIABLES
  kind,              \* [Others -> actor or projectile], as it will be created
  tick,              \* tick_loop_.current_tick()
  world,             \* [Entities -> unborn, hidden, alive or gone]
  band,              \* [Entities -> where it is seen from the player]
  relevant,          \* session.relevant_entities
  lost,              \* session.out_of_range_projectiles
  abandoned,         \* history: shown to the client when they ended, and the
                     \* despawn refused
  channel,           \* [Entities -> the reliable messages about it, in order]
  records,           \* snapshot records sent: [tick, id]
  held,              \* client_replicated_entities_
  tombstone,         \* client_despawned_entities_
  deferred,          \* deferred_flight_despawns_
  renderTick,        \* render_server_time_us_, in whole ticks
  latest,            \* latest_client_snapshot_.header.server_tick, 0 at first
  buffer,            \* client_snapshot_buffer_: [tick, ids], one per tick
  reported           \* client_metadata_timeout_reported_entities_

serverVars == <<kind, tick, world, band, relevant, lost, abandoned>>
clientVars == <<held, tombstone, deferred, renderTick, latest, buffer, reported>>
replicationVars == <<serverVars, channel, records, clientVars>>

\* An actor is spawned once and then in the snapshots; another player's
\* deterministic projectile is spawned, described by a batch, and in none.
Actors == {e \in Others : kind[e] = "actor"}
Projectiles == {e \in Others : kind[e] = "projectile"}

NoTombstone == [tick |-> 0, reason |-> "none"]
Reasons == {"OutOfRange", "Ended"}   \* "Ended": any other KernelDespawnReason
Messages == [kind : {"spawn", "batch"}, tick : Ticks]
              \cup [kind : {"despawn"}, tick : Ticks, reason : Reasons]

Spawn(t) == [kind |-> "spawn", tick |-> t]
Batch(t) == [kind |-> "batch", tick |-> t]
Despawn(t, r) == [kind |-> "despawn", tick |-> t, reason |-> r]

\* Type invariant, part of SessionMatchesClient.
ReplicationTypeOK ==
  /\ kind \in [Others -> {"actor", "projectile"}]
  /\ tick \in Ticks /\ renderTick \in Ticks /\ latest \in Ticks
  /\ world \in [Entities -> {"unborn", "hidden", "alive", "gone"}]
  /\ band \in [Entities -> {"near", "edge", "far"}]
  /\ relevant \subseteq Entities
  /\ lost \subseteq Projectiles
  /\ abandoned \subseteq {e \in Others : world[e] = "gone"} \ relevant
  /\ \A e \in Entities : /\ channel[e] \in Seq(Messages)
                         /\ Len(channel[e]) <= MaxQueued
  /\ records \subseteq [tick : Ticks, id : Entities \ Projectiles]
  /\ held \in [Entities -> {"no", "spawned", "complete"}]
  /\ tombstone \in [Entities -> [tick : Ticks, reason : Reasons]
                                  \cup {NoTombstone}]
  /\ deferred \subseteq [id : Entities, tick : Ticks]
  /\ buffer \subseteq [tick : Ticks, ids : SUBSET Actors]
  /\ Cardinality(buffer) <= MaxBuffered
  /\ reported \subseteq Actors

ReplicationInit ==
  /\ kind \in [Others -> {"actor", "projectile"}]
  /\ tick = 1 /\ renderTick = 0 /\ latest = 0
  /\ world = [e \in Entities |-> IF e = Player THEN "alive" ELSE "unborn"]
  /\ band = [e \in Entities |-> "near"]
  /\ relevant = {} /\ lost = {} /\ abandoned = {}
  /\ channel = [e \in Entities |-> <<>>]
  /\ records = {} /\ deferred = {} /\ buffer = {} /\ reported = {}
  /\ held = [e \in Entities |-> "no"]
  /\ tombstone = [e \in Entities |-> NoTombstone]

-----------------------------------------------------------------------------
(* The server.  A handler changes the world, the session and the channel and *)
(* then, most of them, publishes: the operators below take the world w, the  *)
(* session's set shown and the channel chan as the handler left them.        *)

\* is_entity_relevant_to_session: by the player's distance, and an entity
\* already shown keeps the larger exit distance.
InRange(e, shown) ==
  \/ e = Player
  \/ band[e] = "near"
  \/ band[e] = "edge" /\ e \in shown

\* An actor is hidden until its first physics step.
build_relevant_snapshot(w, shown) ==
  {e \in Entities : w[e] = "alive" /\ InRange(e, shown)}

\* The newcomers one snapshot may introduce: everyone under the quota, else
\* the own player and the nearest of the rest.
\* Faulty variant: a crowd over the quota is put off as a whole.
OffersAllOrNone(newcomers) ==
  IF Cardinality(newcomers) <= SpawnQuota THEN {newcomers} ELSE {{}}
Offers(newcomers) ==
  IF Cardinality(newcomers) <= SpawnQuota THEN {newcomers}
  ELSE {S \in SUBSET newcomers : /\ Cardinality(S) = SpawnQuota
                                 /\ Player \in newcomers => Player \in S}

\* send_entity_spawn: whole when the connection took the spawn and, for a
\* projectile, its batch too.
Whole(spawned, batched) == (spawned \ Projectiles) \cup batched

\* What a session counts as announced afterwards: the ones it still sees, the
\* newcomers sent whole, and the ones whose despawn was refused.
\* Faulty variant: a refused despawn is forgotten.
AnnouncedForgetful(stays, newcomers, whole, refused) == stays \cup whole
Announced(stays, newcomers, whole, refused) == stays \cup whole \cup refused

\* A spawn is offered only when the bound leaves room for the whole of it.
MessagesOf(e) == IF e \in Projectiles THEN 2 ELSE 1

Queued(chan, spawned, batched, freed) ==
  [e \in Entities |->
     chan[e]
       \o (IF e \in spawned THEN <<Spawn(tick)>> ELSE <<>>)
       \o (IF e \in batched THEN <<Batch(tick)>> ELSE <<>>)
       \o (IF e \in freed THEN <<Despawn(tick, "OutOfRange")>> ELSE <<>>)]

\* publish_snapshot for this session: relevance, spawns and despawns, then one
\* record per announced actor in sight (the own player's is always there).  The
\* connection may refuse any send.
publish_snapshot(w, shown, chan) ==
  LET visible == build_relevant_snapshot(w, shown)
      newcomers == visible \ shown
      leaving == shown \ visible
  IN \E offered \in Offers(newcomers), freed \in SUBSET leaving :
     \E spawned \in SUBSET offered :
     \E batched \in SUBSET (spawned \cap Projectiles) :
       /\ relevant' = Announced(visible \cap shown, newcomers,
                                Whole(spawned, batched), leaving \ freed)
       /\ lost' = (lost \ visible)
                    \cup {e \in leaving \cap Projectiles : w[e] = "alive"}
       /\ channel' = Queued(chan, spawned, batched, freed)
       /\ \A e \in spawned : Len(chan[e]) + MessagesOf(e) <= MaxQueued
       /\ \A e \in Entities : Len(channel'[e]) <= MaxQueued
       /\ records' = records \cup [tick : {tick},
                                   id : (visible \cap relevant') \ Projectiles]

\* The end of a tick that writes a snapshot: at the interval, or because an
\* actor had its first physics step.  The last tick repeats for ever, with
\* nothing left to happen in the world.
SnapshotTick ==
  /\ \E released \in SUBSET {e \in Entities : world[e] = "hidden"} :
       LET w == [e \in Entities |-> IF e \in released THEN "alive" ELSE world[e]]
       IN world' = w /\ publish_snapshot(w, relevant, channel)
  /\ tick' = IF tick < MaxTick THEN tick + 1 ELSE tick
  /\ UNCHANGED <<kind, band, abandoned, clientVars>>

\* A snapshot within the tick: another player joins, a combat state is set, an
\* item is placed.
SnapshotWithinTick ==
  /\ tick < MaxTick
  /\ publish_snapshot(world, relevant, channel)
  /\ UNCHANGED <<kind, tick, world, band, abandoned, clientVars>>

\* The end of a tick between two snapshots.
PlainTick ==
  /\ tick < MaxTick
  /\ tick' = tick + 1
  /\ UNCHANGED <<kind, world, band, relevant, lost, abandoned, channel, records,
                 clientVars>>

\* A projectile is spawned by the simulation, which does not publish.
SpawnProjectile(e) ==
  /\ tick < MaxTick
  /\ e \in Projectiles /\ world[e] = "unborn"
  /\ world' = [world EXCEPT ![e] = "alive"]
  /\ UNCHANGED <<kind, tick, band, relevant, lost, abandoned, channel, records,
                 clientVars>>

create_entity(e) ==
  /\ tick < MaxTick
  /\ e \notin Projectiles /\ world[e] = "unborn"
  /\ LET w == [world EXCEPT ![e] = IF e \in Actors THEN "hidden" ELSE "alive"]
     IN world' = w /\ publish_snapshot(w, relevant, channel)
  /\ UNCHANGED <<kind, tick, band, abandoned, clientVars>>

Move(e) ==
  /\ tick < MaxTick
  /\ world[e] = "alive" /\ e # Player
  /\ \E b \in {"near", "edge", "far"} \ {band[e]} :
       band' = [band EXCEPT ![e] = b]
  /\ UNCHANGED <<kind, tick, world, relevant, lost, abandoned, channel, records,
                 clientVars>>

\* A session that tracks e is told of its end.  Whether the connection took the
\* message is not looked at.
Ending(e, tracked) ==
  {channel} \cup
  (IF tracked THEN {[channel EXCEPT ![e] = Append(@, Despawn(tick, "Ended"))]} ELSE {})

\* The session forgets e either way: refused, its client is left with e.
LeftBehind(e, chan) ==
  abandoned \cup (IF e \in relevant /\ chan[e] = channel[e] THEN {e} ELSE {})

\* destroy_entity_with_context: only a session that sees the entity is told,
\* and a snapshot follows within the tick.  A player's entity goes only with
\* its session.
destroy_entity(e) ==
  /\ tick < MaxTick
  /\ world[e] \in {"hidden", "alive"} /\ e \in Actors
  /\ \E chan \in Ending(e, e \in relevant) :
       LET w == [world EXCEPT ![e] = "gone"]
       IN /\ world' = w /\ abandoned' = LeftBehind(e, chan)
          /\ publish_snapshot(w, relevant \ {e}, chan)
  /\ UNCHANGED <<kind, tick, band, clientVars>>

\* finalize_simulated_projectile_destructions: a projectile that has gone out
\* of the session's range is still told about, for the copy it predicts.
finalize_projectile(e) ==
  /\ tick < MaxTick
  /\ world[e] = "alive" /\ e \in Projectiles
  /\ world' = [world EXCEPT ![e] = "gone"]
  /\ channel' \in Ending(e, e \in relevant \cup lost)
  /\ Len(channel'[e]) <= MaxQueued
  /\ abandoned' = LeftBehind(e, channel')
  /\ relevant' = relevant \ {e}
  /\ lost' = lost \ {e}
  /\ UNCHANGED <<kind, tick, band, records, clientVars>>

\* handle_server_disconnect of another player: its entity is destroyed with no
\* despawn, and the snapshot that follows finds it missing.
Leave(e) ==
  /\ tick < MaxTick
  /\ world[e] \in {"hidden", "alive"} /\ e \in Actors
  /\ LET w == [world EXCEPT ![e] = "gone"]
     IN world' = w /\ publish_snapshot(w, relevant, channel)
  /\ UNCHANGED <<kind, tick, band, abandoned, clientVars>>

-----------------------------------------------------------------------------
(* The client *)

\* handle_client_spawn: an out-of-range tombstone is lifted by any spawn, an
\* ending only by a later one.
LiftsTombstone(e, t) ==
  \/ tombstone[e].reason \in {"none", "OutOfRange"}
  \/ t > tombstone[e].tick

handle_client_spawn(e, m) ==
  IF ~LiftsTombstone(e, m.tick)
  THEN UNCHANGED <<held, tombstone, deferred, reported>>
  ELSE /\ tombstone' = [tombstone EXCEPT ![e] = NoTombstone]
       \* a projectile's spawn carries no collider: its batch completes it
       /\ held' = [held EXCEPT ![e] = IF e \in Projectiles THEN "spawned"
                                                           ELSE "complete"]
       /\ reported' = reported \ {e}
       /\ UNCHANGED deferred

handle_client_projectile_spawn_batch(e) ==
  /\ held' = [held EXCEPT ![e] = "complete"]
  /\ reported' = reported \ {e}
  /\ UNCHANGED <<tombstone, deferred>>

\* Something that ends on the world timeline is drawn until the render instant
\* reaches its end.  (has_predicted_projectile_net_id holds of the client's own
\* shots alone: nothing binds its copy of another player's deterministic one.)
Defers(e, m) ==
  /\ m.reason # "OutOfRange"
  /\ renderTick < m.tick
  /\ held[e] = "complete"
  /\ e \in Projectiles

\* Everything a despawn removes.
Forget(gone) ==
  /\ held' = [e \in Entities |-> IF \E d \in gone : d.id = e THEN "no"
                                                             ELSE held[e]]
  /\ tombstone' =
       [e \in Entities |->
          IF \E d \in gone : d.id = e
          THEN LET d == CHOOSE x \in gone : x.id = e
               IN [tick |-> d.tick, reason |-> d.reason]
          ELSE tombstone[e]]
  /\ reported' = reported \ {d.id : d \in gone}

handle_client_despawn(e, m) ==
  \/ /\ Defers(e, m)
     /\ deferred' = deferred \cup {[id |-> e, tick |-> m.tick]}
     /\ UNCHANGED <<held, tombstone, reported>>
  \/ /\ ~Defers(e, m)
     /\ Forget({[id |-> e, tick |-> m.tick, reason |-> m.reason]})
     /\ UNCHANGED deferred

\* One reliable message is handled.
Receive(e) ==
  /\ channel[e] # <<>>
  /\ channel' = [channel EXCEPT ![e] = Tail(@)]
  /\ LET m == Head(channel[e])
     IN \/ m.kind = "spawn" /\ handle_client_spawn(e, m)
        \/ m.kind = "batch" /\ handle_client_projectile_spawn_batch(e)
        \/ m.kind = "despawn" /\ handle_client_despawn(e, m)
  /\ UNCHANGED <<serverVars, records, renderTick, latest, buffer>>

\* The render instant moves on and releases the despawns it has reached.
AdvanceRender ==
  /\ renderTick < tick
  /\ renderTick' = renderTick + 1
  /\ LET due == {d \in deferred : d.tick <= renderTick + 1}
     IN /\ deferred' = deferred \ due
        /\ Forget({[id |-> d.id, tick |-> d.tick, reason |-> "Ended"] : d \in due})
  /\ UNCHANGED <<serverVars, channel, records, latest, buffer>>

\* store_client_snapshot: merged with the tick's other packets, the oldest
\* ticks dropped when there are too many.
\* Faulty variant: nothing is dropped.
StoreAll(t, ids) == buffer \cup {[tick |-> t, ids |-> ids]}
store_client_snapshot(t, ids) ==
  LET old == {b \in buffer : b.tick = t}
      merged == (buffer \ old)
                  \cup {[tick |-> t, ids |-> ids \cup UNION {b.ids : b \in old}]}
  IN {b \in merged : Cardinality({c \in merged : c.tick > b.tick}) < MaxBuffered}

\* client_snapshot_entity_is_tombstoned
\* Faulty variant: a record of the tick the entity left on is not covered.
TombstonedBefore(e, t) ==
  \/ tombstone[e].reason = "Ended"
  \/ tombstone[e].reason = "OutOfRange" /\ t < tombstone[e].tick
Tombstoned(e, t) ==
  \/ tombstone[e].reason = "Ended"
  \/ tombstone[e].reason = "OutOfRange" /\ t <= tombstone[e].tick

\* What a buffered snapshot shows that the client was never introduced to.
Missing(b) == {e \in b.ids : ~Tombstoned(e, b.tick) /\ held[e] = "no"}

\* handle_client_snapshot: a packet of an older tick is only buffered; the
\* others also look for snapshots that have waited too long for a spawn.
handle_client_snapshot(t, ids) ==
  LET stored == store_client_snapshot(t, ids)
      stale == {b \in stored : /\ t > b.tick
                               /\ t - b.tick > MetadataGrace
                               /\ Missing(b) # {}}
  IN IF t < latest
     THEN /\ buffer' = stored
          /\ UNCHANGED <<latest, reported>>
     ELSE /\ latest' = t
          /\ buffer' = stored \ stale
          /\ reported' = reported \cup UNION {Missing(b) : b \in stale}

DeliverSnapshot ==
  /\ \E t \in 1..tick :
       LET sent == {x \in records : x.tick = t}
       IN /\ sent # {}
          /\ \E ids \in SUBSET {x.id : x \in sent} :
               handle_client_snapshot(t, ids \cap Actors)
  /\ UNCHANGED <<serverVars, channel, records, held, tombstone, deferred,
                 renderTick>>

-----------------------------------------------------------------------------
ReplicationNext ==
  \/ SnapshotTick
  \/ SnapshotWithinTick
  \/ PlainTick
  \/ \E e \in Entities : SpawnProjectile(e)
  \/ \E e \in Entities : create_entity(e)
  \/ \E e \in Entities : Move(e)
  \/ \E e \in Entities : destroy_entity(e)
  \/ \E e \in Entities : finalize_projectile(e)
  \/ \E e \in Entities : Leave(e)
  \/ \E e \in Entities : Receive(e)
  \/ AdvanceRender
  \/ DeliverSnapshot

ReplicationSpec == ReplicationInit /\ [][ReplicationNext]_replicationVars

\* A snapshot tick in which physics reached every new actor and the connection
\* took all it was offered.
TakenTick ==
  /\ SnapshotTick
  /\ \A e \in Entities : world'[e] # "hidden"
  /\ LET visible == build_relevant_snapshot(world', relevant)
     IN /\ relevant' \subseteq visible
        /\ \/ visible \subseteq relevant'
           \/ Cardinality(relevant' \ relevant) = SpawnQuota

\* The server's ticks go on, the connection is not refusing for ever, and the
\* client reads and renders.
ReplicationFairSpec ==
  /\ ReplicationSpec
  /\ WF_replicationVars(PlainTick \/ SnapshotTick)
  /\ SF_replicationVars(TakenTick)
  /\ \A e \in Entities : WF_replicationVars(Receive(e))
  /\ WF_replicationVars(AdvanceRender)

-----------------------------------------------------------------------------
\* What the client will hold of e, ready to draw, once it has handled what is
\* under way to it.
WillDraw(e) ==
  IF channel[e] # <<>>
  THEN LET m == Last(channel[e])
       IN m.kind = "batch" \/ (m.kind = "spawn" /\ e \notin Projectiles)
  ELSE /\ held[e] = "complete"
       /\ \A d \in deferred : d.id # e

\* The session's set is the client's: sync_session_relevance counts an entity as
\* announced exactly when the client has, or will have, all it needs to draw it,
\* whatever the connection refused, the quota deferred or the world destroyed.
\* A newcomer counted too early is never spawned; a despawn forgotten leaves the
\* client an entity nothing takes away.  The one exception is named and bounded:
\* an entity that ended while it was shown and whose despawn was refused
\* (destroy_entity_with_context and finalize_simulated_projectile_destructions
\* do not look at the result) is drawn for ever.
SessionMatchesClient ==
  /\ ReplicationTypeOK
  /\ \A e \in Entities : e \in relevant \cup abandoned <=> WillDraw(e)

\* A metadata timeout is raised by diagnose_client_snapshot_metadata_waits only
\* for an actor whose spawn is still under way: never for one that the client
\* has, has seen leave, or has seen end, however late its snapshots come.
NoFalseAlarm ==
  \A e \in reported : \E i \in 1..Len(channel[e]) : channel[e][i].kind = "spawn"

\* Once the world stops changing, the client comes to hold exactly the actors
\* and props its player can see, and those whose ending was refused, provided
\* the server keeps publishing, the connection takes what it is offered again and
\* again, and the client keeps reading.
ViewConverges ==
  <>[](\A e \in Entities \ Projectiles :
         held[e] = "complete" <=>
           e \in build_relevant_snapshot(world, relevant) \cup abandoned)
==============================================================================
