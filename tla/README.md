# Verification of the network kernel

The network kernel is a server-authoritative multiplayer game kernel in C++20.
One engine, `KernelEngine` (`src/engine/src/kernel/src/kernel.cc`), runs in three
modes: dedicated server, client, and listen server (both halves in one process).
The host application calls `update(dt)`; everything below happens inside that
call, on one thread. Concurrency here is the interleaving of peers, messages,
timeouts and tick passes, not of threads (the RPC server is the exception).

This directory holds TLA+ models of the parts where that interleaving is hard to
test, the TLC runs that check them, and TLAPS proofs of the main invariants.
`PROJECT.json` has the machine-readable side: components, runs, mutants, the map
from definitions to source lines, findings, hazards and theorems.

## 1. Inventory

| Component | State it keeps | Operations | Talks to | What makes it correct |
|---|---|---|---|---|
| Weapon action runtime (`action_system.cc`, `weapon_system.cc`) | per actor: `ActionRuntimeState`, `ActionInputState`, `WeaponState` | `simulate_actions`, `admit_action`, `advance_action`, commits in `simulate_weapons`, interrupts, holster reload, loadout rebuild | session (outcomes), damage, items, shelter, statuses | one end per instance; no latch or beam left behind; cadence; nothing commits while held |
| Local action session (kernel.cc) | `PeerSession`: claimed instance, high-water id, recent results, pending results | `prepare_server_action_intent`, `queue_local_action_result`, `finalize_server_action_outcomes`, `flush_local_action_results` | input pipeline, runtime, transport | no wedged claim; no lost intent; a repeat runs once; counts are true |
| Client join (kernel.cc, `app/client_app.cc`) | client: sync state, error, timer, download, flags; server: transfer offset and session per peer | manifest, bundle request, chunk pump, continue, handshake, welcome, refusal, timer, disconnect | session channel, host application | Ready means joined; no gap in the bundle; failure is final; every sync ends |
| Owner's prediction (kernel.cc) | pending intents, outstanding actions, applied results, latest snapshot | submit, emit, result handling, timeout, reconcile | session results, snapshots, world (listen server) | keeps the server's last word; an end is heard once |
| Input pipeline and movement (kernel.cc, `player_movement.cc`) | input numbers, held input, pending inputs | send, accept, step, acknowledge, replay | prediction, tick | each input counts once and in order; stale movement stops |
| Entity replication (kernel.cc, `snapshot_builder.cc`) | relevance set per peer, replicated entities, tombstones, send stamps | relevance sync, spawn, despawn, snapshot, send set | transport, world | the session's books match the client's; no false alarm; nobody starves |
| Items, requests and inventory replication (`item_system.cc`, `item_gameplay_system.cc`, kernel.cc) | item store, recorded outcomes, revisions, pages, the client's mirror | request, use, transfer, drop, delta, page, resync | runtime, reliable channel | nothing is made or lost; a request runs once; the mirror is a server revision |
| Codecs (`network_packets.cc`, `packet_codec.cc`, `snapshot codec`) | none | encode, decode, split | transport | what one side writes the other reads; what one refuses the other never sends |
| Catalog (`gameplay_config.cc`, `load_gameplay_catalog`) | definitions | read, resolve, validate, load | YAML, kernel | loader and kernel accept the same definitions |
| Action graphs and statuses (`action_graph.cc`, `systems.cc`) | effect instances, batches, remembered keys, revisions | prepare, execute, tick, expire, publish | damage, runtime, transport | a batch runs once; what a status grants is taken back; the copies agree |
| Triggers (`systems.cc`) | who is inside which volume, contacts | enter, overlap, exit, collide, dispatch | physics, graphs | every entry has one exit, in order |
| Damage (`damage_pipeline.cc`) | queued and pending hits, defences, stagger | queue, drain, confirm, cancel, die | runtime, graphs | a defence made in time counts; a death is one death |
| Projectiles, beams, areas (`projectile_system.cc`, `beam_system.cc`, `derived_chain_presenter.cc`) | shots, held roots, frames | age, meet, hit, expire, rewind, derive | graphs, damage, replication | the client's derived chain is the server's; a held root is released |
| Lifecycle, shelter (`systems.cc`, entity factory) | props, portals, seats, populations | create, destroy, enter, leave, age | graphs, runtime | limits hold; a seat has one occupant; nothing refers to the dead |
| Directors and agents (game_server) | budgets, groups, queues | per-tick turns | kernel API | budgets hold; an agent is counted once |
| Game server rules (game_server) | revives, shelters, loadouts, mission | poll, tick | kernel events | its books follow the kernel's |
| Tick loop, clock sync, transports, commands, RPC, AI framework, physics, locomotion, terrain, discovery, C API | - | - | - | not modelled, see section 7 |

Hard behaviours, in the order they were taken on: a claim the session makes before
the simulation decides, and which eight different endings must release; repeated
and stale instance ids; results whose Send fails half way; the join over a
connection that may come up late or drop anywhere, with a timer beside it; two
halves of one engine, on a listen server, that share a world; unreliable snapshots
beside a reliable channel; a store replicated by revisions that a refused Send
leaves behind; and chains of projectiles that a client derives for itself. Every
hazard is in `PROJECT.json` at its source line with the properties that cover it.

## 2. Modules

| Module | Models | Uses |
|---|---|---|
| `ActionRuntime` | the actor and its weapon passes, as operators on one actor record | |
| `WeaponActions` | the actor as a state machine under any input and disturbance | `ActionRuntime` |
| `ActionSession` | the server's session around the actor | `ActionRuntime`; `INSTANCE WeaponActions` as the abstract specification |
| `ListenHost` | the player of a listen server, client half and server half | `ActionSession` |
| `CatalogSync` | a client joining a server | |
| `EntityReplication` | what one client is told of the world's entities | |
| `InputSync` | one player's inputs and the answers to them | |
| `SnapshotSendSet`, `SnapshotCodec`, `WireFormat` | what goes into a snapshot, its packets, every packet's layout | codec on `WireFormat` |
| `ItemStore`, `GameplayRequests`, `InventorySync` | the store, the requests on it, its mirror at a client | each extends the one before |
| `CatalogGraphs`, `CatalogTemplates`, `CatalogActors`, `CatalogProps`, `CatalogMaps`, `Catalog` | a definition on its way from YAML through the loader into the kernel; a map, its spawners and patrol routes | a chain; `CatalogGraphs` alone; `CatalogMaps` also on `SpawnSampling` |
| `GraphExecution`, `Statuses`, `Triggers` | batches of graph commands; statuses over time; volumes and contacts | both on `GraphExecution` |
| `DamagePipeline`, `Lifecycle`, `Projectiles` | hits, comings and goings, shots and their derived chains | |
| `SpawnSampling`, `Directors`, `GameServer` | what goes into a group; who fills the world with agents; the rules of the game | `Directors` on `SpawnSampling` |
| `MC*` | constants for TLC; `MCChannels` and `MCServices` compose machines that share no state, one scenario at a time | |
| `*Proofs` | theorems and their lemmas | the module they name; `ListenHostProofs` has those of `ActionSession` too, `InventoryProofs` and `MirrorProofs` those of `InventorySync` |

**ActionRuntime.** An actor is a record: phase, instance id, binding, source
weapon, commits; per weapon rounds, reserve, cooldown and holster time; the reload
latch, the beam, the reasons that hold the actor (`blocks`), and the outcomes of the
current tick (`out`). The code stores absolute ticks; the model stores the
difference to the current tick, cut off at `TickCap`, because every comparison in
the code is of that form. Each function of `action_system.cc` and each branch of
the commit loop of `simulate_weapons` is an operator from actor to actor, under
its own name where TLA+ allows. Where a projectile lands, or whether a targeted
strike finds ground (`found`), is a free choice.

**WeaponActions.** A tick is any number of `SimulateInput` steps, one
`SimulateIdle`, then `NextTick`. Between ticks the world may stagger, shelter,
block, kill or revive the actor, take its hands or change its loadout.

**ActionSession.** `ReceiveInput` is an accepted input in `poll_transport`. It
runs `prepare_server_action_intent` whole: malformed, cached, already claimed,
not newer, Busy, refused, or claimed. `FinalizeOutcome` settles one outcome a
step, `Flush` is `flush_local_action_results` and the end of the tick; its
parameter is how many packets a failing Send lets through. `hist` is history
only. The client is open: any input with any id may arrive.

**ListenHost.** `turn` is where `update()` stands: the host acts, results time out
(`Expire`, in any order, the map being unordered), ticks run, the client half
drains what they sent. Each tick has one input of the local player. Results leave
before the tick's snapshot, in one queue without loss, as `simulate_tick` and the
in-process transport do it. The rollback writes into the shared actor. A client
across a network has no player entity in its `world_`
(`src/docs/HELD_FIRE_PROJECTILE_PREDICTION_PLAN.md`), so only this mode rolls back
rounds. Beams are excluded (`HostCatalog`).

**CatalogSync.** Two queues for the reliable session channel, both cut short by a
drop and closed by a disconnect event; the client's fields; the server's fields
for this peer. Each handler of `handle_client_session_message` and
`handle_server_session_message`, the timer, the pump, and the host's three calls
(request, load, continue) is an action. `setup` is what both sides were started
with: versions, bundle offered, size limit, cached bundle.

**EntityReplication.** One client. Every handler works on one net id, and the
reliable channel keeps its order, so the channel is one queue per entity; snapshot
records already sent stay deliverable, which is loss, repetition and reordering in
one. The session introduces and takes away entities as relevance changes, within
`SpawnQuota` a snapshot; any spawn may be refused, and any ending. The code forgets an
entity whether or not its ending could be sent, so the client keeps what it was not told
the end of; `abandoned` is the set of those, and no code has it.

**InputSync.** A position is the path of moves that led to it, so steps do not
commute. The client numbers and steps its inputs, the server accepts by number,
holds the newest until a timeout, and acknowledges; the client replays what is not
acknowledged. Both channels lose, repeat and reorder. Action intents ride along.

**SnapshotSendSet, SnapshotCodec, WireFormat.** The send set is one queue, most
overdue first, packed greedily. A layout is a sequence of widths: what the encoder
writes, what the decoder asks for, the size it checks, and what each refuses. Sizes
are the real ones in bytes; values are left out unless a side checks them.

**ItemStore, GameplayRequests, InventorySync.** The store is one record and both
sides use the same operators on it, as both sides of the code use the same class.
A request is decided once and its outcome recorded under its id; one in another's name
is answered "unauthorized" and leaves no record. A tick sends the
changes since the revision a session was last sent, or the container in pages; the
client applies them or asks for a snapshot. Ranges, sight, placement and cooldowns
may refuse any request.

**Catalog modules.** The author starts from a well-formed definition and makes a
few edits of any field; the loader's rules and the kernel's rules, both
transcribed, then judge it. Numbers are classes (negative, zero, small, past the
limit, infinite, NaN). `CatalogMaps` adds what only the game server reads: a map, its
spawners with the entries walked through a carrier, patrols and their routes; a
second of an entry is a tick there and distances are whole numbers.

**DamagePipeline.** A hit lands as it is made, or flies and lands when it arrives, which
is also when a dodge has to cover it (`launch_lock_missile`). Times are ticks. A graph of
the dying may hurt everybody else (`Explodes`) or heal its body (`Mends`; whether its
conditions hold is a free choice), which then is not dead.

**The game's services.** Each machine passes over its world the way `simulate_tick`
or the game server's loop does. Geometry and physics are inputs: anybody may be
found in any volume, any shot may touch anything. `Directors` takes its turns in
the order of the agent runtime; `GameServer` sees the kernel through a bounded
number of events a turn.

## 3. Runs

| Run | Distinct states | Properties |
|---|---|---|
| `WeaponActions` | 252,617 | `TypeOK` `ReloadLatchHeld` `EndIsFinal` `CadenceKept` |
| `WeaponLiveness` | 273,056 | `NoCommitWhileHeld` `SilenceEndsAction` |
| `ActionSession` | 840,747 | `TypeOK` `ClaimIsLive` `IntentsAnswered` `CountsEffects` `RepeatRunsOnce` |
| `SessionInterrupts` | 20,336 | `RefinesActor` |
| `CatalogSync` | 5,904 | `TypeOK` `ReadyIsJoined` `NoChunkRefused` `FailureIsFinal` `SyncSettles` |
| `ListenHost` | 1,462,883 | `HostInStep` `EndHeardOnce` |
| `EntityReplication` | 102,215 | `SessionMatchesClient` `NoFalseAlarm` `ViewConverges` |
| `Inventory` | 687,433 | `Conservation` `AnswersAgree` `MirrorAgrees` `RoundsKept` |
| `Channels` | 798,844 | `InputsCount` `NoStaleInput` `PacketsAgree` `NobodyStarves` `ShotsKept` |
| `Services` | 4,116,308 | `LoadersAgree` `StatusesKept` `TriggersKept` `WoundsKept` `LifecycleKept` `PopulationKept` `RulesKept` |
| `HostMagazine` | stops at the counterexample | `RoundsConserved`, violated |
| `TakenItem` | stops at the counterexample | `TakenIsUsable`, violated |

What each run shows is its "about" in `PROJECT.json`. `WeaponActions` and
`WeaponLiveness` also check that the actor never deadlocks; the others say
`CHECK_DEADLOCK FALSE`, because they stop at a named bound or because, as in a join,
there may really be nothing left to do. Every property of a passing run has a
mutant, a faulty variant kept beside the definition it replaces ("Faulty variant"),
under which TLC finds the property violated.

### Bounds

- Actions: `TickCap` (1 or 2) cuts tick differences off; template lengths stay
  within it, so no comparison between two of them is lost. `MaxTick` (2 to 4)
  bounds the session runs: long enough to claim, commit, be interrupted, recover,
  repeat the id and be answered from the cache or after its eviction.
  `WeaponActions` has no tick bound. `IntentIds` has two ids, one to run and one to
  collide with it; `IdModulus` = 8 stands for 2^32 and {6, 7} are the top of the
  range. `CountCap` = 2: none, one, several commits. `RecentCapacity` = 1 and
  `BatchSize` = 1 make eviction and split flushes happen.
- `ListenHost`: one queued intent, a timeout of one update, updates of zero to two
  ticks, a snapshot at least every second tick; timeouts hit running actions.
- `CatalogSync`: five chunks, two a pump, so a transfer spans three pumps;
  `Timeout` = 2 updates, so the timer fires at every stage of the join.
- `EntityReplication`: the player and one other, a quota of one spawn a snapshot, no
  metadata grace, two buffered snapshots, two messages in flight about an entity,
  three ticks of change: enough to leave, come back and be overtaken.
- `Inventory`: pages of one entry, batches of two records, three requests (one of
  them repeated), one message on the way at a tick's end, a history of two changes,
  so that deltas, pages, resyncs and refusals all meet. Seven scenarios say what is
  asked for and what else may happen: parts of a stack, whole stacks with the camp's
  end, finds, charges, and weapons, exchanged, lent or swapped, with shots where the
  rounds matter. A magazine holds two rounds: a reload discards what is left in it
  (`weapon_system.cc:1001`), which a magazine of one would hide. A request that would
  make an item or a prop beyond `MaxItems` or `MaxProps` is not decided.
- `Channels`: two inputs and two in flight, a timeout of one tick, four ticks; four
  candidates for a budget of two; packets of 400 bytes, at most two of them, and two
  records each; six ticks of shots.
- `Services`: two edits of a definition (of a map: sides in steps of `TerrainGrid`, a
  carrier of half side `CarrierHalf`, an arrival radius `SpawnerEntryArrival`, route
  ids up to `MaxRouteId`, and sums of a composition that do not reach 2^32); two bodies, two active statuses, one
  refusal, three batches; two volumes, two walkers and one missile over six ticks;
  flights of two ticks against a grace of one; populations of at most three;
  five loops of the game server with two events a turn.

### Fairness

`WeaponLiveness` asks that ticks keep coming (the tick's passes and its end are
weakly fair), which is the host calling `update()`; inputs and disturbances are
under no fairness. `CatalogSync` asks weak fairness of `Timer` only, for the same
reason: nothing is assumed of the network, the server or the host's answers.
`EntityReplication` asks weak fairness of the server's ticks, of the client's
reading of its reliable channel (the transport retransmits) and of its render
clock, and strong fairness of a snapshot tick whose packets arrive: an unreliable
channel may lose any one snapshot, not all of them for ever. `NobodyStarves` is an
invariant over counted waits and needs no fairness.

## 4. Proofs

`tlapm` checks all proofs to the last leaf. They rest on the named `ASSUME`s of the
modules (templates are what `validate_action_template` accepts, ids are nonzero,
capacities, batches and pages are positive, a bundle has a chunk, a weapon is not
stacked, what lies about at the start is at most a stack, a full magazine, and as much
as the containers hold), each evaluated by TLC on its runs, and on hypotheses a theorem states
itself:

- `SingleEffects`: a reload or a strike commits once. The loader gives reloads one
  commit (`gameplay_config.cc:10008`); nothing forbids a burst strike, see section 6.
- `BeamsHold`: a beam is held without limit and can be let go of before it burns.
- `ShortIds`: ids stay short of the last of their width. At `UINT32_MAX` the
  generator stays where it is and the same id is admitted again.
- `NoStrikes`: no weapon is a targeted strike, and a reload commits once; a refused strike's result counts a
  commit that took no effect (section 6).
- `MaxPending <= RecentCapacity`: the server's cache of results is at least as long as
  the client's queue of intents (256 and 32, `kernel.cc:62`). The `ListenHost` run is at
  the boundary: one and one.
- `HostCatalog`: a tick of the listen host takes the player's input, and no weapon has a
  beam; the prediction of beams is not modelled.

`MCWeaponActions` and `MCActionSession` assert the first two of their instances,
`MCListenHost` the last; the `ActionSession` run has no strikes and goes beyond
`ShortIds`, its ids include the last.

| Theorem | States | Assumes |
|---|---|---|
| `WeaponActionsProofs!TypeCorrect` | `Spec => []TypeOK` | |
| `WeaponActionsProofs!ReloadLatchIsHeld` | `Spec => []ReloadLatchHeld` | |
| `WeaponActionsProofs!HeldCommitsNothing` | `Spec => []NoCommitWhileHeld` | |
| `WeaponActionsProofs!CadenceIsKept` | `Spec => CadenceKept` | |
| `WeaponActionsProofs!EndsAreFinal` | `Spec => []EndIsFinal` | `SingleEffects`, `BeamsHold`, `ShortIds` |
| `ListenHostProofs!TypeCorrect` | `Spec => []TypeOK` | |
| `ListenHostProofs!ClaimStaysLive` | `Spec => []ClaimIsLive` | |
| `ListenHostProofs!IntentsAreAnswered` | `Spec => []IntentsAnswered` | `SingleEffects` |
| `ListenHostProofs!RepeatsRunOnce` | `Spec => []RepeatRunsOnce` | `SingleEffects`, `ShortIds` |
| `ListenHostProofs!CountsAreEffects` | `Spec => []CountsEffects` | `NoStrikes`, `ShortIds` |
| `ListenHostProofs!ImplementsActor` | `Spec => RefinesActor` | |
| `ListenHostProofs!EndIsHeardOnce` | `HostSpec => []EndHeardOnce` | `HostCatalog`, `SingleEffects`, `MaxPending <= RecentCapacity` |
| `ListenHostProofs!HostStaysInStep` | `HostSpec => []HostInStep` | `HostCatalog`, `SingleEffects`, `MaxPending <= RecentCapacity` |
| `CatalogSyncProofs!TypeCorrect` | `Spec => []TypeOK` | |
| `CatalogSyncProofs!ReadyHasJoined` | `Spec => []ReadyIsJoined` | |
| `CatalogSyncProofs!FailureStays` | `Spec => FailureIsFinal` | |
| `CatalogSyncProofs!ChunksFit` | `Spec => NoChunkRefused` | |
| `EntityReplicationProofs!SessionIsClient` | `... => []SessionMatchesClient` | |
| `EntityReplicationProofs!AlarmsAreTrue` | `... => []NoFalseAlarm` | |
| `InputSyncProofs!InputsAreCounted` | `... => []InputsCount` | |
| `InputSyncProofs!StaleInputsMoveNothing` | `... => NoStaleInput` | |
| `InventoryProofs!AnswersAreTheRecord` | `... => []AnswersAgree` | |
| `InventoryProofs!ItemsInOnePlace` | `... => []OnePlace` | |
| `InventoryProofs!QuantitiesAreKept` | `... => []QuantitiesKept` | |
| `InventoryProofs!InventoryConserved` | `... => []Conservation` | |
| `InventoryProofs!RoundsAreKept` | `... => RoundsKept` | |
| `MirrorProofs!MirrorFollows` | `... => []MirrorAgrees` | |

**The actor.** `Sound(s)` is the inductive invariant: the type, a source weapon
while a phase is under way (`Busy`, or the template lookups mean nothing),
magazines within size, and the latch. `ActionRuntimeProofs` shows for every operator
that it keeps `Sound`, and in the same lemma (`Keeps`) that an instance which was
under way is still under way or has its end reported (`Covers`). Its second half
says what a pass reports, seen from outside: it leaves the action alone, cuts it,
begins one, turns an intent down, or commits. `EndsAreFinal` is an induction over
these shapes with a record of what may still be reported of each instance. The last
part counts: a pass speaks at most one word that becomes a result, whose count is no
less than the action's before the pass and no more than after it.

**The session.** `ClaimIsLive` says a claim is queued, under way, or has an end still
to be settled, and a pass moves a claim along that chain only because the actor never
drops an instance silently. `TypeInv` adds that the eviction order has no repeats
and indexes the cache exactly; without it an eviction could remove a result whose id
is still in the order. On top of it stand `RunInv` (what runs is what was let
through), `Alone` (at most one instance is queued, running or unsettled, and it is
the claimed one), `Answered` for `IntentsAnswered`, `History` for `RepeatRunsOnce`
(what has ended is not above the high-water id), and `Counted` for `CountsEffects`
(commits of the instance under way, of its unsettled outcomes and of its last result
are the effects counted). `ImplementsActor` maps the session's actor to
`WeaponActions` step by step: a session step is an actor step or leaves it alone.

**The listen host.** What the client half has still to read is one stream, the wire
followed by what the session has queued. `OneEnd` says that once an end of an instance
is in the stream or has been handed on, every later word of the instance is the same
result, which the client half drops when it has applied it. The server keeps that up
because the claimed instance has not ended (`ClaimOpen`) and because what it remembers
of the claim has been or will be heard (`Voiced`). The hard part is an intent that
timed out, is queued again, and whose instance ends meanwhile: `Room` counts that its
result outlasts the intents before it in the queue, one place each, and one for the
claim. `Orderly` says the outcomes of a tick are of the claim with the end last, and
`Phased` that nothing is half done between ticks and updates. The session's own
`RunInv` and `Alone` are part of the invariant, `HostInv`.

`HostInStep` needs more, `WordInv`, checked by TLC on the `ListenHost` run before it was
proved. The words of an instance form a chain (`InOrder`): the result applied, those in
the stream, the one the session remembers, each counting no less than the one before
and said at a later tick, and the remembered one is in the stream or applied. The client
half therefore drops only what it has applied already (or a result of tick 0), and when
the stream is empty, as it is between updates, it holds the last. That the server speaks
in order is `Fresh`: what was said of the claim counts no more than the action under way
and the outcomes not settled. A pass keeps it because it says one word at most
(`OneWord`), with a count between the action's before and after (`Says` in
`ActionRuntimeProofs`), and because the pass after the input finds nothing left to do
(`OneInput`). A new claim is of an instance nothing was said of (`Unheard`); that an
instance once heard of is not claimed anew, to count from zero again, is the argument of
`Room` for every instance heard of (`HeardRoom`).

**The join.** `ReadyIsJoined` relates the two ends of a channel, so the invariant
says what is in flight: of the handshake and its answer at most one is on the way,
neither before the client sent its handshake, and a welcome in flight only while the
server's session is welcomed. `ChunksFit` adds `Stage`: nothing of a transfer is on
the way, a request alone is, or the chunks on the way are those after the client's
buffer and before the server's offset.

**Replication.** The books of a session for an entity, folded over the messages on
their way, are what the client shows (`SessionIsClient`), unless it is `abandoned`, which
leaves the client showing it and nothing more to say; an alarm needs a snapshot
record of an entity without spawn or tombstone, and every record was sent in the past
of what the client has heard (`SentInPast`, `BufferFit`). The proof needs the bound
`MaxTick` to be at least 1, which the assumption states.

**Inputs.** Positions are compared as paths: the player of the client is the newest
snapshot's path followed by the moves not in it. The invariant numbers every input
and every snapshot on the way (`Numbers`), ties acknowledgements to paths
(`Acknowledged`), and says which intents are kept and carried (`Kept`, `Carried`).

**Requests.** An answer on its way, heard or to be repeated is the recorded one
(`Recorded`), whose id is recorded once, or says that a request was in another's name,
whose id is never recorded.

**The store.** `Conservation` and `RoundsKept` rest on `Stored`, in three parts.
- `Sound`: slots and items name each other, a prop carries one item, no id is given
  twice, stacks and magazines are within their limits. Without the limits a pour could
  take a stack below zero; without the ids a new item could land on an old one. Each
  operation of the store changes one item at a time, and `MovedSound` says when moving
  one item keeps `Sound`; pouring over a container's stacks, its destruction and the
  initial contents are then inductions over positions, written as recursive functions
  so that they can be unfolded step by step.
- The total of a template: changing one item changes the sum by that item's change
  (`TotalChange`), and what an action adds to `spent` is what the sum lost.
- `InStep`: between actions the hand is a copy of the weapon in the container's slot
  and the revision last seen is the current one. A request breaks this: it moves
  weapons first and has the hand rebuilt after. What holds meanwhile is `Ready`, that
  the two agree if the revision has not moved, and `Ahead`, that no slot changes
  without its revision, which is why the rebuild notices every change. The write-back
  before the rebuild is what `RoundsKept` needs: no rounds are lost in the hand, and
  none come back from the item.

`Wished` says every request decided is one that was asked, well formed; `Copied` is the
types of the cursors and of the client's copy. The proofs bound nothing but what the
model bounds.

**The mirror.** `MirrorAgrees` needs to know what a copy that is behind is a copy of.
`MirrorProofs` gives each container a history `h`, what it showed at each of its
revisions, which no variable holds: the invariant says that there is one.
- The server: the store recalls `h` (`Recalls`), its log being the last changes of it.
  Each operation of the store makes the history longer and keeps what it was
  (`Onward`). For a client to tell two containers' changes apart an item must belong to
  one of them for good (`Home`), which holds until something is taken whole from the
  camp's stock (`Told`). After that the code is wrong (`TakenItem`) and `MirrorAgrees`
  says nothing.
- The channel: a client is at a stage, the revision it lists and the pages it has of a
  newer one. Every message says what `h` says (`Tells`), and those on the way take it
  from its stage to the one the session's cursor stands for (`Reaches`), however sends
  were refused and replies cut short.
- The client: its store is a copy of what the server's was (`Mirrors`), a container
  lists the revision it claims, and is "ready", or "syncing" after a cut reply, as its
  stage says (`Stands`); the assembly holds pages of one revision (`Gathers`). The
  central lemmas replay a batch over a copy (`BatchMirrors`, an induction over its
  records, written as a recursive function) and show that the last page leaves what
  `h` has at its revision.

`Mirroring` joins these to the store's invariant. With nothing on the way the stage is
the cursor's, the cursor is the store's revision, and the copy lists what the store
does.

**Only model-checked.** `SilenceEndsAction`, `SyncSettles` and `ViewConverges` are
liveness under fairness, out of the prover's reach. `NobodyStarves`, `PacketsAgree` and
`ShotsKept` are sorts and folds over sequences of the community modules, whose facts
need induction over data. The seven properties of `Services` are about machines whose
operations are folds (and, in `Lifecycle`, a RECURSIVE pair: creating and destroying
call each other).

## 5. What the properties say of the code

Each property's comment names the behaviour. The ones a reader should know first:

- `ClaimIsLive`: the wedge described in the comment of
  `finalize_server_action_outcomes` cannot come back, in any order of events.
- `IntentsAnswered`: each intent received is answered or is the one claimed.
- `EndIsFinal`, `RepeatRunsOnce`: an instance ends once and never runs again.
- `ReadyIsJoined`, `FailureIsFinal`, `SyncSettles`: the host can trust the state
  `KernelEngine` reports for the sync.
- `HostInStep`: deciding which results are old by count and tick loses none that
  matters; the exception is a result of tick 0 with no commit, which the client half
  drops.
- `SessionMatchesClient`, `NoFalseAlarm`, `ViewConverges`: relevance over a lossy
  channel ends with the client showing what the session thinks it shows.
- `AnswersAgree`, `MirrorAgrees`: a repeated request is not run again, one in another's
  name is refused and runs never, and a mirror that claims a revision holds what the
  server held at it.
- `WoundsKept`: a dodge that covers the moment a hit lands undoes it, for a missile the
  moment it arrives; which actions count is what had been heard by then, or by the end of
  the grace period. That the sheltered and those who have just stood up are not hurt, and
  how stagger builds, is in the model and no property says it.
- `LoadersAgree`: where the loader and the kernel part ways over a definition is
  exactly the list of section 6.

## 6. Findings

Two runs show what the code does against what it says:

1. `HostMagazine`: on a listen server, letting go of a held weapon after a commit
   writes the rounds noted before the action back into the authoritative magazine
   (`kernel.cc:9099`).
2. `TakenItem`: a whole stack taken from the camp stock keeps its id; the stock's
   Remove, sent after the own container's Add, terminates the item the player now
   carries (`item_system.cc:1338`). Closing the stock has the same effect.

The rest was met while modelling or proving. It is kept here as text because no line
of the repository states the contrary plainly enough, or because a property already
names the exception.

**Actions.**
- The session orders ids by signed difference, `admit_action` by plain comparison
  (`action_system.cc:243`): after a wrap every intent passes the first and fails the
  second. At `UINT32_MAX` the generator stays and the id is admitted again.
- A targeted strike with nowhere to land is refused before anything is spent, and its
  result still counts the commit (`weapon_system.cc:1067`).
- A burst or held strike, which neither loader nor kernel forbids, reports Corrected
  for a refused commit and goes on: the session releases its claim and later commits
  follow an end.
- `EndHeardOnce` depends on the result cache being at least as long as the client's
  queue of intents (256 and 32, `kernel.cc:62`). With a longer queue an intent that
  timed out, was queued again and ended meanwhile comes back after its result has
  been evicted, is rejected anew, and its end is heard twice.
- A connection that comes up after the sync timed out makes the client send its
  handshake with the stale catalog (`kernel.cc:8255`).

**Replication.**
- `systems.cc:3543` and `kernel.cc:13998` ignore what `send_entity_despawn` returns: a
  refused despawn leaves the entity at the client for good, since the session has
  forgotten it. `SessionMatchesClient` holds of everything else and names these
  (`abandoned`).
- A projectile whose spawn went out, whose batch was refused and which was then
  destroyed leaves an entry the client cannot draw. `out_of_range_projectiles` is
  erased even when the re-entry spawn was deferred (`kernel.cc:15494`).
- The floor that the comment at `kernel.cc:420` promises of the send set does not hold
  for unit sizes, a budget of one and a weight of four. `kSnapshotMaxPacketsPerInterval`
  can be exceeded: wide timelines and full positions overrun the per-packet estimate.

**Items.**
- An Add and an Update of one item in one batch are unreadable and end in a resync. A
  refused reply to a snapshot request (`kernel.cc:8311`) leaves `resync_pending` for
  good. A tick may bring the copy up to date before the reply to its request; when
  that reply is then refused after its first page, the client says "syncing"
  (`kernel.cc:8569`) of a copy that is right, until the next change. No instance the
  run can afford reaches this; the proof attempt and a larger instance did.
  Updates are merged from the view before the batch (`kernel.cc:8633`), so a
  cooldown may be stale. `processed_gameplay_requests_` is pruned only when a peer
  leaves.

**Catalog.** Where loader and kernel disagree, `LoadersAgree` lists it:
- an impulse with a literal direction never runs (`action_graph.cc:812`), while the
  authoring guide asks for one and the client predicts it (`kernel.cc:13618`);
- projectile triggers with `apply_health_change` or an empty graph, and consumed items
  with an impulse, a pull or `remove_status`, pass the loader and fail the kernel;
- the loader's cycle check follows only mirrored first actions (`gameplay_config.cc:9600`),
  the kernel's all; `validate_derived_projectiles` skips three triggers, numeric ids
  and graph defaults;
- cone weapons without a damage cone, bounds colliders that are not boxes, homing
  shots that are not hybrid or are beams, NaN and infinite sizes; `burst_count` and
  `active_weapon_slot` 256 wrap to 0; rules of rigs, items and props that only the
  kernel has;
- a terrain's `playable_margin` that is negative or NaN passes the loader
  (`gameplay_config.cc:10569`); an entry's walk is checked against the slowest unit of
  the wave, where a speed of zero counts as "not set", so a turret beside a walker
  passes.

**World.**
- The comment at `systems.cc:2914` says exits come first; the dispatch sorts by subject
  before sequence. A dispatch is all or nothing: one graph that fails drops the whole
  tick's triggers, while who is inside has been updated.
- With the memory of batches full, an `on_expire` graph fails after its status was
  removed; no revision is published and the owner keeps showing it. A batch that fails
  midway keeps its effects and cancels its key, so a resubmission repeats them.
- An input that arrives first prunes a dodge at the edge of its window
  (`damage_pipeline.cc:65`). A hit on a corpse can land after a revive.
- A portal's exit that shares its population of one evicts the portal. A traveller
  still in the exit when the grace ends is taken back. `set_actor_template` on a
  sheltered actor loses the movement mask it is given.
- `despawn_all` misses agents spawned since the last sync, and the agent runtime stays
  frozen until they die. A squad whose group cannot be created leaves agents without
  one.
- A batch refused below the root of a chain leaves the client drawing projectiles the
  server lacks (`projectile_system.cc:1790`). A rewound piercing shot loses its hit
  (1893). A beam's damage per tick overflows 32 bits from 4295 on (`beam_system.cc:52`).
- The game server does not retry a revive the kernel refused, and stores a loadout even
  if applying it failed.

## 7. Not modelled

Left out of modelled parts: the `InputButton_Fire` path of `simulate_weapons`, which
carries no instance; the `MissingTemplate` ending of `advance_action` (a running
catalog does not unload a template); the queueing of remote presentation; the display
side of prediction (predicted action, projectiles, ammo spends); values and
quantisation in packets and collisions of their checksum; slot moves, splits and merges of
items (no caller) and drop tags; a throw that consumes (`item_gameplay_system.cc:1282`, to
the store what using an item up is, `Consume`); the rollbacks of a put-down and a throw,
which a validated catalog keeps from happening (`kernel.cc:4178`, 4239); the request id 0,
which is answered "unauthorized" as well; an area effect's own graphs; the thrower's exemption
from a prop's contacts (the model lets a prop touch anybody); steering and walk-out
entries of agents; statistics and logging.

Left out altogether: remote action presentation and lock-on (display and geometry);
the tick accumulator and the clock filter (floating-point time; their order of passes
and render tick are in the models that need them); the transports' own code, command
and RPC queues and the AI framework; physics, locomotion and terrain (floating point);
YAML syntax, LAN discovery, the C API (argument checks) and the applications' main
loops. The reasons are in `PROJECT.json` under each component.

## 8. Plan

Prove next: the single-step properties of `Statuses` and `DamagePipeline` that do not go
through a fold.

Model next: the command and RPC queues, the ring of recorded frames, the strike's
repeats, and a transport as a refinement of the channel `CatalogSync` uses.
