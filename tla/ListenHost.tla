------------------------------- MODULE ListenHost -------------------------------
(***************************************************************************)
(* The player of a listen server: client and server half in one engine,    *)
(* over one world and an in-process transport that loses nothing.  It is   *)
(* the one mode in which the client half finds its player's weapon in the  *)
(* world, and so the one in which a result or a timeout rolls it back.     *)
(*                                                                         *)
(* ActionSession is the server half.  An update() is: the timeouts, a      *)
(* number of ticks, each with one input of the local player, then all the  *)
(* events the ticks sent to the local client.  The host application acts   *)
(* between updates.                                                        *)
(*                                                                         *)
(* Left out is what is predicted for display only: the predicted action    *)
(* and its cooldown, predicted projectiles, and the predicted spends of    *)
(* rounds, which local_weapon_state() does not read on a server.  Beams    *)
(* are left out too: no weapon has one, so active_effect_net_id, which a   *)
(* rollback also writes, is 0 throughout.                                  *)
(***************************************************************************)
EXTENDS ActionSession

CONSTANTS
  MaxPending,       \* kMaxPendingClientActionIntents
  ResultTimeout,    \* updates until kLocalActionResultTimeoutUs has passed
  TicksPerUpdate,   \* max_ticks_per_update
  SnapshotInterval  \* snapshot_interval_ticks()

ASSUME HostAssumption ==
  /\ MaxPending \in Nat /\ ResultTimeout \in Nat
  /\ TicksPerUpdate \in Nat /\ SnapshotInterval \in Nat \ {0}

\* The catalogs the host's half is modelled for: a tick takes the player's input,
\* and no weapon has a beam.
HostCatalog ==
  /\ MaxInputsPerTick >= 1
  /\ \A w \in Weapons : FireMode[w] # "Beam"

VARIABLES
  own,   \* the client half's bookkeeping, see InitOwner
  wire,  \* server_to_client_: results and snapshots for the local client
  turn,  \* "host", "expire", "ticks" or "drain": where update() is
  left,  \* ticks this update still has to run
  fired  \* history: rounds each weapon has spent in a weapon pass

hostVars == <<own, wire, turn, left, fired>>
allVars == <<vars, hostVars>>

NoSnapshot == -1

\* pending: pending_client_action_intents_; outstanding and applied: the maps
\* of that name; baseline: the tick of latest_client_snapshot_; ends: history,
\* how many terminal results of each instance were handed on.
InitOwner ==
  [pending |-> << >>, outstanding |-> << >>, applied |-> << >>,
   baseline |-> NoSnapshot, ends |-> [i \in Ids |-> 0]]

\* start_listen_server publishes a first snapshot and reads it.
HostInit ==
  /\ Init
  /\ own = [InitOwner EXCEPT !.baseline = 0]
  /\ wire = << >> /\ turn = "host" /\ left = 0
  /\ fired = [w \in Weapons |-> 0]

Without(f, S) == [i \in DOMAIN f \ S |-> f[i]]
With(f, i, v) == [j \in DOMAIN f \cup {i} |-> IF j = i THEN v ELSE f[j]]

-----------------------------------------------------------------------------
(* submit_player_input and the input of a tick.                            *)

\* Faulty variant: an answered instance may be submitted again.
KnownUnanswered(i) ==
  \/ \E k \in DOMAIN own.pending : own.pending[k].intent.id = i
  \/ i \in DOMAIN own.outstanding

\* An id already queued, under way or answered is not queued again.
Known(i) ==
  \/ \E k \in DOMAIN own.pending : own.pending[k].intent.id = i
  \/ i \in DOMAIN own.outstanding
  \/ i \in DOMAIN own.applied

\* Faulty variant: the queue has no limit.
SubmitAny(intent, weapon) ==
  /\ turn = "host" /\ tick < MaxTick
  /\ ~Known(intent.id)
  /\ own' = [own EXCEPT !.pending =
               Append(@, [intent |-> intent, selected |-> weapon])]
  /\ UNCHANGED <<vars, wire, turn, left, fired>>

submit_player_input(intent, weapon) ==
  /\ turn = "host" /\ tick < MaxTick
  /\ ~Known(intent.id) /\ Len(own.pending) < MaxPending
  /\ own' = [own EXCEPT !.pending =
               Append(@, [intent |-> intent, selected |-> weapon])]
  /\ UNCHANGED <<vars, wire, turn, left, fired>>

\* What is noted of an intent when it goes out; one already outstanding keeps
\* its entry and is heard from now.
Outstanding(intent, weapon) ==
  IF intent.id \in DOMAIN own.outstanding
  THEN [own.outstanding[intent.id] EXCEPT !.age = 0]
  ELSE [age |-> 0, confirmed |-> 0, binding |-> intent.binding,
        weapon |-> weapon, terminal |-> FALSE,
        ammo |-> IF weapon \in actor.equipped THEN actor.ammo[weapon] ELSE 0]

\* emit_client_input_for_tick, process_client_input_command and the server's
\* reading of the input.  hold and weapon are the latest frame's; an intent in
\* the queue brings its own weapon.  Until the first submit no input goes out;
\* an input without intent or hold stands for that.
Emit(holdId, held, weapon) ==
  LET edge == IF own.pending = << >> THEN [intent |-> NoIntent, selected |-> weapon]
              ELSE Head(own.pending)
      in == [intent |-> edge.intent, selected |-> edge.selected,
             holdId |-> holdId, held |-> held]
      i == edge.intent.id
  IN /\ turn = "ticks" /\ left > 0 /\ inputs = << >>
     /\ ReceiveInput(in)
     /\ own' = [own EXCEPT
          !.pending = IF @ = << >> THEN @ ELSE Tail(@),
          !.outstanding = IF i = 0 THEN @
                          ELSE With(@, i, Outstanding(edge.intent, edge.selected))]
     /\ UNCHANGED <<wire, turn, left, fired>>

-----------------------------------------------------------------------------
(* The tick.                                                               *)

Spent(w) == IF actor'.ammo[w] < actor.ammo[w] THEN actor.ammo[w] - actor'.ammo[w] ELSE 0

\* The weapon passes: the input, then the closing pass.
Simulate ==
  /\ turn = "ticks"
  /\ SimulateInput \/ (stage = "simulate" /\ SimulateIdle)
  /\ fired' = [w \in Weapons |-> fired[w] + Spent(w)]
  /\ UNCHANGED <<own, wire, turn, left>>

Finalize ==
  /\ turn = "ticks" /\ FinalizeOutcome
  /\ UNCHANGED hostVars

\* A snapshot leaves on its ticks, and when something else asks for one.
Snapshot == [type |-> "Snapshot", tick |-> tick, action |-> actor.id]

\* The end of the tick: results first, then the snapshot.  No Send fails.
EndTick(snapshot) ==
  LET all == (Len(session.pending) + BatchSize - 1) \div BatchSize
  IN /\ turn = "ticks"
     /\ tick % SnapshotInterval = 0 => snapshot
     /\ Flush(all)
     /\ wire' = wire \o Sent(all) \o (IF snapshot THEN <<Snapshot>> ELSE << >>)
     /\ left' = left - 1
     /\ UNCHANGED <<own, turn, fired>>

\* The world between two ticks.
Disturbed ==
  /\ turn = "ticks" /\ left > 0 /\ inputs = << >>
  /\ Stagger \/ Steady \/ TakeHands \/ Die \/ Revive
  /\ UNCHANGED hostVars

-----------------------------------------------------------------------------
(* The client half.                                                        *)

\* What a rollback writes into the world's WeaponState.
RollBack(s, o) ==
  [s EXCEPT !.ammo = [w \in Weapons |-> IF w = o.weapon /\ w \in s.equipped
                                        THEN o.ammo ELSE @[w]]]

ActorOnly(s) ==
  /\ actor' = s
  /\ UNCHANGED <<session, inputs, stage, taken, settled, tick, hist>>

\* The head of update(): time passes for what is outstanding.
StartUpdate(ticks) ==
  /\ turn = "host" /\ tick + ticks <= MaxTick
  /\ turn' = "expire" /\ left' = ticks
  /\ own' = [own EXCEPT !.outstanding =
               [i \in DOMAIN @ |->
                  [@[i] EXCEPT !.age = MinOf(ResultTimeout + 1, own.outstanding[i].age + 1)]]]
  /\ UNCHANGED <<vars, wire, fired>>

Overdue == {i \in DOMAIN own.outstanding : own.outstanding[i].age > ResultTimeout}

\* Nothing came back for it in time.  The map is unordered.
Expire(i) ==
  /\ turn = "expire" /\ i \in Overdue
  /\ ActorOnly(RollBack(actor, own.outstanding[i]))
  /\ own' = [own EXCEPT !.outstanding = Without(@, {i})]
  /\ UNCHANGED <<wire, turn, left, fired>>

StartTicks ==
  /\ turn = "expire" /\ Overdue = {}
  /\ turn' = "ticks"
  /\ UNCHANGED <<vars, own, wire, left, fired>>

StopTicks ==
  /\ turn = "ticks" /\ left = 0
  /\ turn' = "drain"
  /\ UNCHANGED <<vars, own, wire, left, fired>>

Terminal(r) == r.type \in {"Rejected", "Corrected"}

\* Faulty variant: a later tick is not news.
OldByCount(r) ==
  r.id \in DOMAIN own.applied /\ r.count <= own.applied[r.id].count

\* A result older than the one applied.  The code's second check, against the
\* results the application has not polled yet, finds none this one lets through.
Old(r) ==
  /\ r.id \in DOMAIN own.applied
  /\ \/ r.count < own.applied[r.id].count
     \/ r.count = own.applied[r.id].count /\ r.tick <= own.applied[r.id].tick

\* A result older than what the outstanding entry has counted.
Behind(r, o) == r.count < o.confirmed \/ (r.count = o.confirmed /\ r.tick = 0)

\* An Accepted result that was the action's last.
CompletesFinite(r, o) ==
  /\ r.type = "Accepted" /\ o.weapon \in Weapons
  /\ LET max == TemplateFor(o.weapon, o.binding).maxCommits
     IN max # 0 /\ r.count >= max

Drop == UNCHANGED <<own, vars>>

Take(r) ==
  LET i == r.id
      known == i \in DOMAIN own.outstanding
      o == own.outstanding[i]
      covered == own.baseline >= r.tick
      done == CompletesFinite(r, o) \/ (Terminal(r) /\ covered)
      heard == [o EXCEPT !.age = 0, !.confirmed = r.count,
                         !.terminal = @ \/ Terminal(r)]
  IN /\ own' = [own EXCEPT
          !.applied = With(@, i, r),
          !.ends[i] = IF Terminal(r) THEN @ + 1 ELSE @,
          !.outstanding = IF ~known THEN @
                          ELSE IF done THEN Without(@, {i}) ELSE With(@, i, heard)]
     /\ ActorOnly(IF known /\ Terminal(r) /\ ~covered THEN RollBack(actor, o)
                  ELSE actor)

handle_client_local_action_result(r) ==
  IF Old(r) \/ (r.id \in DOMAIN own.outstanding /\ Behind(r, own.outstanding[r.id]))
  THEN Drop ELSE Take(r)

\* What reconcile_local_prediction finds settled: answered, covered by the
\* snapshot, and no longer the actor's action.
Reconciled(m) ==
  {i \in DOMAIN own.outstanding \cap DOMAIN own.applied :
     /\ m.tick >= own.applied[i].tick /\ m.action # i
     /\ \/ own.outstanding[i].terminal
        \/ own.outstanding[i].confirmed >= own.applied[i].count}

handle_client_snapshot(m) ==
  /\ own' = IF m.tick < own.baseline THEN own
            ELSE [own EXCEPT !.baseline = m.tick,
                             !.outstanding = Without(@, Reconciled(m))]
  /\ UNCHANGED vars

\* poll_client_transport
Drain ==
  /\ turn = "drain" /\ wire # << >>
  /\ IF Head(wire).type = "Snapshot" THEN handle_client_snapshot(Head(wire))
     ELSE handle_client_local_action_result(Head(wire))
  /\ wire' = Tail(wire)
  /\ UNCHANGED <<turn, left, fired>>

EndUpdate ==
  /\ turn = "drain" /\ wire = << >>
  /\ turn' = "host"
  /\ UNCHANGED <<vars, own, wire, left, fired>>

-----------------------------------------------------------------------------
HostNext ==
  \/ \E intent \in [id: IntentIds, binding: Bindings], w \in Arms :
       submit_player_input(intent, w)
  \/ \E ticks \in 0..TicksPerUpdate : StartUpdate(ticks)
  \/ \E i \in Ids : Expire(i)
  \/ StartTicks \/ StopTicks
  \/ \E holdId \in IntentIds \cup {0}, held \in BOOLEAN, w \in Arms :
       Emit(holdId, held, w)
  \/ Simulate
  \/ Finalize
  \/ \E snapshot \in BOOLEAN : EndTick(snapshot)
  \/ Disturbed
  \/ Drain
  \/ EndUpdate

HostSpec == HostInit /\ [][HostNext]_allVars

-----------------------------------------------------------------------------
(* Properties.                                                             *)

OutstandingType ==
  [age: 0..(ResultTimeout + 1), confirmed: Counts, binding: Bindings, weapon: Arms,
   terminal: BOOLEAN, ammo: Nat]

\* The client half's fields have their types, and the queue of intents is within
\* kMaxPendingClientActionIntents.
HostTypeOK ==
  /\ DOMAIN own.outstanding \subseteq Ids /\ DOMAIN own.applied \subseteq Ids
  /\ \A i \in DOMAIN own.outstanding : own.outstanding[i] \in OutstandingType
  /\ \A i \in DOMAIN own.applied : own.applied[i] \in Results
  /\ Len(own.pending) <= MaxPending
  /\ own.baseline \in {NoSnapshot} \cup 0..MaxTick
  /\ turn \in {"host", "expire", "ticks", "drain"} /\ left \in 0..TicksPerUpdate
  /\ fired \in [Weapons -> Nat]

\* After an update the client half has the server's last word on every
\* instance the server still remembers: no result that says more than the one
\* applied is dropped as old, timeouts and resubmissions included
\* (handle_client_local_action_results).  A result of tick 0 is left out: Behind
\* takes it for one without a tick and drops it.  The fields keep their types.
HostInStep ==
  /\ HostTypeOK
  /\ turn = "host" =>
       \A i \in DOMAIN session.recent :
         session.recent[i].tick > 0 =>
           i \in DOMAIN own.applied /\ own.applied[i] = session.recent[i]

\* The application hears the end of an instance at most once
\* (docs/ACTION_ANIMATION_SYNC_POLICY.md 15.1: duplicate input and duplicate
\* result do not create duplicate commits or animations).
EndHeardOnce == \A i \in Ids : own.ends[i] <= 1

\* Rounds come out of magazines only: what a weapon holds, has in reserve and
\* has fired never exceeds what it started with.
RoundsConserved ==
  \A w \in Weapons :
    actor.ammo[w] + MagazineSize[w] * actor.reserve[w] + fired[w]
      <= MagazineSize[w] * (1 + ReserveMagazines[w])
=============================================================================
