----------------------------- MODULE ActionSession -----------------------------
(***************************************************************************)
(* A player's session on the server, between the network and the actor's   *)
(* simulation: prepare_server_action_intent filters what poll_transport    *)
(* received, simulate_tick runs the weapon passes, and                     *)
(* finalize_server_action_outcomes and flush_local_action_results turn     *)
(* what they report into results for the owner.                            *)
(*                                                                         *)
(* The session claims an instance when it forwards its intent, before the  *)
(* simulation has had a say, and gives the claim up when an outcome ends   *)
(* the instance.  The client is left open: any accepted input may come,    *)
(* with any id, old or new.                                                *)
(***************************************************************************)
EXTENDS ActionRuntime

CONSTANTS
  IntentIds,        \* the instance ids the inputs use (bounds the model)
  MaxInputsPerTick, \* how many inputs one tick may bring (bounds the model)
  MaxTick,          \* the last tick simulated (bounds the model)
  Disturbances,     \* what may interrupt the actor (bounds the model)
  RecentCapacity,   \* kRecentActionResultCapacity
  BatchSize         \* results one packet holds (max_results_per_packet)

ASSUME SessionAssumption ==
  /\ IntentIds \subseteq Ids \ {0}
  /\ MaxInputsPerTick \in Nat /\ MaxTick \in Nat
  /\ Disturbances \subseteq {"Stagger", "Hands", "Death"}
  /\ RecentCapacity \in Nat \ {0} /\ BatchSize \in Nat \ {0}

VARIABLES
  actor,    \* the actor, see InitActor
  session,  \* the PeerSession's action fields, see InitSession
  inputs,   \* pending_inputs_: what the next passes simulate
  stage,    \* "poll", "simulate" or "finalize" within a tick
  taken,    \* inputs the current tick has simulated
  settled,  \* outcomes of the current tick finalize has dealt with
  tick,     \* current_tick
  hist      \* history: what happened to each instance, see InitHistory

vars == <<actor, session, inputs, stage, taken, settled, tick, hist>>

Result(id, count, type, reason) ==
  [id |-> id, count |-> count, type |-> type, reason |-> reason, tick |-> tick]

Endings == {"Completed", "Corrected"}

InitSession ==
  [claim |-> 0, highWater |-> 0, recent |-> << >>, order |-> << >>,
   pending |-> << >>]

\* seen: intents received; answered: instances a result was queued for;
\* commits: how many commits of an instance took effect; ended: instances
\* whose end was reported in an earlier tick.
InitHistory == [seen |-> {}, answered |-> {}, ended |-> {},
                commits |-> [i \in Ids |-> 0]]

Init ==
  /\ \E w \in Weapons : actor = InitActor(w)
  /\ session = InitSession
  /\ inputs = << >> /\ stage = "poll" /\ taken = 0 /\ settled = 0
  /\ tick = 0 /\ hist = InitHistory

-----------------------------------------------------------------------------
(* Results.                                                                *)

\* Faulty variants: an eviction that forgets the queue and not the result, and
\* a cache that keeps the first result of an instance.
RememberForEver(ses, r) ==
  LET order == IF r.id \in DOMAIN ses.recent THEN ses.order
               ELSE Append(ses.order, r.id)
  IN [ses EXCEPT
        !.order = IF Len(order) > RecentCapacity THEN Tail(order) ELSE order,
        !.recent = [i \in DOMAIN @ \cup {r.id} |-> IF i = r.id THEN r ELSE @[i]]]
RememberFirst(ses, r) ==
  IF r.id \in DOMAIN ses.recent THEN ses
  ELSE [ses EXCEPT !.order = <<r.id>>, !.recent = [i \in {r.id} |-> r]]

\* The cache of the latest result of each recent instance.
Remember(ses, r) ==
  LET new == r.id \notin DOMAIN ses.recent
      order == IF new THEN Append(ses.order, r.id) ELSE ses.order
      full == Len(order) > RecentCapacity
      known == (DOMAIN ses.recent \cup {r.id}) \ (IF full THEN {Head(order)} ELSE {})
  IN [ses EXCEPT !.order = IF full THEN Tail(order) ELSE order,
                 !.recent = [i \in known |-> IF i = r.id THEN r ELSE ses.recent[i]]]

SameResult(r, q) == [r EXCEPT !.reason = q.reason] = q

queue_local_action_result(ses, r) ==
  LET a == Remember(ses, r)
  IN IF \E k \in DOMAIN a.pending : SameResult(a.pending[k], r) THEN a
     ELSE [a EXCEPT !.pending = Append(@, r)]

-----------------------------------------------------------------------------
(* poll_transport: an accepted input.                                      *)

\* Faulty variant: any other id counts as newer.
OtherId(id, than) == id # than

\* The signed difference of two ids of wrapping unsigned width is positive.
NewerId(id, than) == (id - than) % IdModulus \in 1..((IdModulus - 1) \div 2)

\* What the session can tell from the actor as it stands now.
SessionRefusal(s, intent, weapon) ==
  IF ~s.alive THEN "Dead"
  ELSE IF weapon \notin s.equipped THEN "MissingTemplate"
  ELSE IF intent.binding = "PrimaryFire"
       THEN IF s.reloading THEN "Reloading"
            ELSE IF s.ammo[weapon] < FireTemplate[weapon].cost THEN "NoAmmo"
            ELSE IF projected_primary_commit_is_blocked(s, weapon)
                 THEN "Cooldown" ELSE "None"
  ELSE IF s.ammo[weapon] >= MagazineSize[weapon] \/ s.reserve[weapon] = 0
       THEN "EffectFailed" ELSE "None"

\* The session after the intent, and whether the input keeps it.
Dropped(ses) == [session |-> ses, kept |-> FALSE]
Reject(ses, intent, reason) ==
  Dropped(queue_local_action_result(
            ses, Result(intent.id, 0, "Rejected", reason)))

prepare_server_action_intent(ses, s, intent, weapon) ==
  LET i == intent.id
      marked == [ses EXCEPT !.highWater = i]
      refusal == SessionRefusal(s, intent, weapon)
  IN IF i = 0 THEN [session |-> ses, kept |-> TRUE]
     ELSE IF intent.binding = Malformed THEN Reject(ses, intent, "InvalidActionId")
     ELSE IF i \in DOMAIN ses.recent
     THEN Dropped(queue_local_action_result(ses, ses.recent[i]))
     ELSE IF ses.claim = i THEN Dropped(ses)
     ELSE IF ses.highWater # 0 /\ ~NewerId(i, ses.highWater)
     THEN Reject(ses, intent, "InvalidActionId")
     ELSE IF ses.claim # 0 THEN Reject(marked, intent, "Busy")
     ELSE IF refusal # "None" THEN Reject(marked, intent, refusal)
     ELSE [session |-> [marked EXCEPT !.claim = i], kept |-> TRUE]

ReceiveInput(in) ==
  LET p == prepare_server_action_intent(session, actor, in.intent, in.selected)
      i == in.intent.id
  IN /\ stage = "poll" /\ Len(inputs) < MaxInputsPerTick /\ tick < MaxTick
     /\ session' = p.session
     /\ inputs' = Append(inputs, [in EXCEPT !.intent = IF p.kept THEN @ ELSE NoIntent])
     /\ hist' = [hist EXCEPT !.seen = @ \cup ({i} \ {0}),
                             !.answered = @ \cup DOMAIN p.session.recent]
     /\ UNCHANGED <<actor, stage, taken, settled, tick>>

-----------------------------------------------------------------------------
(* simulate_tick.                                                          *)

SimulateInput ==
  /\ stage \in {"poll", "simulate"} /\ inputs # << >>
  /\ \E found \in BOOLEAN : actor' = WeaponPass(actor, Head(inputs), found)
  /\ inputs' = Tail(inputs) /\ taken' = taken + 1
  /\ stage' = "simulate"
  /\ UNCHANGED <<session, settled, tick, hist>>

\* Faulty variant: a tick that got its input runs no closing pass.
SkipIdle ==
  /\ stage \in {"poll", "simulate"} /\ inputs = << >> /\ tick < MaxTick
  /\ stage' = "finalize"
  /\ UNCHANGED <<actor, session, inputs, taken, settled, tick, hist>>

SimulateIdle ==
  /\ stage \in {"poll", "simulate"} /\ inputs = << >> /\ tick < MaxTick
  /\ \E found \in BOOLEAN : actor' = IdlePass(actor, found)
  /\ stage' = "finalize"
  /\ UNCHANGED <<session, inputs, taken, settled, tick, hist>>

ResultType(type) ==
  CASE type = "Committed" -> "Accepted"
    [] type = "Corrected" -> "Corrected"
    [] OTHER -> "Rejected"

\* Faulty variants: a refusal that keeps the claim, and a refusal nobody is told
\* of.
SettleEndings(ses, o) ==
  LET told == queue_local_action_result(
                ses, Result(o.id, o.count, ResultType(o.type), o.reason))
  IN IF o.type \in Endings /\ ses.claim = o.id THEN [told EXCEPT !.claim = 0]
     ELSE told
SettleSilently(ses, o) ==
  LET told == IF o.type \in {"Admitted", "Completed", "Rejected"} THEN ses
              ELSE queue_local_action_result(
                     ses, Result(o.id, o.count, ResultType(o.type), o.reason))
  IN IF Ends(o) /\ ses.claim = o.id THEN [told EXCEPT !.claim = 0] ELSE told

\* The body of finalize_server_action_outcomes.
Settle(ses, o) ==
  LET told == IF o.type \in {"Admitted", "Completed"} THEN ses
              ELSE queue_local_action_result(
                     ses, Result(o.id, o.count, ResultType(o.type), o.reason))
  IN IF Ends(o) /\ ses.claim = o.id THEN [told EXCEPT !.claim = 0] ELSE told

FinalizeOutcome ==
  /\ stage = "finalize" /\ settled < Len(actor.out)
  /\ LET o == actor.out[settled + 1]
     IN /\ session' = Settle(session, o)
        /\ hist' = [hist EXCEPT
             !.answered = @ \cup DOMAIN Settle(session, o).recent,
             !.commits[o.id] = IF o.type = "Committed" THEN @ + 1 ELSE @]
  /\ settled' = settled + 1
  /\ UNCHANGED <<actor, inputs, stage, taken, tick>>

\* flush_local_action_results: the results that get onto the wire when the
\* first "batches" packets are sent, and what stays pending.  A Send that fails
\* leaves every result pending, the batches already sent among them.
Batches == 0..((Len(session.pending) + BatchSize - 1) \div BatchSize)
Sent(batches) ==
  SubSeq(session.pending, 1, MinOf(Len(session.pending), batches * BatchSize))

\* The flush and the end of the tick.
Flush(batches) ==
  /\ stage = "finalize" /\ settled = Len(actor.out)
  /\ session' = [session EXCEPT !.pending =
                   IF Len(Sent(batches)) = Len(@) THEN << >> ELSE @]
  /\ hist' = [hist EXCEPT !.ended = @ \cup {actor.out[k].id : k \in
                {j \in DOMAIN actor.out : actor.out[j].type \in Endings}}]
  /\ actor' = TickOver(actor)
  /\ stage' = "poll" /\ taken' = 0 /\ settled' = 0 /\ tick' = tick + 1
  /\ UNCHANGED inputs

-----------------------------------------------------------------------------
(* The world reaches the actor between two ticks' passes.                  *)

World(s) ==
  /\ stage = "poll" /\ actor' = s
  /\ UNCHANGED <<session, inputs, stage, taken, settled, tick, hist>>

Stagger ==
  /\ "Stagger" \in Disturbances /\ actor.alive /\ "Staggered" \notin actor.blocks
  /\ World(Staggered(actor))
Steady == "Staggered" \in actor.blocks /\ World(Unblocked(actor, "Staggered"))
TakeHands == "Hands" \in Disturbances /\ World(HandsTaken(actor))
Die == "Death" \in Disturbances /\ actor.alive /\ World(Killed(actor))
Revive == ~actor.alive /\ World(Revived(actor))

Server ==
  \/ SimulateInput
  \/ SimulateIdle
  \/ FinalizeOutcome
  \/ \E batches \in Batches : Flush(batches)

Next ==
  \/ \E in \in Inputs(IntentIds \cup {0}) : ReceiveInput(in)
  \/ Server
  \/ Stagger \/ Steady \/ TakeHands \/ Die \/ Revive

Spec == Init /\ [][Next]_vars

-----------------------------------------------------------------------------
(* Properties.                                                             *)

Results ==
  [id: Ids, count: Counts, type: {"Accepted", "Corrected", "Rejected"},
   reason: Reasons, tick: 0..MaxTick]

\* The session's fields have their types, and the cache of recent results is
\* indexed by exactly the ids in its eviction order and within its capacity.
TypeOK ==
  /\ session.claim \in Ids /\ session.highWater \in Ids
  /\ DOMAIN session.recent = {session.order[k] : k \in DOMAIN session.order}
  /\ Len(session.order) <= RecentCapacity
  /\ \A i \in DOMAIN session.recent :
       session.recent[i] \in Results /\ session.recent[i].id = i
  /\ session.pending \in Seq(Results)
  /\ stage \in {"poll", "simulate", "finalize"}
  /\ taken \in 0..MaxInputsPerTick /\ tick \in 0..MaxTick
  /\ settled \in 0..Len(actor.out)

\* Something that will still give a claim of i up.
EndToCome(i) ==
  \/ \E k \in DOMAIN inputs : inputs[k].intent.id = i
  \/ InProgress(actor) /\ actor.id = i
  \/ \E k \in (settled + 1)..Len(actor.out) :
       actor.out[k].id = i /\ Ends(actor.out[k])

\* The wedge finalize_server_action_outcomes warns of: a claim nothing will
\* ever release makes the session refuse every later intent as Busy while the
\* actor sits idle.  Every claim is queued, under way or about to be released.
ClaimIsLive == session.claim # 0 => EndToCome(session.claim)

\* The other direction: the action under way is the one the session claims,
\* so a second intent is refused as Busy before it reaches the simulation.
ActionIsClaimed == InProgress(actor) => session.claim = actor.id

\* Every intent the server took in has been answered or holds the claim: no
\* path through the filter, the passes and finalize loses one
\* (docs/ACTION_ANIMATION_SYNC_POLICY.md 5.2).
NoIntentForgotten == hist.seen \subseteq hist.answered \cup {session.claim}

\* Session and actor agree about what is under way, and nobody waits for an
\* answer that nothing will give.
IntentsAnswered == ActionIsClaimed /\ NoIntentForgotten

\* An instance whose end was reported never runs again, however often its
\* intent is repeated and whatever the cache has forgotten (same, 6.2: repeated
\* input must not produce duplicate authoritative commits).
RepeatRunsOnce ==
  \A k \in DOMAIN actor.out :
    actor.out[k].id \in hist.ended => actor.out[k].type = "Rejected"

\* A result that is not a refusal counts the commits that took effect: the
\* owner keeps exactly that many predicted spends
\* (handle_client_local_action_results, drop_predicted_ammo_spends).
CountsEffects ==
  \A i \in DOMAIN session.recent :
    session.recent[i].type # "Rejected" =>
      session.recent[i].count = MinOf(CountCap, hist.commits[i])

\* The actor behaves as WeaponActions says, whatever the session lets through:
\* the theorems about the actor hold in the server.
Actor == INSTANCE WeaponActions WITH
  stage <- CASE stage = "poll" -> "between"
             [] stage = "simulate" -> "inputs"
             [] OTHER -> "done",
  ended <- hist.ended, Disturbances <- {"Staggered"}, Loadouts <- {}
RefinesActor == Actor!Init /\ [][Actor!Next]_(Actor!vars)
=============================================================================
