------------------------------ MODULE InputSync ------------------------------
(***************************************************************************)
(* One player's input on its way to the server and the answer on its way   *)
(* back.  The client sends one numbered input a tick, unreliably, and      *)
(* steps its own player at once; the server steps the player once a tick   *)
(* with the newest input it holds, and its snapshots say where the player  *)
(* is and up to which input it has gone.  The client then starts from      *)
(* there and steps the inputs that are not yet part of it once more.       *)
(*                                                                         *)
(* A position is the path that led to it: a step adds the input's move at  *)
(* its end, so that steps do not commute.  Both channels lose, repeat and  *)
(* reorder.                                                                *)
(***************************************************************************)
EXTENDS Naturals, Sequences, FiniteSets

CONSTANTS
  Moves,               \* what the stick may say, 0 for rest
  InputTimeout,        \* kInputIntentTimeoutUs, in ticks
  MaxPendingIntents,   \* kMaxPendingClientActionIntents
  MaxIntents,          \* bound: action intents the application starts
  MaxInputs,           \* bound: inputs the client sends
  MaxTicks,            \* bound: server ticks
  MaxFlight            \* bound: packets of a channel on the way

ASSUME InputAssumption ==
  /\ Moves \subseteq Nat /\ 0 \in Moves
  /\ InputTimeout \in Nat /\ MaxPendingIntents \in Nat \ {0}
  /\ {MaxIntents, MaxInputs, MaxTicks, MaxFlight} \subseteq Nat

VARIABLES
  latest,        \* latest_client_input_: [has, move, age]
  intents,       \* pending_client_action_intents_
  started,       \* the last intent the application started
  nextSeq,       \* next_client_input_seq_
  unacked,       \* pending_prediction_inputs_: sequence of [seq, move]
  predicted,     \* predicted_local_entity_.position
  heard,         \* latest_client_snapshot_: [tick, pos, ack], tick 0 for none
  session,       \* the server's PeerSession: [got, seq, held, move, age, ack]
  pending,       \* pending_inputs_
  tick, pos,     \* the server's tick and its player
  inputs, snaps, \* packets on the way
  queued         \* history: the intents the server has put in pending

inputVars == <<latest, intents, started, nextSeq, unacked, predicted, heard,
               session, pending, tick, pos, inputs, snaps, queued>>
clientVars == <<latest, intents, started, nextSeq, unacked, predicted, heard>>
serverVars == <<session, pending, tick, pos, queued>>

-----------------------------------------------------------------------------
(* The client *)

\* Past the limit a new intent is refused.
\* Faulty variant: it is always taken.
WithNewUnlimited(edge) == IF edge THEN Append(intents, started + 1) ELSE intents
WithNew(edge) ==
  IF edge /\ Len(intents) < MaxPendingIntents THEN Append(intents, started + 1) ELSE intents

\* submit_player_input: the held controls are replaced, a new intent waits its
\* turn.
submit_player_input(m, edge) ==
  /\ edge => started < MaxIntents
  /\ started' = IF edge THEN started + 1 ELSE started
  /\ intents' = WithNew(edge)
  /\ latest' = [has |-> TRUE, move |-> m, age |-> 0]
  /\ UNCHANGED <<nextSeq, unacked, predicted, heard, serverVars, inputs, snaps>>

\* emit_client_input_for_tick, process_client_input_command and
\* predict_local_input: controls nobody has refreshed are let go.
emit_client_input_for_tick ==
  /\ latest.has /\ nextSeq <= MaxInputs
  /\ LET input == [seq |-> nextSeq,
                   move |-> IF latest.age <= InputTimeout THEN latest.move ELSE 0,
                   intent |-> IF intents = <<>> THEN 0 ELSE Head(intents)]
     IN /\ unacked' = Append(unacked, [seq |-> input.seq, move |-> input.move])
        /\ predicted' = Append(predicted, input.move)
        /\ inputs' = inputs \cup {input}
  /\ Cardinality(inputs) < MaxFlight
  /\ intents' = IF intents = <<>> THEN intents ELSE Tail(intents)
  /\ nextSeq' = nextSeq + 1
  /\ latest' = [latest EXCEPT !.age = IF @ <= InputTimeout THEN @ + 1 ELSE @]
  /\ UNCHANGED <<started, heard, serverVars, snaps>>

\* The path that stepping the inputs us one after the other leads to.
Walked(path, us) == path \o [n \in 1..Len(us) |-> us[n].move]

\* reconcile_local_prediction: the inputs were pushed in the order of their
\* numbers, so the acknowledged ones are the first; the others are stepped again.
Replayed(s) ==
  LET acked == Cardinality({n \in 1..Len(unacked) : unacked[n].seq <= s.ack})
      left == SubSeq(unacked, acked + 1, Len(unacked))
  IN /\ unacked' = left
     /\ predicted' = Walked(s.pos, left)

\* handle_client_snapshot: one older than the newest is only stored.
\* Faulty variant: the player is put back to it.
HandleAnySnapshot(s) == heard' = s /\ Replayed(s)
HandleSnapshot(s) ==
  IF s.tick < heard.tick THEN UNCHANGED <<heard, unacked, predicted>>
  ELSE heard' = s /\ Replayed(s)

DeliverSnapshot ==
  /\ \E s \in snaps : HandleSnapshot(s) /\ snaps' \in {snaps, snaps \ {s}}
  /\ UNCHANGED <<latest, intents, started, nextSeq, serverVars, inputs>>

-----------------------------------------------------------------------------
(* The server *)

\* cache_server_movement_input: only an input newer than any before it counts.
Newer(input) == ~session.got \/ input.seq > session.seq

DeliverInput ==
  /\ \E i \in inputs :
       /\ inputs' \in {inputs, inputs \ {i}}
       /\ IF Newer(i)
          THEN /\ session' = [session EXCEPT !.got = TRUE, !.seq = i.seq, !.held = TRUE,
                                             !.move = i.move, !.age = 0]
               /\ pending' = Append(pending, i)
               /\ queued' = IF i.intent = 0 THEN queued ELSE Append(queued, i.intent)
          ELSE UNCHANGED <<session, pending, queued>>
  /\ UNCHANGED <<clientVars, tick, pos, snaps>>

\* build_effective_movement_inputs: what came this tick, and the held input
\* unless it has gone stale; then the newest of them moves the player and is
\* acknowledged.
\* Faulty variant: a held input never goes stale.
HoldsForever == session.held
Holds == session.held /\ session.age <= InputTimeout

Effective ==
  [n \in 1..Len(pending) |-> [seq |-> pending[n].seq, move |-> pending[n].move]]
    \o (IF Holds THEN <<[seq |-> session.seq, move |-> session.move]>> ELSE <<>>)
\* keep_newest_input_per_key: the highest number, the earliest on a tie; the
\* player rests when there is none.
Newest ==
  IF Effective = <<>> THEN [seq |-> 0, move |-> 0]
  ELSE LET n == CHOOSE n \in 1..Len(Effective) :
                  /\ \A k \in 1..Len(Effective) : Effective[k].seq <= Effective[n].seq
                  /\ \A k \in 1..(n - 1) : Effective[k].seq < Effective[n].seq
       IN Effective[n]

\* acknowledge_simulated_movement_inputs
Acked == IF Newest.seq > session.ack THEN Newest.seq ELSE session.ack

\* simulate_tick; a snapshot follows when one is due.
ServerTick ==
  /\ tick < MaxTicks
  /\ tick' = tick + 1
  /\ pos' = Append(pos, Newest.move)
  /\ session' = [session EXCEPT !.ack = Acked,
                                !.held = Holds,
                                !.move = IF Holds THEN @ ELSE 0,
                                !.age = IF @ <= InputTimeout THEN @ + 1 ELSE @]
  /\ pending' = <<>>
  /\ \/ UNCHANGED snaps
     \/ /\ Cardinality(snaps) < MaxFlight
        /\ snaps' = snaps \cup {[tick |-> tick + 1, pos |-> pos', ack |-> Acked]}
  /\ UNCHANGED <<clientVars, inputs, queued>>

\* external: either channel loses a packet.
Lose ==
  /\ \/ \E i \in inputs : inputs' = inputs \ {i} /\ UNCHANGED snaps
     \/ \E s \in snaps : snaps' = snaps \ {s} /\ UNCHANGED inputs
  /\ UNCHANGED <<clientVars, serverVars>>

-----------------------------------------------------------------------------
InputInit ==
  /\ latest = [has |-> FALSE, move |-> 0, age |-> 0]
  /\ intents = <<>> /\ started = 0
  /\ nextSeq = 1 /\ unacked = <<>> /\ predicted = <<>>
  /\ heard = [tick |-> 0, pos |-> <<>>, ack |-> 0]
  /\ session = [got |-> FALSE, seq |-> 0, held |-> FALSE, move |-> 0, age |-> 0, ack |-> 0]
  /\ pending = <<>> /\ tick = 0 /\ pos = <<>>
  /\ inputs = {} /\ snaps = {} /\ queued = <<>>

InputNext ==
  \/ \E m \in Moves, edge \in BOOLEAN : submit_player_input(m, edge)
  \/ emit_client_input_for_tick
  \/ DeliverInput
  \/ ServerTick
  \/ DeliverSnapshot
  \/ Lose

InputSpec == InputInit /\ [][InputNext]_inputVars

-----------------------------------------------------------------------------
(* Properties *)

InputTypeOK ==
  /\ latest.move \in Moves /\ session.move \in Moves
  /\ nextSeq \in 1..(MaxInputs + 1) /\ tick \in 0..MaxTicks
  /\ Len(intents) <= MaxPendingIntents
  /\ session.seq < nextSeq /\ session.ack <= session.seq

\* Where the client shows its player is where the newest snapshot it applied
\* put it, and every input sent since that snapshot's acknowledgement applied
\* once and in order: none lost, none twice, whatever the network did
\* (reconcile_local_prediction).
PredictionIsReplay ==
  /\ predicted = Walked(heard.pos, unacked)
  /\ [n \in 1..Len(unacked) |-> unacked[n].seq]
       = [n \in 1..(nextSeq - 1 - heard.ack) |-> heard.ack + n]

\* The player is never moved by an input older than one that moved it before,
\* and a silent player is let go: late and repeated packets change nothing
\* (cache_server_movement_input, build_effective_movement_inputs).
NoStaleInput ==
  [][pos' \notin {pos, Append(pos, 0)} =>
       /\ Newest.seq >= session.ack
       /\ pending # <<>> \/ session.age <= InputTimeout]_inputVars

\* The intents the server queues are queued once each and in the order the
\* application started them; one whose input was lost or overtaken is gone
\* (emit_client_input_for_tick, cache_server_movement_input).
IntentsInOrder == \A n \in 1..Len(queued) - 1 : queued[n] < queued[n + 1]

\* Nothing the player did is lost or done twice: neither its moves where its
\* own view is concerned, nor its intents where the server's queue is.
InputsCount == InputTypeOK /\ PredictionIsReplay /\ IntentsInOrder
=============================================================================
