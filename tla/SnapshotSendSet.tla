--------------------------- MODULE SnapshotSendSet ---------------------------
(***************************************************************************)
(* Which of the records a session may be sent go into one interval's       *)
(* packets: one queue over the whole relevant population, most overdue     *)
(* first, packed greedily into a byte budget.  The receiving player's own  *)
(* record is always first and is taken off the budget here.                *)
(***************************************************************************)
EXTENDS Naturals, Sequences, FiniteSets, SequencesExt

CONSTANTS
  Candidates,          \* net ids in the relevant population, in use throughout
  SizeOf,              \* [Candidates -> estimate_snapshot_entity_size]
  ByteBudget,          \* what the own player's record leaves of the interval
  Weights,             \* the values entity_send_weight takes
  MaxSnapshotsWithoutSend,
  MaxAge               \* bound: where a wait stops being counted

ASSUME SendSetAssumption ==
  /\ Candidates \subseteq Nat
  /\ SizeOf \in [Candidates -> Nat \ {0}]
  /\ \A e \in Candidates : SizeOf[e] <= ByteBudget
  /\ Weights \subseteq Nat \ {0}
  /\ MaxSnapshotsWithoutSend \in Nat \ {0}
  /\ MaxAge \in Nat /\ MaxAge > MaxSnapshotsWithoutSend

\* snapshot_send_sequence - last_sent_sequence, as the next send set sees it.
VARIABLE age

SendSetTypeOK == age \in [Candidates -> 1..MaxAge]

\* Nothing has been sent: every stamp is 0 and the first sequence is 1.
SendSetInit == age = [e \in Candidates |-> 1]

\* The order of the queue under the weights of this snapshot.
\* Faulty variant: no floor under the weights.
WeightOnly(e, f, weight) ==
  \/ age[e] * weight[e] > age[f] * weight[f]
  \/ age[e] * weight[e] = age[f] * weight[f] /\ e < f
Before(e, f, weight) ==
  LET Overdue(g) == age[g] >= MaxSnapshotsWithoutSend
      priority == [g \in Candidates |-> age[g] * weight[g]]
  IN \/ Overdue(e) /\ ~Overdue(f)
     \/ Overdue(e) = Overdue(f) /\ priority[e] > priority[f]
     \/ Overdue(e) = Overdue(f) /\ priority[e] = priority[f] /\ e < f

\* The greedy packing: a record that does not fit is passed over, and the ones
\* behind it are still tried.
Pack(queue) ==
  FoldLeft(LAMBDA acc, e :
             IF acc.used + SizeOf[e] > ByteBudget THEN acc
             ELSE [acc EXCEPT !.used = @ + SizeOf[e], !.sent = @ \cup {e}],
           [used |-> 0, sent |-> {}], queue)

\* The stamps are rebuilt: who was sent waits from this sequence on, who was not
\* keeps its stamp.
Aged(sent) ==
  [e \in Candidates |-> IF e \in sent THEN 1
                        ELSE IF age[e] < MaxAge THEN age[e] + 1 ELSE MaxAge]

\* The weights change between snapshots: entities act and come near or go far.
build_snapshot_send_set ==
  \E weight \in [Candidates -> Weights] :
    LET queue == SetToSortSeq(Candidates, LAMBDA e, f : Before(e, f, weight))
    IN age' = Aged(Pack(queue).sent)

SendSetSpec == SendSetInit /\ [][build_snapshot_send_set]_age
                 /\ WF_age(build_snapshot_send_set)

-----------------------------------------------------------------------------
\* The intervals a whole population takes when each goes out once.
Round == Cardinality(Candidates)

\* However the weights move, nobody waits past the floor and one round of the
\* others: a low-weight or a large record is overtaken only so often.
NobodyStarves ==
  /\ SendSetTypeOK
  /\ \A e \in Candidates : age[e] <= MaxSnapshotsWithoutSend + Round
==============================================================================
