--------------------------- MODULE InputSyncProofs ---------------------------
(***************************************************************************)
(* Nothing a player does is lost or done twice, for every set of moves,    *)
(* timeout and queue length, whatever the two channels lose, repeat and    *)
(* reorder.                                                                *)
(*                                                                         *)
(* Three orders carry the proof: the server's numbers only grow and stay   *)
(* behind the client's (Numbers), a snapshot of a later tick acknowledges  *)
(* no less (Acknowledged), and an intent started later travels in a later  *)
(* input (Carried).                                                        *)
(***************************************************************************)
EXTENDS InputSync, SequenceTheorems, FiniteSetTheorems, WellFoundedInduction,
        TLAPS

Controls == [seq : Nat, move : Moves]
Inputs == [seq : Nat, move : Moves, intent : Nat]
Snapshots == [tick : Nat, pos : Seq(Moves), ack : Nat]

Typed ==
  /\ latest \in [has : BOOLEAN, move : Moves, age : Nat]
  /\ intents \in Seq(Nat) /\ Len(intents) <= MaxPendingIntents
  /\ started \in Nat
  /\ nextSeq \in Nat \ {0} /\ nextSeq <= MaxInputs + 1
  /\ unacked \in Seq(Controls) /\ predicted \in Seq(Moves)
  /\ heard \in Snapshots
  /\ session \in [got : BOOLEAN, seq : Nat, held : BOOLEAN, move : Moves,
                  age : Nat, ack : Nat]
  /\ pending \in Seq(Inputs)
  /\ tick \in Nat /\ tick <= MaxTicks /\ pos \in Seq(Moves)
  /\ inputs \subseteq Inputs /\ snaps \subseteq Snapshots
  /\ queued \in Seq(Nat)

\* The server's numbers are the client's, and what it holds this tick has the
\* newest of them.
Numbers ==
  /\ session.ack <= session.seq /\ session.seq < nextSeq
  /\ ~session.got => session.seq = 0
  /\ \A i \in inputs : 1 <= i.seq /\ i.seq < nextSeq
  /\ \A n \in 1..Len(pending) : pending[n].seq <= session.seq
  /\ pending # <<>> => \E n \in 1..Len(pending) : pending[n].seq = session.seq

\* A snapshot of a later tick acknowledges no less.
Acknowledged ==
  /\ \A s \in snaps \cup {heard} : s.tick <= tick /\ s.ack <= session.ack
  /\ \A r, s \in snaps \cup {heard} : r.tick <= s.tick => r.ack <= s.ack

\* The client keeps exactly the inputs after the newest acknowledgement.
Kept ==
  /\ Len(unacked) = nextSeq - 1 - heard.ack
  /\ \A n \in 1..Len(unacked) : unacked[n].seq = heard.ack + n
  /\ predicted = Walked(heard.pos, unacked)

\* An intent started later waits behind, travels in a later input and is queued
\* after the ones before it.
Carried ==
  /\ \A k \in 1..Len(intents) : 1 <= intents[k] /\ intents[k] <= started
  /\ \A j, k \in 1..Len(intents) : j < k => intents[j] < intents[k]
  /\ \A i \in inputs : i.intent # 0 =>
       /\ i.intent <= started
       /\ \A k \in 1..Len(intents) : i.intent < intents[k]
  /\ \A i, j \in inputs : i.seq < j.seq /\ i.intent # 0 /\ j.intent # 0
                            => i.intent < j.intent
  /\ \A n \in 1..Len(queued) :
       /\ queued[n] <= started
       /\ \A k \in 1..Len(intents) : queued[n] < intents[k]
       /\ \A i \in inputs : i.seq > session.seq /\ i.intent # 0
                              => queued[n] < i.intent
  /\ \A m, n \in 1..Len(queued) : m < n => queued[m] < queued[n]

Inv == Typed /\ Numbers /\ Acknowledged /\ Kept /\ Carried

-----------------------------------------------------------------------------
(* The input that moves the player.                                        *)

LEMMA LeastNat ==
  ASSUME NEW T \in SUBSET Nat, T # {}
  PROVE  \E n \in T : \A k \in T : n <= k
<1>1. PICK n \in T : \A k \in T : ~(<<k, n>> \in OpToRel(<, Nat))
  BY NatLessThanWellFounded, WFMin
<1>2. \A k \in T : ~(k < n) BY <1>1 DEF OpToRel
<1>q. QED BY <1>2

LEMMA EffectiveFacts ==
  ASSUME Typed, Numbers
  PROVE  /\ Effective \in Seq(Controls)
         /\ \A k \in 1..Len(Effective) : Effective[k].seq <= session.seq
         /\ Effective # <<>> =>
              \E k \in 1..Len(Effective) : Effective[k].seq = session.seq
         /\ Effective # <<>> => pending # <<>> \/ Holds
<1> DEFINE a == [n \in 1..Len(pending) |->
                   [seq |-> pending[n].seq, move |-> pending[n].move]]
           h == [seq |-> session.seq, move |-> session.move]
           b == IF Holds THEN <<h>> ELSE <<>>
<1>1. /\ pending \in Seq(Inputs) /\ Len(pending) \in Nat
      /\ \A n \in 1..Len(pending) : pending[n] \in Inputs
      /\ session.seq \in Nat /\ session.move \in Moves
  BY LenProperties DEF Typed
<1>2. /\ a \in Seq(Controls) /\ Len(a) = Len(pending)
      /\ \A n \in 1..Len(a) : a[n].seq = pending[n].seq
  <2>1. \A n \in 1..Len(pending) :
          [seq |-> pending[n].seq, move |-> pending[n].move] \in Controls
    BY <1>1 DEF Inputs, Controls
  <2>q. QED BY <1>1, <2>1
<1>3. h \in Controls /\ h.seq = session.seq BY <1>1 DEF Controls
<1>4. /\ b \in Seq(Controls)
      /\ Holds => Len(b) = 1 /\ b[1] = h
      /\ ~Holds => b = <<>> /\ Len(b) = 0
  BY <1>3
<1>5. Effective = a \o b BY DEF Effective
<1> HIDE DEF a, b, h
<1>6. /\ a \o b \in Seq(Controls) /\ Len(a \o b) = Len(a) + Len(b)
      /\ \A i \in 1..(Len(a) + Len(b)) :
           (a \o b)[i] = IF i <= Len(a) THEN a[i] ELSE b[i - Len(a)]
  <2>1. a \in Seq(Controls) /\ b \in Seq(Controls) BY <1>2, <1>4
  <2>q. QED BY <2>1, ConcatProperties
<1>7. ASSUME NEW k \in 1..Len(Effective) PROVE Effective[k].seq <= session.seq
  <2>1. CASE k <= Len(a)
    <3>1. k \in 1..Len(a) /\ Effective[k] = a[k] BY <1>1, <1>2, <1>5, <1>6, <2>1
    <3>q. QED BY <3>1, <1>2 DEF Numbers
  <2>2. CASE ~(k <= Len(a))
    <3>1. Holds /\ k - Len(a) = 1 BY <1>1, <1>2, <1>4, <1>5, <1>6, <2>2
    <3>2. Effective[k] = h BY <1>1, <1>2, <1>4, <1>5, <1>6, <2>2, <3>1
    <3>q. QED BY <1>1, <1>3, <3>2
  <2>q. QED BY <2>1, <2>2
<1>8. CASE pending # <<>>
  <2>1. PICK n \in 1..Len(pending) : pending[n].seq = session.seq
    BY <1>8 DEF Numbers
  <2>2. n \in 1..Len(Effective) /\ Effective[n] = a[n]
    BY <1>1, <1>2, <1>4, <1>5, <1>6
  <2>3. Effective[n].seq = session.seq BY <1>2, <2>1, <2>2
  <2>q. QED BY <1>5, <1>6, <1>7, <1>8, <2>2, <2>3
<1>9. CASE pending = <<>> /\ Holds
  <2>1. Len(a) = 0 BY <1>2, <1>9
  <2>2. 1 \in 1..Len(Effective) /\ Effective[1] = h
    BY <1>4, <1>5, <1>6, <1>9, <2>1
  <2>3. Effective[1].seq = session.seq BY <1>3, <2>2
  <2>q. QED BY <1>5, <1>6, <1>7, <1>9, <2>2, <2>3
<1>10. CASE pending = <<>> /\ ~Holds
  <2>1. Len(Effective) = 0 /\ Effective \in Seq(Controls)
    BY <1>2, <1>4, <1>5, <1>6, <1>10
  <2>2. Effective = <<>> BY <2>1
  <2>q. QED BY <2>1, <2>2, <1>7
<1>q. QED BY <1>8, <1>9, <1>10

LEMMA NewestFacts ==
  ASSUME Typed, Numbers
  PROVE  /\ Newest \in Controls /\ Newest.seq <= session.seq
         /\ Newest.move # 0 => /\ Newest.seq = session.seq
                               /\ pending # <<>> \/ Holds
<1>1. /\ Effective \in Seq(Controls)
      /\ \A k \in 1..Len(Effective) : Effective[k].seq <= session.seq
      /\ Effective # <<>> =>
           \E k \in 1..Len(Effective) : Effective[k].seq = session.seq
      /\ Effective # <<>> => pending # <<>> \/ Holds
  BY EffectiveFacts
<1>2. session.seq \in Nat /\ 0 \in Moves BY InputAssumption DEF Typed
<1>3. CASE Effective = <<>>
  <2>1. Newest = [seq |-> 0, move |-> 0] BY <1>3 DEF Newest
  <2>q. QED BY <1>2, <2>1 DEF Controls
<1>4. CASE Effective # <<>>
  <2> DEFINE E == Effective
             First(n) == /\ \A k \in 1..Len(E) : E[k].seq <= E[n].seq
                         /\ \A k \in 1..(n - 1) : E[k].seq < E[n].seq
             N == CHOOSE n \in 1..Len(E) : First(n)
             T == {k \in 1..Len(E) : E[k].seq = session.seq}
  <2>1. Newest = E[N] BY <1>4 DEF Newest
  <2>2. \A k \in 1..Len(E) : E[k] \in Controls /\ E[k].seq \in Nat
    <3>1. E \in Seq(Controls) BY <1>1
    <3>2. E \in [1..Len(E) -> Controls] BY <3>1, LenProperties
    <3>q. QED BY <3>2 DEF Controls
  <2>e. Len(E) \in Nat BY <1>1
  <2> HIDE DEF E
  <2>3. PICK n \in T : \A k \in T : n <= k
    <3>1. T \in SUBSET Nat BY <2>e
    <3>2. T # {} BY <1>1, <1>4 DEF E
    <3> HIDE DEF T
    <3>q. QED BY <3>1, <3>2, LeastNat
  <2>4. First(n)
    <3>1. n \in 1..Len(E) /\ E[n].seq = session.seq BY <2>3
    <3>2. \A k \in 1..Len(E) : E[k].seq <= E[n].seq BY <1>1, <3>1 DEF E
    <3>3. ASSUME NEW k \in 1..(n - 1) PROVE E[k].seq < E[n].seq
      <4>1. k \in 1..Len(E) /\ k < n BY <2>e, <3>1
      <4>2. k \notin T BY <2>3, <4>1
      <4>3. E[k].seq # session.seq BY <4>1, <4>2
      <4>q. QED BY <1>2, <2>2, <3>1, <3>2, <4>1, <4>3
    <3>q. QED BY <3>2, <3>3
  <2>5. N \in 1..Len(E) /\ First(N)
    <3>1. n \in 1..Len(E) BY <2>3
    <3> HIDE DEF First
    <3>q. QED BY <2>4, <3>1
  <2>6. PICK k \in 1..Len(E) : E[k].seq = session.seq BY <1>1, <1>4 DEF E
  <2>7. E[N].seq = session.seq
    <3>1. E[k].seq <= E[N].seq BY <2>5, <2>6
    <3>2. E[N].seq <= session.seq BY <1>1, <2>5 DEF E
    <3>3. E[N].seq \in Nat BY <2>2, <2>5
    <3>q. QED BY <1>2, <2>6, <3>1, <3>2, <3>3
  <2>8. E[N] \in Controls BY <2>2, <2>5
  <2> HIDE DEF N
  <2>q. QED BY <1>1, <1>2, <1>4, <2>1, <2>7, <2>8
<1>q. QED BY <1>3, <1>4

-----------------------------------------------------------------------------
(* Stepping.                                                               *)

LEMMA SteppedFacts ==
  ASSUME NEW path \in Seq(Moves), NEW us \in Seq(Controls)
  PROVE  Walked(path, us) \in Seq(Moves)
<1>1. Len(us) \in Nat /\ \A n \in 1..Len(us) : us[n] \in Controls
  BY LenProperties
<1>2. [n \in 1..Len(us) |-> us[n].move] \in Seq(Moves)
  <2>1. \A n \in 1..Len(us) : us[n].move \in Moves BY <1>1 DEF Controls
  <2>q. QED BY <1>1, <2>1
<1>q. QED BY <1>2, ConcatProperties DEF Walked

\* One more input is one more step.
LEMMA SteppedOnce ==
  ASSUME NEW path \in Seq(Moves), NEW us \in Seq(Controls), NEW u \in Controls
  PROVE  Walked(path, Append(us, u)) = Append(Walked(path, us), u.move)
<1> DEFINE more == Append(us, u)
           a == [n \in 1..Len(us) |-> us[n].move]
           b == [n \in 1..Len(more) |-> more[n].move]
<1>1. /\ Len(us) \in Nat /\ u.move \in Moves
      /\ \A n \in 1..Len(us) : us[n].move \in Moves
  <2>1. us \in [1..Len(us) -> Controls] /\ Len(us) \in Nat BY LenProperties
  <2>q. QED BY <2>1 DEF Controls
<1>2. /\ Len(more) = Len(us) + 1 /\ more[Len(us) + 1] = u
      /\ \A n \in 1..Len(us) : more[n] = us[n]
  BY AppendProperties
<1>3. a \in Seq(Moves) /\ Len(a) = Len(us) /\ \A n \in 1..Len(us) : a[n] = us[n].move
  BY <1>1
<1> HIDE DEF more
<1>4. \A n \in 1..Len(more) : more[n].move \in Moves BY <1>1, <1>2
<1>5. /\ b \in Seq(Moves) /\ Len(b) = Len(us) + 1
      /\ \A n \in 1..Len(b) : b[n] = more[n].move
  BY <1>1, <1>2, <1>4
<1> HIDE DEF a, b
<1>6. /\ Append(a, u.move) \in Seq(Moves) /\ Len(Append(a, u.move)) = Len(a) + 1
      /\ \A n \in 1..Len(a) : Append(a, u.move)[n] = a[n]
      /\ Append(a, u.move)[Len(a) + 1] = u.move
  BY <1>1, <1>3, AppendProperties
<1>7. \A n \in 1..Len(b) : b[n] = Append(a, u.move)[n]
  <2> TAKE n \in 1..Len(b)
  <2>1. CASE n = Len(us) + 1 BY <1>1, <1>2, <1>3, <1>5, <1>6, <2>1
  <2>2. CASE n # Len(us) + 1
    <3>1. n \in 1..Len(us) BY <1>1, <1>5, <2>2
    <3>q. QED BY <1>2, <1>3, <1>5, <1>6, <3>1
  <2>q. QED BY <2>1, <2>2
<1>8. b = Append(a, u.move)
  <2>1. Len(b) = Len(Append(a, u.move)) BY <1>3, <1>5, <1>6
  <2>q. QED BY <1>5, <1>6, <1>7, <2>1, SeqEqual
<1>9. Append(a, u.move) = a \o <<u.move>> BY <1>1, <1>3, AppendIsConcat
<1>10. path \o a \in Seq(Moves) BY <1>3, ConcatProperties
<1>11. Append(path \o a, u.move) = (path \o a) \o <<u.move>>
  BY <1>1, <1>10, AppendIsConcat
<1>12. (path \o a) \o <<u.move>> = path \o (a \o <<u.move>>)
  <2>1. <<u.move>> \in Seq(Moves) BY <1>1
  <2>q. QED BY <1>3, <2>1, ConcatAssociative
<1>13. Walked(path, more) = path \o b BY DEF Walked, b
<1>14. Walked(path, us) = path \o a BY DEF Walked, a
<1>q. QED BY <1>8, <1>9, <1>11, <1>12, <1>13, <1>14 DEF more

\* Of inputs numbered on from a, the ones an acknowledgement leaves are numbered
\* on from it.
LEMMA ReplayedFacts ==
  ASSUME Typed, Kept, NEW s \in Snapshots,
         heard.ack <= s.ack, s.ack < nextSeq, Replayed(s)
  PROVE  /\ unacked' \in Seq(Controls)
         /\ Len(unacked') = nextSeq - 1 - s.ack
         /\ \A n \in 1..Len(unacked') : unacked'[n].seq = s.ack + n
         /\ predicted' = Walked(s.pos, unacked')
<1> DEFINE S == {n \in 1..Len(unacked) : unacked[n].seq <= s.ack}
           d == s.ack - heard.ack
           left == SubSeq(unacked, Cardinality(S) + 1, Len(unacked))
<1>1. /\ unacked \in Seq(Controls) /\ Len(unacked) \in Nat
      /\ unacked \in [1..Len(unacked) -> Controls]
      /\ heard.ack \in Nat /\ s.ack \in Nat /\ nextSeq \in Nat
  BY LenProperties DEF Typed, Snapshots
<1>2. d \in Nat /\ d <= Len(unacked) BY <1>1 DEF Kept
<1>3. S = 1..d
  <2>1. \A n \in 1..Len(unacked) : n \in S <=> n \in 1..d BY <1>1, <1>2 DEF Kept
  <2>2. \A n : n \in S => n \in 1..Len(unacked) OBVIOUS
  <2>3. \A n \in 1..d : n \in 1..Len(unacked) BY <1>1, <1>2
  <2> HIDE DEF S, d
  <2>q. QED BY <2>1, <2>2, <2>3
<1>4. Cardinality(S) = d
  <2>1. Cardinality(1..d) = d BY <1>2, FS_Interval
  <2>q. QED BY <1>3, <2>1
<1>5. unacked' = left /\ predicted' = Walked(s.pos, left)
  BY DEF Replayed
<1> HIDE DEF S
<1>6. /\ left \in Seq(Controls) /\ Len(left) = Len(unacked) - d
      /\ \A i \in 1..Len(left) : left[i] = unacked[d + i]
  <2>1. \A i \in (d + 1)..Len(unacked) : unacked[i] \in Controls BY <1>1, <1>2
  <2>2. left = SubSeq(unacked, d + 1, Len(unacked)) BY <1>4
  <2>3. d + 1 \in Int /\ Len(unacked) \in Int BY <1>1, <1>2
  <2> HIDE DEF left, d
  <2>4. /\ left \in Seq(Controls)
        /\ Len(left) = IF d + 1 <= Len(unacked) THEN Len(unacked) - (d + 1) + 1
                                                ELSE 0
        /\ \A i \in 1..(Len(unacked) - (d + 1) + 1) : left[i] = unacked[(d + 1) + i - 1]
    BY <2>1, <2>2, <2>3, SubSeqProperties
  <2>5. Len(left) = Len(unacked) - d
    <3>1. CASE d + 1 <= Len(unacked) BY <1>1, <1>2, <2>4, <3>1
    <3>2. CASE ~(d + 1 <= Len(unacked))
      <4>0. Len(unacked) \in Nat BY <1>1
      <4>1. d = Len(unacked) BY <1>2, <3>2, <4>0
      <4>q. QED BY <1>1, <2>4, <3>2, <4>1
    <3>q. QED BY <3>1, <3>2
  <2>6. ASSUME NEW i \in 1..Len(left) PROVE left[i] = unacked[d + i]
    <3>1. i \in 1..(Len(unacked) - (d + 1) + 1) /\ (d + 1) + i - 1 = d + i
      BY <1>1, <1>2, <2>5
    <3>q. QED BY <2>4, <3>1
  <2>q. QED BY <2>4, <2>5, <2>6
<1> HIDE DEF left
<1>7. Len(left) = nextSeq - 1 - s.ack BY <1>1, <1>6 DEF Kept
<1>8. ASSUME NEW n \in 1..Len(left) PROVE left[n].seq = s.ack + n
  <2>1. d + n \in 1..Len(unacked) BY <1>1, <1>2, <1>6
  <2>2. unacked[d + n].seq = heard.ack + (d + n) BY <2>1 DEF Kept
  <2>q. QED BY <1>1, <1>6, <2>2
<1>q. QED BY <1>5, <1>6, <1>7, <1>8

-----------------------------------------------------------------------------
(* The client's steps.                                                     *)

LEMMA Shapes ==
  ASSUME Typed
  PROVE  /\ intents \in Seq(Nat) /\ Len(intents) \in Nat /\ started \in Nat
         /\ Len(intents) <= MaxPendingIntents /\ MaxPendingIntents \in Nat
         /\ \A k \in 1..Len(intents) : intents[k] \in Nat
         /\ \A i \in inputs : i.intent \in Nat /\ i.seq \in Nat /\ i.move \in Moves
         /\ queued \in Seq(Nat) /\ \A n \in 1..Len(queued) : queued[n] \in Nat
<1>1. intents \in Seq(Nat) /\ queued \in Seq(Nat) BY DEF Typed
<1>2. /\ Len(intents) \in Nat
      /\ intents \in [1..Len(intents) -> Nat] /\ queued \in [1..Len(queued) -> Nat]
  BY <1>1, LenProperties
<1>3. \A i \in inputs : i.intent \in Nat /\ i.seq \in Nat /\ i.move \in Moves
  BY DEF Typed, Inputs
<1>4. /\ started \in Nat /\ Len(intents) <= MaxPendingIntents
      /\ MaxPendingIntents \in Nat
  BY InputAssumption DEF Typed
<1>5. \A k \in 1..Len(intents) : intents[k] \in Nat BY <1>2
<1>6. \A n \in 1..Len(queued) : queued[n] \in Nat BY <1>2
<1>q. QED BY <1>1, <1>2, <1>3, <1>4, <1>5, <1>6

\* The application's controls: at most one intent more, above all the others.
LEMMA SubmitKeeps ==
  ASSUME Inv, NEW m \in Moves, NEW edge \in BOOLEAN, submit_player_input(m, edge)
  PROVE  Inv'
<1>1. /\ intents \in Seq(Nat) /\ Len(intents) \in Nat /\ started \in Nat
      /\ Len(intents) <= MaxPendingIntents /\ MaxPendingIntents \in Nat
      /\ \A k \in 1..Len(intents) : intents[k] \in Nat
      /\ \A i \in inputs : i.intent \in Nat
      /\ queued \in Seq(Nat) /\ \A n \in 1..Len(queued) : queued[n] \in Nat
  BY Shapes DEF Inv
<1>2. /\ latest' = [has |-> TRUE, move |-> m, age |-> 0]
      /\ intents' = WithNew(edge)
      /\ started' = IF edge THEN started + 1 ELSE started
      /\ UNCHANGED <<nextSeq, unacked, predicted, heard, session, pending, tick,
                     pos, inputs, snaps, queued>>
  BY DEF submit_player_input, serverVars
<1>3. started' \in Nat /\ started <= started' BY <1>1, <1>2
<1>4. latest' \in [has : BOOLEAN, move : Moves, age : Nat] BY <1>2
<1>5. CASE intents' = intents
  <2>1. Typed' BY <1>2, <1>3, <1>4, <1>5 DEF Inv, Typed
  <2>2. Carried'
    <3>1. \A k \in 1..Len(intents) : 1 <= intents[k] /\ intents[k] <= started'
      BY <1>1, <1>3 DEF Inv, Carried
    <3>2. \A i \in inputs : i.intent # 0 => i.intent <= started'
      BY <1>1, <1>3 DEF Inv, Carried
    <3>3. \A n \in 1..Len(queued) : queued[n] <= started'
      BY <1>1, <1>3 DEF Inv, Carried
    <3>q. QED BY <1>2, <1>5, <3>1, <3>2, <3>3 DEF Inv, Carried
  <2>q. QED BY <1>2, <2>1, <2>2 DEF Inv, Numbers, Acknowledged, Kept, Walked
<1>6. CASE intents' # intents
  <2>1. /\ intents' = Append(intents, started + 1) /\ started' = started + 1
        /\ Len(intents) < MaxPendingIntents
    BY <1>2, <1>6 DEF WithNew
  <2>2. /\ intents' \in Seq(Nat) /\ Len(intents') = Len(intents) + 1
        /\ intents'[Len(intents) + 1] = started + 1
        /\ \A k \in 1..Len(intents) : intents'[k] = intents[k]
    BY <1>1, <2>1, AppendProperties
  <2>3. Len(intents') <= MaxPendingIntents BY <1>1, <2>1, <2>2
  <2>4. Typed' BY <1>2, <1>3, <1>4, <2>2, <2>3 DEF Inv, Typed
  <2>5. \A k \in 1..Len(intents') :
          \/ k \in 1..Len(intents) /\ intents'[k] = intents[k]
          \/ k = Len(intents) + 1 /\ intents'[k] = started + 1
    BY <1>1, <2>2
  <2>6. Carried'
    <3>1. \A k \in 1..Len(intents') : 1 <= intents'[k] /\ intents'[k] <= started'
      BY <1>1, <2>1, <2>5 DEF Inv, Carried
    <3>2. ASSUME NEW j \in 1..Len(intents'), NEW k \in 1..Len(intents'), j < k
          PROVE  intents'[j] < intents'[k]
      <4>1. j \in 1..Len(intents) /\ intents'[j] = intents[j]
        BY <1>1, <2>2, <2>5, <3>2
      <4>2. CASE k \in 1..Len(intents) /\ intents'[k] = intents[k]
        BY <3>2, <4>1, <4>2 DEF Inv, Carried
      <4>3. CASE intents'[k] = started + 1
        <5>1. intents[j] <= started BY <4>1 DEF Inv, Carried
        <5>2. intents[j] \in Nat BY <1>1, <4>1
        <5>q. QED BY <1>1, <4>1, <4>3, <5>1, <5>2
      <4>q. QED BY <2>5, <4>2, <4>3
    <3>3. \A i \in inputs : i.intent # 0 =>
            /\ i.intent <= started'
            /\ \A k \in 1..Len(intents') : i.intent < intents'[k]
      BY <1>1, <2>1, <2>5 DEF Inv, Carried
    <3>4. \A n \in 1..Len(queued) :
            /\ queued[n] <= started'
            /\ \A k \in 1..Len(intents') : queued[n] < intents'[k]
      BY <1>1, <2>1, <2>5 DEF Inv, Carried
    <3>q. QED BY <1>2, <3>1, <3>2, <3>3, <3>4 DEF Inv, Carried
  <2>q. QED BY <1>2, <2>4, <2>6 DEF Inv, Numbers, Acknowledged, Kept, Walked
<1>q. QED BY <1>5, <1>6

\* A tick's input has the next number, and the first of the waiting intents.
LEMMA EmitKeeps ==
  ASSUME Inv, emit_client_input_for_tick
  PROVE  Inv'
<1> DEFINE move == IF latest.age <= InputTimeout THEN latest.move ELSE 0
           intent == IF intents = <<>> THEN 0 ELSE Head(intents)
           q == [seq |-> nextSeq, move |-> move, intent |-> intent]
           u == [seq |-> nextSeq, move |-> move]
<1>1. /\ intents \in Seq(Nat) /\ Len(intents) \in Nat /\ started \in Nat
      /\ Len(intents) <= MaxPendingIntents /\ MaxPendingIntents \in Nat
      /\ \A k \in 1..Len(intents) : intents[k] \in Nat
      /\ \A i \in inputs : i.intent \in Nat /\ i.seq \in Nat
      /\ queued \in Seq(Nat) /\ \A n \in 1..Len(queued) : queued[n] \in Nat
  BY Shapes DEF Inv
<1>2. /\ unacked' = Append(unacked, u) /\ predicted' = Append(predicted, move)
      /\ inputs' = inputs \cup {q} /\ nextSeq' = nextSeq + 1
      /\ intents' = IF intents = <<>> THEN intents ELSE Tail(intents)
      /\ latest' = [latest EXCEPT !.age = IF @ <= InputTimeout THEN @ + 1 ELSE @]
      /\ nextSeq <= MaxInputs
      /\ UNCHANGED <<started, heard, session, pending, tick, pos, queued, snaps>>
  BY DEF emit_client_input_for_tick, serverVars
<1>3. /\ nextSeq \in Nat \ {0} /\ MaxInputs \in Nat /\ move \in Moves
      /\ heard \in Snapshots /\ heard.ack \in Nat /\ heard.pos \in Seq(Moves)
      /\ unacked \in Seq(Controls) /\ Len(unacked) \in Nat /\ predicted \in Seq(Moves)
      /\ session.seq \in Nat /\ session.ack \in Nat
  BY InputAssumption, LenProperties DEF Inv, Typed, Snapshots
<1>4. intent \in Nat BY <1>1
<1>5. q \in Inputs /\ u \in Controls BY <1>3, <1>4 DEF Inputs, Controls
<1>6. q.seq = nextSeq /\ q.intent = intent /\ u.seq = nextSeq /\ u.move = move
  OBVIOUS
<1> HIDE DEF move, q, u
<1>7. /\ intents' \in Seq(Nat) /\ Len(intents') <= Len(intents)
      /\ intent # 0 => intents # <<>> /\ intent = intents[1] /\ 1 \in 1..Len(intents)
      /\ \A k \in 1..Len(intents') :
           /\ k + 1 \in 1..Len(intents) /\ intents'[k] = intents[k + 1]
           /\ intent = intents[1] /\ 1 \in 1..Len(intents)
  <2>1. CASE intents = <<>> BY <1>1, <1>2, <2>1
  <2>2. CASE intents # <<>>
    <3>1. intents' = Tail(intents) /\ intent = Head(intents) BY <1>2, <2>2
    <3>2. /\ Head(intents) = intents[1] /\ Tail(intents) \in Seq(Nat)
          /\ Len(Tail(intents)) = Len(intents) - 1 /\ Len(intents) >= 1
          /\ \A k \in 1..Len(Tail(intents)) : Tail(intents)[k] = intents[k + 1]
      <4>1. Len(intents) # 0 BY <1>1, <2>2, EmptySeq
      <4>q. QED BY <1>1, <2>2, <4>1, HeadTailProperties
    <3> HIDE DEF intent
    <3>q. QED BY <1>1, <2>2, <3>1, <3>2
  <2>q. QED BY <2>1, <2>2
<1> HIDE DEF intent
<1>8. Typed'
  <2>1. latest' \in [has : BOOLEAN, move : Moves, age : Nat]
    <3>1. latest \in [has : BOOLEAN, move : Moves, age : Nat] BY DEF Inv, Typed
    <3>2. (IF latest.age <= InputTimeout THEN latest.age + 1 ELSE latest.age) \in Nat
      BY <3>1
    <3>q. QED BY <1>2, <3>1, <3>2
  <2>2. unacked' \in Seq(Controls) /\ predicted' \in Seq(Moves)
    BY <1>2, <1>3, <1>5, AppendProperties
  <2>3. inputs' \subseteq Inputs BY <1>2, <1>5 DEF Inv, Typed
  <2>4. nextSeq' \in Nat \ {0} /\ nextSeq' <= MaxInputs + 1 BY <1>2, <1>3
  <2>5. intents' \in Seq(Nat) /\ Len(intents') <= MaxPendingIntents
    <3>1. Len(intents') \in Nat BY <1>7
    <3>q. QED BY <1>1, <1>7, <3>1
  <2>q. QED BY <1>2, <2>1, <2>2, <2>3, <2>4, <2>5 DEF Inv, Typed
<1>9. Numbers'
  <2>1. \A i \in inputs' : 1 <= i.seq /\ i.seq < nextSeq'
    BY <1>1, <1>2, <1>3, <1>6, SMTT(30) DEF Inv, Numbers
  <2>2. session.seq < nextSeq' BY <1>2, <1>3 DEF Inv, Numbers
  <2>q. QED BY <1>2, <2>1, <2>2 DEF Inv, Numbers
<1>10. Acknowledged' BY <1>2 DEF Inv, Acknowledged
<1>11. Kept'
  <2>1. /\ Len(unacked') = Len(unacked) + 1 /\ unacked'[Len(unacked) + 1] = u
        /\ \A n \in 1..Len(unacked) : unacked'[n] = unacked[n]
    BY <1>2, <1>3, <1>5, AppendProperties
  <2>2. Len(unacked') = nextSeq' - 1 - heard.ack
    BY <1>2, <1>3, <2>1 DEF Inv, Kept
  <2>3. ASSUME NEW n \in 1..Len(unacked') PROVE unacked'[n].seq = heard.ack + n
    <3>1. CASE n = Len(unacked) + 1 BY <1>3, <1>6, <2>1, <3>1 DEF Inv, Kept
    <3>2. CASE n # Len(unacked) + 1
      <4>1. n \in 1..Len(unacked) BY <1>3, <2>1, <3>2
      <4>q. QED BY <2>1, <4>1 DEF Inv, Kept
    <3>q. QED BY <3>1, <3>2
  <2>4. predicted' = Walked(heard.pos, unacked')
    <3>1. Walked(heard.pos, Append(unacked, u)) = Append(Walked(heard.pos, unacked), u.move)
      BY <1>3, <1>5, SteppedOnce
    <3>q. QED BY <1>2, <1>6, <3>1 DEF Inv, Kept
  <2>5. Walked(heard'.pos, unacked') = Walked(heard.pos, unacked') BY <1>2
  <2>q. QED BY <1>2, <2>2, <2>3, <2>4 DEF Kept, Walked
<1>12. Carried'
  <2>1. /\ \A k \in 1..Len(intents') : 1 <= intents'[k] /\ intents'[k] <= started
        /\ \A j, k \in 1..Len(intents') : j < k => intents'[j] < intents'[k]
        /\ \A k \in 1..Len(intents') : intent < intents'[k]
    <3>1. \A j, k \in 1..Len(intents') : j < k => j + 1 < k + 1 BY <1>7
    <3>2. \A k \in 1..Len(intents') : 1 <= intents'[k] /\ intents'[k] <= started
      BY <1>7 DEF Inv, Carried
    <3>3. \A j, k \in 1..Len(intents') : j < k => intents'[j] < intents'[k]
      BY <1>7, <3>1 DEF Inv, Carried
    <3>4. \A k \in 1..Len(intents') : 1 < k + 1 BY <1>7
    <3>5. \A k \in 1..Len(intents') : intent < intents'[k]
      BY <1>7, <3>4 DEF Inv, Carried
    <3>q. QED BY <3>2, <3>3, <3>5
  <2>2. \A i \in inputs : i.intent # 0 => \A k \in 1..Len(intents') : i.intent < intents'[k]
    BY <1>7 DEF Inv, Carried
  <2>3. intent # 0 => intent <= started BY <1>7 DEF Inv, Carried
  <2>4. \A i \in inputs' : i.intent # 0 =>
          /\ i.intent <= started
          /\ \A k \in 1..Len(intents') : i.intent < intents'[k]
    BY <1>2, <1>6, <2>1, <2>2, <2>3 DEF Inv, Carried
  <2>5. ASSUME NEW i \in inputs', NEW j \in inputs',
               i.seq < j.seq, i.intent # 0, j.intent # 0
        PROVE  i.intent < j.intent
    <3>1. CASE i \in inputs /\ j \in inputs BY <2>5, <3>1 DEF Inv, Carried
    <3>2. CASE i \in inputs /\ j = q
      BY <1>6, <1>7, <2>5, <3>2 DEF Inv, Carried
    <3>3. CASE i = q /\ j \in inputs
      BY <1>1, <1>3, <1>6, <2>5, <3>3 DEF Inv, Numbers
    <3>4. CASE i = q /\ j = q BY <1>3, <1>6, <2>5, <3>4
    <3>q. QED BY <1>2, <3>1, <3>2, <3>3, <3>4
  <2>6. ASSUME NEW n \in 1..Len(queued)
        PROVE  /\ queued[n] <= started
               /\ \A k \in 1..Len(intents') : queued[n] < intents'[k]
               /\ \A i \in inputs' : i.seq > session.seq /\ i.intent # 0
                                       => queued[n] < i.intent
    <3>1. queued[n] <= started BY DEF Inv, Carried
    <3>2. \A k \in 1..Len(intents') : queued[n] < intents'[k]
      BY <1>7 DEF Inv, Carried
    <3>3. \A i \in inputs : i.seq > session.seq /\ i.intent # 0 => queued[n] < i.intent
      BY DEF Inv, Carried
    <3>4. intent # 0 => queued[n] < intent BY <1>7 DEF Inv, Carried
    <3>q. QED BY <1>2, <1>6, <3>1, <3>2, <3>3, <3>4
  <2>q. QED BY <1>2, <2>1, <2>4, <2>5, <2>6 DEF Inv, Carried
<1>q. QED BY <1>8, <1>9, <1>10, <1>11, <1>12 DEF Inv

\* A snapshot no older than the newest acknowledges no less, so what it leaves
\* of the kept inputs is what came after it.
LEMMA SnapshotKeeps ==
  ASSUME Inv, DeliverSnapshot
  PROVE  Inv'
<1>1. PICK s \in snaps : HandleSnapshot(s) /\ snaps' \in {snaps, snaps \ {s}}
  BY DEF DeliverSnapshot
<1>2. /\ snaps' \subseteq snaps
      /\ UNCHANGED <<latest, intents, started, nextSeq, session, pending, tick, pos,
                     queued, inputs>>
  BY <1>1 DEF DeliverSnapshot, serverVars
<1>3. /\ s \in Snapshots /\ s.ack \in Nat /\ s.tick \in Nat /\ s.pos \in Seq(Moves)
      /\ heard \in Snapshots /\ heard.ack \in Nat /\ heard.tick \in Nat
      /\ nextSeq \in Nat /\ session.ack \in Nat /\ session.seq \in Nat
  BY <1>1 DEF Inv, Typed, Snapshots
<1>4. Numbers' /\ Carried' BY <1>2 DEF Inv, Numbers, Carried
<1>5. CASE s.tick < heard.tick
  <2>1. UNCHANGED <<heard, unacked, predicted>> BY <1>1, <1>5 DEF HandleSnapshot
  <2>2. Typed' BY <1>2, <2>1 DEF Inv, Typed
  <2>3. Acknowledged' BY <1>2, <2>1 DEF Inv, Acknowledged
  <2>4. Kept' BY <1>2, <2>1 DEF Inv, Kept, Walked
  <2>q. QED BY <1>4, <2>2, <2>3, <2>4 DEF Inv
<1>6. CASE ~(s.tick < heard.tick)
  <2>1. heard' = s /\ Replayed(s) BY <1>1, <1>6 DEF HandleSnapshot
  <2>2. heard.tick <= s.tick BY <1>3, <1>6
  <2>3. heard.ack <= s.ack BY <1>1, <2>2 DEF Inv, Acknowledged
  <2>4. s.ack <= session.ack BY <1>1 DEF Inv, Acknowledged
  <2>5. s.ack < nextSeq BY <1>3, <2>4 DEF Inv, Numbers
  <2>6. /\ unacked' \in Seq(Controls)
        /\ Len(unacked') = nextSeq - 1 - s.ack
        /\ \A n \in 1..Len(unacked') : unacked'[n].seq = s.ack + n
        /\ predicted' = Walked(s.pos, unacked')
    BY <1>3, <2>1, <2>3, <2>5, ReplayedFacts DEF Inv
  <2>7. predicted' \in Seq(Moves) BY <1>3, <2>6, SteppedFacts
  <2>8. Typed'
    <3>1. snaps' \subseteq Snapshots BY <1>2 DEF Inv, Typed
    <3>q. QED BY <1>2, <1>3, <2>1, <2>6, <2>7, <3>1 DEF Inv, Typed
  <2>9. Acknowledged'
    <3>1. snaps' \cup {heard'} \subseteq snaps \cup {heard} BY <1>1, <1>2, <2>1
    <3>q. QED BY <1>2, <3>1 DEF Inv, Acknowledged
  <2>10. Kept' BY <1>2, <2>1, <2>6 DEF Kept, Walked
  <2>q. QED BY <1>4, <2>8, <2>9, <2>10 DEF Inv
<1>q. QED BY <1>5, <1>6

-----------------------------------------------------------------------------
(* The server's steps and the network's.                                   *)

\* An input counts when its number is higher than any before: so is its intent.
LEMMA InputKeeps ==
  ASSUME Inv, DeliverInput
  PROVE  Inv'
<1>1. PICK i \in inputs :
        /\ inputs' \in {inputs, inputs \ {i}}
        /\ IF Newer(i)
           THEN /\ session' = [session EXCEPT !.got = TRUE, !.seq = i.seq, !.held = TRUE,
                                              !.move = i.move, !.age = 0]
                /\ pending' = Append(pending, i)
                /\ queued' = IF i.intent = 0 THEN queued ELSE Append(queued, i.intent)
           ELSE UNCHANGED <<session, pending, queued>>
  BY DEF DeliverInput
<1>2. /\ inputs' \subseteq inputs
      /\ UNCHANGED <<latest, intents, started, nextSeq, unacked, predicted, heard,
                     tick, pos, snaps>>
  BY <1>1 DEF DeliverInput, clientVars
<1>3. /\ intents \in Seq(Nat) /\ started \in Nat
      /\ \A k \in 1..Len(intents) : intents[k] \in Nat
      /\ \A j \in inputs : j.intent \in Nat /\ j.seq \in Nat /\ j.move \in Moves
      /\ queued \in Seq(Nat) /\ \A n \in 1..Len(queued) : queued[n] \in Nat
      /\ Len(queued) \in Nat
  BY Shapes, LenProperties DEF Inv
<1>4. /\ session \in [got : BOOLEAN, seq : Nat, held : BOOLEAN, move : Moves,
                      age : Nat, ack : Nat]
      /\ session.seq \in Nat /\ session.ack \in Nat /\ nextSeq \in Nat
      /\ pending \in Seq(Inputs) /\ i \in Inputs /\ Len(pending) \in Nat
      /\ inputs' \subseteq Inputs
  BY <1>2, LenProperties DEF Inv, Typed
<1>5. Kept' BY <1>2 DEF Inv, Kept, Walked
<1>6. CASE ~Newer(i)
  <2>1. UNCHANGED <<session, pending, queued>> BY <1>1, <1>6
  <2>2. Typed' BY <1>2, <1>4, <2>1 DEF Inv, Typed
  <2>3. Numbers' BY <1>2, <2>1 DEF Inv, Numbers
  <2>4. Acknowledged' BY <1>2, <2>1 DEF Inv, Acknowledged
  <2>5. Carried' BY <1>2, <2>1 DEF Inv, Carried
  <2>q. QED BY <1>5, <2>2, <2>3, <2>4, <2>5 DEF Inv
<1>7. CASE Newer(i)
  <2>1. /\ session' = [session EXCEPT !.got = TRUE, !.seq = i.seq, !.held = TRUE,
                                      !.move = i.move, !.age = 0]
        /\ pending' = Append(pending, i)
        /\ queued' = IF i.intent = 0 THEN queued ELSE Append(queued, i.intent)
    BY <1>1, <1>7
  <2>2. session.seq < i.seq /\ i.seq < nextSeq
    BY <1>3, <1>4, <1>7 DEF Inv, Numbers, Newer
  <2>3. /\ session' \in [got : BOOLEAN, seq : Nat, held : BOOLEAN, move : Moves,
                         age : Nat, ack : Nat]
        /\ session'.got = TRUE /\ session'.seq = i.seq /\ session'.ack = session.ack
    BY <1>3, <1>4, <2>1
  <2>4. /\ pending' \in Seq(Inputs) /\ Len(pending') = Len(pending) + 1
        /\ pending'[Len(pending) + 1] = i
        /\ \A n \in 1..Len(pending) : pending'[n] = pending[n]
    BY <1>4, <2>1, AppendProperties
  <2>5. /\ queued' \in Seq(Nat)
        /\ \A n \in 1..Len(queued') :
             \/ n \in 1..Len(queued) /\ queued'[n] = queued[n]
             \/ n = Len(queued) + 1 /\ queued'[n] = i.intent /\ i.intent # 0
    <3>1. CASE i.intent = 0 BY <1>3, <2>1, <3>1
    <3>2. CASE i.intent # 0
      <4>1. queued' = Append(queued, i.intent) /\ i.intent \in Nat BY <1>3, <2>1, <3>2
      <4>2. /\ queued' \in Seq(Nat) /\ Len(queued') = Len(queued) + 1
            /\ queued'[Len(queued) + 1] = i.intent
            /\ \A n \in 1..Len(queued) : queued'[n] = queued[n]
        BY <1>3, <4>1, AppendProperties
      <4>q. QED BY <1>3, <3>2, <4>2
    <3>q. QED BY <3>1, <3>2
  <2>6. Typed' BY <1>2, <1>4, <2>3, <2>4, <2>5 DEF Inv, Typed
  <2>7. Numbers'
    <3>1. \A n \in 1..Len(pending') : pending'[n].seq <= session'.seq
      <4> TAKE n \in 1..Len(pending')
      <4>1. CASE n = Len(pending) + 1 BY <1>3, <2>3, <2>4, <4>1
      <4>2. CASE n # Len(pending) + 1
        <5>1. n \in 1..Len(pending) BY <1>4, <2>4, <4>2
        <5>2. pending[n] \in Inputs
          <6>1. pending \in [1..Len(pending) -> Inputs] BY <1>4, LenProperties
          <6>q. QED BY <5>1, <6>1
        <5>3. pending[n].seq \in Nat BY <5>2 DEF Inputs
        <5>4. pending[n].seq <= session.seq BY <5>1 DEF Inv, Numbers
        <5>5. pending'[n] = pending[n] BY <2>4, <5>1
        <5>q. QED BY <1>3, <1>4, <2>2, <2>3, <5>3, <5>4, <5>5
      <4>q. QED BY <4>1, <4>2
    <3>2. \E n \in 1..Len(pending') : pending'[n].seq = session'.seq
      <4>1. Len(pending) + 1 \in 1..Len(pending') BY <1>4, <2>4
      <4>q. QED BY <2>3, <2>4, <4>1
    <3>3. session'.ack <= session'.seq /\ session'.seq < nextSeq'
      BY <1>2, <1>3, <1>4, <2>2, <2>3 DEF Inv, Numbers
    <3>4. \A j \in inputs' : 1 <= j.seq /\ j.seq < nextSeq'
      BY <1>2 DEF Inv, Numbers
    <3>q. QED BY <2>3, <3>1, <3>2, <3>3, <3>4 DEF Numbers
  <2>8. Acknowledged' BY <1>2, <2>3 DEF Inv, Acknowledged
  <2>9. Carried'
    <3>1. \A n \in 1..Len(queued') :
            /\ queued'[n] <= started
            /\ \A k \in 1..Len(intents) : queued'[n] < intents[k]
      BY <2>5 DEF Inv, Carried
    <3>2. ASSUME NEW n \in 1..Len(queued'), NEW j \in inputs',
                 j.seq > session'.seq, j.intent # 0
          PROVE  queued'[n] < j.intent
      <4>1. j \in inputs /\ j.seq > i.seq BY <1>2, <2>3, <3>2
      <4>2. CASE n \in 1..Len(queued) /\ queued'[n] = queued[n]
        <5>1. j.seq > session.seq BY <1>3, <1>4, <2>2, <4>1
        <5>q. QED BY <3>2, <4>1, <4>2, <5>1 DEF Inv, Carried
      <4>3. CASE queued'[n] = i.intent /\ i.intent # 0
        <5>1. i.seq < j.seq BY <1>3, <4>1
        <5>q. QED BY <3>2, <4>1, <4>3, <5>1 DEF Inv, Carried
      <4>q. QED BY <2>5, <4>2, <4>3
    <3>3. ASSUME NEW m \in 1..Len(queued'), NEW n \in 1..Len(queued'), m < n
          PROVE  queued'[m] < queued'[n]
      <4>1. m \in 1..Len(queued) /\ queued'[m] = queued[m]
        <5>1. m \in Int /\ n \in Int OBVIOUS
        <5>2. n <= Len(queued) + 1 BY <1>3, <2>5, SMTT(30)
        <5>3. m # Len(queued) + 1 BY <1>3, <3>3, <5>1, <5>2
        <5>q. QED BY <2>5, <5>3
      <4>2. CASE n \in 1..Len(queued) /\ queued'[n] = queued[n]
        BY <3>3, <4>1, <4>2 DEF Inv, Carried
      <4>3. CASE queued'[n] = i.intent /\ i.intent # 0
        <5>1. i.seq > session.seq BY <1>3, <1>4, <2>2
        <5>q. QED BY <4>1, <4>3, <5>1 DEF Inv, Carried
      <4>q. QED BY <2>5, <4>2, <4>3
    <3>4. \A x, y \in inputs' : x.seq < y.seq /\ x.intent # 0 /\ y.intent # 0
                                  => x.intent < y.intent
      BY <1>2 DEF Inv, Carried
    <3>5. \A x \in inputs' : x.intent # 0 =>
            /\ x.intent <= started
            /\ \A k \in 1..Len(intents) : x.intent < intents[k]
      BY <1>2 DEF Inv, Carried
    <3>q. QED BY <1>2, <3>1, <3>2, <3>3, <3>4, <3>5 DEF Inv, Carried
  <2>q. QED BY <1>5, <2>6, <2>7, <2>8, <2>9 DEF Inv
<1>q. QED BY <1>6, <1>7

\* The tick acknowledges between what it had and the newest number, and says so
\* in a snapshot of a later tick than any before.
LEMMA TickKeeps ==
  ASSUME Inv, ServerTick
  PROVE  Inv'
<1> DEFINE new == [tick |-> tick + 1, pos |-> pos', ack |-> Acked]
<1>1. /\ session \in [got : BOOLEAN, seq : Nat, held : BOOLEAN, move : Moves,
                      age : Nat, ack : Nat]
      /\ session.seq \in Nat /\ session.ack \in Nat /\ session.age \in Nat
      /\ 0 \in Moves /\ tick \in Nat /\ MaxTicks \in Nat /\ pos \in Seq(Moves)
      /\ heard \in Snapshots /\ snaps \subseteq Snapshots
  BY InputAssumption DEF Inv, Typed
<1>2. Newest.seq \in Nat /\ Newest.move \in Moves /\ Newest.seq <= session.seq
  <2>1. Newest \in Controls /\ Newest.seq <= session.seq BY NewestFacts DEF Inv
  <2>q. QED BY <2>1 DEF Controls
<1>3. Acked \in Nat /\ session.ack <= Acked /\ Acked <= session.seq
  BY <1>1, <1>2 DEF Inv, Numbers, Acked
<1>4. /\ tick < MaxTicks /\ tick' = tick + 1 /\ pos' = Append(pos, Newest.move)
      /\ session' = [session EXCEPT !.ack = Acked,
                                    !.held = Holds,
                                    !.move = IF Holds THEN @ ELSE 0,
                                    !.age = IF @ <= InputTimeout THEN @ + 1 ELSE @]
      /\ pending' = <<>>
      /\ snaps' \subseteq snaps \cup {new}
      /\ UNCHANGED <<latest, intents, started, nextSeq, unacked, predicted, heard,
                     inputs, queued>>
  BY DEF ServerTick, clientVars
<1>5. /\ session' \in [got : BOOLEAN, seq : Nat, held : BOOLEAN, move : Moves,
                       age : Nat, ack : Nat]
      /\ session'.got = session.got /\ session'.seq = session.seq
      /\ session'.ack = Acked
  <2>1. Holds \in BOOLEAN BY <1>1 DEF Holds
  <2>2. (IF Holds THEN session.move ELSE 0) \in Moves BY <1>1
  <2>3. (IF session.age <= InputTimeout THEN session.age + 1 ELSE session.age) \in Nat
    BY <1>1
  <2> HIDE DEF Holds
  <2>q. QED BY <1>1, <1>3, <1>4, <2>1, <2>2, <2>3
<1>6. pos' \in Seq(Moves) BY <1>1, <1>2, <1>4, AppendProperties
<1>7. /\ new \in Snapshots /\ new.tick = tick + 1 /\ new.ack = Acked
  BY <1>1, <1>3, <1>6 DEF Snapshots
<1> HIDE DEF new
<1>8. Typed'
  <2>1. snaps' \subseteq Snapshots BY <1>1, <1>4, <1>7
  <2>2. tick' \in Nat /\ tick' <= MaxTicks BY <1>1, <1>4
  <2>3. pending' \in Seq(Inputs) BY <1>4
  <2>q. QED BY <1>4, <1>5, <1>6, <2>1, <2>2, <2>3 DEF Inv, Typed
<1>9. Numbers'
  <2>1. Len(pending') = 0 BY <1>4
  <2>q. QED BY <1>3, <1>4, <1>5, <2>1 DEF Inv, Numbers
<1>10. Acknowledged'
  <2>1. \A s \in snaps \cup {heard} :
          /\ s.tick \in Nat /\ s.ack \in Nat
          /\ s.tick <= tick /\ s.ack <= session.ack
    BY <1>1 DEF Inv, Acknowledged, Snapshots
  <2>2. \A s \in snaps' \cup {heard} : s \in snaps \cup {heard} \/ s = new BY <1>4
  <2>3. \A s \in snaps' \cup {heard} : s.tick <= tick + 1 /\ s.ack <= Acked
    BY <1>1, <1>3, <1>7, <2>1, <2>2
  <2>4. ASSUME NEW r \in snaps' \cup {heard}, NEW s \in snaps' \cup {heard},
               r.tick <= s.tick
        PROVE  r.ack <= s.ack
    <3>1. CASE r \in snaps \cup {heard} /\ s \in snaps \cup {heard}
      BY <2>4, <3>1 DEF Inv, Acknowledged
    <3>2. CASE s = new BY <1>7, <2>3, <3>2
    <3>3. CASE r = new /\ s \in snaps \cup {heard}
      BY <1>1, <1>7, <2>1, <2>4, <3>3
    <3>q. QED BY <2>2, <3>1, <3>2, <3>3
  <2>q. QED BY <1>4, <1>5, <2>3, <2>4 DEF Acknowledged
<1>11. Kept' BY <1>4 DEF Inv, Kept, Walked
<1>12. Carried' BY <1>4, <1>5 DEF Inv, Carried
<1>q. QED BY <1>8, <1>9, <1>10, <1>11, <1>12 DEF Inv

LEMMA LoseKeeps ==
  ASSUME Inv, Lose
  PROVE  Inv'
<1>1. /\ inputs' \subseteq inputs /\ snaps' \subseteq snaps
      /\ UNCHANGED <<latest, intents, started, nextSeq, unacked, predicted, heard,
                     session, pending, tick, pos, queued>>
  BY DEF Lose, clientVars, serverVars
<1>2. Typed' BY <1>1 DEF Inv, Typed
<1>3. Numbers' BY <1>1 DEF Inv, Numbers
<1>4. Acknowledged' BY <1>1 DEF Inv, Acknowledged
<1>5. Kept' BY <1>1 DEF Inv, Kept, Walked
<1>6. Carried' BY <1>1 DEF Inv, Carried
<1>q. QED BY <1>2, <1>3, <1>4, <1>5, <1>6 DEF Inv

-----------------------------------------------------------------------------
(* The theorems.                                                           *)

LEMMA Initially == InputInit => Inv
<1> SUFFICES ASSUME InputInit PROVE Inv OBVIOUS
<1>1. Typed
  BY InputAssumption DEF InputInit, Typed, Snapshots, Controls, Inputs
<1>2. Numbers /\ Acknowledged BY DEF InputInit, Numbers, Acknowledged
<1>3. Kept
  <2>1. Len(unacked) = 0 /\ nextSeq - 1 - heard.ack = 0 BY DEF InputInit
  <2>2. predicted = Walked(heard.pos, unacked) BY DEF InputInit, Walked
  <2>q. QED BY <2>1, <2>2 DEF Kept
<1>4. Carried BY DEF InputInit, Carried
<1>q. QED BY <1>1, <1>2, <1>3, <1>4 DEF Inv

LEMMA Steps == Inv /\ [InputNext]_inputVars => Inv'
<1> SUFFICES ASSUME Inv, [InputNext]_inputVars PROVE Inv' OBVIOUS
<1>1. CASE \E m \in Moves, edge \in BOOLEAN : submit_player_input(m, edge)
  BY <1>1, SubmitKeeps
<1>2. CASE emit_client_input_for_tick BY <1>2, EmitKeeps
<1>3. CASE DeliverInput BY <1>3, InputKeeps
<1>4. CASE ServerTick BY <1>4, TickKeeps
<1>5. CASE DeliverSnapshot BY <1>5, SnapshotKeeps
<1>6. CASE Lose BY <1>6, LoseKeeps
<1>7. CASE UNCHANGED inputVars
  BY <1>7 DEF inputVars, Inv, Typed, Numbers, Acknowledged, Kept, Carried, Walked
<1>q. QED BY <1>1, <1>2, <1>3, <1>4, <1>5, <1>6, <1>7 DEF InputNext

LEMMA Invariance == InputSpec => []Inv
<1>1. InputInit => Inv BY Initially
<1>2. Inv /\ [InputNext]_inputVars => Inv' BY Steps
<1>q. QED BY <1>1, <1>2, PTL DEF InputSpec

LEMMA Counted == Inv => InputsCount
<1> SUFFICES ASSUME Inv PROVE InputsCount OBVIOUS
<1>1. InputTypeOK
  BY InputAssumption DEF Inv, Typed, Numbers, InputTypeOK
<1>2. PredictionIsReplay
  BY DEF Inv, Kept, PredictionIsReplay
<1>3. IntentsInOrder
  <2>1. queued \in Seq(Nat) /\ Len(queued) \in Nat BY LenProperties DEF Inv, Typed
  <2>2. \A n \in 1..Len(queued) - 1 :
          n \in 1..Len(queued) /\ n + 1 \in 1..Len(queued) /\ n < n + 1
    BY <2>1
  <2>q. QED BY <2>2 DEF Inv, Carried, IntentsInOrder
<1>q. QED BY <1>1, <1>2, <1>3 DEF InputsCount

\* Nothing the player did is lost or done twice: where the client shows its
\* player is the newest snapshot and every input since it once and in order, and
\* the server queues every intent at most once, in the order they were started
\* (reconcile_local_prediction, cache_server_movement_input), for every set of
\* moves, timeout and bound, whatever the channels lose, repeat and reorder.
THEOREM InputsAreCounted == InputSpec => []InputsCount
<1>1. Inv => InputsCount BY Counted
<1>q. QED BY <1>1, Invariance, PTL

LEMMA FreshMoves ==
  ASSUME Inv, [InputNext]_inputVars, pos' \notin {pos, Append(pos, 0)}
  PROVE  /\ Newest.seq >= session.ack
         /\ pending # <<>> \/ session.age <= InputTimeout
<1>1. ServerTick
  BY DEF InputNext, inputVars, serverVars, clientVars, submit_player_input,
         emit_client_input_for_tick, DeliverInput, DeliverSnapshot, Lose
<1>2. Newest.move # 0 BY <1>1 DEF ServerTick
<1>3. /\ Newest.seq = session.seq
      /\ pending # <<>> \/ Holds
  BY <1>2, NewestFacts DEF Inv
<1>4. session.ack <= session.seq /\ session.ack \in Nat /\ session.seq \in Nat
  BY DEF Inv, Typed, Numbers
<1>q. QED BY <1>3, <1>4 DEF Holds

\* The player is never moved by an input older than one that moved it before,
\* and a held input moves it only until its timeout: late and repeated packets
\* change nothing (cache_server_movement_input, build_effective_movement_inputs).
THEOREM StaleInputsMoveNothing == InputSpec => NoStaleInput
<1>1. Inv /\ [InputNext]_inputVars =>
        [pos' \notin {pos, Append(pos, 0)} =>
           /\ Newest.seq >= session.ack
           /\ pending # <<>> \/ session.age <= InputTimeout]_inputVars
  BY FreshMoves
<1>q. QED BY <1>1, Invariance, PTL DEF InputSpec, NoStaleInput
=============================================================================
