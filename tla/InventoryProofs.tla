--------------------------- MODULE InventoryProofs ---------------------------
(***************************************************************************)
(* What the inventory promises, for every capacity, catalog, stock, page   *)
(* and batch size, and whatever else the containers and the world go       *)
(* through: a request is answered with one outcome, nothing is made or     *)
(* lost or in two places, and a weapon's rounds go only by shots and       *)
(* reloads.                                                                *)
(*                                                                         *)
(* 1. Recorded: an answer is copied twice, from the record into the        *)
(*    outcomes and from there onto the channel, which carries pages,       *)
(*    deltas and closes too; the invariant follows every copy back to the  *)
(*    record.                                                              *)
(* 2. Sound: slots and items name each other, props carry one item, ids    *)
(*    are not given twice, stacks and magazines are within their limits.   *)
(*    Every operation of the store is shown to keep it by what it does to  *)
(*    one item at a time (MovedSound), and to keep the total of every      *)
(*    template (TotalChange).                                              *)
(* 3. InStep: the hand is a copy of the weapon in the container's slot.    *)
(*    While a request is served the two may part; what holds then is       *)
(*    Ready: they agree wherever the revision last seen is the current     *)
(*    one, since a slot changes only together with its revision (Ahead).   *)
(* 4. Copied: the cursors and the client's copy, of their types.           *)
(***************************************************************************)
EXTENDS InventorySync, SequenceTheorems, FiniteSetTheorems, NaturalsInduction,
        WellFoundedInduction, TLAPS

Outcomes == {"committed", "rejected"}
Replies == Outcomes \cup {"unauthorized"}

\* What there is to hear of request id: what is recorded of it, or, of one in
\* another's name, that it may not.
AnswerIn(a, p, id) == IF a[id].by = "own" THEN p[id] ELSE "unauthorized"
Answer(id) == AnswerIn(asked, processed, id)
NewAnswer(id) == AnswerIn(asked', processed', id)

\* q is a sequence, whatever its elements are.
Listed(q) == q \in Seq({q[n] : n \in DOMAIN q})

\* Every answer among the messages q is the one there is.
Truthful(q) ==
  \A n \in 1..Len(q) :
    IF q[n].kind = "answer"
    THEN /\ q[n].id \in RequestIds /\ q[n].status \in Replies
         /\ q[n].status = Answer(q[n].id)
    ELSE q[n].container \in Containers

\* The messages q are requests and calls for snapshots.
Asking(q) ==
  \A n \in 1..Len(q) :
    /\ q[n].kind = "request" => q[n].id \in RequestIds
    /\ q[n].kind = "snapshot" => q[n].container \in Containers

Recorded ==
  /\ processed \in [RequestIds -> Outcomes \cup {"none"}]
  /\ \A id \in RequestIds :
       processed[id] # "none" => asked[id].by = "own" /\ asked[id] # NotAsked
  /\ outcomes \in Seq([id : RequestIds, status : Replies])
  /\ \A n \in 1..Len(outcomes) : outcomes[n].status = Answer(outcomes[n].id)
  /\ Listed(toClient) /\ Truthful(toClient)
  /\ Listed(toServer) /\ Asking(toServer)
  /\ told \in [RequestIds -> SUBSET Replies]
  /\ \A id \in RequestIds : told[id] \subseteq {Answer(id)}

-----------------------------------------------------------------------------
(* Sequences of messages.                                                  *)

\* A sequence over a set is one.
LEMMA ListedFrom ==
  ASSUME NEW S, NEW q \in Seq(S)
  PROVE  Listed(q) /\ Len(q) \in Nat /\ DOMAIN q = 1..Len(q)
<1> DEFINE R == {q[n] : n \in DOMAIN q}
<1>1. Len(q) \in Nat /\ q \in [1..Len(q) -> S] /\ DOMAIN q = 1..Len(q)
  BY LenProperties
<1>2. q \in [1..Len(q) -> R] BY <1>1
<1>3. q \in Seq(R) BY <1>1, <1>2, IsASeq, SMTT(30)
<1> QED BY <1>1, <1>3 DEF Listed

\* It has a length, and that is its domain.
LEMMA ListedHas ==
  ASSUME NEW q, Listed(q)
  PROVE  /\ Len(q) \in Nat /\ DOMAIN q = 1..Len(q)
BY ListedFrom DEF Listed

\* Intervals from one are equal only if their ends are.
LEMMA SameInterval ==
  ASSUME NEW a \in Nat, NEW b \in Nat, 1..a = 1..b
  PROVE  a = b
OBVIOUS

\* A function on an interval from one is a sequence.
LEMMA ListedFunction ==
  ASSUME NEW m \in Int, NEW q, DOMAIN q = 1..m, q = [n \in 1..m |-> q[n]]
  PROVE  Listed(q) /\ Len(q) = IF m < 0 THEN 0 ELSE m
<1> DEFINE k == IF m < 0 THEN 0 ELSE m
<1> DEFINE R == {q[n] : n \in DOMAIN q}
<1>1. k \in Nat /\ 1..m = 1..k OBVIOUS
<1>2. q \in [1..k -> R] BY <1>1
<1>3. q \in Seq(R) BY <1>1, <1>2, IsASeq, SMTT(30)
<1> HIDE DEF R
<1>4. Len(q) \in Nat /\ 1..Len(q) = 1..k BY <1>1, <1>2, <1>3, LenProperties
<1> HIDE DEF k
<1>5. Len(q) = k BY <1>1, <1>4, SameInterval
<1> QED BY <1>3, <1>5 DEF Listed, R, k

\* Every element of a concatenation is one of the two.
LEMMA ListedConcat ==
  ASSUME NEW q, NEW r, Listed(q), Listed(r)
  PROVE  /\ Listed(q \o r) /\ Len(q \o r) = Len(q) + Len(r)
         /\ \A n \in 1..Len(q \o r) :
              \/ \E k \in 1..Len(q) : (q \o r)[n] = q[k]
              \/ \E k \in 1..Len(r) : (q \o r)[n] = r[k]
<1> DEFINE S == {q[n] : n \in DOMAIN q} \cup {r[n] : n \in DOMAIN r}
<1>1. Len(q) \in Nat /\ Len(r) \in Nat /\ DOMAIN q = 1..Len(q) /\ DOMAIN r = 1..Len(r)
  BY ListedHas
<1>2. q \in Seq({q[n] : n \in DOMAIN q}) /\ r \in Seq({r[n] : n \in DOMAIN r})
  BY DEF Listed
<1>3. q \in [1..Len(q) -> S] /\ r \in [1..Len(r) -> S]
  BY <1>1, <1>2, LenProperties
<1>4. q \in Seq(S) /\ r \in Seq(S) BY <1>1, <1>3, IsASeq
<1> HIDE DEF S
<1>5. /\ q \o r \in Seq(S) /\ Len(q \o r) = Len(q) + Len(r)
      /\ \A n \in 1..(Len(q) + Len(r)) :
           (q \o r)[n] = IF n <= Len(q) THEN q[n] ELSE r[n - Len(q)]
  BY <1>4, ConcatProperties
<1>6. ASSUME NEW n \in 1..Len(q \o r)
      PROVE  \/ \E k \in 1..Len(q) : (q \o r)[n] = q[k]
             \/ \E k \in 1..Len(r) : (q \o r)[n] = r[k]
  BY <1>1, <1>5
<1> QED BY <1>5, <1>6, ListedFrom

\* Every element of a tail is one of the whole,
LEMMA ListedTail ==
  ASSUME NEW q, Listed(q), q # <<>>
  PROVE  /\ Listed(Tail(q)) /\ 1 \in 1..Len(q) /\ Head(q) = q[1]
         /\ \A n \in 1..Len(Tail(q)) : \E k \in 1..Len(q) : Tail(q)[n] = q[k]
<1> DEFINE S == {q[n] : n \in DOMAIN q}
<1>1. q \in Seq(S) BY DEF Listed
<1> HIDE DEF S
<1>2. /\ Tail(q) \in Seq(S) /\ Len(Tail(q)) = Len(q) - 1 /\ Len(q) \in Nat
      /\ \A n \in 1..Len(Tail(q)) : Tail(q)[n] = q[n + 1]
      /\ Len(q) # 0 /\ Head(q) = q[1]
  BY <1>1, HeadTailProperties, LenProperties, EmptySeq
<1>3. ASSUME NEW n \in 1..Len(Tail(q))
      PROVE  n + 1 \in 1..Len(q) /\ Tail(q)[n] = q[n + 1]
  BY <1>2
<1>4. 1 \in 1..Len(q) BY <1>2
<1>5. Listed(Tail(q)) BY <1>2, ListedFrom
<1> QED BY <1>2, <1>3, <1>4, <1>5

\* of what was appended to,
LEMMA ListedAppend ==
  ASSUME NEW q, Listed(q), NEW e
  PROVE  /\ Listed(Append(q, e))
         /\ \A n \in 1..Len(Append(q, e)) :
              Append(q, e)[n] = e \/ \E k \in 1..Len(q) : Append(q, e)[n] = q[k]
<1> DEFINE S == {q[n] : n \in DOMAIN q} \cup {e}
<1>1. Len(q) \in Nat /\ DOMAIN q = 1..Len(q) BY ListedHas
<1>2. q \in Seq({q[n] : n \in DOMAIN q}) BY DEF Listed
<1>3. q \in [1..Len(q) -> S] BY <1>1, <1>2, LenProperties
<1>4. q \in Seq(S) /\ e \in S BY <1>1, <1>3, IsASeq
<1> HIDE DEF S
<1>5. /\ Append(q, e) \in Seq(S) /\ Len(Append(q, e)) = Len(q) + 1
      /\ \A n \in 1..Len(q) : Append(q, e)[n] = q[n]
      /\ Append(q, e)[Len(q) + 1] = e
  BY <1>4, AppendProperties
<1>6. ASSUME NEW n \in 1..Len(Append(q, e))
      PROVE  Append(q, e)[n] = e \/ \E k \in 1..Len(q) : Append(q, e)[n] = q[k]
  BY <1>1, <1>5
<1> QED BY <1>5, <1>6, ListedFrom

\* and of what a start is cut from.
LEMMA ListedStart ==
  ASSUME NEW q, Listed(q), NEW m \in Int, m <= Len(q)
  PROVE  /\ Listed(SubSeq(q, 1, m))
         /\ \A n \in 1..Len(SubSeq(q, 1, m)) :
              \E k \in 1..Len(q) : SubSeq(q, 1, m)[n] = q[k]
<1> DEFINE S == {q[n] : n \in DOMAIN q}
<1>1. q \in Seq(S) /\ Len(q) \in Nat BY ListedHas DEF Listed
<1> HIDE DEF S
<1>2. /\ SubSeq(q, 1, m) \in Seq(S)
      /\ Len(SubSeq(q, 1, m)) = IF 1 <= m THEN m ELSE 0
      /\ \A n \in 1..m : SubSeq(q, 1, m)[n] = q[n]
  BY <1>1
<1>3. Listed(SubSeq(q, 1, m)) BY <1>2, ListedFrom
<1>4. ASSUME NEW n \in 1..Len(SubSeq(q, 1, m))
      PROVE  n \in 1..Len(q) /\ SubSeq(q, 1, m)[n] = q[n]
  BY <1>1, <1>2
<1> QED BY <1>3, <1>4

-----------------------------------------------------------------------------
(* What the server says in a tick.                                         *)

\* Messages that answer nothing.
Silent(q) ==
  /\ Listed(q)
  /\ \A n \in 1..Len(q) : q[n].kind # "answer" /\ q[n].container \in Containers

\* A snapshot answers nothing,
LEMMA PagesSilent ==
  ASSUME NEW s, NEW c \in Containers
  PROVE  Silent(Pages(s, c))
<1> DEFINE held == {k \in 1..Capacity[c] : s.slots[c][k] # 0}
<1> DEFINE all == Entries(s, c)
<1> DEFINE count == IF all = <<>> THEN 1 ELSE (Len(all) + PageSize - 1) \div PageSize
<1>1. Capacity[c] \in Nat BY ItemStoreAssumption
<1>2. Cardinality(held) \in Nat
  <2>1. IsFiniteSet(1..Capacity[c]) BY <1>1, FS_Interval
  <2>2. IsFiniteSet(held) BY <2>1, FS_Subset
  <2> QED BY <2>2, FS_CardinalityType
<1>3. DOMAIN all = 1..Cardinality(held) /\ all = [n \in 1..Cardinality(held) |-> all[n]]
  BY DEF Entries
<1> HIDE DEF all, held
<1>4. Len(all) \in Nat BY <1>2, <1>3, ListedFunction
<1>5. count \in Int BY <1>4, InventorySyncAssumption
<1> HIDE DEF count
<1> DEFINE q == Pages(s, c)
<1>6. /\ DOMAIN q = 1..count /\ q = [n \in 1..count |-> q[n]]
      /\ \A n \in 1..count : q[n].kind = "page" /\ q[n].container = c
  BY DEF Pages, count, all
<1> HIDE DEF q
<1>7. Listed(q) BY <1>5, <1>6, ListedFunction
<1>8. DOMAIN q = 1..Len(q) BY <1>7, ListedHas
<1> QED BY <1>6, <1>7, <1>8 DEF Silent, q

\* nor does any one other message,
LEMMA OneSilent ==
  ASSUME NEW e, e.kind # "answer", e.container \in Containers
  PROVE  Silent(<<e>>)
<1>1. <<e>> \in Seq({e}) /\ Len(<<e>>) = 1 /\ <<e>>[1] = e OBVIOUS
<1>2. Listed(<<e>>) BY <1>1, ListedFrom
<1> QED BY <1>1, <1>2 DEF Silent

\* nor none,
LEMMA NoneSilent == Silent(<<>>)
<1>1. <<>> \in Seq({}) /\ Len(<<>>) = 0 OBVIOUS
<1>2. Listed(<<>>) BY <1>1, ListedFrom
<1>3. 1..Len(<<>>) = {} BY <1>1
<1> QED BY <1>2, <1>3 DEF Silent

\* nor what a tick says of a container,
LEMMA ToSaySilent ==
  ASSUME NEW s, NEW c \in Containers
  PROVE  Silent(ToSay(s, c))
<1>1. Silent(Pages(s, c)) /\ Silent(<<>>) BY PagesSilent, NoneSilent
<1>2. Silent(<<[kind |-> "closed", container |-> c]>>) BY OneSilent
<1>3. ASSUME NEW f, NEW r
      PROVE  Silent(<<[kind |-> "deltas", container |-> c, first |-> f, records |-> r]>>)
  BY OneSilent
<1> HIDE DEF Silent
<1> QED BY <1>1, <1>2, <1>3 DEF ToSay

\* nor one list of such messages after another,
LEMMA SilentConcat ==
  ASSUME NEW q, NEW r, Silent(q), Silent(r)
  PROVE  Silent(q \o r)
BY ListedConcat DEF Silent

\* nor the first of them.
LEMMA SilentStart ==
  ASSUME NEW q, Silent(q), NEW m \in Int, m <= Len(q)
  PROVE  Silent(SubSeq(q, 1, m))
BY ListedStart DEF Silent

\* A refusal is of a send there is.
LEMMA RefusalIs ==
  ASSUME NEW s, NEW refusal \in Refusals(s)
  PROVE  \/ refusal = NoRefusal
         \/ \E d \in Containers : \E n \in 1..Len(ToSay(s, d)) : refusal = [of |-> d, at |-> n]
         \/ \E n \in 1..Len(outcomes) : refusal = [of |-> "answers", at |-> n]
<1> DEFINE A == {{[of |-> d, at |-> n] : n \in 1..Len(ToSay(s, d))} : d \in Containers}
           B == {[of |-> "answers", at |-> n] : n \in 1..Len(outcomes)}
<1>1. refusal = NoRefusal \/ refusal \in UNION A \/ refusal \in B
  <2>1. refusal \in {NoRefusal} \cup (IF scenario.faults = 0 THEN {} ELSE (UNION A) \cup B)
    BY DEF Refusals
  <2> HIDE DEF A, B
  <2>2. CASE scenario.faults = 0 BY <2>1, <2>2
  <2>3. CASE scenario.faults # 0
    BY <2>1, <2>3
  <2> QED BY <2>2, <2>3
<1>2. refusal \in UNION A =>
        \E d \in Containers : \E n \in 1..Len(ToSay(s, d)) : refusal = [of |-> d, at |-> n]
  OBVIOUS
<1>3. refusal \in B => \E n \in 1..Len(outcomes) : refusal = [of |-> "answers", at |-> n]
  OBVIOUS
<1> HIDE DEF A, B
<1> QED BY <1>1, <1>2, <1>3

\* The send refused is one of the container it is of.
LEMMA RefusalAt ==
  ASSUME NEW s, NEW refusal \in Refusals(s), NEW c \in Containers, refusal.of = c
  PROVE  refusal.at - 1 \in Int /\ refusal.at - 1 <= Len(ToSay(s, c))
BY ItemStoreAssumption, ToSaySilent, ListedHas, RefusalIs DEF Silent, NoRefusal

\* What a tick says of all the containers answers nothing.
LEMMA FlushedSilent ==
  ASSUME NEW s, NEW refusal \in Refusals(s)
  PROVE  Silent(Flushed(s, refusal))
<1> DEFINE Accepted(c) == IF refusal.of = c THEN SubSeq(ToSay(s, c), 1, refusal.at - 1)
                          ELSE ToSay(s, c)
<1>1. ASSUME NEW c \in Containers PROVE Silent(Accepted(c))
  BY RefusalAt, ToSaySilent, SilentStart
<1>2. Silent(Accepted("own")) /\ Silent(Accepted("arms")) /\ Silent(Accepted("stock"))
  BY <1>1, ItemStoreAssumption
<1>3. Flushed(s, refusal) =
        IF "stock" \in Observed(s) THEN (Accepted("own") \o Accepted("arms")) \o Accepted("stock")
        ELSE Accepted("stock") \o (Accepted("own") \o Accepted("arms"))
  BY DEF Flushed
<1> HIDE DEF Accepted
<1>4. Silent(Accepted("own") \o Accepted("arms")) BY <1>2, SilentConcat
<1>5. /\ Silent((Accepted("own") \o Accepted("arms")) \o Accepted("stock"))
      /\ Silent(Accepted("stock") \o (Accepted("own") \o Accepted("arms")))
  BY <1>2, <1>4, SilentConcat
<1> QED BY <1>3, <1>5

\* The answers sent are the recorded ones, whichever of them is refused.
LEMMA AnswersTruthful ==
  ASSUME Recorded, NEW s, NEW refusal \in Refusals(s)
  PROVE  Listed(Answers(refusal)) /\ Truthful(Answers(refusal))
<1> DEFINE O == [id : RequestIds, status : Replies]
           kept == IF refusal.of = "answers" THEN RemoveAt(outcomes, refusal.at) ELSE outcomes
           q == Answers(refusal)
<1>1. outcomes \in Seq(O) /\ Len(outcomes) \in Nat BY DEF Recorded
<1>2. kept \in Seq(O) /\ \A n \in 1..Len(kept) : \E k \in 1..Len(outcomes) : kept[n] = outcomes[k]
  <2> HIDE DEF O, q
  <2>1. CASE refusal.of = "answers"
    <3>1. PICK at \in 1..Len(outcomes) : refusal = [of |-> "answers", at |-> at]
      BY <2>1, RefusalIs, ItemStoreAssumption DEF NoRefusal
    <3> DEFINE a == SubSeq(outcomes, 1, at - 1)
               b == SubSeq(outcomes, at + 1, Len(outcomes))
    <3>2. kept = a \o b BY <2>1, <3>1 DEF RemoveAt
    <3>3. at \in Int /\ 1 <= at /\ at <= Len(outcomes) BY <1>1
    <3>4. /\ a \in Seq(O) /\ Len(a) = at - 1
          /\ \A n \in 1..(at - 1) : a[n] = outcomes[n]
      BY <1>1, <3>3
    <3>5. /\ b \in Seq(O) /\ Len(b) = Len(outcomes) - at
          /\ \A n \in 1..(Len(outcomes) - at) : b[n] = outcomes[at + n]
      BY <1>1, <3>3
    <3> HIDE DEF a, b, kept
    <3>6. kept \in Seq(O) BY <3>2, <3>4, <3>5, ConcatProperties
    <3>7. Listed(a) /\ Listed(b) BY <3>4, <3>5, ListedFrom
    <3>8. ASSUME NEW n \in 1..Len(kept)
          PROVE  \E k \in 1..Len(outcomes) : kept[n] = outcomes[k]
      <4>1. CASE \E k \in 1..Len(a) : kept[n] = a[k]
        BY <1>1, <3>3, <3>4, <4>1
      <4>2. CASE \E k \in 1..Len(b) : kept[n] = b[k]
        BY <1>1, <3>3, <3>5, <4>2
      <4> QED BY <3>2, <3>7, <4>1, <4>2, ListedConcat
    <3> QED BY <3>6, <3>8
  <2>2. CASE refusal.of # "answers" BY <1>1, <2>2
  <2> QED BY <2>1, <2>2
<1>3. /\ q = [n \in 1..Len(kept) |->
                [kind |-> "answer", id |-> kept[n].id, status |-> kept[n].status]]
  BY DEF Answers
<1> HIDE DEF kept, q
<1>4. Len(kept) \in Nat BY <1>2, LenProperties
<1>5. DOMAIN q = 1..Len(kept) /\ q = [n \in 1..Len(kept) |-> q[n]] BY <1>3
<1>6. Listed(q) /\ Len(q) = Len(kept) BY <1>4, <1>5, ListedFunction
<1>7. ASSUME NEW n \in 1..Len(q)
      PROVE  /\ q[n].id \in RequestIds /\ q[n].status \in Replies
             /\ q[n].status = Answer(q[n].id)
  <2>1. PICK k \in 1..Len(outcomes) : kept[n] = outcomes[k] BY <1>2, <1>6
  <2>2. q[n].id = outcomes[k].id /\ q[n].status = outcomes[k].status BY <1>3, <1>6, <2>1
  <2>3. outcomes[k] \in O BY <1>1, ElementOfSeq
  <2>4. outcomes[k].status = Answer(outcomes[k].id) BY DEF Recorded
  <2> QED BY <2>2, <2>3, <2>4
<1>8. ASSUME NEW n \in 1..Len(q) PROVE q[n].kind = "answer" BY <1>3, <1>6
<1>9. Truthful(q) BY <1>7, <1>8 DEF Truthful
<1> QED BY <1>6, <1>9 DEF q

-----------------------------------------------------------------------------
(* The requests on the way.                                                *)

\* What is played is a scenario, and what was asked is something one may ask.
Wished ==
  /\ scenario = [wishes |-> scenario.wishes, world |-> scenario.world,
                 faults |-> scenario.faults, repeats |-> scenario.repeats]
  /\ scenario.wishes \subseteq Requests
  /\ asked \in [RequestIds -> Requests \cup {NotAsked}]
  /\ \A n \in 1..Len(toServer) :
       toServer[n].kind = "request" => asked[toServer[n].id] \in Requests

\* A refusal leaves what a scenario wishes.
LEMMA RefusedKeeps ==
  ASSUME Wished, NEW refusal, Refused(refusal)
  PROVE  /\ scenario' = [wishes |-> scenario'.wishes, world |-> scenario'.world,
                         faults |-> scenario'.faults, repeats |-> scenario'.repeats]
         /\ scenario'.wishes = scenario.wishes
<1> DEFINE a == scenario.wishes
           b == scenario.world
           c == scenario.faults
           d == scenario.repeats
<1>1. scenario = [wishes |-> a, world |-> b, faults |-> c, repeats |-> d] BY DEF Wished
<1>2. scenario' = scenario \/ scenario' = [scenario EXCEPT !.faults = c - 1]
  BY DEF Refused
<1> HIDE DEF a, b, c, d
<1>3. \/ scenario' = [wishes |-> a, world |-> b, faults |-> c, repeats |-> d]
      \/ scenario' = [wishes |-> a, world |-> b, faults |-> c - 1, repeats |-> d]
  BY <1>1, <1>2
<1>4. scenario'.wishes = a BY <1>3
<1> QED BY <1>3, <1>4 DEF a

\* At first nothing is asked,
LEMMA WishedStart == InventoryInit => Wished
BY InventorySyncAssumption DEF InventoryInit, RequestInit, Wished

\* and then only what the scenario wishes.
LEMMA WishedStep ==
  ASSUME Recorded, Wished, [InventoryNext]_inventoryVars
  PROVE  Wished'
<1>1. Listed(toServer) BY DEF Recorded
<1>2. /\ asked \in [RequestIds -> Requests \cup {NotAsked}]
      /\ \A n \in 1..Len(toServer) :
           toServer[n].kind = "request" => asked[toServer[n].id] \in Requests
  BY DEF Wished
<1>3. CASE UNCHANGED <<scenario, asked, toServer>> BY <1>3 DEF Wished
<1>4. CASE Tick
  BY <1>4, RefusedKeeps DEF Tick, Wished
<1>5. CASE ServerReceive
  BY <1>1, <1>2, <1>5, RefusedKeeps, ListedTail, ListedHas DEF ServerReceive,
    HandleSnapshotRequest, requestVars, Wished
<1>6. CASE World
  BY <1>3, <1>6 DEF World, syncVars, Land, Fire, Reload, enter_shelter, leave_shelter,
    destroy_camp
<1>7. CASE submit_gameplay_request
  <2>1. PICK id \in RequestIds :
          /\ \/ /\ asked[id] = NotAsked
                /\ \A k \in RequestIds : k < id => asked[k] # NotAsked
                /\ \E r \in scenario.wishes : asked' = [asked EXCEPT ![id] = r]
                /\ UNCHANGED scenario
             \/ /\ asked[id] # NotAsked /\ told[id] = {} /\ scenario.repeats > 0
                /\ scenario' = [scenario EXCEPT !.repeats = @ - 1]
                /\ UNCHANGED asked
          /\ toServer' = Append(toServer, [kind |-> "request", id |-> id])
    BY <1>7 DEF submit_gameplay_request
  <2> DEFINE e == [kind |-> "request", id |-> id]
  <2>2. e.id = id OBVIOUS
  <2>3. toServer' = Append(toServer, e) BY <2>1
  <2> HIDE DEF e
  <2>4. /\ asked' \in [RequestIds -> Requests \cup {NotAsked}] /\ asked'[id] \in Requests
        /\ \A k \in RequestIds : asked[k] \in Requests => asked'[k] \in Requests
    <3>1. CASE asked' = asked /\ asked[id] # NotAsked BY <1>2, <3>1
    <3>2. CASE \E r \in scenario.wishes : asked' = [asked EXCEPT ![id] = r]
      <4>1. PICK r \in Requests : asked' = [asked EXCEPT ![id] = r] BY <3>2 DEF Wished
      <4> HIDE DEF Requests
      <4> QED BY <1>2, <4>1
    <3> QED BY <2>1, <3>1, <3>2
  <2>5. /\ scenario' = [wishes |-> scenario'.wishes, world |-> scenario'.world,
                        faults |-> scenario'.faults, repeats |-> scenario'.repeats]
        /\ scenario'.wishes = scenario.wishes
    <3> DEFINE a == scenario.wishes
               b == scenario.world
               c == scenario.faults
               d == scenario.repeats
    <3>1. scenario = [wishes |-> a, world |-> b, faults |-> c, repeats |-> d] BY DEF Wished
    <3>2. scenario' = scenario \/ scenario' = [scenario EXCEPT !.repeats = d - 1]
      BY <2>1
    <3> HIDE DEF a, b, c, d
    <3>3. \/ scenario' = [wishes |-> a, world |-> b, faults |-> c, repeats |-> d]
          \/ scenario' = [wishes |-> a, world |-> b, faults |-> c, repeats |-> d - 1]
      BY <3>1, <3>2
    <3>4. scenario'.wishes = a BY <3>3
    <3> QED BY <3>3, <3>4 DEF a
  <2>6. \A n \in 1..Len(toServer') :
          toServer'[n].kind = "request" => asked'[toServer'[n].id] \in Requests
    BY <1>1, <1>2, <2>2, <2>3, <2>4, ListedAppend DEF Recorded, Asking
  <2> QED BY <2>4, <2>5, <2>6 DEF Wished
<1>8. CASE ClientReceive
  <2>1. UNCHANGED <<scenario, asked>> BY <1>8 DEF ClientReceive, requestVars
  <2>2. \/ toServer' = toServer
        \/ \E c : toServer' = Append(toServer, [kind |-> "snapshot", container |-> c])
    BY <1>8 DEF ClientReceive, ReceivePage, ReceiveDeltas, ReceiveClosed, ReceiveAnswer, Ask
  <2>3. CASE toServer' = toServer BY <1>3, <2>1, <2>3
  <2>4. ASSUME NEW c, toServer' = Append(toServer, [kind |-> "snapshot", container |-> c])
        PROVE  Wished'
    <3> DEFINE e == [kind |-> "snapshot", container |-> c]
    <3>1. e.kind # "request" /\ toServer' = Append(toServer, e) BY <2>4
    <3> HIDE DEF e
    <3>2. \A n \in 1..Len(toServer') :
            toServer'[n].kind = "request" => asked'[toServer'[n].id] \in Requests
      BY <1>1, <1>2, <2>1, <3>1, ListedAppend
    <3> QED BY <1>2, <2>1, <3>2 DEF Wished
  <2> QED BY <2>2, <2>3, <2>4
<1>9. CASE UNCHANGED inventoryVars
  BY <1>3, <1>9 DEF inventoryVars, requestVars, syncVars
<1> QED BY <1>4, <1>5, <1>6, <1>7, <1>8, <1>9 DEF InventoryNext

-----------------------------------------------------------------------------
(* The invariant.                                                          *)

\* What answers nothing may follow anything truthful,
LEMMA SilentTruthful ==
  ASSUME NEW q, Listed(q), Truthful(q), NEW r, Silent(r)
  PROVE  Listed(q \o r) /\ Truthful(q \o r)
BY ListedConcat DEF Silent, Truthful

\* and so may what is truthful.
LEMMA TruthfulConcat ==
  ASSUME NEW q, Listed(q), Truthful(q), NEW r, Listed(r), Truthful(r)
  PROVE  Listed(q \o r) /\ Truthful(q \o r)
BY ListedConcat DEF Truthful

\* At first nothing is recorded, answered or heard.
LEMMA RecordedInit == InventoryInit => Recorded
BY NoneSilent DEF Silent, InventoryInit, RequestInit, Truthful, Asking, Recorded

\* What the invariant is about, and all it depends on.
recordVars == <<asked, processed, outcomes, toClient, toServer, told>>

\* What changes none of its variables keeps it.
LEMMA RecordedStutter == Recorded /\ UNCHANGED recordVars => Recorded'
BY DEF Recorded, recordVars, Truthful, Listed, Answer, NewAnswer, AnswerIn

\* An answer, once there is one, is the answer.
AnswersStay == \A id \in RequestIds : Answer(id) # "none" => NewAnswer(id) = Answer(id)

\* Then what was truthful still is,
LEMMA StillTruthful ==
  ASSUME NEW q, Listed(q), Truthful(q), AnswersStay
  PROVE  \A n \in 1..Len(q) :
           IF q[n].kind = "answer"
           THEN /\ q[n].id \in RequestIds /\ q[n].status \in Replies
                /\ q[n].status = NewAnswer(q[n].id)
           ELSE q[n].container \in Containers
BY DEF Truthful, AnswersStay, Replies, Outcomes

\* and what was heard is still the answer.
LEMMA StillTold ==
  ASSUME Recorded, AnswersStay
  PROVE  \A id \in RequestIds : told[id] \subseteq {NewAnswer(id)}
<1> SUFFICES ASSUME NEW id \in RequestIds, NEW x \in told[id] PROVE x = NewAnswer(id)
  OBVIOUS
<1>1. x \in Replies /\ x = Answer(id) BY DEF Recorded
<1> QED BY <1>1 DEF AnswersStay, Replies, Outcomes

\* The outcomes of a tick go onto the channel,
LEMMA RecordedTick == Recorded /\ Tick => Recorded'
<1> SUFFICES ASSUME Recorded, Tick PROVE Recorded' OBVIOUS
<1>1. PICK s : \E refusal \in Refusals(s) :
        toClient' = (toClient \o Flushed(s, refusal)) \o Answers(refusal)
  BY DEF Tick
<1>2. PICK refusal \in Refusals(s) :
        toClient' = (toClient \o Flushed(s, refusal)) \o Answers(refusal)
  BY <1>1
<1>3. /\ outcomes' = <<>> /\ processed' = processed /\ toServer' = toServer /\ told' = told
      /\ asked' = asked
  BY DEF Tick
<1>4. Listed(toClient) /\ Truthful(toClient) BY DEF Recorded
<1> DEFINE u == toClient \o Flushed(s, refusal)
           v == u \o Answers(refusal)
<1>5. Listed(u) /\ Truthful(u) BY <1>4, FlushedSilent, SilentTruthful
<1> HIDE DEF u
<1>6. Listed(v) /\ Truthful(v) BY <1>5, AnswersTruthful, TruthfulConcat
<1>7. toClient' = v BY <1>2 DEF u
<1> HIDE DEF v
<1>8. (Listed(toClient) /\ Truthful(toClient))'
  BY <1>3, <1>6, <1>7 DEF Listed, Truthful, Answer, NewAnswer, AnswerIn
<1>9. (outcomes \in Seq([id : RequestIds, status : Replies])
       /\ \A n \in 1..Len(outcomes) : outcomes[n].status = Answer(outcomes[n].id))'
  BY <1>3
<1>10. (\A id \in RequestIds : told[id] \subseteq {Answer(id)})'
  BY <1>3 DEF Recorded, Answer, NewAnswer, AnswerIn
<1> QED BY <1>3, <1>8, <1>9, <1>10 DEF Recorded, Listed

\* What is appended to the outcomes is the answer there is then.
LEMMA OutcomeAppended ==
  ASSUME Recorded, AnswersStay, NEW id \in RequestIds, NEW status \in Replies,
         NewAnswer(id) = status,
         outcomes' = Append(outcomes, [id |-> id, status |-> status])
  PROVE  (/\ outcomes \in Seq([id : RequestIds, status : Replies])
          /\ \A n \in 1..Len(outcomes) : outcomes[n].status = Answer(outcomes[n].id))'
<1> DEFINE O == [id : RequestIds, status : Replies]
           e == [id |-> id, status |-> status]
<1>1. outcomes \in Seq(O) /\ Len(outcomes) \in Nat BY DEF Recorded
<1>2. e \in O /\ e.id = id /\ e.status = status OBVIOUS
<1>3. outcomes' \in Seq(O)
  <2> HIDE DEF O, e
  <2> QED BY <1>1, <1>2, AppendProperties DEF e
<1>4. ASSUME NEW n \in 1..Len(outcomes')
      PROVE  outcomes'[n].status = NewAnswer(outcomes'[n].id)
  <2>1. CASE n \in 1..Len(outcomes)
    <3>1. outcomes'[n] = outcomes[n] BY <1>1, <2>1
    <3>2. outcomes[n] \in O BY <1>1, <2>1, ElementOfSeq
    <3>3. outcomes[n].status = Answer(outcomes[n].id) BY <2>1 DEF Recorded
    <3>4. outcomes[n].id \in RequestIds /\ outcomes[n].status # "none"
      BY <3>2 DEF Replies, Outcomes
    <3>5. NewAnswer(outcomes[n].id) = outcomes[n].status BY <3>3, <3>4 DEF AnswersStay
    <3> QED BY <3>1, <3>5
  <2>2. CASE n = Len(outcomes) + 1
    BY <1>1, <1>2, <2>2
  <2>3. n \in 1..Len(outcomes) \/ n = Len(outcomes) + 1 BY <1>1
  <2> QED BY <2>1, <2>2, <2>3
<1> QED BY <1>3, <1>4 DEF Answer, NewAnswer

\* A decision writes the record where there was none, and answers from it.
LEMMA Decided ==
  ASSUME Recorded, NEW id \in RequestIds, NEW r, Decide(id, r)
  PROVE  \E status \in Outcomes :
           /\ outcomes' = Append(outcomes, [id |-> id, status |-> status])
           /\ \/ processed[id] = status /\ processed' = processed
              \/ processed[id] = "none" /\ processed' = [processed EXCEPT ![id] = status]
BY DEF Recorded, Undecided, Outcomes, Decide

\* a decision writes the record it answers from, and what is not authorized is
\* answered without one,
LEMMA RecordedServer == Recorded /\ Wished /\ ServerReceive => Recorded'
<1> SUFFICES ASSUME Recorded, Wished, ServerReceive PROVE Recorded' OBVIOUS
<1> DEFINE m == Head(toServer)
<1>1. toServer # <<>> /\ toServer' = Tail(toServer) /\ told' = told BY DEF ServerReceive
<1>2. Listed(toServer) /\ Listed(toClient) /\ Truthful(toClient) BY DEF Recorded
<1>3. /\ Listed(Tail(toServer)) /\ m = toServer[1] /\ 1 \in 1..Len(toServer)
      /\ \A n \in 1..Len(Tail(toServer)) :
           \E k \in 1..Len(toServer) : Tail(toServer)[n] = toServer[k]
  BY <1>1, <1>2, ListedTail
<1>4. (Listed(toServer) /\ Asking(toServer))'
  <2>1. Asking(toServer) BY DEF Recorded
  <2>2. Asking(Tail(toServer)) BY <1>3, <2>1 DEF Asking
  <2> QED BY <1>1, <1>3, <2>2 DEF Listed, Asking
<1>5. CASE m.kind = "snapshot" /\ HandleSnapshotRequest(m.container)
  <2> DEFINE c == m.container
  <2>1. c \in Containers BY <1>3, <1>5 DEF Recorded, Asking
  <2>2. processed' = processed /\ outcomes' = outcomes /\ asked' = asked
    BY <1>5 DEF HandleSnapshotRequest, requestVars
  <2>3. Silent(Pages(store, c)) BY <2>1, PagesSilent
  <2>4. Len(Pages(store, c)) \in Nat BY <2>3, ListedHas DEF Silent
  <2>5. \/ toClient' = toClient
        \/ toClient' = toClient \o Pages(store, c)
        \/ \E n \in 1..Len(Pages(store, c)) :
             toClient' = toClient \o SubSeq(Pages(store, c), 1, n - 1)
    <3> DEFINE P == Pages(store, c)
               R == {NoRefusal} \cup {[of |-> c, at |-> n] : n \in 1..Len(P)}
    <3>1. PICK refusal \in R :
             \/ toClient' = toClient
             \/ toClient' = toClient \o P
             \/ /\ refusal # NoRefusal
                /\ toClient' = toClient \o SubSeq(P, 1, refusal.at - 1)
      <4> HIDE DEF c
      <4> QED BY <1>5 DEF HandleSnapshotRequest, c
    <3> HIDE DEF P
    <3>2. refusal # NoRefusal => \E n \in 1..Len(P) : refusal.at = n
      OBVIOUS
    <3> HIDE DEF R
    <3> QED BY <3>1, <3>2 DEF P
  <2>6. ASSUME NEW n \in 1..Len(Pages(store, c))
        PROVE  Silent(SubSeq(Pages(store, c), 1, n - 1))
    BY <2>3, <2>4, SilentStart
  <2> HIDE DEF c
  <2>7. Listed(toClient') /\ Truthful(toClient')
    BY <1>2, <2>3, <2>5, <2>6, SilentTruthful
  <2>8. (Listed(toClient) /\ Truthful(toClient))'
    BY <2>2, <2>7 DEF Listed, Truthful, Answer, NewAnswer, AnswerIn
  <2>9. (/\ \A n \in 1..Len(outcomes) : outcomes[n].status = Answer(outcomes[n].id)
         /\ \A id \in RequestIds : told[id] \subseteq {Answer(id)})'
    BY <1>1, <2>2 DEF Recorded, Answer, NewAnswer, AnswerIn
  <2> QED BY <1>1, <1>4, <2>2, <2>8, <2>9 DEF Recorded
<1>6. ASSUME m.kind = "request"
      PROVE  m.id \in RequestIds /\ asked[m.id] # NotAsked
  <2>1. m.id \in RequestIds BY <1>3, <1>6 DEF Recorded, Asking
  <2>2. asked[m.id] \in Requests BY <1>3, <1>6 DEF Wished
  <2>3. NotAsked \notin Requests BY DEF NotAsked, Requests, Asks
  <2> QED BY <2>1, <2>2, <2>3
<1>7. ASSUME NEW id \in RequestIds, NEW status \in Replies, AnswersStay,
             outcomes' = Append(outcomes, [id |-> id, status |-> status]),
             NewAnswer(id) = status, asked' = asked, toClient' = toClient,
             (/\ processed \in [RequestIds -> Outcomes \cup {"none"}]
              /\ \A k \in RequestIds :
                   processed[k] # "none" => asked[k].by = "own" /\ asked[k] # NotAsked)'
      PROVE  Recorded'
  <2>1. (/\ outcomes \in Seq([id : RequestIds, status : Replies])
         /\ \A n \in 1..Len(outcomes) : outcomes[n].status = Answer(outcomes[n].id))'
    BY <1>7, OutcomeAppended
  <2>2. Truthful(toClient)' BY <1>2, <1>7, StillTruthful DEF Truthful, Answer, NewAnswer
  <2>3. Listed(toClient)' BY <1>2, <1>7 DEF Listed
  <2>4. (/\ told \in [RequestIds -> SUBSET Replies]
         /\ \A k \in RequestIds : told[k] \subseteq {Answer(k)})'
    <3>1. \A k \in RequestIds : told[k] \subseteq {NewAnswer(k)} BY <1>7, StillTold
    <3>2. told' \in [RequestIds -> SUBSET Replies] BY <1>1 DEF Recorded
    <3> QED BY <1>1, <3>1, <3>2 DEF Answer, NewAnswer
  <2> QED BY <1>4, <1>7, <2>1, <2>2, <2>3, <2>4 DEF Recorded
<1>8. CASE /\ m.kind = "request" /\ asked[m.id].by = "own" /\ Decide(m.id, asked[m.id])
           /\ UNCHANGED <<inside, asked, cursor, toClient, scenario>>
  <2> DEFINE i == m.id
  <2>1. i \in RequestIds /\ asked[i] # NotAsked /\ asked[i].by = "own" BY <1>6, <1>8
  <2>2. PICK status \in Outcomes :
           /\ outcomes' = Append(outcomes, [id |-> i, status |-> status])
           /\ \/ processed[i] = status /\ processed' = processed
              \/ processed[i] = "none" /\ processed' = [processed EXCEPT ![i] = status]
    BY <1>8, <2>1, Decided
  <2>3. asked' = asked /\ toClient' = toClient BY <1>8
  <2>4. processed \in [RequestIds -> Outcomes \cup {"none"}] BY DEF Recorded
  <2> HIDE DEF i
  <2>5. /\ processed' \in [RequestIds -> Outcomes \cup {"none"}]
        /\ processed'[i] = status
        /\ \A id \in RequestIds : processed[id] # "none" => processed'[id] = processed[id]
        /\ \A id \in RequestIds : id # i => processed'[id] = processed[id]
    BY <2>1, <2>2, <2>4
  <2>6. NewAnswer(i) = status BY <2>1, <2>3, <2>5 DEF Answer, NewAnswer, AnswerIn
  <2>7. AnswersStay BY <2>3, <2>5 DEF AnswersStay, Answer, NewAnswer, AnswerIn
  <2>8. (\A k \in RequestIds :
           processed[k] # "none" => asked[k].by = "own" /\ asked[k] # NotAsked)'
    BY <2>1, <2>3, <2>5 DEF Recorded
  <2>9. status \in Replies BY DEF Replies
  <2> QED BY <1>7, <2>1, <2>2, <2>3, <2>5, <2>6, <2>7, <2>8, <2>9
<1>9. CASE /\ m.kind = "request" /\ asked[m.id].by # "own" /\ Unauthorized(m.id)
           /\ UNCHANGED <<inside, asked, cursor, toClient, scenario>>
  <2>1. /\ processed' = processed /\ asked' = asked /\ toClient' = toClient
        /\ outcomes' = Append(outcomes, [id |-> m.id, status |-> "unauthorized"])
    BY <1>9 DEF Unauthorized
  <2>2. NewAnswer(m.id) = "unauthorized" BY <1>9, <2>1 DEF Answer, NewAnswer, AnswerIn
  <2>3. AnswersStay BY <2>1 DEF AnswersStay, Answer, NewAnswer, AnswerIn
  <2>4. "unauthorized" \in Replies BY DEF Replies
  <2>5. (/\ processed \in [RequestIds -> Outcomes \cup {"none"}]
         /\ \A k \in RequestIds :
              processed[k] # "none" => asked[k].by = "own" /\ asked[k] # NotAsked)'
    BY <2>1 DEF Recorded
  <2>6. m.id \in RequestIds BY <1>6, <1>9
  <2> HIDE DEF m
  <2> QED BY <1>7, <2>1, <2>2, <2>3, <2>4, <2>5, <2>6
<1> QED BY <1>5, <1>8, <1>9 DEF ServerReceive

\* what the client hears was on the channel,
LEMMA RecordedClient == Recorded /\ ClientReceive => Recorded'
<1> SUFFICES ASSUME Recorded, ClientReceive PROVE Recorded' OBVIOUS
<1> DEFINE m == Head(toClient)
<1>1. /\ toClient # <<>> /\ toClient' = Tail(toClient)
      /\ processed' = processed /\ outcomes' = outcomes /\ asked' = asked
  BY DEF ClientReceive, requestVars
<1>2. Listed(toClient) /\ Truthful(toClient) /\ Listed(toServer) BY DEF Recorded
<1>3. /\ Listed(Tail(toClient)) /\ m = toClient[1] /\ 1 \in 1..Len(toClient)
      /\ \A n \in 1..Len(Tail(toClient)) :
           \E k \in 1..Len(toClient) : Tail(toClient)[n] = toClient[k]
  BY <1>1, <1>2, ListedTail
<1>4. (Listed(toClient) /\ Truthful(toClient))'
  <2>1. Truthful(Tail(toClient)) BY <1>2, <1>3, ZenonT(30) DEF Truthful
  <2> QED BY <1>1, <1>3, <2>1, ZenonT(30) DEF Listed, Truthful, Answer, NewAnswer, AnswerIn
<1>5. Asking(toServer) BY DEF Recorded
<1>6. (/\ processed \in [RequestIds -> Outcomes \cup {"none"}]
       /\ \A id \in RequestIds :
            processed[id] # "none" => asked[id].by = "own" /\ asked[id] # NotAsked
       /\ outcomes \in Seq([id : RequestIds, status : Replies])
       /\ \A n \in 1..Len(outcomes) : outcomes[n].status = Answer(outcomes[n].id))'
  BY <1>1 DEF Recorded, Answer, NewAnswer, AnswerIn
<1>7. ASSUME told' = told, (Listed(toServer) /\ Asking(toServer))' PROVE Recorded'
  <2>1. (/\ told \in [RequestIds -> SUBSET Replies]
         /\ \A id \in RequestIds : told[id] \subseteq {Answer(id)})'
    BY <1>1, <1>7 DEF Recorded, Answer, NewAnswer, AnswerIn
  <2> QED BY <1>4, <1>6, <1>7, <2>1 DEF Recorded
<1>8. ASSUME toServer' = toServer PROVE (Listed(toServer) /\ Asking(toServer))'
  BY <1>2, <1>5, <1>8 DEF Listed, Asking
<1>9. ASSUME NEW c \in Containers, Ask(c), told' = told PROVE Recorded'
  <2> DEFINE e == [kind |-> "snapshot", container |-> c]
  <2>1. CASE c \in resync BY <1>7, <1>8, <1>9, <2>1 DEF Ask
  <2>2. CASE c \notin resync
    <3>1. toServer' = Append(toServer, e) BY <1>9, <2>2 DEF Ask
    <3>2. e.kind # "request" /\ e.container \in Containers OBVIOUS
    <3> HIDE DEF e
    <3>3. Listed(Append(toServer, e)) /\ Asking(Append(toServer, e))
      BY <1>2, <1>5, <3>2, ListedAppend DEF Asking
    <3>4. (Listed(toServer) /\ Asking(toServer))' BY <3>1, <3>3 DEF Listed, Asking
    <3> QED BY <1>7, <1>9, <3>4
  <2> QED BY <2>1, <2>2
<1>10. m.kind # "answer" => m.container \in Containers
  BY <1>2, <1>3 DEF Truthful
<1>11. CASE m.kind = "page" /\ ReceivePage(m)
  BY <1>7, <1>8, <1>11 DEF ReceivePage
<1>12. CASE m.kind = "deltas" /\ ReceiveDeltas(m)
  BY <1>7, <1>8, <1>9, <1>10, <1>12 DEF ReceiveDeltas
<1>13. CASE m.kind = "closed" /\ ReceiveClosed(m)
  BY <1>7, <1>8, <1>13 DEF ReceiveClosed
<1>14. CASE m.kind = "answer" /\ ReceiveAnswer(m)
  <2>1. /\ told' = [told EXCEPT ![m.id] = @ \cup {m.status}]
        /\ toServer' = toServer
    BY <1>14 DEF ReceiveAnswer
  <2>2. m.id \in RequestIds /\ m.status \in Replies /\ m.status = Answer(m.id)
    BY <1>2, <1>3, <1>14 DEF Truthful
  <2>3. /\ told \in [RequestIds -> SUBSET Replies]
        /\ \A id \in RequestIds : told[id] \subseteq {Answer(id)}
    BY DEF Recorded
  <2> HIDE DEF m
  <2>4. /\ told' \in [RequestIds -> SUBSET Replies]
        /\ \A id \in RequestIds : told'[id] \subseteq {Answer(id)}
    BY <2>1, <2>2, <2>3
  <2>5. (told \in [RequestIds -> SUBSET Replies]
         /\ \A id \in RequestIds : told[id] \subseteq {Answer(id)})'
    BY <1>1, <2>4 DEF Answer, NewAnswer, AnswerIn
  <2> QED BY <1>4, <1>6, <1>8, <2>1, <2>5 DEF Recorded
<1> QED BY <1>11, <1>12, <1>13, <1>14 DEF ClientReceive

\* and a request is made where there was no answer yet, or made again.
LEMMA RecordedSubmit == Recorded /\ Wished /\ submit_gameplay_request => Recorded'
<1> SUFFICES ASSUME Recorded, Wished, submit_gameplay_request PROVE Recorded' OBVIOUS
<1>1. PICK id \in RequestIds :
        /\ toServer' = Append(toServer, [kind |-> "request", id |-> id])
        /\ \/ asked[id] = NotAsked /\ \E r \in scenario.wishes :
                asked' = [asked EXCEPT ![id] = r]
           \/ asked' = asked
  BY DEF submit_gameplay_request
<1>2. UNCHANGED <<processed, outcomes, toClient, told>> BY DEF submit_gameplay_request
<1> DEFINE e == [kind |-> "request", id |-> id]
<1>3. e.kind # "snapshot" /\ e.id \in RequestIds OBVIOUS
<1> HIDE DEF e
<1>4. Listed(toServer) /\ Asking(toServer) BY DEF Recorded
<1>5. Listed(Append(toServer, e)) /\ Asking(Append(toServer, e))
  BY <1>3, <1>4, ListedAppend DEF Asking
<1>6. toServer' = Append(toServer, e) BY <1>1 DEF e
<1>7. (Listed(toServer) /\ Asking(toServer))' BY <1>5, <1>6 DEF Listed, Asking
<1>8. \A k \in RequestIds : asked[k] # NotAsked => asked'[k] = asked[k]
  BY <1>1 DEF Wished
<1>9. NotAsked.by = "own" BY DEF NotAsked
<1>10. AnswersStay
  <2> SUFFICES ASSUME NEW k \in RequestIds, Answer(k) # "none"
               PROVE  NewAnswer(k) = Answer(k)
    BY DEF AnswersStay
  <2>1. asked[k] # NotAsked BY <1>9 DEF Answer, NewAnswer, AnswerIn, Recorded
  <2> QED BY <1>2, <1>8, <2>1 DEF Answer, NewAnswer, AnswerIn
<1>11. (\A k \in RequestIds :
          processed[k] # "none" => asked[k].by = "own" /\ asked[k] # NotAsked)'
  BY <1>2, <1>8 DEF Recorded
<1>12. Truthful(toClient)'
  <2>1. Listed(toClient) /\ Truthful(toClient) BY DEF Recorded
  <2> QED BY <1>2, <1>10, <2>1, StillTruthful DEF Truthful, Answer, NewAnswer
<1>13. (\A k \in RequestIds : told[k] \subseteq {Answer(k)})'
  BY <1>2, <1>10, StillTold DEF Answer, NewAnswer
<1>14. (\A n \in 1..Len(outcomes) : outcomes[n].status = Answer(outcomes[n].id))'
  <2> DEFINE O == [id : RequestIds, status : Replies]
  <2>1. outcomes \in Seq(O) /\ Len(outcomes) \in Nat BY DEF Recorded
  <2>2. ASSUME NEW n \in 1..Len(outcomes)
        PROVE  outcomes[n].status = NewAnswer(outcomes[n].id)
    <3>1. outcomes[n] \in O BY <2>1, <2>2, ElementOfSeq
    <3>2. outcomes[n].id \in RequestIds /\ outcomes[n].status # "none"
      BY <3>1 DEF Replies, Outcomes
    <3> QED BY <1>10, <3>2 DEF Recorded, AnswersStay
  <2> QED BY <1>2, <2>2 DEF Answer, NewAnswer
<1> QED BY <1>2, <1>7, <1>11, <1>12, <1>13, <1>14 DEF Recorded, Listed

\* Every step keeps the copies of the record.
LEMMA RecordedStep == Recorded /\ Wished /\ [InventoryNext]_inventoryVars => Recorded'
<1> SUFFICES ASSUME Recorded, Wished, [InventoryNext]_inventoryVars PROVE Recorded'
  OBVIOUS
<1>1. CASE World
  BY <1>1, RecordedStutter DEF World, recordVars, syncVars, Land, Fire, Reload,
    enter_shelter, leave_shelter, destroy_camp
<1>2. CASE UNCHANGED inventoryVars
  BY <1>2, RecordedStutter DEF inventoryVars, requestVars, syncVars, recordVars
<1> QED BY <1>1, <1>2, RecordedTick, RecordedServer, RecordedClient, RecordedSubmit
        DEF InventoryNext

\* Every answer the client hears of a request of its own player is the one the
\* server recorded, however often the request was made, whichever answers were
\* refused on their way, and whatever was decided in between; of one in another's
\* name it hears only that it may not, and nothing is recorded (submit_request,
\* poll_transport and flush_network_gameplay_request_outcomes).
THEOREM AnswersAreTheRecord == InventorySpec => []AnswersAgree
<1>1. Recorded => AnswersAgree
  <2> SUFFICES ASSUME Recorded, NEW id \in RequestIds
               PROVE  IF asked[id].by = "own" THEN told[id] \subseteq {processed[id]} \ {"none"}
                      ELSE told[id] \subseteq {"unauthorized"} /\ processed[id] = "none"
    BY DEF AnswersAgree
  <2>1. told[id] \subseteq Replies /\ told[id] \subseteq {Answer(id)} BY DEF Recorded
  <2>2. "none" \notin Replies BY DEF Replies, Outcomes
  <2> QED BY <2>1, <2>2 DEF Answer, AnswerIn, Recorded
<1>2. InventoryInit => Recorded /\ Wished BY RecordedInit, WishedStart
<1>3. Recorded /\ Wished /\ [InventoryNext]_inventoryVars => Recorded' /\ Wished'
  BY RecordedStep, WishedStep
<1> QED BY <1>1, <1>2, <1>3, PTL DEF InventorySpec

-----------------------------------------------------------------------------
(* Stores.                                                                 *)

States == [count : Nat, reserve : Nat]

Modes == {"placed", "carried", "flight"}

IsPlace(at) ==
  \/ at = Nowhere
  \/ at = Terminal
  \/ \E c \in Containers : \E k \in 1..Capacity[c] : at = InSlot(c, k)
  \/ \E p \in Nat : \E mode \in Modes : at = OnProp(p, mode)

IsItem(x) ==
  /\ x = [template |-> x.template, quantity |-> x.quantity, used |-> x.used,
          state |-> x.state, at |-> x.at]
  /\ x.template \in Templates \cup {"none"}
  /\ x.quantity \in Nat /\ x.used \in Nat /\ x.state \in States /\ IsPlace(x.at)

\* s has the fields of a store, each of its type.
Shaped(s) ==
  /\ s = [items |-> s.items, slots |-> s.slots, open |-> s.open,
          revision |-> s.revision, log |-> s.log,
          nextItem |-> s.nextItem, nextProp |-> s.nextProp, props |-> s.props]
  /\ s.items = [i \in Ids |-> s.items[i]] /\ \A i \in Ids : IsItem(s.items[i])
  /\ s.slots = [c \in Containers |-> s.slots[c]]
  /\ \A c \in Containers : s.slots[c] \in [1..Capacity[c] -> Ids \cup {0}]
  /\ s.open \subseteq Containers
  /\ s.revision \in [Containers -> Nat]
  /\ s.log = [c \in Containers |-> s.log[c]] /\ \A c \in Containers : Listed(s.log[c])
  /\ s.nextItem \in Nat /\ s.nextProp \in Nat /\ s.props \subseteq Nat

\* t differs from s at most in its items and in what is in the slots.
Beside(s, t) ==
  /\ t.open = s.open /\ t.nextItem = s.nextItem
  /\ t.nextProp = s.nextProp /\ t.props = s.props

\* The kinds of place are told apart by their kind.
LEMMA PlaceKinds ==
  /\ Nowhere.kind = "none" /\ Terminal.kind = "terminal"
  /\ \A c, k : InSlot(c, k).kind = "inventory" /\ InSlot(c, k).container = c
               /\ InSlot(c, k).slot = k
  /\ \A p, mode : OnProp(p, mode).kind = "world" /\ OnProp(p, mode).prop = p
                  /\ OnProp(p, mode).mode = mode
BY DEF Nowhere, Terminal, InSlot, OnProp

\* Where an item in a container is, and one in the world.
LEMMA WhereItIs ==
  ASSUME NEW s, Shaped(s), NEW i \in Ids
  PROVE  /\ InInventory(s, i) =>
              /\ s.items[i].at.container \in Containers
              /\ s.items[i].at.slot \in 1..Capacity[s.items[i].at.container]
              /\ s.items[i].at = InSlot(s.items[i].at.container, s.items[i].at.slot)
         /\ InWorld(s, i) =>
              /\ s.items[i].at.prop \in Nat
              /\ s.items[i].at.mode \in Modes
              /\ s.items[i].at = OnProp(s.items[i].at.prop, s.items[i].at.mode)
<1>1. IsPlace(s.items[i].at) BY DEF Shaped, IsItem
<1> QED BY <1>1, PlaceKinds DEF IsPlace, InInventory, InWorld

\* publish_delta changes the revision and the log of one container alone.
LEMMA PublishShaped ==
  ASSUME NEW s, Shaped(s), NEW c \in Containers, NEW type, NEW slot, NEW previous,
         NEW i, NEW changed
  PROVE  LET t == publish_delta(s, c, type, slot, previous, i, changed)
         IN  /\ Shaped(t) /\ Beside(s, t) /\ t.items = s.items /\ t.slots = s.slots
             /\ t.revision = [s.revision EXCEPT ![c] = @ + 1]
<1> DEFINE delta == [revision |-> s.revision[c] + 1, type |-> type, slot |-> slot,
                     previous |-> previous, id |-> i, changed |-> changed,
                     item |-> [template |-> s.items[i].template,
                               quantity |-> s.items[i].quantity,
                               used |-> s.items[i].used, state |-> s.items[i].state]]
           log == Append(s.log[c], delta)
           kept == IF Len(log) > HistoryLimit THEN Tail(log) ELSE log
           r == [s.revision EXCEPT ![c] = @ + 1]
           l == [s.log EXCEPT ![c] = kept]
           t == [s EXCEPT !.revision[c] = @ + 1, !.log[c] = kept]
           u == [s EXCEPT !.revision[c] = @ + 1]
<1>1. publish_delta(s, c, type, slot, previous, i, changed) = t
  BY DEF publish_delta
<1> HIDE DEF delta, log, kept
<1>2. s = [items |-> s.items, slots |-> s.slots, open |-> s.open,
          revision |-> s.revision, log |-> s.log,
          nextItem |-> s.nextItem, nextProp |-> s.nextProp, props |-> s.props]
  BY DEF Shaped
<1>3. u = [items |-> s.items, slots |-> s.slots, open |-> s.open,
           revision |-> r, log |-> s.log,
           nextItem |-> s.nextItem, nextProp |-> s.nextProp, props |-> s.props]
  BY <1>2
<1>4. t = [u EXCEPT !.log[c] = kept] OBVIOUS
<1> HIDE DEF t, u
<1>5. t = [items |-> s.items, slots |-> s.slots, open |-> s.open,
           revision |-> r, log |-> l,
           nextItem |-> s.nextItem, nextProp |-> s.nextProp, props |-> s.props]
  BY <1>3, <1>4
<1>6. r \in [Containers -> Nat] BY DEF Shaped
<1>8. Listed(kept)
  <2>1. Listed(s.log[c]) BY DEF Shaped
  <2>2. Listed(log) BY <2>1, ListedAppend DEF log
  <2>3. Len(log) > HistoryLimit => log # <<>> BY ItemStoreAssumption
  <2> QED BY <2>2, <2>3, ListedTail DEF kept
<1>9. l = [d \in Containers |-> l[d]] /\ \A d \in Containers : Listed(l[d])
  BY <1>8 DEF Shaped
<1> HIDE DEF l
<1>7. /\ t.items = s.items /\ t.slots = s.slots /\ t.open = s.open
      /\ t.revision = r /\ t.log = l
      /\ t.nextItem = s.nextItem /\ t.nextProp = s.nextProp /\ t.props = s.props
  BY <1>5
<1> QED BY <1>1, <1>5, <1>6, <1>7, <1>9 DEF Shaped, Beside

\* An item with one of its fields changed.
LEMMA ItemWith ==
  ASSUME NEW x, IsItem(x)
  PROVE  /\ \A q \in Nat : LET y == [x EXCEPT !.quantity = q]
              IN  IsItem(y) /\ y = [template |-> x.template, quantity |-> q,
                                    used |-> x.used, state |-> x.state, at |-> x.at]
         /\ \A at : IsPlace(at) => LET y == [x EXCEPT !.at = at]
              IN  IsItem(y) /\ y = [template |-> x.template, quantity |-> x.quantity,
                                    used |-> x.used, state |-> x.state, at |-> at]
         /\ \A state \in States : LET y == [x EXCEPT !.state = state]
              IN  IsItem(y) /\ y = [template |-> x.template, quantity |-> x.quantity,
                                    used |-> x.used, state |-> state, at |-> x.at]
         /\ \A u \in Nat : LET y == [x EXCEPT !.used = u]
              IN  IsItem(y) /\ y = [template |-> x.template, quantity |-> x.quantity,
                                    used |-> u, state |-> x.state, at |-> x.at]
<1>1. ASSUME NEW q \in Nat
      PROVE LET y == [x EXCEPT !.quantity = q]
              IN  IsItem(y) /\ y = [template |-> x.template, quantity |-> q,
                                    used |-> x.used, state |-> x.state, at |-> x.at]
  <2> DEFINE y == [x EXCEPT !.quantity = q]
  <2>1. y = [template |-> x.template, quantity |-> q,
             used |-> x.used, state |-> x.state, at |-> x.at] BY DEF IsItem
  <2> HIDE DEF y
  <2>2. IsItem(y) BY <2>1 DEF IsItem
  <2> QED BY <2>1, <2>2 DEF y
<1>2. ASSUME NEW at, IsPlace(at)
      PROVE LET y == [x EXCEPT !.at = at]
              IN  IsItem(y) /\ y = [template |-> x.template, quantity |-> x.quantity,
                                    used |-> x.used, state |-> x.state, at |-> at]
  <2> DEFINE y == [x EXCEPT !.at = at]
  <2>1. y = [template |-> x.template, quantity |-> x.quantity,
             used |-> x.used, state |-> x.state, at |-> at] BY DEF IsItem
  <2> HIDE DEF y
  <2>2. IsItem(y) BY <1>2, <2>1 DEF IsItem
  <2> QED BY <2>1, <2>2 DEF y
<1>3. ASSUME NEW state \in States
      PROVE LET y == [x EXCEPT !.state = state]
              IN  IsItem(y) /\ y = [template |-> x.template, quantity |-> x.quantity,
                                    used |-> x.used, state |-> state, at |-> x.at]
  <2> DEFINE y == [x EXCEPT !.state = state]
  <2>1. y = [template |-> x.template, quantity |-> x.quantity,
             used |-> x.used, state |-> state, at |-> x.at] BY DEF IsItem
  <2> HIDE DEF y
  <2>2. IsItem(y) BY <2>1 DEF IsItem
  <2> QED BY <2>1, <2>2 DEF y
<1>4. ASSUME NEW u \in Nat
      PROVE LET y == [x EXCEPT !.used = u]
              IN  IsItem(y) /\ y = [template |-> x.template, quantity |-> x.quantity,
                                    used |-> u, state |-> x.state, at |-> x.at]
  <2> DEFINE y == [x EXCEPT !.used = u]
  <2>1. y = [template |-> x.template, quantity |-> x.quantity,
             used |-> u, state |-> x.state, at |-> x.at] BY DEF IsItem
  <2> HIDE DEF y
  <2>2. IsItem(y) BY <2>1 DEF IsItem
  <2> QED BY <2>1, <2>2 DEF y
<1> QED BY <1>1, <1>2, <1>3, <1>4

\* A store with other items is a store still.
LEMMA ItemsShaped ==
  ASSUME NEW s, Shaped(s), NEW f, f = [i \in Ids |-> f[i]], \A i \in Ids : IsItem(f[i])
  PROVE  LET t == [s EXCEPT !.items = f]
         IN  /\ Shaped(t) /\ Beside(s, t) /\ t.items = f /\ t.slots = s.slots
             /\ t.revision = s.revision
<1> DEFINE t == [s EXCEPT !.items = f]
<1>1. s = [items |-> s.items, slots |-> s.slots, open |-> s.open,
          revision |-> s.revision, log |-> s.log,
          nextItem |-> s.nextItem, nextProp |-> s.nextProp, props |-> s.props]
  BY DEF Shaped
<1>2. t = [items |-> f, slots |-> s.slots, open |-> s.open,
          revision |-> s.revision, log |-> s.log,
          nextItem |-> s.nextItem, nextProp |-> s.nextProp, props |-> s.props]
  BY <1>1
<1> HIDE DEF t
<1>3. /\ t.items = f /\ t.slots = s.slots /\ t.open = s.open
      /\ t.revision = s.revision /\ t.log = s.log
      /\ t.nextItem = s.nextItem /\ t.nextProp = s.nextProp /\ t.props = s.props
  BY <1>2
<1> QED BY <1>2, <1>3 DEF Shaped, Beside, t

\* A store with another item under one id.
LEMMA ItemShaped ==
  ASSUME NEW s, Shaped(s), NEW i \in Ids, NEW x, IsItem(x)
  PROVE  LET t == [s EXCEPT !.items[i] = x]
         IN  /\ Shaped(t) /\ Beside(s, t) /\ t.items = [s.items EXCEPT ![i] = x]
             /\ t.slots = s.slots /\ t.revision = s.revision
<1> DEFINE f == [s.items EXCEPT ![i] = x]
<1>1. f = [j \in Ids |-> f[j]] /\ \A j \in Ids : IsItem(f[j]) BY DEF Shaped
<1>2. [s EXCEPT !.items[i] = x] = [s EXCEPT !.items = f] OBVIOUS
<1> HIDE DEF f
<1>3. LET t == [s EXCEPT !.items = f]
      IN  /\ Shaped(t) /\ Beside(s, t) /\ t.items = f /\ t.slots = s.slots
          /\ t.revision = s.revision
  BY <1>1, ItemsShaped
<1> QED BY <1>2, <1>3 DEF f

\* A store with another id in one slot.
LEMMA SlotShaped ==
  ASSUME NEW s, Shaped(s), NEW c \in Containers, NEW k \in 1..Capacity[c],
         NEW i \in Ids \cup {0}
  PROVE  LET t == [s EXCEPT !.slots[c][k] = i]
         IN  /\ Shaped(t) /\ Beside(s, t) /\ t.items = s.items /\ t.revision = s.revision
             /\ t.slots = [s.slots EXCEPT ![c] = [s.slots[c] EXCEPT ![k] = i]]
             /\ \A d \in Containers : \A n \in 1..Capacity[d] :
                  t.slots[d][n] = IF d = c /\ n = k THEN i ELSE s.slots[d][n]
<1> DEFINE f == [s.slots EXCEPT ![c] = [s.slots[c] EXCEPT ![k] = i]]
           t == [s EXCEPT !.slots[c][k] = i]
<1>1. s = [items |-> s.items, slots |-> s.slots, open |-> s.open,
          revision |-> s.revision, log |-> s.log,
          nextItem |-> s.nextItem, nextProp |-> s.nextProp, props |-> s.props]
  BY DEF Shaped
<1>2. t = [items |-> s.items, slots |-> f, open |-> s.open,
          revision |-> s.revision, log |-> s.log,
          nextItem |-> s.nextItem, nextProp |-> s.nextProp, props |-> s.props]
  BY <1>1
<1>3. /\ f = [d \in Containers |-> f[d]]
      /\ \A d \in Containers : f[d] \in [1..Capacity[d] -> Ids \cup {0}]
      /\ \A d \in Containers : \A n \in 1..Capacity[d] :
           f[d][n] = IF d = c /\ n = k THEN i ELSE s.slots[d][n]
  BY DEF Shaped
<1> HIDE DEF t, f
<1>4. /\ t.items = s.items /\ t.slots = f /\ t.open = s.open
      /\ t.revision = s.revision /\ t.log = s.log
      /\ t.nextItem = s.nextItem /\ t.nextProp = s.nextProp /\ t.props = s.props
  BY <1>2
<1>5. Shaped(t) /\ Beside(s, t) BY <1>2, <1>3, <1>4 DEF Shaped, Beside
<1> QED BY <1>3, <1>4, <1>5 DEF f, t

\* The revisions do not fall, and a container whose slots change has a new one.
Ahead(s, t) ==
  \A c \in Containers :
    /\ t.revision[c] >= s.revision[c]
    /\ t.revision[c] = s.revision[c] => t.slots[c] = s.slots[c]

\* Being ahead is transitive.
LEMMA AheadTrans ==
  ASSUME NEW s, NEW t, NEW u, Shaped(s), Shaped(t), Shaped(u), Ahead(s, t), Ahead(t, u)
  PROVE  Ahead(s, u)
BY DEF Shaped, Ahead

\* What leaves revisions and slots alone is ahead.
LEMMA AheadSame ==
  ASSUME NEW s, NEW t, Shaped(s), t.revision = s.revision, t.slots = s.slots
  PROVE  Ahead(s, t)
BY DEF Ahead, Shaped

\* An update published changes neither items nor slots.
LEMMA UpdatedIs ==
  ASSUME NEW s, Shaped(s), NEW i \in Ids, NEW changed
  PROVE  LET t == Updated(s, i, changed)
         IN  /\ Shaped(t) /\ Beside(s, t) /\ t.items = s.items /\ t.slots = s.slots
             /\ Ahead(s, t)
             /\ \A c \in Containers : ~(InInventory(s, i) /\ s.items[i].at.container = c)
                                        => t.revision[c] = s.revision[c]
<1> DEFINE t == Updated(s, i, changed)
           c == s.items[i].at.container
<1>1. CASE ~InInventory(s, i)
  <2>1. t = s BY <1>1 DEF Updated
  <2> HIDE DEF t
  <2>2. Beside(s, t) /\ Ahead(s, t) BY <2>1, AheadSame DEF Beside
  <2> QED BY <2>1, <2>2 DEF t
<1>2. CASE InInventory(s, i)
  <2>1. c \in Containers BY <1>2, WhereItIs
  <2>2. t = publish_delta(s, c, "Update", s.items[i].at.slot, s.items[i].at.slot, i, changed)
    BY <1>2 DEF Updated
  <2> HIDE DEF t, c
  <2>3. /\ Shaped(t) /\ Beside(s, t) /\ t.items = s.items /\ t.slots = s.slots
        /\ t.revision = [s.revision EXCEPT ![c] = @ + 1]
    BY <2>1, <2>2, PublishShaped
  <2>4. \A d \in Containers : /\ s.revision[d] \in Nat
                              /\ t.revision[d] = IF d = c THEN s.revision[d] + 1 ELSE s.revision[d]
    BY <2>3 DEF Shaped
  <2>5. Ahead(s, t) BY <2>3, <2>4 DEF Ahead
  <2>6. \A d \in Containers : ~(InInventory(s, i) /\ c = d) => t.revision[d] = s.revision[d]
    BY <1>2, <2>4
  <2>7. /\ Shaped(t) /\ Beside(s, t) /\ t.items = s.items /\ t.slots = s.slots
    BY <2>3
  <2> USE DEF c
  <2> QED BY <2>5, <2>6, <2>7 DEF t
<1> QED BY <1>1, <1>2

\* SetQuantity changes the quantity of one item.
LEMMA SetQuantityIs ==
  ASSUME NEW s, Shaped(s), NEW i \in Ids, NEW q \in Nat
  PROVE  LET t == SetQuantity(s, i, q)
             x == [s.items[i] EXCEPT !.quantity = q]
         IN  /\ Shaped(t) /\ Beside(s, t) /\ t.items = [s.items EXCEPT ![i] = x]
             /\ t.slots = s.slots /\ Ahead(s, t)
<1> DEFINE x == [s.items[i] EXCEPT !.quantity = q]
           u == [s EXCEPT !.items[i] = x]
           t == SetQuantity(s, i, q)
<1>1. IsItem(s.items[i]) BY DEF Shaped
<1>2. IsItem(x) BY <1>1, ItemWith
<1>3. t = Updated(u, i, {"quantity"}) BY DEF SetQuantity
<1> HIDE DEF x, t
<1>4. /\ Shaped(u) /\ Beside(s, u) /\ u.items = [s.items EXCEPT ![i] = x]
      /\ u.slots = s.slots /\ u.revision = s.revision
  BY <1>2, ItemShaped
<1> HIDE DEF u
<1>5. Ahead(s, u) BY <1>4, AheadSame
<1>6. /\ Shaped(t) /\ Beside(u, t) /\ t.items = u.items /\ t.slots = u.slots /\ Ahead(u, t)
  BY <1>3, <1>4, UpdatedIs
<1>7. Ahead(s, t) BY <1>4, <1>5, <1>6, AheadTrans
<1>8. Beside(s, t) BY <1>4, <1>6 DEF Beside
<1> QED BY <1>4, <1>6, <1>7, <1>8 DEF x, t

\* The state of item i with one field set, and the other left alone.
With(state, field, v) == [state EXCEPT ![field] = v]

\* set_portable_uint32 changes one field of the state of one item.
LEMMA SetPortableIs ==
  ASSUME NEW s, Shaped(s), NEW i \in Ids, Live(s, i),
         NEW field \in {"count", "reserve"}, NEW v \in Nat
  PROVE  LET t == set_portable_uint32(s, i, field, v)
             x == [s.items[i] EXCEPT !.state = With(s.items[i].state, field, v)]
         IN  /\ Shaped(t) /\ Beside(s, t) /\ t.items = [s.items EXCEPT ![i] = x]
             /\ t.slots = s.slots /\ Ahead(s, t)
<1> DEFINE state == With(s.items[i].state, field, v)
           x == [s.items[i] EXCEPT !.state = state]
           u == [s EXCEPT !.items[i] = x]
           t == set_portable_uint32(s, i, field, v)
<1>1. IsItem(s.items[i]) BY DEF Shaped
<1>2. s.items[i].state \in States /\ state \in States BY <1>1 DEF IsItem, States, With
<1>3. IsItem(x) /\ x = [template |-> s.items[i].template, quantity |-> s.items[i].quantity,
                       used |-> s.items[i].used, state |-> state, at |-> s.items[i].at]
  <2> HIDE DEF state
  <2> QED BY <1>1, <1>2, ItemWith
<1>4. CASE s.items[i].state[field] = v
  <2>1. t = s BY <1>4 DEF set_portable_uint32
  <2>2. state = s.items[i].state BY <1>2, <1>4 DEF With, States
  <2> HIDE DEF state
  <2>3. x = s.items[i] BY <1>1, <1>3, <2>2 DEF IsItem
  <2> HIDE DEF x, t
  <2>4. [s.items EXCEPT ![i] = x] = s.items BY <2>3 DEF Shaped
  <2>5. Beside(s, t) /\ Ahead(s, t) BY <2>1, AheadSame DEF Beside
  <2> QED BY <2>1, <2>4, <2>5 DEF x, t, state
<1>5. CASE s.items[i].state[field] # v
  <2>1. t = Updated(u, i, {"state"}) BY <1>5 DEF set_portable_uint32, With
  <2> HIDE DEF state, x, t
  <2>2. /\ Shaped(u) /\ Beside(s, u) /\ u.items = [s.items EXCEPT ![i] = x]
        /\ u.slots = s.slots /\ u.revision = s.revision
    BY <1>3, ItemShaped
  <2> HIDE DEF u
  <2>3. Ahead(s, u) BY <2>2, AheadSame
  <2>4. /\ Shaped(t) /\ Beside(u, t) /\ t.items = u.items /\ t.slots = u.slots /\ Ahead(u, t)
    BY <2>1, <2>2, UpdatedIs
  <2>5. Ahead(s, t) BY <2>2, <2>3, <2>4, AheadTrans
  <2>6. Beside(s, t) BY <2>2, <2>4 DEF Beside
  <2> QED BY <2>2, <2>4, <2>5, <2>6 DEF x, t, state
<1> QED BY <1>4, <1>5

\* Put lists an item in one slot, and the item says so.
LEMMA PutIs ==
  ASSUME NEW s, Shaped(s), NEW i \in Ids, NEW c \in Containers, NEW k \in 1..Capacity[c]
  PROVE  LET t == Put(s, i, c, k)
             x == [s.items[i] EXCEPT !.at = InSlot(c, k)]
         IN  /\ Shaped(t) /\ Beside(s, t) /\ t.items = [s.items EXCEPT ![i] = x]
             /\ \A d \in Containers : \A n \in 1..Capacity[d] :
                  t.slots[d][n] = IF d = c /\ n = k THEN i ELSE s.slots[d][n]
             /\ Ahead(s, t)
<1> DEFINE x == [s.items[i] EXCEPT !.at = InSlot(c, k)]
           u == [s EXCEPT !.items[i] = x]
           v == [u EXCEPT !.slots[c][k] = i]
           t == Put(s, i, c, k)
<1>1. IsItem(s.items[i]) BY DEF Shaped
<1>2. IsPlace(InSlot(c, k)) BY DEF IsPlace
<1>3. IsItem(x) BY <1>1, <1>2, ItemWith
<1>4. t = publish_delta(v, c, "Add", k, k, i, {}) BY DEF Put
<1> HIDE DEF x, t
<1>5. /\ Shaped(u) /\ Beside(s, u) /\ u.items = [s.items EXCEPT ![i] = x]
      /\ u.slots = s.slots /\ u.revision = s.revision
  BY <1>3, ItemShaped
<1> HIDE DEF u
<1>6. /\ Shaped(v) /\ Beside(u, v) /\ v.items = u.items /\ v.revision = u.revision
      /\ v.slots = [u.slots EXCEPT ![c] = [u.slots[c] EXCEPT ![k] = i]]
      /\ \A d \in Containers : \A n \in 1..Capacity[d] :
           v.slots[d][n] = IF d = c /\ n = k THEN i ELSE u.slots[d][n]
  BY <1>5, SlotShaped
<1> HIDE DEF v
<1>7. /\ Shaped(t) /\ Beside(v, t) /\ t.items = v.items /\ t.slots = v.slots
      /\ t.revision = [v.revision EXCEPT ![c] = @ + 1]
  BY <1>4, <1>6, PublishShaped
<1>8. \A d \in Containers :
        /\ s.revision[d] \in Nat
        /\ t.revision[d] = IF d = c THEN s.revision[d] + 1 ELSE s.revision[d]
        /\ d # c => t.slots[d] = s.slots[d]
  BY <1>5, <1>6, <1>7 DEF Shaped
<1>9. Ahead(s, t) BY <1>8 DEF Ahead
<1>10. Beside(s, t) BY <1>5, <1>6, <1>7 DEF Beside
<1> QED BY <1>5, <1>6, <1>7, <1>9, <1>10 DEF x, t

\* remove_from_inventory empties the slot the item was in, if any.
LEMMA RemoveIs ==
  ASSUME NEW s, Shaped(s), NEW i \in Ids
  PROVE  LET t == remove_from_inventory(s, i)
         IN  /\ Shaped(t) /\ Beside(s, t) /\ t.items = s.items
             /\ \A d \in Containers : \A n \in 1..Capacity[d] :
                  t.slots[d][n] = IF s.items[i].at = InSlot(d, n) THEN 0 ELSE s.slots[d][n]
             /\ Ahead(s, t)
             /\ \A d \in Containers : ~(InInventory(s, i) /\ s.items[i].at.container = d)
                                        => t.revision[d] = s.revision[d]
<1> DEFINE t == remove_from_inventory(s, i)
           c == s.items[i].at.container
           k == s.items[i].at.slot
           e == 0
           v == [s EXCEPT !.slots[c][k] = e]
<1>1. CASE ~InInventory(s, i)
  <2>1. t = s BY <1>1 DEF remove_from_inventory
  <2>2. \A d, n : s.items[i].at # InSlot(d, n) BY <1>1, PlaceKinds DEF InInventory
  <2> HIDE DEF t
  <2>3. Beside(s, t) /\ Ahead(s, t) BY <2>1, AheadSame DEF Beside
  <2> QED BY <2>1, <2>2, <2>3 DEF t
<1>2. CASE InInventory(s, i)
  <2>1. /\ c \in Containers /\ k \in 1..Capacity[c] /\ s.items[i].at = InSlot(c, k)
    BY <1>2, WhereItIs
  <2>2. t = publish_delta(v, c, "Remove", k, k, i, {}) BY <1>2 DEF remove_from_inventory
  <2>3. \A d, n : s.items[i].at = InSlot(d, n) <=> d = c /\ n = k
    <3> HIDE DEF c, k
    <3> QED BY <2>1, PlaceKinds
  <2> HIDE DEF t, c, k
  <2>4. e \in Ids \cup {0} OBVIOUS
  <2> HIDE DEF e
  <2>5. /\ Shaped(v) /\ Beside(s, v) /\ v.items = s.items /\ v.revision = s.revision
        /\ v.slots = [s.slots EXCEPT ![c] = [s.slots[c] EXCEPT ![k] = e]]
        /\ \A d \in Containers : \A n \in 1..Capacity[d] :
             v.slots[d][n] = IF d = c /\ n = k THEN e ELSE s.slots[d][n]
    BY <2>1, <2>4, SlotShaped
  <2> HIDE DEF v
  <2>6. /\ Shaped(t) /\ Beside(v, t) /\ t.items = v.items /\ t.slots = v.slots
        /\ t.revision = [v.revision EXCEPT ![c] = @ + 1]
    BY <2>1, <2>2, <2>5, PublishShaped
  <2>7. \A d \in Containers :
          /\ s.revision[d] \in Nat
          /\ t.revision[d] = IF d = c THEN s.revision[d] + 1 ELSE s.revision[d]
          /\ d # c => t.slots[d] = s.slots[d]
    BY <2>5, <2>6 DEF Shaped
  <2>8. Ahead(s, t) BY <2>7 DEF Ahead
  <2>9. Beside(s, t) BY <2>5, <2>6 DEF Beside
  <2>10. \A d \in Containers : ~(InInventory(s, i) /\ c = d) => t.revision[d] = s.revision[d]
    BY <1>2, <2>7
  <2>11. \A d \in Containers : \A n \in 1..Capacity[d] :
           t.slots[d][n] = IF s.items[i].at = InSlot(d, n) THEN 0 ELSE s.slots[d][n]
    BY <2>3, <2>5, <2>6 DEF e
  <2>12. Shaped(t) /\ t.items = s.items BY <2>5, <2>6
  <2> USE DEF c
  <2> QED BY <2>8, <2>9, <2>10, <2>11, <2>12 DEF t
<1> QED BY <1>1, <1>2

\* An item that ends, if it has not.
Ended(x) == [template |-> x.template, quantity |-> 0, used |-> x.used,
             state |-> x.state, at |-> Terminal]

\* terminate ends one item and empties its slot.
LEMMA TerminateIs ==
  ASSUME NEW s, Shaped(s), NEW i \in Ids, Live(s, i)
  PROVE  LET t == terminate(s, i)
         IN  /\ Shaped(t) /\ Beside(s, t)
             /\ t.items = [s.items EXCEPT ![i] = Ended(s.items[i])]
             /\ \A d \in Containers : \A n \in 1..Capacity[d] :
                  t.slots[d][n] = IF s.items[i].at = InSlot(d, n) THEN 0 ELSE s.slots[d][n]
             /\ Ahead(s, t)
             /\ \A d \in Containers : ~(InInventory(s, i) /\ s.items[i].at.container = d)
                                        => t.revision[d] = s.revision[d]
<1> DEFINE r == remove_from_inventory(s, i)
           y == [s.items[i] EXCEPT !.quantity = 0]
           u == [r EXCEPT !.items[i] = y]
           v == [u EXCEPT !.items[i].at = Terminal]
           t == terminate(s, i)
<1>1. /\ Shaped(r) /\ Beside(s, r) /\ r.items = s.items
      /\ \A d \in Containers : \A n \in 1..Capacity[d] :
           r.slots[d][n] = IF s.items[i].at = InSlot(d, n) THEN 0 ELSE s.slots[d][n]
      /\ Ahead(s, r)
      /\ \A d \in Containers : ~(InInventory(s, i) /\ s.items[i].at.container = d)
                                 => r.revision[d] = s.revision[d]
  BY RemoveIs
<1>2. t = [[r EXCEPT !.items[i].quantity = 0] EXCEPT !.items[i].at = Terminal]
  BY DEF terminate
<1> HIDE DEF t
<1>3. IsItem(s.items[i]) BY DEF Shaped
<1>4. /\ IsItem(y) /\ y = [template |-> s.items[i].template, quantity |-> 0,
                           used |-> s.items[i].used, state |-> s.items[i].state,
                           at |-> s.items[i].at]
  BY <1>3, ItemWith
<1> HIDE DEF r
<1>5. [r EXCEPT !.items[i].quantity = 0] = u BY <1>1
<1> HIDE DEF y
<1>6. /\ Shaped(u) /\ Beside(r, u) /\ u.items = [r.items EXCEPT ![i] = y]
      /\ u.slots = r.slots /\ u.revision = r.revision
  BY <1>1, <1>4, ItemShaped
<1> HIDE DEF u
<1>7. u.items[i] = y BY <1>1, <1>6 DEF Shaped
<1>8. IsPlace(Terminal) BY DEF IsPlace
<1> DEFINE z == [y EXCEPT !.at = Terminal]
<1>9. IsItem(z) /\ z = Ended(s.items[i]) BY <1>4, <1>8, ItemWith DEF Ended
<1>10. v = [u EXCEPT !.items[i] = z] BY <1>7
<1> HIDE DEF z, v
<1>11. /\ Shaped(v) /\ Beside(u, v) /\ v.items = [u.items EXCEPT ![i] = z]
       /\ v.slots = u.slots /\ v.revision = u.revision
  BY <1>6, <1>9, <1>10, ItemShaped
<1>12. v.items = [s.items EXCEPT ![i] = Ended(s.items[i])]
  BY <1>1, <1>6, <1>9, <1>11 DEF Shaped
<1>13. t = v BY <1>2, <1>5 DEF v
<1>14. Beside(s, v) BY <1>1, <1>6, <1>11 DEF Beside
<1>15. Ahead(s, v) BY <1>1, <1>6, <1>11 DEF Ahead
<1> QED BY <1>1, <1>6, <1>11, <1>12, <1>13, <1>14, <1>15 DEF t

\* A store with other counters, props, containers or logs is a store still.
LEMMA CountersShaped ==
  ASSUME NEW s, Shaped(s), NEW n \in Nat
  PROVE  /\ LET t == [s EXCEPT !.nextItem = n]
            IN  /\ Shaped(t) /\ t.items = s.items /\ t.slots = s.slots /\ t.open = s.open
                /\ t.revision = s.revision /\ t.nextItem = n
                /\ t.nextProp = s.nextProp /\ t.props = s.props
         /\ LET t == [s EXCEPT !.nextProp = n]
            IN  /\ Shaped(t) /\ t.items = s.items /\ t.slots = s.slots /\ t.open = s.open
                /\ t.revision = s.revision /\ t.nextItem = s.nextItem
                /\ t.nextProp = n /\ t.props = s.props
         /\ \A P \in SUBSET Nat :
            LET t == [s EXCEPT !.props = P]
            IN  /\ Shaped(t) /\ t.items = s.items /\ t.slots = s.slots /\ t.open = s.open
                /\ t.revision = s.revision /\ t.nextItem = s.nextItem
                /\ t.nextProp = s.nextProp /\ t.props = P
         /\ \A P \in SUBSET Containers :
            LET t == [s EXCEPT !.open = P]
            IN  /\ Shaped(t) /\ t.items = s.items /\ t.slots = s.slots /\ t.open = P
                /\ t.revision = s.revision /\ t.nextItem = s.nextItem
                /\ t.nextProp = s.nextProp /\ t.props = s.props
         /\ \A l : l = [c \in Containers |-> l[c]] /\ (\A c \in Containers : Listed(l[c])) =>
            LET t == [s EXCEPT !.log = l]
            IN  /\ Shaped(t) /\ t.items = s.items /\ t.slots = s.slots /\ t.open = s.open
                /\ t.revision = s.revision /\ t.nextItem = s.nextItem
                /\ t.nextProp = s.nextProp /\ t.props = s.props
<1>1. s = [items |-> s.items, slots |-> s.slots, open |-> s.open,
          revision |-> s.revision, log |-> s.log,
          nextItem |-> s.nextItem, nextProp |-> s.nextProp, props |-> s.props]
  BY DEF Shaped
<1>2. LET t == [s EXCEPT !.nextItem = n]
      IN  /\ Shaped(t) /\ t.items = s.items /\ t.slots = s.slots /\ t.open = s.open
          /\ t.revision = s.revision /\ t.nextItem = n
          /\ t.nextProp = s.nextProp /\ t.props = s.props
  <2> DEFINE t == [s EXCEPT !.nextItem = n]
  <2>1. t = [items |-> s.items, slots |-> s.slots, open |-> s.open,
             revision |-> s.revision, log |-> s.log,
             nextItem |-> n, nextProp |-> s.nextProp, props |-> s.props]
    BY <1>1
  <2> HIDE DEF t
  <2>2. /\ t.items = s.items /\ t.slots = s.slots /\ t.open = s.open
        /\ t.revision = s.revision /\ t.log = s.log
        /\ t.nextItem = n /\ t.nextProp = s.nextProp /\ t.props = s.props
    BY <2>1
  <2> QED BY <2>1, <2>2 DEF Shaped, t
<1>3. LET t == [s EXCEPT !.nextProp = n]
      IN  /\ Shaped(t) /\ t.items = s.items /\ t.slots = s.slots /\ t.open = s.open
          /\ t.revision = s.revision /\ t.nextItem = s.nextItem
          /\ t.nextProp = n /\ t.props = s.props
  <2> DEFINE t == [s EXCEPT !.nextProp = n]
  <2>1. t = [items |-> s.items, slots |-> s.slots, open |-> s.open,
             revision |-> s.revision, log |-> s.log,
             nextItem |-> s.nextItem, nextProp |-> n, props |-> s.props]
    BY <1>1
  <2> HIDE DEF t
  <2>2. /\ t.items = s.items /\ t.slots = s.slots /\ t.open = s.open
        /\ t.revision = s.revision /\ t.log = s.log
        /\ t.nextItem = s.nextItem /\ t.nextProp = n /\ t.props = s.props
    BY <2>1
  <2> QED BY <2>1, <2>2 DEF Shaped, t
<1>4. ASSUME NEW P \in SUBSET Nat
      PROVE LET t == [s EXCEPT !.props = P]
            IN  /\ Shaped(t) /\ t.items = s.items /\ t.slots = s.slots /\ t.open = s.open
                /\ t.revision = s.revision /\ t.nextItem = s.nextItem
                /\ t.nextProp = s.nextProp /\ t.props = P
  <2> DEFINE t == [s EXCEPT !.props = P]
  <2>1. t = [items |-> s.items, slots |-> s.slots, open |-> s.open,
             revision |-> s.revision, log |-> s.log,
             nextItem |-> s.nextItem, nextProp |-> s.nextProp, props |-> P]
    BY <1>1
  <2> HIDE DEF t
  <2>2. /\ t.items = s.items /\ t.slots = s.slots /\ t.open = s.open
        /\ t.revision = s.revision /\ t.log = s.log
        /\ t.nextItem = s.nextItem /\ t.nextProp = s.nextProp /\ t.props = P
    BY <2>1
  <2> QED BY <2>1, <2>2 DEF Shaped, t
<1>5. ASSUME NEW P \in SUBSET Containers
      PROVE LET t == [s EXCEPT !.open = P]
            IN  /\ Shaped(t) /\ t.items = s.items /\ t.slots = s.slots /\ t.open = P
                /\ t.revision = s.revision /\ t.nextItem = s.nextItem
                /\ t.nextProp = s.nextProp /\ t.props = s.props
  <2> DEFINE t == [s EXCEPT !.open = P]
  <2>1. t = [items |-> s.items, slots |-> s.slots, open |-> P,
             revision |-> s.revision, log |-> s.log,
             nextItem |-> s.nextItem, nextProp |-> s.nextProp, props |-> s.props]
    BY <1>1
  <2> HIDE DEF t
  <2>2. /\ t.items = s.items /\ t.slots = s.slots /\ t.open = P
        /\ t.revision = s.revision /\ t.log = s.log
        /\ t.nextItem = s.nextItem /\ t.nextProp = s.nextProp /\ t.props = s.props
    BY <2>1
  <2> QED BY <2>1, <2>2 DEF Shaped, t
<1>6. ASSUME NEW l, l = [c \in Containers |-> l[c]], \A c \in Containers : Listed(l[c])
      PROVE LET t == [s EXCEPT !.log = l]
            IN  /\ Shaped(t) /\ t.items = s.items /\ t.slots = s.slots /\ t.open = s.open
                /\ t.revision = s.revision /\ t.nextItem = s.nextItem
                /\ t.nextProp = s.nextProp /\ t.props = s.props
  <2> DEFINE t == [s EXCEPT !.log = l]
  <2>1. t = [items |-> s.items, slots |-> s.slots, open |-> s.open,
             revision |-> s.revision, log |-> l,
             nextItem |-> s.nextItem, nextProp |-> s.nextProp, props |-> s.props]
    BY <1>1
  <2> HIDE DEF t
  <2>2. /\ t.items = s.items /\ t.slots = s.slots /\ t.open = s.open
        /\ t.revision = s.revision /\ t.log = l
        /\ t.nextItem = s.nextItem /\ t.nextProp = s.nextProp /\ t.props = s.props
    BY <2>1
  <2> QED BY <1>6, <2>1, <2>2 DEF Shaped, t
<1> QED BY <1>2, <1>3, <1>4, <1>5, <1>6

\* spawn_prop adds the next prop.
LEMMA SpawnIs ==
  ASSUME NEW s, Shaped(s)
  PROVE  LET t == spawn_prop(s)
         IN  /\ Shaped(t) /\ t.items = s.items /\ t.slots = s.slots /\ t.open = s.open
             /\ t.revision = s.revision /\ t.nextItem = s.nextItem
             /\ t.nextProp = s.nextProp + 1 /\ t.props = s.props \cup {s.nextProp}
<1> DEFINE P == s.props \cup {s.nextProp}
           n == s.nextProp + 1
           u == [s EXCEPT !.props = P]
           t == [u EXCEPT !.nextProp = n]
<1>1. P \in SUBSET Nat /\ n \in Nat BY DEF Shaped
<1>2. /\ Shaped(u) /\ u.items = s.items /\ u.slots = s.slots /\ u.open = s.open
      /\ u.revision = s.revision /\ u.nextItem = s.nextItem
      /\ u.nextProp = s.nextProp /\ u.props = P
  <2> HIDE DEF P, n
  <2> QED BY <1>1, CountersShaped
<1>3. spawn_prop(s) = [u EXCEPT !.nextProp = @ + 1] BY DEF spawn_prop
<1> HIDE DEF u
<1>4. spawn_prop(s) = t BY <1>2, <1>3
<1> HIDE DEF P, n
<1>5. /\ Shaped(t) /\ t.items = u.items /\ t.slots = u.slots /\ t.open = u.open
      /\ t.revision = u.revision /\ t.nextItem = u.nextItem
      /\ t.nextProp = n /\ t.props = u.props
  BY <1>1, <1>2, CountersShaped
<1> HIDE DEF t
<1> QED BY <1>2, <1>4, <1>5 DEF P, n

\* Made adds the next item, nowhere yet.
LEMMA MadeIs ==
  ASSUME NEW s, Shaped(s), s.nextItem \in Ids, NEW t \in Templates, NEW q \in Nat,
         NEW used \in Nat, NEW state \in States
  PROVE  LET u == Made(s, t, q, used, state)
             x == [template |-> t, quantity |-> q, used |-> used, state |-> state,
                   at |-> Nowhere]
         IN  /\ Shaped(u) /\ IsItem(x) /\ u.items = [s.items EXCEPT ![s.nextItem] = x]
             /\ u.slots = s.slots /\ u.open = s.open
             /\ u.revision = s.revision /\ u.nextItem = s.nextItem + 1
             /\ u.nextProp = s.nextProp /\ u.props = s.props
<1> DEFINE x == [template |-> t, quantity |-> q, used |-> used, state |-> state,
                 at |-> Nowhere]
           n == s.nextItem + 1
           v == [s EXCEPT !.items[s.nextItem] = x]
           u == [v EXCEPT !.nextItem = n]
<1>1. IsItem(x) /\ n \in Nat BY DEF IsItem, IsPlace, Shaped
<1>2. /\ Shaped(v) /\ Beside(s, v) /\ v.items = [s.items EXCEPT ![s.nextItem] = x]
      /\ v.slots = s.slots /\ v.revision = s.revision
  <2> HIDE DEF x, n
  <2> QED BY <1>1, ItemShaped
<1>3. Made(s, t, q, used, state) = [v EXCEPT !.nextItem = @ + 1] BY DEF Made
<1> HIDE DEF v, x
<1>4. Made(s, t, q, used, state) = u BY <1>2, <1>3 DEF Beside
<1> HIDE DEF n
<1>5. /\ Shaped(u) /\ u.items = v.items /\ u.slots = v.slots /\ u.open = v.open
      /\ u.revision = v.revision /\ u.nextItem = n
      /\ u.nextProp = v.nextProp /\ u.props = v.props
  BY <1>1, <1>2, CountersShaped
<1> HIDE DEF u
<1> QED BY <1>1, <1>2, <1>4, <1>5 DEF Beside, n, x

\* An item that is somewhere else.
LEMMA AtIs ==
  ASSUME NEW s, Shaped(s), NEW i \in Ids, NEW at, IsPlace(at)
  PROVE  LET t == [s EXCEPT !.items[i].at = at]
             x == [s.items[i] EXCEPT !.at = at]
         IN  /\ Shaped(t) /\ Beside(s, t) /\ t.items = [s.items EXCEPT ![i] = x]
             /\ IsItem(x) /\ t.slots = s.slots /\ t.revision = s.revision
<1> DEFINE x == [s.items[i] EXCEPT !.at = at]
<1>1. IsItem(s.items[i]) BY DEF Shaped
<1>2. IsItem(x) BY <1>1, ItemWith
<1>3. [s EXCEPT !.items[i].at = at] = [s EXCEPT !.items[i] = x] OBVIOUS
<1> HIDE DEF x
<1>4. LET t == [s EXCEPT !.items[i] = x]
      IN  /\ Shaped(t) /\ Beside(s, t) /\ t.items = [s.items EXCEPT ![i] = x]
          /\ t.slots = s.slots /\ t.revision = s.revision
  BY <1>2, ItemShaped
<1> QED BY <1>2, <1>3, <1>4 DEF x

\* set_world_mode changes how one item is on its prop.
LEMMA SetModeIs ==
  ASSUME NEW s, Shaped(s), NEW i \in Ids, InWorld(s, i),
         NEW mode \in Modes
  PROVE  LET t == set_world_mode(s, i, mode)
             x == [s.items[i] EXCEPT !.at = OnProp(s.items[i].at.prop, mode)]
         IN  /\ Shaped(t) /\ Beside(s, t) /\ t.items = [s.items EXCEPT ![i] = x]
             /\ IsItem(x) /\ t.slots = s.slots /\ t.revision = s.revision
<1> DEFINE at == OnProp(s.items[i].at.prop, mode)
<1>1. /\ s.items[i].at.prop \in Nat
      /\ s.items[i].at = OnProp(s.items[i].at.prop, s.items[i].at.mode)
  BY WhereItIs
<1>2. [s.items[i].at EXCEPT !.mode = mode] = at
  <2> DEFINE p == s.items[i].at.prop
             m == s.items[i].at.mode
             y == s.items[i].at
  <2>1. y = OnProp(p, m) BY <1>1
  <2> HIDE DEF p, m, y
  <2>2. [y EXCEPT !.mode = mode] = OnProp(p, mode) BY <2>1 DEF OnProp
  <2> QED BY <2>2 DEF p, y
<1>3. IsPlace(at) BY <1>1 DEF IsPlace
<1>4. set_world_mode(s, i, mode) = [s EXCEPT !.items[i].at = [s.items[i].at EXCEPT !.mode = mode]]
  BY DEF set_world_mode
<1> HIDE DEF at
<1> DEFINE u == [s EXCEPT !.items[i].at = at]
<1>5. LET x == [s.items[i] EXCEPT !.at = at]
      IN  /\ Shaped(u) /\ Beside(s, u) /\ u.items = [s.items EXCEPT ![i] = x]
          /\ IsItem(x) /\ u.slots = s.slots /\ u.revision = s.revision
  BY <1>3, AtIs
<1>6. set_world_mode(s, i, mode) = u BY <1>2, <1>4
<1> HIDE DEF u
<1> QED BY <1>5, <1>6 DEF at

Moved(x, at) == [template |-> x.template, quantity |-> x.quantity, used |-> x.used,
                 state |-> x.state, at |-> at]

\* A moved item is as it was but for its place.
LEMMA MovedIs ==
  ASSUME NEW x, IsItem(x), NEW at, IsPlace(at)
  PROVE  /\ [x EXCEPT !.at = at] = Moved(x, at) /\ IsItem(Moved(x, at))
         /\ Moved(x, at).template = x.template /\ Moved(x, at).quantity = x.quantity
         /\ Moved(x, at).used = x.used /\ Moved(x, at).state = x.state /\ Moved(x, at).at = at
BY ItemWith DEF Moved

\* move_to_world takes an item out of its slot and onto a prop.
LEMMA ToWorldIs ==
  ASSUME NEW s, Shaped(s), NEW i \in Ids, NEW p \in Nat,
         NEW mode \in Modes
  PROVE  LET t == move_to_world(s, i, p, mode)
             x == Moved(s.items[i], OnProp(p, mode))
         IN  /\ Shaped(t) /\ Beside(s, t) /\ t.items = [s.items EXCEPT ![i] = x]
             /\ IsItem(x)
             /\ \A d \in Containers : \A n \in 1..Capacity[d] :
                  t.slots[d][n] = IF s.items[i].at = InSlot(d, n) THEN 0 ELSE s.slots[d][n]
             /\ Ahead(s, t)
<1> DEFINE r == remove_from_inventory(s, i)
           at == OnProp(p, mode)
           t == [r EXCEPT !.items[i].at = at]
<1>1. /\ Shaped(r) /\ Beside(s, r) /\ r.items = s.items
      /\ \A d \in Containers : \A n \in 1..Capacity[d] :
           r.slots[d][n] = IF s.items[i].at = InSlot(d, n) THEN 0 ELSE s.slots[d][n]
      /\ Ahead(s, r)
  BY RemoveIs
<1>2. IsPlace(at) BY DEF IsPlace
<1>3. move_to_world(s, i, p, mode) = t BY DEF move_to_world
<1> HIDE DEF r, at
<1>4. LET x == [r.items[i] EXCEPT !.at = at]
      IN  /\ Shaped(t) /\ Beside(r, t) /\ t.items = [r.items EXCEPT ![i] = x]
          /\ IsItem(x) /\ t.slots = r.slots /\ t.revision = r.revision
  BY <1>1, <1>2, AtIs
<1> HIDE DEF t
<1>5. Ahead(s, t) BY <1>1, <1>4 DEF Ahead
<1>6. Beside(s, t) BY <1>1, <1>4 DEF Beside
<1>7. IsItem(s.items[i]) BY DEF Shaped
<1>8. [s.items[i] EXCEPT !.at = at] = Moved(s.items[i], at) BY <1>2, <1>7, MovedIs
<1> QED BY <1>1, <1>3, <1>4, <1>5, <1>6, <1>8 DEF at

\* A slot lists an item that is in it, and an item in a slot is listed there, in a
\* container there is.
SlotsAgree(s) ==
  \A c \in Containers : \A k \in 1..Capacity[c] :
    /\ s.slots[c][k] # 0 => s.items[s.slots[c][k]].at = InSlot(c, k)
    /\ \A i \in Ids : s.items[i].at = InSlot(c, k) => c \in s.open /\ s.slots[c][k] = i

\* An item in the world is on a prop there is, and the only one on it.
PropsAgree(s) ==
  \A i \in Ids : InWorld(s, i) =>
    /\ s.items[i].at.prop \in s.props
    /\ \A j \in Ids : InWorld(s, j) /\ s.items[j].at.prop = s.items[i].at.prop => j = i

\* What was made has a number that is not given again.
Numbered(s) ==
  /\ s.nextItem >= 1 /\ \A i \in Ids : i >= s.nextItem => s.items[i] = EmptyItem
  /\ s.nextProp >= 1 /\ \A p \in s.props : p < s.nextProp

\* A stack is neither empty nor too large, a weapon no fuller than its magazine,
\* and only weapons are in the weapon container.
Measured(s) ==
  /\ \A i \in Ids : Live(s, i) =>
       /\ s.items[i].template \in Templates
       /\ 1 <= s.items[i].quantity /\ s.items[i].quantity <= MaxStack[s.items[i].template]
  /\ \A i \in Ids : s.items[i].template \in Weapons => s.items[i].state.count <= Magazine
  /\ \A k \in 1..Capacity["arms"] :
       s.slots["arms"][k] # 0 => s.items[s.slots["arms"][k]].template \in Weapons

Sound(s) ==
  /\ Shaped(s) /\ {"own", "arms"} \subseteq s.open
  /\ SlotsAgree(s) /\ PropsAgree(s) /\ Numbered(s) /\ Measured(s)

\* From s to t item i became x, where x says it is, and nothing else moved.
Effect(s, t, i, x) ==
  /\ Shaped(t) /\ i \in Ids /\ IsItem(x)
  /\ t.items = [s.items EXCEPT ![i] = x]
  /\ \A d \in Containers : \A n \in 1..Capacity[d] :
       t.slots[d][n] = IF x.at = InSlot(d, n) THEN i
                       ELSE IF s.items[i].at = InSlot(d, n) THEN 0 ELSE s.slots[d][n]
  /\ Ahead(s, t)

\* There is a place for x in t, and x is as it should be.
Fit(s, t, i, x) ==
  /\ t.open = s.open /\ t.nextItem >= s.nextItem /\ i < t.nextItem
  /\ t.nextProp >= s.nextProp /\ \A p \in t.props : p < t.nextProp
  /\ \A c \in Containers : \A k \in 1..Capacity[c] : x.at = InSlot(c, k) =>
       /\ c \in s.open /\ s.slots[c][k] \in {0, i}
       /\ c = "arms" => x.template \in Weapons
  /\ x.at.kind = "world" =>
       /\ x.at.prop \in t.props
       /\ \A j \in Ids : InWorld(s, j) /\ s.items[j].at.prop = x.at.prop => j = i
  /\ \A j \in Ids : InWorld(s, j) /\ j # i => s.items[j].at.prop \in t.props
  /\ x.at.kind \in {"inventory", "world"} =>
       /\ x.template \in Templates
       /\ 1 <= x.quantity /\ x.quantity <= MaxStack[x.template]
  /\ x.template \in Weapons => x.state.count <= Magazine

\* A sound store stays sound when one item changes in a way that fits: the
\* frame every operation of the store is an instance of.
LEMMA MovedSound ==
  ASSUME NEW s, NEW t, NEW i, NEW x, Sound(s), Effect(s, t, i, x), Fit(s, t, i, x)
  PROVE  Sound(t)
<1>1. Shaped(s) /\ Shaped(t) /\ i \in Ids /\ IsItem(x) BY DEF Sound, Effect
<1>2. \A j \in Ids : t.items[j] = IF j = i THEN x ELSE s.items[j]
  BY <1>1 DEF Effect, Shaped
<1>3. \A d \in Containers : \A n \in 1..Capacity[d] :
        /\ s.slots[d][n] \in Ids \cup {0} /\ t.slots[d][n] \in Ids \cup {0}
        /\ t.slots[d][n] = IF x.at = InSlot(d, n) THEN i
                           ELSE IF s.items[i].at = InSlot(d, n) THEN 0 ELSE s.slots[d][n]
  BY <1>1 DEF Effect, Shaped
<1>4. 0 \notin Ids BY DEF Ids
<1>5. ASSUME NEW c \in Containers, NEW k \in 1..Capacity[c], t.slots[c][k] # 0
      PROVE  t.items[t.slots[c][k]].at = InSlot(c, k)
  BY <1>1, <1>2, <1>3, <1>5 DEF Sound, SlotsAgree
<1>6. ASSUME NEW c \in Containers, NEW k \in 1..Capacity[c], NEW j \in Ids,
             t.items[j].at = InSlot(c, k)
      PROVE  c \in t.open /\ t.slots[c][k] = j
  BY <1>1, <1>2, <1>3, <1>4, <1>6 DEF Fit, Sound, SlotsAgree
<1>7. SlotsAgree(t) BY <1>5, <1>6 DEF SlotsAgree
<1>8. ASSUME NEW j \in Ids, InWorld(t, j)
      PROVE  /\ t.items[j].at.prop \in t.props
             /\ \A n \in Ids : InWorld(t, n) /\ t.items[n].at.prop = t.items[j].at.prop => n = j
  <2>1. \A n \in Ids : n # i => (InWorld(t, n) <=> InWorld(s, n)) BY <1>2 DEF InWorld
  <2>2. InWorld(t, i) => x.at.kind = "world" BY <1>2 DEF InWorld
  <2>3. CASE j = i BY <1>1, <1>2, <1>8, <2>1, <2>2, <2>3 DEF Fit
  <2>4. CASE j # i
    BY <1>2, <1>8, <2>1, <2>2, <2>4 DEF Fit, Sound, PropsAgree
  <2> QED BY <2>3, <2>4
<1>9. PropsAgree(t) BY <1>8 DEF PropsAgree
<1>10. Numbered(t)
  BY <1>1, <1>2 DEF Shaped, Ids, Fit, Sound, Numbered
<1>11. Measured(t)
  BY <1>1, <1>2, <1>3, ItemStoreAssumption DEF Live, Fit, Sound, Measured, SlotsAgree
<1>12. {"own", "arms"} \subseteq t.open BY DEF Sound, Fit
<1> QED BY <1>1, <1>7, <1>9, <1>10, <1>11, <1>12 DEF Sound

\* A set of numbers that is not empty has a least one.
LEMMA LeastNat ==
  ASSUME NEW T \in SUBSET Nat, T # {}
  PROVE  \E n \in T : \A k \in T : n <= k
<1>1. PICK n \in T : \A k \in T : ~(<<k, n>> \in OpToRel(<, Nat))
  BY NatLessThanWellFounded, WFMin
<1>2. \A k \in T : ~(k < n) BY <1>1 DEF OpToRel
<1> QED BY <1>2

\* g adds up f as far as n.
Adds(g, f, n) == g = [k \in 0..n |-> IF k = 0 THEN 0 ELSE g[k - 1] + f[k]]

\* SumTo by its recursive function.
LEMMA SumIs ==
  ASSUME NEW f, NEW n \in Nat
  PROVE  SumTo(f, n) = (CHOOSE g : Adds(g, f, n))[n]
BY DEF SumTo, Adds

\* There is such a function, for every length.
LEMMA AddsExists ==
  ASSUME NEW f, NEW n \in Nat
  PROVE  \E g : Adds(g, f, n)
<1> DEFINE T == {m \in Nat : ~\E g : Adds(g, f, m)}
<1>1. SUFFICES ASSUME T # {} PROVE FALSE OBVIOUS
<1>2. PICK m \in T : \A k \in T : m <= k BY <1>1, LeastNat
<1>3. CASE m = 0
  <2> DEFINE g == [k \in 0..0 |-> 0]
  <2>1. Adds(g, f, 0) BY DEF Adds
  <2> QED BY <1>2, <1>3, <2>1
<1>4. CASE m # 0
  <2>1. m - 1 \in Nat /\ m \in Nat BY <1>2, <1>4
  <2>2. PICK g : Adds(g, f, m - 1) BY <1>2, <2>1
  <2> DEFINE h == [k \in 0..m |-> IF k = m THEN g[m - 1] + f[m] ELSE g[k]]
  <2>3. g = [k \in 0..(m - 1) |-> IF k = 0 THEN 0 ELSE g[k - 1] + f[k]] BY <2>2 DEF Adds
  <2>4. \A k \in 0..(m - 1) : g[k] = IF k = 0 THEN 0 ELSE g[k - 1] + f[k]
    BY <2>3
  <2>5. \A k \in 0..m : h[k] = IF k = 0 THEN 0 ELSE h[k - 1] + f[k]
    BY <1>4, <2>1, <2>4
  <2>6. Adds(h, f, m)
    <3>1. h = [k \in 0..m |-> h[k]] OBVIOUS
    <3> HIDE DEF h
    <3> QED BY <2>5, <3>1 DEF Adds
  <2> QED BY <1>2, <2>6
<1> QED BY <1>3, <1>4

\* Two of them agree as far as both go.
LEMMA AddsAgree ==
  ASSUME NEW f, NEW n \in Nat, NEW m \in Nat, n <= m, NEW g, NEW h,
         Adds(g, f, n), Adds(h, f, m)
  PROVE  \A k \in 0..n : g[k] = h[k]
<1> DEFINE T == {k \in 0..n : g[k] # h[k]}
<1>1. SUFFICES ASSUME T # {} PROVE FALSE OBVIOUS
<1>2. T \in SUBSET Nat OBVIOUS
<1>3. PICK k \in T : \A j \in T : k <= j BY <1>1, <1>2, LeastNat
<1>4. k \in 0..n /\ g[k] # h[k] BY <1>3
<1>5. \A j \in 0..n : j < k => g[j] = h[j] BY <1>3
<1>6. \A j \in 0..n : g[j] = IF j = 0 THEN 0 ELSE g[j - 1] + f[j] BY DEF Adds
<1>7. \A j \in 0..m : h[j] = IF j = 0 THEN 0 ELSE h[j - 1] + f[j] BY DEF Adds
<1>8. k \in 0..m BY <1>4
<1>9. CASE k = 0 BY <1>4, <1>6, <1>7, <1>8, <1>9
<1>10. CASE k # 0
  BY <1>4, <1>5, <1>6, <1>7, <1>8, <1>10
<1> QED BY <1>9, <1>10

\* A sum, and the sum with one more.
LEMMA SumStep ==
  ASSUME NEW f, NEW n \in Nat
  PROVE  SumTo(f, 0) = 0 /\ SumTo(f, n + 1) = SumTo(f, n) + f[n + 1]
<1> DEFINE G(m) == CHOOSE g : Adds(g, f, m)
<1>1. \A m \in Nat : Adds(G(m), f, m)
  BY AddsExists
<1>2. \A m \in Nat : SumTo(f, m) = G(m)[m] BY SumIs
<1> HIDE DEF G
<1>3. \A m \in Nat : \A k \in 0..m : G(m)[k] = IF k = 0 THEN 0 ELSE G(m)[k - 1] + f[k]
  BY <1>1 DEF Adds
<1>4. SumTo(f, 0) = 0 BY <1>2, <1>3
<1>5. n + 1 \in Nat /\ n <= n + 1 /\ n \in 0..n OBVIOUS
<1>6. G(n)[n] = G(n + 1)[n] BY <1>1, <1>5, AddsAgree
<1>7. G(n + 1)[n + 1] = G(n + 1)[n] + f[n + 1]
  BY <1>3, <1>5
<1> QED BY <1>2, <1>4, <1>5, <1>6, <1>7

\* A sum of numbers is a number.
LEMMA SumNat ==
  ASSUME NEW f, NEW n \in Nat, \A k \in 1..n : f[k] \in Nat
  PROVE  SumTo(f, n) \in Nat
<1> DEFINE T == {k \in 0..n : SumTo(f, k) \notin Nat}
<1>1. SUFFICES ASSUME T # {} PROVE FALSE OBVIOUS
<1>2. T \in SUBSET Nat OBVIOUS
<1>3. PICK k \in T : \A j \in T : k <= j BY <1>1, <1>2, LeastNat
<1>4. k \in 0..n /\ SumTo(f, k) \notin Nat BY <1>3
<1>5. \A j \in 0..n : j < k => SumTo(f, j) \in Nat BY <1>3
<1> HIDE DEF T
<1>6. CASE k = 0 BY <1>4, <1>6, SumStep
<1>7. CASE k # 0
  <2>1. k - 1 \in 0..n /\ k - 1 < k /\ k - 1 \in Nat /\ (k - 1) + 1 = k /\ k \in 1..n
    BY <1>4, <1>7
  <2>2. SumTo(f, k) = SumTo(f, k - 1) + f[k]
    BY <2>1, SumStep
  <2>3. SumTo(f, k - 1) \in Nat BY <1>5, <2>1
  <2> QED BY <1>4, <2>1, <2>2, <2>3
<1> QED BY <1>6, <1>7

\* Sums that differ in one summand, and sums of the same.
LEMMA SumChange ==
  ASSUME NEW f, NEW g, NEW n \in Nat, NEW i \in 1..n,
         \A k \in 1..n : f[k] \in Nat /\ g[k] \in Nat,
         \A k \in 1..n : k # i => g[k] = f[k]
  PROVE  SumTo(g, n) + f[i] = SumTo(f, n) + g[i]
<1> DEFINE Right(k) == IF k < i THEN SumTo(g, k) = SumTo(f, k)
                       ELSE SumTo(g, k) + f[i] = SumTo(f, k) + g[i]
           T == {k \in 0..n : ~Right(k)}
<1>1. ASSUME T # {} PROVE FALSE
  <2>1. T \in SUBSET Nat OBVIOUS
  <2>2. PICK k \in T : \A j \in T : k <= j BY <1>1, <2>1, LeastNat
  <2>3. k \in 0..n /\ ~Right(k) BY <2>2
  <2>4. \A j \in 0..n : j < k => Right(j) BY <2>2
  <2> HIDE DEF T
  <2>5. SumTo(f, 0) = 0 /\ SumTo(g, 0) = 0 BY SumStep
  <2>6. k # 0 BY <2>3, <2>5
  <2>7. k - 1 \in 0..n /\ k - 1 < k /\ k - 1 \in Nat /\ (k - 1) + 1 = k /\ k \in 1..n
    BY <2>3, <2>6
  <2>8. SumTo(f, k) = SumTo(f, k - 1) + f[k]
    BY <2>7, SumStep
  <2>9. SumTo(g, k) = SumTo(g, k - 1) + g[k]
    BY <2>7, SumStep
  <2>10. SumTo(f, k - 1) \in Nat /\ SumTo(g, k - 1) \in Nat
    BY <2>7, SumNat
  <2>11. f[k] \in Nat /\ g[k] \in Nat /\ f[i] \in Nat /\ g[i] \in Nat BY <2>7
  <2>12. Right(k - 1) BY <2>4, <2>7
  <2>13. CASE k < i
    BY <2>3, <2>7, <2>8, <2>9, <2>12, <2>13
  <2>14. CASE k = i
    BY <2>3, <2>7, <2>8, <2>9, <2>10, <2>11, <2>12, <2>14
  <2>15. CASE k > i
    BY <2>3, <2>7, <2>8, <2>9, <2>10, <2>11, <2>12, <2>15
  <2> QED BY <2>7, <2>13, <2>14, <2>15
<1>2. n \in 0..n /\ ~(n < i) OBVIOUS
<1> QED BY <1>1, <1>2

\* A sum depends on the terms alone.
LEMMA SumSame ==
  ASSUME NEW f, NEW g, NEW n \in Nat, \A k \in 1..n : g[k] = f[k]
  PROVE  SumTo(g, n) = SumTo(f, n)
<1> DEFINE T == {k \in 0..n : SumTo(g, k) # SumTo(f, k)}
<1>1. SUFFICES ASSUME T # {} PROVE FALSE OBVIOUS
<1>2. T \in SUBSET Nat OBVIOUS
<1>3. PICK k \in T : \A j \in T : k <= j BY <1>1, <1>2, LeastNat
<1>4. k \in 0..n /\ SumTo(g, k) # SumTo(f, k) BY <1>3
<1>5. \A j \in 0..n : j < k => SumTo(g, j) = SumTo(f, j) BY <1>3
<1> HIDE DEF T
<1>6. k # 0 BY <1>4, SumStep
<1>7. k - 1 \in 0..n /\ k - 1 < k /\ k - 1 \in Nat /\ (k - 1) + 1 = k /\ k \in 1..n
  BY <1>4, <1>6
<1>8. SumTo(f, (k - 1) + 1) = SumTo(f, k - 1) + f[(k - 1) + 1] BY <1>7, SumStep
<1>9. SumTo(g, (k - 1) + 1) = SumTo(g, k - 1) + g[(k - 1) + 1] BY <1>7, SumStep
<1> QED BY <1>4, <1>5, <1>7, <1>8, <1>9

\* A sum of nothing.
LEMMA SumZero ==
  ASSUME NEW f, NEW n \in Nat, \A k \in 1..n : f[k] = 0
  PROVE  SumTo(f, n) = 0
<1> DEFINE T == {k \in 0..n : SumTo(f, k) # 0}
<1>1. SUFFICES ASSUME T # {} PROVE FALSE OBVIOUS
<1>2. T \in SUBSET Nat OBVIOUS
<1>3. PICK k \in T : \A j \in T : k <= j BY <1>1, <1>2, LeastNat
<1>4. k \in 0..n /\ SumTo(f, k) # 0 BY <1>3
<1>5. \A j \in 0..n : j < k => SumTo(f, j) = 0 BY <1>3
<1> HIDE DEF T
<1>6. k # 0 BY <1>4, SumStep
<1>7. k - 1 \in 0..n /\ k - 1 < k /\ k - 1 \in Nat /\ (k - 1) + 1 = k /\ k \in 1..n
  BY <1>4, <1>6
<1>8. SumTo(f, (k - 1) + 1) = SumTo(f, k - 1) + f[(k - 1) + 1] BY <1>7, SumStep
<1> QED BY <1>4, <1>5, <1>7, <1>8

-----------------------------------------------------------------------------
(* What an operation keeps.                                                *)

\* How much of template y an item x is, and how much of it there is.
Worth(x, y) ==
  IF x.at.kind \in {"inventory", "world"} /\ x.template = y THEN x.quantity ELSE 0
Total(s, y) == SumTo([i \in Ids |-> Amount(s, i, y)], MaxItems)

\* A weapon stays what it is, with the rounds it has.
Holds(s, t) ==
  \A i \in Ids : s.items[i].template \in Weapons =>
    /\ t.items[i].template = s.items[i].template /\ t.items[i].state = s.items[i].state
    /\ Live(s, i) => Live(t, i)

\* A weapon x is as it was.
Unarmed(s, i, x) ==
  s.items[i].template \in Weapons =>
    /\ x.template = s.items[i].template /\ x.state = s.items[i].state
    /\ Live(s, i) => x.at.kind \in {"inventory", "world"}

\* Keeping the weapons is transitive.
LEMMA HoldsTrans ==
  ASSUME NEW s, NEW t, NEW u, Holds(s, t), Holds(t, u)
  PROVE  Holds(s, u)
BY DEF Holds

\* Amounts and their total are numbers.
LEMMA AmountNat ==
  ASSUME NEW s, Shaped(s), NEW y
  PROVE  /\ \A i \in Ids : Amount(s, i, y) = Worth(s.items[i], y) /\ Worth(s.items[i], y) \in Nat
         /\ Total(s, y) \in Nat
<1>1. \A i \in Ids : s.items[i].quantity \in Nat BY DEF Shaped, IsItem
<1>2. \A i \in Ids : Amount(s, i, y) = Worth(s.items[i], y) /\ Worth(s.items[i], y) \in Nat
  BY <1>1 DEF Amount, Worth, Live
<1> DEFINE f == [i \in Ids |-> Amount(s, i, y)]
<1>3. \A k \in 1..MaxItems : f[k] \in Nat BY <1>2 DEF Ids
<1>4. MaxItems \in Nat BY ItemStoreAssumption
<1> HIDE DEF f
<1>5. SumTo(f, MaxItems) \in Nat BY <1>3, <1>4, SumNat
<1> QED BY <1>2, <1>5 DEF Total, f

\* A total depends on what each item is worth.
LEMMA TotalSame ==
  ASSUME NEW s, NEW t, Shaped(s), Shaped(t), NEW y,
         \A i \in Ids : Worth(t.items[i], y) = Worth(s.items[i], y)
  PROVE  Total(t, y) = Total(s, y)
<1> DEFINE f == [i \in Ids |-> Amount(s, i, y)]
           g == [i \in Ids |-> Amount(t, i, y)]
<1>1. \A i \in Ids : Amount(s, i, y) = Amount(t, i, y) BY AmountNat
<1>2. \A k \in 1..MaxItems : g[k] = f[k] BY <1>1 DEF Ids
<1>3. MaxItems \in Nat BY ItemStoreAssumption
<1> HIDE DEF f, g
<1>4. SumTo(g, MaxItems) = SumTo(f, MaxItems) BY <1>2, <1>3, SumSame
<1> QED BY <1>4 DEF Total, f, g

\* When one item changes, the total changes by as much.
LEMMA TotalChange ==
  ASSUME NEW s, NEW t, Shaped(s), Shaped(t), NEW i \in Ids, NEW x, IsItem(x),
         t.items = [s.items EXCEPT ![i] = x], NEW y
  PROVE  Total(t, y) + Worth(s.items[i], y) = Total(s, y) + Worth(x, y)
<1> DEFINE f == [j \in Ids |-> Amount(s, j, y)]
           g == [j \in Ids |-> Amount(t, j, y)]
<1>1. \A j \in Ids : t.items[j] = IF j = i THEN x ELSE s.items[j] BY DEF Shaped
<1>2. \A j \in Ids : /\ Amount(s, j, y) = Worth(s.items[j], y) /\ Worth(s.items[j], y) \in Nat
                     /\ Amount(t, j, y) = Worth(t.items[j], y) /\ Worth(t.items[j], y) \in Nat
  BY AmountNat
<1>3. \A k \in 1..MaxItems : f[k] \in Nat /\ g[k] \in Nat BY <1>2 DEF Ids
<1>4. \A k \in 1..MaxItems : k # i => g[k] = f[k] BY <1>1, <1>2 DEF Ids
<1>5. MaxItems \in Nat /\ i \in 1..MaxItems BY ItemStoreAssumption DEF Ids
<1>6. f[i] = Worth(s.items[i], y) /\ g[i] = Worth(x, y) BY <1>1, <1>2
<1> HIDE DEF f, g
<1>7. SumTo(g, MaxItems) + f[i] = SumTo(f, MaxItems) + g[i] BY <1>3, <1>4, <1>5, SumChange
<1> QED BY <1>6, <1>7 DEF Total, f, g

\* One item moved or changed: the store stays sound, and gains or loses by the item.
LEMMA MovedKept ==
  ASSUME NEW s, NEW t, NEW i, NEW x, Sound(s), Effect(s, t, i, x), Fit(s, t, i, x),
         Unarmed(s, i, x)
  PROVE  /\ Sound(t) /\ Ahead(s, t) /\ Holds(s, t)
         /\ \A y : Total(t, y) + Worth(s.items[i], y) = Total(s, y) + Worth(x, y)
<1>1. Sound(t) BY MovedSound
<1>2. Shaped(s) /\ Shaped(t) /\ i \in Ids /\ IsItem(x) /\ Ahead(s, t)
      /\ t.items = [s.items EXCEPT ![i] = x]
  BY <1>1 DEF Sound, Effect
<1>3. \A j \in Ids : t.items[j] = IF j = i THEN x ELSE s.items[j] BY <1>2 DEF Shaped
<1>4. Holds(s, t) BY <1>3 DEF Holds, Unarmed, Live
<1>5. \A y : Total(t, y) + Worth(s.items[i], y) = Total(s, y) + Worth(x, y)
  BY <1>2, TotalChange
<1> QED BY <1>1, <1>2, <1>4, <1>5

-----------------------------------------------------------------------------
(* Items that stay where they are, and stacks that are topped up.          *)

\* find_empty_slot finds the first empty slot of a container that takes the template.
LEMMA SlotFree ==
  ASSUME NEW s, Shaped(s), NEW c \in Containers, NEW t
  PROVE  LET k == find_empty_slot(s, c, t)
         IN  k # 0 => /\ k \in 1..Capacity[c] /\ s.slots[c][k] = 0
                      /\ \A j \in 1..Capacity[c] : s.slots[c][j] = 0 => k <= j
                      /\ c = "arms" => t \in Weapons
                      /\ c = "own" => t \notin Weapons
<1> DEFINE free == {k \in 1..Capacity[c] : s.slots[c][k] = 0}
           k == find_empty_slot(s, c, t)
<1>1. SUFFICES ASSUME k # 0
               PROVE  /\ k \in free /\ (\A j \in free : k <= j)
                      /\ (c = "arms" => t \in Weapons) /\ (c = "own" => t \notin Weapons)
  OBVIOUS
<1>2. free # {} /\ k = Least(free) /\ (c = "arms" => t \in Weapons)
      /\ (c = "own" => t \notin Weapons)
  BY <1>1 DEF find_empty_slot
<1>3. free \in SUBSET Nat OBVIOUS
<1> HIDE DEF free, k
<1>4. \E n \in free : \A j \in free : n <= j BY <1>2, <1>3, LeastNat
<1> QED BY <1>2, <1>4 DEF Least

\* An item that is somewhere was made.
LEMMA LiveMade ==
  ASSUME NEW s, Sound(s), NEW i, Live(s, i)
  PROVE  /\ i \in Ids /\ i < s.nextItem /\ IsItem(s.items[i])
         /\ s.items[i].template \in Templates
         /\ 1 <= s.items[i].quantity /\ s.items[i].quantity <= MaxStack[s.items[i].template]
         /\ s.items[i].quantity \in Nat /\ MaxStack[s.items[i].template] \in Nat
         /\ s.nextItem \in Nat
BY ItemStoreAssumption DEF Live, Sound, EmptyItem, Nowhere, Shaped, Ids, Numbered, Measured,
  IsItem

\* An item that stays where it is, with another quantity or state, fits.
LEMMA StayedFits ==
  ASSUME NEW s, Sound(s), NEW i, Live(s, i), NEW t, Shaped(t), Beside(s, t), Ahead(s, t),
         t.slots = s.slots, NEW x, IsItem(x), t.items = [s.items EXCEPT ![i] = x],
         x.at = s.items[i].at, x.template = s.items[i].template,
         1 <= x.quantity, x.quantity <= MaxStack[x.template],
         x.template \in Weapons => x.state.count <= Magazine
  PROVE  Effect(s, t, i, x) /\ Fit(s, t, i, x)
<1>1. i \in Ids /\ i < s.nextItem /\ s.items[i].template \in Templates BY LiveMade
<1>2. SlotsAgree(s) /\ PropsAgree(s) /\ Numbered(s) /\ Measured(s) /\ Shaped(s) BY DEF Sound
<1>3. \A d \in Containers : \A n \in 1..Capacity[d] :
        /\ s.items[i].at = InSlot(d, n) => s.slots[d][n] = i /\ d \in s.open
        /\ t.slots[d][n] = s.slots[d][n]
  BY <1>1, <1>2 DEF SlotsAgree
<1>4. Effect(s, t, i, x) BY <1>1, <1>3 DEF Effect
<1>5. s.nextItem \in Nat /\ s.nextProp \in Nat BY <1>2 DEF Shaped
<1>6. /\ t.open = s.open /\ t.nextItem = s.nextItem
      /\ t.nextProp = s.nextProp /\ t.props = s.props
  BY DEF Beside
<1>7. \A k \in 1..Capacity["arms"] : x.at = InSlot("arms", k) => x.template \in Weapons
  BY <1>1, <1>2, <1>3, ItemStoreAssumption DEF Ids, Measured
<1>8. x.at.kind = "world" =>
        /\ x.at.prop \in s.props
        /\ \A j \in Ids : InWorld(s, j) /\ s.items[j].at.prop = x.at.prop => j = i
  BY <1>1, <1>2 DEF PropsAgree, InWorld
<1>9. \A j \in Ids : InWorld(s, j) => s.items[j].at.prop \in s.props
  BY <1>2 DEF PropsAgree
<1>10. \A p \in s.props : p < s.nextProp BY <1>2 DEF Numbered
<1>11. Fit(s, t, i, x)
  BY <1>1, <1>3, <1>5, <1>6, <1>7, <1>8, <1>9, <1>10 DEF Fit
<1> QED BY <1>4, <1>11

\* What is left, and where the rest went.
PourInv(s, i, q, acc) ==
  /\ Sound(acc.store) /\ Ahead(s, acc.store) /\ Holds(s, acc.store) /\ Beside(s, acc.store)
  /\ acc.store.slots = s.slots /\ acc.store.items[i] = s.items[i]
  /\ \A j \in Ids : acc.store.items[j].at = s.items[j].at
  /\ acc.left \in 0..q
  /\ s.items[i].template \in Weapons => acc.left = q
  /\ \A y : Total(acc.store, y) + (IF s.items[i].template = y THEN acc.left ELSE 0)
            = Total(s, y) + (IF s.items[i].template = y THEN q ELSE 0)

\* Pouring over one more stack.
LEMMA PourStep ==
  ASSUME NEW s, Sound(s), NEW i, Live(s, i), NEW q \in Nat, NEW c \in Containers,
         NEW k \in 1..Capacity[c], NEW acc, PourInv(s, i, q, acc)
  PROVE  PourInv(s, i, q, PouredInto(acc, i, c, k))
<1> DEFINE u == acc.store
           j == u.slots[c][k]
           held == u.items[j].quantity
           max == MaxStack[u.items[i].template]
           moved == Lesser(acc.left, max - held)
           v == SetQuantity(u, j, held + moved)
           a == [store |-> v, left |-> acc.left - moved]
<1>1. CASE acc.left = 0 \/ ~Stacks(u, i, c, k)
  BY <1>1 DEF PouredInto
<1>2. CASE ~(acc.left = 0 \/ ~Stacks(u, i, c, k))
  <2>1. PouredInto(acc, i, c, k) = a BY <1>2 DEF PouredInto
  <2>2. Sound(u) /\ Shaped(u) /\ i \in Ids /\ u.items[i] = s.items[i] /\ Shaped(s)
    BY DEF PourInv, Sound, Live
  <2>3. /\ Fungible(u.items[i].template) /\ j # 0 /\ j # i
        /\ u.items[i].template = u.items[j].template /\ held < max
    BY <1>2 DEF Stacks, Compatible
  <2>4. j \in Ids /\ u.items[j].at = InSlot(c, k)
    <3>1. u.slots[c] \in [1..Capacity[c] -> Ids \cup {0}] BY <2>2 DEF Shaped
    <3>2. u.slots[c][k] # 0 => u.items[u.slots[c][k]].at = InSlot(c, k)
      BY <2>2 DEF Sound, SlotsAgree
    <3> HIDE DEF u
    <3> QED BY <2>3, <3>1, <3>2
  <2>5. Live(u, j) BY <2>4, PlaceKinds DEF Live
  <2>6. /\ IsItem(u.items[j]) /\ u.items[j].template \in Templates
        /\ 1 <= held /\ held \in Nat /\ max \in Nat
    BY <2>2, <2>3, <2>5, LiveMade
  <2>7. max > 1 /\ u.items[j].template \notin Weapons
    <3> DEFINE y == u.items[j].template
    <3>1. max = MaxStack[y] /\ max > 1 BY <2>3 DEF Fungible
    <3>2. \A w \in Weapons : MaxStack[w] = 1 BY ItemStoreAssumption
    <3> HIDE DEF max, y
    <3>3. y \notin Weapons BY <3>1, <3>2
    <3> QED BY <3>1, <3>3 DEF y
  <2>8. acc.left \in 0..q /\ acc.left # 0 BY <1>2 DEF PourInv
  <2> DEFINE x == [u.items[j] EXCEPT !.quantity = held + moved]
  <2>9. moved \in Nat /\ moved <= acc.left /\ held + moved <= max /\ held + moved \in Nat
    <3> DEFINE room == max - held
               left == acc.left
    <3>1. left \in Nat BY <2>8
    <3>2. held \in Nat /\ max \in Nat /\ held < max BY <2>3, <2>6
    <3> HIDE DEF max, held, left
    <3>3. room \in Nat /\ held + room = max BY <3>2
    <3> HIDE DEF room
    <3>4. moved = left \/ (moved = room /\ room <= left) BY <3>1, <3>3 DEF Lesser, room, left
    <3>5. moved = left => moved <= room BY <3>1, <3>3 DEF Lesser, room, left
    <3> HIDE DEF moved
    <3>6. moved \in Nat /\ moved <= left /\ moved <= room BY <3>1, <3>3, <3>4, <3>5
    <3>7. held + moved <= max /\ held + moved \in Nat BY <3>2, <3>3, <3>6
    <3> QED BY <3>6, <3>7 DEF left
  <2> HIDE DEF max, moved, held, u, j
  <2>10. /\ Shaped(v) /\ Beside(u, v) /\ v.items = [u.items EXCEPT ![j] = x]
         /\ v.slots = u.slots /\ Ahead(u, v)
    BY <2>2, <2>4, <2>9, SetQuantityIs
  <2> DEFINE n == held + moved
  <2>11. /\ IsItem(x)
         /\ x = [template |-> u.items[j].template, quantity |-> n, used |-> u.items[j].used,
                 state |-> u.items[j].state, at |-> u.items[j].at]
    <3>1. n \in Nat /\ x = [u.items[j] EXCEPT !.quantity = n] BY <2>9
    <3> HIDE DEF n, x
    <3> QED BY <2>6, <3>1, ItemWith
  <2>12. /\ x.template = u.items[j].template /\ x.quantity = n /\ x.state = u.items[j].state
         /\ x.at = u.items[j].at
    <3> HIDE DEF x, n
    <3> QED BY <2>11
  <2>13. 1 <= n /\ n <= MaxStack[x.template]
    BY <2>3, <2>6, <2>9, <2>12 DEF max
  <2> HIDE DEF v, x, n
  <2>14. Effect(u, v, j, x) /\ Fit(u, v, j, x)
    BY <2>2, <2>5, <2>7, <2>10, <2>11, <2>12, <2>13, StayedFits
  <2>15. Unarmed(u, j, x) BY <2>7 DEF Unarmed
  <2>16. /\ Sound(v) /\ Ahead(u, v) /\ Holds(u, v)
         /\ \A y : Total(v, y) + Worth(u.items[j], y) = Total(u, y) + Worth(x, y)
    BY <2>2, <2>14, <2>15, MovedKept
  <2>17. v.items[i] = s.items[i] /\ \A m \in Ids : v.items[m].at = s.items[m].at
    BY <2>2, <2>3, <2>10, <2>12 DEF Shaped, PourInv, u
  <2>18. Ahead(s, v) /\ Holds(s, v) /\ Beside(s, v) /\ v.slots = s.slots
    BY <2>2, <2>10, <2>16, AheadTrans, HoldsTrans DEF PourInv, u, Beside
  <2>19. s.items[i].template \notin Weapons BY <2>2, <2>3, <2>7
  <2>20. acc.left - moved \in 0..q BY <2>8, <2>9
  <2>21. ASSUME NEW y
         PROVE  Total(v, y) + (IF s.items[i].template = y THEN acc.left - moved ELSE 0)
                = Total(s, y) + (IF s.items[i].template = y THEN q ELSE 0)
    <3>1. Total(v, y) + Worth(u.items[j], y) = Total(u, y) + Worth(x, y) BY <2>16
    <3>2. Total(u, y) + (IF s.items[i].template = y THEN acc.left ELSE 0)
          = Total(s, y) + (IF s.items[i].template = y THEN q ELSE 0)
      BY DEF PourInv, u
    <3>3. Total(u, y) \in Nat /\ Total(s, y) \in Nat /\ Total(v, y) \in Nat
      BY <2>2, <2>10, AmountNat
    <3>4. u.items[j].at.kind = "inventory" /\ x.at.kind = "inventory"
      BY <2>4, <2>12, PlaceKinds
    <3>5. /\ Worth(u.items[j], y) = IF s.items[i].template = y THEN held ELSE 0
          /\ Worth(x, y) = IF s.items[i].template = y THEN held + moved ELSE 0
      BY <2>2, <2>3, <2>12, <3>4 DEF Worth, held, n
    <3> QED BY <2>6, <2>8, <2>9, <3>1, <3>2, <3>3, <3>5
  <2>22. a.store = v /\ a.left = acc.left - moved OBVIOUS
  <2> HIDE DEF a
  <2>23. PourInv(s, i, q, a)
    BY <2>16, <2>17, <2>18, <2>19, <2>20, <2>21, <2>22 DEF PourInv
  <2> QED BY <2>1, <2>23
<1> QED BY <1>1, <1>2

Pours(g, s, i, c, q, n) ==
  g = [k \in 0..n |-> IF k = 0 THEN [store |-> s, left |-> q] ELSE PouredInto(g[k - 1], i, c, k)]

\* There is a function that pours, for every capacity.
LEMMA PoursExists ==
  ASSUME NEW s, NEW i, NEW c, NEW q, NEW n \in Nat
  PROVE  \E g : Pours(g, s, i, c, q, n)
<1> DEFINE e == [store |-> s, left |-> q]
           T == {m \in Nat : ~\E g : Pours(g, s, i, c, q, m)}
<1>1. SUFFICES ASSUME T # {} PROVE FALSE OBVIOUS
<1>2. PICK m \in T : \A k \in T : m <= k BY <1>1, LeastNat
<1>3. CASE m = 0
  <2> DEFINE g == [k \in 0..0 |-> e]
  <2>1. Pours(g, s, i, c, q, 0) BY DEF Pours
  <2> QED BY <1>2, <1>3, <2>1
<1>4. CASE m # 0
  <2>1. m - 1 \in Nat /\ m \in Nat BY <1>2, <1>4
  <2>2. PICK g : Pours(g, s, i, c, q, m - 1) BY <1>2, <2>1
  <2> DEFINE h == [k \in 0..m |-> IF k = m THEN PouredInto(g[m - 1], i, c, m) ELSE g[k]]
  <2>3. g = [k \in 0..(m - 1) |-> IF k = 0 THEN e ELSE PouredInto(g[k - 1], i, c, k)]
    BY <2>2 DEF Pours
  <2> HIDE DEF e
  <2>4. \A k \in 0..(m - 1) : g[k] = IF k = 0 THEN e ELSE PouredInto(g[k - 1], i, c, k)
    BY <2>3
  <2>5. \A k \in 0..m : h[k] = IF k = 0 THEN e ELSE PouredInto(h[k - 1], i, c, k)
    BY <1>4, <2>1, <2>4
  <2>6. Pours(h, s, i, c, q, m)
    <3>1. h = [k \in 0..m |-> h[k]] OBVIOUS
    <3> HIDE DEF h
    <3> QED BY <2>5, <3>1 DEF Pours, e
  <2> QED BY <1>2, <2>6
<1> QED BY <1>3, <1>4

\* What is poured over the stacks of a container is in them, the rest is left.
LEMMA PouredIs ==
  ASSUME NEW s, Sound(s), NEW i, Live(s, i), NEW q \in Nat, NEW c \in Containers
  PROVE  PourInv(s, i, q, Poured(s, i, c, q))
<1> DEFINE N == Capacity[c]
           g == CHOOSE g : Pours(g, s, i, c, q, N)
<1>1. N \in Nat BY ItemStoreAssumption
<1>2. Pours(g, s, i, c, q, N)
  BY <1>1, PoursExists
<1>3. Poured(s, i, c, q) = g[N] BY DEF Poured, Pours
<1> HIDE DEF g
<1> DEFINE T == {k \in 0..N : ~PourInv(s, i, q, g[k])}
<1>4. ASSUME T # {} PROVE FALSE
  <2>1. T \in SUBSET Nat OBVIOUS
  <2>2. PICK k \in T : \A j \in T : k <= j BY <1>4, <2>1, LeastNat
  <2>3. k \in 0..N /\ ~PourInv(s, i, q, g[k]) BY <2>2
  <2>4. \A j \in 0..N : j < k => PourInv(s, i, q, g[j]) BY <2>2
  <2> HIDE DEF T, N
  <2>5. \A j \in 0..N : g[j] = IF j = 0 THEN [store |-> s, left |-> q]
                               ELSE PouredInto(g[j - 1], i, c, j)
    BY <1>2 DEF Pours
  <2>6. CASE k = 0
    <3> DEFINE e == [store |-> s, left |-> q]
    <3>1. g[k] = e BY <2>3, <2>5, <2>6
    <3>2. e.store = s /\ e.left = q OBVIOUS
    <3> HIDE DEF e
    <3>3. Shaped(s) /\ i \in Ids BY DEF Sound, Live
    <3>4. Ahead(s, s) /\ Holds(s, s) /\ Beside(s, s)
      BY <3>3, AheadSame DEF Holds, Beside
    <3>5. PourInv(s, i, q, e) BY <3>2, <3>3, <3>4 DEF PourInv
    <3> QED BY <2>3, <3>1, <3>5
  <2>7. CASE k # 0
    BY <1>1, <2>3, <2>4, <2>5, <2>7, PourStep DEF N
  <2> QED BY <2>6, <2>7
<1>5. N \in 0..N BY <1>1
<1> QED BY <1>3, <1>4, <1>5

-----------------------------------------------------------------------------
(* Items that move.                                                        *)

\* Two slots are the same only by container and number.
LEMMA SameSlot ==
  \A c, d, k, n : InSlot(d, n) = InSlot(c, k) <=> d = c /\ n = k
BY PlaceKinds

\* An item that ends fits.
LEMMA EndedFits ==
  ASSUME NEW s, Sound(s), NEW i, Live(s, i), NEW t, Shaped(t), Beside(s, t), Ahead(s, t),
         t.items = [s.items EXCEPT ![i] = Ended(s.items[i])],
         \A d \in Containers : \A n \in 1..Capacity[d] :
           t.slots[d][n] = IF s.items[i].at = InSlot(d, n) THEN 0 ELSE s.slots[d][n]
  PROVE  LET x == Ended(s.items[i]) IN Effect(s, t, i, x) /\ Fit(s, t, i, x)
<1> DEFINE x == Ended(s.items[i])
<1>1. i \in Ids /\ i < s.nextItem /\ IsItem(s.items[i]) BY LiveMade
<1>2. /\ IsItem(x) /\ x.at = Terminal /\ x.template = s.items[i].template
      /\ x.state = s.items[i].state
  BY <1>1 DEF Ended, IsItem, IsPlace
<1> HIDE DEF x
<1>3. \A d, n : x.at # InSlot(d, n) BY <1>2, PlaceKinds
<1>4. x.at.kind = "terminal" BY <1>2, PlaceKinds
<1>5. t.items = [s.items EXCEPT ![i] = x] BY DEF x
<1>6. Effect(s, t, i, x) BY <1>1, <1>2, <1>3, <1>5 DEF Effect
<1>7. s.nextItem \in Nat /\ s.nextProp \in Nat BY DEF Sound, Shaped
<1>8. PropsAgree(s) /\ Numbered(s) /\ Measured(s) BY DEF Sound
<1>9. x.template \in Weapons => x.state.count <= Magazine BY <1>1, <1>2, <1>8 DEF Measured
<1>10. \A p \in s.props : p < s.nextProp BY <1>8 DEF Numbered
<1>11. \A j \in Ids : InWorld(s, j) => s.items[j].at.prop \in s.props BY <1>8 DEF PropsAgree
<1>12. Fit(s, t, i, x) BY <1>1, <1>3, <1>4, <1>7, <1>9, <1>10, <1>11 DEF Fit, Beside
<1> QED BY <1>6, <1>12 DEF x

\* An item that comes into an empty slot fits.
LEMMA SlottedFits ==
  ASSUME NEW s, Sound(s), NEW i \in Ids, NEW x, IsItem(x), NEW t, Shaped(t), Ahead(s, t),
         NEW c \in Containers, NEW k \in 1..Capacity[c], x.at = InSlot(c, k),
         t.items = [s.items EXCEPT ![i] = x],
         \A d \in Containers : \A n \in 1..Capacity[d] :
           t.slots[d][n] = IF d = c /\ n = k THEN i
                           ELSE IF s.items[i].at = InSlot(d, n) THEN 0 ELSE s.slots[d][n],
         c \in s.open, s.slots[c][k] = 0, c = "arms" => x.template \in Weapons,
         x.template \in Templates, 1 <= x.quantity, x.quantity <= MaxStack[x.template],
         x.template \in Weapons => x.state.count <= Magazine,
         t.open = s.open, t.nextItem >= s.nextItem, i < t.nextItem,
         t.nextProp = s.nextProp, t.props = s.props
  PROVE  Effect(s, t, i, x) /\ Fit(s, t, i, x)
<1>1. \A d, n : x.at = InSlot(d, n) <=> d = c /\ n = k BY SameSlot
<1>2. Effect(s, t, i, x) BY <1>1 DEF Effect
<1>3. x.at.kind = "inventory" BY PlaceKinds
<1>4. PropsAgree(s) /\ Numbered(s) BY DEF Sound
<1>5. s.nextProp \in Nat BY DEF Sound, Shaped
<1>6. \A p \in s.props : p < s.nextProp BY <1>4 DEF Numbered
<1>7. \A j \in Ids : InWorld(s, j) => s.items[j].at.prop \in s.props BY <1>4 DEF PropsAgree
<1>8. \A d \in Containers : \A n \in 1..Capacity[d] : x.at = InSlot(d, n) =>
        /\ d \in s.open /\ s.slots[d][n] \in {0, i}
        /\ d = "arms" => x.template \in Weapons
  BY <1>1
<1>9. Fit(s, t, i, x) BY <1>3, <1>5, <1>6, <1>7, <1>8 DEF Fit
<1> QED BY <1>2, <1>9

\* An item that comes onto the next prop fits.
LEMMA WorldFits ==
  ASSUME NEW s, Sound(s), NEW i \in Ids, NEW x, IsItem(x), NEW t, Shaped(t), Ahead(s, t),
         NEW mode \in Modes, x.at = OnProp(s.nextProp, mode),
         t.items = [s.items EXCEPT ![i] = x],
         \A d \in Containers : \A n \in 1..Capacity[d] :
           t.slots[d][n] = IF s.items[i].at = InSlot(d, n) THEN 0 ELSE s.slots[d][n],
         x.template \in Templates, 1 <= x.quantity, x.quantity <= MaxStack[x.template],
         x.template \in Weapons => x.state.count <= Magazine,
         t.open = s.open, t.nextItem >= s.nextItem, i < t.nextItem,
         t.nextProp = s.nextProp + 1, t.props = s.props \cup {s.nextProp}
  PROVE  Effect(s, t, i, x) /\ Fit(s, t, i, x)
BY PlaceKinds DEF Effect, Sound, Shaped, Numbered, PropsAgree, Fit

-----------------------------------------------------------------------------
(* The operations.                                                         *)

\* t is s after something that leaves every weapon and every quantity as it was.
Safe(s, t) ==
  /\ Sound(t) /\ Ahead(s, t) /\ Holds(s, t) /\ t.open = s.open
  /\ \A y : Total(t, y) = Total(s, y)

\* What is safe twice over is safe.
LEMMA SafeTrans ==
  ASSUME NEW s, NEW t, NEW u, Sound(s), Safe(s, t), Safe(t, u)
  PROVE  Safe(s, u)
BY AheadTrans, HoldsTrans DEF Sound, Safe

\* Nothing done is safe.
LEMMA SafeSame ==
  ASSUME NEW s, Sound(s)
  PROVE  Safe(s, s)
BY AheadSame DEF Sound, Safe, Holds

\* An item moved, with what it is worth.
LEMMA MovedSafe ==
  ASSUME NEW s, NEW t, NEW i, NEW x, Sound(s), Effect(s, t, i, x), Fit(s, t, i, x),
         Unarmed(s, i, x), \A y : Worth(x, y) = Worth(s.items[i], y)
  PROVE  Safe(s, t)
BY MovedKept, AmountNat DEF Sound, Effect, Safe, Fit

\* set_world_mode is safe.
LEMMA SetModeSafe ==
  ASSUME NEW s, Sound(s), NEW i, InWorld(s, i), NEW mode \in Modes
  PROVE  LET t == set_world_mode(s, i, mode) IN Safe(s, t) /\ Beside(s, t)
<1> DEFINE t == set_world_mode(s, i, mode)
           p == s.items[i].at.prop
           x == [s.items[i] EXCEPT !.at = OnProp(p, mode)]
<1>1. i \in Ids /\ Shaped(s) BY DEF InWorld, Sound
<1>2. /\ Shaped(t) /\ Beside(s, t) /\ t.items = [s.items EXCEPT ![i] = x]
      /\ IsItem(x) /\ t.slots = s.slots /\ t.revision = s.revision
  BY <1>1, SetModeIs
<1>3. Ahead(s, t) BY <1>1, <1>2, AheadSame
<1>4. IsItem(s.items[i]) BY <1>1 DEF Shaped
<1>5. p \in Nat /\ s.items[i].at.kind = "world" /\ IsPlace(OnProp(p, mode))
  BY <1>1, WhereItIs, PlaceKinds DEF InWorld, IsPlace
<1>6. x = [template |-> s.items[i].template, quantity |-> s.items[i].quantity,
           used |-> s.items[i].used, state |-> s.items[i].state, at |-> OnProp(p, mode)]
  BY <1>4, <1>5, ItemWith
<1> HIDE DEF x, t
<1>7. /\ x.template = s.items[i].template /\ x.quantity = s.items[i].quantity
      /\ x.state = s.items[i].state /\ x.at = OnProp(p, mode)
  BY <1>6
<1>8. x.at.kind = "world" /\ x.at.prop = p BY <1>7, PlaceKinds
<1>9. Live(s, i) BY <1>1, <1>5 DEF Live
<1>10. /\ SlotsAgree(s) /\ PropsAgree(s) /\ Numbered(s) /\ Measured(s) BY DEF Sound
<1>11. \A d, n : x.at # InSlot(d, n) /\ s.items[i].at # InSlot(d, n)
  BY <1>5, <1>8, PlaceKinds
<1>12. Effect(s, t, i, x) BY <1>1, <1>2, <1>3, <1>11 DEF Effect
<1>13. Fit(s, t, i, x)
  <2>1. /\ i < s.nextItem /\ s.items[i].template \in Templates
        /\ 1 <= s.items[i].quantity /\ s.items[i].quantity <= MaxStack[s.items[i].template]
    BY <1>9, LiveMade
  <2>2. s.nextItem \in Nat /\ s.nextProp \in Nat BY <1>1 DEF Shaped
  <2>3. x.template \in Weapons => x.state.count <= Magazine BY <1>1, <1>7, <1>10 DEF Measured
  <2>4. /\ p \in s.props
        /\ \A j \in Ids : InWorld(s, j) /\ s.items[j].at.prop = p => j = i
    BY <1>1, <1>10 DEF PropsAgree
  <2>5. \A j \in Ids : InWorld(s, j) => s.items[j].at.prop \in s.props
    BY <1>10 DEF PropsAgree
  <2>6. \A r \in s.props : r < s.nextProp BY <1>10 DEF Numbered
  <2>7. Beside(s, t) BY <1>2
  <2> HIDE DEF p
  <2> QED BY <1>7, <1>8, <1>11, <2>1, <2>2, <2>3, <2>4, <2>5, <2>6, <2>7 DEF Fit, Beside
<1>14. Unarmed(s, i, x) BY <1>7, <1>8 DEF Unarmed
<1>15. \A y : Worth(x, y) = Worth(s.items[i], y) BY <1>5, <1>7, <1>8 DEF Worth
<1> QED BY <1>2, <1>12, <1>13, <1>14, <1>15, MovedSafe DEF t

\* Onto a prop made for it.
LEMMA OntoPropSafe ==
  ASSUME NEW s, Sound(s), NEW i, Live(s, i), NEW mode \in Modes
  PROVE  LET t == move_to_world(spawn_prop(s), i, s.nextProp, mode)
         IN  /\ Safe(s, t) /\ t.nextItem = s.nextItem /\ t.nextProp = s.nextProp + 1
             /\ t.items = [s.items EXCEPT ![i] = Moved(s.items[i], OnProp(s.nextProp, mode))]
<1> DEFINE p == s.nextProp
           u == spawn_prop(s)
           t == move_to_world(u, i, p, mode)
           x == Moved(s.items[i], OnProp(p, mode))
<1>1. /\ i \in Ids /\ Shaped(s) /\ i < s.nextItem /\ IsItem(s.items[i])
      /\ s.items[i].template \in Templates
      /\ 1 <= s.items[i].quantity /\ s.items[i].quantity <= MaxStack[s.items[i].template]
  BY LiveMade DEF Sound
<1>2. p \in Nat /\ s.nextItem \in Nat BY <1>1 DEF Shaped
<1>3. /\ Shaped(u) /\ u.items = s.items /\ u.slots = s.slots /\ u.open = s.open
      /\ u.revision = s.revision /\ u.nextItem = s.nextItem
      /\ u.nextProp = p + 1 /\ u.props = s.props \cup {p}
  BY <1>1, SpawnIs
<1> HIDE DEF u, p
<1>4. /\ Shaped(t) /\ Beside(u, t)
      /\ t.items = [u.items EXCEPT ![i] = Moved(u.items[i], OnProp(p, mode))]
      /\ \A d \in Containers : \A n \in 1..Capacity[d] :
           t.slots[d][n] = IF u.items[i].at = InSlot(d, n) THEN 0 ELSE u.slots[d][n]
      /\ Ahead(u, t)
  BY <1>1, <1>2, <1>3, ToWorldIs
<1>5. Ahead(s, t) BY <1>3, <1>4 DEF Ahead
<1>6. IsPlace(OnProp(p, mode)) BY <1>2 DEF IsPlace
<1>7. /\ IsItem(x) /\ x.template = s.items[i].template /\ x.quantity = s.items[i].quantity
      /\ x.state = s.items[i].state /\ x.at = OnProp(p, mode)
  BY <1>1, <1>6, MovedIs
<1>8. t.items = [s.items EXCEPT ![i] = x] BY <1>3, <1>4
<1> HIDE DEF x, t
<1>10. x.at.kind = "world" BY <1>7, PlaceKinds
<1>11. x.template \in Weapons => x.state.count <= Magazine
  BY <1>1, <1>7 DEF Sound, Measured
<1>12. /\ t.open = s.open /\ t.nextItem = s.nextItem /\ t.nextProp = p + 1
       /\ t.props = s.props \cup {p}
  BY <1>3, <1>4 DEF Beside
<1>13. \A d \in Containers : \A n \in 1..Capacity[d] :
         t.slots[d][n] = IF s.items[i].at = InSlot(d, n) THEN 0 ELSE s.slots[d][n]
  BY <1>3, <1>4
<1>14. Effect(s, t, i, x) /\ Fit(s, t, i, x)
  BY <1>1, <1>2, <1>4, <1>5, <1>7, <1>8, <1>11, <1>12, <1>13, WorldFits DEF p
<1>15. Unarmed(s, i, x) BY <1>7, <1>10 DEF Unarmed
<1>16. s.items[i].at.kind \in {"inventory", "world"} BY DEF Live
<1>17. \A y : Worth(x, y) = Worth(s.items[i], y) BY <1>7, <1>10, <1>16 DEF Worth
<1>18. Safe(s, t) BY <1>14, <1>15, <1>17, MovedSafe
<1> QED BY <1>8, <1>12, <1>18 DEF t, x, u, p

\* An item with another quantity.
Lessened(x, q) == [template |-> x.template, quantity |-> q, used |-> x.used,
                   state |-> x.state, at |-> x.at]

\* An item with another quantity is as it was otherwise.
LEMMA LessenedIs ==
  ASSUME NEW x, IsItem(x), NEW q \in Nat
  PROVE  /\ [x EXCEPT !.quantity = q] = Lessened(x, q) /\ IsItem(Lessened(x, q))
         /\ Lessened(x, q).template = x.template /\ Lessened(x, q).quantity = q
         /\ Lessened(x, q).used = x.used /\ Lessened(x, q).state = x.state
         /\ Lessened(x, q).at = x.at
BY ItemWith DEF Lessened

\* The quantity of one item set, nothing published.
LEMMA QuantityIs ==
  ASSUME NEW s, Shaped(s), NEW i \in Ids, NEW q \in Nat
  PROVE  LET t == [s EXCEPT !.items[i].quantity = q]
         IN  /\ Shaped(t) /\ Beside(s, t) /\ t.items = [s.items EXCEPT ![i] = Lessened(s.items[i], q)]
             /\ t.slots = s.slots /\ t.revision = s.revision
<1> DEFINE x == [s.items[i] EXCEPT !.quantity = q]
<1>1. IsItem(s.items[i]) BY DEF Shaped
<1>2. IsItem(x) /\ x = Lessened(s.items[i], q) BY <1>1, LessenedIs
<1>3. [s EXCEPT !.items[i].quantity = q] = [s EXCEPT !.items[i] = x] OBVIOUS
<1> HIDE DEF x
<1>4. LET t == [s EXCEPT !.items[i] = x]
      IN  /\ Shaped(t) /\ Beside(s, t) /\ t.items = [s.items EXCEPT ![i] = x]
          /\ t.slots = s.slots /\ t.revision = s.revision
  BY <1>2, ItemShaped
<1> QED BY <1>2, <1>3, <1>4

\* Put moves the item into the slot.
LEMMA PutMoves ==
  ASSUME NEW s, Shaped(s), NEW i \in Ids, NEW c \in Containers, NEW k \in 1..Capacity[c]
  PROVE  LET t == Put(s, i, c, k)
         IN  /\ Shaped(t) /\ Beside(s, t)
             /\ t.items = [s.items EXCEPT ![i] = Moved(s.items[i], InSlot(c, k))]
             /\ \A d \in Containers : \A n \in 1..Capacity[d] :
                  t.slots[d][n] = IF d = c /\ n = k THEN i ELSE s.slots[d][n]
             /\ Ahead(s, t)
<1>1. IsItem(s.items[i]) BY DEF Shaped
<1>2. IsPlace(InSlot(c, k)) BY DEF IsPlace
<1>3. [s.items[i] EXCEPT !.at = InSlot(c, k)] = Moved(s.items[i], InSlot(c, k))
  BY <1>1, <1>2, MovedIs
<1> QED BY <1>3, PutIs

\* What came of an item that was poured out, and gave up its place.
LEMMA PouredOut ==
  ASSUME NEW s, Sound(s), NEW i, Live(s, i), NEW p, PourInv(s, i, s.items[i].quantity, p),
         p.left = 0, NEW t, Shaped(t), Beside(p.store, t), Ahead(p.store, t),
         t.items = [p.store.items EXCEPT ![i] = Ended(s.items[i])],
         \A d \in Containers : \A n \in 1..Capacity[d] :
           t.slots[d][n] = IF s.items[i].at = InSlot(d, n) THEN 0 ELSE p.store.slots[d][n]
  PROVE  Safe(s, t) /\ Beside(s, t)
<1> DEFINE u == p.store
           x == Ended(s.items[i])
           q == s.items[i].quantity
<1>1. /\ Sound(u) /\ Ahead(s, u) /\ Holds(s, u) /\ Beside(s, u) /\ u.items[i] = s.items[i]
      /\ s.items[i].template \in Weapons => p.left = q
      /\ \A y : Total(u, y) + (IF s.items[i].template = y THEN p.left ELSE 0)
                = Total(s, y) + (IF s.items[i].template = y THEN q ELSE 0)
  BY DEF PourInv
<1>2. /\ i \in Ids /\ IsItem(s.items[i]) /\ 1 <= q /\ q \in Nat /\ Shaped(s)
      /\ s.items[i].at.kind \in {"inventory", "world"}
  BY LiveMade DEF Live, Sound
<1>3. Live(u, i) BY <1>1 DEF Live
<1> HIDE DEF u, x, q
<1>4. Effect(u, t, i, x) /\ Fit(u, t, i, x) BY <1>1, <1>3, EndedFits DEF u, x
<1>5. s.items[i].template \notin Weapons BY <1>1, <1>2
<1>6. Unarmed(u, i, x) BY <1>1, <1>5 DEF Unarmed
<1>7. /\ Sound(t) /\ Ahead(u, t) /\ Holds(u, t)
      /\ \A y : Total(t, y) + Worth(u.items[i], y) = Total(u, y) + Worth(x, y)
  BY <1>1, <1>4, <1>6, MovedKept
<1>8. Shaped(u) /\ Shaped(t) BY <1>1, <1>7 DEF Sound
<1>9. Ahead(s, t) BY <1>1, <1>2, <1>7, <1>8, AheadTrans
<1>10. Holds(s, t) BY <1>1, <1>7, HoldsTrans
<1>11. ASSUME NEW y PROVE Total(t, y) = Total(s, y)
  BY <1>1, <1>2, <1>7, <1>8, AmountNat, PlaceKinds DEF x, Ended, Worth, q
<1>12. Beside(s, t) BY <1>1 DEF Beside, u
<1> QED BY <1>7, <1>9, <1>10, <1>11, <1>12 DEF Safe, Beside

\* What came of an item that was poured out as far as there was room, and took
\* the free slot k of c with the rest.
LEMMA PouredIn ==
  ASSUME NEW s, Sound(s), NEW i, Live(s, i), NEW p, PourInv(s, i, s.items[i].quantity, p),
         p.left # 0, NEW c \in Containers, c \in s.open, NEW k \in 1..Capacity[c],
         s.slots[c][k] = 0, c = "arms" => s.items[i].template \in Weapons,
         NEW t, Shaped(t), Beside(p.store, t), Ahead(p.store, t),
         t.items = [p.store.items EXCEPT
                      ![i] = Moved(Lessened(s.items[i], p.left), InSlot(c, k))],
         \A d \in Containers : \A n \in 1..Capacity[d] :
           t.slots[d][n] = IF d = c /\ n = k THEN i
                           ELSE IF s.items[i].at = InSlot(d, n) THEN 0
                           ELSE p.store.slots[d][n]
  PROVE  Safe(s, t) /\ Beside(s, t)
<1> DEFINE u == p.store
           q == s.items[i].quantity
           z == Lessened(s.items[i], p.left)
           x == Moved(z, InSlot(c, k))
<1>1. /\ Sound(u) /\ Ahead(s, u) /\ Holds(s, u) /\ Beside(s, u) /\ u.items[i] = s.items[i]
      /\ u.slots = s.slots /\ p.left \in 0..q
      /\ \A y : Total(u, y) + (IF s.items[i].template = y THEN p.left ELSE 0)
                = Total(s, y) + (IF s.items[i].template = y THEN q ELSE 0)
  BY DEF PourInv
<1>2. /\ i \in Ids /\ i < s.nextItem /\ IsItem(s.items[i]) /\ 1 <= q /\ q \in Nat /\ Shaped(s)
      /\ s.items[i].at.kind \in {"inventory", "world"}
      /\ s.items[i].template \in Templates /\ q <= MaxStack[s.items[i].template]
      /\ MaxStack[s.items[i].template] \in Nat /\ s.nextItem \in Nat
  BY LiveMade DEF Live, Sound
<1>3. s.items[i].template \in Weapons => s.items[i].state.count <= Magazine
  BY <1>2 DEF Sound, Measured
<1>4. p.left \in Nat /\ 1 <= p.left /\ p.left <= MaxStack[s.items[i].template]
  BY <1>1, <1>2
<1>5. IsPlace(InSlot(c, k)) BY DEF IsPlace
<1>6. /\ IsItem(z) /\ z.template = s.items[i].template /\ z.quantity = p.left
      /\ z.state = s.items[i].state
  BY <1>2, <1>4, LessenedIs
<1>7. /\ IsItem(x) /\ x.template = s.items[i].template /\ x.quantity = p.left
      /\ x.state = s.items[i].state /\ x.at = InSlot(c, k)
  <2> HIDE DEF z
  <2> QED BY <1>5, <1>6, MovedIs
<1>8. t.items = [u.items EXCEPT ![i] = x] OBVIOUS
<1>9. \A d \in Containers : \A n \in 1..Capacity[d] :
           t.slots[d][n] = IF d = c /\ n = k THEN i
                           ELSE IF u.items[i].at = InSlot(d, n) THEN 0
                           ELSE u.slots[d][n]
  BY <1>1
<1>10. /\ t.open = u.open /\ t.nextItem = u.nextItem /\ t.nextProp = u.nextProp
       /\ t.props = u.props /\ u.open = s.open /\ u.nextItem = s.nextItem /\ Ahead(u, t)
  BY <1>1 DEF Beside
<1> HIDE DEF u, x, q, z
<1>11. Effect(u, t, i, x) /\ Fit(u, t, i, x)
  BY <1>1, <1>2, <1>3, <1>4, <1>7, <1>8, <1>9, <1>10, SlottedFits
<1>12. x.at.kind = "inventory" BY <1>7, PlaceKinds
<1>13. Unarmed(u, i, x) BY <1>1, <1>7, <1>12 DEF Unarmed
<1>14. /\ Sound(t) /\ Ahead(u, t) /\ Holds(u, t)
       /\ \A y : Total(t, y) + Worth(u.items[i], y) = Total(u, y) + Worth(x, y)
  BY <1>1, <1>11, <1>13, MovedKept
<1>15. Shaped(u) /\ Shaped(t) BY <1>1, <1>14 DEF Sound
<1>16. Ahead(s, t) BY <1>1, <1>2, <1>14, <1>15, AheadTrans
<1>17. Holds(s, t) BY <1>1, <1>14, HoldsTrans
<1>18. ASSUME NEW y PROVE Total(t, y) = Total(s, y)
  BY <1>1, <1>2, <1>4, <1>7, <1>12, <1>14, <1>15, AmountNat DEF Worth, q
<1>19. Beside(s, t) BY <1>1 DEF Beside, u
<1> QED BY <1>14, <1>16, <1>17, <1>18, <1>19 DEF Safe, Beside

\* transfer_world_to_inventory keeps every quantity and every weapon.
LEMMA TransferWorldSafe ==
  ASSUME NEW s, Sound(s), NEW i, InWorld(s, i), NEW c \in Containers, c \in s.open,
         NEW t \in transfer_world_to_inventory(s, i, c)
  PROVE  /\ Safe(s, t) /\ Beside(s, t)
         /\ t.items[i].at.kind # "world"
         /\ \A j \in Ids : j # i => t.items[j].at = s.items[j].at
<1> DEFINE q == s.items[i].quantity
           p == Poured(s, i, c, q)
           u == p.store
           less == [u EXCEPT !.items[i].quantity = p.left]
           k == find_empty_slot(s, c, s.items[i].template)
           y == Lessened(s.items[i], p.left)
<1>1. Live(s, i) /\ i \in Ids /\ Shaped(s) /\ s.items[i].at.kind = "world"
  BY DEF Live, InWorld, Sound
<1>2. q \in Nat /\ IsItem(s.items[i]) BY <1>1, LiveMade
<1>3. PourInv(s, i, q, p) BY <1>1, <1>2, PouredIs
<1>4. \/ p.left = 0 /\ t = terminate(less, i)
      \/ p.left # 0 /\ k # 0 /\ t = Put(less, i, c, k)
  BY DEF transfer_world_to_inventory
<1> HIDE DEF p
<1>5. /\ Sound(u) /\ Shaped(u) /\ u.items[i] = s.items[i] /\ u.slots = s.slots
      /\ p.left \in Nat /\ \A j \in Ids : u.items[j].at = s.items[j].at
  BY <1>2, <1>3 DEF PourInv, Sound
<1> HIDE DEF q, u
<1>6. /\ Shaped(less) /\ Beside(u, less) /\ less.items = [u.items EXCEPT ![i] = y]
      /\ less.slots = u.slots /\ less.revision = u.revision
  BY <1>1, <1>5, QuantityIs
<1>7. IsItem(y) /\ y.at = s.items[i].at /\ y.used = s.items[i].used
      /\ y.template = s.items[i].template /\ y.state = s.items[i].state
  BY <1>2, <1>5, LessenedIs
<1>8. Ahead(u, less) BY <1>5, <1>6, AheadSame
<1> HIDE DEF less, y
<1>9. less.items[i] = y /\ \A j \in Ids : j # i => less.items[j] = u.items[j]
  BY <1>1, <1>5, <1>6 DEF Shaped
<1>10. CASE p.left = 0 /\ t = terminate(less, i)
  <2>1. Live(less, i) BY <1>1, <1>7, <1>9 DEF Live
  <2>2. /\ Shaped(t) /\ Beside(less, t)
        /\ t.items = [less.items EXCEPT ![i] = Ended(y)]
        /\ \A d \in Containers : \A n \in 1..Capacity[d] :
             t.slots[d][n] = IF y.at = InSlot(d, n) THEN 0 ELSE less.slots[d][n]
        /\ Ahead(less, t)
    <3>1. LET v == terminate(less, i)
          IN  /\ Shaped(v) /\ Beside(less, v)
              /\ v.items = [less.items EXCEPT ![i] = Ended(less.items[i])]
              /\ \A d \in Containers : \A n \in 1..Capacity[d] :
                   v.slots[d][n] = IF less.items[i].at = InSlot(d, n) THEN 0 ELSE less.slots[d][n]
              /\ Ahead(less, v)
      <4>1. Shaped(less) /\ i \in Ids BY <1>1, <1>6
      <4> QED BY <2>1, <4>1, TerminateIs
    <3> QED BY <1>9, <1>10, <3>1
  <2>3. Ended(y) = Ended(s.items[i]) BY <1>7 DEF Ended
  <2>4. t.items = [u.items EXCEPT ![i] = Ended(s.items[i])] BY <1>6, <2>2, <2>3
  <2>5. Beside(u, t) BY <1>6, <2>2 DEF Beside
  <2>6. Ahead(u, t) BY <1>5, <1>6, <1>8, <2>2, AheadTrans
  <2>7. \A d \in Containers : \A n \in 1..Capacity[d] :
             t.slots[d][n] = IF s.items[i].at = InSlot(d, n) THEN 0 ELSE u.slots[d][n]
    BY <1>6, <1>7, <2>2
  <2>8. Safe(s, t) /\ Beside(s, t)
    BY <1>1, <1>3, <1>10, <2>2, <2>4, <2>5, <2>6, <2>7, PouredOut DEF q, u
  <2>9. /\ t.items[i] = Ended(s.items[i])
        /\ \A j \in Ids : j # i => t.items[j] = u.items[j]
    BY <1>1, <1>5, <2>4 DEF Shaped
  <2>10. t.items[i].at.kind # "world" BY <2>9, PlaceKinds DEF Ended
  <2> QED BY <1>5, <2>8, <2>9, <2>10
<1>11. CASE p.left # 0 /\ k # 0 /\ t = Put(less, i, c, k)
  <2>1. /\ k \in 1..Capacity[c] /\ s.slots[c][k] = 0
        /\ c = "arms" => s.items[i].template \in Weapons
    BY <1>1, <1>11, SlotFree
  <2> HIDE DEF k
  <2>2. /\ Shaped(t) /\ Beside(less, t)
        /\ t.items = [less.items EXCEPT ![i] = Moved(y, InSlot(c, k))]
        /\ \A d \in Containers : \A n \in 1..Capacity[d] :
             t.slots[d][n] = IF d = c /\ n = k THEN i ELSE less.slots[d][n]
        /\ Ahead(less, t)
    BY <1>1, <1>6, <1>9, <1>11, <2>1, PutMoves
  <2>3. t.items = [u.items EXCEPT ![i] = Moved(y, InSlot(c, k))] BY <1>6, <2>2
  <2>4. Beside(u, t) BY <1>6, <2>2 DEF Beside
  <2>5. Ahead(u, t) BY <1>5, <1>6, <1>8, <2>2, AheadTrans
  <2>6. \A d, n : s.items[i].at # InSlot(d, n) BY <1>1, PlaceKinds
  <2>7. \A d \in Containers : \A n \in 1..Capacity[d] :
             t.slots[d][n] = IF d = c /\ n = k THEN i
                             ELSE IF s.items[i].at = InSlot(d, n) THEN 0 ELSE u.slots[d][n]
    BY <1>6, <2>2, <2>6
  <2>8. Safe(s, t) /\ Beside(s, t)
    BY <1>1, <1>3, <1>11, <2>1, <2>2, <2>3, <2>4, <2>5, <2>7, PouredIn DEF q, u, y
  <2>9. IsPlace(InSlot(c, k)) BY <2>1 DEF IsPlace
  <2>10. /\ t.items[i] = Moved(y, InSlot(c, k))
         /\ \A j \in Ids : j # i => t.items[j] = u.items[j]
    BY <1>1, <1>5, <2>3 DEF Shaped
  <2>11. t.items[i].at.kind # "world" BY <1>7, <2>9, <2>10, MovedIs, PlaceKinds
  <2> QED BY <1>5, <2>8, <2>10, <2>11
<1> QED BY <1>4, <1>10, <1>11

\* A number not given yet is nobody's.
LEMMA NextIsFree ==
  ASSUME NEW s, Sound(s), s.nextItem \in Ids
  PROVE  /\ s.items[s.nextItem] = EmptyItem
         /\ \A x : Unarmed(s, s.nextItem, x)
         /\ \A y : Worth(s.items[s.nextItem], y) = 0
         /\ \A d, n : s.items[s.nextItem].at # InSlot(d, n)
BY ItemStoreAssumption, GameplayRequestsAssumption, PlaceKinds DEF Sound, Shaped, Numbered,
  EmptyItem, Nowhere, Unarmed, Worth

\* A new item in a free slot.
LEMMA MadeSlotted ==
  ASSUME NEW s, Sound(s), s.nextItem \in Ids, NEW tm \in Templates, NEW q \in Nat, 1 <= q,
         q <= MaxStack[tm], NEW used \in Nat, NEW state \in States,
         tm \in Weapons => state.count <= Magazine,
         NEW c \in Containers, c \in s.open, NEW k \in 1..Capacity[c], s.slots[c][k] = 0,
         c = "arms" => tm \in Weapons
  PROVE  LET t == Put(Made(s, tm, q, used, state), s.nextItem, c, k)
         IN  /\ Sound(t) /\ Ahead(s, t) /\ Holds(s, t) /\ t.open = s.open
             /\ t.nextItem = s.nextItem + 1 /\ t.nextProp = s.nextProp
             /\ \A d \in Containers : \A n \in 1..Capacity[d] :
                  t.slots[d][n] = IF d = c /\ n = k THEN s.nextItem ELSE s.slots[d][n]
             /\ \A y : Total(t, y) = Total(s, y) + (IF tm = y THEN q ELSE 0)
<1> DEFINE i == s.nextItem
           u == Made(s, tm, q, used, state)
           z == [template |-> tm, quantity |-> q, used |-> used, state |-> state,
                 at |-> Nowhere]
           x == Moved(z, InSlot(c, k))
           t == Put(u, i, c, k)
<1>1. Shaped(s) /\ i \in Ids /\ i \in Nat BY DEF Sound, Ids
<1>2. /\ Shaped(u) /\ IsItem(z) /\ u.items = [s.items EXCEPT ![i] = z]
      /\ u.slots = s.slots /\ u.open = s.open
      /\ u.revision = s.revision /\ u.nextItem = i + 1
      /\ u.nextProp = s.nextProp /\ u.props = s.props
  BY <1>1, MadeIs
<1>3. IsPlace(InSlot(c, k)) BY DEF IsPlace
<1>4. z.template = tm /\ z.quantity = q /\ z.state = state OBVIOUS
<1> HIDE DEF u, z
<1>5. /\ IsItem(x) /\ x.template = tm /\ x.quantity = q
      /\ x.state = state /\ x.at = InSlot(c, k)
  BY <1>2, <1>3, <1>4, MovedIs
<1>6. u.items[i] = z BY <1>1, <1>2 DEF Shaped
<1>7. /\ Shaped(t) /\ Beside(u, t)
      /\ t.items = [u.items EXCEPT ![i] = Moved(u.items[i], InSlot(c, k))]
      /\ \A d \in Containers : \A n \in 1..Capacity[d] :
           t.slots[d][n] = IF d = c /\ n = k THEN i ELSE u.slots[d][n]
      /\ Ahead(u, t)
  <2> HIDE DEF i
  <2> QED BY <1>1, <1>2, PutMoves
<1> HIDE DEF x, t, i
<1>8. t.items = [s.items EXCEPT ![i] = x] BY <1>1, <1>2, <1>6, <1>7 DEF Shaped, x
<1>9. /\ t.open = s.open /\ t.nextItem = i + 1 /\ t.nextProp = s.nextProp
      /\ t.props = s.props
  BY <1>2, <1>7 DEF Beside
<1>10. Ahead(s, t) BY <1>2, <1>7 DEF Ahead
<1>11. /\ s.items[i] = EmptyItem /\ Unarmed(s, i, x)
       /\ \A y : Worth(s.items[i], y) = 0
       /\ \A d, n : s.items[i].at # InSlot(d, n)
  BY NextIsFree DEF i
<1>12. \A d \in Containers : \A n \in 1..Capacity[d] :
         t.slots[d][n] = IF d = c /\ n = k THEN i
                         ELSE IF s.items[i].at = InSlot(d, n) THEN 0 ELSE s.slots[d][n]
  BY <1>2, <1>7, <1>11
<1>13. t.nextItem >= s.nextItem /\ i < t.nextItem BY <1>1, <1>9 DEF i
<1>14. Effect(s, t, i, x) /\ Fit(s, t, i, x)
  BY <1>1, <1>5, <1>7, <1>8, <1>9, <1>10, <1>12, <1>13, SlottedFits
<1>15. /\ Sound(t) /\ Ahead(s, t) /\ Holds(s, t)
       /\ \A y : Total(t, y) + Worth(s.items[i], y) = Total(s, y) + Worth(x, y)
  BY <1>11, <1>14, MovedKept
<1>16. x.at.kind = "inventory" BY <1>5, PlaceKinds
<1>17. ASSUME NEW y PROVE Total(t, y) = Total(s, y) + (IF tm = y THEN q ELSE 0)
  BY <1>1, <1>5, <1>7, <1>11, <1>15, <1>16, AmountNat DEF Worth
<1>18. \A d \in Containers : \A n \in 1..Capacity[d] :
         t.slots[d][n] = IF d = c /\ n = k THEN i ELSE s.slots[d][n]
  BY <1>2, <1>7
<1> QED BY <1>9, <1>15, <1>17, <1>18 DEF t, u, i

\* The source that stays, less what was taken.
LEMMA SourceLess ==
  ASSUME NEW s, Sound(s), NEW i, Live(s, i), NEW q \in Nat, q < s.items[i].quantity,
         NEW p, PourInv(s, i, q, p)
  PROVE  LET t == SetQuantity(p.store, i, s.items[i].quantity - q)
         IN  /\ Sound(t) /\ Ahead(s, t) /\ Holds(s, t) /\ Beside(s, t) /\ t.slots = s.slots
             /\ \A y : Total(t, y) + (IF s.items[i].template = y THEN p.left ELSE 0)
                       = Total(s, y)
<1> DEFINE u == p.store
           h == s.items[i].quantity
           r == h - q
           x == Lessened(s.items[i], r)
           t == SetQuantity(u, i, r)
<1>1. /\ Sound(u) /\ Ahead(s, u) /\ Holds(s, u) /\ Beside(s, u) /\ u.items[i] = s.items[i]
      /\ u.slots = s.slots /\ p.left \in 0..q
      /\ \A y : Total(u, y) + (IF s.items[i].template = y THEN p.left ELSE 0)
                = Total(s, y) + (IF s.items[i].template = y THEN q ELSE 0)
  BY DEF PourInv
<1>2. /\ i \in Ids /\ IsItem(s.items[i]) /\ 1 <= h /\ h \in Nat /\ Shaped(s)
      /\ s.items[i].at.kind \in {"inventory", "world"}
      /\ s.items[i].template \in Templates /\ h <= MaxStack[s.items[i].template]
      /\ MaxStack[s.items[i].template] \in Nat
  BY LiveMade DEF Live, Sound
<1>3. r \in Nat /\ 1 <= r /\ r <= MaxStack[s.items[i].template] BY <1>2
<1>4. Live(u, i) /\ Shaped(u) BY <1>1 DEF Live, Sound
<1> HIDE DEF u, h
<1>5. /\ IsItem(x) /\ x = [s.items[i] EXCEPT !.quantity = r]
      /\ x.template = s.items[i].template /\ x.quantity = r
      /\ x.state = s.items[i].state /\ x.at = s.items[i].at
  <2> DEFINE o == s.items[i]
  <2>1. IsItem(o) /\ r \in Nat BY <1>2, <1>3
  <2>2. x = Lessened(o, r) OBVIOUS
  <2> HIDE DEF o, r, x
  <2>3. /\ [o EXCEPT !.quantity = r] = x /\ IsItem(x) /\ x.template = o.template
        /\ x.quantity = r /\ x.state = o.state /\ x.at = o.at
    BY <2>1, <2>2, LessenedIs
  <2> QED BY <2>3 DEF o
<1> HIDE DEF x, r
<1>6. /\ Shaped(t) /\ Beside(u, t) /\ t.items = [u.items EXCEPT ![i] = [u.items[i] EXCEPT !.quantity = r]]
      /\ t.slots = u.slots /\ Ahead(u, t)
  BY <1>2, <1>3, <1>4, SetQuantityIs
<1>7. t.items = [u.items EXCEPT ![i] = x] BY <1>1, <1>5, <1>6
<1> HIDE DEF t
<1>8. x.template \in Weapons => x.state.count <= Magazine
  BY <1>2, <1>5 DEF Sound, Measured
<1>9. Effect(u, t, i, x) /\ Fit(u, t, i, x)
  BY <1>1, <1>3, <1>4, <1>5, <1>6, <1>7, <1>8, StayedFits
<1>10. Unarmed(u, i, x) BY <1>1, <1>2, <1>5 DEF Unarmed
<1>11. /\ Sound(t) /\ Ahead(u, t) /\ Holds(u, t)
       /\ \A y : Total(t, y) + Worth(u.items[i], y) = Total(u, y) + Worth(x, y)
  BY <1>1, <1>9, <1>10, MovedKept
<1>12. Ahead(s, t) BY <1>1, <1>2, <1>4, <1>6, AheadTrans
<1>13. Holds(s, t) BY <1>1, <1>11, HoldsTrans
<1>14. Beside(s, t) BY <1>1, <1>6 DEF Beside
<1>15. ASSUME NEW y
       PROVE  Total(t, y) + (IF s.items[i].template = y THEN p.left ELSE 0) = Total(s, y)
  BY <1>1, <1>2, <1>4, <1>5, <1>6, <1>11, AmountNat DEF Worth, r, h
<1> QED BY <1>1, <1>6, <1>11, <1>12, <1>13, <1>14, <1>15 DEF t, r, h, u

\* transfer_to_container keeps every quantity and every weapon, and makes one
\* item at most.
LEMMA TransferSafe ==
  ASSUME NEW s, Sound(s), s.nextItem \in Ids, NEW i, InInventory(s, i),
         NEW q \in Nat \ {0}, q <= s.items[i].quantity,
         NEW c \in Containers, c \in s.open,
         NEW t \in transfer_to_container(s, i, q, c)
  PROVE  Safe(s, t) /\ t.nextItem <= s.nextItem + 1 /\ t.nextProp = s.nextProp
<1> DEFINE h == s.items[i].quantity
           tm == s.items[i].template
           p == Poured(s, i, c, q)
           u == p.store
           rest == p.left
           k == find_empty_slot(s, c, tm)
           less == SetQuantity(u, i, h - q)
           gone == remove_from_inventory(u, i)
           part == [gone EXCEPT !.items[i].quantity = rest]
<1>1. Live(s, i) /\ i \in Ids /\ Shaped(s) /\ s.nextItem \in Nat
  BY DEF Live, InInventory, Sound, Ids
<1>2. /\ h \in Nat /\ IsItem(s.items[i]) /\ tm \in Templates /\ h <= MaxStack[tm]
      /\ MaxStack[tm] \in Nat
  BY <1>1, LiveMade
<1>3. PourInv(s, i, q, p) BY <1>1, PouredIs
<1>4. p.left \in 0..q BY <1>3 DEF PourInv
<1>5. \/ rest = 0 /\ q = h /\ t = terminate(u, i)
      \/ rest = 0 /\ q # h /\ t = less
      \/ rest # 0 /\ k # 0 /\ q = h /\ t = Put(part, i, c, k)
      \/ /\ rest # 0 /\ k # 0 /\ q # h
         /\ t = Put(Made(less, tm, rest, s.items[i].used, s.items[i].state), s.nextItem, c, k)
  <2>1. rest > 0 <=> rest # 0 BY <1>4
  <2>2. t \in (CASE rest = 0 /\ q = h -> {terminate(u, i)}
       [] rest = 0 /\ ~(q = h) -> {less}
       [] rest > 0 /\ k = 0 -> {}
       [] rest > 0 /\ k # 0 /\ q = h -> {Put(part, i, c, k)}
       [] OTHER ->
            {Put(Made(less, tm, rest, s.items[i].used, s.items[i].state), s.nextItem, c, k)})
    BY DEF transfer_to_container
  <2> HIDE DEF h, tm, p, u, rest, k, less, gone, part
  <2> QED BY <2>1, <2>2
<1>6. /\ Sound(u) /\ Shaped(u) /\ u.items[i] = s.items[i] /\ u.slots = s.slots
      /\ Beside(s, u)
  BY <1>3 DEF PourInv, Sound
<1>7. Live(u, i) BY <1>1, <1>6 DEF Live
<1> HIDE DEF p, u, h, tm
<1>8. k # 0 => /\ k \in 1..Capacity[c] /\ s.slots[c][k] = 0
               /\ c = "arms" => tm \in Weapons
  BY <1>1, SlotFree
<1> HIDE DEF k
<1>9. CASE rest = 0 /\ q = h /\ t = terminate(u, i)
  <2>1. /\ Shaped(t) /\ Beside(u, t)
        /\ t.items = [u.items EXCEPT ![i] = Ended(u.items[i])]
        /\ \A d \in Containers : \A n \in 1..Capacity[d] :
             t.slots[d][n] = IF u.items[i].at = InSlot(d, n) THEN 0 ELSE u.slots[d][n]
        /\ Ahead(u, t)
    BY <1>1, <1>6, <1>7, <1>9, TerminateIs
  <2>2. Safe(s, t) /\ Beside(s, t)
    BY <1>1, <1>3, <1>6, <1>9, <2>1, PouredOut DEF u, h
  <2> QED BY <1>1, <2>2 DEF Beside
<1>10. ASSUME q # h
       PROVE  /\ Sound(less) /\ Ahead(s, less) /\ Holds(s, less) /\ Beside(s, less)
              /\ less.slots = s.slots
              /\ \A y : Total(less, y) + (IF tm = y THEN rest ELSE 0) = Total(s, y)
  BY <1>1, <1>2, <1>3, <1>10, SourceLess DEF h, u, tm
<1>11. CASE rest = 0 /\ q # h /\ t = less
  <2>1. \A y : Total(t, y) = Total(s, y)
    <3>1. Shaped(less) BY <1>10, <1>11 DEF Sound
    <3>2. \A y : Total(less, y) \in Nat BY <3>1, AmountNat
    <3> HIDE DEF less
    <3> QED BY <1>10, <1>11, <3>2
  <2> QED BY <1>1, <1>10, <1>11, <2>1 DEF Safe, Beside
<1>12. CASE rest # 0 /\ k # 0 /\ q = h /\ t = Put(part, i, c, k)
  <2> DEFINE z == Lessened(s.items[i], rest)
  <2>1. /\ Shaped(gone) /\ Beside(u, gone) /\ gone.items = u.items
        /\ \A d \in Containers : \A n \in 1..Capacity[d] :
             gone.slots[d][n] = IF u.items[i].at = InSlot(d, n) THEN 0 ELSE u.slots[d][n]
        /\ Ahead(u, gone)
    BY <1>1, <1>6, RemoveIs
  <2>2. rest \in Nat /\ i \in Ids BY <1>1, <1>4
  <2> HIDE DEF gone, rest
  <2>3. /\ Shaped(part) /\ Beside(gone, part)
        /\ part.items = [gone.items EXCEPT ![i] = Lessened(gone.items[i], rest)]
        /\ part.slots = gone.slots /\ part.revision = gone.revision
    BY <2>1, <2>2, QuantityIs
  <2> HIDE DEF part
  <2>4. Ahead(gone, part) BY <2>1, <2>3, AheadSame
  <2>5. part.items[i] = z
    BY <1>6, <2>1, <2>2, <2>3 DEF Shaped
  <2>6. k \in 1..Capacity[c] BY <1>8, <1>12
  <2>7. /\ Shaped(t) /\ Beside(part, t)
        /\ t.items = [part.items EXCEPT ![i] = Moved(part.items[i], InSlot(c, k))]
        /\ \A d \in Containers : \A n \in 1..Capacity[d] :
             t.slots[d][n] = IF d = c /\ n = k THEN i ELSE part.slots[d][n]
        /\ Ahead(part, t)
    BY <1>12, <2>2, <2>3, <2>6, PutMoves
  <2> HIDE DEF z
  <2>8. t.items = [u.items EXCEPT ![i] = Moved(z, InSlot(c, k))]
    BY <1>1, <2>1, <2>3, <2>5, <2>7
  <2>9. Beside(u, t) BY <2>1, <2>3, <2>7 DEF Beside
  <2>10. Ahead(u, t)
    BY <1>6, <2>1, <2>3, <2>4, <2>7, AheadTrans
  <2>11. \A d \in Containers : \A n \in 1..Capacity[d] :
             t.slots[d][n] = IF d = c /\ n = k THEN i
                             ELSE IF s.items[i].at = InSlot(d, n) THEN 0 ELSE u.slots[d][n]
    BY <1>6, <2>1, <2>3, <2>7
  <2>12. Safe(s, t) /\ Beside(s, t)
    <3>1. PourInv(s, i, s.items[i].quantity, p) BY <1>3, <1>12 DEF h
    <3>2. p.left # 0 BY <1>12 DEF rest
    <3>3. s.slots[c][k] = 0 /\ (c = "arms" => s.items[i].template \in Weapons)
      BY <1>8, <1>12 DEF tm
    <3>4. t.items = [p.store.items EXCEPT
                      ![i] = Moved(Lessened(s.items[i], p.left), InSlot(c, k))]
      BY <2>8 DEF z, rest, u
    <3> QED BY <1>1, <2>6, <2>7, <2>9, <2>10, <2>11, <3>1, <3>2, <3>3, <3>4, PouredIn DEF u
  <2> QED BY <1>1, <2>12 DEF Beside
<1>13. CASE /\ rest # 0 /\ k # 0 /\ q # h
            /\ t = Put(Made(less, tm, rest, s.items[i].used, s.items[i].state), s.nextItem, c, k)
  <2>1. /\ Sound(less) /\ Ahead(s, less) /\ Holds(s, less) /\ Beside(s, less)
        /\ less.slots = s.slots
        /\ \A y : Total(less, y) + (IF tm = y THEN rest ELSE 0) = Total(s, y)
    BY <1>10, <1>13
  <2>2. rest \in Nat /\ 1 <= rest /\ rest <= MaxStack[tm] BY <1>2, <1>4, <1>13 DEF h, tm
  <2>3. /\ s.items[i].used \in Nat /\ s.items[i].state \in States
        /\ tm \in Weapons => s.items[i].state.count <= Magazine
    BY <1>1, <1>2 DEF IsItem, Sound, Measured, tm
  <2> HIDE DEF less, rest
  <2>4. /\ less.nextItem = s.nextItem /\ less.nextProp = s.nextProp /\ less.open = s.open
    BY <2>1 DEF Beside
  <2>5. k \in 1..Capacity[c] /\ less.slots[c][k] = 0 /\ (c = "arms" => tm \in Weapons)
    BY <1>8, <1>13, <2>1
  <2>6. tm \in Templates BY <1>2
  <2> DEFINE used == s.items[i].used
             state == s.items[i].state
             v == Put(Made(less, tm, rest, used, state), less.nextItem, c, k)
  <2>7. t = v BY <1>13, <2>4
  <2>8. /\ Sound(v) /\ Ahead(less, v) /\ Holds(less, v) /\ v.open = less.open
        /\ v.nextItem = less.nextItem + 1 /\ v.nextProp = less.nextProp
        /\ \A y : Total(v, y) = Total(less, y) + (IF tm = y THEN rest ELSE 0)
    <3>1. less.nextItem \in Ids /\ c \in less.open BY <2>4
    <3>2. used \in Nat /\ state \in States /\ (tm \in Weapons => state.count <= Magazine)
      BY <2>3
    <3> HIDE DEF used, state
    <3> QED BY <2>1, <2>2, <2>5, <2>6, <3>1, <3>2, MadeSlotted
  <2> HIDE DEF v
  <2>9. Shaped(less) /\ Shaped(v) BY <2>1, <2>8 DEF Sound
  <2>10. Ahead(s, v) BY <1>1, <2>1, <2>8, <2>9, AheadTrans
  <2>11. Holds(s, v) BY <2>1, <2>8, HoldsTrans
  <2>12. \A y : Total(v, y) = Total(s, y)
    BY <2>1, <2>2, <2>8, <2>9, AmountNat
  <2>13. Safe(s, v) BY <2>4, <2>8, <2>10, <2>11, <2>12 DEF Safe
  <2> QED BY <1>1, <2>4, <2>7, <2>8, <2>13
<1> QED BY <1>5, <1>9, <1>11, <1>12, <1>13

\* A stack that becomes another size where it is.
LEMMA QuantityKept ==
  ASSUME NEW s, Sound(s), NEW i, Live(s, i), NEW r \in Nat, 1 <= r,
         r <= MaxStack[s.items[i].template]
  PROVE  LET t == SetQuantity(s, i, r)
         IN  /\ Sound(t) /\ Ahead(s, t) /\ Holds(s, t) /\ Beside(s, t)
             /\ \A y : Total(t, y) + Worth(s.items[i], y)
                       = Total(s, y) + (IF s.items[i].template = y THEN r ELSE 0)
<1> DEFINE x == Lessened(s.items[i], r)
           t == SetQuantity(s, i, r)
<1>1. /\ i \in Ids /\ IsItem(s.items[i]) /\ Shaped(s)
      /\ s.items[i].at.kind \in {"inventory", "world"}
  BY LiveMade DEF Live, Sound
<1>2. /\ IsItem(x) /\ x = [s.items[i] EXCEPT !.quantity = r]
      /\ x.template = s.items[i].template /\ x.quantity = r
      /\ x.state = s.items[i].state /\ x.at = s.items[i].at
  BY <1>1, LessenedIs
<1> HIDE DEF x
<1>3. /\ Shaped(t) /\ Beside(s, t) /\ t.items = [s.items EXCEPT ![i] = [s.items[i] EXCEPT !.quantity = r]]
      /\ t.slots = s.slots /\ Ahead(s, t)
  BY <1>1, SetQuantityIs
<1>4. t.items = [s.items EXCEPT ![i] = x] BY <1>2, <1>3
<1> HIDE DEF t
<1>5. x.template \in Weapons => x.state.count <= Magazine
  BY <1>1, <1>2 DEF Sound, Measured
<1>6. Effect(s, t, i, x) /\ Fit(s, t, i, x)
  BY <1>2, <1>3, <1>4, <1>5, StayedFits
<1>7. Unarmed(s, i, x) BY <1>1, <1>2 DEF Unarmed
<1>8. /\ Sound(t) /\ Ahead(s, t) /\ Holds(s, t)
      /\ \A y : Total(t, y) + Worth(s.items[i], y) = Total(s, y) + Worth(x, y)
  BY <1>6, <1>7, MovedKept
<1>9. \A y : Worth(x, y) = IF s.items[i].template = y THEN r ELSE 0
  BY <1>1, <1>2 DEF Worth
<1> QED BY <1>3, <1>8, <1>9 DEF t

\* v is s with a new item z and a new prop, neither anywhere yet.
Fresh(s, v, z) ==
  /\ Shaped(v) /\ v.items = [s.items EXCEPT ![s.nextItem] = z]
  /\ v.slots = s.slots /\ v.open = s.open /\ v.revision = s.revision
  /\ v.nextItem = s.nextItem + 1 /\ v.nextProp = s.nextProp + 1
  /\ v.props = s.props \cup {s.nextProp}

\* An item z that may be made of the catalog.
Allowable(z) ==
  /\ IsItem(z) /\ z.template \in Templates
  /\ 1 <= z.quantity /\ z.quantity <= MaxStack[z.template]
  /\ z.template \in Weapons => z.state.count <= Magazine

\* The new item put on the new prop.
Landed(s, v, mode) == [v EXCEPT !.items[s.nextItem].at = OnProp(s.nextProp, mode)]

\* A new item on a new prop.
LEMMA MadeOnProp ==
  ASSUME NEW s, Sound(s), s.nextItem \in Ids, NEW mode \in Modes, NEW z, Allowable(z),
         NEW v, Fresh(s, v, z)
  PROVE  LET t == Landed(s, v, mode)
         IN  /\ Sound(t) /\ Ahead(s, t) /\ Holds(s, t) /\ Beside(v, t)
             /\ \A j \in Ids : j # s.nextItem => t.items[j] = s.items[j]
             /\ t.slots = s.slots /\ t.revision = s.revision
             /\ \A y : Total(t, y) = Total(s, y) + (IF z.template = y THEN z.quantity ELSE 0)
<1> DEFINE i == s.nextItem
           at == OnProp(s.nextProp, mode)
           x == Moved(z, at)
           t == [v EXCEPT !.items[i].at = at]
<1>1. Shaped(s) /\ i \in Ids /\ i \in Nat /\ s.nextProp \in Nat /\ Shaped(v)
      /\ IsItem(z)
  BY DEF Sound, Shaped, Ids, Fresh, Allowable
<1>2. IsPlace(at) /\ IsItem(z) BY <1>1 DEF IsPlace
<1>3. /\ IsItem(x) /\ x.template = z.template /\ x.quantity = z.quantity
      /\ x.state = z.state /\ x.at = at /\ x = [z EXCEPT !.at = at]
  BY <1>2, MovedIs
<1>4. x.at.kind = "world" BY <1>3, PlaceKinds
<1> HIDE DEF at, x, i
<1>5. /\ Shaped(t) /\ Beside(v, t) /\ t.items = [v.items EXCEPT ![i] = [v.items[i] EXCEPT !.at = at]]
      /\ t.slots = v.slots /\ t.revision = v.revision
  <2> DEFINE y == [v.items[i] EXCEPT !.at = at]
  <2>1. i \in Ids /\ Shaped(v) BY <1>1
  <2>2. LET a == [v EXCEPT !.items[i].at = at]
            b == [v.items[i] EXCEPT !.at = at]
        IN  /\ Shaped(a) /\ Beside(v, a) /\ a.items = [v.items EXCEPT ![i] = b]
            /\ IsItem(b) /\ a.slots = v.slots /\ a.revision = v.revision
    BY <1>2, <2>1, AtIs
  <2> QED BY <2>2
<1> HIDE DEF t
<1>6. v.items = [s.items EXCEPT ![i] = z] BY DEF i, Fresh
<1>7. t.items = [s.items EXCEPT ![i] = x] BY <1>1, <1>3, <1>5, <1>6 DEF Shaped
<1>8. Ahead(s, t)
  BY <1>1, <1>5, AheadSame DEF Fresh
<1>9. /\ s.items[i] = EmptyItem /\ Unarmed(s, i, x)
      /\ \A y : Worth(s.items[i], y) = 0
      /\ \A d, n : s.items[i].at # InSlot(d, n)
  BY NextIsFree DEF i
<1>10. /\ t.open = s.open /\ t.nextItem >= s.nextItem /\ i < t.nextItem
       /\ t.nextProp = s.nextProp + 1 /\ t.props = s.props \cup {s.nextProp}
  BY <1>1, <1>5 DEF Beside, i, Fresh
<1>11. \A d \in Containers : \A n \in 1..Capacity[d] :
           t.slots[d][n] = IF s.items[i].at = InSlot(d, n) THEN 0 ELSE s.slots[d][n]
  BY <1>5, <1>9 DEF Fresh
<1>12. Effect(s, t, i, x) /\ Fit(s, t, i, x)
  BY <1>1, <1>3, <1>5, <1>7, <1>8, <1>10, <1>11, WorldFits DEF at, Allowable
<1>13. /\ Sound(t) /\ Ahead(s, t) /\ Holds(s, t)
       /\ \A y : Total(t, y) + Worth(s.items[i], y) = Total(s, y) + Worth(x, y)
  BY <1>9, <1>12, MovedKept
<1>14. \A j \in Ids : j # i => t.items[j] = s.items[j] BY <1>1, <1>7 DEF Shaped
<1>15. ASSUME NEW y PROVE Total(t, y) = Total(s, y) + (IF z.template = y THEN z.quantity ELSE 0)
  BY <1>1, <1>3, <1>4, <1>5, <1>9, <1>13, AmountNat DEF Worth
<1> QED BY <1>5, <1>13, <1>14, <1>15 DEF t, at, i, Fresh, Landed

\* split_to_world keeps every quantity and makes one item on one prop.
LEMMA SplitSafe ==
  ASSUME NEW s, Sound(s), s.nextItem \in Ids, NEW i, InInventory(s, i), NEW q \in Nat \ {0},
         q < s.items[i].quantity, NEW mode \in Modes
  PROVE  LET t == split_to_world(spawn_prop(s), i, q, s.nextProp, mode)
         IN  Safe(s, t) /\ t.nextItem = s.nextItem + 1 /\ t.nextProp = s.nextProp + 1
<1> DEFINE n == s.nextItem
           p == s.nextProp
           u == spawn_prop(s)
           h == s.items[i].quantity
           tm == s.items[i].template
           state == s.items[i].state
           z == [template |-> tm, quantity |-> q, used |-> 0, state |-> state,
                 at |-> Nowhere]
           v == Made(u, tm, q, 0, state)
           w == [v EXCEPT !.items[n].at = OnProp(p, mode)]
           t == SetQuantity(w, i, h - q)
<1>1. /\ Live(s, i) /\ i \in Ids /\ Shaped(s) /\ n \in Nat /\ p \in Nat
  BY DEF Live, InInventory, Sound, Shaped
<1>2. /\ IsItem(s.items[i]) /\ tm \in Templates /\ h \in Nat /\ h <= MaxStack[tm]
      /\ MaxStack[tm] \in Nat /\ i < n
  BY <1>1, LiveMade
<1>3. state \in States /\ (tm \in Weapons => state.count <= Magazine)
  BY <1>1, <1>2 DEF IsItem, Sound, Measured
<1>4. /\ Shaped(u) /\ u.items = s.items /\ u.slots = s.slots /\ u.open = s.open
      /\ u.revision = s.revision /\ u.nextItem = n
      /\ u.nextProp = p + 1 /\ u.props = s.props \cup {p}
  BY <1>1, SpawnIs
<1> HIDE DEF u
<1>5. split_to_world(u, i, q, p, mode) = t BY <1>4 DEF split_to_world
<1>6. z.template = tm /\ z.quantity = q /\ z.state = state OBVIOUS
<1> HIDE DEF n, p, h, tm, state
<1>7. /\ Shaped(v) /\ IsItem(z) /\ v.items = [u.items EXCEPT ![n] = z]
      /\ v.slots = u.slots /\ v.open = u.open
      /\ v.revision = u.revision /\ v.nextItem = n + 1
      /\ v.nextProp = u.nextProp /\ v.props = u.props
  <2>1. u.nextItem \in Ids BY <1>4 DEF n
  <2>2. Shaped(u) /\ 0 \in Nat /\ q \in Nat BY <1>4
  <2> DEFINE e == 0
  <2>3. e \in Nat OBVIOUS
  <2> HIDE DEF e
  <2>4. LET a == Made(u, tm, q, e, state)
            b == [template |-> tm, quantity |-> q, used |-> e, state |-> state,
                  at |-> Nowhere]
        IN  /\ Shaped(a) /\ IsItem(b) /\ a.items = [u.items EXCEPT ![u.nextItem] = b]
            /\ a.slots = u.slots /\ a.open = u.open
            /\ a.revision = u.revision /\ a.nextItem = u.nextItem + 1
            /\ a.nextProp = u.nextProp /\ a.props = u.props
    BY <1>2, <1>3, <2>1, <2>2, <2>3, MadeIs
  <2> QED BY <1>4, <2>4 DEF e
<1> HIDE DEF z, v
<1>8. /\ Sound(w) /\ Ahead(s, w) /\ Holds(s, w) /\ Beside(v, w)
      /\ \A j \in Ids : j # n => w.items[j] = s.items[j]
      /\ \A y : Total(w, y) = Total(s, y) + (IF tm = y THEN q ELSE 0)
  <2>1. Allowable(z) BY <1>2, <1>3, <1>6, <1>7 DEF h, Allowable
  <2>2. Fresh(s, v, z) BY <1>4, <1>7 DEF n, p, Fresh
  <2>3. LET a == Landed(s, v, mode)
         IN  /\ Sound(a) /\ Ahead(s, a) /\ Holds(s, a) /\ Beside(v, a)
             /\ \A j \in Ids : j # s.nextItem => a.items[j] = s.items[j]
             /\ a.slots = s.slots
             /\ \A y : Total(a, y) = Total(s, y) + (IF z.template = y THEN z.quantity ELSE 0)
    BY <2>1, <2>2, MadeOnProp
  <2>4. Landed(s, v, mode) = w BY DEF Landed, w, n, p
  <2> QED BY <1>6, <2>3, <2>4 DEF n
<1> HIDE DEF w
<1>9. w.items[i] = s.items[i] /\ Live(w, i) BY <1>1, <1>2, <1>8 DEF Live, n
<1> DEFINE r == h - q
<1>10. r \in Nat /\ 1 <= r /\ r <= MaxStack[w.items[i].template]
  BY <1>2, <1>9 DEF h, tm
<1> HIDE DEF r
<1> DEFINE a == SetQuantity(w, i, r)
<1>11. /\ Sound(a) /\ Ahead(w, a) /\ Holds(w, a) /\ Beside(w, a)
       /\ \A y : Total(a, y) + Worth(w.items[i], y)
                 = Total(w, y) + (IF w.items[i].template = y THEN r ELSE 0)
  BY <1>8, <1>9, <1>10, QuantityKept
<1>12. a = t BY DEF r
<1> HIDE DEF a, t
<1>13. Shaped(w) /\ Shaped(a) BY <1>8, <1>11 DEF Sound
<1>14. Ahead(s, a) /\ Holds(s, a) BY <1>1, <1>8, <1>11, <1>13, AheadTrans, HoldsTrans
<1>15. ASSUME NEW y PROVE Total(a, y) = Total(s, y)
  <2>1. Total(a, y) \in Nat /\ Total(w, y) \in Nat /\ Total(s, y) \in Nat
    BY <1>1, <1>13, AmountNat
  <2>2. Worth(w.items[i], y) = IF tm = y THEN h ELSE 0
    BY <1>1, <1>9 DEF Worth, Live, h, tm
  <2>3. Total(a, y) + Worth(w.items[i], y) = Total(w, y) + (IF tm = y THEN r ELSE 0)
    BY <1>9, <1>11 DEF tm
  <2>4. Total(w, y) = Total(s, y) + (IF tm = y THEN q ELSE 0) BY <1>8
  <2>5. q \in Nat /\ h \in Nat /\ q < h BY <1>2 DEF h
  <2>6. r + q = h BY <2>5 DEF r
  <2>7. r \in Nat BY <1>10
  <2>8. CASE tm = y BY <2>1, <2>2, <2>3, <2>4, <2>5, <2>6, <2>7, <2>8
  <2>9. CASE tm # y BY <2>1, <2>2, <2>3, <2>4, <2>9
  <2> QED BY <2>8, <2>9
<1>16. a.open = s.open /\ a.nextItem = n + 1 /\ a.nextProp = p + 1
  BY <1>4, <1>7, <1>8, <1>11 DEF Beside
<1> QED BY <1>5, <1>11, <1>12, <1>14, <1>15, <1>16 DEF Safe, n, p, u

\* A prop nothing is on goes, and nothing with it.
LEMMA PropGone ==
  ASSUME NEW s, Sound(s), NEW p,
         \A j \in Ids : ~(InWorld(s, j) /\ s.items[j].at.prop = p)
  PROVE  LET t == destroy_prop(s, p)
         IN  Safe(s, t) /\ t.nextItem = s.nextItem /\ t.nextProp = s.nextProp
<1> DEFINE on == {i \in Ids : InWorld(s, i) /\ s.items[i].at.prop = p}
           P == s.props \ {p}
           t == [s EXCEPT !.props = P]
<1>1. on = {} OBVIOUS
<1>2. destroy_prop(s, p) = t BY <1>1 DEF destroy_prop
<1>3. Shaped(s) BY DEF Sound
<1>4. P \in SUBSET Nat BY <1>3 DEF Shaped
<1> HIDE DEF P
<1>5. 0 \in Nat OBVIOUS
<1>6. /\ Shaped(t) /\ t.items = s.items /\ t.slots = s.slots /\ t.open = s.open
      /\ t.revision = s.revision /\ t.nextItem = s.nextItem
      /\ t.nextProp = s.nextProp /\ t.props = P
  BY <1>3, <1>4, <1>5, CountersShaped
<1> HIDE DEF t
<1>7. SlotsAgree(t) /\ Measured(t) /\ {"own", "arms"} \subseteq t.open
  BY <1>6 DEF Sound, SlotsAgree, Measured, Live
<1>8. PropsAgree(t)
  BY <1>6 DEF InWorld, Sound, PropsAgree, P
<1>9. Numbered(t) BY <1>6 DEF Sound, Numbered, P
<1>10. Sound(t) BY <1>6, <1>7, <1>8, <1>9 DEF Sound
<1>11. Ahead(s, t) BY <1>3, <1>6, AheadSame
<1>12. Holds(s, t) BY <1>6 DEF Holds, Live
<1>13. \A y : Total(t, y) = Total(s, y)
  BY <1>3, <1>6, TotalSame
<1> QED BY <1>2, <1>6, <1>10, <1>11, <1>12, <1>13 DEF Safe

\* The weapon that makes room goes down whole.
LEMMA MadeRoomSafe ==
  ASSUME NEW s, Sound(s), NEW tm
  PROVE  LET t == MadeRoom(s, tm)
         IN  /\ Safe(s, t) /\ t.nextItem = s.nextItem /\ t.nextProp <= s.nextProp + 1
             /\ \A i \in Ids : InWorld(s, i) => t.items[i] = s.items[i]
             /\ s.nextProp <= t.nextProp
<1> DEFINE held == s.slots["arms"][1]
           t == MadeRoom(s, tm)
<1>1. Shaped(s) /\ s.nextProp \in Nat BY DEF Sound, Shaped
<1>2. CASE ~(tm \in Weapons /\ held # 0)
  BY <1>1, <1>2, SafeSame DEF MadeRoom
<1>3. CASE tm \in Weapons /\ held # 0
  <2>1. "arms" \in Containers /\ 1 \in 1..Capacity["arms"] BY ItemStoreAssumption
  <2>2. held \in Ids /\ s.items[held].at = InSlot("arms", 1)
    <3>1. s.slots["arms"] \in [1..Capacity["arms"] -> Ids \cup {0}] BY <1>1, <2>1 DEF Shaped
    <3> QED BY <1>3, <2>1, <3>1 DEF Sound, SlotsAgree
  <2>3. s.items[held].at.kind = "inventory" BY <2>2, PlaceKinds
  <2>4. Live(s, held) BY <2>2, <2>3 DEF Live
  <2>5. "placed" \in Modes BY DEF Modes
  <2>6. t = move_to_world(spawn_prop(s), held, s.nextProp, "placed") BY <1>3 DEF MadeRoom
  <2> HIDE DEF held, t
  <2>7. /\ Safe(s, t) /\ t.nextItem = s.nextItem /\ t.nextProp = s.nextProp + 1
        /\ t.items = [s.items EXCEPT ![held] = Moved(s.items[held], OnProp(s.nextProp, "placed"))]
    <3> DEFINE v == move_to_world(spawn_prop(s), held, s.nextProp, "placed")
    <3>1. /\ Safe(s, v) /\ v.nextItem = s.nextItem /\ v.nextProp = s.nextProp + 1
          /\ v.items = [s.items EXCEPT ![held] = Moved(s.items[held], OnProp(s.nextProp, "placed"))]
      BY <2>4, <2>5, OntoPropSafe
    <3> QED BY <2>6, <3>1
  <2>8. ASSUME NEW i \in Ids, InWorld(s, i) PROVE t.items[i] = s.items[i]
    BY <1>1, <2>3, <2>7, <2>8 DEF InWorld, Shaped
  <2> QED BY <1>1, <2>7, <2>8 DEF t
<1> QED BY <1>2, <1>3

\* A pickup keeps every quantity and every weapon.
LEMMA PickupSafe ==
  ASSUME NEW s, Sound(s), NEW i, NEW t \in Pickup(s, i)
  PROVE  Safe(s, t) /\ t.nextItem <= s.nextItem + 1 /\ t.nextProp <= s.nextProp + 1
<1> DEFINE p == s.items[i].at.prop
           tm == s.items[i].template
           c == Own(tm)
           u == MadeRoom(s, tm)
<1>1. InWorld(s, i) /\ \E v \in transfer_world_to_inventory(u, i, c) : t = destroy_prop(v, p)
  BY DEF Pickup
<1>2. PICK v \in transfer_world_to_inventory(u, i, c) : t = destroy_prop(v, p) BY <1>1
<1>3. i \in Ids /\ Shaped(s) /\ s.nextItem \in Nat /\ s.nextProp \in Nat
  BY <1>1 DEF InWorld, Sound, Shaped
<1>4. /\ Safe(s, u) /\ u.nextItem = s.nextItem /\ u.nextProp <= s.nextProp + 1
      /\ \A j \in Ids : InWorld(s, j) => u.items[j] = s.items[j]
  BY MadeRoomSafe
<1>5. Sound(u) /\ u.items[i] = s.items[i] /\ InWorld(u, i) BY <1>1, <1>3, <1>4 DEF Safe, InWorld
<1>6. c \in Containers /\ c \in u.open
  BY <1>4, ItemStoreAssumption DEF Own, Safe, Sound
<1> HIDE DEF c, u
<1>7. /\ Safe(u, v) /\ Beside(u, v) /\ v.items[i].at.kind # "world"
      /\ \A j \in Ids : j # i => v.items[j].at = u.items[j].at
  BY <1>5, <1>6, TransferWorldSafe
<1>8. ASSUME NEW j \in Ids, InWorld(v, j), v.items[j].at.prop = p PROVE FALSE
  <2>1. j # i BY <1>7, <1>8 DEF InWorld
  <2>2. InWorld(u, j) /\ u.items[j].at.prop = p BY <1>7, <1>8, <2>1 DEF InWorld
  <2>3. u.items[i].at.prop = p BY <1>5
  <2> HIDE DEF p
  <2> QED BY <1>3, <1>5, <2>1, <2>2, <2>3 DEF Sound, PropsAgree
<1>9. Sound(v) BY <1>7 DEF Safe
<1> HIDE DEF p
<1>10. Safe(v, t) /\ t.nextItem = v.nextItem /\ t.nextProp = v.nextProp
  BY <1>2, <1>8, <1>9, PropGone
<1>11. Safe(s, t)
  BY <1>4, <1>5, <1>7, <1>10, SafeTrans
<1>12. t.nextItem = s.nextItem /\ t.nextProp <= s.nextProp + 1
  BY <1>4, <1>7, <1>10 DEF Beside
<1> QED BY <1>3, <1>11, <1>12

\* So does carrying a prop,
LEMMA CarrySafe ==
  ASSUME NEW s, Sound(s), NEW i, NEW t \in Carry(s, i)
  PROVE  Safe(s, t) /\ t.nextItem <= s.nextItem + 1 /\ t.nextProp <= s.nextProp + 1
<1>1. InWorld(s, i) /\ t = set_world_mode(s, i, "carried") BY DEF Carry
<1>2. "carried" \in Modes BY DEF Modes
<1>3. Safe(s, t) /\ Beside(s, t) BY <1>1, <1>2, SetModeSafe
<1>4. s.nextItem \in Nat /\ s.nextProp \in Nat BY DEF Sound, Shaped
<1> QED BY <1>3, <1>4 DEF Beside

\* and putting down what is carried or held, to place or to throw it.
LEMMA PutDownSafe ==
  ASSUME NEW s, Sound(s), s.nextItem \in Ids, NEW i, NEW q \in Nat \ {0}, NEW mode \in Modes,
         NEW t \in PutDown(s, i, q, mode)
  PROVE  Safe(s, t) /\ t.nextItem <= s.nextItem + 1 /\ t.nextProp <= s.nextProp + 1
<1>1. s.nextItem \in Nat /\ s.nextProp \in Nat BY DEF Sound, Shaped
<1>2. CASE InWorld(s, i)
  BY <1>1, <1>2, SetModeSafe DEF PutDown, Beside
<1>3. CASE ~InWorld(s, i)
  <2>1. /\ OwnedBy(s, i) /\ ~(q > s.items[i].quantity)
        /\ t \in IF q = s.items[i].quantity
                 THEN {move_to_world(spawn_prop(s), i, s.nextProp, mode)}
                 ELSE {split_to_world(spawn_prop(s), i, q, s.nextProp, mode)}
    BY <1>3 DEF PutDown
  <2>2. InInventory(s, i) BY <2>1 DEF OwnedBy
  <2>3. Live(s, i) BY <2>2 DEF InInventory, Live
  <2>4. s.items[i].quantity \in Nat BY <2>3, LiveMade
  <2>5. CASE q = s.items[i].quantity
    <3>1. t = move_to_world(spawn_prop(s), i, s.nextProp, mode) BY <2>1, <2>5
    <3>2. LET u == move_to_world(spawn_prop(s), i, s.nextProp, mode)
          IN  /\ Safe(s, u) /\ u.nextItem = s.nextItem /\ u.nextProp = s.nextProp + 1
              /\ u.items = [s.items EXCEPT ![i] = Moved(s.items[i], OnProp(s.nextProp, mode))]
      BY <2>3, OntoPropSafe
    <3>3. Safe(s, t) /\ t.nextItem = s.nextItem /\ t.nextProp = s.nextProp + 1
      BY <3>1, <3>2
    <3> QED BY <1>1, <3>3
  <2>6. CASE q # s.items[i].quantity
    BY <1>1, <2>1, <2>2, <2>4, <2>6, SplitSafe
  <2> QED BY <2>5, <2>6
<1> QED BY <1>2, <1>3

\* An item used once, with q of it and a count of n left.
UsedOnce(x, q, n) ==
  [template |-> x.template, quantity |-> q, used |-> x.used + 1,
   state |-> [count |-> n, reserve |-> x.state.reserve], at |-> x.at]

\* One use of an item that stays.
LEMMA UsedIs ==
  ASSUME NEW s, Shaped(s), NEW i \in Ids, NEW q \in Nat, NEW n \in Nat, NEW changed
  PROVE  LET t == Updated([s EXCEPT !.items[i].quantity = q, !.items[i].state.count = n,
                                    !.items[i].used = @ + 1], i, changed)
             x == UsedOnce(s.items[i], q, n)
         IN  /\ Shaped(t) /\ Beside(s, t) /\ t.items = [s.items EXCEPT ![i] = x]
             /\ IsItem(x) /\ t.slots = s.slots /\ Ahead(s, t)
<1> DEFINE x == UsedOnce(s.items[i], q, n)
           a == [s EXCEPT !.items[i].quantity = q]
           b == [a EXCEPT !.items[i].state.count = n]
           d == [b EXCEPT !.items[i].used = @ + 1]
           u == [s EXCEPT !.items[i].quantity = q, !.items[i].state.count = n,
                          !.items[i].used = @ + 1]
           t == Updated(u, i, changed)
           ya == [s.items[i] EXCEPT !.quantity = q]
           state == [count |-> n, reserve |-> s.items[i].state.reserve]
           yb == [ya EXCEPT !.state = state]
           m == s.items[i].used + 1
           yd == [yb EXCEPT !.used = m]
<1>1. IsItem(s.items[i]) BY DEF Shaped
<1>2. state \in States /\ m \in Nat BY <1>1 DEF IsItem, States
<1>3. u = d OBVIOUS
<1>4. /\ IsItem(ya) /\ ya = [template |-> s.items[i].template, quantity |-> q,
                             used |-> s.items[i].used, state |-> s.items[i].state,
                             at |-> s.items[i].at]
  BY <1>1, ItemWith
<1> HIDE DEF ya, state, m
<1>5. /\ IsItem(yb) /\ yb = [template |-> ya.template, quantity |-> ya.quantity,
                             used |-> ya.used, state |-> state, at |-> ya.at]
  BY <1>2, <1>4, ItemWith
<1> HIDE DEF yb
<1>6. /\ IsItem(yd) /\ yd = [template |-> yb.template, quantity |-> yb.quantity,
                             used |-> m, state |-> yb.state, at |-> yb.at]
  BY <1>2, <1>5, ItemWith
<1> HIDE DEF yd
<1>7. yd = x BY <1>4, <1>5, <1>6 DEF UsedOnce, state, m
<1>8. /\ Shaped(a) /\ Beside(s, a) /\ a.items = [s.items EXCEPT ![i] = ya]
      /\ a.slots = s.slots /\ a.revision = s.revision
  BY <1>4, ItemShaped DEF ya
<1> HIDE DEF a
<1>9. a.items[i] = ya BY <1>8 DEF Shaped
<1>10. ya.state = s.items[i].state /\ s.items[i].state \in States
  BY <1>1, <1>4 DEF IsItem
<1>11. [ya.state EXCEPT !.count = n] = state BY <1>10 DEF state, States
<1>12. b = [a EXCEPT !.items[i] = yb]
  BY <1>9, <1>11 DEF yb
<1>13. /\ Shaped(b) /\ Beside(a, b) /\ b.items = [a.items EXCEPT ![i] = yb]
       /\ b.slots = a.slots /\ b.revision = a.revision
  BY <1>5, <1>8, <1>12, ItemShaped
<1> HIDE DEF b
<1>14. b.items[i] = yb BY <1>8, <1>13 DEF Shaped
<1>15. yb.used = s.items[i].used BY <1>4, <1>5
<1>16. d = [b EXCEPT !.items[i] = yd]
  BY <1>14, <1>15 DEF yd, m
<1>17. /\ Shaped(d) /\ Beside(b, d) /\ d.items = [b.items EXCEPT ![i] = yd]
       /\ d.slots = b.slots /\ d.revision = b.revision
  BY <1>6, <1>13, <1>16, ItemShaped
<1> HIDE DEF d, u
<1>18. /\ Shaped(t) /\ Beside(d, t) /\ t.items = d.items /\ t.slots = d.slots /\ Ahead(d, t)
  BY <1>3, <1>17, UpdatedIs
<1> HIDE DEF t
<1>19. t.items = [s.items EXCEPT ![i] = x]
  <2>1. s.items = [j \in Ids |-> s.items[j]] BY DEF Shaped
  <2>2. t.items = [b.items EXCEPT ![i] = yd] BY <1>17, <1>18
  <2>3. b.items = [a.items EXCEPT ![i] = yb] BY <1>13
  <2>4. a.items = [s.items EXCEPT ![i] = ya] BY <1>8
  <2>5. t.items = [s.items EXCEPT ![i] = yd] BY <2>1, <2>2, <2>3, <2>4
  <2> QED BY <1>7, <2>5
<1>20. Ahead(s, t) BY <1>8, <1>13, <1>17, <1>18 DEF Ahead
<1>21. Beside(s, t) BY <1>8, <1>13, <1>17, <1>18 DEF Beside
<1> QED BY <1>6, <1>7, <1>8, <1>13, <1>17, <1>18, <1>19, <1>20, <1>21 DEF t, u

\* An item that ends takes what there was of it.
LEMMA TerminateKept ==
  ASSUME NEW s, Sound(s), NEW i, Live(s, i), s.items[i].template \notin Weapons
  PROVE  LET t == terminate(s, i)
         IN  /\ Sound(t) /\ Ahead(s, t) /\ Holds(s, t) /\ Beside(s, t)
             /\ \A y : Total(t, y) + Worth(s.items[i], y) = Total(s, y)
<1> DEFINE t == terminate(s, i)
           x == Ended(s.items[i])
<1>1. Shaped(s) /\ i \in Ids BY DEF Sound, Live
<1>2. /\ Shaped(t) /\ Beside(s, t)
      /\ t.items = [s.items EXCEPT ![i] = Ended(s.items[i])]
      /\ \A d \in Containers : \A n \in 1..Capacity[d] :
           t.slots[d][n] = IF s.items[i].at = InSlot(d, n) THEN 0 ELSE s.slots[d][n]
      /\ Ahead(s, t)
  BY <1>1, TerminateIs
<1> HIDE DEF t
<1>3. Effect(s, t, i, x) /\ Fit(s, t, i, x) BY <1>2, EndedFits
<1> HIDE DEF x
<1>4. Unarmed(s, i, x) BY DEF Unarmed
<1>5. /\ Sound(t) /\ Holds(s, t)
      /\ \A y : Total(t, y) + Worth(s.items[i], y) = Total(s, y) + Worth(x, y)
  BY <1>3, <1>4, MovedKept
<1>6. \A y : Worth(x, y) = 0 BY PlaceKinds DEF x, Ended, Worth
<1>7. \A y : Total(s, y) \in Nat BY <1>1, AmountNat
<1>8. \A y : Total(t, y) + Worth(s.items[i], y) = Total(s, y) BY <1>5, <1>6, <1>7
<1> QED BY <1>2, <1>5, <1>8 DEF t

\* The store in which item i was used once.
UsedStore(s, i, q, n, changed) ==
  Updated([s EXCEPT !.items[i].quantity = q, !.items[i].state.count = n,
                    !.items[i].used = @ + 1], i, changed)

\* One use takes what it takes off the total.
LEMMA UsedKept ==
  ASSUME NEW s, Sound(s), NEW i, Live(s, i), s.items[i].template \notin Weapons,
         NEW q \in Nat, 1 <= q, q <= MaxStack[s.items[i].template], NEW n \in Nat,
         NEW changed
  PROVE  LET t == UsedStore(s, i, q, n, changed)
         IN  /\ Sound(t) /\ Ahead(s, t) /\ Holds(s, t) /\ Beside(s, t)
             /\ \A y : Total(t, y) + Worth(s.items[i], y)
                       = Total(s, y) + (IF s.items[i].template = y THEN q ELSE 0)
<1> DEFINE t == UsedStore(s, i, q, n, changed)
           x == UsedOnce(s.items[i], q, n)
<1>1. Shaped(s) /\ i \in Ids BY DEF Sound, Live
<1>2. /\ Shaped(t) /\ Beside(s, t) /\ t.items = [s.items EXCEPT ![i] = x]
      /\ IsItem(x) /\ t.slots = s.slots /\ Ahead(s, t)
  BY <1>1, UsedIs DEF UsedStore
<1> HIDE DEF t
<1>3. x.at = s.items[i].at /\ x.template = s.items[i].template /\ x.quantity = q
  BY DEF UsedOnce
<1> HIDE DEF x
<1>4. Effect(s, t, i, x) /\ Fit(s, t, i, x) BY <1>2, <1>3, StayedFits
<1>5. Unarmed(s, i, x) BY DEF Unarmed
<1>6. /\ Sound(t) /\ Holds(s, t)
      /\ \A y : Total(t, y) + Worth(s.items[i], y) = Total(s, y) + Worth(x, y)
  BY <1>4, <1>5, MovedKept
<1>7. \A y : Worth(x, y) = IF s.items[i].template = y THEN q ELSE 0
  BY <1>3 DEF Worth, Live
<1> QED BY <1>2, <1>6, <1>7 DEF t

\* One use takes one away when it should, and nothing else.
LEMMA ConsumeKept ==
  ASSUME NEW s, Sound(s), NEW i, Live(s, i), s.items[i].template \notin Weapons,
         NEW t \in consume(s, i)
  PROVE  /\ Sound(t) /\ Ahead(s, t) /\ Holds(s, t) /\ Beside(s, t)
         /\ \A y : Total(t, y) + (IF UsesUp(s.items[i]) /\ s.items[i].template = y THEN 1 ELSE 0)
                   = Total(s, y)
<1> DEFINE q == s.items[i].quantity
           n == s.items[i].state.count
           tm == s.items[i].template
           Used(a, b, changed) == UsedStore(s, i, a, b, changed)
<1>1. /\ IsItem(s.items[i]) /\ q \in Nat /\ n \in Nat /\ 1 <= q /\ q <= MaxStack[tm]
      /\ tm \in Templates /\ MaxStack[tm] \in Nat
  BY LiveMade DEF IsItem, States
<1>2. \A y : Worth(s.items[i], y) = IF tm = y THEN q ELSE 0 BY DEF Worth, Live
<1>3. Shaped(s) BY DEF Sound
<1>4. \A y : Total(s, y) \in Nat BY <1>3, AmountNat
<1>5. ASSUME t = terminate(s, i), q = 1, UsesUp(s.items[i])
      PROVE  /\ Sound(t) /\ Ahead(s, t) /\ Holds(s, t) /\ Beside(s, t)
             /\ \A y : Total(t, y) + (IF UsesUp(s.items[i]) /\ tm = y THEN 1 ELSE 0) = Total(s, y)
  BY <1>2, <1>5, TerminateKept
<1>6. CASE tm \in Charged
  <2>1. q = 1 BY <1>1, <1>6, ItemStoreAssumption
  <2>2. UsesUp(s.items[i]) <=> n = 1 BY <1>6 DEF UsesUp
  <2>3. n # 0 /\ t \in IF n = 1 THEN {terminate(s, i)} ELSE {Used(q, n - 1, {"state", "used"})}
    BY <1>6 DEF consume, UsedStore
  <2>4. CASE n = 1
    BY <1>5, <2>1, <2>2, <2>3, <2>4
  <2>5. CASE n # 1
    <3>1. t = Used(q, n - 1, {"state", "used"}) BY <2>3, <2>5
    <3> DEFINE m == n - 1
    <3>2. m \in Nat BY <1>1, <2>3
    <3>3. t = Used(q, m, {"state", "used"}) BY <3>1
    <3> DEFINE changed == {"state", "used"}
    <3> HIDE DEF m, changed
    <3>7. LET v == UsedStore(s, i, q, m, changed)
          IN  /\ Sound(v) /\ Ahead(s, v) /\ Holds(s, v) /\ Beside(s, v)
              /\ \A y : Total(v, y) + Worth(s.items[i], y)
                        = Total(s, y) + (IF s.items[i].template = y THEN q ELSE 0)
      BY <1>1, <3>2, UsedKept
    <3>4. /\ Sound(t) /\ Ahead(s, t) /\ Holds(s, t) /\ Beside(s, t)
          /\ \A y : Total(t, y) + Worth(s.items[i], y) = Total(s, y) + (IF tm = y THEN q ELSE 0)
      BY <3>3, <3>7 DEF changed
    <3>5. \A y : Total(t, y) \in Nat BY <3>4, AmountNat DEF Sound
    <3>6. \A y : Total(t, y) = Total(s, y) BY <1>1, <1>2, <1>4, <3>4, <3>5
    <3> QED BY <1>4, <2>2, <2>5, <3>4, <3>6
  <2> QED BY <2>4, <2>5
<1>7. CASE tm \notin Charged
  <2>1. UsesUp(s.items[i]) BY <1>7 DEF UsesUp
  <2>2. t \in IF q = 1 THEN {terminate(s, i)} ELSE {Used(q - 1, n, {"quantity", "used"})}
    BY <1>7 DEF consume, UsedStore
  <2>4. CASE q = 1
    BY <1>5, <2>1, <2>2, <2>4
  <2>5. CASE q # 1
    <3>1. t = Used(q - 1, n, {"quantity", "used"}) BY <2>2, <2>5
    <3> DEFINE m == q - 1
    <3>2. m \in Nat /\ 1 <= m /\ m <= MaxStack[tm] /\ q = m + 1 BY <1>1, <2>5
    <3>3. t = Used(m, n, {"quantity", "used"}) BY <3>1
    <3> DEFINE changed == {"quantity", "used"}
    <3> HIDE DEF m, changed
    <3>7. LET v == UsedStore(s, i, m, n, changed)
          IN  /\ Sound(v) /\ Ahead(s, v) /\ Holds(s, v) /\ Beside(s, v)
              /\ \A y : Total(v, y) + Worth(s.items[i], y)
                        = Total(s, y) + (IF s.items[i].template = y THEN m ELSE 0)
      BY <1>1, <3>2, UsedKept
    <3>4. /\ Sound(t) /\ Ahead(s, t) /\ Holds(s, t) /\ Beside(s, t)
          /\ \A y : Total(t, y) + Worth(s.items[i], y) = Total(s, y) + (IF tm = y THEN m ELSE 0)
      BY <3>3, <3>7 DEF changed
    <3>5. \A y : Total(t, y) \in Nat BY <3>4, AmountNat DEF Sound
    <3>6. \A y : Total(t, y) + (IF tm = y THEN 1 ELSE 0) = Total(s, y)
      BY <1>2, <1>4, <3>2, <3>4, <3>5
    <3> QED BY <2>1, <3>4, <3>6
  <2> QED BY <2>4, <2>5
<1> QED BY <1>6, <1>7

-----------------------------------------------------------------------------
(* A camp: who enters it sets down what is carried, and its stock may go.   *)

\* What is carried is set down where it is.
Lowered(x) ==
  IF x.at.kind = "world" /\ x.at.mode = "carried"
  THEN Moved(x, OnProp(x.at.prop, "placed")) ELSE x

\* An item set down is on the prop it was on.
LEMMA LoweredIs ==
  ASSUME NEW s, Shaped(s), NEW i \in Ids
  PROVE  LET x == IF InWorld(s, i) /\ s.items[i].at.mode = "carried"
                  THEN [s.items[i] EXCEPT !.at.mode = "placed"] ELSE s.items[i]
             y == Lowered(s.items[i])
         IN  /\ x = y /\ IsItem(y) /\ y.template = s.items[i].template
             /\ y.quantity = s.items[i].quantity /\ y.state = s.items[i].state
             /\ y.at.kind = s.items[i].at.kind
             /\ y.at.kind = "world" => y.at.prop = s.items[i].at.prop
             /\ y.at.kind # "world" => y.at = s.items[i].at
<1>1. IsItem(s.items[i]) BY DEF Shaped
<1>2. CASE InWorld(s, i) /\ s.items[i].at.mode = "carried"
  <2> DEFINE p == s.items[i].at.prop
             m == s.items[i].at.mode
             at == OnProp(p, "placed")
             x == s.items[i]
  <2>1. p \in Nat /\ x.at = OnProp(p, m) BY <1>2, WhereItIs
  <2>2. "placed" \in Modes BY DEF Modes
  <2>3. IsPlace(at) BY <2>1, <2>2 DEF IsPlace
  <2>4. x.at.kind = "world" BY <1>2 DEF InWorld
  <2> HIDE DEF p, m
  <2>5. [x.at EXCEPT !.mode = "placed"] = at BY <2>1 DEF OnProp
  <2>6. [x EXCEPT !.at.mode = "placed"] = [x EXCEPT !.at = at] BY <2>5
  <2>7. Lowered(x) = Moved(x, at) BY <1>2, <2>4 DEF Lowered, p
  <2> HIDE DEF at, x
  <2>8. /\ [x EXCEPT !.at = at] = Moved(x, at) /\ IsItem(Moved(x, at))
        /\ Moved(x, at).template = x.template /\ Moved(x, at).quantity = x.quantity
        /\ Moved(x, at).state = x.state /\ Moved(x, at).at = at
    BY <1>1, <2>3, MovedIs DEF x
  <2>9. at.kind = "world" /\ at.prop = p BY PlaceKinds DEF at
  <2> QED BY <1>2, <2>4, <2>6, <2>7, <2>8, <2>9 DEF x, p
<1>3. CASE ~(InWorld(s, i) /\ s.items[i].at.mode = "carried")
  BY <1>1, <1>3 DEF Lowered, InWorld
<1> QED BY <1>2, <1>3

\* drop_carried_props is safe.
LEMMA SetDownSafe ==
  ASSUME NEW s, Sound(s)
  PROVE  LET t == SetDown(s)
         IN  /\ Safe(s, t) /\ Beside(s, t) /\ t.slots = s.slots /\ t.revision = s.revision
             /\ t.items = [i \in Ids |-> Lowered(s.items[i])]
<1> DEFINE f == [i \in Ids |-> Lowered(s.items[i])]
           t == [s EXCEPT !.items = f]
<1>1. Shaped(s) BY DEF Sound
<1>2. SetDown(s) = t
  <2> DEFINE g == [i \in Ids |->
               IF InWorld(s, i) /\ s.items[i].at.mode = "carried"
               THEN [s.items[i] EXCEPT !.at.mode = "placed"] ELSE s.items[i]]
  <2>1. ASSUME NEW i \in Ids PROVE g[i] = Lowered(s.items[i]) BY <1>1, LoweredIs
  <2>2. g = [i \in Ids |-> g[i]] OBVIOUS
  <2>3. SetDown(s) = [s EXCEPT !.items = g] BY DEF SetDown
  <2> HIDE DEF g
  <2>4. g = f BY <2>1, <2>2
  <2> QED BY <2>3, <2>4
<1>3. \A i \in Ids :
        /\ IsItem(f[i]) /\ f[i].template = s.items[i].template
        /\ f[i].quantity = s.items[i].quantity /\ f[i].state = s.items[i].state
        /\ f[i].at.kind = s.items[i].at.kind
        /\ f[i].at.kind = "world" => f[i].at.prop = s.items[i].at.prop
        /\ f[i].at.kind # "world" => f[i].at = s.items[i].at
  BY <1>1, LoweredIs
<1>4. f = [i \in Ids |-> f[i]] OBVIOUS
<1>5. \A i \in Ids : i >= s.nextItem => f[i] = EmptyItem
  BY PlaceKinds DEF Sound, Numbered, EmptyItem, Lowered
<1> HIDE DEF f
<1>6. /\ Shaped(t) /\ Beside(s, t) /\ t.items = f /\ t.slots = s.slots
      /\ t.revision = s.revision
  BY <1>1, <1>3, <1>4, ItemsShaped
<1> HIDE DEF t
<1>7. Ahead(s, t) BY <1>1, <1>6, AheadSame
<1>8. \A i \in Ids : /\ InWorld(t, i) <=> InWorld(s, i)
                     /\ Live(t, i) <=> Live(s, i)
                     /\ \A c, k : t.items[i].at = InSlot(c, k) <=> s.items[i].at = InSlot(c, k)
  BY <1>3, <1>6, PlaceKinds DEF InWorld, Live
<1>9. \A c \in Containers : \A k \in 1..Capacity[c] : s.slots[c][k] \in Ids \cup {0}
  BY <1>1 DEF Shaped
<1>10. SlotsAgree(t)
  BY <1>6, <1>8, <1>9 DEF Sound, SlotsAgree, Beside
<1>11. PropsAgree(t)
  BY <1>3, <1>6, <1>8 DEF Sound, InWorld, PropsAgree, Beside
<1>12. Numbered(t) BY <1>5, <1>6 DEF Sound, Numbered, Beside
<1>13. Measured(t)
  BY <1>3, <1>6, <1>8, <1>9, ItemStoreAssumption DEF Sound, Measured
<1>14. Sound(t) BY <1>6, <1>10, <1>11, <1>12, <1>13 DEF Sound, Beside
<1>15. Holds(s, t) BY <1>3, <1>6, <1>8 DEF Holds
<1>16. \A y : Total(t, y) = Total(s, y)
  BY <1>1, <1>3, <1>6, TotalSame DEF Worth
<1>17. Safe(s, t) BY <1>6, <1>7, <1>14, <1>15, <1>16 DEF Safe, Beside
<1> QED BY <1>2, <1>6, <1>17 DEF f

-----------------------------------------------------------------------------
\* g[k] is s with the first k slots of c emptied, and what was in them ended.
Clears(g, s, c, n) ==
  g = [k \in 0..n |-> IF k = 0 THEN s ELSE terminate(g[k - 1], s.slots[c][k])]

\* There is a function that clears, for every capacity.
LEMMA ClearsExists ==
  ASSUME NEW s, NEW c, NEW n \in Nat
  PROVE  \E g : Clears(g, s, c, n)
<1> DEFINE P(m) == \E g : Clears(g, s, c, m)
           T == {m \in Nat : ~P(m)}
<1>1. P(0)
  <2> DEFINE g == [k \in 0..0 |-> s]
  <2>1. Clears(g, s, c, 0) BY DEF Clears
  <2> QED BY <2>1
<1>2. ASSUME NEW m \in Nat, P(m) PROVE P(m + 1)
  <2>1. PICK g : Clears(g, s, c, m) BY <1>2
  <2> DEFINE h == [k \in 0..(m + 1) |-> IF k = m + 1 THEN terminate(g[m], s.slots[c][k])
                                        ELSE g[k]]
  <2>2. \A k \in 0..m : g[k] = IF k = 0 THEN s ELSE terminate(g[k - 1], s.slots[c][k])
    BY <2>1 DEF Clears
  <2>3. \A k \in 0..(m + 1) :
          h[k] = IF k = 0 THEN s ELSE terminate(h[k - 1], s.slots[c][k])
    BY <2>2
  <2> HIDE DEF h
  <2>4. h = [k \in 0..(m + 1) |-> h[k]] BY DEF h
  <2>5. Clears(h, s, c, m + 1) BY <2>3, <2>4 DEF Clears
  <2> QED BY <2>5
<1>3. T = {}
  <2> SUFFICES ASSUME T # {} PROVE FALSE OBVIOUS
  <2>1. PICK m \in T : \A k \in T : m <= k BY LeastNat
  <2>2. m \in Nat /\ ~P(m) OBVIOUS
  <2> HIDE DEF P
  <2>3. m # 0 BY <1>1, <2>2
  <2>4. m - 1 \in Nat /\ m - 1 < m BY <2>2, <2>3
  <2>5. P(m - 1) BY <2>1, <2>4
  <2>6. P(m - 1 + 1) BY <1>2, <2>4, <2>5
  <2> QED BY <2>2, <2>6
<1> QED BY <1>3

\* How much of template y is in each of the slots of c.
Kept(s, c, y) == [k \in 1..Capacity[c] |-> Amount(s, s.slots[c][k], y)]

\* Item j is in one of the first k slots of c.
Within(s, c, k, j) == \E n \in 1..Capacity[c] : n <= k /\ s.items[j].at = InSlot(c, n)

\* u is s with the first k slots of c emptied.
ClearInv(s, c, k, u) ==
  /\ Sound(u) /\ Ahead(s, u) /\ Beside(s, u)
  /\ \A d \in Containers : d # c => u.revision[d] = s.revision[d]
  /\ \A d \in Containers : \A n \in 1..Capacity[d] :
       u.slots[d][n] = IF d = c /\ n <= k THEN 0 ELSE s.slots[d][n]
  /\ \A j \in Ids : ~Within(s, c, k, j) => u.items[j] = s.items[j]
  /\ \A j \in Ids : /\ u.items[j].template = s.items[j].template
                    /\ u.items[j].state = s.items[j].state
  /\ \A y : Total(u, y) + SumTo(Kept(s, c, y), k) = Total(s, y)

\* What the slots of a container hold is a number.
LEMMA KeptNat ==
  ASSUME NEW s, Sound(s), NEW c \in Containers, NEW y
  PROVE  /\ Capacity[c] \in Nat /\ \A k \in 1..Capacity[c] : Kept(s, c, y)[k] \in Nat
         /\ \A k \in 0..Capacity[c] : SumTo(Kept(s, c, y), k) \in Nat
<1> DEFINE f == Kept(s, c, y)
<1>1. Capacity[c] \in Nat BY ItemStoreAssumption
<1>2. \A k \in 1..Capacity[c] : f[k] \in Nat
  <2> SUFFICES ASSUME NEW k \in 1..Capacity[c] PROVE f[k] \in Nat OBVIOUS
  <2> DEFINE i == s.slots[c][k]
  <2>1. f[k] = Amount(s, i, y) BY DEF Kept
  <2>2. Live(s, i) => s.items[i].quantity \in Nat BY LiveMade
  <2> QED BY <2>1, <2>2 DEF Amount
<1> HIDE DEF f
<1>3. \A k \in 0..Capacity[c] : SumTo(f, k) \in Nat
  BY <1>1, <1>2, SumNat
<1> QED BY <1>1, <1>2, <1>3 DEF f

\* Before the first slot is cleared,
LEMMA ClearStart ==
  ASSUME NEW s, Sound(s), NEW c \in Containers
  PROVE  ClearInv(s, c, 0, s)
BY AheadSame, SumStep, AmountNat, ItemStoreAssumption DEF Sound, ClearInv, Beside

\* after one more,
LEMMA ClearStep ==
  ASSUME NEW s, Sound(s), NEW c \in Containers, NEW k \in Nat, k + 1 \in 1..Capacity[c],
         NEW u, ClearInv(s, c, k, u)
  PROVE  ClearInv(s, c, k + 1, terminate(u, s.slots[c][k + 1]))
<1> DEFINE i == s.slots[c][k + 1]
           t == terminate(u, i)
           m == k + 1
           x == Ended(s.items[i])
<1>1. /\ Sound(u) /\ Ahead(s, u) /\ Beside(s, u)
      /\ \A d \in Containers : d # c => u.revision[d] = s.revision[d]
      /\ \A d \in Containers : \A n \in 1..Capacity[d] :
           u.slots[d][n] = IF d = c /\ n <= k THEN 0 ELSE s.slots[d][n]
      /\ \A j \in Ids : ~Within(s, c, k, j) => u.items[j] = s.items[j]
      /\ \A j \in Ids : /\ u.items[j].template = s.items[j].template
                        /\ u.items[j].state = s.items[j].state
      /\ \A y : Total(u, y) + SumTo(Kept(s, c, y), k) = Total(s, y)
  BY DEF ClearInv
<1>2. Shaped(s) /\ Shaped(u) /\ SlotsAgree(s) BY <1>1 DEF Sound
<1>3. m \in 1..Capacity[c] /\ m \in Nat /\ k \in 0..Capacity[c] /\ m \in 0..Capacity[c]
  BY KeptNat
<1>4. i \in Ids \cup {0} BY <1>2 DEF Shaped
<1>5. \A y : SumTo(Kept(s, c, y), m) = SumTo(Kept(s, c, y), k) + Amount(s, i, y)
  <2> SUFFICES ASSUME NEW y
               PROVE  SumTo(Kept(s, c, y), m) = SumTo(Kept(s, c, y), k) + Amount(s, i, y)
    OBVIOUS
  <2> DEFINE f == Kept(s, c, y)
  <2>1. f[m] = Amount(s, i, y) BY <1>3 DEF Kept
  <2> HIDE DEF f
  <2>2. SumTo(f, k + 1) = SumTo(f, k) + f[k + 1] BY SumStep
  <2> QED BY <2>1, <2>2 DEF f
<1>6. \A y : SumTo(Kept(s, c, y), k) \in Nat BY <1>3, KeptNat
<1>7. \A y : Total(s, y) \in Nat /\ Total(u, y) \in Nat BY <1>2, AmountNat
<1>8. \A n \in 1..Capacity[c] : n <= m <=> n <= k \/ n = m BY <1>3
<1>9. \A j \in Ids : Within(s, c, m, j) <=> Within(s, c, k, j) \/ s.items[j].at = InSlot(c, m)
  BY <1>3, <1>8 DEF Within
<1>10. CASE i = 0
  <2>1. 0 \notin Ids BY DEF Ids
  <2>2. ~Live(u, i) /\ ~Live(s, i) BY <1>10, <2>1 DEF Live
  <2>3. t = u BY <2>2 DEF terminate
  <2>4. \A y : Amount(s, i, y) = 0 BY <2>2 DEF Amount
  <2>5. \A y : Total(u, y) + SumTo(Kept(s, c, y), m) = Total(s, y)
    BY <1>1, <1>5, <1>6, <1>7, <2>4
  <2>6. \A d \in Containers : \A n \in 1..Capacity[d] :
          u.slots[d][n] = IF d = c /\ n <= m THEN 0 ELSE s.slots[d][n]
    BY <1>1, <1>8, <1>10
  <2>7. \A j \in Ids : ~Within(s, c, m, j) => u.items[j] = s.items[j] BY <1>1, <1>9
  <2>8. ClearInv(s, c, m, u) BY <1>1, <2>5, <2>6, <2>7 DEF ClearInv
  <2> QED BY <2>3, <2>8
<1>11. CASE i # 0
  <2>1. i \in Ids /\ s.items[i].at = InSlot(c, m)
    BY <1>2, <1>3, <1>4, <1>11 DEF SlotsAgree
  <2>2. ~Within(s, c, k, i)
    BY <1>3, <2>1, SameSlot DEF Within
  <2>3. u.items[i] = s.items[i] BY <1>1, <2>1, <2>2
  <2>4. s.items[i].at.kind = "inventory" /\ s.items[i].at.container = c
    BY <2>1, PlaceKinds
  <2>5. Live(s, i) /\ Live(u, i) BY <2>1, <2>3, <2>4 DEF Live
  <2>6. /\ Shaped(t) /\ Beside(u, t)
        /\ t.items = [u.items EXCEPT ![i] = Ended(u.items[i])]
        /\ \A d \in Containers : \A n \in 1..Capacity[d] :
             t.slots[d][n] = IF u.items[i].at = InSlot(d, n) THEN 0 ELSE u.slots[d][n]
        /\ Ahead(u, t)
        /\ \A d \in Containers : ~(InInventory(u, i) /\ u.items[i].at.container = d)
                                   => t.revision[d] = u.revision[d]
    BY <1>2, <2>1, <2>5, TerminateIs
  <2> HIDE DEF t, i, m
  <2>7. Effect(u, t, i, Ended(u.items[i])) /\ Fit(u, t, i, Ended(u.items[i]))
    BY <1>1, <2>5, <2>6, EndedFits
  <2>8. Sound(t) BY <1>1, <2>7, MovedSound
  <2>9. t.items = [u.items EXCEPT ![i] = x] /\ IsItem(x)
    BY <2>3, <2>6, <2>7 DEF Effect
  <2>10. x.template = s.items[i].template /\ x.state = s.items[i].state /\ x.at = Terminal
    BY DEF Ended
  <2> HIDE DEF x
  <2>11. \A j \in Ids : t.items[j] = IF j = i THEN x ELSE u.items[j]
    BY <1>2, <2>9 DEF Shaped
  <2>12. \A y : Total(t, y) + SumTo(Kept(s, c, y), m) = Total(s, y)
    <3> SUFFICES ASSUME NEW y PROVE Total(t, y) + SumTo(Kept(s, c, y), m) = Total(s, y)
      OBVIOUS
    <3>1. Total(t, y) + Worth(u.items[i], y) = Total(u, y) + Worth(x, y)
      BY <1>2, <2>1, <2>6, <2>9, TotalChange
    <3>2. Worth(x, y) = 0 BY <2>10, PlaceKinds DEF Worth
    <3>3. Amount(s, i, y) = Worth(u.items[i], y) /\ Amount(s, i, y) \in Nat
      BY <1>2, <2>1, <2>3, AmountNat
    <3>4. Total(t, y) \in Nat BY <2>6, AmountNat
    <3>5. SumTo(Kept(s, c, y), m) = SumTo(Kept(s, c, y), k) + Amount(s, i, y) BY <1>5
    <3>6. Total(u, y) + SumTo(Kept(s, c, y), k) = Total(s, y) BY <1>1
    <3> QED BY <1>6, <1>7, <3>1, <3>2, <3>3, <3>4, <3>5, <3>6
  <2>13. Ahead(s, t) BY <1>1, <1>2, <2>6, AheadTrans
  <2>14. Beside(s, t) BY <1>1, <2>6 DEF Beside
  <2>15. \A d \in Containers : d # c => t.revision[d] = s.revision[d]
    BY <1>1, <2>3, <2>4, <2>6
  <2>16. \A d \in Containers : \A n \in 1..Capacity[d] :
           t.slots[d][n] = IF d = c /\ n <= m THEN 0 ELSE s.slots[d][n]
    BY <1>1, <1>8, <2>1, <2>3, <2>6, SameSlot
  <2>17. \A j \in Ids : ~Within(s, c, m, j) => t.items[j] = s.items[j]
    BY <1>1, <1>9, <2>1, <2>11
  <2>18. \A j \in Ids : /\ t.items[j].template = s.items[j].template
                        /\ t.items[j].state = s.items[j].state
    BY <1>1, <2>10, <2>11
  <2>19. ClearInv(s, c, m, t)
    BY <2>8, <2>12, <2>13, <2>14, <2>15, <2>16, <2>17, <2>18 DEF ClearInv
  <2> QED BY <2>19 DEF t, i, m
<1> QED BY <1>10, <1>11

\* and after the last.
LEMMA ClearedIs ==
  ASSUME NEW s, Sound(s), NEW c \in Containers, NEW g, NEW n \in Nat, n = Capacity[c],
         Clears(g, s, c, n)
  PROVE  ClearInv(s, c, n, g[n])
<1> DEFINE Right(k) == ClearInv(s, c, k, g[k])
           T == {k \in 0..n : ~Right(k)}
<1>1. \A k \in 0..n : g[k] = IF k = 0 THEN s ELSE terminate(g[k - 1], s.slots[c][k])
  BY DEF Clears
<1>2. Right(0)
  BY <1>1, ClearStart
<1>3. ASSUME NEW k \in Nat, k + 1 <= n, Right(k) PROVE Right(k + 1)
  BY <1>1, <1>3, ClearStep
<1> HIDE DEF Right
<1>4. T = {}
  <2> SUFFICES ASSUME T # {} PROVE FALSE OBVIOUS
  <2>1. T \in SUBSET Nat OBVIOUS
  <2>2. PICK m \in T : \A k \in T : m <= k BY <2>1, LeastNat
  <2>3. m \in 0..n /\ ~Right(m) OBVIOUS
  <2>4. m # 0 BY <1>2, <2>3
  <2>5. m - 1 \in Nat /\ (m - 1) + 1 = m /\ m - 1 \in 0..n /\ m - 1 < m /\ m <= n
    BY <2>3, <2>4
  <2>6. Right(m - 1) BY <2>2, <2>5
  <2>7. Right((m - 1) + 1) BY <1>3, <2>5, <2>6
  <2> QED BY <2>3, <2>5, <2>7
<1> QED BY <1>4 DEF Right

\* A container goes with what was in it.
LEMMA DestroyKept ==
  ASSUME NEW s, Sound(s)
  PROVE  LET t == destroy_container(s, "stock")
         IN  /\ Sound(t) /\ Ahead(s, t) /\ t.open = s.open \ {"stock"}
             /\ t.nextItem = s.nextItem /\ t.nextProp = s.nextProp
             /\ \A d \in Containers : d # "stock" =>
                  t.revision[d] = s.revision[d] /\ t.slots[d] = s.slots[d]
             /\ \A j \in Ids : (~\E n \in 1..Capacity["stock"] : s.items[j].at = InSlot("stock", n))
                                 => t.items[j] = s.items[j]
             /\ \A j \in Ids : /\ t.items[j].template = s.items[j].template
                               /\ t.items[j].state = s.items[j].state
             /\ \A y : Total(t, y) + SumTo(Kept(s, "stock", y), Capacity["stock"]) = Total(s, y)
<1> DEFINE c == "stock"
           n == Capacity[c]
           g == CHOOSE f : Clears(f, s, c, n)
           u == g[n]
           P == u.open \ {c}
           v == [u EXCEPT !.open = P]
           e == <<>>
           l == [v.log EXCEPT ![c] = e]
           t == [v EXCEPT !.log = l]
<1>1. c \in Containers /\ n \in Nat BY ItemStoreAssumption
<1>2. destroy_container(s, c) = [u EXCEPT !.open = @ \ {c}, !.log[c] = <<>>]
  BY DEF destroy_container, Clears
<1>3. Clears(g, s, c, n)
  BY <1>1, ClearsExists
<1> HIDE DEF g
<1>4. ClearInv(s, c, n, u)
  <2>1. n = Capacity[c] OBVIOUS
  <2> HIDE DEF n, c
  <2> QED BY <1>1, <1>3, <2>1, ClearedIs
<1> HIDE DEF u
<1>5. /\ Sound(u) /\ Ahead(s, u) /\ Beside(s, u)
      /\ \A d \in Containers : d # c => u.revision[d] = s.revision[d]
      /\ \A d \in Containers : \A m \in 1..Capacity[d] :
           u.slots[d][m] = IF d = c /\ m <= n THEN 0 ELSE s.slots[d][m]
      /\ \A j \in Ids : ~Within(s, c, n, j) => u.items[j] = s.items[j]
      /\ \A j \in Ids : /\ u.items[j].template = s.items[j].template
                        /\ u.items[j].state = s.items[j].state
      /\ \A y : Total(u, y) + SumTo(Kept(s, c, y), n) = Total(s, y)
  BY <1>4 DEF ClearInv
<1>6. Shaped(u) /\ Shaped(s) BY <1>5 DEF Sound
<1>7. P \in SUBSET Containers BY <1>6 DEF Shaped
<1>8. destroy_container(s, c) = t
  <2>1. [u EXCEPT !.open = @ \ {c}, !.log[c] = <<>>] = [v EXCEPT !.log[c] = <<>>] OBVIOUS
  <2> HIDE DEF v
  <2>2. [v EXCEPT !.log[c] = <<>>] = t OBVIOUS
  <2> QED BY <1>2, <2>1, <2>2
<1>9. 0 \in Nat OBVIOUS
<1> HIDE DEF P
<1>10. /\ Shaped(v) /\ v.items = u.items /\ v.slots = u.slots /\ v.open = P
       /\ v.revision = u.revision /\ v.nextItem = u.nextItem
       /\ v.nextProp = u.nextProp /\ v.props = u.props
  BY <1>6, <1>7, <1>9, CountersShaped
<1> HIDE DEF v
<1>11. l = [d \in Containers |-> l[d]] /\ \A d \in Containers : Listed(l[d])
  <2>1. Listed(e) BY NoneSilent DEF Silent
  <2>2. v.log = [d \in Containers |-> v.log[d]] /\ \A d \in Containers : Listed(v.log[d])
    BY <1>10 DEF Shaped
  <2> HIDE DEF e
  <2> QED BY <2>1, <2>2
<1> HIDE DEF l, e
<1>12. /\ Shaped(t) /\ t.items = v.items /\ t.slots = v.slots /\ t.open = v.open
       /\ t.revision = v.revision /\ t.nextItem = v.nextItem
       /\ t.nextProp = v.nextProp /\ t.props = v.props
  <2>1. \A f : f = [d \in Containers |-> f[d]] /\ (\A d \in Containers : Listed(f[d])) =>
          LET x == [v EXCEPT !.log = f]
          IN  /\ Shaped(x) /\ x.items = v.items /\ x.slots = v.slots /\ x.open = v.open
              /\ x.revision = v.revision /\ x.nextItem = v.nextItem
              /\ x.nextProp = v.nextProp /\ x.props = v.props
    <3>1. Shaped(v) BY <1>10
    <3> QED BY <1>9, <3>1, CountersShaped
  <2> QED BY <1>11, <2>1
<1> HIDE DEF t
<1>13. /\ t.items = u.items /\ t.slots = u.slots /\ t.open = u.open \ {c}
       /\ t.revision = u.revision /\ t.nextItem = u.nextItem
       /\ t.nextProp = u.nextProp /\ t.props = u.props
  BY <1>10, <1>12 DEF P
<1>14. Sound(t)
  <2>1. /\ SlotsAgree(u) /\ PropsAgree(u) /\ Numbered(u) /\ Measured(u)
        /\ {"own", "arms"} \subseteq u.open
    BY <1>5 DEF Sound
  <2>2. \A m \in 1..n : u.slots[c][m] = 0 BY <1>1, <1>5
  <2>3. \A j \in Ids : \A m \in 1..n : u.items[j].at # InSlot(c, m)
    BY <1>1, <2>1, <2>2 DEF SlotsAgree, Ids
  <2>4. SlotsAgree(t)
    BY <1>13, <2>1, <2>3 DEF SlotsAgree
  <2>5. PropsAgree(t) BY <1>13, <2>1 DEF PropsAgree, InWorld
  <2>6. Numbered(t) BY <1>13, <2>1 DEF Numbered
  <2>7. Measured(t) BY <1>13, <2>1 DEF Measured, Live
  <2>8. {"own", "arms"} \subseteq t.open BY <1>13, <2>1
  <2> QED BY <1>12, <2>4, <2>5, <2>6, <2>7, <2>8 DEF Sound
<1>15. Ahead(s, t) BY <1>5, <1>13 DEF Ahead
<1>16. \A d \in Containers : d # c => t.revision[d] = s.revision[d] /\ t.slots[d] = s.slots[d]
  <2> SUFFICES ASSUME NEW d \in Containers, d # c
               PROVE  t.revision[d] = s.revision[d] /\ t.slots[d] = s.slots[d]
    OBVIOUS
  <2>1. /\ u.slots[d] \in [1..Capacity[d] -> Ids \cup {0}]
        /\ s.slots[d] \in [1..Capacity[d] -> Ids \cup {0}]
    BY <1>6 DEF Shaped
  <2>2. \A m \in 1..Capacity[d] : u.slots[d][m] = s.slots[d][m] BY <1>5
  <2>3. u.slots[d] = s.slots[d]
    <3> DEFINE I == 1..Capacity[d]
               a == u.slots[d]
               b == s.slots[d]
    <3>1. a = [m \in I |-> a[m]] /\ b = [m \in I |-> b[m]] BY <2>1
    <3>2. \A m \in I : a[m] = b[m] BY <2>2
    <3> HIDE DEF I, a, b
    <3>3. a = b BY <3>1, <3>2
    <3> QED BY <3>3 DEF a, b
  <2> QED BY <1>5, <1>13, <2>3
<1>17. \A j \in Ids : (~\E m \in 1..n : s.items[j].at = InSlot(c, m)) => t.items[j] = s.items[j]
  BY <1>5, <1>13 DEF Within
<1>18. \A y : Total(t, y) = Total(u, y)
  BY <1>6, <1>12, <1>13, TotalSame
<1>19. /\ \A j \in Ids : /\ t.items[j].template = s.items[j].template
                         /\ t.items[j].state = s.items[j].state
       /\ \A y : Total(t, y) + SumTo(Kept(s, c, y), n) = Total(s, y)
  BY <1>5, <1>13, <1>18
<1>20. t.open = s.open \ {c} /\ t.nextItem = s.nextItem /\ t.nextProp = s.nextProp
  BY <1>5, <1>13 DEF Beside
<1>21. destroy_container(s, "stock") = t BY <1>8
<1> HIDE DEF n
<1> QED BY <1>14, <1>15, <1>16, <1>17, <1>19, <1>20, <1>21 DEF n

-----------------------------------------------------------------------------
(* The weapon in hand.                                                     *)

\* The hand is empty, or holds a weapon there is, no fuller than its magazine.
HandOK(s, h) ==
  /\ h = [id |-> h.id, count |-> h.count, reserve |-> h.reserve]
  /\ h.id \in Ids \cup {0} /\ h.count \in 0..Magazine /\ h.reserve \in Nat
  /\ h.id # 0 => Live(s, h.id) /\ s.items[h.id].template \in Weapons

\* A loadout in step with revision r of the weapon container holds its weapon.
Current(s, h, r) ==
  r \in Nat /\ (r = s.revision["arms"] => h.id = s.slots["arms"][1])

\* The rounds of weapon i, in hand h or in its item in s.
RoundsOf(s, h, i) ==
  IF h.id = i THEN Magazine * h.reserve + h.count
  ELSE Magazine * s.items[i].state.reserve + s.items[i].state.count

\* An item with another state.
Stated(x, state) == [template |-> x.template, quantity |-> x.quantity, used |-> x.used,
                     state |-> state, at |-> x.at]

\* t is s with state where the state of item i was.
Restated(s, t, i, state) ==
  /\ Sound(t) /\ Ahead(s, t) /\ Beside(s, t) /\ t.slots = s.slots
  /\ t.items = [s.items EXCEPT ![i] = Stated(s.items[i], state)]
  /\ \A y : Total(t, y) = Total(s, y)

\* A field of the state written keeps the store sound and the totals as they are.
LEMMA SetPortableKept ==
  ASSUME NEW s, Sound(s), NEW i, Live(s, i), NEW field \in {"count", "reserve"},
         NEW v \in Nat, field = "count" => v <= Magazine
  PROVE  Restated(s, set_portable_uint32(s, i, field, v), i,
                  With(s.items[i].state, field, v))
<1> DEFINE state == With(s.items[i].state, field, v)
           t == set_portable_uint32(s, i, field, v)
           x == Stated(s.items[i], state)
<1>1. Shaped(s) /\ i \in Ids /\ IsItem(s.items[i])
      /\ 1 <= s.items[i].quantity /\ s.items[i].quantity <= MaxStack[s.items[i].template]
  BY LiveMade DEF Sound
<1>2. s.items[i].state \in States BY <1>1 DEF IsItem
<1>3. state \in States BY <1>2 DEF With, States
<1>4. LET a == set_portable_uint32(s, i, field, v)
          b == [s.items[i] EXCEPT !.state = With(s.items[i].state, field, v)]
      IN  /\ Shaped(a) /\ Beside(s, a) /\ a.items = [s.items EXCEPT ![i] = b]
          /\ a.slots = s.slots /\ Ahead(s, a)
  BY <1>1, SetPortableIs
<1>5. [s.items[i] EXCEPT !.state = state] = x /\ IsItem(x)
  BY <1>1, <1>3, ItemWith DEF Stated
<1>6. /\ Shaped(t) /\ Beside(s, t) /\ t.items = [s.items EXCEPT ![i] = x]
      /\ t.slots = s.slots /\ Ahead(s, t)
  BY <1>4, <1>5
<1>7. state.count <= s.items[i].state.count \/ (field = "count" /\ state.count <= Magazine)
  BY <1>2 DEF With, States
<1>8. s.items[i].template \in Weapons => state.count <= Magazine
  BY <1>1, <1>2, <1>3, <1>7, GameplayRequestsAssumption DEF Sound, Measured, States
<1>9. /\ x.at = s.items[i].at /\ x.template = s.items[i].template
      /\ x.quantity = s.items[i].quantity /\ x.state = state
  BY DEF Stated
<1> HIDE DEF state, t, x
<1>10. Effect(s, t, i, x) /\ Fit(s, t, i, x) BY <1>1, <1>5, <1>6, <1>8, <1>9, StayedFits
<1>11. Sound(t) BY <1>10, MovedSound
<1>12. \A y : Total(t, y) = Total(s, y)
  <2>1. \A j \in Ids : t.items[j] = IF j = i THEN x ELSE s.items[j] BY <1>1, <1>6 DEF Shaped
  <2>2. \A y : \A j \in Ids : Worth(t.items[j], y) = Worth(s.items[j], y)
    BY <1>9, <2>1 DEF Worth
  <2> QED BY <1>1, <1>6, <2>2, TotalSame
<1> QED BY <1>6, <1>11, <1>12 DEF Restated, state, t, x

\* What was in the hand is in the item it came from.
Loaded(h) == [count |-> h.count, reserve |-> h.reserve]

\* WrittenBack writes the hand over the state of its item.
LEMMA WrittenBackIs ==
  ASSUME NEW s, Sound(s), NEW h, HandOK(s, h), h.id # 0
  PROVE  Restated(s, WrittenBack(s, h), h.id, Loaded(h))
<1> DEFINE i == h.id
           u == set_portable_uint32(s, i, "count", h.count)
           t == set_portable_uint32(u, i, "reserve", h.reserve)
           sa == With(s.items[i].state, "count", h.count)
           sb == With(u.items[i].state, "reserve", h.reserve)
<1>1. WrittenBack(s, h) = t BY DEF WrittenBack
<1>2. /\ Live(s, i) /\ h.count \in Nat /\ h.count <= Magazine /\ h.reserve \in Nat /\ i \in Ids
  BY GameplayRequestsAssumption DEF HandOK, Live
<1>3. Shaped(s) /\ s.items[i].state \in States BY <1>2 DEF Sound, Shaped, IsItem
<1>4. Restated(s, u, i, sa) BY <1>2, SetPortableKept
<1> HIDE DEF u
<1>5. u.items[i] = Stated(s.items[i], sa) BY <1>2, <1>3, <1>4 DEF Restated, Shaped
<1>6. u.items[i].state = sa /\ u.items[i].at = s.items[i].at BY <1>5 DEF Stated
<1>7. Sound(u) /\ Live(u, i) BY <1>2, <1>4, <1>6 DEF Restated, Live
<1>8. Restated(u, t, i, sb)
  <2>1. "reserve" = "count" => h.reserve <= Magazine OBVIOUS
  <2> HIDE DEF i
  <2> QED BY <1>2, <1>7, <2>1, SetPortableKept
<1>9. sb = Loaded(h) BY <1>3, <1>6 DEF With, Loaded, States
<1> HIDE DEF sb, sa, t, i
<1>10. /\ Sound(t) /\ t.slots = s.slots
       /\ \A y : Total(t, y) = Total(s, y)
  BY <1>4, <1>8 DEF Restated
<1>11. Ahead(s, t)
  BY <1>3, <1>4, <1>8, AheadTrans DEF Restated, Sound
<1>12. Beside(s, t) BY <1>4, <1>8 DEF Restated, Beside
<1>13. t.items = [s.items EXCEPT ![i] = Stated(s.items[i], Loaded(h))]
  <2>1. t.items = [u.items EXCEPT ![i] = Stated(u.items[i], sb)] BY <1>8 DEF Restated
  <2>2. u.items = [s.items EXCEPT ![i] = Stated(s.items[i], sa)] BY <1>4 DEF Restated
  <2>3. Stated(u.items[i], sb) = Stated(s.items[i], Loaded(h)) BY <1>5, <1>9 DEF Stated
  <2>4. s.items = [j \in Ids |-> s.items[j]] BY <1>3 DEF Shaped
  <2> QED BY <2>1, <2>2, <2>3, <2>4
<1> QED BY <1>1, <1>10, <1>11, <1>12, <1>13 DEF Restated, i, t

\* A loadout that may have to follow the weapon container, and one that has.
Ready(s, h, r) == Sound(s) /\ HandOK(s, h) /\ Current(s, h, r)
InStep(s, h, r) ==
  Sound(s) /\ HandOK(s, h) /\ r = s.revision["arms"] /\ h.id = s.slots["arms"][1]

\* Every weapon of s is one of t still, with the rounds it had.
RoundsSame(s, h, t, k) ==
  \A i \in Ids : s.items[i].template \in Weapons =>
    t.items[i].template = s.items[i].template /\ RoundsOf(t, k, i) = RoundsOf(s, h, i)

\* Keeping the rounds is transitive.
LEMMA RoundsTrans ==
  ASSUME NEW s, NEW h, NEW t, NEW k, NEW u, NEW l,
         RoundsSame(s, h, t, k), RoundsSame(t, k, u, l)
  PROVE  RoundsSame(s, h, u, l)
BY DEF RoundsSame

\* The weapon container is open and has a slot.
LEMMA ArmsIs ==
  ASSUME NEW s, Sound(s)
  PROVE  /\ "arms" \in Containers /\ 1 \in 1..Capacity["arms"] /\ "arms" \in s.open
         /\ s.slots["arms"][1] \in Ids \cup {0} /\ s.revision["arms"] \in Nat
<1>1. "arms" \in Containers /\ Capacity["arms"] \in Nat \ {0} BY ItemStoreAssumption
<1>2. 1 \in 1..Capacity["arms"] BY <1>1
<1> QED BY <1>1, <1>2 DEF Sound, Shaped

\* The loadout stays ready while the store moves on without touching a weapon.
LEMMA ReadyAfter ==
  ASSUME NEW s, NEW h, NEW r, InStep(s, h, r), NEW t, Sound(t), Ahead(s, t), Holds(s, t)
  PROVE  Ready(t, h, r) /\ RoundsSame(s, h, t, h)
BY ArmsIs DEF InStep, Ahead, Current, HandOK, Holds, RoundsSame, RoundsOf, Ready

\* A hand rebuilt is in step.
LEMMA RebuiltOK ==
  ASSUME NEW t, Sound(t)
  PROVE  InStep(t, Rebuilt(t), t.revision["arms"])
<1> DEFINE i == t.slots["arms"][1]
<1>1. /\ "arms" \in Containers /\ 1 \in 1..Capacity["arms"] /\ i \in Ids \cup {0}
  BY ArmsIs
<1>2. 0 \in 0..Magazine /\ 0 \in Nat /\ Magazine \in Nat BY GameplayRequestsAssumption
<1>3. CASE i = 0
  BY <1>2, <1>3 DEF Rebuilt, InStep, HandOK, NoWeapon
<1>4. CASE i # 0
  <2> DEFINE h == [id |-> i, count |-> t.items[i].state.count,
                   reserve |-> t.items[i].state.reserve]
  <2>1. Rebuilt(t) = h BY <1>4 DEF Rebuilt
  <2>2. t.items[i].at = InSlot("arms", 1) BY <1>1, <1>4 DEF Sound, SlotsAgree
  <2>3. Live(t, i) BY <1>1, <1>4, <2>2, PlaceKinds DEF Live
  <2>4. t.items[i].template \in Weapons /\ t.items[i].state.count <= Magazine
    BY <1>1, <1>4 DEF Sound, Measured
  <2>5. t.items[i].state \in States BY <1>1, <1>4 DEF Sound, Shaped, IsItem
  <2>6. t.items[i].state.count \in 0..Magazine /\ t.items[i].state.reserve \in Nat
    BY <1>2, <2>4, <2>5 DEF States
  <2>7. HandOK(t, h) BY <1>1, <1>4, <2>3, <2>4, <2>6 DEF HandOK
  <2> QED BY <2>1, <2>7 DEF InStep
<1> QED BY <1>3, <1>4

\* What following the weapon container comes to.
Followed(s, h, g) ==
  /\ g = [store |-> g.store, hand |-> g.hand, synced |-> g.synced]
  /\ InStep(g.store, g.hand, g.synced) /\ RoundsSame(s, h, g.store, g.hand)
  /\ Ahead(s, g.store) /\ Beside(s, g.store) /\ g.store.slots = s.slots
  /\ \A i \in Ids : /\ g.store.items[i].template = s.items[i].template
                    /\ g.store.items[i].quantity = s.items[i].quantity
                    /\ g.store.items[i].at = s.items[i].at
  /\ \A y : Total(g.store, y) = Total(s, y)

\* An item restated is as it was but for its state.
LEMMA RestatedItems ==
  ASSUME NEW s, Sound(s), NEW t, NEW i \in Ids, NEW state, Restated(s, t, i, state)
  PROVE  /\ \A j \in Ids : /\ t.items[j].template = s.items[j].template
                           /\ t.items[j].quantity = s.items[j].quantity
                           /\ t.items[j].at = s.items[j].at
                           /\ j # i => t.items[j].state = s.items[j].state
         /\ t.items[i].state = state
<1>1. \A j \in Ids : t.items[j] = IF j = i THEN Stated(s.items[i], state) ELSE s.items[j]
  BY DEF Restated, Sound, Shaped
<1> QED BY <1>1 DEF Stated

\* sync_weapon_loadouts brings a loadout that is ready in step and loses no rounds.
LEMMA LoadoutFollows ==
  ASSUME NEW s, NEW h, NEW r, Ready(s, h, r)
  PROVE  Followed(s, h, Loadout(s, h, r))
<1> DEFINE g == Loadout(s, h, r)
           t == WrittenBack(s, h)
<1>1. Sound(s) /\ Shaped(s) /\ HandOK(s, h) /\ "arms" \in s.open BY ArmsIs DEF Ready, Sound
<1>2. Ahead(s, s) /\ Beside(s, s) BY <1>1, AheadSame DEF Beside
<1>3. CASE r = s.revision["arms"]
  <2>1. g = [store |-> s, hand |-> h, synced |-> r] BY <1>3 DEF Loadout
  <2>2. InStep(s, h, r) BY <1>1, <1>3 DEF InStep, Ready, Current
  <2> HIDE DEF g
  <2>3. g.store = s /\ g.hand = h /\ g.synced = r BY <2>1
  <2> QED BY <1>2, <2>1, <2>2, <2>3 DEF Followed, RoundsSame, g
<1>4. CASE r # s.revision["arms"]
  <2> DEFINE k == Rebuilt(t)
             n == t.revision["arms"]
  <2>1. g = [store |-> t, hand |-> k, synced |-> n] BY <1>1, <1>4 DEF Loadout
  <2>2. CASE h.id = 0
    <3>1. t = s BY <2>2 DEF WrittenBack
    <3> HIDE DEF t
    <3>2. InStep(t, k, n) BY <1>1, <3>1, RebuiltOK
    <3>3. RoundsSame(s, h, t, k)
      BY <2>2, <3>1 DEF RoundsSame, Ids, Rebuilt, NoWeapon, RoundsOf
    <3> HIDE DEF k, n, g
    <3>4. g.store = t /\ g.hand = k /\ g.synced = n BY <2>1
    <3> QED BY <1>2, <2>1, <3>1, <3>2, <3>3, <3>4 DEF Followed, g
  <2>3. CASE h.id # 0
    <3> DEFINE i == h.id
    <3>1. i \in Ids BY <1>1, <2>3 DEF HandOK
    <3>2. Restated(s, t, i, Loaded(h)) BY <1>1, <2>3, WrittenBackIs
    <3> HIDE DEF t
    <3>3. /\ Sound(t) /\ Ahead(s, t) /\ Beside(s, t) /\ t.slots = s.slots
          /\ \A y : Total(t, y) = Total(s, y)
      BY <3>2 DEF Restated
    <3> HIDE DEF i
    <3>4. /\ \A j \in Ids : /\ t.items[j].template = s.items[j].template
                            /\ t.items[j].quantity = s.items[j].quantity
                            /\ t.items[j].at = s.items[j].at
                            /\ j # i => t.items[j].state = s.items[j].state
          /\ t.items[i].state = Loaded(h)
      BY <1>1, <3>1, <3>2, RestatedItems
    <3>5. InStep(t, k, n) BY <3>3, RebuiltOK
    <3>6. RoundsSame(s, h, t, k)
      BY <3>4 DEF RoundsSame, Ids, Rebuilt, NoWeapon, RoundsOf, Loaded, i
    <3> HIDE DEF k, n, g
    <3>7. g.store = t /\ g.hand = k /\ g.synced = n BY <2>1
    <3> QED BY <2>1, <3>3, <3>4, <3>5, <3>6, <3>7 DEF Followed, g
  <2> QED BY <2>2, <2>3
<1> QED BY <1>3, <1>4

\* A step of the store, and the loadout after it.
LEMMA DoneFollows ==
  ASSUME NEW s, NEW h, NEW r, InStep(s, h, r), NEW t, Sound(t), Ahead(s, t), Holds(s, t)
  PROVE  LET g == Loadout(t, h, r)
         IN  Followed(t, h, g) /\ RoundsSame(s, h, g.store, g.hand)
<1> DEFINE g == Loadout(t, h, r)
<1>1. Ready(t, h, r) /\ RoundsSame(s, h, t, h) BY ReadyAfter
<1>2. Followed(t, h, g) BY <1>1, LoadoutFollows
<1> HIDE DEF g
<1>3. RoundsSame(t, h, g.store, g.hand) BY <1>2 DEF Followed
<1>4. RoundsSame(s, h, g.store, g.hand) BY <1>1, <1>3, RoundsTrans
<1> QED BY <1>2, <1>4 DEF g

\* The spare magazines written to the weapon's item, which is still in the hand.
LEMMA WriteBackFollows ==
  ASSUME NEW g, g = [store |-> g.store, hand |-> g.hand, synced |-> g.synced],
         InStep(g.store, g.hand, g.synced)
  PROVE  Followed(g.store, g.hand, write_back_weapon_states(g))
<1> DEFINE s == g.store
           h == g.hand
           i == h.id
           state == With(s.items[i].state, "reserve", h.reserve)
           t == IF i = 0 THEN s ELSE set_portable_uint32(s, i, "reserve", h.reserve)
           n == t.revision["arms"]
           k == write_back_weapon_states(g)
<1>1. k = [g EXCEPT !.store = t, !.synced = n] BY DEF write_back_weapon_states
<1>2. Sound(s) /\ Shaped(s) /\ HandOK(s, h) /\ h.id = s.slots["arms"][1] BY DEF InStep, Sound
<1>3. i \in Ids \cup {0} /\ h.reserve \in Nat BY <1>2 DEF HandOK
<1> HIDE DEF t, n, k
<1>4. /\ k = [store |-> t, hand |-> h, synced |-> n]
      /\ k.store = t /\ k.hand = h /\ k.synced = n
  BY <1>1
<1>5. /\ Sound(t) /\ Ahead(s, t) /\ Beside(s, t) /\ t.slots = s.slots
      /\ \A y : Total(t, y) = Total(s, y)
      /\ \A j \in Ids : /\ t.items[j].template = s.items[j].template
                        /\ t.items[j].quantity = s.items[j].quantity
                        /\ t.items[j].at = s.items[j].at
                        /\ j # i => t.items[j].state = s.items[j].state
  <2>1. CASE i = 0
    <3>1. t = s BY <2>1 DEF t
    <3>2. Ahead(s, s) BY <1>2, AheadSame
    <3> HIDE DEF s
    <3> QED BY <1>2, <3>1, <3>2 DEF Beside
  <2>2. CASE i # 0
    <3>1. Live(s, i) /\ i \in Ids BY <1>2, <1>3, <2>2 DEF HandOK
    <3>2. t = set_portable_uint32(s, i, "reserve", h.reserve) BY <2>2 DEF t
    <3> HIDE DEF i, s
    <3>3. Restated(s, t, i, state)
      <4> DEFINE v == h.reserve
      <4>1. v \in Nat BY <1>3
      <4>2. "reserve" = "count" => v <= Magazine OBVIOUS
      <4> HIDE DEF v
      <4>3. Restated(s, set_portable_uint32(s, i, "reserve", v), i,
                     With(s.items[i].state, "reserve", v))
        BY <1>2, <3>1, <4>1, <4>2, SetPortableKept
      <4> QED BY <3>2, <4>3 DEF v
    <3> HIDE DEF state
    <3>4. \A j \in Ids : /\ t.items[j].template = s.items[j].template
                         /\ t.items[j].quantity = s.items[j].quantity
                         /\ t.items[j].at = s.items[j].at
                         /\ j # i => t.items[j].state = s.items[j].state
      BY <1>2, <3>1, <3>3, RestatedItems
    <3> QED BY <3>3, <3>4 DEF Restated
  <2> QED BY <2>1, <2>2
<1> HIDE DEF s
<1>6. HandOK(t, h) BY <1>2, <1>3, <1>5 DEF HandOK, Live
<1>7. InStep(t, h, n) BY <1>2, <1>5, <1>6 DEF InStep, n
<1>8. RoundsSame(s, h, t, h) BY <1>5 DEF RoundsSame, RoundsOf
<1>9. Followed(s, h, k) BY <1>4, <1>5, <1>7, <1>8 DEF Followed
<1> QED BY <1>9 DEF k, s

\* A tick's two steps after one another.
LEMMA FollowedTrans ==
  ASSUME NEW s, NEW h, NEW g, NEW k, Sound(s), Followed(s, h, g),
         Followed(g.store, g.hand, k)
  PROVE  Followed(s, h, k)
BY AheadTrans, RoundsTrans DEF Sound, Followed, InStep, Beside

-----------------------------------------------------------------------------
\* What a committed request leaves behind it.
Leaves(s, h, g) ==
  /\ g = [store |-> g.store, hand |-> g.hand, synced |-> g.synced]
  /\ Ready(g.store, g.hand, g.synced) /\ RoundsSame(s, h, g.store, g.hand)
  /\ g.store.nextItem <= s.nextItem + 1 /\ g.store.nextProp <= s.nextProp + 1

\* A store that kept its weapons leaves the loadout ready.
LEMMA PlainLeaves ==
  ASSUME NEW s, NEW h, NEW r, InStep(s, h, r), NEW t, Sound(t), Ahead(s, t), Holds(s, t),
         t.nextItem <= s.nextItem + 1, t.nextProp <= s.nextProp + 1,
         NEW g, g = [store |-> t, hand |-> h, synced |-> r]
  PROVE  Leaves(s, h, g)
BY ReadyAfter DEF Leaves

\* The weapon put down to make room is followed before the transfer.
LEMMA TransferLeaves ==
  ASSUME InStep(store, hand, synced), store.nextItem \in Ids, NEW i, NEW q \in Nat \ {0},
         NEW g \in Transfer(store, i, q)
  PROVE  Leaves(store, hand, g) /\ \A y : Total(g.store, y) = Total(store, y)
<1> DEFINE s == store
           tm == s.items[i].template
           c == Own(tm)
           held == s.slots["arms"][1]
           g0 == [store |-> s, hand |-> hand, synced |-> synced]
           cl == IF tm \in Weapons /\ held # 0 THEN server_drop_inventory_item(g0, held) ELSE g0
<1>1. /\ InInventory(s, i) /\ s.items[i].at.container = "stock" /\ q <= s.items[i].quantity
      /\ g \in {[cl EXCEPT !.store = u] : u \in transfer_to_container(cl.store, i, q, c)}
  BY LiveMade DEF Transfer, InStep, InInventory, Live
<1>2. PICK u \in transfer_to_container(cl.store, i, q, c) : g = [cl EXCEPT !.store = u]
  BY <1>1
<1>3. Sound(s) /\ Shaped(s) /\ i \in Ids BY <1>1 DEF InStep, Sound, InInventory
<1>4. c \in Containers /\ c \in s.open
  BY <1>3, ItemStoreAssumption DEF Own, Sound
<1>5. s.nextItem \in Nat /\ s.nextProp \in Nat BY <1>3 DEF Shaped
<1>6. /\ cl = [store |-> cl.store, hand |-> cl.hand, synced |-> cl.synced]
      /\ InStep(cl.store, cl.hand, cl.synced) /\ RoundsSame(s, hand, cl.store, cl.hand)
      /\ cl.store.nextItem = s.nextItem /\ cl.store.nextProp <= s.nextProp + 1
      /\ cl.store.open = s.open
      /\ cl.store.items[i].at = s.items[i].at /\ cl.store.items[i].quantity = s.items[i].quantity
      /\ \A y : Total(cl.store, y) = Total(s, y)
  <2>1. CASE tm \in Weapons /\ held # 0
    <3> DEFINE d == move_to_world(spawn_prop(s), held, s.nextProp, "placed")
    <3>1. cl = Loadout(d, hand, synced) BY <2>1 DEF server_drop_inventory_item
    <3>2. held \in Ids /\ s.items[held].at = InSlot("arms", 1)
      BY <1>3, <2>1, ArmsIs DEF Sound, SlotsAgree
    <3>3. Live(s, held) /\ held # i /\ "placed" \in Modes
      BY <1>1, <3>2, PlaceKinds DEF Live, Modes
    <3>4. LET a == move_to_world(spawn_prop(s), held, s.nextProp, "placed")
          IN  /\ Safe(s, a) /\ a.nextItem = s.nextItem /\ a.nextProp = s.nextProp + 1
              /\ a.items = [s.items EXCEPT ![held] = Moved(s.items[held], OnProp(s.nextProp, "placed"))]
      <4> DEFINE mode == "placed"
      <4>1. mode \in Modes BY <3>3
      <4> HIDE DEF mode, held, s
      <4>2. LET a == move_to_world(spawn_prop(s), held, s.nextProp, mode)
            IN  /\ Safe(s, a) /\ a.nextItem = s.nextItem /\ a.nextProp = s.nextProp + 1
                /\ a.items = [s.items EXCEPT ![held] = Moved(s.items[held], OnProp(s.nextProp, mode))]
        BY <1>3, <3>3, <4>1, OntoPropSafe
      <4> QED BY <4>2 DEF mode
    <3> HIDE DEF held
    <3>5. /\ Safe(s, d) /\ d.nextItem = s.nextItem /\ d.nextProp = s.nextProp + 1
          /\ d.items[i] = s.items[i]
      BY <1>3, <3>3, <3>4 DEF Shaped
    <3> HIDE DEF d, cl
    <3>6. Followed(d, hand, cl) /\ RoundsSame(s, hand, cl.store, cl.hand)
      BY <3>1, <3>5, DoneFollows DEF Safe
    <3> HIDE DEF s
    <3>7. cl.store.items[i].at = s.items[i].at /\ cl.store.items[i].quantity = s.items[i].quantity
      BY <1>3, <3>5, <3>6 DEF Followed
    <3>8. cl.store.nextItem = s.nextItem /\ cl.store.nextProp = s.nextProp + 1
          /\ cl.store.open = s.open
      BY <3>5, <3>6 DEF Followed, Beside, Safe
    <3>9. \A y : Total(cl.store, y) = Total(s, y) BY <3>5, <3>6 DEF Followed, Safe
    <3> QED BY <1>5, <3>6, <3>7, <3>8, <3>9 DEF Followed
  <2>2. CASE ~(tm \in Weapons /\ held # 0)
    <3>1. cl = g0 BY <2>2
    <3> HIDE DEF cl
    <3> QED BY <1>5, <3>1 DEF RoundsSame
  <2> QED BY <2>1, <2>2
<1> HIDE DEF cl, s, c
<1>7. InInventory(cl.store, i) /\ q <= cl.store.items[i].quantity /\ Sound(cl.store)
      /\ cl.store.nextItem \in Ids /\ c \in cl.store.open
  BY <1>1, <1>4, <1>6 DEF InInventory, InStep, s
<1>8. Safe(cl.store, u) /\ u.nextItem <= cl.store.nextItem + 1
      /\ u.nextProp = cl.store.nextProp
  BY <1>2, <1>4, <1>7, TransferSafe
<1>9. /\ g = [store |-> u, hand |-> cl.hand, synced |-> cl.synced]
      /\ g.store = u /\ g.hand = cl.hand /\ g.synced = cl.synced
  BY <1>2, <1>6
<1>10. Ready(u, cl.hand, cl.synced) /\ RoundsSame(cl.store, cl.hand, u, cl.hand)
  BY <1>6, <1>8, ReadyAfter DEF Safe
<1>11. RoundsSame(s, hand, u, cl.hand) BY <1>6, <1>10, RoundsTrans
<1>12. u.nextItem <= s.nextItem + 1 /\ u.nextProp <= s.nextProp + 1 BY <1>6, <1>8
<1>13. \A y : Total(u, y) = Total(s, y) BY <1>6, <1>8 DEF Safe
<1> QED BY <1>9, <1>10, <1>11, <1>12, <1>13 DEF Leaves, s

\* One of template y is used up by request r.
UsedBy(s, r, y) ==
  IF r.action = "Consume" /\ UsesUp(s.items[r.item]) /\ s.items[r.item].template = y
  THEN 1 ELSE 0

\* So does a safe one, with every total kept.
LEMMA SafeLeaves ==
  ASSUME NEW s, NEW h, NEW r, InStep(s, h, r), NEW t, Safe(s, t),
         t.nextItem <= s.nextItem + 1, t.nextProp <= s.nextProp + 1,
         NEW g, g = [store |-> t, hand |-> h, synced |-> r]
  PROVE  Leaves(s, h, g) /\ g.store = t /\ \A y : Total(g.store, y) = Total(s, y)
BY PlainLeaves DEF Safe

\* Whatever a committed request leads to leaves the loadout ready, and the totals
\* short of what it used.
LEMMA CommittedLeaves ==
  ASSUME InStep(store, hand, synced), Bounded, NEW r \in Requests, NEW g \in Committed(r)
  PROVE  /\ Leaves(store, hand, g)
         /\ \A y : Total(g.store, y) + UsedBy(store, r, y) = Total(store, y)
<1> DEFINE i == r.item
           q == r.quantity
           Plain(S) == {[store |-> x, hand |-> hand, synced |-> synced] : x \in S}
<1>1. i \in Ids /\ q \in Nat \ {0} /\ r.action \in Asks BY DEF Requests
<1>2. Sound(store) /\ Shaped(store) BY DEF InStep, Sound
<1>3. store.nextItem \in Ids /\ store.nextItem \in Nat /\ store.nextProp \in Nat
  BY <1>2 DEF Bounded, Sound, Numbered, Shaped, Ids
<1>4. \A y : Total(store, y) \in Nat BY <1>2, AmountNat
<1>5. ASSUME r.action # "Consume", Leaves(store, hand, g),
             \A y : Total(g.store, y) = Total(store, y)
      PROVE  /\ Leaves(store, hand, g)
             /\ \A y : Total(g.store, y) + UsedBy(store, r, y) = Total(store, y)
  BY <1>4, <1>5 DEF UsedBy
<1>6. ASSUME r.action # "Consume", NEW t, g = [store |-> t, hand |-> hand, synced |-> synced],
             Safe(store, t), t.nextItem <= store.nextItem + 1,
             t.nextProp <= store.nextProp + 1
      PROVE  /\ Leaves(store, hand, g)
             /\ \A y : Total(g.store, y) + UsedBy(store, r, y) = Total(store, y)
  BY <1>5, <1>6, SafeLeaves
<1>7. CASE r.action = "Consume"
  <2>1. g \in Plain(Consume(store, i)) BY <1>7 DEF Committed
  <2>2. PICK t \in Consume(store, i) : g = [store |-> t, hand |-> hand, synced |-> synced]
    BY <2>1
  <2>3. /\ InInventory(store, i) /\ store.items[i].template \notin Weapons
        /\ t \in consume(store, i)
    BY <2>2 DEF Consume, OwnedBy
  <2>4. Live(store, i) BY <2>3 DEF InInventory, Live
  <2>5. /\ Sound(t) /\ Ahead(store, t) /\ Holds(store, t) /\ Beside(store, t)
        /\ \A y : Total(t, y)
                    + (IF UsesUp(store.items[i]) /\ store.items[i].template = y THEN 1 ELSE 0)
                  = Total(store, y)
    BY <1>2, <2>3, <2>4, ConsumeKept
  <2>6. t.nextItem <= store.nextItem + 1 /\ t.nextProp <= store.nextProp + 1
    BY <1>3, <2>5 DEF Beside
  <2>7. Leaves(store, hand, g) BY <2>2, <2>5, <2>6, PlainLeaves
  <2>8. \A y : Total(t, y) + UsedBy(store, r, y) = Total(store, y) BY <1>7, <2>5 DEF UsedBy
  <2>9. g.store = t BY <2>2
  <2> QED BY <2>7, <2>8, <2>9
<1>8. CASE r.action = "Pickup"
  BY <1>2, <1>6, <1>8, PickupSafe DEF Committed
<1>9. CASE r.action = "Carry"
  BY <1>2, <1>6, <1>9, CarrySafe DEF Committed
<1>10. CASE r.action \in {"Place", "Throw"}
  <2> DEFINE mode == IF r.action = "Place" THEN "placed" ELSE "flight"
  <2>1. g \in Plain(PutDown(store, i, q, mode)) BY <1>10 DEF Committed, Place, Throw
  <2>2. mode \in Modes BY DEF Modes
  <2> HIDE DEF mode
  <2>3. PICK t \in PutDown(store, i, q, mode) :
          g = [store |-> t, hand |-> hand, synced |-> synced]
    BY <2>1
  <2>4. /\ Safe(store, t) /\ t.nextItem <= store.nextItem + 1
        /\ t.nextProp <= store.nextProp + 1
    BY <1>1, <1>2, <1>3, <2>2, <2>3, PutDownSafe
  <2> QED BY <1>6, <1>10, <2>3, <2>4
<1>11. CASE r.action = "Transfer"
  BY <1>1, <1>3, <1>5, <1>11, TransferLeaves DEF Committed
<1> QED BY <1>1, <1>7, <1>8, <1>9, <1>10, <1>11 DEF Asks

-----------------------------------------------------------------------------
(* The steps of the server's world.                                        *)

\* The counters within their bounds, and what was used up.
Counted ==
  /\ store.nextItem <= MaxItems + 1 /\ store.nextProp <= MaxProps + 1
  /\ spent \in [Templates -> Nat]

\* What a step keeps: the loadout in step, the bounds, and every quantity.
ServerKept ==
  /\ InStep(store, hand, synced)' /\ Counted'
  /\ \A y \in Templates : spent'[y] + Total(store', y) = spent[y] + Total(store, y)

\* A step that only lets the loadout follow keeps it all.
LEMMA FollowedKeeps ==
  ASSUME InStep(store, hand, synced), Counted, NEW g, Followed(store, hand, g),
         store' = g.store, hand' = g.hand, synced' = g.synced, spent' = spent
  PROVE  ServerKept /\ RoundsSame(store, hand, store', hand')
BY DEF Followed, InStep, HandOK, Live, Counted, Beside, ServerKept

\* A decision keeps it all, committed, rejected or repeated,
LEMMA DecideKeeps ==
  ASSUME InStep(store, hand, synced), Counted, NEW id, NEW r \in Requests, Decide(id, r)
  PROVE  ServerKept /\ RoundsSame(store, hand, store', hand')
<1>1. Ready(store, hand, synced)
  BY ArmsIs DEF InStep, Ready, Current
<1>2. CASE sync_weapon_loadouts(store) /\ spent' = spent
  <2> DEFINE g == Loadout(store, hand, synced)
  <2>1. store' = g.store /\ hand' = g.hand /\ synced' = g.synced
    BY <1>2 DEF sync_weapon_loadouts
  <2>2. Followed(store, hand, g) BY <1>1, LoadoutFollows
  <2> HIDE DEF g
  <2> QED BY <1>2, <2>1, <2>2, FollowedKeeps
<1>3. CASE /\ Bounded
           /\ \E g \in Committed(r) :
                LET done == Loadout(g.store, g.hand, g.synced)
                IN store' = done.store /\ hand' = done.hand /\ synced' = done.synced
           /\ spent' = IF r.action = "Consume" /\ UsesUp(store.items[r.item])
                       THEN [spent EXCEPT ![store.items[r.item].template] = @ + 1]
                       ELSE spent
  <2>1. PICK g \in Committed(r) :
          LET done == Loadout(g.store, g.hand, g.synced)
          IN store' = done.store /\ hand' = done.hand /\ synced' = done.synced
    BY <1>3
  <2> DEFINE k == Loadout(g.store, g.hand, g.synced)
  <2>2. store' = k.store /\ hand' = k.hand /\ synced' = k.synced BY <2>1
  <2>3. /\ Leaves(store, hand, g)
        /\ \A y : Total(g.store, y) + UsedBy(store, r, y) = Total(store, y)
    BY <1>3, CommittedLeaves
  <2>4. Followed(g.store, g.hand, k) BY <2>3, LoadoutFollows DEF Leaves
  <2> HIDE DEF k
  <2>5. RoundsSame(store, hand, k.store, k.hand) BY <2>3, <2>4, RoundsTrans DEF Leaves, Followed
  <2>6. InStep(k.store, k.hand, k.synced) /\ Beside(g.store, k.store)
        /\ \A y : Total(k.store, y) = Total(g.store, y)
    BY <2>4 DEF Followed
  <2>7. InStep(store, hand, synced)' BY <2>2, <2>6 DEF InStep, HandOK, Live
  <2>8. store'.nextItem <= MaxItems + 1 /\ store'.nextProp <= MaxProps + 1
    <3>1. /\ store.nextItem \in Nat /\ store.nextProp \in Nat
          /\ g.store.nextItem \in Nat /\ g.store.nextProp \in Nat
      BY <2>3 DEF InStep, Leaves, Ready, Sound, Shaped
    <3>2. MaxItems \in Nat /\ MaxProps \in Nat BY ItemStoreAssumption
    <3> QED BY <1>3, <2>2, <2>3, <2>6, <3>1, <3>2 DEF Bounded, Leaves, Beside
  <2>9. /\ spent' \in [Templates -> Nat]
        /\ \A y \in Templates : spent'[y] = spent[y] + UsedBy(store, r, y)
    <3>1. spent \in [Templates -> Nat] BY DEF Counted
    <3> DEFINE tm == store.items[r.item].template
               up == r.action = "Consume" /\ UsesUp(store.items[r.item])
    <3>2. spent' = IF up THEN [spent EXCEPT ![tm] = @ + 1] ELSE spent BY <1>3
    <3>3. \A y : UsedBy(store, r, y) = IF up /\ tm = y THEN 1 ELSE 0 BY DEF UsedBy
    <3> HIDE DEF tm, up
    <3>4. CASE up
      <4> DEFINE f == [spent EXCEPT ![tm] = @ + 1]
      <4>1. spent' = f BY <3>2, <3>4
      <4>2. \A y \in Templates : f[y] = spent[y] + (IF tm = y THEN 1 ELSE 0) BY <3>1
      <4>3. f \in [Templates -> Nat]
        <5>1. f = [y \in Templates |-> f[y]] BY <3>1
        <5>2. \A y \in Templates : f[y] \in Nat
          <6> SUFFICES ASSUME NEW y \in Templates PROVE f[y] \in Nat OBVIOUS
          <6>1. spent[y] \in Nat /\ f[y] = spent[y] + (IF tm = y THEN 1 ELSE 0) BY <3>1, <4>2
          <6> HIDE DEF f
          <6> QED BY <6>1
        <5> HIDE DEF f
        <5> QED BY <5>1, <5>2
      <4> HIDE DEF f
      <4> QED BY <3>3, <3>4, <4>1, <4>2, <4>3
    <3>5. CASE ~up BY <3>1, <3>2, <3>3, <3>5
    <3> QED BY <3>4, <3>5
  <2>10. \A y : Total(k.store, y) \in Nat /\ Total(store, y) \in Nat
    BY <2>6, AmountNat DEF InStep, Sound
  <2>11. \A y \in Templates : spent'[y] + Total(store', y) = spent[y] + Total(store, y)
    BY <2>2, <2>3, <2>6, <2>9, <2>10 DEF UsedBy, Counted
  <2>12. Counted' BY <2>8, <2>9 DEF Counted
  <2> QED BY <2>2, <2>5, <2>7, <2>11, <2>12 DEF ServerKept
<1> QED BY <1>2, <1>3 DEF Decide

\* and so does a tick,
LEMMA TickKeeps ==
  ASSUME InStep(store, hand, synced), Counted, Tick
  PROVE  ServerKept /\ RoundsSame(store, hand, store', hand')
<1> DEFINE g == Loadout(store, hand, synced)
           k == write_back_weapon_states(g)
<1>1. Ready(store, hand, synced)
  BY ArmsIs DEF InStep, Ready, Current
<1>2. store' = k.store /\ hand' = k.hand /\ synced' = k.synced /\ spent' = spent
  BY DEF Tick
<1>3. Followed(store, hand, g) BY <1>1, LoadoutFollows
<1> HIDE DEF g
<1>4. Followed(g.store, g.hand, k) BY <1>3, WriteBackFollows DEF Followed
<1> HIDE DEF k
<1>5. Followed(store, hand, k) BY <1>3, <1>4, FollowedTrans DEF InStep
<1> QED BY <1>2, <1>5, FollowedKeeps

\* and so does a landing,
LEMMA LandKeeps ==
  ASSUME InStep(store, hand, synced), Counted, Land
  PROVE  ServerKept /\ RoundsSame(store, hand, store', hand')
<1>1. PICK i \in Ids : InWorld(store, i) /\ store' = set_world_mode(store, i, "placed")
  BY DEF Land
<1>2. hand' = hand /\ synced' = synced /\ spent' = spent BY DEF Land
<1> DEFINE mode == "placed"
           t == set_world_mode(store, i, mode)
<1>3. mode \in Modes BY DEF Modes
<1>4. Sound(store) /\ Shaped(store) BY DEF InStep, Sound
<1>5. store' = t BY <1>1
<1> HIDE DEF mode
<1>6. Safe(store, t) /\ Beside(store, t) BY <1>1, <1>3, <1>4, SetModeSafe
<1>7. t.slots = store.slots /\ t.revision = store.revision
  BY <1>1, <1>3, <1>4, SetModeIs
<1> HIDE DEF t
<1>8. Sound(t) /\ Ahead(store, t) /\ Holds(store, t) BY <1>6 DEF Safe
<1>9. Ready(t, hand, synced) /\ RoundsSame(store, hand, t, hand) BY <1>8, ReadyAfter
<1>10. InStep(t, hand, synced) BY <1>7, <1>9 DEF Ready, InStep
<1>11. InStep(store, hand, synced)' BY <1>2, <1>5, <1>10 DEF InStep, HandOK, Live
<1>12. Counted' BY <1>2, <1>5, <1>6 DEF Counted, Beside
<1>13. \A y : Total(t, y) = Total(store, y) BY <1>6 DEF Safe
<1> QED BY <1>2, <1>5, <1>9, <1>11, <1>12, <1>13 DEF ServerKept

\* an entry,
LEMMA EnterKeeps ==
  ASSUME InStep(store, hand, synced), Counted, enter_shelter
  PROVE  ServerKept /\ RoundsSame(store, hand, store', hand')
<1> DEFINE t == SetDown(store)
<1>1. store' = t /\ hand' = hand /\ synced' = synced /\ spent' = spent BY DEF enter_shelter
<1>2. Sound(store) BY DEF InStep
<1>3. /\ Safe(store, t) /\ Beside(store, t) /\ t.slots = store.slots
      /\ t.revision = store.revision
  BY <1>2, SetDownSafe
<1> HIDE DEF t
<1>4. Sound(t) /\ Ahead(store, t) /\ Holds(store, t) BY <1>3 DEF Safe
<1>5. Ready(t, hand, synced) /\ RoundsSame(store, hand, t, hand) BY <1>4, ReadyAfter
<1>6. InStep(t, hand, synced) BY <1>3, <1>5 DEF Ready, InStep
<1>7. InStep(store, hand, synced)' BY <1>1, <1>6 DEF InStep, HandOK, Live
<1>8. Counted' BY <1>1, <1>3 DEF Counted, Beside
<1>9. \A y : Total(t, y) = Total(store, y) BY <1>3 DEF Safe
<1> QED BY <1>1, <1>5, <1>7, <1>8, <1>9 DEF ServerKept

\* and a camp's destruction.
LEMMA DestroyKeeps ==
  ASSUME InStep(store, hand, synced), Counted, destroy_camp
  PROVE  ServerKept /\ RoundsSame(store, hand, store', hand')
<1> DEFINE s == store
           c == "stock"
           n == Capacity[c]
           t == destroy_container(s, c)
<1>1. /\ store' = t /\ hand' = hand /\ synced' = synced
      /\ spent' = [y \in Templates |-> spent[y] + SumTo(Kept(s, c, y), n)]
  BY DEF destroy_camp, Kept
<1>2. Sound(s) /\ Shaped(s) BY DEF InStep, Sound
<1>3. /\ Sound(t) /\ Ahead(s, t)
      /\ t.nextItem = s.nextItem /\ t.nextProp = s.nextProp
      /\ \A d \in Containers : d # "stock" =>
           t.revision[d] = s.revision[d] /\ t.slots[d] = s.slots[d]
      /\ \A j \in Ids : (~\E k \in 1..n : s.items[j].at = InSlot(c, k))
                          => t.items[j] = s.items[j]
      /\ \A j \in Ids : /\ t.items[j].template = s.items[j].template
                        /\ t.items[j].state = s.items[j].state
      /\ \A y : Total(t, y) + SumTo(Kept(s, c, y), n) = Total(s, y)
  BY <1>2, DestroyKept
<1>4. c \in Containers /\ n \in Nat /\ n \in 0..n BY ItemStoreAssumption
<1>5. \A y : SumTo(Kept(s, c, y), n) \in Nat BY <1>2, <1>4, KeptNat
<1> HIDE DEF t, n
<1>6. t.revision["arms"] = s.revision["arms"] /\ t.slots["arms"] = s.slots["arms"]
  BY <1>2, <1>3, ArmsIs
<1>7. HandOK(t, hand)
  <2>1. HandOK(s, hand) BY DEF InStep
  <2>2. ASSUME hand.id # 0 PROVE Live(t, hand.id) /\ t.items[hand.id].template \in Weapons
    <3>1. hand.id \in Ids /\ s.items[hand.id].at = InSlot("arms", 1)
      BY <1>2, <2>2, ArmsIs DEF InStep, Sound, SlotsAgree
    <3>2. \A k : s.items[hand.id].at # InSlot(c, k) BY <3>1, SameSlot
    <3>3. t.items[hand.id] = s.items[hand.id] BY <1>3, <3>1, <3>2
    <3> QED BY <2>1, <2>2, <3>1, <3>3 DEF HandOK, Live
  <2> QED BY <2>1, <2>2 DEF HandOK
<1>8. InStep(t, hand, synced) BY <1>3, <1>6, <1>7 DEF InStep
<1>9. InStep(store, hand, synced)' BY <1>1, <1>8 DEF InStep, HandOK, Live
<1>10. spent' \in [Templates -> Nat] BY <1>1, <1>5 DEF Counted
<1>11. Counted' BY <1>1, <1>3, <1>10 DEF Counted
<1>12. \A y : Total(t, y) \in Nat /\ Total(s, y) \in Nat
  BY <1>2, <1>3, AmountNat DEF Sound
<1>13. \A y \in Templates : spent'[y] + Total(store', y) = spent[y] + Total(store, y)
  BY <1>1, <1>3, <1>5, <1>12 DEF Counted
<1>14. RoundsSame(store, hand, store', hand') BY <1>1, <1>3 DEF RoundsSame, RoundsOf
<1> QED BY <1>9, <1>11, <1>13, <1>14 DEF ServerKept

\* A shot takes one round of the weapon in hand.
LEMMA FireKeeps ==
  ASSUME InStep(store, hand, synced), Counted, Fire
  PROVE  /\ ServerKept
         /\ \A i \in Ids : store.items[i].template \in Weapons =>
              \/ RoundsOf(store', hand', i) = RoundsOf(store, hand, i)
              \/ hand.id = i /\ RoundsOf(store', hand', i) = RoundsOf(store, hand, i) - 1
<1>1. /\ hand.count > 0 /\ hand' = [hand EXCEPT !.count = @ - 1]
      /\ store' = store /\ synced' = synced /\ spent' = spent
  BY DEF Fire
<1>2. HandOK(store, hand) BY DEF InStep
<1>3. hand = [id |-> hand.id, count |-> hand.count, reserve |-> hand.reserve] BY <1>2 DEF HandOK
<1> DEFINE n == hand.count - 1
<1>4. hand' = [id |-> hand.id, count |-> n, reserve |-> hand.reserve] BY <1>1, <1>3
<1>5. Magazine \in Nat /\ hand.count \in 0..Magazine /\ hand.reserve \in Nat
  BY <1>2, GameplayRequestsAssumption DEF HandOK
<1>6. n \in 0..Magazine /\ n = hand.count - 1 BY <1>1, <1>5
<1> HIDE DEF n
<1>7. hand'.id = hand.id /\ hand'.count = n /\ hand'.reserve = hand.reserve BY <1>4
<1>8. HandOK(store, hand)' BY <1>1, <1>2, <1>4, <1>6, <1>7 DEF HandOK, Live
<1>9. InStep(store, hand, synced)' BY <1>1, <1>7, <1>8 DEF InStep
<1>10. Counted' BY <1>1 DEF Counted
<1>11. ServerKept BY <1>1, <1>9, <1>10 DEF ServerKept
<1>12. ASSUME NEW i \in Ids, hand.id # i
       PROVE RoundsOf(store', hand', i) = RoundsOf(store, hand, i)
  BY <1>1, <1>7, <1>12 DEF RoundsOf
<1>13. ASSUME NEW i \in Ids, hand.id = i
       PROVE RoundsOf(store', hand', i) = RoundsOf(store, hand, i) - 1
  <2> DEFINE m == Magazine * hand.reserve
  <2>1. m \in Nat BY <1>5
  <2>2. RoundsOf(store', hand', i) = m + n /\ RoundsOf(store, hand, i) = m + hand.count
    BY <1>7, <1>13 DEF RoundsOf
  <2> HIDE DEF m
  <2> QED BY <1>5, <1>6, <2>1, <2>2
<1> QED BY <1>11, <1>12, <1>13

\* One magazine fewer.
LEMMA OneLess ==
  ASSUME NEW a \in Nat, NEW b \in Nat, b > 0
  PROVE  a * (b - 1) + a = a * b
OBVIOUS

\* A reload takes what was left in the magazine.
LEMMA ReloadKeeps ==
  ASSUME InStep(store, hand, synced), Counted, Reload
  PROVE  /\ ServerKept
         /\ \A i \in Ids : store.items[i].template \in Weapons =>
              \/ RoundsOf(store', hand', i) = RoundsOf(store, hand, i)
              \/ hand.id = i /\ RoundsOf(store', hand', i) = RoundsOf(store, hand, i) - hand.count
<1>1. /\ hand.reserve > 0 /\ hand' = [hand EXCEPT !.count = Magazine, !.reserve = @ - 1]
      /\ store' = store /\ synced' = synced /\ spent' = spent
  BY DEF Reload
<1>2. HandOK(store, hand) BY DEF InStep
<1>3. hand = [id |-> hand.id, count |-> hand.count, reserve |-> hand.reserve] BY <1>2 DEF HandOK
<1> DEFINE n == hand.reserve - 1
<1>4. hand' = [id |-> hand.id, count |-> Magazine, reserve |-> n] BY <1>1, <1>3
<1>5. Magazine \in Nat /\ hand.count \in 0..Magazine /\ hand.reserve \in Nat
      /\ Magazine \in 0..Magazine
  BY <1>2, GameplayRequestsAssumption DEF HandOK
<1>6. n \in Nat BY <1>1, <1>5
<1>7. Magazine * n + Magazine = Magazine * hand.reserve BY <1>1, <1>5, OneLess
<1> HIDE DEF n
<1>8. hand'.id = hand.id /\ hand'.count = Magazine /\ hand'.reserve = n BY <1>4
<1>9. HandOK(store, hand)' BY <1>1, <1>2, <1>4, <1>5, <1>6, <1>8 DEF HandOK, Live
<1>10. InStep(store, hand, synced)' BY <1>1, <1>8, <1>9 DEF InStep
<1>11. Counted' BY <1>1 DEF Counted
<1>12. ServerKept BY <1>1, <1>10, <1>11 DEF ServerKept
<1>13. ASSUME NEW i \in Ids, hand.id # i
       PROVE RoundsOf(store', hand', i) = RoundsOf(store, hand, i)
  BY <1>1, <1>8, <1>13 DEF RoundsOf
<1>14. ASSUME NEW i \in Ids, hand.id = i
       PROVE RoundsOf(store', hand', i) = RoundsOf(store, hand, i) - hand.count
  <2> DEFINE m == Magazine * hand.reserve
  <2>1. m \in Nat BY <1>5
  <2>2. RoundsOf(store', hand', i) = m /\ RoundsOf(store, hand, i) = m + hand.count
    BY <1>7, <1>8, <1>14 DEF RoundsOf
  <2> HIDE DEF m
  <2> QED BY <1>5, <2>1, <2>2
<1> QED BY <1>12, <1>13, <1>14

-----------------------------------------------------------------------------
(* The world as it begins.                                                 *)

\* An item not yet made is nowhere.
LEMMA EmptyIs ==
  /\ IsItem(EmptyItem) /\ EmptyItem.at = Nowhere /\ EmptyItem.template = "none"
  /\ Nowhere.kind = "none" /\ \A c, k : Nowhere # InSlot(c, k)
BY PlaceKinds DEF NoState, States, IsPlace, IsItem, EmptyItem

\* The store with its containers open and empty,
LEMMA OpenedIs ==
  /\ Opened = [EmptyStore EXCEPT !.open = Opened.open]
  /\ Opened.open = {"own", "arms", "stock"} /\ Opened.items = EmptyStore.items
  /\ Opened.slots = EmptyStore.slots /\ Opened.revision = EmptyStore.revision
  /\ Opened.log = EmptyStore.log /\ Opened.nextItem = 1 /\ Opened.nextProp = 1
  /\ Opened.props = {}
<1> DEFINE I == [i \in Ids |-> EmptyItem]
           S == [c \in Containers |-> [k \in 1..Capacity[c] |-> 0]]
           R == [c \in Containers |-> 0]
           L == [c \in Containers |-> <<>>]
           St(o) == [items |-> I, slots |-> S, open |-> o, revision |-> R, log |-> L,
                     nextItem |-> 1, nextProp |-> 1, props |-> {}]
           o1 == {"own"}
           o2 == {"own", "arms"}
           o3 == {"own", "arms", "stock"}
<1>1. EmptyStore = St({}) BY DEF EmptyStore
<1> HIDE DEF I, S, R, L
<1>2. create_container(St({}), "own") = St(o1) BY DEF create_container
<1>3. create_container(St(o1), "arms") = St(o2) BY DEF create_container
<1>4. create_container(St(o2), "stock") = St(o3) BY DEF create_container
<1>5. Opened = St(o3) BY <1>1, <1>2, <1>3, <1>4 DEF Opened
<1> QED BY <1>1, <1>5

\* which is sound and holds nothing.
LEMMA OpenedSound ==
  /\ Sound(Opened) /\ \A y : Total(Opened, y) = 0
  /\ Opened.revision["arms"] = 0 /\ \A c \in Containers : \A k \in 1..Capacity[c] : Opened.slots[c][k] = 0
<1> DEFINE s == Opened
<1>1. /\ s.items = [i \in Ids |-> EmptyItem]
      /\ s.slots = [c \in Containers |-> [k \in 1..Capacity[c] |-> 0]]
      /\ s.open = {"own", "arms", "stock"}
      /\ s.revision = [c \in Containers |-> 0]
      /\ s.log = [c \in Containers |-> <<>>]
      /\ s.nextItem = 1 /\ s.nextProp = 1 /\ s.props = {}
  BY OpenedIs DEF EmptyStore
<1>2. s = [items |-> s.items, slots |-> s.slots, open |-> s.open,
           revision |-> s.revision, log |-> s.log,
           nextItem |-> s.nextItem, nextProp |-> s.nextProp, props |-> s.props]
  BY OpenedIs DEF EmptyStore
<1> HIDE DEF s
<1>3. Listed(<<>>) BY NoneSilent DEF Silent
<1>4. Containers = {"own", "arms", "stock"} BY ItemStoreAssumption
<1>5. Shaped(s)
  BY <1>1, <1>2, <1>3, <1>4, EmptyIs DEF Shaped
<1>6. \A i \in Ids : s.items[i] = EmptyItem BY <1>1
<1>7. \A c \in Containers : \A k \in 1..Capacity[c] : s.slots[c][k] = 0 BY <1>1
<1>8. \A i \in Ids : ~InWorld(s, i) /\ ~Live(s, i) /\ \A c, k : s.items[i].at # InSlot(c, k)
  BY <1>6, EmptyIs DEF InWorld, Live
<1>9. SlotsAgree(s) BY <1>7, <1>8 DEF SlotsAgree
<1>10. PropsAgree(s) BY <1>8 DEF PropsAgree
<1>11. Numbered(s) BY <1>1, <1>6 DEF Numbered
<1>12. Measured(s)
  BY <1>4, <1>6, <1>7, <1>8, EmptyIs, ItemStoreAssumption, GameplayRequestsAssumption DEF
    Measured
<1>13. Sound(s) BY <1>1, <1>5, <1>9, <1>10, <1>11, <1>12 DEF Sound
<1>14. \A y : Total(s, y) = 0
  <2> SUFFICES ASSUME NEW y PROVE Total(s, y) = 0 OBVIOUS
  <2> DEFINE f == [i \in Ids |-> Amount(s, i, y)]
  <2>1. \A k \in 1..MaxItems : f[k] = 0 BY <1>8 DEF Amount, Ids
  <2>2. MaxItems \in Nat BY ItemStoreAssumption
  <2> HIDE DEF f
  <2>3. SumTo(f, MaxItems) = 0 BY <2>1, <2>2, SumZero
  <2> QED BY <2>3 DEF Total, f
<1>15. s.revision["arms"] = 0 BY <1>1, <1>4
<1> QED BY <1>7, <1>13, <1>14, <1>15 DEF s

\* What was put into a container leaves the revisions of the others.
LEMMA PutRevision ==
  ASSUME NEW s, Shaped(s), NEW i \in Ids, NEW c \in Containers, NEW k \in 1..Capacity[c],
         NEW d \in Containers, d # c
  PROVE  Put(s, i, c, k).revision[d] = s.revision[d]
<1> DEFINE x == [s.items[i] EXCEPT !.at = InSlot(c, k)]
           u == [s EXCEPT !.items[i] = x]
           v == [u EXCEPT !.slots[c][k] = i]
           t == Put(s, i, c, k)
<1>1. IsItem(s.items[i]) BY DEF Shaped
<1>2. IsPlace(InSlot(c, k)) BY DEF IsPlace
<1>3. IsItem(x) BY <1>1, <1>2, ItemWith
<1>4. t = publish_delta(v, c, "Add", k, k, i, {}) BY DEF Put
<1> HIDE DEF x, t
<1>5. /\ Shaped(u) /\ Beside(s, u) /\ u.items = [s.items EXCEPT ![i] = x]
      /\ u.slots = s.slots /\ u.revision = s.revision
  BY <1>3, ItemShaped
<1> HIDE DEF u
<1>6. /\ Shaped(v) /\ Beside(u, v) /\ v.items = u.items /\ v.revision = u.revision
      /\ v.slots = [u.slots EXCEPT ![c] = [u.slots[c] EXCEPT ![k] = i]]
      /\ \A e \in Containers : \A n \in 1..Capacity[e] :
           v.slots[e][n] = IF e = c /\ n = k THEN i ELSE u.slots[e][n]
  BY <1>5, SlotShaped
<1> HIDE DEF v
<1>7. /\ Shaped(t) /\ Beside(v, t) /\ t.items = v.items /\ t.slots = v.slots
      /\ t.revision = [v.revision EXCEPT ![c] = @ + 1]
  BY <1>4, <1>6, PublishShaped
<1>8. t.revision[d] = s.revision[d] BY <1>5, <1>6, <1>7 DEF Shaped
<1> QED BY <1>8 DEF t

\* What of template y the first things of a list are.
Listing(contents, y) ==
  [n \in 1..Len(contents) |->
     IF contents[n].template = y THEN contents[n].quantity ELSE 0]

\* What is listed may be made of the catalog.
LEMMA HoldingIs ==
  ASSUME NEW contents \in Seq(Holdings), NEW n \in 1..Len(contents)
  PROVE  LET x == contents[n]
         IN  /\ x.template \in Templates /\ x.quantity \in Nat /\ 1 <= x.quantity
             /\ x.quantity <= MaxStack[x.template] /\ x.state \in States
             /\ x.template \in Weapons => x.state.count <= Magazine
BY ElementOfSeq DEF Holdings, States

\* One more thing of the list.
LEMMA ListingStep ==
  ASSUME NEW contents \in Seq(Holdings), NEW y, NEW n \in Nat, n + 1 <= Len(contents)
  PROVE  SumTo(Listing(contents, y), n + 1)
           = SumTo(Listing(contents, y), n)
             + (IF contents[n + 1].template = y THEN contents[n + 1].quantity ELSE 0)
<1> DEFINE f == Listing(contents, y)
<1>1. n + 1 \in 1..Len(contents) BY LenProperties
<1>2. f[n + 1] = IF contents[n + 1].template = y THEN contents[n + 1].quantity ELSE 0
  BY <1>1 DEF Listing
<1> HIDE DEF f
<1>3. SumTo(f, n + 1) = SumTo(f, n) + f[n + 1] BY SumStep
<1> QED BY <1>2, <1>3 DEF f

\* The stock after its k-th item.
StockNext(s, k) ==
  CHOOSE t \in create_inventory_item(s, StockContents[k].template, StockContents[k].quantity,
                                     StockContents[k].state, "stock") : TRUE
Stocks(g, n) == g = [k \in 0..n |-> IF k = 0 THEN Opened ELSE StockNext(g[k - 1], k)]

\* There is a function that stocks, for every list.
LEMMA StocksExists ==
  ASSUME NEW n \in Nat
  PROVE  \E g : Stocks(g, n)
<1> DEFINE P(m) == \E g : Stocks(g, m)
           T == {m \in Nat : ~P(m)}
<1>1. P(0)
  <2> DEFINE g == [k \in 0..0 |-> Opened]
  <2>1. Stocks(g, 0) BY DEF Stocks
  <2> QED BY <2>1
<1>2. ASSUME NEW m \in Nat, P(m) PROVE P(m + 1)
  <2>1. PICK g : Stocks(g, m) BY <1>2
  <2> DEFINE h == [k \in 0..(m + 1) |-> IF k = m + 1 THEN StockNext(g[m], k) ELSE g[k]]
  <2>2. \A k \in 0..m : g[k] = IF k = 0 THEN Opened ELSE StockNext(g[k - 1], k)
    BY <2>1 DEF Stocks
  <2>3. \A k \in 0..(m + 1) : h[k] = IF k = 0 THEN Opened ELSE StockNext(h[k - 1], k)
    BY <2>2
  <2> HIDE DEF h
  <2>4. h = [k \in 0..(m + 1) |-> h[k]] BY DEF h
  <2>5. Stocks(h, m + 1) BY <2>3, <2>4 DEF Stocks
  <2> QED BY <2>5
<1>3. T = {}
  <2> SUFFICES ASSUME T # {} PROVE FALSE OBVIOUS
  <2>1. PICK m \in T : \A k \in T : m <= k BY LeastNat
  <2>2. m \in Nat /\ ~P(m) OBVIOUS
  <2> HIDE DEF P
  <2>3. m # 0 BY <1>1, <2>2
  <2>4. m - 1 \in Nat /\ m - 1 < m BY <2>2, <2>3
  <2>5. P(m - 1) BY <2>1, <2>4
  <2>6. P(m - 1 + 1) BY <1>2, <2>4, <2>5
  <2> QED BY <2>2, <2>6
<1> QED BY <1>3

\* The stock with n things in it.
StockInv(s, n) ==
  /\ Sound(s) /\ "stock" \in s.open /\ s.nextItem = n + 1 /\ s.nextProp = 1
  /\ \A k \in 1..Capacity["stock"] : s.slots["stock"][k] = 0 <=> k > n
  /\ s.slots["arms"][1] = 0 /\ s.revision["arms"] = 0
  /\ \A y : Total(s, y) = SumTo(Listing(StockContents, y), n)

\* Before the first item of the stock,
LEMMA StockStart == StockInv(Opened, 0)
<1>1. \A y : SumTo(Listing(StockContents, y), 0) = 0
  <2> SUFFICES ASSUME NEW y PROVE SumTo(Listing(StockContents, y), 0) = 0 OBVIOUS
  <2> DEFINE n == 0
  <2>1. n \in Nat OBVIOUS
  <2> QED BY <2>1, SumStep
<1>2. \A k \in 1..Capacity["stock"] : k > 0 BY ItemStoreAssumption
<1>3. "stock" \in Containers /\ "arms" \in Containers /\ 1 \in 1..Capacity["arms"]
  BY ItemStoreAssumption, OpenedSound, ArmsIs
<1>4. Opened.nextItem = 1 /\ Opened.nextProp = 1 /\ "stock" \in Opened.open BY OpenedIs
<1>5. \A k \in 1..Capacity["stock"] : Opened.slots["stock"][k] = 0 <=> k > 0
  BY <1>2, <1>3, OpenedSound
<1>6. Opened.slots["arms"][1] = 0 BY <1>3, OpenedSound
<1>7. \A y : Total(Opened, y) = SumTo(Listing(StockContents, y), 0) BY <1>1, OpenedSound
<1> QED BY <1>4, <1>5, <1>6, <1>7, OpenedSound DEF StockInv

\* and after one more: a slot is free, for the stock lists no more than it has slots.
LEMMA StockStep ==
  ASSUME NEW s, NEW n \in Nat, n + 1 <= Len(StockContents), StockInv(s, n)
  PROVE  StockInv(StockNext(s, n + 1), n + 1)
<1> DEFINE x == StockContents[n + 1]
           tm == x.template
           q == x.quantity
           state == x.state
           c == "stock"
           k == find_empty_slot(s, c, tm)
           free == {j \in 1..Capacity[c] : s.slots[c][j] = 0}
           m == n + 1
           t == Put(Made(s, tm, q, 0, state), s.nextItem, c, k)
<1>1. /\ tm \in Templates /\ q \in Nat /\ 1 <= q /\ q <= MaxStack[tm] /\ state \in States
      /\ tm \in Weapons => state.count <= Magazine
  BY GameplayRequestsAssumption, LenProperties, HoldingIs
<1>2. /\ Capacity[c] \in Nat /\ Len(StockContents) <= Capacity[c] /\ Len(StockContents) \in Nat
      /\ Len(StockContents) <= MaxItems /\ MaxItems \in Nat /\ c \in Containers
      /\ "arms" \in Containers
  BY GameplayRequestsAssumption, LenProperties, ItemStoreAssumption
<1>3. /\ Sound(s) /\ c \in s.open /\ s.nextItem = n + 1 /\ s.nextProp = 1
      /\ \A j \in 1..Capacity[c] : s.slots[c][j] = 0 <=> j > n
      /\ s.slots["arms"][1] = 0 /\ s.revision["arms"] = 0
      /\ \A y : Total(s, y) = SumTo(Listing(StockContents, y), n)
  BY DEF StockInv
<1>4. Shaped(s) BY <1>3 DEF Sound
<1>5. m \in free /\ \A j \in free : m <= j BY <1>2, <1>3
<1>6. k = m
  <2>1. Least(free) \in free /\ \A j \in free : Least(free) <= j
    <3> HIDE DEF free
    <3> QED BY <1>5 DEF Least
  <2>2. Least(free) = m
    <3> DEFINE l == Least(free)
    <3>1. l \in 1..Capacity[c]
      <4>1. free \subseteq 1..Capacity[c] OBVIOUS
      <4> HIDE DEF free
      <4> QED BY <2>1, <4>1
    <3>2. l <= m /\ m <= l
      <4> HIDE DEF free
      <4> QED BY <1>5, <2>1
    <3>3. m \in Nat OBVIOUS
    <3> HIDE DEF l, m
    <3> QED BY <1>2, <3>1, <3>2, <3>3 DEF l
  <2>3. free # {} BY <1>5
  <2>4. k = Least(free) BY <2>3 DEF find_empty_slot
  <2> QED BY <2>2, <2>4
<1>7. StockNext(s, m) = t
  <2>1. create_inventory_item(s, tm, q, state, c) = {t}
    BY <1>6 DEF create_inventory_item
  <2> HIDE DEF t
  <2> QED BY <2>1 DEF StockNext
<1>8. m \in 1..Capacity[c] /\ s.slots[c][m] = 0 /\ s.nextItem \in Ids BY <1>2, <1>3, <1>5 DEF Ids
<1>9. /\ Sound(t) /\ Ahead(s, t) /\ Holds(s, t) /\ t.open = s.open
      /\ t.nextItem = s.nextItem + 1 /\ t.nextProp = s.nextProp
      /\ \A d \in Containers : \A j \in 1..Capacity[d] :
           t.slots[d][j] = IF d = c /\ j = m THEN s.nextItem ELSE s.slots[d][j]
      /\ \A y : Total(t, y) = Total(s, y) + (IF tm = y THEN q ELSE 0)
  <2> DEFINE e == 0
  <2>1. e \in Nat OBVIOUS
  <2>2. t = Put(Made(s, tm, q, e, state), s.nextItem, c, m) BY <1>6
  <2>3. c = "arms" => tm \in Weapons OBVIOUS
  <2> HIDE DEF t, e, k, m, tm, q, state, c
  <2>4. LET v == Put(Made(s, tm, q, e, state), s.nextItem, c, m)
        IN  /\ Sound(v) /\ Ahead(s, v) /\ Holds(s, v) /\ v.open = s.open
            /\ v.nextItem = s.nextItem + 1 /\ v.nextProp = s.nextProp
            /\ \A d \in Containers : \A j \in 1..Capacity[d] :
                 v.slots[d][j] = IF d = c /\ j = m THEN s.nextItem ELSE s.slots[d][j]
            /\ \A y : Total(v, y) = Total(s, y) + (IF tm = y THEN q ELSE 0)
    <3>1. Sound(s) /\ s.nextItem \in Ids BY <1>3, <1>8
    <3>2. tm \in Templates /\ q \in Nat /\ 1 <= q /\ q <= MaxStack[tm] BY <1>1
    <3>3. state \in States /\ (tm \in Weapons => state.count <= Magazine) BY <1>1
    <3>4. c \in Containers /\ c \in s.open BY <1>2, <1>3
    <3>5. m \in 1..Capacity[c] /\ s.slots[c][m] = 0 BY <1>8
    <3> QED BY <3>1, <3>2, <3>3, <3>4, <3>5, <2>1, <2>3, MadeSlotted
  <2> QED BY <2>2, <2>4
<1>10. t.revision["arms"] = 0
  <2> DEFINE e == 0
             u == Made(s, tm, q, e, state)
  <2>1. e \in Nat OBVIOUS
  <2>2. t = Put(u, s.nextItem, c, m) BY <1>6
  <2> HIDE DEF t, e, k, m, tm, q, state
  <2>3. LET a == Made(s, tm, q, e, state)
            b == [template |-> tm, quantity |-> q, used |-> e, state |-> state,
                  at |-> Nowhere]
        IN  /\ Shaped(a) /\ IsItem(b) /\ a.items = [s.items EXCEPT ![s.nextItem] = b]
            /\ a.slots = s.slots /\ a.open = s.open
            /\ a.revision = s.revision /\ a.nextItem = s.nextItem + 1
            /\ a.nextProp = s.nextProp /\ a.props = s.props
    BY <1>1, <1>4, <1>8, <2>1, MadeIs
  <2>4. Shaped(u) /\ u.revision = s.revision BY <2>3
  <2> HIDE DEF u
  <2>5. "arms" # c OBVIOUS
  <2>6. Put(u, s.nextItem, c, m).revision["arms"] = u.revision["arms"]
    BY <1>2, <1>8, <2>4, <2>5, PutRevision
  <2> QED BY <1>3, <2>2, <2>4, <2>6
<1> HIDE DEF t
<1>11. t.slots["arms"][1] = 0 BY <1>3, <1>9, ArmsIs
<1>12. \A j \in 1..Capacity[c] : t.slots[c][j] = 0 <=> j > m
  BY <1>2, <1>3, <1>9
<1>13. \A y : Total(t, y) = SumTo(Listing(StockContents, y), m)
  BY <1>3, <1>9, ListingStep, GameplayRequestsAssumption
<1>14. StockInv(t, m) BY <1>3, <1>9, <1>10, <1>11, <1>12, <1>13 DEF StockInv
<1> QED BY <1>7, <1>14

\* The stock holds what it lists.
LEMMA StockedIs == StockInv(Stocked, Len(StockContents))
<1> DEFINE N == Len(StockContents)
           g == CHOOSE h : Stocks(h, N)
           Right(k) == StockInv(g[k], k)
           T == {k \in 0..N : ~Right(k)}
<1>1. N \in Nat BY GameplayRequestsAssumption, LenProperties
<1>2. Stocks(g, N)
  BY <1>1, StocksExists
<1>3. Stocked = g[N] BY DEF Stocked, Stocks, StockNext
<1> HIDE DEF g
<1>4. \A k \in 0..N : g[k] = IF k = 0 THEN Opened ELSE StockNext(g[k - 1], k)
  BY <1>2 DEF Stocks
<1>5. Right(0)
  BY <1>1, <1>4, StockStart
<1>6. ASSUME NEW k \in Nat, k + 1 <= N, Right(k) PROVE Right(k + 1)
  BY <1>1, <1>4, <1>6, StockStep
<1> HIDE DEF Right, N
<1>7. T = {}
  <2> SUFFICES ASSUME T # {} PROVE FALSE OBVIOUS
  <2>1. T \in SUBSET Nat BY <1>1
  <2>2. PICK m \in T : \A k \in T : m <= k BY <2>1, LeastNat
  <2>3. m \in 0..N /\ ~Right(m) OBVIOUS
  <2>4. m # 0 BY <1>5, <2>3
  <2>5. m - 1 \in Nat /\ (m - 1) + 1 = m /\ m - 1 \in 0..N /\ m - 1 < m /\ m <= N
    BY <1>1, <2>3, <2>4
  <2>6. Right(m - 1) BY <2>2, <2>5
  <2>7. Right((m - 1) + 1) BY <1>6, <2>5, <2>6
  <2> QED BY <2>3, <2>5, <2>7
<1>8. Right(N) BY <1>1, <1>7
<1> QED BY <1>3, <1>8 DEF Right, N

\* The world after its k-th item.
FurnishNext(s, k) ==
  create_world_item(s, WorldContents[k].template, WorldContents[k].quantity,
                    WorldContents[k].state)
Furnishes(g, n) == g = [k \in 0..n |-> IF k = 0 THEN Stocked ELSE FurnishNext(g[k - 1], k)]

\* There is a function that furnishes, for every list.
LEMMA FurnishesExists ==
  ASSUME NEW n \in Nat
  PROVE  \E g : Furnishes(g, n)
<1> DEFINE P(m) == \E g : Furnishes(g, m)
           T == {m \in Nat : ~P(m)}
<1>1. P(0)
  <2> DEFINE g == [k \in 0..0 |-> Stocked]
  <2>1. Furnishes(g, 0) BY DEF Furnishes
  <2> QED BY <2>1
<1>2. ASSUME NEW m \in Nat, P(m) PROVE P(m + 1)
  <2>1. PICK g : Furnishes(g, m) BY <1>2
  <2> DEFINE h == [k \in 0..(m + 1) |-> IF k = m + 1 THEN FurnishNext(g[m], k) ELSE g[k]]
  <2>2. \A k \in 0..m : g[k] = IF k = 0 THEN Stocked ELSE FurnishNext(g[k - 1], k)
    BY <2>1 DEF Furnishes
  <2>3. \A k \in 0..(m + 1) : h[k] = IF k = 0 THEN Stocked ELSE FurnishNext(h[k - 1], k)
    BY <2>2
  <2> HIDE DEF h
  <2>4. h = [k \in 0..(m + 1) |-> h[k]] BY DEF h
  <2>5. Furnishes(h, m + 1) BY <2>3, <2>4 DEF Furnishes
  <2> QED BY <2>5
<1>3. T = {}
  <2> SUFFICES ASSUME T # {} PROVE FALSE OBVIOUS
  <2>1. PICK m \in T : \A k \in T : m <= k BY LeastNat
  <2>2. m \in Nat /\ ~P(m) OBVIOUS
  <2> HIDE DEF P
  <2>3. m # 0 BY <1>1, <2>2
  <2>4. m - 1 \in Nat /\ m - 1 < m BY <2>2, <2>3
  <2>5. P(m - 1) BY <2>1, <2>4
  <2>6. P(m - 1 + 1) BY <1>2, <2>4, <2>5
  <2> QED BY <2>2, <2>6
<1> QED BY <1>3

\* The world with n things in it.
FurnishInv(s, n) ==
  /\ Sound(s) /\ s.nextItem = Len(StockContents) + n + 1 /\ s.nextProp = n + 1
  /\ s.slots["arms"][1] = 0 /\ s.revision["arms"] = 0
  /\ \A y : Total(s, y) = SumTo(Listing(StockContents, y), Len(StockContents))
                            + SumTo(Listing(WorldContents, y), n)

\* The sums are numbers.
LEMMA ListingNat ==
  ASSUME NEW contents \in Seq(Holdings), NEW y
  PROVE  /\ Len(contents) \in Nat
         /\ \A n \in 0..Len(contents) : SumTo(Listing(contents, y), n) \in Nat
<1>1. Len(contents) \in Nat BY LenProperties
<1> DEFINE f == Listing(contents, y)
<1>2. \A n \in 1..Len(contents) : f[n] \in Nat
  BY HoldingIs DEF Listing
<1> HIDE DEF f
<1>3. \A n \in 0..Len(contents) : SumTo(f, n) \in Nat
  BY <1>1, <1>2, SumNat
<1> QED BY <1>1, <1>3 DEF f

\* Before the first item of the world,
LEMMA FurnishStart == FurnishInv(Stocked, 0)
<1> DEFINE N == Len(StockContents)
<1>1. StockContents \in Seq(Holdings) /\ WorldContents \in Seq(Holdings)
  BY GameplayRequestsAssumption
<1>2. N \in Nat BY <1>1, LenProperties
<1>3. \A y : SumTo(Listing(WorldContents, y), 0) = 0
  <2> SUFFICES ASSUME NEW y PROVE SumTo(Listing(WorldContents, y), 0) = 0 OBVIOUS
  <2> DEFINE n == 0
  <2>1. n \in Nat OBVIOUS
  <2> QED BY <2>1, SumStep
<1>4. /\ Sound(Stocked) /\ Stocked.nextItem = N + 1 /\ Stocked.nextProp = 1
      /\ Stocked.slots["arms"][1] = 0 /\ Stocked.revision["arms"] = 0
      /\ \A y : Total(Stocked, y) = SumTo(Listing(StockContents, y), N)
  BY StockedIs DEF StockInv
<1>5. \A y : Total(Stocked, y) \in Nat BY <1>4, AmountNat DEF Sound
<1> HIDE DEF N
<1>6. Stocked.nextItem = N + 0 + 1 /\ Stocked.nextProp = 0 + 1 BY <1>2, <1>4
<1>7. \A y : Total(Stocked, y) = SumTo(Listing(StockContents, y), N)
                                   + SumTo(Listing(WorldContents, y), 0)
  BY <1>3, <1>4, <1>5
<1> QED BY <1>4, <1>6, <1>7 DEF FurnishInv, N

\* after one more,
LEMMA FurnishStep ==
  ASSUME NEW s, NEW n \in Nat, n + 1 <= Len(WorldContents), FurnishInv(s, n)
  PROVE  FurnishInv(FurnishNext(s, n + 1), n + 1)
<1> DEFINE x == WorldContents[n + 1]
           tm == x.template
           q == x.quantity
           state == x.state
           e == 0
           z == [template |-> tm, quantity |-> q, used |-> e, state |-> state, at |-> Nowhere]
           a == Made(s, tm, q, e, state)
           v == spawn_prop(a)
           mode == "placed"
           t == Landed(s, v, mode)
           m == n + 1
           N == Len(StockContents)
<1>1. /\ tm \in Templates /\ q \in Nat /\ 1 <= q /\ q <= MaxStack[tm] /\ state \in States
      /\ tm \in Weapons => state.count <= Magazine
  BY GameplayRequestsAssumption, LenProperties, HoldingIs
<1>2. N \in Nat /\ N + m <= MaxItems /\ MaxItems \in Nat
  <2>1. StockContents \in Seq(Holdings) /\ WorldContents \in Seq(Holdings)
        /\ N + Len(WorldContents) <= MaxItems
    BY GameplayRequestsAssumption
  <2>2. N \in Nat /\ Len(WorldContents) \in Nat BY <2>1, LenProperties
  <2>3. MaxItems \in Nat BY ItemStoreAssumption
  <2> HIDE DEF N
  <2> QED BY <2>1, <2>2, <2>3
<1>3. /\ Sound(s) /\ s.nextItem = N + n + 1 /\ s.nextProp = n + 1
      /\ s.slots["arms"][1] = 0 /\ s.revision["arms"] = 0
      /\ \A y : Total(s, y) = SumTo(Listing(StockContents, y), N)
                                + SumTo(Listing(WorldContents, y), n)
  BY DEF FurnishInv
<1> HIDE DEF N
<1>4. Shaped(s) /\ s.nextItem \in Ids BY <1>2, <1>3 DEF Sound, Ids
<1>5. e \in Nat OBVIOUS
<1>6. FurnishNext(s, m) = t
  <2> DEFINE i == s.nextItem
  <2>1. create_world_item(s, tm, q, state)
          = [v EXCEPT !.items[s.nextItem].at = OnProp(s.nextProp, mode)]
    BY DEF create_world_item
  <2> HIDE DEF v, mode
  <2> QED BY <2>1 DEF FurnishNext, Landed
<1> HIDE DEF tm, q, state, e, t
<1>7. /\ Shaped(a) /\ IsItem(z) /\ a.items = [s.items EXCEPT ![s.nextItem] = z]
      /\ a.slots = s.slots /\ a.open = s.open
      /\ a.revision = s.revision /\ a.nextItem = s.nextItem + 1
      /\ a.nextProp = s.nextProp /\ a.props = s.props
  BY <1>1, <1>4, <1>5, MadeIs
<1> HIDE DEF a
<1>8. Fresh(s, v, z)
  <2> HIDE DEF z
  <2>1. LET b == spawn_prop(a)
        IN  /\ Shaped(b) /\ b.items = a.items /\ b.slots = a.slots /\ b.open = a.open
            /\ b.revision = a.revision /\ b.nextItem = a.nextItem
            /\ b.nextProp = a.nextProp + 1 /\ b.props = a.props \cup {a.nextProp}
    BY <1>7, SpawnIs
  <2> HIDE DEF v
  <2>2. /\ Shaped(v) /\ v.items = a.items /\ v.slots = a.slots /\ v.open = a.open
        /\ v.revision = a.revision /\ v.nextItem = a.nextItem
        /\ v.nextProp = a.nextProp + 1 /\ v.props = a.props \cup {a.nextProp}
    BY <2>1 DEF v
  <2> QED BY <1>7, <2>2 DEF Fresh
<1> HIDE DEF v
<1>9. Allowable(z) /\ z.template = tm /\ z.quantity = q BY <1>1, <1>7 DEF Allowable
<1> HIDE DEF z
<1>10. mode \in Modes BY DEF Modes
<1> HIDE DEF mode
<1>11. /\ Sound(t) /\ Beside(v, t) /\ t.slots = s.slots /\ t.revision = s.revision
       /\ \A y : Total(t, y) = Total(s, y) + (IF z.template = y THEN z.quantity ELSE 0)
  BY <1>3, <1>4, <1>8, <1>9, <1>10, MadeOnProp DEF t
<1>12. t.nextItem = N + m + 1 /\ t.nextProp = m + 1
  BY <1>2, <1>3, <1>8, <1>11 DEF Beside, Fresh
<1>13. \A y : Total(t, y) = SumTo(Listing(StockContents, y), N)
                              + SumTo(Listing(WorldContents, y), m)
  <2> SUFFICES ASSUME NEW y
               PROVE  Total(t, y) = SumTo(Listing(StockContents, y), N)
                                      + SumTo(Listing(WorldContents, y), m)
    OBVIOUS
  <2> DEFINE i == SumTo(Listing(StockContents, y), N)
             j == SumTo(Listing(WorldContents, y), n)
             k == SumTo(Listing(WorldContents, y), m)
             l == IF tm = y THEN q ELSE 0
  <2>1. StockContents \in Seq(Holdings) /\ WorldContents \in Seq(Holdings)
    BY GameplayRequestsAssumption
  <2>2. k = j + l
    BY <2>1, ListingStep DEF tm, q
  <2>3. i \in Nat BY <2>1, ListingNat DEF N
  <2>4. j \in Nat
    BY <2>1, ListingNat
  <2>5. l \in Nat BY <1>1
  <2>6. Total(t, y) = i + j + l BY <1>3, <1>9, <1>11
  <2> HIDE DEF i, j, k, l
  <2>7. Total(t, y) = i + k BY <2>2, <2>3, <2>4, <2>5, <2>6
  <2> QED BY <2>7 DEF i, k
<1>14. FurnishInv(t, m) BY <1>3, <1>11, <1>12, <1>13 DEF FurnishInv, N
<1> QED BY <1>6, <1>14

\* and after the last: the world begins sound and holds what it lists.
LEMMA FurnishedIs == FurnishInv(Furnished, Len(WorldContents))
<1> DEFINE N == Len(WorldContents)
           g == CHOOSE h : Furnishes(h, N)
           Right(k) == FurnishInv(g[k], k)
           T == {k \in 0..N : ~Right(k)}
<1>1. N \in Nat BY GameplayRequestsAssumption, LenProperties
<1>2. Furnishes(g, N)
  BY <1>1, FurnishesExists
<1>3. Furnished = g[N] BY DEF Furnished, Furnishes, FurnishNext
<1> HIDE DEF g
<1>4. \A k \in 0..N : g[k] = IF k = 0 THEN Stocked ELSE FurnishNext(g[k - 1], k)
  BY <1>2 DEF Furnishes
<1>5. Right(0)
  BY <1>1, <1>4, FurnishStart
<1>6. ASSUME NEW k \in Nat, k + 1 <= N, Right(k) PROVE Right(k + 1)
  BY <1>1, <1>4, <1>6, FurnishStep
<1> HIDE DEF Right, N
<1>7. T = {}
  <2> SUFFICES ASSUME T # {} PROVE FALSE OBVIOUS
  <2>1. T \in SUBSET Nat BY <1>1
  <2>2. PICK m \in T : \A k \in T : m <= k BY <2>1, LeastNat
  <2>3. m \in 0..N /\ ~Right(m) OBVIOUS
  <2>4. m # 0 BY <1>5, <2>3
  <2>5. m - 1 \in Nat /\ (m - 1) + 1 = m /\ m - 1 \in 0..N /\ m - 1 < m /\ m <= N
    BY <1>1, <2>3, <2>4
  <2>6. Right(m - 1) BY <2>2, <2>5
  <2>7. Right((m - 1) + 1) BY <1>6, <2>5, <2>6
  <2> QED BY <2>3, <2>5, <2>7
<1>8. Right(N) BY <1>1, <1>7
<1> QED BY <1>3, <1>8 DEF Right, N

-----------------------------------------------------------------------------
(* The steps of the whole.                                                 *)

\* What there was of template y.
Given(y) == SumTo(Listing(StockContents, y), Len(StockContents))
              + SumTo(Listing(WorldContents, y), Len(WorldContents))

\* The loadout in step with a sound store, every bound kept, and nothing lost.
Stored ==
  /\ InStep(store, hand, synced) /\ Counted /\ inside \in BOOLEAN
  /\ \A y \in Templates : spent[y] + Total(store, y) = Given(y)

\* The world as it begins is as it should be.
LEMMA StoredStart == InventoryInit => Stored
<1> SUFFICES ASSUME InventoryInit PROVE Stored OBVIOUS
<1>1. /\ store = Furnished /\ hand = NoWeapon /\ synced = 0 /\ inside = FALSE
      /\ spent = [t \in Templates |-> 0]
  BY DEF InventoryInit, RequestInit
<1>2. /\ Sound(store) /\ store.nextItem = Len(StockContents) + Len(WorldContents) + 1
      /\ store.nextProp = Len(WorldContents) + 1
      /\ store.slots["arms"][1] = 0 /\ store.revision["arms"] = 0
      /\ \A y : Total(store, y) = Given(y)
  BY <1>1, FurnishedIs DEF FurnishInv, Given
<1>3. InStep(store, hand, synced)
  BY <1>1, <1>2, GameplayRequestsAssumption DEF HandOK, NoWeapon, InStep
<1>4. Counted
  BY <1>1, <1>2, GameplayRequestsAssumption, LenProperties, ItemStoreAssumption DEF Counted
<1>5. \A y \in Templates : spent[y] + Total(store, y) = Given(y)
  BY <1>1, <1>2, AmountNat DEF Sound
<1> QED BY <1>1, <1>3, <1>4, <1>5 DEF Stored

\* The rounds of every weapon after a step, and why they are no longer what they were.
RoundsStep ==
  \A i \in Ids : store.items[i].template \in Weapons =>
    \/ RoundsOf(store', hand', i) = RoundsOf(store, hand, i)
    \/ hand.id = i /\ Fire /\ RoundsOf(store', hand', i) = RoundsOf(store, hand, i) - 1
    \/ hand.id = i /\ Reload
       /\ RoundsOf(store', hand', i) = RoundsOf(store, hand, i) - hand.count

\* A step of the client keeps it all.
LEMMA SameKeeps ==
  ASSUME InStep(store, hand, synced), Counted, UNCHANGED <<store, hand, synced, spent>>
  PROVE  ServerKept /\ RoundsStep
BY DEF InStep, HandOK, Live, Counted, ServerKept, RoundsStep

\* Every step keeps it all, and the rounds but for shots and reloads.
LEMMA ServerKeeps ==
  ASSUME Recorded, Wished, InStep(store, hand, synced), Counted,
         [InventoryNext]_inventoryVars
  PROVE  ServerKept /\ RoundsStep
<1>1. ASSUME RoundsSame(store, hand, store', hand') PROVE RoundsStep
  BY <1>1 DEF RoundsStep, RoundsSame
<1>2. CASE Tick BY <1>1, <1>2, TickKeeps
<1>3. CASE ServerReceive
  <2> DEFINE m == Head(toServer)
  <2>1. toServer # <<>> BY <1>3 DEF ServerReceive
  <2>2. Listed(toServer) BY DEF Recorded
  <2>3. m = toServer[1] /\ 1 \in 1..Len(toServer) BY <2>1, <2>2, ListedTail
  <2>4. \/ m.kind = "snapshot" /\ HandleSnapshotRequest(m.container)
        \/ m.kind = "request" /\ Decide(m.id, asked[m.id])
        \/ Unauthorized(m.id)
    BY <1>3 DEF ServerReceive
  <2> HIDE DEF m
  <2>5. CASE m.kind = "snapshot" /\ HandleSnapshotRequest(m.container)
    BY <2>5, SameKeeps DEF HandleSnapshotRequest, requestVars
  <2>6. CASE m.kind = "request" /\ Decide(m.id, asked[m.id])
    BY <1>1, <2>3, <2>6, DecideKeeps DEF Wished
  <2>7. CASE Unauthorized(m.id)
    BY <2>7, SameKeeps DEF Unauthorized
  <2> QED BY <2>4, <2>5, <2>6, <2>7
<1>4. CASE World
  BY <1>1, <1>4, LandKeeps, FireKeeps, ReloadKeeps, EnterKeeps, SameKeeps, DestroyKeeps DEF
    RoundsStep, leave_shelter, World
<1>5. CASE submit_gameplay_request
  BY <1>5, SameKeeps DEF submit_gameplay_request
<1>6. CASE ClientReceive
  BY <1>6, SameKeeps DEF ClientReceive, requestVars
<1>7. CASE UNCHANGED inventoryVars
  BY <1>7, SameKeeps DEF inventoryVars, requestVars
<1> QED BY <1>2, <1>3, <1>4, <1>5, <1>6, <1>7 DEF InventoryNext

\* The invariant of the store is kept,
LEMMA StoredStep ==
  ASSUME Recorded, Wished, Stored, [InventoryNext]_inventoryVars
  PROVE  Stored'
<1>1. ServerKept BY ServerKeeps DEF Stored
<1>2. inside' \in BOOLEAN
  <2>1. inside' = inside \/ inside' = TRUE \/ inside' = FALSE
    BY DEF InventoryNext, Tick, ServerReceive, HandleSnapshotRequest, World, Land, Fire,
           Reload, enter_shelter, leave_shelter, destroy_camp, submit_gameplay_request,
           ClientReceive, inventoryVars, requestVars
  <2> QED BY <2>1 DEF Stored
<1>3. \A y \in Templates : spent'[y] + Total(store', y) = Given(y) BY <1>1 DEF ServerKept, Stored
<1>4. (\A y \in Templates : spent[y] + Total(store, y) = Given(y))'
  BY <1>3 DEF Total, Amount, Live, Given
<1> QED BY <1>1, <1>2, <1>4 DEF ServerKept, Stored

\* Everything the server's steps depend on.
Inventoried == Recorded /\ Wished /\ Stored

\* and with the records and the requests it holds at first
LEMMA InventoriedStart == InventoryInit => Inventoried
BY RecordedInit, WishedStart, StoredStart DEF Inventoried

\* and in every step.
LEMMA InventoriedStep == Inventoried /\ [InventoryNext]_inventoryVars => Inventoried'
BY RecordedStep, WishedStep, StoredStep DEF Inventoried

\* An item is in one place: in the slot that names it and no other, or on one
\* prop that exists and carries nothing else, whatever is asked in whichever
\* order and however often (item_system.cc residency).
THEOREM ItemsInOnePlace == InventorySpec => []OnePlace
<1>1. Inventoried => OnePlace
  <2> SUFFICES ASSUME Inventoried PROVE OnePlace OBVIOUS
  <2>1. Sound(store) BY DEF Inventoried, Stored, InStep
  <2>2. Shaped(store) /\ SlotsAgree(store) /\ PropsAgree(store) BY <2>1 DEF Sound
  <2>3. \A c \in Containers : \A k \in 1..Capacity[c] :
          LET i == store.slots[c][k] IN i # 0 => store.items[i].at = InSlot(c, k)
    BY <2>2 DEF SlotsAgree
  <2>4. ASSUME NEW i \in Ids, InInventory(store, i)
        PROVE  /\ store.items[i].at.container \in store.open
               /\ store.slots[store.items[i].at.container][store.items[i].at.slot] = i
    <3>1. IsPlace(store.items[i].at) BY <2>2 DEF Shaped, IsItem
    <3>2. PICK c \in Containers : \E k \in 1..Capacity[c] : store.items[i].at = InSlot(c, k)
      BY <2>4, <3>1, PlaceKinds DEF IsPlace, InInventory
    <3>3. PICK k \in 1..Capacity[c] : store.items[i].at = InSlot(c, k) BY <3>2
    <3>4. c \in store.open /\ store.slots[c][k] = i BY <2>2, <3>3 DEF SlotsAgree
    <3> QED BY <3>3, <3>4, PlaceKinds
  <2>5. ASSUME NEW i \in Ids, NEW j \in Ids, InWorld(store, i)
        PROVE  /\ store.items[i].at.prop \in store.props
               /\ InWorld(store, j) /\ store.items[j].at.prop = store.items[i].at.prop
                    => i = j
    BY <2>2, <2>5 DEF PropsAgree
  <2> QED BY <2>3, <2>4, <2>5 DEF OnePlace
<1> QED BY <1>1, InventoriedStart, InventoriedStep, PTL DEF InventorySpec

\* However a stack was split, stacked, thrown, taken and picked up, what there is
\* of a template and what was used up is what there was (item_system.cc transfers).
THEOREM QuantitiesAreKept == InventorySpec => []QuantitiesKept
<1>1. Inventoried => QuantitiesKept
  BY DEF QuantitiesKept, Inventoried, Stored, Total, Given, Listing
<1> QED BY <1>1, InventoriedStart, InventoriedStep, PTL DEF InventorySpec

\* A weapon loses rounds one shot at a time, or what a reload finds left in the
\* magazine, and never gains any, although its rounds are kept twice, in the hand
\* and in the item, and each copy overwrites the other (sync_weapon_loadouts and
\* write_back_weapon_states).
THEOREM RoundsAreKept == InventorySpec => RoundsKept
<1>1. \A i \in Ids : /\ Rounds(i) = RoundsOf(store, hand, i)
                     /\ Rounds(i)' = RoundsOf(store', hand', i)
  BY DEF Rounds, RoundsOf
<1>2. ASSUME Inventoried, [InventoryNext]_inventoryVars
      PROVE  \A i \in Ids : store.items[i].template \in Weapons =>
               \/ Rounds(i)' = Rounds(i)
               \/ hand.id = i /\ Fire /\ Rounds(i)' = Rounds(i) - 1
               \/ hand.id = i /\ Reload /\ Rounds(i)' = Rounds(i) - hand.count
  BY <1>1, <1>2, ServerKeeps DEF Inventoried, Stored, RoundsStep
<1>3. ASSUME Inventoried, [InventoryNext]_inventoryVars
      PROVE  [\A i \in Ids : store.items[i].template \in Weapons =>
                \/ Rounds(i)' = Rounds(i)
                \/ hand.id = i /\ Fire /\ Rounds(i)' = Rounds(i) - 1
                \/ hand.id = i /\ Reload /\ Rounds(i)' = Rounds(i) - hand.count]_inventoryVars
  BY <1>2, <1>3
<1> QED BY <1>3, InventoriedStart, InventoriedStep, PTL DEF InventorySpec, RoundsKept

-----------------------------------------------------------------------------
(* The client's copy, whatever it has been told.                           *)

\* s has the fields of a store.
Fielded(s) ==
  s = [items |-> s.items, slots |-> s.slots, open |-> s.open,
       revision |-> s.revision, log |-> s.log,
       nextItem |-> s.nextItem, nextProp |-> s.nextProp, props |-> s.props]

\* t is a store with the containers s has.
Alike(s, t) == Fielded(t) /\ t.open = s.open

\* One field set leaves the others.
LEMMA FieldSet ==
  ASSUME NEW s, Fielded(s), NEW x
  PROVE  /\ Alike(s, [s EXCEPT !.items = x]) /\ Alike(s, [s EXCEPT !.slots = x])
         /\ Alike(s, [s EXCEPT !.revision = x]) /\ Alike(s, [s EXCEPT !.log = x])
         /\ Fielded([s EXCEPT !.open = x]) /\ [s EXCEPT !.open = x].open = x
<1> DEFINE a == s.items
           b == s.slots
           c == s.open
           d == s.revision
           e == s.log
           f == s.nextItem
           g == s.nextProp
           h == s.props
<1>1. s = [items |-> a, slots |-> b, open |-> c, revision |-> d, log |-> e,
           nextItem |-> f, nextProp |-> g, props |-> h]
  BY DEF Fielded
<1>2. c = s.open OBVIOUS
<1> HIDE DEF a, b, c, d, e, f, g, h
<1>3. Alike(s, [s EXCEPT !.items = x])
  <2> DEFINE t == [s EXCEPT !.items = x]
  <2>1. t = [items |-> x, slots |-> b, open |-> c, revision |-> d, log |-> e,
             nextItem |-> f, nextProp |-> g, props |-> h]
    BY <1>1
  <2> HIDE DEF t
  <2> QED BY <1>2, <2>1 DEF Alike, Fielded, t
<1>4. Alike(s, [s EXCEPT !.slots = x])
  <2> DEFINE t == [s EXCEPT !.slots = x]
  <2>1. t = [items |-> a, slots |-> x, open |-> c, revision |-> d, log |-> e,
             nextItem |-> f, nextProp |-> g, props |-> h]
    BY <1>1
  <2> HIDE DEF t
  <2> QED BY <1>2, <2>1 DEF Alike, Fielded, t
<1>5. Alike(s, [s EXCEPT !.revision = x])
  <2> DEFINE t == [s EXCEPT !.revision = x]
  <2>1. t = [items |-> a, slots |-> b, open |-> c, revision |-> x, log |-> e,
             nextItem |-> f, nextProp |-> g, props |-> h]
    BY <1>1
  <2> HIDE DEF t
  <2> QED BY <1>2, <2>1 DEF Alike, Fielded, t
<1>6. Alike(s, [s EXCEPT !.log = x])
  <2> DEFINE t == [s EXCEPT !.log = x]
  <2>1. t = [items |-> a, slots |-> b, open |-> c, revision |-> d, log |-> x,
             nextItem |-> f, nextProp |-> g, props |-> h]
    BY <1>1
  <2> HIDE DEF t
  <2> QED BY <1>2, <2>1 DEF Alike, Fielded, t
<1>7. Fielded([s EXCEPT !.open = x]) /\ [s EXCEPT !.open = x].open = x
  <2> DEFINE t == [s EXCEPT !.open = x]
  <2>1. t = [items |-> a, slots |-> b, open |-> x, revision |-> d, log |-> e,
             nextItem |-> f, nextProp |-> g, props |-> h]
    BY <1>1
  <2> HIDE DEF t
  <2>2. Fielded(t) /\ t.open = x BY <2>1 DEF Fielded
  <2> QED BY <2>2 DEF t
<1> QED BY <1>3, <1>4, <1>5, <1>6, <1>7

\* Having the same containers is transitive.
LEMMA AlikeTrans ==
  ASSUME NEW s, NEW t, NEW u, Alike(s, t), Alike(t, u)
  PROVE  Alike(s, u)
BY DEF Alike

\* Publishing a change opens and closes nothing,
LEMMA PublishAlike ==
  ASSUME NEW s, Fielded(s), NEW c, NEW type, NEW slot, NEW previous, NEW i, NEW changed
  PROVE  Alike(s, publish_delta(s, c, type, slot, previous, i, changed))
<1> DEFINE delta == [revision |-> s.revision[c] + 1, type |-> type, slot |-> slot,
                     previous |-> previous, id |-> i, changed |-> changed,
                     item |-> [template |-> s.items[i].template,
                               quantity |-> s.items[i].quantity,
                               used |-> s.items[i].used, state |-> s.items[i].state]]
           log == Append(s.log[c], delta)
           kept == IF Len(log) > HistoryLimit THEN Tail(log) ELSE log
           r == [s.revision EXCEPT ![c] = @ + 1]
           l == [s.log EXCEPT ![c] = kept]
           t == publish_delta(s, c, type, slot, previous, i, changed)
<1>1. t = [s EXCEPT !.revision[c] = @ + 1, !.log[c] = kept] BY DEF publish_delta
<1> HIDE DEF kept, t
<1> DEFINE u == [s EXCEPT !.revision = r]
<1>2. u.log = s.log BY DEF Fielded
<1>3. t = [u EXCEPT !.log = l] BY <1>1, <1>2
<1>4. Alike(s, u) BY FieldSet
<1> HIDE DEF u, l
<1>5. Alike(u, [u EXCEPT !.log = l]) BY <1>4, FieldSet DEF Alike
<1> QED BY <1>3, <1>4, <1>5, AlikeTrans DEF t

\* nor does taking an item out of its slot,
LEMMA RemoveAlike ==
  ASSUME NEW s, Fielded(s), NEW i
  PROVE  Alike(s, remove_from_inventory(s, i))
<1> DEFINE at == s.items[i].at
           x == [s.slots EXCEPT ![at.container][at.slot] = 0]
           v == [s EXCEPT !.slots = x]
           t == publish_delta(v, at.container, "Remove", at.slot, at.slot, i, {})
<1>1. CASE ~InInventory(s, i) BY <1>1 DEF remove_from_inventory, Alike
<1>2. CASE InInventory(s, i)
  <2>1. [s EXCEPT !.slots[at.container][at.slot] = 0] = v OBVIOUS
  <2>2. remove_from_inventory(s, i) = t
    <3> HIDE DEF v
    <3> QED BY <1>2, <2>1 DEF remove_from_inventory
  <2>3. Alike(s, v)
    <3> HIDE DEF x
    <3> QED BY FieldSet
  <2> HIDE DEF v
  <2>4. Alike(v, t)
    <3> HIDE DEF at
    <3> QED BY <2>3, PublishAlike DEF Alike
  <2> HIDE DEF t
  <2> QED BY <2>2, <2>3, <2>4, AlikeTrans
<1> QED BY <1>1, <1>2

\* nor ending it.
LEMMA TerminateAlike ==
  ASSUME NEW s, Fielded(s), NEW i
  PROVE  Alike(s, terminate(s, i))
<1> DEFINE r == remove_from_inventory(s, i)
           a == [r.items EXCEPT ![i].quantity = 0]
           u == [r EXCEPT !.items = a]
           b == [a EXCEPT ![i].at = Terminal]
           v == [u EXCEPT !.items = b]
<1>1. CASE ~Live(s, i) BY <1>1 DEF terminate, Alike
<1>2. CASE Live(s, i)
  <2>1. terminate(s, i) = [r EXCEPT !.items[i].quantity = 0, !.items[i].at = Terminal]
    BY <1>2 DEF terminate
  <2>2. Alike(s, r) BY RemoveAlike
  <2> HIDE DEF r
  <2>3. [r EXCEPT !.items[i].quantity = 0, !.items[i].at = Terminal]
          = [u EXCEPT !.items[i].at = Terminal]
    OBVIOUS
  <2>4. u.items = a
    <3> HIDE DEF a
    <3> QED BY <2>2 DEF Alike, Fielded
  <2>5. Alike(r, u)
    <3> HIDE DEF a
    <3> QED BY <2>2, FieldSet DEF Alike
  <2> HIDE DEF u, a
  <2>6. [u EXCEPT !.items[i].at = Terminal] = v BY <2>4
  <2>7. Alike(u, v)
    <3> HIDE DEF b
    <3> QED BY <2>5, FieldSet DEF Alike
  <2> HIDE DEF v
  <2> QED BY <2>1, <2>2, <2>3, <2>5, <2>6, <2>7, AlikeTrans
<1> QED BY <1>1, <1>2

\* destroy_container closes the one container.
LEMMA DestroyAlike ==
  ASSUME NEW s, Fielded(s), NEW c \in Containers
  PROVE  LET t == destroy_container(s, c)
         IN  Fielded(t) /\ t.open = s.open \ {c}
<1> DEFINE n == Capacity[c]
           g == CHOOSE f : Clears(f, s, c, n)
           u == g[n]
           P == u.open \ {c}
           v == [u EXCEPT !.open = P]
           l == [v.log EXCEPT ![c] = <<>>]
           t == [v EXCEPT !.log = l]
           T == {k \in 0..n : ~Alike(s, g[k])}
<1>1. n \in Nat BY ItemStoreAssumption
<1>2. destroy_container(s, c) = [u EXCEPT !.open = @ \ {c}, !.log[c] = <<>>]
  BY DEF destroy_container, Clears
<1>3. \A k \in 0..n : g[k] = IF k = 0 THEN s ELSE terminate(g[k - 1], s.slots[c][k])
  <2>1. \E f : Clears(f, s, c, n)
    <3> HIDE DEF n
    <3> QED BY <1>1, ClearsExists
  <2>2. Clears(g, s, c, n) BY <2>1
  <2> HIDE DEF g, n
  <2> QED BY <2>2 DEF Clears
<1> HIDE DEF g, n
<1>4. T = {}
  <2> SUFFICES ASSUME T # {} PROVE FALSE OBVIOUS
  <2>1. T \in SUBSET Nat BY <1>1
  <2>2. PICK m \in T : \A k \in T : m <= k BY <2>1, LeastNat
  <2>3. m \in 0..n /\ ~Alike(s, g[m]) OBVIOUS
  <2>4. m # 0 BY <1>1, <1>3, <2>3 DEF Alike
  <2>5. m - 1 \in 0..n /\ m - 1 < m BY <1>1, <2>3, <2>4
  <2>6. Alike(s, g[m - 1])
    <3>1. m - 1 \notin T
      <4> HIDE DEF T
      <4>1. m \in Nat BY <1>1, <2>3
      <4>2. ~(m <= m - 1) BY <4>1
      <4> QED BY <2>2, <4>2
    <3> QED BY <2>5, <3>1
  <2>7. g[m] = terminate(g[m - 1], s.slots[c][m]) BY <1>3, <2>3, <2>4
  <2> DEFINE a == g[m - 1]
             i == s.slots[c][m]
  <2>8. Alike(s, a) /\ g[m] = terminate(a, i) BY <2>6, <2>7
  <2> HIDE DEF a, i
  <2>9. Alike(a, terminate(a, i)) BY <2>8, TerminateAlike DEF Alike
  <2>10. Alike(s, g[m]) BY <2>8, <2>9, AlikeTrans
  <2> QED BY <2>3, <2>10
<1>5. Alike(s, u) BY <1>1, <1>4
<1> HIDE DEF u
<1>6. destroy_container(s, c) = t
  <2>1. [u EXCEPT !.open = @ \ {c}, !.log[c] = <<>>] = [v EXCEPT !.log[c] = <<>>] OBVIOUS
  <2> HIDE DEF v
  <2>2. [v EXCEPT !.log[c] = <<>>] = t OBVIOUS
  <2> QED BY <1>2, <2>1, <2>2
<1>7. Fielded(v) /\ v.open = P
  <2> HIDE DEF P
  <2> QED BY <1>5, FieldSet DEF Alike
<1> HIDE DEF v
<1>8. Alike(v, t)
  <2> HIDE DEF l
  <2> QED BY <1>7, FieldSet
<1> HIDE DEF t
<1>9. Fielded(t) /\ t.open = s.open \ {c} BY <1>5, <1>7, <1>8 DEF Alike
<1> QED BY <1>6, <1>9

\* apply_replica_snapshot opens the one it lists.
LEMMA ReplacedAlike ==
  ASSUME NEW s, Fielded(s), NEW c, NEW revision, NEW entries
  PROVE  LET t == Replaced(s, c, revision, entries)
         IN  Fielded(t) /\ t.open = s.open \cup {c}
<1> DEFINE At(k) == {e \in entries : e.slot = k}
           Of(i) == {e \in entries : e.id = i}
           a == [i \in Ids |->
                   IF Of(i) # {}
                   THEN LET e == CHOOSE x \in Of(i) : TRUE
                        IN [e.item EXCEPT !.at = InSlot(c, e.slot)]
                   ELSE IF InInventory(s, i) /\ s.items[i].at.container = c
                   THEN [s.items[i] EXCEPT !.quantity = 0, !.at = Terminal]
                   ELSE s.items[i]]
           b == [k \in 1..Capacity[c] |->
                   IF At(k) = {} THEN 0 ELSE (CHOOSE e \in At(k) : TRUE).id]
           t == Replaced(s, c, revision, entries)
<1>1. t = [s EXCEPT !.items = a, !.slots[c] = b, !.revision[c] = revision,
                    !.open = @ \cup {c}]
  BY DEF Replaced
<1> HIDE DEF a, b, t
<1> DEFINE u1 == [s EXCEPT !.items = a]
           b1 == [u1.slots EXCEPT ![c] = b]
           u2 == [u1 EXCEPT !.slots = b1]
           r1 == [u2.revision EXCEPT ![c] = revision]
           u3 == [u2 EXCEPT !.revision = r1]
           o1 == u3.open \cup {c}
           u4 == [u3 EXCEPT !.open = o1]
<1>2. t = u4
  <2>1. t = [u1 EXCEPT !.slots[c] = b, !.revision[c] = revision, !.open = @ \cup {c}]
    BY <1>1
  <2> HIDE DEF u1
  <2>2. t = [u2 EXCEPT !.revision[c] = revision, !.open = @ \cup {c}] BY <2>1
  <2> HIDE DEF u2
  <2>3. t = [u3 EXCEPT !.open = @ \cup {c}] BY <2>2
  <2> HIDE DEF u3
  <2> QED BY <2>3
<1>3. Alike(s, u1) BY FieldSet
<1> HIDE DEF u1
<1>4. Alike(u1, u2)
  <2> HIDE DEF b1
  <2> QED BY <1>3, FieldSet DEF Alike
<1> HIDE DEF u2
<1>5. Alike(u2, u3)
  <2> HIDE DEF r1
  <2> QED BY <1>4, FieldSet DEF Alike
<1> HIDE DEF u3
<1>6. Fielded(u4) /\ u4.open = o1
  <2> HIDE DEF o1
  <2> QED BY <1>5, FieldSet DEF Alike
<1> HIDE DEF u4
<1>7. Fielded(t) /\ t.open = s.open \cup {c} BY <1>2, <1>3, <1>4, <1>5, <1>6 DEF Alike
<1> QED BY <1>7 DEF t

\* A record applied opens and closes nothing,
LEMMA AppliedAlike ==
  ASSUME NEW s, Fielded(s), NEW c, NEW d, NEW h
  PROVE  Alike(s, Applied(s, c, d, h))
<1> DEFINE n == IF d.type = "Remove" THEN 0 ELSE d.id
           x == [s.slots EXCEPT ![c][d.slot] = n]
           u == [s EXCEPT !.slots = x]
           y == [u.revision EXCEPT ![c] = @ + 1]
           v == [u EXCEPT !.revision = y]
           listed == [s EXCEPT !.slots[c][d.slot] = n, !.revision[c] = @ + 1]
           z == [template |-> h.template, quantity |-> h.quantity, used |-> h.used,
                 state |-> h.state, at |-> InSlot(c, d.slot)]
<1>1. Applied(s, c, d, h) =
        IF d.type = "Remove"
        THEN [listed EXCEPT !.items[d.id].quantity = 0, !.items[d.id].at = Terminal]
        ELSE [listed EXCEPT !.items[d.id] = z]
  BY DEF Applied
<1>2. listed = v
  <2> HIDE DEF n
  <2>1. listed = [u EXCEPT !.revision[c] = @ + 1] OBVIOUS
  <2> HIDE DEF u, listed
  <2> QED BY <2>1
<1> HIDE DEF n, listed, z
<1>3. Alike(s, u)
  <2> HIDE DEF x
  <2> QED BY FieldSet
<1> HIDE DEF u
<1>4. Alike(u, v)
  <2> HIDE DEF y
  <2> QED BY <1>3, FieldSet DEF Alike
<1> HIDE DEF v
<1>5. Alike(s, v) BY <1>3, <1>4, AlikeTrans
<1>6. CASE d.type = "Remove"
  <2> DEFINE i == d.id
             a == [v.items EXCEPT ![i].quantity = 0]
             u2 == [v EXCEPT !.items = a]
             b == [a EXCEPT ![i].at = Terminal]
             t == [u2 EXCEPT !.items = b]
  <2>1. Applied(s, c, d, h) = [v EXCEPT !.items[i].quantity = 0, !.items[i].at = Terminal]
    BY <1>1, <1>2, <1>6
  <2> HIDE DEF i
  <2>2. [v EXCEPT !.items[i].quantity = 0, !.items[i].at = Terminal]
          = [u2 EXCEPT !.items[i].at = Terminal]
    OBVIOUS
  <2>3. u2.items = a
    <3> HIDE DEF a
    <3> QED BY <1>5 DEF Alike, Fielded
  <2>4. Alike(v, u2)
    <3> HIDE DEF a
    <3> QED BY <1>5, FieldSet DEF Alike
  <2> HIDE DEF u2, a
  <2>5. [u2 EXCEPT !.items[i].at = Terminal] = t BY <2>3
  <2>6. Alike(u2, t)
    <3> HIDE DEF b
    <3> QED BY <2>4, FieldSet DEF Alike
  <2> HIDE DEF t
  <2> QED BY <1>5, <2>1, <2>2, <2>4, <2>5, <2>6, AlikeTrans
<1>7. CASE d.type # "Remove"
  <2> DEFINE a == [v.items EXCEPT ![d.id] = z]
             t == [v EXCEPT !.items = a]
  <2>1. Applied(s, c, d, h) = t BY <1>1, <1>2, <1>7
  <2>2. Alike(v, t)
    <3> HIDE DEF a
    <3> QED BY <1>5, FieldSet DEF Alike
  <2> HIDE DEF t
  <2> QED BY <1>5, <2>1, <2>2, AlikeTrans
<1> QED BY <1>6, <1>7

\* The copy after each of the records.
ApplyStart(s) == [store |-> s, ok |-> TRUE]
ApplyNext(before, s, c, d) ==
  IF before.ok /\ Fits(before.store, c, d)
  THEN [store |-> Applied(before.store, c, d, Heard(s, d)), ok |-> TRUE]
  ELSE [store |-> before.store, ok |-> FALSE]
Applies(g, s, c, records, n) ==
  g = [k \in 0..n |-> IF k = 0 THEN ApplyStart(s) ELSE ApplyNext(g[k - 1], s, c, records[k])]

\* There is a function that applies the records, however many.
LEMMA AppliesExists ==
  ASSUME NEW s, NEW c, NEW records, NEW n \in Nat
  PROVE  \E g : Applies(g, s, c, records, n)
<1> DEFINE P(m) == \E g : Applies(g, s, c, records, m)
           T == {m \in Nat : ~P(m)}
<1>1. P(0)
  <2> DEFINE g == [k \in 0..0 |-> ApplyStart(s)]
  <2>1. Applies(g, s, c, records, 0) BY DEF Applies
  <2> QED BY <2>1
<1>2. ASSUME NEW m \in Nat, P(m) PROVE P(m + 1)
  <2>1. PICK g : Applies(g, s, c, records, m) BY <1>2
  <2> DEFINE h == [k \in 0..(m + 1) |-> IF k = m + 1 THEN ApplyNext(g[m], s, c, records[k]) ELSE g[k]]
  <2>2. \A k \in 0..m : g[k] = IF k = 0 THEN ApplyStart(s) ELSE ApplyNext(g[k - 1], s, c, records[k])
    BY <2>1 DEF Applies
  <2>3. \A k \in 0..(m + 1) : h[k] = IF k = 0 THEN ApplyStart(s) ELSE ApplyNext(h[k - 1], s, c, records[k])
    BY <2>2
  <2> HIDE DEF h
  <2>4. h = [k \in 0..(m + 1) |-> h[k]] BY DEF h
  <2>5. Applies(h, s, c, records, m + 1) BY <2>3, <2>4 DEF Applies
  <2> QED BY <2>5
<1>3. T = {}
  <2> SUFFICES ASSUME T # {} PROVE FALSE OBVIOUS
  <2>1. PICK m \in T : \A k \in T : m <= k BY LeastNat
  <2>2. m \in Nat /\ ~P(m) OBVIOUS
  <2> HIDE DEF P
  <2>3. m # 0 BY <1>1, <2>2
  <2>4. m - 1 \in Nat /\ m - 1 < m BY <2>2, <2>3
  <2>5. P(m - 1) BY <2>1, <2>4
  <2>6. P(m - 1 + 1) BY <1>2, <2>4, <2>5
  <2> QED BY <2>2, <2>6
<1> QED BY <1>3

\* and neither do all of them.
LEMMA ApplyAllAlike ==
  ASSUME NEW s, Fielded(s), NEW c, NEW records, Len(records) \in Nat
  PROVE  Alike(s, ApplyAll(s, c, records).store)
<1> DEFINE n == Len(records)
           g == CHOOSE f : Applies(f, s, c, records, n)
           T == {k \in 0..n : ~Alike(s, g[k].store)}
<1>1. ApplyAll(s, c, records) = g[n] BY DEF ApplyAll, Applies, ApplyStart, ApplyNext
<1>2. n \in Nat OBVIOUS
<1> HIDE DEF n
<1>3. \A k \in 0..n : g[k] = IF k = 0 THEN ApplyStart(s)
                             ELSE ApplyNext(g[k - 1], s, c, records[k])
  <2>1. \E f : Applies(f, s, c, records, n) BY <1>2, AppliesExists
  <2>2. Applies(g, s, c, records, n) BY <2>1
  <2> HIDE DEF g
  <2> QED BY <2>2 DEF Applies
<1> HIDE DEF g
<1>4. T = {}
  <2> SUFFICES ASSUME T # {} PROVE FALSE OBVIOUS
  <2>1. T \in SUBSET Nat BY <1>2
  <2>2. PICK m \in T : \A k \in T : m <= k BY <2>1, LeastNat
  <2>3. m \in 0..n /\ ~Alike(s, g[m].store) OBVIOUS
  <2>4. m # 0
    BY <1>2, <1>3, <2>3 DEF ApplyStart, Alike
  <2>5. m - 1 \in 0..n /\ m - 1 < m BY <1>2, <2>3, <2>4
  <2>6. Alike(s, g[m - 1].store)
    <3>1. m - 1 \notin T
      <4> HIDE DEF T
      <4>1. m \in Nat BY <1>2, <2>3
      <4>2. ~(m <= m - 1) BY <4>1
      <4> QED BY <2>2, <4>2
    <3> QED BY <2>5, <3>1
  <2>7. g[m] = ApplyNext(g[m - 1], s, c, records[m]) BY <1>3, <2>3, <2>4
  <2> DEFINE a == g[m - 1].store
             d == records[m]
             h == Heard(s, d)
  <2>8. Alike(s, a) BY <2>6
  <2>9. g[m].store = Applied(a, c, d, h) \/ g[m].store = a BY <2>7 DEF ApplyNext
  <2> HIDE DEF a, d, h
  <2>10. Alike(a, Applied(a, c, d, h)) BY <2>8, AppliedAlike DEF Alike
  <2>11. Alike(s, g[m].store) BY <2>8, <2>9, <2>10, AlikeTrans
  <2> QED BY <2>3, <2>11
<1>5. Alike(s, g[n].store) BY <1>2, <1>4
<1> QED BY <1>1, <1>5

-----------------------------------------------------------------------------
(* What the server says, and how far it then is.                           *)

\* Every message of changes among q carries a number of them.
Batched(q) ==
  \A n \in 1..Len(q) : q[n].kind = "deltas" => Len(q[n].records) \in Nat

\* One list of messages after another,
LEMMA BatchedConcat ==
  ASSUME NEW q, NEW r, Listed(q), Listed(r), Batched(q), Batched(r)
  PROVE  Batched(q \o r)
BY ListedConcat DEF Batched

\* and the first of a list.
LEMMA BatchedStart ==
  ASSUME NEW q, Listed(q), Batched(q), NEW m \in Int, m <= Len(q)
  PROVE  Batched(SubSeq(q, 1, m))
BY ListedStart DEF Batched

\* A snapshot is pages.
LEMMA PagesBatched ==
  ASSUME NEW s, NEW c \in Containers
  PROVE  /\ Listed(Pages(s, c)) /\ Batched(Pages(s, c))
         /\ \A n \in 1..Len(Pages(s, c)) : Pages(s, c)[n].kind = "page"
<1> DEFINE q == Pages(s, c)
<1>1. Listed(q) BY PagesSilent DEF Silent
<1>2. \A n \in DOMAIN q : q[n].kind = "page" BY DEF Pages
<1> HIDE DEF q
<1>3. DOMAIN q = 1..Len(q) BY <1>1, ListedHas
<1>4. \A n \in 1..Len(q) : q[n].kind = "page" BY <1>2, <1>3
<1>5. Batched(q) BY <1>4 DEF Batched
<1> QED BY <1>1, <1>4, <1>5 DEF q

\* What the log has since the cursor is a number of records.
LEMMA SinceIs ==
  ASSUME NEW s, Shaped(s), NEW c \in Containers
  PROVE  Len(Since(s, c)) \in Nat
<1> DEFINE log == s.log[c]
           O == {n \in 1..Len(log) : log[n].revision <= cursor[c]}
           older == Cardinality(O)
           last == Lesser(older + BatchSize, Len(log))
           q == SubSeq(log, older + 1, last)
<1>1. Listed(log) BY DEF Shaped
<1>2. Len(log) \in Nat BY <1>1, ListedHas
<1>3. older \in Nat
  <2>1. IsFiniteSet(1..Len(log)) BY <1>2, FS_Interval
  <2>2. IsFiniteSet(O) BY <2>1, FS_Subset
  <2> QED BY <2>2, FS_CardinalityType
<1>4. Since(s, c) = q BY DEF Since
<1> HIDE DEF older, log
<1>5. last \in Int BY <1>2, <1>3, InventorySyncAssumption DEF Lesser
<1> HIDE DEF last
<1> DEFINE m == last - older
<1>6. DOMAIN q = 1..m /\ q = [n \in 1..m |-> q[n]]
  <2>1. q = [n \in 1..((last - (older + 1)) + 1) |-> log[n + (older + 1) - 1]]
    BY <1>3, <1>5
  <2>2. (last - (older + 1)) + 1 = m BY <1>3, <1>5
  <2> HIDE DEF q, m
  <2> QED BY <2>1, <2>2
<1>7. m \in Int BY <1>3, <1>5
<1> HIDE DEF q, m
<1>8. Listed(q) BY <1>6, <1>7, ListedFunction
<1> QED BY <1>4, <1>8, ListedHas

\* The four things a tick may have to say about a container.
Says(s, c, q) ==
  \/ q = <<>>
  \/ q = <<[kind |-> "closed", container |-> c]>>
  \/ q = Pages(s, c)
  \/ /\ cursor[c] # Unsent /\ Len(Since(s, c)) \in Nat
     /\ q = <<[kind |-> "deltas", container |-> c, first |-> cursor[c] + 1,
               records |-> Since(s, c)]>>

\* A tick says one of the four.
LEMMA ToSayIs ==
  ASSUME NEW s, Shaped(s), NEW c \in Containers
  PROVE  Says(s, c, ToSay(s, c))
<1> DEFINE news == Since(s, c)
           p == Pages(s, c)
<1>1. Len(news) \in Nat BY SinceIs
<1>2. ToSay(s, c) =
        CASE c \notin Observed(s) /\ cursor[c] = Unsent -> <<>>
          [] c \notin Observed(s) /\ cursor[c] # Unsent ->
               <<[kind |-> "closed", container |-> c]>>
          [] c \in Observed(s) /\ cursor[c] = Unsent -> p
          [] c \in Observed(s) /\ cursor[c] >= s.revision[c] -> <<>>
          [] OTHER -> IF news = <<>> \/ Head(news).revision # cursor[c] + 1
                      THEN p
                      ELSE <<[kind |-> "deltas", container |-> c,
                              first |-> cursor[c] + 1, records |-> news]>>
  BY DEF ToSay
<1> HIDE DEF news, p
<1>3. \/ ToSay(s, c) = <<>>
      \/ ToSay(s, c) = <<[kind |-> "closed", container |-> c]>>
      \/ ToSay(s, c) = p
      \/ /\ cursor[c] # Unsent
         /\ ToSay(s, c) = <<[kind |-> "deltas", container |-> c,
                             first |-> cursor[c] + 1, records |-> news]>>
  BY <1>2
<1> QED BY <1>1, <1>3 DEF Says, news, p

\* A list of one message.
LEMMA OneBatched ==
  ASSUME NEW e, e.kind = "deltas" => Len(e.records) \in Nat
  PROVE  Batched(<<e>>) /\ <<e>> # <<>> /\ Head(<<e>>) = e
BY DEF Batched

\* What a tick says of a container carries its records.
LEMMA ToSayBatched ==
  ASSUME NEW s, Shaped(s), NEW c \in Containers
  PROVE  Listed(ToSay(s, c)) /\ Batched(ToSay(s, c))
BY ToSaySilent, ToSayIs, OneBatched, PagesBatched DEF Silent, Batched, Says

\* The cursor of a container stays a revision or none.
LEMMA SentUpToIs ==
  ASSUME NEW s, Shaped(s), cursor \in [Containers -> Nat \cup {Unsent}], NEW c \in Containers
  PROVE  SentUpTo(s, c) \in Nat \cup {Unsent}
<1> DEFINE q == ToSay(s, c)
<1>1. Says(s, c, q) BY ToSayIs
<1>2. SentUpTo(s, c) =
        CASE q = <<>> -> cursor[c]
          [] q # <<>> /\ Head(q).kind = "closed" -> Unsent
          [] q # <<>> /\ Head(q).kind = "page" -> s.revision[c]
          [] OTHER -> Head(q).first + Len(Head(q).records) - 1
  BY DEF SentUpTo
<1>3. s.revision[c] \in Nat /\ cursor[c] \in Nat \cup {Unsent} BY DEF Shaped
<1> HIDE DEF q
<1>4. CASE q = <<>> BY <1>2, <1>3, <1>4
<1>5. CASE q = <<[kind |-> "closed", container |-> c]>>
  <2> DEFINE e == [kind |-> "closed", container |-> c]
  <2>1. e.kind = "closed" OBVIOUS
  <2>2. q # <<>> /\ Head(q) = e BY <1>5, <2>1, OneBatched
  <2> HIDE DEF e
  <2> QED BY <1>2, <2>1, <2>2
<1>6. CASE q = Pages(s, c) /\ q # <<>>
  BY <1>2, <1>3, <1>6, PagesBatched, ListedTail
<1>7. CASE /\ cursor[c] # Unsent /\ Len(Since(s, c)) \in Nat
           /\ q = <<[kind |-> "deltas", container |-> c, first |-> cursor[c] + 1,
                     records |-> Since(s, c)]>>
  <2> DEFINE r == Since(s, c)
             e == [kind |-> "deltas", container |-> c, first |-> cursor[c] + 1,
                   records |-> r]
  <2>1. e.kind = "deltas" /\ e.first = cursor[c] + 1 /\ e.records = r OBVIOUS
  <2>2. Len(r) \in Nat BY <1>7
  <2>3. q = <<e>> BY <1>7
  <2> HIDE DEF e, r
  <2>4. q # <<>> /\ Head(q) = e BY <2>1, <2>2, <2>3, OneBatched
  <2>5. SentUpTo(s, c) = cursor[c] + 1 + Len(r) - 1 BY <1>2, <2>1, <2>4
  <2>6. cursor[c] \in Nat BY <1>3, <1>7
  <2> QED BY <2>2, <2>5, <2>6
<1> QED BY <1>1, <1>4, <1>5, <1>6, <1>7 DEF Says

\* What a tick says of all of them, with whatever was refused,
LEMMA FlushedBatched ==
  ASSUME NEW s, Shaped(s), NEW refusal \in Refusals(s)
  PROVE  Listed(Flushed(s, refusal)) /\ Batched(Flushed(s, refusal))
<1> DEFINE Accepted(c) == IF refusal.of = c THEN SubSeq(ToSay(s, c), 1, refusal.at - 1)
                          ELSE ToSay(s, c)
           OK(q) == Listed(q) /\ Batched(q)
<1>1. ASSUME NEW c \in Containers PROVE OK(Accepted(c))
  BY RefusalAt, ToSayBatched, ListedStart, BatchedStart
<1>2. OK(Accepted("own")) /\ OK(Accepted("arms")) /\ OK(Accepted("stock"))
  BY <1>1, ItemStoreAssumption
<1>3. Flushed(s, refusal) =
        IF "stock" \in Observed(s) THEN (Accepted("own") \o Accepted("arms")) \o Accepted("stock")
        ELSE Accepted("stock") \o (Accepted("own") \o Accepted("arms"))
  BY DEF Flushed
<1>4. ASSUME NEW q, NEW r, OK(q), OK(r) PROVE OK(q \o r) BY <1>4, ListedConcat, BatchedConcat
<1> HIDE DEF Accepted, OK
<1>5. OK(Accepted("own") \o Accepted("arms")) BY <1>2, <1>4
<1>6. /\ OK((Accepted("own") \o Accepted("arms")) \o Accepted("stock"))
      /\ OK(Accepted("stock") \o (Accepted("own") \o Accepted("arms")))
  BY <1>2, <1>4, <1>5
<1>7. OK(Flushed(s, refusal)) BY <1>3, <1>6
<1> QED BY <1>7 DEF OK

\* and the answers after it.
LEMMA AnswersBatched ==
  ASSUME Recorded, NEW s, NEW refusal \in Refusals(s)
  PROVE  Listed(Answers(refusal)) /\ Batched(Answers(refusal))
<1> DEFINE q == Answers(refusal)
<1>1. Listed(q) BY AnswersTruthful
<1>2. \A n \in DOMAIN q : q[n].kind = "answer" BY DEF Answers
<1> HIDE DEF q
<1>3. DOMAIN q = 1..Len(q) BY <1>1, ListedHas
<1>4. Batched(q) BY <1>2, <1>3 DEF Batched
<1> QED BY <1>1, <1>4 DEF q

-----------------------------------------------------------------------------
(* The client's side, of its type.                                         *)

Copied ==
  /\ cursor \in [Containers -> Nat \cup {Unsent}]
  /\ Fielded(mirror) /\ mirror.open \subseteq Containers
  /\ sync \in [Containers -> {"none", "syncing", "ready", "desynced"}]
  /\ resync \subseteq Containers /\ Batched(toClient)

\* What Copied is about, and all it depends on.
copyVars == <<cursor, mirror, sync, resync, toClient>>

\* What changes none of its variables keeps it.
LEMMA CopiedStutter == Copied /\ UNCHANGED copyVars => Copied'
BY DEF Copied, copyVars, Fielded, Batched

\* The copy begins empty.
LEMMA CopiedStart == InventoryInit => Copied
<1> SUFFICES ASSUME InventoryInit PROVE Copied OBVIOUS
<1>1. /\ cursor = [c \in Containers |-> Unsent] /\ toClient = <<>> /\ mirror = EmptyStore
      /\ sync = [c \in Containers |-> "none"] /\ resync = {}
  BY DEF InventoryInit
<1>2. Fielded(EmptyStore) /\ EmptyStore.open = {}
  <2> DEFINE a == [i \in Ids |-> EmptyItem]
             b == [c \in Containers |-> [k \in 1..Capacity[c] |-> 0]]
             d == [c \in Containers |-> 0]
             e == [c \in Containers |-> <<>>]
             t == EmptyStore
  <2>1. t = [items |-> a, slots |-> b, open |-> {}, revision |-> d, log |-> e,
             nextItem |-> 1, nextProp |-> 1, props |-> {}]
    BY DEF EmptyStore
  <2> HIDE DEF a, b, d, e, t
  <2>2. Fielded(t) /\ t.open = {} BY <2>1 DEF Fielded
  <2> QED BY <2>2 DEF t
<1>3. Batched(<<>>) BY DEF Batched
<1>4. cursor \in [Containers -> Nat \cup {Unsent}] BY <1>1
<1>5. sync \in [Containers -> {"none", "syncing", "ready", "desynced"}] BY <1>1
<1> QED BY <1>1, <1>2, <1>3, <1>4, <1>5 DEF Copied

\* A tick moves the cursors,
LEMMA CopiedTick ==
  ASSUME Recorded, InStep(store, hand, synced), Counted, Copied, Tick
  PROVE  Copied'
<1> DEFINE g == write_back_weapon_states(Loadout(store, hand, synced))
           s == g.store
<1>1. store' = s BY DEF Tick
<1>2. \E refusal \in Refusals(s) :
        /\ toClient' = toClient \o Flushed(s, refusal) \o Answers(refusal)
        /\ cursor' = [c \in Containers |-> IF refusal.of = c THEN cursor[c]
                                           ELSE SentUpTo(s, c)]
  BY DEF Tick
<1>3. mirror' = mirror /\ sync' = sync /\ resync' = resync BY DEF Tick
<1> HIDE DEF s
<1>4. Shaped(s)
  <2>1. ServerKept BY TickKeeps
  <2>2. Sound(store') BY <2>1 DEF ServerKept, InStep, Sound, Shaped, SlotsAgree, PropsAgree,
                                 Numbered, Measured, InWorld, Live
  <2> QED BY <1>1, <2>2 DEF Sound
<1>5. PICK refusal \in Refusals(s) :
        /\ toClient' = toClient \o Flushed(s, refusal) \o Answers(refusal)
        /\ cursor' = [c \in Containers |-> IF refusal.of = c THEN cursor[c]
                                           ELSE SentUpTo(s, c)]
  BY <1>2
<1>6. cursor' \in [Containers -> Nat \cup {Unsent}]
  BY <1>4, <1>5, SentUpToIs DEF Copied
<1>7. Batched(toClient \o Flushed(s, refusal) \o Answers(refusal))
  <2> DEFINE u == toClient \o Flushed(s, refusal)
  <2>1. Listed(toClient) /\ Batched(toClient) BY DEF Recorded, Copied
  <2>2. Listed(Flushed(s, refusal)) /\ Batched(Flushed(s, refusal))
    BY <1>4, FlushedBatched
  <2>3. Listed(u) /\ Batched(u) BY <2>1, <2>2, ListedConcat, BatchedConcat
  <2>4. Listed(Answers(refusal)) /\ Batched(Answers(refusal)) BY AnswersBatched
  <2> HIDE DEF u
  <2>5. Batched(u \o Answers(refusal)) BY <2>3, <2>4, BatchedConcat
  <2> QED BY <2>5 DEF u
<1>8. Batched(toClient') BY <1>5, <1>7
<1>9. Batched(toClient)' BY <1>8 DEF Batched
<1> QED BY <1>3, <1>6, <1>9 DEF Copied, Fielded

\* an answer to a call for a snapshot moves one,
LEMMA CopiedServer ==
  ASSUME Recorded, InStep(store, hand, synced), Copied, ServerReceive
  PROVE  Copied'
<1> DEFINE m == Head(toServer)
           c == m.container
<1>1. toServer # <<>> /\ mirror' = mirror /\ sync' = sync /\ resync' = resync
  BY DEF ServerReceive
<1>2. m = toServer[1] /\ 1 \in 1..Len(toServer) BY <1>1, ListedTail DEF Recorded
<1>3. cursor \in [Containers -> Nat \cup {Unsent}] /\ Batched(toClient) BY DEF Copied
<1>4. CASE UNCHANGED <<inside, asked, cursor, toClient, scenario>>
  BY <1>1, <1>4, CopiedStutter DEF copyVars
<1>5. CASE m.kind = "snapshot" /\ HandleSnapshotRequest(c)
  <2>1. c \in Containers BY <1>2, <1>5 DEF Recorded, Asking
  <2> DEFINE p == Pages(store, c)
  <2>2. \/ toClient' = toClient
        \/ toClient' = toClient \o p
        \/ \E n \in 1..Len(p) : toClient' = toClient \o SubSeq(p, 1, n - 1)
    <3> DEFINE R == IF c \in Observed(store) /\ scenario.faults > 0
                    THEN {NoRefusal} \cup {[of |-> c, at |-> n] : n \in 1..Len(p)}
                    ELSE {NoRefusal}
    <3>1. PICK refusal \in R :
            \/ toClient' = toClient
            \/ toClient' = toClient \o p
            \/ refusal # NoRefusal /\ toClient' = toClient \o SubSeq(p, 1, refusal.at - 1)
      BY <1>5 DEF HandleSnapshotRequest
    <3>2. refusal = NoRefusal \/ \E n \in 1..Len(p) : refusal = [of |-> c, at |-> n]
      <4> HIDE DEF p, c
      <4> QED OBVIOUS
    <3> HIDE DEF p, c, R
    <3>3. ASSUME NEW n \in 1..Len(p), refusal = [of |-> c, at |-> n],
                 toClient' = toClient \o SubSeq(p, 1, refusal.at - 1)
          PROVE  \E k \in 1..Len(p) : toClient' = toClient \o SubSeq(p, 1, k - 1)
      BY <3>3
    <3> QED BY <3>1, <3>2, <3>3
  <2>3. cursor' = cursor \/ cursor' = [cursor EXCEPT ![c] = store.revision[c]]
    BY <1>5 DEF HandleSnapshotRequest
  <2>4. store.revision[c] \in Nat BY <2>1 DEF InStep, Sound, Shaped
  <2>5. cursor' \in [Containers -> Nat \cup {Unsent}] BY <1>3, <2>3, <2>4
  <2>6. Listed(p) /\ Batched(p) BY <2>1, PagesBatched
  <2>7. Listed(toClient) BY DEF Recorded
  <2> HIDE DEF p
  <2>8. Batched(toClient \o p) BY <1>3, <2>6, <2>7, BatchedConcat
  <2>9. ASSUME NEW n \in 1..Len(p) PROVE Batched(toClient \o SubSeq(p, 1, n - 1))
    <3>1. n - 1 \in Int /\ n - 1 <= Len(p) BY <2>6, ListedHas
    <3>2. Listed(SubSeq(p, 1, n - 1)) /\ Batched(SubSeq(p, 1, n - 1))
      BY <2>6, <3>1, ListedStart, BatchedStart
    <3> QED BY <1>3, <2>7, <3>2, BatchedConcat
  <2>10. Batched(toClient') BY <1>3, <2>2, <2>8, <2>9
  <2>11. Batched(toClient)' BY <2>10 DEF Batched
  <2> QED BY <1>1, <2>5, <2>11 DEF Copied, Fielded
<1> QED BY <1>4, <1>5 DEF ServerReceive

\* and a message received moves the copy.
LEMMA CopiedClient ==
  ASSUME Recorded, Copied, ClientReceive
  PROVE  Copied'
<1> DEFINE m == Head(toClient)
           c == m.container
<1>1. toClient # <<>> /\ toClient' = Tail(toClient) /\ cursor' = cursor
  BY DEF ClientReceive
<1>2. Listed(toClient) BY DEF Recorded
<1>3. /\ m = toClient[1] /\ 1 \in 1..Len(toClient)
      /\ \A n \in 1..Len(Tail(toClient)) :
           \E k \in 1..Len(toClient) : Tail(toClient)[n] = toClient[k]
  BY <1>1, <1>2, ListedTail
<1>4. Batched(toClient)'
  BY <1>1, <1>3 DEF Copied, Batched
<1>5. /\ Fielded(mirror) /\ mirror.open \subseteq Containers
      /\ sync \in [Containers -> {"none", "syncing", "ready", "desynced"}]
      /\ resync \subseteq Containers /\ cursor \in [Containers -> Nat \cup {Unsent}]
  BY DEF Copied
<1>6. m.kind # "answer" => c \in Containers BY <1>3 DEF Recorded, Truthful
<1>7. m.kind = "deltas" => Len(m.records) \in Nat BY <1>3 DEF Copied, Batched
<1>8. SUFFICES /\ Fielded(mirror') /\ mirror'.open \subseteq Containers
               /\ sync' \in [Containers -> {"none", "syncing", "ready", "desynced"}]
               /\ resync' \subseteq Containers
  BY <1>1, <1>4, <1>5 DEF Copied, Fielded
<1> HIDE DEF m
<1>9. CASE m.kind = "page" /\ ReceivePage(m)
  <2>1. \/ UNCHANGED <<mirror, sync, resync>>
        \/ sync' = [sync EXCEPT ![c] = "syncing"] /\ UNCHANGED <<mirror, resync>>
        \/ /\ sync' = [sync EXCEPT ![c] = "ready"] /\ resync' = resync \ {c}
           /\ \E r, e : mirror' = Replaced(mirror, c, r, e)
    BY <1>9 DEF ReceivePage
  <2>2. c \in Containers BY <1>6, <1>9
  <2> HIDE DEF c
  <2>3. \A r, e : /\ Fielded(Replaced(mirror, c, r, e))
                  /\ Replaced(mirror, c, r, e).open = mirror.open \cup {c}
    BY <1>5, ReplacedAlike
  <2> QED BY <1>5, <2>1, <2>2, <2>3
<1>10. CASE m.kind = "deltas" /\ ReceiveDeltas(m)
  <2> DEFINE t == ApplyAll(mirror, c, m.records).store
  <2>1. resync' = resync \/ resync' = resync \cup {c}
    BY <1>10 DEF ReceiveDeltas, Ask
  <2>2. mirror' = mirror \/ mirror' = t BY <1>10 DEF ReceiveDeltas
  <2>3. \/ sync' = sync
        \/ \E x \in {"ready", "desynced"} : sync' = [sync EXCEPT ![c] = x]
    BY <1>10 DEF ReceiveDeltas
  <2>4. c \in Containers BY <1>6, <1>10
  <2>5. Alike(mirror, t) BY <1>5, <1>7, <1>10, ApplyAllAlike
  <2> HIDE DEF c, t
  <2>6. Fielded(mirror') /\ mirror'.open = mirror.open BY <1>5, <2>2, <2>5 DEF Alike
  <2>7. sync' \in [Containers -> {"none", "syncing", "ready", "desynced"}] BY <1>5, <2>3
  <2> QED BY <1>5, <2>1, <2>4, <2>6, <2>7
<1>11. CASE m.kind = "closed" /\ ReceiveClosed(m)
  <2>1. /\ mirror' = mirror \/ mirror' = destroy_container(mirror, c)
        /\ sync' = [sync EXCEPT ![c] = "none"] /\ resync' = resync \ {c}
    BY <1>11 DEF ReceiveClosed
  <2>2. c \in Containers BY <1>6, <1>11
  <2> HIDE DEF c
  <2>3. /\ Fielded(destroy_container(mirror, c))
        /\ destroy_container(mirror, c).open = mirror.open \ {c}
    BY <1>5, <2>2, DestroyAlike
  <2>4. sync' \in [Containers -> {"none", "syncing", "ready", "desynced"}] BY <1>5, <2>1
  <2> QED BY <1>5, <2>1, <2>3, <2>4
<1>12. CASE m.kind = "answer" /\ ReceiveAnswer(m)
  BY <1>5, <1>12 DEF ReceiveAnswer
<1> QED BY <1>9, <1>10, <1>11, <1>12 DEF ClientReceive, m

\* Every step keeps the copy of its type.
LEMMA CopiedStep ==
  ASSUME Inventoried, Copied, [InventoryNext]_inventoryVars
  PROVE  Copied'
<1>1. Recorded /\ InStep(store, hand, synced) /\ Counted BY DEF Inventoried, Stored
<1>2. CASE Tick BY <1>1, <1>2, CopiedTick
<1>3. CASE ServerReceive BY <1>1, <1>3, CopiedServer
<1>4. CASE World
  BY <1>4, CopiedStutter DEF World, syncVars, copyVars
<1>5. CASE submit_gameplay_request
  BY <1>5, CopiedStutter DEF submit_gameplay_request, copyVars
<1>6. CASE ClientReceive BY <1>1, <1>6, CopiedClient
<1>7. CASE UNCHANGED inventoryVars
  BY <1>7, CopiedStutter DEF inventoryVars, syncVars, copyVars
<1> QED BY <1>2, <1>3, <1>4, <1>5, <1>6, <1>7 DEF InventoryNext

\* Every variable of the composition keeps its type, the client's copy included.
LEMMA TypedIs == Inventoried /\ Copied => InventoryTypeOK
<1> SUFFICES ASSUME Inventoried, Copied PROVE InventoryTypeOK OBVIOUS
<1>1. Sound(store) /\ HandOK(store, hand) /\ synced = store.revision["arms"]
  BY DEF Inventoried, Stored, InStep
<1>2. Shaped(store) BY <1>1 DEF Sound
<1>3. DOMAIN store.items = Ids
  <2>1. store.items = [i \in Ids |-> store.items[i]] BY <1>2 DEF Shaped
  <2> DEFINE f == store.items
  <2>2. f = [i \in Ids |-> f[i]] BY <2>1
  <2> HIDE DEF f
  <2>3. DOMAIN f = Ids BY <2>2
  <2> QED BY <2>3 DEF f
<1>4. store.open \subseteq Containers BY <1>2 DEF Shaped
<1>5. store.nextItem \in 1..(MaxItems + 1) /\ store.nextProp \in 1..(MaxProps + 1)
  BY <1>1, <1>2, ItemStoreAssumption DEF Shaped, Sound, Numbered, Inventoried, Stored,
    Counted
<1>6. hand.id \in Ids \cup {0} /\ hand.count \in 0..Magazine /\ hand.reserve \in Nat
  BY <1>1 DEF HandOK
<1>7. synced \in Nat BY <1>1, ArmsIs
<1>8. /\ inside \in BOOLEAN /\ spent \in [Templates -> Nat]
      /\ asked \in [RequestIds -> Requests \cup {NotAsked}]
  BY DEF Inventoried, Stored, Counted, Wished
<1>9. /\ processed \in [RequestIds -> {"none", "committed", "rejected"}]
      /\ told \in [RequestIds -> SUBSET {"committed", "rejected", "unauthorized"}]
  <2>1. Replies = {"committed", "rejected", "unauthorized"} BY DEF Replies, Outcomes
  <2> QED BY <2>1 DEF Outcomes, Inventoried, Recorded
<1> QED BY <1>3, <1>4, <1>5, <1>6, <1>7, <1>8, <1>9 DEF InventoryTypeOK, Copied

\* The inductive invariant.
Conserving == Inventoried /\ Copied

\* Nothing is made or lost, nothing is in two places, and every variable keeps
\* its type, the client's copy included, whichever requests came twice, whichever
\* messages were refused and wherever one of them failed half way.
THEOREM InventoryConserved == InventorySpec => []Conservation
<1>1. InventoryInit => Conserving BY InventoriedStart, CopiedStart DEF Conserving
<1>2. Conserving /\ [InventoryNext]_inventoryVars => Conserving'
  BY InventoriedStep, CopiedStep DEF Conserving
<1>3. Conserving => InventoryTypeOK BY TypedIs DEF Conserving
<1>4. InventorySpec => []InventoryTypeOK BY <1>1, <1>2, <1>3, PTL DEF InventorySpec
<1> QED BY <1>4, QuantitiesAreKept, ItemsInOnePlace, PTL DEF Conservation
==============================================================================
