------------------------------ MODULE MirrorProofs ------------------------------
(***************************************************************************)
(* The client's copy agrees with the server's store once everything sent   *)
(* has arrived, whatever the capacities, the contents, the sizes of a page *)
(* and of a batch, and how far back the log goes.                          *)
(*                                                                         *)
(* The server's half: a container has a history h, what it showed at each  *)
(* of its revisions (Recalls).  Every step makes it longer (Onward), the   *)
(* log being its last changes, as long as nothing was taken whole from the *)
(* stock (Told): an item belongs to one container then (Home).             *)
(*                                                                         *)
(* The messages' half: a client is at a stage, the revision its copy shows *)
(* and the pages it has of another.  What is on the way says what h does   *)
(* (Tells) and takes the client from its stage to the revision the         *)
(* session's cursor is at (Reaches), refused sends and cut replies         *)
(* included.                                                               *)
(*                                                                         *)
(* The client's half: its store is a copy of what the server's was         *)
(* (Mirrors), a container of it shows the revision it says (Stands), and   *)
(* what its assembly holds are pages of one revision (Gathers).  With      *)
(* nothing on the way the stage is the cursor's, and the copy agrees.      *)
(***************************************************************************)
EXTENDS InventoryProofs

-----------------------------------------------------------------------------
(* What a container shows, and what a store recalls of it.                 *)

\* What a container shows of an item, and of none.
Bare(i, x) == [id |-> i, template |-> x.template, quantity |-> x.quantity, state |-> x.state]
Nothing == [id |-> 0, template |-> "none", quantity |-> 0, state |-> NoState]

\* What the slots of container c show.
Shown(s, c) ==
  [k \in 1..Capacity[c] |->
     IF s.slots[c][k] = 0 THEN Nothing ELSE Bare(s.slots[c][k], s.items[s.slots[c][k]])]

\* The templates there is one of in a slot; their state changes, of the others the
\* quantity does.
Single == Weapons \cup Charged

\* The container an item belongs to, as long as nothing leaves the stock whole.
Home(i, t) == IF i <= Len(StockContents) THEN "stock" ELSE Own(t)

\* e shows item e.id of store s, now or earlier, in its own container.
Genuine(s, c, e) ==
  /\ e.id \in Ids /\ e.id < s.nextItem
  /\ e.template \in Templates /\ e.template = s.items[e.id].template
  /\ Home(e.id, e.template) = c
  /\ e.quantity \in Nat \ {0} /\ e.state \in States
  /\ IF e.template \in Single THEN e.quantity = 1 ELSE e.state = s.items[e.id].state

\* v shows container c of s, now or earlier.
Proper(s, c, v) ==
  /\ v = [k \in 1..Capacity[c] |-> v[k]]
  /\ \A k \in 1..Capacity[c] :
       v[k] = Nothing \/ (v[k] = Bare(v[k].id, v[k]) /\ Genuine(s, c, v[k]))
  /\ \A j, k \in 1..Capacity[c] : v[j].id = v[k].id /\ v[j].id # 0 => j = k

\* Change d turns v into w.
Turns(v, d, w) ==
  /\ d.type \in {"Add", "Update", "Remove"} /\ d.slot \in DOMAIN v /\ d.id \in Ids
  /\ d.item.used \in Nat
  /\ v[d.slot].id = IF d.type = "Add" THEN 0 ELSE d.id
  /\ w = [v EXCEPT ![d.slot] = IF d.type = "Remove" THEN Nothing ELSE Bare(d.id, d.item)]
  /\ d.type = "Update" =>
       (IF d.item.template \in Single THEN "state" ELSE "quantity") \in d.changed

\* h is what container c showed at each of its revisions, and the log the last
\* changes between them.
Recalls(s, c, h) ==
  /\ h = [r \in 0..s.revision[c] |-> h[r]]
  /\ h[s.revision[c]] = Shown(s, c)
  /\ \A r \in 0..s.revision[c] : Proper(s, c, h[r])
  /\ Len(s.log[c]) <= s.revision[c]
  /\ \A n \in 1..Len(s.log[c]) :
       /\ s.log[c][n].revision = s.revision[c] - Len(s.log[c]) + n
       /\ Turns(h[s.log[c][n].revision - 1], s.log[c][n], h[s.log[c][n].revision])

\* g goes on from h.
Longer(h, g) == DOMAIN h \subseteq DOMAIN g /\ \A r \in DOMAIN h : g[r] = h[r]

\* An item stays what it is.
Lasts(s, t) ==
  /\ s.nextItem <= t.nextItem
  /\ \A i \in Ids : i < s.nextItem =>
       /\ t.items[i].template = s.items[i].template
       /\ s.items[i].template \notin Single => t.items[i].state = s.items[i].state

\* What s recalls t recalls, and what happened since.
Grows(s, t) ==
  /\ Lasts(s, t)
  /\ \A c \in Containers : \A h :
       Recalls(s, c, h) => \E g : Recalls(t, c, g) /\ Longer(h, g)

\* A slot holds an item or nothing.
LEMMA SlotIn ==
  ASSUME NEW s, Shaped(s), NEW c \in Containers, NEW k \in 1..Capacity[c],
         s.slots[c][k] # 0
  PROVE  s.slots[c][k] \in Ids
BY DEF Shaped

\* What lasts lasts over two steps,
LEMMA LastsTrans ==
  ASSUME NEW s, NEW t, NEW u, Shaped(s), Shaped(t), Shaped(u), Lasts(s, t), Lasts(t, u)
  PROVE  Lasts(s, u)
<1>1. s.nextItem \in Nat /\ t.nextItem \in Nat /\ u.nextItem \in Nat BY DEF Shaped
<1>2. \A i \in Ids : i \in Nat BY ItemStoreAssumption DEF Ids
<1>3. s.nextItem <= u.nextItem BY <1>1 DEF Lasts
<1>4. ASSUME NEW i \in Ids, i < s.nextItem
      PROVE  /\ u.items[i].template = s.items[i].template
             /\ s.items[i].template \notin Single => u.items[i].state = s.items[i].state
  BY <1>1, <1>2, <1>4 DEF Lasts
<1> QED BY <1>3, <1>4 DEF Lasts

\* and so does what is recalled.
LEMMA GrowsTrans ==
  ASSUME NEW s, NEW t, NEW u, Shaped(s), Shaped(t), Shaped(u), Grows(s, t), Grows(t, u)
  PROVE  Grows(s, u)
BY LastsTrans DEF Grows, Longer

\* What was proper stays so.
LEMMA ProperLasts ==
  ASSUME NEW s, NEW t, Shaped(s), Shaped(t), Lasts(s, t), NEW c, NEW v, Proper(s, c, v)
  PROVE  Proper(t, c, v)
<1>1. s.nextItem \in Nat /\ t.nextItem \in Nat /\ s.nextItem <= t.nextItem BY DEF Shaped, Lasts
<1>2. ASSUME NEW e, Genuine(s, c, e) PROVE Genuine(t, c, e)
  BY <1>1, <1>2, ItemStoreAssumption DEF Genuine, Ids, Lasts
<1> QED BY <1>2 DEF Proper

\* Nothing published, and nothing shown has changed.
LEMMA GrowsSame ==
  ASSUME NEW s, NEW t, Shaped(s), Shaped(t), Lasts(s, t),
         t.revision = s.revision,
         \A c \in Containers : Shown(t, c) = Shown(s, c) /\ t.log[c] \in {s.log[c], <<>>}
  PROVE  Grows(s, t)
<1>1. ASSUME NEW c \in Containers, NEW h, Recalls(s, c, h)
      PROVE  Recalls(t, c, h)
  <2>1. \A r \in 0..s.revision[c] : Proper(t, c, h[r]) BY <1>1, ProperLasts DEF Recalls
  <2>2. s.revision[c] \in Nat /\ Len(<<>>) = 0 BY DEF Shaped
  <2>3. CASE t.log[c] = s.log[c] BY <1>1, <2>1, <2>3 DEF Recalls
  <2>4. CASE t.log[c] = <<>> BY <1>1, <2>1, <2>2, <2>4 DEF Recalls
  <2> QED BY <2>3, <2>4
<1>2. \A h : Longer(h, h) BY DEF Longer
<1> QED BY <1>1, <1>2 DEF Grows

\* The record a change is, and the log with it.
Delta(s, c, type, slot, i, changed) ==
  [revision |-> s.revision[c] + 1, type |-> type, slot |-> slot,
   previous |-> slot, id |-> i, changed |-> changed,
   item |-> [template |-> s.items[i].template, quantity |-> s.items[i].quantity,
             used |-> s.items[i].used, state |-> s.items[i].state]]
Logged(q, d) ==
  IF Len(Append(q, d)) > HistoryLimit THEN Tail(Append(q, d)) ELSE Append(q, d)

\* publish_delta: the next revision, and the record of it in the log.
LEMMA PublishIs ==
  ASSUME NEW s, Shaped(s), NEW c \in Containers, NEW type, NEW slot, NEW i, NEW changed
  PROVE  LET t == publish_delta(s, c, type, slot, slot, i, changed)
         IN  /\ Shaped(t) /\ Beside(s, t) /\ t.items = s.items /\ t.slots = s.slots
             /\ t.revision = [s.revision EXCEPT ![c] = @ + 1]
             /\ t.log = [s.log EXCEPT ![c] = Logged(s.log[c], Delta(s, c, type, slot, i, changed))]
<1> DEFINE delta == Delta(s, c, type, slot, i, changed)
           kept == Logged(s.log[c], delta)
           r == [s.revision EXCEPT ![c] = @ + 1]
           l == [s.log EXCEPT ![c] = kept]
           u == [s EXCEPT !.revision[c] = @ + 1]
           t == publish_delta(s, c, type, slot, slot, i, changed)
<1>1. t = [s EXCEPT !.revision[c] = @ + 1, !.log[c] = kept]
  BY DEF publish_delta, Delta, Logged
<1> HIDE DEF delta, kept
<1>2. s = [items |-> s.items, slots |-> s.slots, open |-> s.open,
          revision |-> s.revision, log |-> s.log,
          nextItem |-> s.nextItem, nextProp |-> s.nextProp, props |-> s.props]
  BY DEF Shaped
<1>3. u = [items |-> s.items, slots |-> s.slots, open |-> s.open,
           revision |-> r, log |-> s.log,
           nextItem |-> s.nextItem, nextProp |-> s.nextProp, props |-> s.props]
  BY <1>2
<1> HIDE DEF t
<1>4. t = [u EXCEPT !.log[c] = kept] BY <1>1
<1> HIDE DEF u
<1>5. t = [items |-> s.items, slots |-> s.slots, open |-> s.open,
           revision |-> r, log |-> l,
           nextItem |-> s.nextItem, nextProp |-> s.nextProp, props |-> s.props]
  BY <1>3, <1>4
<1>6. t.log = l BY <1>5
<1>7. /\ Shaped(t) /\ Beside(s, t) /\ t.items = s.items /\ t.slots = s.slots
      /\ t.revision = [s.revision EXCEPT ![c] = @ + 1]
  BY PublishShaped DEF t
<1> QED BY <1>6, <1>7 DEF t, l, kept, delta

\* The log after a change: the change last, the others as they were, one less at most.
LEMMA LoggedIs ==
  ASSUME NEW q, Listed(q), NEW d
  PROVE  LET w == Logged(q, d)
         IN  /\ Len(w) \in Nat /\ 1 <= Len(w) /\ Len(w) <= Len(q) + 1
             /\ w[Len(w)] = d
             /\ \A n \in 1..(Len(w) - 1) :
                  /\ n + (Len(q) + 1 - Len(w)) \in 1..Len(q)
                  /\ w[n] = q[n + (Len(q) + 1 - Len(w))]
<1>1. q \in Seq({q[n] : n \in DOMAIN q}) /\ Len(q) \in Nat /\ DOMAIN q = 1..Len(q)
  BY ListedHas DEF Listed
<1> DEFINE S == {q[n] : n \in DOMAIN q} \cup {d}
<1>2. q \in Seq(S) BY <1>1, ListedFrom, IsASeq
<1> HIDE DEF S
<1>3. d \in S BY DEF S
<1> DEFINE a == Append(q, d)
<1>4. /\ a \in Seq(S) /\ Len(a) = Len(q) + 1 /\ a[Len(q) + 1] = d
      /\ \A n \in 1..Len(q) : a[n] = q[n]
  BY <1>2, <1>3, AppendProperties
<1> HIDE DEF a
<1>5. a # <<>> BY <1>1, <1>4
<1>6. /\ Tail(a) \in Seq(S) /\ Len(Tail(a)) = Len(a) - 1
      /\ \A n \in 1..Len(Tail(a)) : Tail(a)[n] = a[n + 1]
  BY <1>4, <1>5, HeadTailProperties
<1>7. CASE Len(a) > HistoryLimit
  <2>1. Logged(q, d) = Tail(a) BY <1>7 DEF Logged, a
  <2>2. Len(q) >= 1 BY <1>1, <1>4, <1>7, ItemStoreAssumption
  <2> QED BY <1>1, <1>4, <1>6, <2>1, <2>2
<1>8. CASE ~(Len(a) > HistoryLimit)
  BY <1>1, <1>4, <1>8 DEF Logged, a
<1> QED BY <1>7, <1>8

\* One change published of container c.
LEMMA GrowsPublished ==
  ASSUME NEW s, NEW t, Shaped(s), Shaped(t), Lasts(s, t), NEW c \in Containers, NEW d,
         d.revision = s.revision[c] + 1,
         t.revision = [s.revision EXCEPT ![c] = @ + 1],
         t.log = [s.log EXCEPT ![c] = Logged(s.log[c], d)],
         \A b \in Containers : b # c => Shown(t, b) = Shown(s, b),
         Proper(s, c, Shown(s, c)) =>
           Turns(Shown(s, c), d, Shown(t, c)) /\ Proper(t, c, Shown(t, c))
  PROVE  Grows(s, t)
<1>1. ASSUME NEW b \in Containers, b # c, NEW h, Recalls(s, b, h)
      PROVE  Recalls(t, b, h) /\ Longer(h, h)
  BY <1>1, ProperLasts DEF Shaped, Recalls, Longer
<1>2. ASSUME NEW h, Recalls(s, c, h)
      PROVE  \E g : Recalls(t, c, g) /\ Longer(h, g)
  <2> DEFINE m == s.revision[c]
             g == [r \in 0..(m + 1) |-> IF r <= m THEN h[r] ELSE Shown(t, c)]
             q == s.log[c]
             w == Logged(q, d)
  <2>1. m \in Nat /\ t.revision[c] = m + 1 /\ t.log[c] = w /\ Listed(q)
    BY DEF Shaped
  <2>2. /\ h = [r \in 0..m |-> h[r]] /\ h[m] = Shown(s, c)
        /\ (\A r \in 0..m : Proper(s, c, h[r]))
        /\ Len(q) <= m
        /\ \A n \in 1..Len(q) : /\ q[n].revision = m - Len(q) + n
                                /\ Turns(h[q[n].revision - 1], q[n], h[q[n].revision])
    BY <1>2 DEF Recalls
  <2>3. Turns(Shown(s, c), d, Shown(t, c)) /\ Proper(t, c, Shown(t, c))
    <3> HIDE DEF m
    <3>1. m \in 0..m BY <2>1
    <3>2. Proper(s, c, Shown(s, c)) BY <2>2, <3>1
    <3> QED BY <3>2
  <2>4. Len(q) \in Nat BY <2>1, ListedHas
  <2>5. /\ Len(w) \in Nat /\ 1 <= Len(w) /\ Len(w) <= Len(q) + 1
        /\ w[Len(w)] = d
        /\ \A n \in 1..(Len(w) - 1) :
             /\ n + (Len(q) + 1 - Len(w)) \in 1..Len(q)
             /\ w[n] = q[n + (Len(q) + 1 - Len(w))]
    <3> HIDE DEF q
    <3> QED BY <2>1, LoggedIs
  <2> HIDE DEF m, q, w
  <2>6. \A r \in 0..m : Proper(t, c, h[r]) BY <2>2, ProperLasts
  <2>7. /\ g = [r \in 0..(m + 1) |-> g[r]] /\ g[m + 1] = Shown(t, c)
        /\ \A r \in 0..m : g[r] = h[r]
    BY <2>1
  <2> HIDE DEF g
  <2>8. \A r \in 0..(m + 1) : Proper(t, c, g[r])
    <3> TAKE r \in 0..(m + 1)
    <3>1. CASE r \in 0..m BY <2>6, <2>7, <3>1
    <3>2. CASE r = m + 1 BY <2>3, <2>7, <3>2
    <3> QED BY <2>1, <3>1, <3>2
  <2>9. ASSUME NEW n \in 1..Len(w)
        PROVE  /\ w[n].revision = (m + 1) - Len(w) + n
               /\ Turns(g[w[n].revision - 1], w[n], g[w[n].revision])
    <3>1. CASE n = Len(w)
      <4>1. w[n].revision = m + 1 BY <2>5, <3>1 DEF m
      <4>2. g[(m + 1) - 1] = Shown(s, c)
        <5>1. (m + 1) - 1 = m /\ m \in 0..m BY <2>1
        <5> QED BY <2>2, <2>7, <5>1
      <4> QED BY <2>1, <2>3, <2>5, <2>7, <3>1, <4>1, <4>2
    <3>2. CASE n # Len(w)
      <4> DEFINE k == n + (Len(q) + 1 - Len(w))
      <4>1. n \in 1..(Len(w) - 1) BY <2>5, <3>2
      <4>2. k \in 1..Len(q) /\ w[n] = q[k] BY <2>5, <4>1
      <4>3. k = n + (Len(q) + 1 - Len(w)) OBVIOUS
      <4> HIDE DEF k
      <4>4. q[k].revision = m - Len(q) + k /\ Turns(h[q[k].revision - 1], q[k], h[q[k].revision])
        BY <2>2, <4>2
      <4>5. /\ q[k].revision = (m + 1) - Len(w) + n
            /\ q[k].revision \in 0..m /\ q[k].revision - 1 \in 0..m
        <5>1. k \in Nat /\ 1 <= k /\ k <= Len(q) /\ n \in Nat BY <2>4, <2>5, <4>2
        <5>2. q[k].revision = (m + 1) - Len(w) + n BY <2>1, <2>4, <2>5, <4>3, <4>4, <5>1
        <5>3. Len(q) <= m BY <2>2
        <5>4. m - Len(q) + k \in 0..m /\ m - Len(q) + k - 1 \in 0..m
          BY <2>1, <2>4, <5>1, <5>3
        <5>5. q[k].revision = m - Len(q) + k BY <4>4
        <5>6. q[k].revision \in 0..m BY <5>4, <5>5
        <5>7. q[k].revision - 1 \in 0..m BY <2>1, <2>4, <5>1, <5>4, <5>5
        <5> QED BY <5>2, <5>6, <5>7
      <4>6. g[q[k].revision - 1] = h[q[k].revision - 1] /\ g[q[k].revision] = h[q[k].revision]
        BY <2>7, <4>5
      <4> QED BY <4>2, <4>4, <4>5, <4>6
    <3> QED BY <3>1, <3>2
  <2>10. Len(w) <= m + 1 BY <2>1, <2>2, <2>4, <2>5
  <2>11. Recalls(t, c, g) BY <2>1, <2>7, <2>8, <2>9, <2>10 DEF Recalls
  <2>12. DOMAIN h = 0..m /\ DOMAIN g = 0..(m + 1) /\ 0..m \subseteq 0..(m + 1)
    BY <2>1, <2>2, <2>7
  <2>13. Longer(h, g) BY <2>7, <2>12 DEF Longer
  <2> QED BY <2>11, <2>13
<1> QED BY <1>1, <1>2 DEF Grows

\* Nothing but the items, the slots, a counter or the props of a store changed: not its log.
LEMMA LogStays ==
  ASSUME NEW s, Shaped(s)
  PROVE  /\ \A f : [s EXCEPT !.items = f].log = s.log
         /\ \A i, x : [s EXCEPT !.items[i] = x].log = s.log
         /\ \A c, k, i : [s EXCEPT !.slots[c][k] = i].log = s.log
         /\ \A n : [s EXCEPT !.nextItem = n].log = s.log
         /\ \A n : [s EXCEPT !.nextProp = n].log = s.log
         /\ \A p : [s EXCEPT !.props = p].log = s.log
         /\ \A p : [s EXCEPT !.open = p].log = s.log
BY DEF Shaped

\* i is in no slot.
Offslot(s, i) == \A c \in Containers : \A k \in 1..Capacity[c] : s.slots[c][k] # i

\* An item that is in no container is in no slot.
LEMMA OffslotIs ==
  ASSUME NEW s, Shaped(s), SlotsAgree(s), NEW i \in Ids, ~InInventory(s, i)
  PROVE  Offslot(s, i)
BY ItemStoreAssumption, PlaceKinds DEF Offslot, Ids, SlotsAgree, InInventory

\* Slots that name the same items, as they are, show the same.
LEMMA ShownSame ==
  ASSUME NEW s, NEW t, NEW c, t.slots[c] = s.slots[c],
         \A k \in 1..Capacity[c] : s.slots[c][k] # 0 =>
           Bare(s.slots[c][k], t.items[s.slots[c][k]]) = Bare(s.slots[c][k], s.items[s.slots[c][k]])
  PROVE  Shown(t, c) = Shown(s, c)
BY DEF Shown

\* A change to an item that is in no slot, or made just now, shows nowhere.
LEMMA GrowsOff ==
  ASSUME NEW s, NEW t, Shaped(s), Shaped(t), NEW i \in Ids, Offslot(s, i), NEW x,
         t.items = [s.items EXCEPT ![i] = x], t.slots = s.slots, t.revision = s.revision,
         t.log = s.log, t.nextItem >= s.nextItem,
         i < s.nextItem => /\ x.template = s.items[i].template
                           /\ x.template \notin Single => x.state = s.items[i].state
  PROVE  Grows(s, t)
<1>1. ASSUME NEW c \in Containers PROVE Shown(t, c) = Shown(s, c)
  <2>1. ASSUME NEW k \in 1..Capacity[c], s.slots[c][k] # 0
        PROVE t.items[s.slots[c][k]] = s.items[s.slots[c][k]]
    <3>1. s.slots[c][k] \in Ids BY <2>1, SlotIn
    <3>2. s.slots[c][k] # i BY <2>1 DEF Offslot
    <3>3. s.items = [j \in Ids |-> s.items[j]] BY DEF Shaped
    <3> QED BY <3>1, <3>2, <3>3
  <2> QED BY <2>1, ShownSame
<1>2. Lasts(s, t)
  BY DEF Shaped, Lasts
<1> QED BY <1>1, <1>2, GrowsSame

\* Items and slots as they were.
LEMMA GrowsIdle ==
  ASSUME NEW s, NEW t, Shaped(s), Shaped(t), t.items = s.items, t.slots = s.slots,
         t.revision = s.revision, \A c \in Containers : t.log[c] \in {s.log[c], <<>>},
         t.nextItem >= s.nextItem
  PROVE  Grows(s, t)
<1>1. \A c \in Containers : Shown(t, c) = Shown(s, c) BY DEF Shown
<1>2. Lasts(s, t) BY DEF Lasts, Shaped
<1> QED BY <1>1, <1>2, GrowsSame

\* A store that does not change recalls what it does.
LEMMA GrowsSelf == ASSUME NEW s, Shaped(s) PROVE Grows(s, s)
<1>1. s.nextItem \in Nat BY DEF Shaped
<1>2. s.nextItem >= s.nextItem BY <1>1
<1> QED BY <1>2, GrowsIdle

\* An item changed where it is, and published if it is in a slot.
LEMMA GrowsUpdated ==
  ASSUME NEW s, Shaped(s), SlotsAgree(s), NEW i \in Ids, NEW x, IsItem(x),
         x.at = s.items[i].at, x.template = s.items[i].template, x.quantity # 0,
         NEW changed,
         IF x.template \in Single
         THEN "state" \in changed /\ x.quantity = s.items[i].quantity
         ELSE "quantity" \in changed /\ x.state = s.items[i].state
  PROVE  Grows(s, Updated([s EXCEPT !.items[i] = x], i, changed))
<1> DEFINE u == [s EXCEPT !.items[i] = x]
           t == Updated(u, i, changed)
<1>1. /\ Shaped(u) /\ Beside(s, u) /\ u.items = [s.items EXCEPT ![i] = x]
      /\ u.slots = s.slots /\ u.revision = s.revision /\ u.log = s.log
  BY ItemShaped, LogStays
<1> HIDE DEF u
<1>2. u.items[i] = x /\ \A j \in Ids : j # i => u.items[j] = s.items[j] BY <1>1 DEF Shaped
<1>3. CASE ~InInventory(s, i)
  <2>1. ~InInventory(u, i) BY <1>2, <1>3 DEF InInventory
  <2>2. t = u BY <2>1 DEF Updated
  <2>3. Offslot(s, i) BY <1>3, OffslotIs
  <2>4. u.nextItem >= s.nextItem BY <1>1 DEF Beside, Shaped
  <2>5. Grows(s, u) BY <1>1, <2>3, <2>4, GrowsOff
  <2> QED BY <2>2, <2>5 DEF u
<1>4. CASE InInventory(s, i)
  <2> DEFINE c == x.at.container
             k == x.at.slot
             d == Delta(u, c, "Update", k, i, changed)
  <2>1. c \in Containers /\ k \in 1..Capacity[c] /\ s.items[i].at = InSlot(c, k)
    BY <1>4, WhereItIs
  <2>2. InInventory(u, i) BY <1>2, <1>4 DEF InInventory
  <2>3. t = publish_delta(u, c, "Update", k, k, i, changed) BY <1>2, <2>2 DEF Updated
  <2> HIDE DEF t, c, k
  <2>4. /\ Shaped(t) /\ Beside(u, t) /\ t.items = u.items /\ t.slots = u.slots
        /\ t.revision = [u.revision EXCEPT ![c] = @ + 1]
        /\ t.log = [u.log EXCEPT ![c] = Logged(u.log[c], d)]
    BY <1>1, <2>1, <2>3, PublishIs
  <2>5. /\ d.revision = s.revision[c] + 1 /\ d.type = "Update" /\ d.slot = k /\ d.id = i
        /\ d.changed = changed /\ d.item.template = x.template /\ Bare(i, d.item) = Bare(i, x)
        /\ d.item.used \in Nat
    BY <1>1, <1>2 DEF Delta, Bare, IsItem
  <2> HIDE DEF d
  <2>6. s.slots[c][k] = i BY <2>1 DEF SlotsAgree
  <2>7. i # 0 /\ i \in Nat BY ItemStoreAssumption DEF Ids
  <2>8. ASSUME NEW b \in Containers, NEW n \in 1..Capacity[b], s.slots[b][n] # 0,
               ~(b = c /\ n = k)
        PROVE  s.slots[b][n] \in Ids /\ s.slots[b][n] # i
               /\ t.items[s.slots[b][n]] = s.items[s.slots[b][n]]
    <3>1. s.slots[b][n] \in Ids BY <2>8 DEF Shaped
    <3>2. s.slots[b][n] = i => InSlot(b, n) = InSlot(c, k) BY <2>1, <2>8 DEF SlotsAgree
    <3>3. s.slots[b][n] # i BY <2>8, <3>2, PlaceKinds
    <3> QED BY <1>2, <2>4, <3>1, <3>3
  <2>9. \A b \in Containers : b # c => Shown(t, b) = Shown(s, b)
    <3> TAKE b \in Containers
    <3> HAVE b # c
    <3>1. t.slots[b] = s.slots[b] BY <1>1, <2>4
    <3>2. \A n \in 1..Capacity[b] : s.slots[b][n] # 0 =>
            t.items[s.slots[b][n]] = s.items[s.slots[b][n]]
      BY <2>8
    <3> QED BY <3>1, <3>2, ShownSame
  <2>10. Shown(t, c) = [Shown(s, c) EXCEPT ![k] = Bare(i, x)]
    <3>1. \A n \in 1..Capacity[c] : t.slots[c][n] = s.slots[c][n] BY <1>1, <2>4
    <3>2. \A n \in 1..Capacity[c] : Shown(t, c)[n] = IF n = k THEN Bare(i, x) ELSE Shown(s, c)[n]
      BY <1>2, <2>1, <2>4, <2>6, <2>7, <2>8, <3>1 DEF Shown
    <3>3. /\ DOMAIN Shown(t, c) = 1..Capacity[c] /\ DOMAIN Shown(s, c) = 1..Capacity[c]
          /\ Shown(t, c) = [n \in 1..Capacity[c] |-> Shown(t, c)[n]]
          /\ Shown(s, c) = [n \in 1..Capacity[c] |-> Shown(s, c)[n]]
      BY DEF Shown
    <3> QED BY <2>1, <3>2, <3>3
  <2>11. Shown(s, c)[k] = Bare(i, s.items[i]) BY <2>1, <2>6, <2>7 DEF Shown
  <2>12. DOMAIN Shown(s, c) = 1..Capacity[c] BY DEF Shown
  <2>13. Lasts(s, t)
    BY <1>1, <1>2, <2>4 DEF Beside, Shaped, Lasts
  <2>14. ASSUME Proper(s, c, Shown(s, c))
         PROVE  Turns(Shown(s, c), d, Shown(t, c)) /\ Proper(t, c, Shown(t, c))
    <3>1. Turns(Shown(s, c), d, Shown(t, c))
      <4>1. Shown(s, c)[d.slot].id = d.id BY <2>5, <2>11 DEF Bare
      <4>2. (IF d.item.template \in Single THEN "state" ELSE "quantity") \in d.changed BY <2>5
      <4> QED BY <2>1, <2>5, <2>10, <2>12, <4>1, <4>2 DEF Turns
    <3>2. Proper(t, c, Shown(s, c)) BY <2>4, <2>13, <2>14, ProperLasts
    <3>3. Bare(i, s.items[i]).id = i /\ Bare(i, x).id = i /\ Nothing.id = 0 BY DEF Bare, Nothing
    <3>4. Genuine(s, c, Bare(i, s.items[i])) BY <2>1, <2>7, <2>11, <2>14, <3>3 DEF Proper
    <3>5. t.items[i] = x BY <1>2, <2>4
    <3>6. t.nextItem = s.nextItem BY <1>1, <2>4 DEF Beside
    <3>7. x.quantity \in Nat \ {0} /\ x.state \in States BY DEF IsItem
    <3>8. Genuine(t, c, Bare(i, x)) BY <3>4, <3>5, <3>6, <3>7 DEF Genuine, Bare
    <3>9. Bare(i, x) = Bare(Bare(i, x).id, Bare(i, x)) BY DEF Bare
    <3> DEFINE v == Shown(s, c)
               w == Shown(t, c)
    <3>10. /\ \A n \in 1..Capacity[c] : w[n] = IF n = k THEN Bare(i, x) ELSE v[n]
           /\ v[k].id = i /\ w[k].id = i
      BY <2>1, <2>10, <2>11, <2>12, <3>3
    <3>11. w = [n \in 1..Capacity[c] |-> w[n]] BY DEF Shown
    <3>12. Proper(t, c, v) BY <3>2
    <3> HIDE DEF v, w
    <3>13. \A n \in 1..Capacity[c] :
             w[n] = Nothing \/ (w[n] = Bare(w[n].id, w[n]) /\ Genuine(t, c, w[n]))
      BY <3>3, <3>8, <3>9, <3>10, <3>12 DEF Proper
    <3>14. \A m, n \in 1..Capacity[c] : w[m].id = w[n].id /\ w[m].id # 0 => m = n
      <4>1. \A n \in 1..Capacity[c] : w[n].id = v[n].id BY <3>10
      <4> QED BY <3>12, <4>1 DEF Proper
    <3>15. Proper(t, c, w) BY <3>11, <3>13, <3>14 DEF Proper
    <3> QED BY <3>1, <3>15 DEF w
  <2>15. Grows(s, t)
    BY <1>1, <2>1, <2>4, <2>5, <2>9, <2>13, <2>14, GrowsPublished
  <2> QED BY <2>15 DEF t, u
<1> QED BY <1>3, <1>4 DEF t, u

\* A view with one slot changed, to nothing or to an item shown nowhere else.
LEMMA ProperWith ==
  ASSUME NEW s, NEW c, NEW v, Proper(s, c, v), NEW k \in 1..Capacity[c], NEW e,
         \/ e = Nothing
         \/ /\ e = Bare(e.id, e) /\ Genuine(s, c, e)
            /\ \A n \in 1..Capacity[c] : n # k => v[n].id # e.id
  PROVE  Proper(s, c, [v EXCEPT ![k] = e])
<1> DEFINE w == [v EXCEPT ![k] = e]
<1>1. v = [n \in 1..Capacity[c] |-> v[n]] BY DEF Proper
<1>2. /\ w = [n \in 1..Capacity[c] |-> w[n]]
      /\ \A n \in 1..Capacity[c] : w[n] = IF n = k THEN e ELSE v[n]
  BY <1>1
<1> HIDE DEF w
<1>3. \A n \in 1..Capacity[c] :
        w[n] = Nothing \/ (w[n] = Bare(w[n].id, w[n]) /\ Genuine(s, c, w[n]))
  BY <1>2 DEF Proper
<1>4. Nothing.id = 0 BY DEF Nothing
<1>5. ASSUME NEW m \in 1..Capacity[c], NEW n \in 1..Capacity[c], w[m].id = w[n].id, w[m].id # 0
      PROVE m = n
  BY <1>2, <1>4, <1>5 DEF Proper
<1>6. Proper(s, c, w) BY <1>2, <1>3, <1>5 DEF Proper
<1> QED BY <1>6 DEF w

\* Slot k of container c now shows e, and change d says so.
LEMMA GrowsTurned ==
  ASSUME NEW s, NEW t, Shaped(s), Shaped(t), Lasts(s, t), NEW c \in Containers,
         NEW k \in 1..Capacity[c], NEW d, NEW e,
         d.revision = s.revision[c] + 1,
         t.revision = [s.revision EXCEPT ![c] = @ + 1],
         t.log = [s.log EXCEPT ![c] = Logged(s.log[c], d)],
         \A b \in Containers : \A n \in 1..Capacity[b] : ~(b = c /\ n = k) =>
           /\ t.slots[b][n] = s.slots[b][n]
           /\ s.slots[b][n] # 0 => t.items[s.slots[b][n]] = s.items[s.slots[b][n]],
         e = IF t.slots[c][k] = 0 THEN Nothing ELSE Bare(t.slots[c][k], t.items[t.slots[c][k]]),
         d.slot = k,
         Proper(s, c, Shown(s, c)) =>
           /\ Turns(Shown(s, c), d, [Shown(s, c) EXCEPT ![k] = e])
           /\ \/ e = Nothing
              \/ /\ Genuine(t, c, e)
                 /\ \A n \in 1..Capacity[c] : n # k => Shown(s, c)[n].id # e.id
  PROVE  Grows(s, t)
<1> DEFINE v == Shown(s, c)
           w == Shown(t, c)
<1>1. \A b \in Containers : b # c => Shown(t, b) = Shown(s, b)
  <2> SUFFICES ASSUME NEW b \in Containers, b # c PROVE Shown(t, b) = Shown(s, b)
    OBVIOUS
  <2>1. s.slots[b] \in [1..Capacity[b] -> Ids \cup {0}] /\ t.slots[b] \in [1..Capacity[b] -> Ids \cup {0}]
    BY DEF Shaped
  <2>4. \A n \in 1..Capacity[b] : t.slots[b][n] = s.slots[b][n] OBVIOUS
  <2>2. t.slots[b] = s.slots[b]
    <3>1. /\ s.slots[b] = [n \in 1..Capacity[b] |-> s.slots[b][n]]
          /\ t.slots[b] = [n \in 1..Capacity[b] |-> t.slots[b][n]]
      BY <2>1
    <3> QED BY <2>4, <3>1
  <2>3. \A n \in 1..Capacity[b] : s.slots[b][n] # 0 =>
          t.items[s.slots[b][n]] = s.items[s.slots[b][n]]
    OBVIOUS
  <2> QED BY <2>2, <2>3, ShownSame
<1>2. w = [v EXCEPT ![k] = e]
  <2>1. \A n \in 1..Capacity[c] : w[n] = IF n = k THEN e ELSE v[n] BY DEF Shown
  <2>2. /\ v = [n \in 1..Capacity[c] |-> v[n]] /\ w = [n \in 1..Capacity[c] |-> w[n]]
    BY DEF Shown
  <2> HIDE DEF v, w
  <2> QED BY <2>1, <2>2
<1>3. ASSUME Proper(s, c, v) PROVE Turns(v, d, w) /\ Proper(t, c, w)
  <2>1. Turns(v, d, w) BY <1>2, <1>3
  <2>2. Proper(t, c, v) BY <1>3, ProperLasts
  <2>3. \/ e = Nothing
        \/ /\ Genuine(t, c, e)
           /\ \A n \in 1..Capacity[c] : n # k => v[n].id # e.id
    BY <1>3
  <2>4. e = Nothing \/ e = Bare(e.id, e) BY DEF Bare
  <2> HIDE DEF v, w
  <2>5. Proper(t, c, w) BY <1>2, <2>2, <2>3, <2>4, ProperWith
  <2> QED BY <2>1, <2>5
<1>4. Proper(s, c, Shown(s, c)) => Turns(Shown(s, c), d, Shown(t, c)) /\ Proper(t, c, Shown(t, c))
  BY <1>3
<1> HIDE DEF v, w
<1> QED BY <1>1, <1>4, GrowsPublished

\* What a slot shows is what is in it.
LEMMA ShownIds ==
  ASSUME NEW s, Shaped(s), NEW c \in Containers, NEW k \in 1..Capacity[c]
  PROVE  /\ Shown(s, c)[k].id = s.slots[c][k]
         /\ s.slots[c][k] = 0 => Shown(s, c)[k] = Nothing
         /\ s.slots[c][k] # 0 => Shown(s, c)[k] = Bare(s.slots[c][k], s.items[s.slots[c][k]])
         /\ DOMAIN Shown(s, c) = 1..Capacity[c]
BY DEF Shown, Bare, Nothing

\* An item taken out of its slot; it is in no other.
LEMMA GrowsRemoved ==
  ASSUME NEW s, Shaped(s), SlotsAgree(s), NEW i \in Ids
  PROVE  LET t == remove_from_inventory(s, i)
         IN  Grows(s, t) /\ Offslot(t, i) /\ Shaped(t) /\ Beside(s, t) /\ t.items = s.items
<1> DEFINE t == remove_from_inventory(s, i)
           c == s.items[i].at.container
           k == s.items[i].at.slot
           e == 0
           v == [s EXCEPT !.slots[c][k] = e]
<1>1. CASE ~InInventory(s, i)
  <2>1. t = s BY <1>1 DEF remove_from_inventory
  <2>2. Grows(s, s) /\ Beside(s, s) BY GrowsSelf DEF Beside
  <2>3. Offslot(s, i) BY <1>1, OffslotIs
  <2> HIDE DEF t
  <2> QED BY <2>1, <2>2, <2>3 DEF t
<1>2. CASE InInventory(s, i)
  <2>1. c \in Containers /\ k \in 1..Capacity[c] /\ s.items[i].at = InSlot(c, k)
    BY <1>2, WhereItIs
  <2>2. t = publish_delta(v, c, "Remove", k, k, i, {}) BY <1>2 DEF remove_from_inventory
  <2> HIDE DEF t, c, k
  <2>3. e \in Ids \cup {0} /\ e = 0 OBVIOUS
  <2> HIDE DEF e
  <2>4. /\ Shaped(v) /\ Beside(s, v) /\ v.items = s.items /\ v.revision = s.revision
        /\ \A b \in Containers : \A n \in 1..Capacity[b] :
             v.slots[b][n] = IF b = c /\ n = k THEN e ELSE s.slots[b][n]
    BY <2>1, <2>3, SlotShaped
  <2>5. v.log = s.log BY LogStays
  <2> HIDE DEF v
  <2> DEFINE d == Delta(v, c, "Remove", k, i, {})
  <2>6. /\ Shaped(t) /\ Beside(v, t) /\ t.items = v.items /\ t.slots = v.slots
        /\ t.revision = [v.revision EXCEPT ![c] = @ + 1]
        /\ t.log = [v.log EXCEPT ![c] = Logged(v.log[c], d)]
    BY <2>1, <2>2, <2>4, PublishIs
  <2>7. /\ d.revision = s.revision[c] + 1 /\ d.type = "Remove" /\ d.slot = k /\ d.id = i
        /\ d.item.used \in Nat
    BY <2>4 DEF Delta, Shaped, IsItem
  <2> HIDE DEF d
  <2>8. s.slots[c][k] = i /\ i # 0 BY <2>1, ItemStoreAssumption DEF SlotsAgree, Ids
  <2>9. \A b \in Containers : \A n \in 1..Capacity[b] :
          t.slots[b][n] = IF b = c /\ n = k THEN 0 ELSE s.slots[b][n]
    BY <2>3, <2>4, <2>6
  <2>10. Lasts(s, t)
    BY <2>4, <2>6 DEF Beside, Shaped, Lasts
  <2>11. /\ t.revision = [s.revision EXCEPT ![c] = @ + 1]
         /\ t.log = [s.log EXCEPT ![c] = Logged(s.log[c], d)]
         /\ t.items = s.items
    BY <2>4, <2>5, <2>6
  <2>12. Turns(Shown(s, c), d, [Shown(s, c) EXCEPT ![k] = Nothing])
    BY <2>1, <2>7, <2>8, ShownIds DEF Turns
  <2>13. Grows(s, t)
    <3> DEFINE f == Nothing
    <3>1. f = IF t.slots[c][k] = 0 THEN Nothing ELSE Bare(t.slots[c][k], t.items[t.slots[c][k]])
      BY <2>1, <2>9
    <3>2. Turns(Shown(s, c), d, [Shown(s, c) EXCEPT ![k] = f]) /\ f = Nothing BY <2>12
    <3>3. \A b \in Containers : \A n \in 1..Capacity[b] : ~(b = c /\ n = k) =>
            /\ t.slots[b][n] = s.slots[b][n]
            /\ s.slots[b][n] # 0 => t.items[s.slots[b][n]] = s.items[s.slots[b][n]]
      BY <2>9, <2>11
    <3>4. Proper(s, c, Shown(s, c)) =>
           /\ Turns(Shown(s, c), d, [Shown(s, c) EXCEPT ![k] = f])
           /\ \/ f = Nothing
              \/ /\ Genuine(t, c, f)
                 /\ \A n \in 1..Capacity[c] : n # k => Shown(s, c)[n].id # f.id
      BY <3>2
    <3> HIDE DEF f
    <3>5. Shaped(s) /\ Shaped(t) /\ Lasts(s, t) /\ c \in Containers /\ k \in 1..Capacity[c]
      BY <2>1, <2>6, <2>10
    <3>6. /\ d.revision = s.revision[c] + 1 /\ d.slot = k
          /\ t.revision = [s.revision EXCEPT ![c] = @ + 1]
          /\ t.log = [s.log EXCEPT ![c] = Logged(s.log[c], d)]
      BY <2>7, <2>11
    <3> QED BY <3>1, <3>3, <3>4, <3>5, <3>6, GrowsTurned
  <2>14. Offslot(t, i)
    BY <2>1, <2>8, <2>9, PlaceKinds DEF Offslot, SlotsAgree
  <2>15. Beside(s, t) BY <2>4, <2>6 DEF Beside
  <2> QED BY <2>6, <2>11, <2>13, <2>14, <2>15 DEF t
<1> QED BY <1>1, <1>2

\* An item that is in no slot put into an empty one of its own container.
LEMMA GrowsPut ==
  ASSUME NEW s, Shaped(s), NEW i \in Ids, Offslot(s, i), i < s.nextItem,
         NEW c \in Containers, NEW k \in 1..Capacity[c], s.slots[c][k] = 0,
         s.items[i].template \in Templates, Home(i, s.items[i].template) = c,
         s.items[i].quantity # 0,
         s.items[i].template \in Single => s.items[i].quantity = 1
  PROVE  Grows(s, Put(s, i, c, k))
<1> DEFINE x == [s.items[i] EXCEPT !.at = InSlot(c, k)]
           u == [s EXCEPT !.items[i] = x]
           v == [u EXCEPT !.slots[c][k] = i]
           t == Put(s, i, c, k)
<1>1. IsItem(s.items[i]) BY DEF Shaped
<1>2. IsPlace(InSlot(c, k)) BY DEF IsPlace
<1>3. IsItem(x) /\ x.template = s.items[i].template /\ x.state = s.items[i].state
      /\ x.quantity = s.items[i].quantity
  <2>1. x = Moved(s.items[i], InSlot(c, k)) BY <1>1, <1>2, MovedIs
  <2> HIDE DEF x
  <2> QED BY <1>1, <1>2, <2>1, MovedIs
<1>4. t = publish_delta(v, c, "Add", k, k, i, {}) BY DEF Put
<1> HIDE DEF x, t
<1>5. /\ Shaped(u) /\ Beside(s, u) /\ u.items = [s.items EXCEPT ![i] = x]
      /\ u.slots = s.slots /\ u.revision = s.revision /\ u.log = s.log
  BY <1>3, ItemShaped, LogStays
<1> HIDE DEF u
<1>6. /\ Shaped(v) /\ Beside(u, v) /\ v.items = u.items /\ v.revision = u.revision
      /\ \A b \in Containers : \A n \in 1..Capacity[b] :
           v.slots[b][n] = IF b = c /\ n = k THEN i ELSE u.slots[b][n]
  BY <1>5, SlotShaped
<1>7. v.log = s.log BY <1>5, LogStays
<1> HIDE DEF v
<1> DEFINE d == Delta(v, c, "Add", k, i, {})
<1>8. /\ Shaped(t) /\ Beside(v, t) /\ t.items = v.items /\ t.slots = v.slots
      /\ t.revision = [v.revision EXCEPT ![c] = @ + 1]
      /\ t.log = [v.log EXCEPT ![c] = Logged(v.log[c], d)]
  BY <1>4, <1>6, PublishIs
<1>9. v.items[i] = x /\ \A j \in Ids : j # i => v.items[j] = s.items[j] BY <1>5, <1>6 DEF Shaped
<1>10. /\ d.revision = s.revision[c] + 1 /\ d.type = "Add" /\ d.slot = k /\ d.id = i
       /\ Bare(i, d.item) = Bare(i, x) /\ d.item.used \in Nat
  BY <1>3, <1>5, <1>6, <1>9 DEF Delta, Bare, IsItem
<1> HIDE DEF d
<1>11. i # 0 BY ItemStoreAssumption DEF Ids
<1>12. /\ t.revision = [s.revision EXCEPT ![c] = @ + 1]
       /\ t.log = [s.log EXCEPT ![c] = Logged(s.log[c], d)]
  BY <1>5, <1>6, <1>7, <1>8
<1>13. Lasts(s, t)
  <2>1. t.nextItem = s.nextItem /\ s.nextItem \in Nat BY <1>5, <1>6, <1>8 DEF Beside, Shaped
  <2> QED BY <1>3, <1>8, <1>9, <2>1 DEF Lasts
<1>14. \A b \in Containers : \A n \in 1..Capacity[b] : ~(b = c /\ n = k) =>
         /\ t.slots[b][n] = s.slots[b][n]
         /\ s.slots[b][n] # 0 => t.items[s.slots[b][n]] = s.items[s.slots[b][n]]
  <2> SUFFICES ASSUME NEW b \in Containers, NEW n \in 1..Capacity[b], ~(b = c /\ n = k)
               PROVE  /\ t.slots[b][n] = s.slots[b][n]
                      /\ s.slots[b][n] # 0 => t.items[s.slots[b][n]] = s.items[s.slots[b][n]]
    OBVIOUS
  <2>1. s.slots[b] \in [1..Capacity[b] -> Ids \cup {0}] BY DEF Shaped
  <2>2. s.slots[b][n] # i BY DEF Offslot
  <2>3. s.slots[b][n] # 0 => s.slots[b][n] \in Ids BY <2>1
  <2> QED BY <1>5, <1>6, <1>8, <1>9, <2>2, <2>3
<1>15. t.slots[c][k] = i BY <1>6, <1>8
<1> DEFINE e == Bare(i, x)
<1>16. e = IF t.slots[c][k] = 0 THEN Nothing ELSE Bare(t.slots[c][k], t.items[t.slots[c][k]])
  BY <1>8, <1>9, <1>11, <1>15
<1>17. Turns(Shown(s, c), d, [Shown(s, c) EXCEPT ![k] = e])
  <2>1. Shown(s, c)[k].id = 0 /\ DOMAIN Shown(s, c) = 1..Capacity[c] BY ShownIds
  <2>2. Bare(d.id, d.item) = e BY <1>10
  <2> HIDE DEF e
  <2> QED BY <1>10, <2>1, <2>2 DEF Turns
<1>18. Genuine(t, c, e)
  BY <1>1, <1>3, <1>5, <1>6, <1>8, <1>9 DEF Beside, IsItem, Genuine, Bare
<1>19. \A n \in 1..Capacity[c] : Shown(s, c)[n].id # e.id
  <2>1. e.id = i BY DEF Bare
  <2>2. \A n \in 1..Capacity[c] : Shown(s, c)[n].id = s.slots[c][n] BY ShownIds
  <2> QED BY <2>1, <2>2 DEF Offslot
<1> HIDE DEF e
<1>20. Proper(s, c, Shown(s, c)) =>
         /\ Turns(Shown(s, c), d, [Shown(s, c) EXCEPT ![k] = e])
         /\ \/ e = Nothing
            \/ /\ Genuine(t, c, e)
               /\ \A n \in 1..Capacity[c] : n # k => Shown(s, c)[n].id # e.id
  BY <1>17, <1>18, <1>19
<1>21. Shaped(t) /\ d.revision = s.revision[c] + 1 /\ d.slot = k BY <1>8, <1>10
<1>22. Grows(s, t) BY <1>12, <1>13, <1>14, <1>16, <1>20, <1>21, GrowsTurned
<1> QED BY <1>22 DEF t

-----------------------------------------------------------------------------
(* What the operations of the store keep of it.                            *)

\* Nothing comes into the stock.
Ebbs(s, t) ==
  \A k \in 1..Capacity["stock"] : t.slots["stock"][k] \in {0, s.slots["stock"][k]}

\* Nor does what was in it at first come to lie in the world.
Stays(s, t) ==
  /\ Ebbs(s, t)
  /\ \A i \in Ids : i <= Len(StockContents) /\ InWorld(t, i) => InWorld(s, i)
Onward(s, t) == Grows(s, t) /\ Stays(s, t)

\* Over two steps,
LEMMA OnwardTrans ==
  ASSUME NEW s, NEW t, NEW u, Shaped(s), Shaped(t), Shaped(u), Onward(s, t), Onward(t, u)
  PROVE  Onward(s, u)
BY GrowsTrans DEF Onward, Stays, Ebbs

\* over none,
LEMMA OnwardSelf ==
  ASSUME NEW s, Shaped(s)
  PROVE  Onward(s, s)
BY GrowsSelf DEF Onward, Stays, Ebbs

\* what stays while one item moves that is not in a slot of the stock,
LEMMA StaysBut ==
  ASSUME NEW s, Shaped(s), NEW t, NEW i \in Ids, NEW x, t.items = [s.items EXCEPT ![i] = x],
         Ebbs(s, t), x.at.kind = "world" => i > Len(StockContents) \/ InWorld(s, i)
  PROVE  Stays(s, t)
<1>1. Len(StockContents) \in Nat BY GameplayRequestsAssumption, LenProperties
<1>2. i \in Nat BY ItemStoreAssumption DEF Ids
<1>3. \A j \in Ids : t.items[j] = IF j = i THEN x ELSE s.items[j] BY DEF Shaped
<1> QED BY <1>1, <1>2, <1>3 DEF Stays, InWorld

\* and what stays while nothing does.
LEMMA StaysSame ==
  ASSUME NEW s, NEW t, t.items = s.items, Ebbs(s, t)
  PROVE  Stays(s, t)
BY DEF Stays, InWorld

\* An item in no slot changes, or is made.
LEMMA OnwardOff ==
  ASSUME NEW s, NEW t, Shaped(s), Shaped(t), NEW i \in Ids, Offslot(s, i), NEW x,
         t.items = [s.items EXCEPT ![i] = x], t.slots = s.slots, t.revision = s.revision,
         t.log = s.log, t.nextItem >= s.nextItem,
         i < s.nextItem => /\ x.template = s.items[i].template
                           /\ x.template \notin Single => x.state = s.items[i].state,
         x.at.kind = "world" => i > Len(StockContents) \/ InWorld(s, i)
  PROVE  Onward(s, t)
BY GrowsOff, StaysBut DEF Ebbs, Onward

\* A stack becomes another size.
LEMMA OnwardQuantity ==
  ASSUME NEW s, Shaped(s), SlotsAgree(s), NEW i \in Ids, NEW q \in Nat \ {0},
         s.items[i].template \notin Single
  PROVE  Onward(s, SetQuantity(s, i, q))
<1> DEFINE x == [s.items[i] EXCEPT !.quantity = q]
           changed == {"quantity"}
           t == SetQuantity(s, i, q)
<1>1. IsItem(s.items[i]) BY DEF Shaped
<1>2. /\ IsItem(x) /\ x.at = s.items[i].at /\ x.template = s.items[i].template
      /\ x.state = s.items[i].state /\ x.quantity = q
  <2>1. IsItem(x) /\ x = [template |-> s.items[i].template, quantity |-> q,
             used |-> s.items[i].used, state |-> s.items[i].state, at |-> s.items[i].at]
    BY <1>1, ItemWith
  <2> HIDE DEF x
  <2> QED BY <2>1
<1>3. t = Updated([s EXCEPT !.items[i] = x], i, changed) BY DEF SetQuantity
<1>4. "quantity" \in changed OBVIOUS
<1>5. t.items = [s.items EXCEPT ![i] = x] /\ Ebbs(s, t) BY SetQuantityIs DEF Ebbs
<1> HIDE DEF x, changed, t
<1>6. Grows(s, t) BY <1>2, <1>3, <1>4, GrowsUpdated
<1>7. x.at.kind = "world" => InWorld(s, i) BY <1>2 DEF InWorld
<1>8. Stays(s, t) BY <1>5, <1>7, StaysBut
<1> QED BY <1>6, <1>8 DEF Onward, t

\* The state of a weapon changes.
LEMMA OnwardPortable ==
  ASSUME NEW s, Shaped(s), SlotsAgree(s), NEW i \in Ids, Live(s, i), s.items[i].quantity # 0,
         s.items[i].template \in Single, NEW field \in {"count", "reserve"}, NEW v \in Nat
  PROVE  Onward(s, set_portable_uint32(s, i, field, v))
<1> DEFINE state == With(s.items[i].state, field, v)
           x == [s.items[i] EXCEPT !.state = state]
           u == [s EXCEPT !.items[i] = x]
           t == set_portable_uint32(s, i, field, v)
           changed == {"state"}
<1>1. IsItem(s.items[i]) BY DEF Shaped
<1>2. s.items[i].state \in States /\ state \in States BY <1>1 DEF IsItem, States, With
<1>3. IsItem(x) /\ x = [template |-> s.items[i].template, quantity |-> s.items[i].quantity,
                       used |-> s.items[i].used, state |-> state, at |-> s.items[i].at]
  <2> HIDE DEF state
  <2> QED BY <1>1, <1>2, ItemWith
<1>4. CASE s.items[i].state[field] = v
  BY <1>4, OnwardSelf DEF set_portable_uint32
<1>5. CASE s.items[i].state[field] # v
  <2>1. t = Updated(u, i, changed) BY <1>5 DEF set_portable_uint32, With
  <2>2. "state" \in changed OBVIOUS
  <2>3. t.items = [s.items EXCEPT ![i] = x] /\ Ebbs(s, t) BY SetPortableIs DEF Ebbs
  <2> HIDE DEF state, x, t, changed
  <2>4. /\ x.at = s.items[i].at /\ x.template = s.items[i].template
        /\ x.quantity = s.items[i].quantity
    BY <1>3
  <2>5. t = Updated([s EXCEPT !.items[i] = x], i, changed) BY <2>1
  <2>6. Grows(s, t) BY <1>3, <2>2, <2>4, <2>5, GrowsUpdated
  <2>7. x.at.kind = "world" => InWorld(s, i) BY <2>4 DEF InWorld
  <2>8. Stays(s, t) BY <2>3, <2>7, StaysBut
  <2> QED BY <2>6, <2>8 DEF Onward, t
<1> QED BY <1>4, <1>5

\* An item out of its slot.
LEMMA OnwardRemoved ==
  ASSUME NEW s, Shaped(s), SlotsAgree(s), NEW i \in Ids
  PROVE  LET t == remove_from_inventory(s, i)
         IN  Onward(s, t) /\ Offslot(t, i) /\ Shaped(t) /\ Beside(s, t) /\ t.items = s.items
<1> DEFINE t == remove_from_inventory(s, i)
<1>1. Grows(s, t) /\ Offslot(t, i) /\ Shaped(t) /\ Beside(s, t) /\ t.items = s.items
  BY GrowsRemoved
<1>2. Ebbs(s, t)
  BY ItemStoreAssumption, RemoveIs DEF Ebbs
<1> HIDE DEF t
<1>3. Stays(s, t) BY <1>1, <1>2, StaysSame
<1> QED BY <1>1, <1>3 DEF Onward, t

\* An item ends.
LEMMA OnwardTerminated ==
  ASSUME NEW s, Shaped(s), SlotsAgree(s), NEW i
  PROVE  Onward(s, terminate(s, i))
<1> DEFINE t == terminate(s, i)
           r == remove_from_inventory(s, i)
<1>1. CASE ~Live(s, i)
  BY <1>1, OnwardSelf DEF terminate
<1>2. CASE Live(s, i)
  <2>1. i \in Ids BY <1>2 DEF Live
  <2>2. Onward(s, r) /\ Offslot(r, i) /\ Shaped(r) /\ Beside(s, r) /\ r.items = s.items
    BY <2>1, OnwardRemoved
  <2>3. Shaped(t) /\ Beside(s, t) /\ t.items = [s.items EXCEPT ![i] = Ended(s.items[i])]
    BY <1>2, <2>1, TerminateIs
  <2>4. t = [[r EXCEPT !.items[i].quantity = 0] EXCEPT !.items[i].at = Terminal]
    BY <1>2 DEF terminate
  <2> HIDE DEF t, r
  <2>5. r = [items |-> r.items, slots |-> r.slots, open |-> r.open,
             revision |-> r.revision, log |-> r.log,
             nextItem |-> r.nextItem, nextProp |-> r.nextProp, props |-> r.props]
    BY <2>2 DEF Shaped
  <2>6. t.slots = r.slots /\ t.revision = r.revision /\ t.log = r.log /\ t.nextItem = r.nextItem
    BY <2>4, <2>5
  <2> DEFINE x == Ended(s.items[i])
  <2>7. x.template = s.items[i].template /\ x.state = s.items[i].state /\ x.at.kind # "world"
    BY PlaceKinds DEF Ended
  <2> HIDE DEF x
  <2>8. t.items = [r.items EXCEPT ![i] = x] BY <2>2, <2>3 DEF x
  <2>9. t.nextItem >= r.nextItem BY <2>2, <2>6 DEF Shaped
  <2>10. Onward(r, t) BY <2>1, <2>2, <2>3, <2>6, <2>7, <2>8, <2>9, OnwardOff
  <2>11. Onward(s, t) BY <2>2, <2>3, <2>10, OnwardTrans
  <2> QED BY <2>11 DEF t
<1> QED BY <1>1, <1>2

\* Counters and props.
LEMMA OnwardCounters ==
  ASSUME NEW s, NEW t, Shaped(s), Shaped(t), t.items = s.items, t.slots = s.slots,
         t.revision = s.revision, t.log = s.log, t.nextItem >= s.nextItem
  PROVE  Onward(s, t)
BY GrowsIdle, StaysSame DEF Onward, Ebbs

\* A prop made.
LEMMA OnwardSpawned ==
  ASSUME NEW s, Shaped(s)
  PROVE  Onward(s, spawn_prop(s))
<1> DEFINE t == spawn_prop(s)
<1>1. /\ Shaped(t) /\ t.items = s.items /\ t.slots = s.slots
      /\ t.revision = s.revision /\ t.nextItem = s.nextItem
  BY SpawnIs
<1>2. t.log = s.log
  BY DEF Shaped, spawn_prop
<1> HIDE DEF t
<1>3. t.nextItem >= s.nextItem BY <1>1 DEF Shaped
<1> QED BY <1>1, <1>2, <1>3, OnwardCounters DEF t

\* An item put on a prop, out of its slot.
LEMMA OnwardToWorld ==
  ASSUME NEW s, Shaped(s), SlotsAgree(s), NEW i \in Ids, NEW p \in Nat, NEW mode \in Modes,
         i > Len(StockContents)
  PROVE  Onward(s, move_to_world(s, i, p, mode))
<1> DEFINE t == move_to_world(s, i, p, mode)
           r == remove_from_inventory(s, i)
           at == OnProp(p, mode)
           x == Moved(s.items[i], at)
<1>1. Onward(s, r) /\ Offslot(r, i) /\ Shaped(r) /\ Beside(s, r) /\ r.items = s.items
  BY OnwardRemoved
<1>2. Shaped(t) /\ Beside(s, t) /\ t.items = [s.items EXCEPT ![i] = x] BY ToWorldIs
<1>3. t = [r EXCEPT !.items[i].at = at] BY DEF move_to_world
<1>4. x.template = s.items[i].template /\ x.state = s.items[i].state BY DEF Moved
<1> HIDE DEF t, r, at, x
<1>5. r = [items |-> r.items, slots |-> r.slots, open |-> r.open,
           revision |-> r.revision, log |-> r.log,
           nextItem |-> r.nextItem, nextProp |-> r.nextProp, props |-> r.props]
  BY <1>1 DEF Shaped
<1>6. t.slots = r.slots /\ t.revision = r.revision /\ t.log = r.log /\ t.nextItem = r.nextItem
  BY <1>3, <1>5
<1>7. t.items = [r.items EXCEPT ![i] = x] BY <1>1, <1>2
<1>8. t.nextItem >= r.nextItem BY <1>1, <1>6 DEF Shaped
<1>9. Onward(r, t) BY <1>1, <1>2, <1>4, <1>6, <1>7, <1>8, OnwardOff
<1>10. Onward(s, t) BY <1>1, <1>2, <1>9, OnwardTrans
<1> QED BY <1>10 DEF t

\* An item on a prop is there in another way.
LEMMA OnwardMode ==
  ASSUME NEW s, Shaped(s), SlotsAgree(s), NEW i \in Ids, InWorld(s, i), NEW mode \in Modes
  PROVE  Onward(s, set_world_mode(s, i, mode))
<1> DEFINE t == set_world_mode(s, i, mode)
           x == [s.items[i] EXCEPT !.at = OnProp(s.items[i].at.prop, mode)]
<1>1. /\ Shaped(t) /\ Beside(s, t) /\ t.items = [s.items EXCEPT ![i] = x]
      /\ IsItem(x) /\ t.slots = s.slots /\ t.revision = s.revision
  BY SetModeIs
<1>2. t.log = s.log
  BY DEF Shaped, set_world_mode
<1>3. IsItem(s.items[i]) /\ s.items[i].at.prop \in Nat BY WhereItIs DEF Shaped
<1>4. IsPlace(OnProp(s.items[i].at.prop, mode)) BY <1>3 DEF IsPlace
<1>5. x.template = s.items[i].template /\ x.state = s.items[i].state
  BY <1>3, <1>4, MovedIs
<1> HIDE DEF t, x
<1>6. Offslot(s, i)
  BY OffslotIs DEF InWorld, InInventory
<1>7. t.nextItem >= s.nextItem BY <1>1 DEF Beside, Shaped
<1>8. Onward(s, t) BY <1>1, <1>2, <1>5, <1>6, <1>7, OnwardOff
<1> QED BY <1>8 DEF t

\* A new item, nowhere yet.
LEMMA OnwardMade ==
  ASSUME NEW s, Shaped(s), SlotsAgree(s), s.nextItem \in Ids,
         s.items[s.nextItem].at.kind = "none", NEW tm \in Templates, NEW q \in Nat,
         NEW used \in Nat, NEW state \in States
  PROVE  LET t == Made(s, tm, q, used, state)
         IN  /\ Onward(s, t) /\ Shaped(t) /\ Offslot(t, s.nextItem)
             /\ t.log = s.log /\ t.slots = s.slots /\ t.nextItem = s.nextItem + 1
<1> DEFINE t == Made(s, tm, q, used, state)
           n == s.nextItem
           x == [template |-> tm, quantity |-> q, used |-> used, state |-> state,
                 at |-> Nowhere]
<1>1. /\ Shaped(t) /\ IsItem(x) /\ t.items = [s.items EXCEPT ![n] = x]
      /\ t.slots = s.slots /\ t.revision = s.revision /\ t.nextItem = n + 1
  BY MadeIs
<1>2. t.log = s.log
  BY DEF Shaped, Made
<1>3. x.at.kind # "world" BY PlaceKinds
<1>4. n \in Ids /\ n \in Nat /\ ~(n < s.nextItem) BY DEF Shaped
<1>5. ~InInventory(s, n) BY DEF InInventory
<1> HIDE DEF t, n, x
<1>6. Offslot(s, n) BY <1>4, <1>5, OffslotIs
<1>7. t.nextItem >= s.nextItem BY <1>1, <1>4 DEF n
<1>8. Onward(s, t) BY <1>1, <1>2, <1>3, <1>4, <1>6, <1>7, OnwardOff
<1>9. Offslot(t, n) BY <1>1, <1>6 DEF Offslot
<1> QED BY <1>1, <1>2, <1>8, <1>9 DEF t, n

\* An item put in an empty slot of a container that is not the stock.
LEMMA OnwardPut ==
  ASSUME NEW s, Shaped(s), NEW i \in Ids, Offslot(s, i), i < s.nextItem,
         NEW c \in Containers, c # "stock", NEW k \in 1..Capacity[c], s.slots[c][k] = 0,
         s.items[i].template \in Templates, Home(i, s.items[i].template) = c,
         s.items[i].quantity # 0,
         s.items[i].template \in Single => s.items[i].quantity = 1
  PROVE  Onward(s, Put(s, i, c, k))
<1> DEFINE t == Put(s, i, c, k)
           x == Moved(s.items[i], InSlot(c, k))
<1>1. Grows(s, t) BY GrowsPut
<1>2. /\ t.items = [s.items EXCEPT ![i] = x]
      /\ \A d \in Containers : \A n \in 1..Capacity[d] :
           t.slots[d][n] = IF d = c /\ n = k THEN i ELSE s.slots[d][n]
  BY PutMoves
<1>3. x.at.kind # "world" BY PlaceKinds DEF Moved
<1>4. "stock" \in Containers BY ItemStoreAssumption
<1> HIDE DEF t, x
<1>5. Ebbs(s, t) BY <1>2, <1>4 DEF Ebbs
<1>6. Stays(s, t) BY <1>2, <1>3, <1>5, StaysBut
<1> QED BY <1>1, <1>6 DEF Onward, t

\* Where what did not come from the stock belongs.
LEMMA HomeIs ==
  ASSUME NEW i \in Ids, i > Len(StockContents), NEW t
  PROVE  Home(i, t) = Own(t) /\ Own(t) \in Containers /\ Own(t) # "stock"
BY GameplayRequestsAssumption, LenProperties, ItemStoreAssumption DEF Ids, Home, Own

\* What a use or a shot changes is never of a stack.
LEMMA SingleIs ==
  ASSUME NEW t \in Templates
  PROVE  /\ t \in Single => MaxStack[t] = 1
         /\ t \in Weapons => t \in Single
BY ItemStoreAssumption DEF Single

\* One stack more poured over.
LEMMA OnwardPouredInto ==
  ASSUME NEW s, Sound(s), NEW i, Live(s, i), NEW q \in Nat, NEW c \in Containers,
         NEW k \in 1..Capacity[c], NEW acc, PourInv(s, i, q, acc)
  PROVE  Onward(acc.store, PouredInto(acc, i, c, k).store)
<1> DEFINE u == acc.store
           j == u.slots[c][k]
           held == u.items[j].quantity
           max == MaxStack[u.items[i].template]
           moved == Lesser(acc.left, max - held)
           v == SetQuantity(u, j, held + moved)
<1>1. Sound(u) /\ Shaped(u) /\ i \in Ids /\ u.items[i] = s.items[i]
  BY DEF PourInv, Sound, Live
<1>2. CASE acc.left = 0 \/ ~Stacks(u, i, c, k)
  BY <1>1, <1>2, OnwardSelf DEF PouredInto
<1>3. CASE ~(acc.left = 0 \/ ~Stacks(u, i, c, k))
  <2>1. PouredInto(acc, i, c, k).store = v BY <1>3 DEF PouredInto
  <2>2. /\ Fungible(u.items[i].template) /\ j # 0 /\ j # i
        /\ u.items[i].template = u.items[j].template /\ held < max
    BY <1>3 DEF Stacks, Compatible
  <2>3. j \in Ids /\ u.items[j].at = InSlot(c, k)
    <3>1. u.slots[c] \in [1..Capacity[c] -> Ids \cup {0}] BY <1>1 DEF Shaped
    <3>2. u.slots[c][k] # 0 => u.items[u.slots[c][k]].at = InSlot(c, k)
      BY <1>1 DEF Sound, SlotsAgree
    <3> HIDE DEF u
    <3> QED BY <2>2, <3>1, <3>2
  <2>4. Live(u, j) BY <2>3, PlaceKinds DEF Live
  <2>5. u.items[j].template \in Templates /\ 1 <= held /\ held \in Nat /\ max \in Nat
    BY <1>1, <2>2, <2>4, LiveMade
  <2>6. max > 1 /\ u.items[j].template \notin Single
    <3>1. max > 1 BY <2>2 DEF Fungible
    <3>2. max = MaxStack[u.items[j].template] BY <2>2
    <3> HIDE DEF max, u, j
    <3> QED BY <2>5, <3>1, <3>2, SingleIs
  <2>7. acc.left \in Nat BY DEF PourInv
  <2>8. held + moved \in Nat \ {0}
    <3> HIDE DEF max, held
    <3> QED BY <2>2, <2>5, <2>7 DEF Lesser
  <2> HIDE DEF max, moved, held, u, j
  <2>9. SlotsAgree(u) BY <1>1 DEF Sound
  <2>10. Onward(u, v) BY <1>1, <2>3, <2>6, <2>8, <2>9, OnwardQuantity
  <2> QED BY <2>1, <2>10 DEF u
<1> QED BY <1>2, <1>3

\* All of them.
LEMMA OnwardPoured ==
  ASSUME NEW s, Sound(s), NEW i, Live(s, i), NEW q \in Nat, NEW c \in Containers
  PROVE  Onward(s, Poured(s, i, c, q).store)
<1> DEFINE N == Capacity[c]
           g == CHOOSE g : Pours(g, s, i, c, q, N)
           Good(acc) == PourInv(s, i, q, acc) /\ Onward(s, acc.store)
<1>1. N \in Nat BY ItemStoreAssumption
<1>2. Pours(g, s, i, c, q, N)
  BY <1>1, PoursExists
<1>3. Poured(s, i, c, q) = g[N] BY DEF Poured, Pours
<1> HIDE DEF g
<1> DEFINE T == {k \in 0..N : ~Good(g[k])}
<1>4. ASSUME T # {} PROVE FALSE
  <2>1. T \in SUBSET Nat OBVIOUS
  <2>2. PICK k \in T : \A j \in T : k <= j BY <1>4, <2>1, LeastNat
  <2>3. k \in 0..N /\ ~Good(g[k]) BY <2>2
  <2>4. \A j \in 0..N : j < k => Good(g[j]) BY <2>2
  <2> HIDE DEF T, N
  <2>5. \A j \in 0..N : g[j] = IF j = 0 THEN [store |-> s, left |-> q]
                               ELSE PouredInto(g[j - 1], i, c, j)
    BY <1>2 DEF Pours
  <2>6. CASE k = 0
    <3> DEFINE e == [store |-> s, left |-> q]
    <3>1. g[k] = e BY <2>3, <2>5, <2>6
    <3>2. e.store = s /\ e.left = q OBVIOUS
    <3> HIDE DEF e
    <3>3. Shaped(s) /\ i \in Ids BY DEF Sound, Live
    <3>4. Ahead(s, s) /\ Holds(s, s) /\ Beside(s, s)
      BY <3>3, AheadSame DEF Holds, Beside
    <3>5. PourInv(s, i, q, e) BY <3>2, <3>3, <3>4 DEF PourInv
    <3>6. Onward(s, e.store) BY <3>2, <3>3, OnwardSelf
    <3> QED BY <2>3, <3>1, <3>5, <3>6
  <2>7. CASE k # 0
    <3>1. k - 1 \in 0..N /\ k - 1 < k /\ k \in 1..N BY <1>1, <2>3, <2>7
    <3>2. Good(g[k - 1]) BY <2>4, <3>1
    <3>3. g[k] = PouredInto(g[k - 1], i, c, k) BY <2>3, <2>5, <2>7
    <3>4. k \in 1..Capacity[c] BY <3>1 DEF N
    <3> DEFINE a == g[k - 1]
               b == PouredInto(a, i, c, k)
    <3>5. PourInv(s, i, q, a) /\ Onward(s, a.store) BY <3>2
    <3> HIDE DEF a
    <3>6. PourInv(s, i, q, b) /\ Onward(a.store, b.store)
      BY <3>4, <3>5, PourStep, OnwardPouredInto
    <3> HIDE DEF b
    <3>7. Shaped(s) /\ Shaped(a.store) /\ Shaped(b.store) BY <3>5, <3>6 DEF PourInv, Sound
    <3>8. Onward(s, b.store) BY <3>5, <3>6, <3>7, OnwardTrans
    <3>9. g[k] = b BY <3>3 DEF a, b
    <3> QED BY <2>3, <3>6, <3>8, <3>9
  <2> QED BY <2>6, <2>7
<1>5. N \in 0..N BY <1>1
<1>6. Good(g[N]) BY <1>4, <1>5
<1> QED BY <1>3, <1>6

\* A world item put away.
LEMMA OnwardTaken ==
  ASSUME NEW s, Sound(s), NEW i, InWorld(s, i), i > Len(StockContents),
         Own(s.items[i].template) \in s.open,
         NEW t \in transfer_world_to_inventory(s, i, Own(s.items[i].template))
  PROVE  Onward(s, t)
<1> DEFINE q == s.items[i].quantity
           c == Own(s.items[i].template)
           p == Poured(s, i, c, q)
           u == p.store
           less == [u EXCEPT !.items[i].quantity = p.left]
           k == find_empty_slot(s, c, s.items[i].template)
           y == Lessened(s.items[i], p.left)
<1>1. Live(s, i) /\ i \in Ids /\ Shaped(s) /\ s.items[i].at.kind = "world"
  BY DEF Live, InWorld, Sound
<1>2. /\ q \in Nat /\ 1 <= q /\ q <= MaxStack[s.items[i].template]
      /\ IsItem(s.items[i]) /\ s.items[i].template \in Templates /\ i < s.nextItem
  BY <1>1, LiveMade
<1>3. Home(i, s.items[i].template) = c /\ c \in Containers /\ c # "stock" BY <1>1, HomeIs
<1>4. PourInv(s, i, q, p) BY <1>1, <1>2, <1>3, PouredIs
<1>5. Onward(s, u) BY <1>1, <1>2, <1>3, OnwardPoured
<1>6. \/ p.left = 0 /\ t = terminate(less, i)
      \/ p.left # 0 /\ k # 0 /\ t = Put(less, i, c, k)
  BY DEF transfer_world_to_inventory
<1> HIDE DEF p, c
<1>7. /\ Sound(u) /\ Shaped(u) /\ u.items[i] = s.items[i] /\ u.slots = s.slots
      /\ p.left \in Nat /\ p.left <= q /\ Beside(s, u)
  BY <1>2, <1>4 DEF PourInv, Sound
<1> HIDE DEF q, u
<1>8. /\ Shaped(less) /\ Beside(u, less) /\ less.items = [u.items EXCEPT ![i] = y]
      /\ less.slots = u.slots /\ less.revision = u.revision /\ less.log = u.log
  <2>1. u = [items |-> u.items, slots |-> u.slots, open |-> u.open,
             revision |-> u.revision, log |-> u.log,
             nextItem |-> u.nextItem, nextProp |-> u.nextProp, props |-> u.props]
    BY <1>7 DEF Shaped
  <2>2. less.log = u.log BY <2>1
  <2> DEFINE x == p.left
  <2>3. u.items[i] = s.items[i] /\ x \in Nat /\ Shaped(u) BY <1>7
  <2>4. y = Lessened(u.items[i], x) BY <2>3
  <2> HIDE DEF x, y
  <2>5. LET a == [u EXCEPT !.items[i].quantity = x]
        IN  /\ Shaped(a) /\ Beside(u, a)
            /\ a.items = [u.items EXCEPT ![i] = Lessened(u.items[i], x)]
            /\ a.slots = u.slots /\ a.revision = u.revision
    BY <1>1, <2>3, QuantityIs
  <2>6. less = [u EXCEPT !.items[i].quantity = x] BY DEF x
  <2> HIDE DEF less
  <2> QED BY <2>2, <2>4, <2>5, <2>6
<1>9. IsItem(y) /\ y.at = s.items[i].at /\ y.template = s.items[i].template
      /\ y.state = s.items[i].state /\ y.quantity = p.left
  BY <1>2, <1>7, LessenedIs
<1> HIDE DEF less, y
<1>10. less.items[i] = y BY <1>1, <1>7, <1>8 DEF Shaped
<1>11. Offslot(u, i) /\ Offslot(less, i)
  BY <1>1, <1>7, <1>8, OffslotIs DEF InInventory, Sound, Offslot
<1>12. Onward(u, less)
  <2>1. less.nextItem >= u.nextItem BY <1>7, <1>8 DEF Beside, Shaped
  <2>2. InWorld(u, i) BY <1>1, <1>7 DEF InWorld
  <2> QED BY <1>1, <1>7, <1>8, <1>9, <1>11, <2>1, <2>2, OnwardOff
<1>13. Onward(s, less) BY <1>1, <1>5, <1>7, <1>8, <1>12, OnwardTrans
<1>14. CASE p.left = 0 /\ t = terminate(less, i)
  <2>1. Live(less, i) /\ ~InInventory(less, i) BY <1>1, <1>9, <1>10 DEF Live, InInventory
  <2>2. SlotsAgree(less)
    <3>1. SlotsAgree(u) BY <1>7 DEF Sound
    <3>2. \A j \in Ids : less.items[j].at = u.items[j].at BY <1>1, <1>7, <1>8, <1>9 DEF Shaped
    <3>3. less.open = u.open BY <1>8 DEF Beside
    <3>4. \A d \in Containers : \A n \in 1..Capacity[d] : u.slots[d][n] \in Ids \cup {0}
      BY <1>7 DEF Shaped
    <3> QED BY <1>8, <3>1, <3>2, <3>3, <3>4 DEF SlotsAgree
  <2>3. Onward(less, t) BY <1>8, <1>14, <2>2, OnwardTerminated
  <2>4. Shaped(t) BY <1>1, <1>8, <1>14, <2>1, TerminateIs
  <2> QED BY <1>1, <1>8, <1>13, <2>3, <2>4, OnwardTrans
<1>15. CASE p.left # 0 /\ k # 0 /\ t = Put(less, i, c, k)
  <2>1. /\ k \in 1..Capacity[c] /\ s.slots[c][k] = 0 BY <1>1, <1>3, <1>15, SlotFree
  <2> HIDE DEF k
  <2>2. less.slots[c][k] = 0 BY <1>7, <1>8, <2>1
  <2>3. i < less.nextItem BY <1>2, <1>7, <1>8 DEF Beside
  <2>4. y.template \in Single => y.quantity = 1
    BY <1>2, <1>7, <1>9, <1>15, SingleIs DEF q
  <2>5. Home(i, y.template) = c /\ y.template \in Templates BY <1>2, <1>3, <1>9
  <2>6. Onward(less, t)
    BY <1>1, <1>3, <1>8, <1>9, <1>10, <1>11, <1>15, <2>1, <2>2, <2>3, <2>4, <2>5, OnwardPut
  <2>7. Shaped(t) BY <1>1, <1>3, <1>8, <1>15, <2>1, PutIs
  <2> QED BY <1>1, <1>8, <1>13, <2>6, <2>7, OnwardTrans
<1> QED BY <1>6, <1>14, <1>15 DEF c

\* Part of a stack taken elsewhere.
LEMMA OnwardPart ==
  ASSUME NEW s, Sound(s), s.nextItem \in Ids, s.nextItem > Len(StockContents),
         NEW i, InInventory(s, i), NEW q \in Nat \ {0}, q < s.items[i].quantity,
         Own(s.items[i].template) \in s.open,
         NEW t \in transfer_to_container(s, i, q, Own(s.items[i].template))
  PROVE  Onward(s, t)
<1> DEFINE h == s.items[i].quantity
           tm == s.items[i].template
           c == Own(tm)
           p == Poured(s, i, c, q)
           u == p.store
           rest == p.left
           k == find_empty_slot(s, c, tm)
           less == SetQuantity(u, i, h - q)
           used == s.items[i].used
           state == s.items[i].state
           made == Made(less, tm, rest, used, state)
<1>1. Live(s, i) /\ i \in Ids /\ Shaped(s) /\ s.nextItem \in Nat
  BY DEF Live, InInventory, Sound, Ids
<1>2. /\ h \in Nat /\ IsItem(s.items[i]) /\ tm \in Templates /\ h <= MaxStack[tm]
      /\ MaxStack[tm] \in Nat
  BY <1>1, LiveMade
<1>3. Home(s.nextItem, tm) = c /\ c \in Containers /\ c # "stock" BY HomeIs
<1>4. PourInv(s, i, q, p) BY <1>1, <1>3, PouredIs
<1>5. Onward(s, u) BY <1>1, <1>3, OnwardPoured
<1>6. p.left \in 0..q BY <1>4 DEF PourInv
<1>7. q # h /\ q \in Nat /\ h - q \in Nat \ {0} BY <1>2
<1>8. \/ rest = 0 /\ t = less
      \/ rest # 0 /\ k # 0 /\ t = Put(made, s.nextItem, c, k)
  <2>1. rest > 0 <=> rest # 0 BY <1>6
  <2>2. t \in (CASE rest = 0 /\ q = h -> {terminate(u, i)}
       [] rest = 0 /\ ~(q = h) -> {less}
       [] rest > 0 /\ k = 0 -> {}
       [] rest > 0 /\ k # 0 /\ q = h ->
            {Put([remove_from_inventory(u, i) EXCEPT !.items[i].quantity = rest], i, c, k)}
       [] OTHER -> {Put(made, s.nextItem, c, k)})
    BY DEF transfer_to_container
  <2> HIDE DEF h, tm, p, u, rest, k, less, made, c
  <2> QED BY <1>7, <2>1, <2>2
<1>9. Sound(u) /\ Shaped(u) /\ u.items[i] = s.items[i] /\ Beside(s, u)
  BY <1>4 DEF PourInv, Sound
<1> HIDE DEF p, u, c
<1>10. tm \notin Single
  <2>1. MaxStack[tm] # 1 BY <1>2, <1>7
  <2> HIDE DEF tm
  <2> QED BY <1>2, <2>1, SingleIs
<1>11. Onward(u, less)
  <2>1. SlotsAgree(u) BY <1>9 DEF Sound
  <2>2. u.items[i].template \notin Single BY <1>9, <1>10
  <2> HIDE DEF h
  <2> QED BY <1>1, <1>7, <1>9, <2>1, <2>2, OnwardQuantity
<1>12. Sound(less) /\ Beside(s, less) /\ less.slots = s.slots
  BY <1>1, <1>4, <1>7, SourceLess DEF u
<1>13. Onward(s, less)
  <2>1. Shaped(less) BY <1>12 DEF Sound
  <2> HIDE DEF less
  <2> QED BY <1>1, <1>5, <1>9, <1>11, <2>1, OnwardTrans
<1>14. CASE rest = 0 /\ t = less BY <1>13, <1>14
<1>15. CASE rest # 0 /\ k # 0 /\ t = Put(made, s.nextItem, c, k)
  <2>1. k \in 1..Capacity[c] /\ s.slots[c][k] = 0 BY <1>1, <1>3, <1>15, SlotFree
  <2>2. used \in Nat /\ state \in States BY <1>2 DEF IsItem
  <2> HIDE DEF less, k, rest, used, state, tm
  <2>3. less.nextItem = s.nextItem BY <1>12 DEF Beside
  <2>4. /\ Shaped(less) /\ SlotsAgree(less) /\ less.items[less.nextItem].at.kind = "none"
    BY <1>12, <2>3, NextIsFree, EmptyIs DEF Sound
  <2>5. rest \in Nat BY <1>6 DEF rest
  <2>6. /\ Onward(less, made) /\ Shaped(made) /\ Offslot(made, s.nextItem)
        /\ made.slots = less.slots /\ made.nextItem = s.nextItem + 1
    BY <1>2, <2>2, <2>3, <2>4, <2>5, OnwardMade
  <2>7. made.items[s.nextItem].template = tm /\ made.items[s.nextItem].quantity = rest
    <3>1. /\ made.items = [less.items EXCEPT ![s.nextItem] =
                [template |-> tm, quantity |-> rest, used |-> used, state |-> state,
                 at |-> Nowhere]]
      BY <1>2, <2>2, <2>3, <2>4, <2>5, MadeIs
    <3>2. made.items[s.nextItem] =
                [template |-> tm, quantity |-> rest, used |-> used, state |-> state,
                 at |-> Nowhere]
      BY <2>4, <3>1 DEF Shaped
    <3> QED BY <3>2
  <2> HIDE DEF made
  <2>8. s.nextItem < made.nextItem BY <1>1, <2>6
  <2>9. made.slots[c][k] = 0 BY <1>12, <2>1, <2>6
  <2>10. Onward(made, t)
    BY <1>2, <1>3, <1>10, <1>15, <2>1, <2>6, <2>7, <2>8, <2>9, OnwardPut
  <2>11. Shaped(t) BY <1>3, <1>15, <2>1, <2>6, PutIs
  <2>12. Onward(s, made) BY <1>1, <1>13, <2>4, <2>6, OnwardTrans
  <2> QED BY <1>1, <2>6, <2>10, <2>11, <2>12, OnwardTrans
<1> QED BY <1>8, <1>14, <1>15

\* All of it taken: it is in the stock no more, and nothing came into the stock.
LEMMA WholeIsGone ==
  ASSUME NEW s, Sound(s), NEW i, InInventory(s, i), NEW c \in Containers, c # "stock",
         NEW t \in transfer_to_container(s, i, s.items[i].quantity, c)
  PROVE  Ebbs(s, t) /\ \A k \in 1..Capacity["stock"] : t.slots["stock"][k] # i
<1> DEFINE q == s.items[i].quantity
           tm == s.items[i].template
           p == Poured(s, i, c, q)
           u == p.store
           rest == p.left
           k == find_empty_slot(s, c, tm)
           gone == remove_from_inventory(u, i)
           part == [gone EXCEPT !.items[i].quantity = rest]
<1>1. Live(s, i) /\ i \in Ids /\ Shaped(s) /\ i # 0
  BY ItemStoreAssumption DEF Live, InInventory, Sound, Ids
<1>2. q \in Nat /\ "stock" \in Containers BY <1>1, LiveMade, ItemStoreAssumption
<1>3. PourInv(s, i, q, p) BY <1>1, <1>2, PouredIs
<1>4. rest \in Nat BY <1>3 DEF PourInv
<1>5. \/ rest = 0 /\ t = terminate(u, i)
      \/ rest # 0 /\ k # 0 /\ t = Put(part, i, c, k)
  <2>1. rest > 0 <=> rest # 0 BY <1>4
  <2>2. t \in (CASE rest = 0 /\ q = q -> {terminate(u, i)}
       [] rest = 0 /\ ~(q = q) -> {SetQuantity(u, i, q - q)}
       [] rest > 0 /\ k = 0 -> {}
       [] rest > 0 /\ k # 0 /\ q = q -> {Put(part, i, c, k)}
       [] OTHER ->
            {Put(Made(SetQuantity(u, i, q - q), tm, rest, s.items[i].used,
                      s.items[i].state), s.nextItem, c, k)})
    BY DEF transfer_to_container
  <2> HIDE DEF q, tm, p, u, rest, k, part
  <2> QED BY <2>1, <2>2
<1>6. Sound(u) /\ Shaped(u) /\ SlotsAgree(u) /\ u.items[i] = s.items[i] /\ u.slots = s.slots
  BY <1>3 DEF PourInv, Sound
<1>7. Live(u, i) BY <1>1, <1>6 DEF Live
<1> HIDE DEF p, u
<1>8. \A n \in 1..Capacity["stock"] :
        LET v == IF u.items[i].at = InSlot("stock", n) THEN 0 ELSE u.slots["stock"][n]
        IN  v \in {0, s.slots["stock"][n]} /\ v # i
  <2> TAKE n \in 1..Capacity["stock"]
  <2>1. u.slots["stock"][n] = i => u.items[i].at = InSlot("stock", n)
    BY <1>1, <1>2, <1>6 DEF SlotsAgree
  <2> QED BY <1>1, <1>6, <2>1
<1>9. CASE rest = 0 /\ t = terminate(u, i)
  <2>1. \A n \in 1..Capacity["stock"] :
          t.slots["stock"][n] = IF u.items[i].at = InSlot("stock", n) THEN 0
                                ELSE u.slots["stock"][n]
    <3>1. LET v == terminate(u, i)
          IN  /\ Shaped(v) /\ Beside(u, v)
              /\ v.items = [u.items EXCEPT ![i] = Ended(u.items[i])]
              /\ \A d \in Containers : \A n \in 1..Capacity[d] :
                   v.slots[d][n] = IF u.items[i].at = InSlot(d, n) THEN 0 ELSE u.slots[d][n]
              /\ Ahead(u, v)
      BY <1>1, <1>6, <1>7, TerminateIs
    <3> QED BY <1>2, <1>9, <3>1
  <2> QED BY <1>8, <2>1 DEF Ebbs
<1>10. CASE rest # 0 /\ k # 0 /\ t = Put(part, i, c, k)
  <2>1. /\ Shaped(gone)
        /\ \A n \in 1..Capacity["stock"] :
             gone.slots["stock"][n] = IF u.items[i].at = InSlot("stock", n) THEN 0
                                      ELSE u.slots["stock"][n]
    BY <1>1, <1>2, <1>6, RemoveIs
  <2>2. k \in 1..Capacity[c] BY <1>1, <1>10, SlotFree
  <2> HIDE DEF gone, k, rest
  <2>3. Shaped(part) /\ part.slots = gone.slots BY <1>1, <1>4, <2>1, QuantityIs
  <2> HIDE DEF part
  <2>4. \A d \in Containers : \A n \in 1..Capacity[d] :
             t.slots[d][n] = IF d = c /\ n = k THEN i ELSE part.slots[d][n]
    <3>1. LET v == Put(part, i, c, k)
          IN  /\ Shaped(v) /\ Beside(part, v)
              /\ v.items = [part.items EXCEPT ![i] = Moved(part.items[i], InSlot(c, k))]
              /\ \A d \in Containers : \A n \in 1..Capacity[d] :
                   v.slots[d][n] = IF d = c /\ n = k THEN i ELSE part.slots[d][n]
              /\ Ahead(part, v)
      BY <1>1, <2>2, <2>3, PutMoves
    <3> QED BY <1>10, <3>1
  <2>5. \A n \in 1..Capacity["stock"] : t.slots["stock"][n] = gone.slots["stock"][n]
    BY <1>2, <2>3, <2>4
  <2> QED BY <1>8, <2>1, <2>5 DEF Ebbs
<1> QED BY <1>5, <1>9, <1>10

\* An item put on a prop made for it.
LEMMA OnwardOntoProp ==
  ASSUME NEW s, Sound(s), NEW i, Live(s, i), NEW mode \in Modes, i > Len(StockContents)
  PROVE  Onward(s, move_to_world(spawn_prop(s), i, s.nextProp, mode))
<1> DEFINE u == spawn_prop(s)
           t == move_to_world(u, i, s.nextProp, mode)
<1>1. Shaped(s) /\ i \in Ids /\ s.nextProp \in Nat BY DEF Sound, Shaped, Live
<1>2. Onward(s, u) BY <1>1, OnwardSpawned
<1>3. Shaped(u) /\ u.items = s.items /\ u.slots = s.slots /\ u.open = s.open BY <1>1, SpawnIs
<1> HIDE DEF u
<1>4. SlotsAgree(u) BY <1>3 DEF Sound, SlotsAgree
<1>5. Onward(u, t) BY <1>1, <1>3, <1>4, OnwardToWorld
<1>6. Shaped(t) BY <1>1, <1>3, ToWorldIs
<1> HIDE DEF t
<1>7. Onward(s, t) BY <1>1, <1>2, <1>3, <1>5, <1>6, OnwardTrans
<1> QED BY <1>7 DEF t, u

\* Part of a stack put on a prop.
LEMMA OnwardSplit ==
  ASSUME NEW s, Sound(s), s.nextItem \in Ids, s.nextItem > Len(StockContents),
         NEW i, InInventory(s, i), NEW q \in Nat \ {0},
         q < s.items[i].quantity, NEW mode \in Modes
  PROVE  Onward(s, split_to_world(spawn_prop(s), i, q, s.nextProp, mode))
<1> DEFINE n == s.nextItem
           p == s.nextProp
           u == spawn_prop(s)
           h == s.items[i].quantity
           tm == s.items[i].template
           state == s.items[i].state
           z == [template |-> tm, quantity |-> q, used |-> 0, state |-> state,
                 at |-> Nowhere]
           v == Made(u, tm, q, 0, state)
           w == [v EXCEPT !.items[n].at = OnProp(p, mode)]
           t == SetQuantity(w, i, h - q)
<1>1. /\ Live(s, i) /\ i \in Ids /\ Shaped(s) /\ n \in Nat /\ p \in Nat
  BY DEF Live, InInventory, Sound, Shaped
<1>2. /\ IsItem(s.items[i]) /\ tm \in Templates /\ h \in Nat /\ h <= MaxStack[tm]
      /\ MaxStack[tm] \in Nat /\ i < n
  BY <1>1, LiveMade
<1>3. state \in States /\ (tm \in Weapons => state.count <= Magazine)
  BY <1>1, <1>2 DEF IsItem, Sound, Measured
<1>4. tm \notin Single
  <2>1. MaxStack[tm] # 1 BY <1>2
  <2> HIDE DEF tm
  <2> QED BY <1>2, <2>1, SingleIs
<1>5. /\ Shaped(u) /\ u.items = s.items /\ u.slots = s.slots /\ u.open = s.open
      /\ u.revision = s.revision /\ u.nextItem = n
      /\ u.nextProp = p + 1 /\ u.props = s.props \cup {p}
  BY <1>1, SpawnIs
<1>6. Onward(s, u) BY <1>1, OnwardSpawned
<1> HIDE DEF u
<1>7. split_to_world(u, i, q, p, mode) = t BY <1>5 DEF split_to_world
<1>8. z.template = tm /\ z.quantity = q /\ z.state = state OBVIOUS
<1>9. n > Len(StockContents) OBVIOUS
<1>10. SlotsAgree(u) /\ u.items[n].at.kind = "none"
  BY <1>5, NextIsFree, EmptyIs DEF Sound, SlotsAgree
<1>11. n \in Ids OBVIOUS
<1> HIDE DEF n, p, h, tm, state
<1>12. /\ Shaped(v) /\ IsItem(z) /\ v.items = [u.items EXCEPT ![n] = z]
       /\ v.slots = u.slots /\ v.open = u.open
       /\ v.revision = u.revision /\ v.nextItem = n + 1
       /\ v.nextProp = u.nextProp /\ v.props = u.props
       /\ Onward(u, v) /\ Offslot(v, n)
  <2>1. u.nextItem \in Ids BY <1>5, <1>11
  <2>2. Shaped(u) /\ 0 \in Nat /\ q \in Nat BY <1>5
  <2> DEFINE e == 0
  <2>3. e \in Nat OBVIOUS
  <2> HIDE DEF e
  <2>4. LET a == Made(u, tm, q, e, state)
            b == [template |-> tm, quantity |-> q, used |-> e, state |-> state,
                  at |-> Nowhere]
        IN  /\ Shaped(a) /\ IsItem(b) /\ a.items = [u.items EXCEPT ![u.nextItem] = b]
            /\ a.slots = u.slots /\ a.open = u.open
            /\ a.revision = u.revision /\ a.nextItem = u.nextItem + 1
            /\ a.nextProp = u.nextProp /\ a.props = u.props
    BY <1>2, <1>3, <2>1, <2>2, <2>3, MadeIs
  <2>5. u.items[u.nextItem].at.kind = "none" BY <1>5, <1>10
  <2>6. LET a == Made(u, tm, q, e, state)
        IN  /\ Onward(u, a) /\ Shaped(a) /\ Offslot(a, u.nextItem)
            /\ a.log = u.log /\ a.slots = u.slots /\ a.nextItem = u.nextItem + 1
    BY <1>2, <1>3, <1>10, <2>1, <2>2, <2>3, <2>5, OnwardMade
  <2> QED BY <1>5, <2>4, <2>6 DEF e
<1> HIDE DEF z, v
<1>13. /\ Sound(w) /\ \A j \in Ids : j # n => w.items[j] = s.items[j]
  <2>1. Allowable(z) BY <1>2, <1>3, <1>8, <1>12 DEF h, Allowable
  <2>2. Fresh(s, v, z) BY <1>5, <1>12 DEF n, p, Fresh
  <2>3. LET a == Landed(s, v, mode)
         IN  /\ Sound(a) /\ Ahead(s, a) /\ Holds(s, a) /\ Beside(v, a)
             /\ \A j \in Ids : j # s.nextItem => a.items[j] = s.items[j]
             /\ a.slots = s.slots
             /\ \A y : Total(a, y) = Total(s, y) + (IF z.template = y THEN z.quantity ELSE 0)
    BY <2>1, <2>2, MadeOnProp
  <2>4. Landed(s, v, mode) = w BY DEF Landed, w, n, p
  <2> QED BY <1>8, <2>3, <2>4 DEF n
<1>14. Onward(v, w)
  <2> DEFINE at == OnProp(p, mode)
             x == [v.items[n] EXCEPT !.at = at]
  <2>1. IsPlace(at) BY <1>1 DEF IsPlace
  <2> HIDE DEF at
  <2>2. /\ w = [v EXCEPT !.items[n].at = at] BY DEF at
  <2>3. /\ Shaped(w) /\ Beside(v, w) /\ w.items = [v.items EXCEPT ![n] = x]
        /\ IsItem(x) /\ w.slots = v.slots /\ w.revision = v.revision
    <3>1. LET t1 == [v EXCEPT !.items[n].at = at]
              x1 == [v.items[n] EXCEPT !.at = at]
          IN  /\ Shaped(t1) /\ Beside(v, t1) /\ t1.items = [v.items EXCEPT ![n] = x1]
              /\ IsItem(x1) /\ t1.slots = v.slots /\ t1.revision = v.revision
      <4>1. n \in Ids /\ Shaped(v) BY <1>11, <1>12
      <4> HIDE DEF w, n
      <4> QED BY <2>1, <4>1, AtIs
    <3> HIDE DEF w
    <3> QED BY <2>2, <3>1
  <2>4. w.log = v.log
    BY <1>12, <2>2 DEF Shaped
  <2>5. IsItem(v.items[n]) BY <1>11, <1>12 DEF Shaped
  <2>6. x.template = v.items[n].template /\ x.state = v.items[n].state
    BY <2>1, <2>5, MovedIs
  <2> HIDE DEF w, x
  <2>7. w.nextItem >= v.nextItem BY <1>12, <2>3 DEF Beside, Shaped
  <2> QED BY <1>9, <1>11, <1>12, <2>3, <2>4, <2>6, <2>7, OnwardOff
<1> HIDE DEF w
<1>15. w.items[i] = s.items[i] /\ Shaped(w) /\ SlotsAgree(w)
  BY <1>1, <1>2, <1>13 DEF Sound
<1> DEFINE r == h - q
<1>16. r \in Nat \ {0} BY <1>2 DEF h
<1> HIDE DEF r
<1> DEFINE a == SetQuantity(w, i, r)
<1>17. Onward(w, a)
  BY <1>1, <1>4, <1>15, <1>16, OnwardQuantity DEF tm
<1>18. Shaped(a) BY <1>1, <1>15, <1>16, SetQuantityIs
<1>19. a = t BY DEF r
<1> HIDE DEF a, t
<1>20. Onward(s, v) BY <1>1, <1>5, <1>6, <1>12, OnwardTrans
<1>21. Onward(s, w) BY <1>1, <1>12, <1>14, <1>15, <1>20, OnwardTrans
<1>22. Onward(s, a) BY <1>1, <1>15, <1>17, <1>18, <1>21, OnwardTrans
<1> QED BY <1>7, <1>19, <1>22 DEF u, p

\* The last change of an item is what counts.
LEMMA ItemTwice ==
  ASSUME NEW s, Shaped(s), NEW i \in Ids, NEW x, NEW y
  PROVE  [[s EXCEPT !.items[i] = x] EXCEPT !.items[i] = y] = [s EXCEPT !.items[i] = y]
<1> DEFINE a == [s EXCEPT !.items[i] = x]
           b == [a EXCEPT !.items[i] = y]
           d == [s EXCEPT !.items[i] = y]
<1>1. s = [items |-> s.items, slots |-> s.slots, open |-> s.open,
           revision |-> s.revision, log |-> s.log,
           nextItem |-> s.nextItem, nextProp |-> s.nextProp, props |-> s.props]
  BY DEF Shaped
<1>2. s.items = [j \in Ids |-> s.items[j]] BY DEF Shaped
<1>3. a = [items |-> [s.items EXCEPT ![i] = x], slots |-> s.slots, open |-> s.open,
           revision |-> s.revision, log |-> s.log,
           nextItem |-> s.nextItem, nextProp |-> s.nextProp, props |-> s.props]
  BY <1>1
<1>4. d = [items |-> [s.items EXCEPT ![i] = y], slots |-> s.slots, open |-> s.open,
           revision |-> s.revision, log |-> s.log,
           nextItem |-> s.nextItem, nextProp |-> s.nextProp, props |-> s.props]
  BY <1>1
<1> HIDE DEF a
<1>5. b = [items |-> [[s.items EXCEPT ![i] = x] EXCEPT ![i] = y],
           slots |-> s.slots, open |-> s.open,
           revision |-> s.revision, log |-> s.log,
           nextItem |-> s.nextItem, nextProp |-> s.nextProp, props |-> s.props]
  BY <1>3
<1>6. [[s.items EXCEPT ![i] = x] EXCEPT ![i] = y] = [s.items EXCEPT ![i] = y] BY <1>2
<1> QED BY <1>4, <1>5, <1>6 DEF a

\* A use changes three fields of an item.
LEMMA UsedStoreIs ==
  ASSUME NEW s, Shaped(s), NEW i \in Ids, NEW q \in Nat, NEW n \in Nat, NEW changed
  PROVE  UsedStore(s, i, q, n, changed)
         = Updated([s EXCEPT !.items[i] = UsedOnce(s.items[i], q, n)], i, changed)
<1> DEFINE x == UsedOnce(s.items[i], q, n)
           a == [s EXCEPT !.items[i].quantity = q]
           b == [a EXCEPT !.items[i].state.count = n]
           d == [b EXCEPT !.items[i].used = @ + 1]
           u == [s EXCEPT !.items[i].quantity = q, !.items[i].state.count = n,
                          !.items[i].used = @ + 1]
           ya == [s.items[i] EXCEPT !.quantity = q]
           state == [count |-> n, reserve |-> s.items[i].state.reserve]
           yb == [ya EXCEPT !.state = state]
           m == s.items[i].used + 1
           yd == [yb EXCEPT !.used = m]
<1>1. IsItem(s.items[i]) BY DEF Shaped
<1>2. state \in States /\ m \in Nat BY <1>1 DEF IsItem, States
<1>3. u = d OBVIOUS
<1>4. /\ IsItem(ya) /\ ya = [template |-> s.items[i].template, quantity |-> q,
                             used |-> s.items[i].used, state |-> s.items[i].state,
                             at |-> s.items[i].at]
  BY <1>1, ItemWith
<1> HIDE DEF ya, state, m
<1>5. /\ IsItem(yb) /\ yb = [template |-> ya.template, quantity |-> ya.quantity,
                             used |-> ya.used, state |-> state, at |-> ya.at]
  BY <1>2, <1>4, ItemWith
<1> HIDE DEF yb
<1>6. /\ IsItem(yd) /\ yd = [template |-> yb.template, quantity |-> yb.quantity,
                             used |-> m, state |-> yb.state, at |-> yb.at]
  BY <1>2, <1>5, ItemWith
<1> HIDE DEF yd
<1>7. yd = x BY <1>4, <1>5, <1>6 DEF UsedOnce, state, m
<1>8. a = [s EXCEPT !.items[i] = ya] BY DEF ya
<1> HIDE DEF a
<1>9. Shaped(a) /\ a.items[i] = ya
  <2>1. LET v == [s EXCEPT !.items[i] = ya]
        IN  /\ Shaped(v) /\ Beside(s, v) /\ v.items = [s.items EXCEPT ![i] = ya]
            /\ v.slots = s.slots /\ v.revision = s.revision
    BY <1>4, ItemShaped
  <2>2. Shaped(a) /\ a.items = [s.items EXCEPT ![i] = ya] BY <1>8, <2>1
  <2> QED BY <2>2 DEF Shaped
<1>10. ya.state = s.items[i].state /\ s.items[i].state \in States
  BY <1>1, <1>4 DEF IsItem
<1>11. [ya.state EXCEPT !.count = n] = state BY <1>10 DEF state, States
<1>12. b = [a EXCEPT !.items[i] = yb]
  BY <1>9, <1>11 DEF yb
<1> HIDE DEF b
<1>13. b = [s EXCEPT !.items[i] = yb] BY <1>8, <1>12, ItemTwice
<1>14. b.items[i] = yb
  BY <1>5, <1>13, ItemShaped DEF Shaped
<1>15. yb.used = s.items[i].used BY <1>4, <1>5
<1>16. d = [b EXCEPT !.items[i] = yd]
  BY <1>14, <1>15 DEF yd, m
<1> HIDE DEF d, u, x
<1>17. d = [s EXCEPT !.items[i] = yd] BY <1>13, <1>16, ItemTwice
<1>18. u = [s EXCEPT !.items[i] = x] BY <1>3, <1>7, <1>17
<1> QED BY <1>18 DEF UsedStore, u, x

\* One use.
LEMMA OnwardUsed ==
  ASSUME NEW s, Sound(s), NEW i, Live(s, i), NEW q \in Nat \ {0}, NEW n \in Nat, NEW changed,
         IF s.items[i].template \in Single
         THEN "state" \in changed /\ q = s.items[i].quantity
         ELSE "quantity" \in changed /\ n = s.items[i].state.count
  PROVE  Onward(s, UsedStore(s, i, q, n, changed))
<1> DEFINE x == UsedOnce(s.items[i], q, n)
           t == UsedStore(s, i, q, n, changed)
<1>1. Shaped(s) /\ i \in Ids /\ IsItem(s.items[i]) /\ SlotsAgree(s)
  BY DEF Sound, Live, Shaped
<1>2. /\ Shaped(t) /\ Beside(s, t) /\ t.items = [s.items EXCEPT ![i] = x]
      /\ IsItem(x) /\ t.slots = s.slots /\ Ahead(s, t)
  BY <1>1, UsedIs DEF UsedStore
<1>3. /\ x.at = s.items[i].at /\ x.template = s.items[i].template /\ x.quantity = q
      /\ x.state = [count |-> n, reserve |-> s.items[i].state.reserve]
  BY DEF UsedOnce
<1>4. n = s.items[i].state.count => x.state = s.items[i].state
  BY <1>1, <1>3 DEF IsItem, States
<1>5. t = Updated([s EXCEPT !.items[i] = x], i, changed) BY <1>1, UsedStoreIs
<1> HIDE DEF x, t
<1>6. Grows(s, t) BY <1>1, <1>2, <1>3, <1>4, <1>5, GrowsUpdated
<1>7. x.at.kind = "world" => InWorld(s, i) BY <1>1, <1>3 DEF InWorld
<1>8. Ebbs(s, t) BY <1>2 DEF Ebbs
<1>9. Stays(s, t) BY <1>1, <1>2, <1>7, <1>8, StaysBut
<1> QED BY <1>6, <1>9 DEF Onward, t

\* What a use does.
LEMMA OnwardConsumed ==
  ASSUME NEW s, Sound(s), NEW i, Live(s, i), s.items[i].template \notin Weapons,
         NEW t \in consume(s, i)
  PROVE  Onward(s, t)
<1> DEFINE q == s.items[i].quantity
           n == s.items[i].state.count
           tm == s.items[i].template
           Used(a, b, changed) == UsedStore(s, i, a, b, changed)
<1>1. /\ IsItem(s.items[i]) /\ q \in Nat /\ n \in Nat /\ 1 <= q
  BY LiveMade DEF IsItem, States
<1>2. Shaped(s) /\ SlotsAgree(s) BY DEF Sound
<1>3. ASSUME t = terminate(s, i) PROVE Onward(s, t) BY <1>2, <1>3, OnwardTerminated
<1>4. CASE tm \in Charged
  <2>1. n # 0 /\ t \in IF n = 1 THEN {terminate(s, i)} ELSE {Used(q, n - 1, {"state", "used"})}
    BY <1>4 DEF consume, UsedStore
  <2>2. CASE n = 1 BY <1>3, <2>1, <2>2
  <2>3. CASE n # 1
    <3> DEFINE m == n - 1
               changed == {"state", "used"}
    <3>1. t = Used(q, m, changed) BY <2>1, <2>3
    <3>2. m \in Nat /\ "state" \in changed BY <1>1, <2>1
    <3>3. tm \in Single BY <1>4 DEF Single
    <3> HIDE DEF m, changed
    <3>4. q \in Nat \ {0} BY <1>1
    <3> QED BY <3>1, <3>2, <3>3, <3>4, OnwardUsed
  <2> QED BY <2>2, <2>3
<1>5. CASE tm \notin Charged
  <2>1. t \in IF q = 1 THEN {terminate(s, i)} ELSE {Used(q - 1, n, {"quantity", "used"})}
    BY <1>5 DEF consume, UsedStore
  <2>2. CASE q = 1 BY <1>3, <2>1, <2>2
  <2>3. CASE q # 1
    <3> DEFINE m == q - 1
               changed == {"quantity", "used"}
    <3>1. t = Used(m, n, changed) BY <2>1, <2>3
    <3>2. m \in Nat \ {0} /\ "quantity" \in changed BY <1>1, <2>3
    <3>3. tm \notin Single BY <1>5 DEF Single
    <3> HIDE DEF m, changed
    <3> QED BY <1>1, <3>1, <3>2, <3>3, OnwardUsed
  <2> QED BY <2>2, <2>3
<1> QED BY <1>4, <1>5

\* What is carried set down.
LEMMA OnwardSetDown ==
  ASSUME NEW s, Sound(s)
  PROVE  Onward(s, SetDown(s))
<1> DEFINE t == SetDown(s)
<1>1. /\ Safe(s, t) /\ Beside(s, t) /\ t.slots = s.slots /\ t.revision = s.revision
      /\ t.items = [i \in Ids |-> Lowered(s.items[i])]
  BY SetDownSafe
<1>2. Shaped(s) /\ Shaped(t) /\ SlotsAgree(s) BY <1>1 DEF Sound, Safe
<1>3. t.log = s.log
  BY <1>2 DEF Shaped, SetDown
<1> HIDE DEF t
<1>4. \A i \in Ids : /\ t.items[i].template = s.items[i].template
                     /\ t.items[i].state = s.items[i].state
                     /\ t.items[i].quantity = s.items[i].quantity
                     /\ t.items[i].at.kind = s.items[i].at.kind
  <2> TAKE i \in Ids
  <2>1. /\ Lowered(s.items[i]).template = s.items[i].template
        /\ Lowered(s.items[i]).quantity = s.items[i].quantity
        /\ Lowered(s.items[i]).state = s.items[i].state
        /\ Lowered(s.items[i]).at.kind = s.items[i].at.kind
    BY <1>2, LoweredIs
  <2>2. t.items[i] = Lowered(s.items[i]) BY <1>1
  <2> QED BY <2>1, <2>2
<1>5. t.nextItem = s.nextItem /\ s.nextItem \in Nat BY <1>1, <1>2 DEF Beside, Shaped
<1>6. Lasts(s, t) BY <1>4, <1>5 DEF Lasts
<1>7. ASSUME NEW c \in Containers PROVE Shown(t, c) = Shown(s, c)
  <2>1. \A k \in 1..Capacity[c] : s.slots[c][k] # 0 => s.slots[c][k] \in Ids
    BY <1>2 DEF Shaped
  <2>2. \A k \in 1..Capacity[c] : s.slots[c][k] # 0 =>
           Bare(s.slots[c][k], t.items[s.slots[c][k]])
             = Bare(s.slots[c][k], s.items[s.slots[c][k]])
    BY <1>4, <2>1 DEF Bare
  <2>3. t.slots[c] = s.slots[c] BY <1>1
  <2> QED BY <2>2, <2>3, ShownSame
<1>8. \A c \in Containers : t.log[c] \in {s.log[c], <<>>} BY <1>3
<1>9. Grows(s, t) BY <1>1, <1>2, <1>6, <1>7, <1>8, GrowsSame
<1>10. Stays(s, t) BY <1>1, <1>4 DEF Stays, Ebbs, InWorld
<1> QED BY <1>9, <1>10 DEF Onward, t

\* A prop nothing is on goes.
LEMMA OnwardPropGone ==
  ASSUME NEW s, Sound(s), NEW p,
         \A j \in Ids : ~(InWorld(s, j) /\ s.items[j].at.prop = p)
  PROVE  Onward(s, destroy_prop(s, p))
<1> DEFINE on == {i \in Ids : InWorld(s, i) /\ s.items[i].at.prop = p}
           P == s.props \ {p}
           t == [s EXCEPT !.props = P]
<1>1. on = {} OBVIOUS
<1>2. destroy_prop(s, p) = t BY <1>1 DEF destroy_prop
<1>3. Shaped(s) BY DEF Sound
<1>4. P \in SUBSET Nat BY <1>3 DEF Shaped
<1> HIDE DEF P
<1>5. 0 \in Nat OBVIOUS
<1>6. /\ Shaped(t) /\ t.items = s.items /\ t.slots = s.slots
      /\ t.revision = s.revision /\ t.nextItem = s.nextItem
  BY <1>3, <1>4, <1>5, CountersShaped
<1>7. t.log = s.log BY <1>3, LogStays
<1> HIDE DEF t
<1>8. t.nextItem >= s.nextItem BY <1>3, <1>6 DEF Shaped
<1> QED BY <1>2, <1>3, <1>6, <1>7, <1>8, OnwardCounters

-----------------------------------------------------------------------------
(* What leaves the stock.                                                  *)

\* The state of a weapon that exists changes.
LEMMA OnwardState ==
  ASSUME NEW s, Sound(s), NEW i, Live(s, i), s.items[i].template \in Weapons,
         NEW field \in {"count", "reserve"}, NEW v \in Nat
  PROVE  Onward(s, set_portable_uint32(s, i, field, v))
BY LiveMade, SingleIs, OnwardPortable DEF Sound, Live

\* The weapon in hand written back.
LEMMA OnwardWritten ==
  ASSUME NEW s, Sound(s), NEW h, HandOK(s, h)
  PROVE  Onward(s, WrittenBack(s, h))
<1> DEFINE i == h.id
           u == set_portable_uint32(s, i, "count", h.count)
           t == set_portable_uint32(u, i, "reserve", h.reserve)
<1>1. CASE i = 0
  BY <1>1, OnwardSelf DEF WrittenBack, Sound
<1>2. CASE i # 0
  <2>1. WrittenBack(s, h) = t BY <1>2 DEF WrittenBack
  <2>2. /\ Live(s, i) /\ s.items[i].template \in Weapons
        /\ h.count \in Nat /\ h.count <= Magazine /\ h.reserve \in Nat /\ i \in Ids
    BY <1>2, GameplayRequestsAssumption DEF HandOK, Live
  <2>3. Restated(s, u, i, With(s.items[i].state, "count", h.count))
    BY <2>2, SetPortableKept
  <2>4. Onward(s, u) BY <2>2, OnwardState
  <2> HIDE DEF u
  <2>5. Sound(u) /\ Shaped(u) BY <2>3 DEF Restated, Sound
  <2>6. u.items[i].at = s.items[i].at /\ u.items[i].template = s.items[i].template
    <3> DEFINE state == With(s.items[i].state, "count", h.count)
    <3>1. Restated(s, u, i, state) BY <2>3
    <3> HIDE DEF state, i
    <3> QED BY <2>2, <3>1, RestatedItems
  <2>7. Live(u, i) BY <2>2, <2>6 DEF Live
  <2>8. Onward(u, t) BY <2>2, <2>5, <2>6, <2>7, OnwardState
  <2>9. Shaped(t)
    <3> DEFINE v == h.reserve
    <3>1. v \in Nat /\ ("reserve" = "count" => v <= Magazine) BY <2>2
    <3> HIDE DEF v, i
    <3>2. Restated(u, set_portable_uint32(u, i, "reserve", v), i,
                   With(u.items[i].state, "reserve", v))
      BY <2>5, <2>7, <3>1, SetPortableKept
    <3> QED BY <3>2 DEF Restated, Sound, v
  <2> HIDE DEF t, i
  <2>10. Shaped(s) BY DEF Sound
  <2>11. Onward(s, t) BY <2>4, <2>5, <2>8, <2>9, <2>10, OnwardTrans
  <2> QED BY <2>1, <2>11
<1> QED BY <1>1, <1>2

\* The loadout following the weapon container.
LEMMA OnwardLoadout ==
  ASSUME NEW s, NEW h, NEW r, Ready(s, h, r)
  PROVE  Onward(s, Loadout(s, h, r).store)
BY OnwardSelf, OnwardWritten DEF Ready, Sound, Loadout

\* The spare magazines written back.
LEMMA OnwardWriteBack ==
  ASSUME NEW g, g = [store |-> g.store, hand |-> g.hand, synced |-> g.synced],
         InStep(g.store, g.hand, g.synced)
  PROVE  Onward(g.store, write_back_weapon_states(g).store)
<1> DEFINE s == g.store
           i == g.hand.id
           t == IF i = 0 THEN s ELSE set_portable_uint32(s, i, "reserve", g.hand.reserve)
<1>1. Sound(s) /\ Shaped(s) /\ HandOK(s, g.hand) BY DEF InStep, Sound
<1>2. write_back_weapon_states(g) = [g EXCEPT !.store = t, !.synced = t.revision["arms"]]
  BY DEF write_back_weapon_states
<1>3. write_back_weapon_states(g).store = t
  <2> HIDE DEF t
  <2> QED BY <1>2
<1>4. Onward(s, t)
  <2>1. CASE i = 0
    BY <1>1, <2>1, OnwardSelf
  <2>2. CASE i # 0
    <3>1. t = set_portable_uint32(s, i, "reserve", g.hand.reserve) BY <2>2
    <3>2. Live(s, i) /\ s.items[i].template \in Weapons /\ g.hand.reserve \in Nat
      BY <1>1, <2>2 DEF HandOK
    <3> DEFINE v == g.hand.reserve
    <3> HIDE DEF t, s, i, v
    <3>3. Onward(s, set_portable_uint32(s, i, "reserve", v))
      BY <1>1, <3>2, OnwardState DEF v
    <3> QED BY <3>1, <3>3 DEF v
  <2> QED BY <2>1, <2>2
<1> QED BY <1>3, <1>4

\* Nothing that was not in the stock comes into it.
LEMMA EbbsIs ==
  ASSUME NEW s, NEW t, Sound(s), Sound(t),
         \A j \in Ids : \A k \in 1..Capacity["stock"] :
           t.items[j].at = InSlot("stock", k) => s.items[j].at = InSlot("stock", k)
  PROVE  Ebbs(s, t)
BY ItemStoreAssumption, SlotIn DEF Ebbs, Sound, SlotsAgree

\* Over two steps,
LEMMA EbbsTrans ==
  ASSUME NEW s, NEW t, NEW u, Ebbs(s, t), Ebbs(t, u)
  PROVE  Ebbs(s, u)
BY DEF Ebbs

\* and with the slots as they are.
LEMMA EbbsSame ==
  ASSUME NEW s, NEW t, t.slots = s.slots
  PROVE  Ebbs(s, t)
BY DEF Ebbs

\* Nothing comes into the stock when an item is put down,
LEMMA EbbsOntoProp ==
  ASSUME NEW s, Sound(s), NEW i, Live(s, i), NEW mode \in Modes
  PROVE  Ebbs(s, move_to_world(spawn_prop(s), i, s.nextProp, mode))
<1> DEFINE t == move_to_world(spawn_prop(s), i, s.nextProp, mode)
           x == Moved(s.items[i], OnProp(s.nextProp, mode))
<1>1. Safe(s, t) /\ t.items = [s.items EXCEPT ![i] = x]
  BY OntoPropSafe
<1>2. x.at.kind = "world" BY PlaceKinds DEF Moved, OnProp
<1> HIDE DEF t, x
<1>3. i \in Ids /\ Shaped(s) BY DEF Live, Sound
<1>4. \A j \in Ids : t.items[j] = IF j = i THEN x ELSE s.items[j] BY <1>1, <1>3 DEF Shaped
<1>5. \A k : InSlot("stock", k).kind = "inventory" BY DEF InSlot
<1>6. Ebbs(s, t)
  BY <1>1, <1>2, <1>4, <1>5, EbbsIs DEF Safe
<1> QED BY <1>6 DEF t

\* or put away,
LEMMA EbbsTaken ==
  ASSUME NEW s, Sound(s), NEW i, InWorld(s, i), NEW c \in Containers, c # "stock",
         NEW t \in transfer_world_to_inventory(s, i, c)
  PROVE  Ebbs(s, t)
<1> DEFINE q == s.items[i].quantity
           p == Poured(s, i, c, q)
           u == p.store
           less == [u EXCEPT !.items[i].quantity = p.left]
           k == find_empty_slot(s, c, s.items[i].template)
           y == Lessened(s.items[i], p.left)
<1>1. Live(s, i) /\ i \in Ids /\ Shaped(s) /\ s.items[i].at.kind = "world"
  BY DEF Live, InWorld, Sound
<1>2. q \in Nat /\ IsItem(s.items[i]) /\ "stock" \in Containers
  BY <1>1, LiveMade, ItemStoreAssumption
<1>3. PourInv(s, i, q, p) BY <1>1, <1>2, PouredIs
<1>4. \/ p.left = 0 /\ t = terminate(less, i)
      \/ p.left # 0 /\ k # 0 /\ t = Put(less, i, c, k)
  BY DEF transfer_world_to_inventory
<1> HIDE DEF p
<1>5. /\ Shaped(u) /\ u.items[i] = s.items[i] /\ u.slots = s.slots /\ p.left \in Nat
  BY <1>2, <1>3 DEF PourInv, Sound
<1> HIDE DEF q, u
<1>6. /\ Shaped(less) /\ less.items = [u.items EXCEPT ![i] = y] /\ less.slots = u.slots
  <2> HIDE DEF y
  <2> QED BY <1>1, <1>5, QuantityIs DEF y
<1>7. y.at = s.items[i].at BY <1>2, <1>5, LessenedIs
<1> HIDE DEF less, y
<1>8. less.items[i] = y BY <1>1, <1>5, <1>6 DEF Shaped
<1>9. CASE p.left = 0 /\ t = terminate(less, i)
  <2>1. Live(less, i) BY <1>1, <1>7, <1>8 DEF Live
  <2>2. \A n \in 1..Capacity["stock"] :
          t.slots["stock"][n] = IF less.items[i].at = InSlot("stock", n) THEN 0
                                ELSE less.slots["stock"][n]
    <3>0. Shaped(less) /\ i \in Ids /\ Live(less, i) BY <1>1, <1>6, <2>1
    <3>1. LET v == terminate(less, i)
          IN  /\ Shaped(v) /\ Beside(less, v)
              /\ v.items = [less.items EXCEPT ![i] = Ended(less.items[i])]
              /\ \A d \in Containers : \A n \in 1..Capacity[d] :
                   v.slots[d][n] = IF less.items[i].at = InSlot(d, n) THEN 0 ELSE less.slots[d][n]
              /\ Ahead(less, v)
      BY <3>0, TerminateIs
    <3> QED BY <1>2, <1>9, <3>1
  <2>3. \A n \in 1..Capacity["stock"] : t.slots["stock"][n] \in {0, less.slots["stock"][n]}
    BY <2>2
  <2> QED BY <1>5, <1>6, <2>3 DEF Ebbs
<1>10. CASE p.left # 0 /\ k # 0 /\ t = Put(less, i, c, k)
  <2>1. k \in 1..Capacity[c] BY <1>1, <1>10, SlotFree
  <2> HIDE DEF k
  <2>2. LET v == Put(less, i, c, k)
            x == [less.items[i] EXCEPT !.at = InSlot(c, k)]
        IN  /\ Shaped(v) /\ Beside(less, v) /\ v.items = [less.items EXCEPT ![i] = x]
            /\ \A d \in Containers : \A n \in 1..Capacity[d] :
                 v.slots[d][n] = IF d = c /\ n = k THEN i ELSE less.slots[d][n]
            /\ Ahead(less, v)
    BY <1>1, <1>6, <2>1, PutIs
  <2>3. \A n \in 1..Capacity["stock"] : t.slots["stock"][n] = less.slots["stock"][n]
    BY <1>2, <1>10, <2>2
  <2> QED BY <1>5, <1>6, <2>3 DEF Ebbs
<1> QED BY <1>4, <1>9, <1>10

\* or when part of a stack is taken elsewhere
LEMMA EbbsPart ==
  ASSUME NEW s, Sound(s), s.nextItem \in Ids, NEW i, InInventory(s, i),
         NEW q \in Nat \ {0}, q < s.items[i].quantity, NEW c \in Containers, c # "stock",
         NEW t \in transfer_to_container(s, i, q, c)
  PROVE  Ebbs(s, t)
<1> DEFINE h == s.items[i].quantity
           tm == s.items[i].template
           p == Poured(s, i, c, q)
           u == p.store
           rest == p.left
           k == find_empty_slot(s, c, tm)
           less == SetQuantity(u, i, h - q)
           used == s.items[i].used
           state == s.items[i].state
           made == Made(less, tm, rest, used, state)
<1>1. Live(s, i) /\ i \in Ids /\ Shaped(s) /\ "stock" \in Containers
  BY ItemStoreAssumption DEF Live, InInventory, Sound
<1>2. h \in Nat /\ IsItem(s.items[i]) /\ tm \in Templates BY <1>1, LiveMade
<1>3. PourInv(s, i, q, p) BY <1>1, PouredIs
<1>4. rest \in Nat BY <1>3 DEF PourInv
<1>5. q # h /\ q \in Nat /\ h - q \in Nat BY <1>2
<1>6. \/ rest = 0 /\ t = less
      \/ rest # 0 /\ k # 0 /\ t = Put(made, s.nextItem, c, k)
  <2>1. rest > 0 <=> rest # 0 BY <1>4
  <2>2. t \in (CASE rest = 0 /\ q = h -> {terminate(u, i)}
       [] rest = 0 /\ ~(q = h) -> {less}
       [] rest > 0 /\ k = 0 -> {}
       [] rest > 0 /\ k # 0 /\ q = h ->
            {Put([remove_from_inventory(u, i) EXCEPT !.items[i].quantity = rest], i, c, k)}
       [] OTHER -> {Put(made, s.nextItem, c, k)})
    BY DEF transfer_to_container
  <2> HIDE DEF h, tm, p, u, rest, k, less, made
  <2> QED BY <1>5, <2>1, <2>2
<1>7. Shaped(u) /\ u.slots = s.slots /\ u.nextItem = s.nextItem
  BY <1>3 DEF PourInv, Sound, Beside
<1> HIDE DEF p, u
<1>8. Shaped(less) /\ less.slots = s.slots /\ less.nextItem = s.nextItem
  <2> HIDE DEF h
  <2>1. LET v == SetQuantity(u, i, h - q)
            x == [u.items[i] EXCEPT !.quantity = h - q]
        IN  /\ Shaped(v) /\ Beside(u, v) /\ v.items = [u.items EXCEPT ![i] = x]
            /\ v.slots = u.slots /\ Ahead(u, v)
    BY <1>1, <1>5, <1>7, SetQuantityIs
  <2> QED BY <1>7, <2>1 DEF Beside
<1>9. CASE rest = 0 /\ t = less BY <1>8, <1>9, EbbsSame
<1>10. CASE rest # 0 /\ k # 0 /\ t = Put(made, s.nextItem, c, k)
  <2>1. k \in 1..Capacity[c] BY <1>1, <1>10, SlotFree
  <2>2. used \in Nat /\ state \in States /\ rest \in Nat /\ tm \in Templates
    BY <1>2, <1>4 DEF IsItem
  <2> HIDE DEF less, k, rest, used, state, tm
  <2>3. Shaped(made) /\ made.slots = s.slots
    <3>1. Shaped(less) /\ less.nextItem \in Ids BY <1>8
    <3>2. LET a == Made(less, tm, rest, used, state)
              b == [template |-> tm, quantity |-> rest, used |-> used, state |-> state,
                    at |-> Nowhere]
          IN  /\ Shaped(a) /\ IsItem(b) /\ a.items = [less.items EXCEPT ![less.nextItem] = b]
              /\ a.slots = less.slots /\ a.open = less.open
              /\ a.revision = less.revision /\ a.nextItem = less.nextItem + 1
              /\ a.nextProp = less.nextProp /\ a.props = less.props
      BY <2>2, <3>1, MadeIs
    <3> QED BY <1>8, <3>2
  <2> HIDE DEF made
  <2> DEFINE n == s.nextItem
  <2>4. LET v == Put(made, n, c, k)
            x == [made.items[n] EXCEPT !.at = InSlot(c, k)]
        IN  /\ Shaped(v) /\ Beside(made, v) /\ v.items = [made.items EXCEPT ![n] = x]
            /\ \A d \in Containers : \A m \in 1..Capacity[d] :
                 v.slots[d][m] = IF d = c /\ m = k THEN n ELSE made.slots[d][m]
            /\ Ahead(made, v)
    BY <2>1, <2>3, PutIs
  <2>5. \A m \in 1..Capacity["stock"] : t.slots["stock"][m] = s.slots["stock"][m]
    BY <1>1, <1>10, <2>3, <2>4
  <2> QED BY <2>5 DEF Ebbs
<1> QED BY <1>6, <1>9, <1>10

\* or put down.
LEMMA EbbsSplit ==
  ASSUME NEW s, Sound(s), s.nextItem \in Ids, NEW i, InInventory(s, i),
         NEW q \in Nat \ {0}, q < s.items[i].quantity, NEW mode \in Modes
  PROVE  Ebbs(s, split_to_world(spawn_prop(s), i, q, s.nextProp, mode))
<1> DEFINE n == s.nextItem
           p == s.nextProp
           u == spawn_prop(s)
           h == s.items[i].quantity
           tm == s.items[i].template
           state == s.items[i].state
           v == Made(u, tm, q, 0, state)
           at == OnProp(p, mode)
           w == [v EXCEPT !.items[n].at = at]
           t == SetQuantity(w, i, h - q)
<1>1. Live(s, i) /\ i \in Ids /\ Shaped(s) /\ p \in Nat
  BY DEF Live, InInventory, Sound, Shaped
<1>2. h \in Nat /\ IsItem(s.items[i]) /\ tm \in Templates BY <1>1, LiveMade
<1>3. state \in States /\ h - q \in Nat BY <1>2 DEF IsItem
<1>4. IsPlace(at) BY <1>1 DEF IsPlace
<1>5. Shaped(u) /\ u.items = s.items /\ u.slots = s.slots /\ u.nextItem = n BY <1>1, SpawnIs
<1> HIDE DEF u
<1>6. split_to_world(u, i, q, p, mode) = t BY <1>5 DEF split_to_world
<1>7. Shaped(v) /\ v.slots = s.slots
  <2> DEFINE e == 0
  <2>1. e \in Nat /\ q \in Nat /\ u.nextItem \in Ids BY <1>5
  <2> HIDE DEF e, tm, state
  <2>2. LET a == Made(u, tm, q, e, state)
            b == [template |-> tm, quantity |-> q, used |-> e, state |-> state,
                  at |-> Nowhere]
        IN  /\ Shaped(a) /\ IsItem(b) /\ a.items = [u.items EXCEPT ![u.nextItem] = b]
            /\ a.slots = u.slots /\ a.open = u.open
            /\ a.revision = u.revision /\ a.nextItem = u.nextItem + 1
            /\ a.nextProp = u.nextProp /\ a.props = u.props
    BY <1>2, <1>3, <1>5, <2>1, MadeIs
  <2> QED BY <1>5, <2>2 DEF e
<1>8. n \in Ids OBVIOUS
<1> HIDE DEF v, at, n, h, tm, state
<1>9. Shaped(w) /\ w.slots = s.slots
  <2>1. LET a == [v EXCEPT !.items[n].at = at]
            x == [v.items[n] EXCEPT !.at = at]
        IN  /\ Shaped(a) /\ Beside(v, a) /\ a.items = [v.items EXCEPT ![n] = x]
            /\ IsItem(x) /\ a.slots = v.slots /\ a.revision = v.revision
    BY <1>4, <1>7, <1>8, AtIs
  <2> QED BY <1>7, <2>1
<1> HIDE DEF w
<1>10. t.slots = s.slots BY <1>1, <1>3, <1>9, SetQuantityIs
<1> HIDE DEF t
<1>11. Ebbs(s, t) BY <1>10, EbbsSame
<1> QED BY <1>6, <1>11 DEF u, p

-----------------------------------------------------------------------------
(* What a store that had nothing taken whole recalls.                      *)

\* As long as nothing left the stock whole, what came from it is in it or nowhere, and
\* what every container showed is known.
Told(s) ==
  /\ s.nextItem > Len(StockContents)
  /\ \A i \in Ids : InWorld(s, i) => i > Len(StockContents)
  /\ \A c \in Containers : \E h : Recalls(s, c, h)

\* What the player has of its own did not come from the stock.
LEMMA ToldOwn ==
  ASSUME NEW s, Sound(s), Told(s), NEW i \in Ids, NEW c \in {"own", "arms"},
         NEW k \in 1..Capacity[c], s.slots[c][k] = i
  PROVE  i > Len(StockContents)
<1>1. c \in Containers /\ c # "stock" /\ i # 0 BY ItemStoreAssumption DEF Ids
<1>2. PICK h : Recalls(s, c, h) BY <1>1 DEF Told
<1>3. Shaped(s) /\ s.revision[c] \in Nat BY <1>1 DEF Sound, Shaped
<1>4. Proper(s, c, Shown(s, c))
  <2>1. s.revision[c] \in 0..s.revision[c] BY <1>3
  <2> QED BY <1>2, <2>1 DEF Recalls
<1>5. Shown(s, c)[k].id = i BY <1>1, <1>3, ShownIds
<1>6. Shown(s, c)[k] # Nothing BY <1>1, <1>5 DEF Nothing
<1>7. Genuine(s, c, Shown(s, c)[k]) BY <1>4, <1>6 DEF Proper
<1> DEFINE e == Shown(s, c)[k]
<1>8. Home(i, e.template) = c BY <1>5, <1>7 DEF Genuine
<1>9. ~(i <= Len(StockContents)) BY <1>1, <1>8 DEF Home
<1>10. Len(StockContents) \in Nat /\ i \in Nat BY GameplayRequestsAssumption DEF Ids
<1> QED BY <1>9, <1>10

\* Whoever goes on from such a store is one.
LEMMA ToldOnward ==
  ASSUME NEW s, NEW t, Shaped(s), Shaped(t), Told(s), Onward(s, t)
  PROVE  Told(t)
BY GameplayRequestsAssumption DEF Shaped, Onward, Grows, Lasts, Told, Ids, Stays

\* A step of such a store goes on from it; of any other, nothing comes into the stock.
Flows(s, t) == Ebbs(s, t) /\ (Told(s) => Onward(s, t))

\* What goes on flows,
LEMMA OnwardFlows ==
  ASSUME NEW s, NEW t, Onward(s, t)
  PROVE  Flows(s, t)
BY DEF Flows, Onward, Stays

\* and over two steps.
LEMMA FlowsTrans ==
  ASSUME NEW s, NEW t, NEW u, Shaped(s), Shaped(t), Shaped(u), Flows(s, t), Flows(t, u)
  PROVE  Flows(s, u)
BY EbbsTrans, ToldOnward, OnwardTrans DEF Flows

\* The player's weapon put down,
LEMMA PutAwayFlows ==
  ASSUME NEW s, Sound(s), s.slots["arms"][1] # 0
  PROVE  Flows(s, move_to_world(spawn_prop(s), s.slots["arms"][1], s.nextProp, "placed"))
<1> DEFINE i == s.slots["arms"][1]
           mode == "placed"
           k == 1
<1>1. i \in Ids /\ k \in 1..Capacity["arms"] /\ "arms" \in Containers BY ArmsIs
<1>2. s.items[i].at = InSlot("arms", 1) BY <1>1 DEF Sound, SlotsAgree
<1>3. Live(s, i) BY <1>1, <1>2, PlaceKinds DEF Live
<1>4. mode \in Modes BY DEF Modes
<1>5. s.slots["arms"][k] = i OBVIOUS
<1>6. Told(s) => i > Len(StockContents)
  <2> HIDE DEF i, k
  <2> QED BY <1>1, <1>5, ToldOwn
<1> HIDE DEF i, mode
<1>7. Ebbs(s, move_to_world(spawn_prop(s), i, s.nextProp, mode)) BY <1>3, <1>4, EbbsOntoProp
<1>8. Told(s) => Onward(s, move_to_world(spawn_prop(s), i, s.nextProp, mode))
  BY <1>3, <1>4, <1>6, OnwardOntoProp
<1> QED BY <1>7, <1>8 DEF Flows, i, mode

\* Room made for a weapon.
LEMMA MadeRoomFlows ==
  ASSUME NEW s, Sound(s), NEW tm
  PROVE  Flows(s, MadeRoom(s, tm))
BY OnwardSelf, OnwardFlows, PutAwayFlows DEF Sound, MadeRoom

\* another taken up,
LEMMA TakenFlows ==
  ASSUME NEW s, Sound(s), NEW i, InWorld(s, i),
         NEW t \in transfer_world_to_inventory(s, i, Own(s.items[i].template))
  PROVE  Flows(s, t)
<1> DEFINE c == Own(s.items[i].template)
<1>1. c \in Containers /\ c # "stock" /\ c \in s.open BY ItemStoreAssumption DEF Own, Sound
<1>2. Ebbs(s, t)
  <2> HIDE DEF c
  <2>1. t \in transfer_world_to_inventory(s, i, c) BY DEF c
  <2> QED BY <1>1, <2>1, EbbsTaken
<1>3. Told(s) => i > Len(StockContents) BY DEF Told, InWorld
<1>4. Told(s) => Onward(s, t) BY <1>1, <1>3, OnwardTaken
<1> QED BY <1>2, <1>4 DEF Flows

\* both in a pickup,
LEMMA PickupFlows ==
  ASSUME NEW s, Sound(s), NEW i, NEW t \in Pickup(s, i)
  PROVE  Flows(s, t)
<1> DEFINE p == s.items[i].at.prop
           tm == s.items[i].template
           c == Own(tm)
           u == MadeRoom(s, tm)
<1>1. InWorld(s, i) /\ \E v \in transfer_world_to_inventory(u, i, c) : t = destroy_prop(v, p)
  BY DEF Pickup
<1>2. PICK v \in transfer_world_to_inventory(u, i, c) : t = destroy_prop(v, p) BY <1>1
<1>3. i \in Ids /\ Shaped(s)
  BY <1>1 DEF InWorld, Sound
<1>4. /\ Safe(s, u) /\ \A j \in Ids : InWorld(s, j) => u.items[j] = s.items[j]
  BY MadeRoomSafe
<1>5. Sound(u) /\ Shaped(u) /\ u.items[i] = s.items[i] /\ InWorld(u, i)
  BY <1>1, <1>3, <1>4 DEF Safe, InWorld, Sound
<1>6. c \in Containers /\ c \in u.open
  BY <1>4, ItemStoreAssumption DEF Own, Safe, Sound
<1>7. Flows(s, u) BY MadeRoomFlows
<1> HIDE DEF u
<1>8. Flows(u, v) BY <1>5, TakenFlows
<1> HIDE DEF c
<1>9. /\ Safe(u, v) /\ v.items[i].at.kind # "world"
      /\ \A j \in Ids : j # i => v.items[j].at = u.items[j].at
  BY <1>5, <1>6, TransferWorldSafe
<1>10. \A j \in Ids : ~(InWorld(v, j) /\ v.items[j].at.prop = p)
  <2> SUFFICES ASSUME NEW j \in Ids, InWorld(v, j), v.items[j].at.prop = p PROVE FALSE
    OBVIOUS
  <2>1. j # i BY <1>9 DEF InWorld
  <2>2. InWorld(u, j) /\ u.items[j].at.prop = p BY <1>9, <2>1 DEF InWorld
  <2>3. u.items[i].at.prop = p BY <1>5
  <2> HIDE DEF p
  <2> QED BY <1>3, <1>5, <2>1, <2>2, <2>3 DEF Sound, PropsAgree
<1>11. Sound(v) /\ Shaped(v) BY <1>9 DEF Safe, Sound
<1> HIDE DEF p
<1>12. Onward(v, t) BY <1>2, <1>10, <1>11, OnwardPropGone
<1>13. Shaped(t)
  BY <1>2, <1>10, <1>11, PropGone DEF Safe, Sound
<1>14. Flows(v, t) BY <1>12, OnwardFlows
<1>15. Flows(s, v) BY <1>3, <1>5, <1>7, <1>8, <1>11, FlowsTrans
<1> QED BY <1>3, <1>11, <1>13, <1>14, <1>15, FlowsTrans

\* and what is in hand put down.
LEMMA PutDownFlows ==
  ASSUME NEW s, Sound(s), s.nextItem \in Ids, NEW i, NEW q \in Nat \ {0}, NEW mode \in Modes, NEW t \in PutDown(s, i, q, mode)
  PROVE  Flows(s, t)
<1>1. Shaped(s) /\ SlotsAgree(s) BY DEF Sound
<1>2. CASE InWorld(s, i)
  BY <1>1, <1>2, OnwardMode, OnwardFlows DEF PutDown, InWorld
<1>3. CASE ~InWorld(s, i)
  <2>1. /\ OwnedBy(s, i) /\ ~(q > s.items[i].quantity)
        /\ t \in IF q = s.items[i].quantity
                 THEN {move_to_world(spawn_prop(s), i, s.nextProp, mode)}
                 ELSE {split_to_world(spawn_prop(s), i, q, s.nextProp, mode)}
    BY <1>3 DEF PutDown
  <2>2. InInventory(s, i) /\ s.items[i].at.container \in {"own", "arms"} BY <2>1 DEF OwnedBy
  <2>3. Live(s, i) /\ i \in Ids BY <2>2 DEF InInventory, Live
  <2>4. s.items[i].quantity \in Nat BY <2>3, LiveMade
  <2>5. Told(s) => i > Len(StockContents)
    <3> DEFINE at == s.items[i].at
    <3>2. at.container \in Containers /\ at.slot \in 1..Capacity[at.container]
          /\ at = InSlot(at.container, at.slot)
      BY <1>1, <2>2, <2>3, WhereItIs
    <3>3. s.slots[at.container][at.slot] = i BY <1>1, <2>3, <3>2 DEF SlotsAgree
    <3> HIDE DEF at
    <3>4. at.container \in {"own", "arms"} BY <2>2 DEF at
    <3> QED BY <2>3, <3>2, <3>3, <3>4, ToldOwn
  <2>6. CASE q = s.items[i].quantity
    BY <2>1, <2>3, <2>5, <2>6, EbbsOntoProp, OnwardOntoProp DEF Flows
  <2>7. CASE q # s.items[i].quantity
    BY <2>1, <2>2, <2>4, <2>7, EbbsSplit, OnwardSplit DEF Told, Flows
  <2> QED BY <2>6, <2>7
<1> QED BY <1>2, <1>3

-----------------------------------------------------------------------------
(* The requests, the loadout and the steps of the server.                  *)

\* A stack taken from the stock, or part of it: what is taken whole is in the stock no more.
LEMMA TransferFlows ==
  ASSUME InStep(store, hand, synced), store.nextItem \in Ids, NEW i, NEW q \in Nat \ {0},
         NEW g \in Transfer(store, i, q)
  PROVE  \/ Flows(store, g.store)
         \/ /\ Ebbs(store, g.store)
            /\ \A k \in 1..Capacity["stock"] : g.store.slots["stock"][k] # i
<1> DEFINE s == store
           tm == s.items[i].template
           c == Own(tm)
           held == s.slots["arms"][1]
           g0 == [store |-> s, hand |-> hand, synced |-> synced]
           cl == IF tm \in Weapons /\ held # 0 THEN server_drop_inventory_item(g0, held) ELSE g0
<1>1. /\ InInventory(s, i) /\ s.items[i].at.container = "stock" /\ q <= s.items[i].quantity
      /\ g \in {[cl EXCEPT !.store = u] : u \in transfer_to_container(cl.store, i, q, c)}
      /\ s.items[i].quantity \in Nat
  BY LiveMade DEF Transfer, InStep, InInventory, Live
<1>2. PICK u \in transfer_to_container(cl.store, i, q, c) : g = [cl EXCEPT !.store = u]
  BY <1>1
<1>3. Sound(s) /\ Shaped(s) /\ i \in Ids BY <1>1 DEF InStep, Sound, InInventory
<1>4. c \in Containers /\ c \in s.open /\ c # "stock"
  BY <1>3, ItemStoreAssumption DEF Own, Sound
<1>5. s.nextItem \in Nat BY <1>3 DEF Shaped
<1>6. /\ cl = [store |-> cl.store, hand |-> cl.hand, synced |-> cl.synced]
      /\ Sound(cl.store) /\ cl.store.nextItem = s.nextItem /\ cl.store.open = s.open
      /\ cl.store.items[i].at = s.items[i].at /\ cl.store.items[i].quantity = s.items[i].quantity
      /\ cl.store.items[i].template = s.items[i].template
      /\ Flows(s, cl.store)
  <2>1. CASE tm \in Weapons /\ held # 0
    <3> DEFINE d == move_to_world(spawn_prop(s), held, s.nextProp, "placed")
    <3>1. cl = Loadout(d, hand, synced) BY <2>1 DEF server_drop_inventory_item
    <3>2. held \in Ids /\ s.items[held].at = InSlot("arms", 1)
      BY <1>3, <2>1, ArmsIs DEF Sound, SlotsAgree
    <3>3. Live(s, held) /\ held # i /\ "placed" \in Modes
      BY <1>1, <3>2, PlaceKinds DEF Live, Modes
    <3>4. LET a == move_to_world(spawn_prop(s), held, s.nextProp, "placed")
          IN  /\ Safe(s, a) /\ a.nextItem = s.nextItem /\ a.nextProp = s.nextProp + 1
              /\ a.items = [s.items EXCEPT ![held] = Moved(s.items[held], OnProp(s.nextProp, "placed"))]
      <4> DEFINE mode == "placed"
      <4>1. mode \in Modes BY <3>3
      <4> HIDE DEF mode, held, s
      <4>2. LET a == move_to_world(spawn_prop(s), held, s.nextProp, mode)
            IN  /\ Safe(s, a) /\ a.nextItem = s.nextItem /\ a.nextProp = s.nextProp + 1
                /\ a.items = [s.items EXCEPT ![held] = Moved(s.items[held], OnProp(s.nextProp, mode))]
        BY <1>3, <3>3, <4>1, OntoPropSafe
      <4> QED BY <4>2 DEF mode
    <3>5. Flows(s, d) BY <1>3, <2>1, PutAwayFlows
    <3> HIDE DEF held
    <3>6. /\ Safe(s, d) /\ d.nextItem = s.nextItem /\ d.items[i] = s.items[i]
      BY <1>3, <3>3, <3>4 DEF Shaped
    <3> HIDE DEF d, cl
    <3>7. Followed(d, hand, cl) /\ Onward(d, cl.store)
      BY <3>1, <3>6, ReadyAfter, LoadoutFollows, OnwardLoadout DEF Safe
    <3>8. Flows(s, cl.store)
      BY <1>3, <3>5, <3>6, <3>7, OnwardFlows, FlowsTrans DEF Followed, InStep, Safe, Sound
    <3> HIDE DEF s
    <3>9. /\ cl.store.items[i].at = s.items[i].at /\ cl.store.items[i].quantity = s.items[i].quantity
          /\ cl.store.items[i].template = s.items[i].template
      BY <1>3, <3>6, <3>7 DEF Followed
    <3>10. cl.store.nextItem = s.nextItem /\ cl.store.open = s.open
      BY <3>6, <3>7 DEF Followed, Beside, Safe
    <3> QED BY <3>7, <3>8, <3>9, <3>10 DEF Followed, InStep
  <2>2. CASE ~(tm \in Weapons /\ held # 0)
    <3>1. cl = g0 BY <2>2
    <3> HIDE DEF cl
    <3>2. Flows(s, s) BY <1>3, OnwardSelf, OnwardFlows
    <3> QED BY <1>3, <3>1, <3>2
  <2> QED BY <2>1, <2>2
<1>7. c = Own(cl.store.items[i].template) BY <1>6
<1> HIDE DEF cl, s, c
<1>8. InInventory(cl.store, i) /\ cl.store.nextItem \in Ids /\ c \in cl.store.open
  BY <1>1, <1>3, <1>4, <1>6 DEF InInventory, s
<1>9. g.store = u BY <1>2, <1>6
<1>10. CASE q < s.items[i].quantity
  <2>1. q < cl.store.items[i].quantity BY <1>6, <1>10
  <2>2. Told(cl.store) => Onward(cl.store, u)
    BY <1>2, <1>6, <1>7, <1>8, <2>1, OnwardPart DEF Told
  <2>3. Ebbs(cl.store, u) BY <1>2, <1>4, <1>6, <1>8, <2>1, EbbsPart
  <2>4. Safe(cl.store, u)
    BY <1>1, <1>2, <1>4, <1>6, <1>8, TransferSafe
  <2>5. Shaped(cl.store) /\ Shaped(u) BY <1>6, <2>4 DEF Safe, Sound
  <2>6. Flows(cl.store, u) BY <2>2, <2>3 DEF Flows
  <2> QED BY <1>3, <1>6, <1>9, <2>6, <2>5, FlowsTrans DEF s
<1>11. CASE q = s.items[i].quantity
  BY <1>2, <1>4, <1>6, <1>8, <1>9, <1>11, WholeIsGone, EbbsTrans DEF Flows, s
<1> QED BY <1>1, <1>10, <1>11

\* What a committed request leads to.
Ebbing(s, t, r) ==
  \/ Flows(s, t)
  \/ /\ r.action = "Transfer" /\ Ebbs(s, t)
     /\ \A k \in 1..Capacity["stock"] : t.slots["stock"][k] # r.item

\* A transfer committed.
LEMMA CommittedFlows ==
  ASSUME InStep(store, hand, synced), Bounded, NEW r \in Requests, NEW g \in Committed(r)
  PROVE  Ebbing(store, g.store, r)
<1> DEFINE i == r.item
           q == r.quantity
           Plain(S) == {[store |-> x, hand |-> hand, synced |-> synced] : x \in S}
<1>1. i \in Ids /\ q \in Nat \ {0} /\ r.action \in Asks BY DEF Requests
<1>2. Sound(store) /\ Shaped(store) BY DEF InStep, Sound
<1>3. store.nextItem \in Ids
  BY <1>2 DEF Bounded, Sound, Numbered, Shaped, Ids
<1>4. CASE r.action = "Consume"
  BY <1>2, <1>4, OnwardConsumed, OnwardFlows DEF Committed, Consume, OwnedBy, InInventory,
    Live, Ebbing
<1>5. CASE r.action = "Pickup"
  BY <1>2, <1>5, PickupFlows DEF Committed, Ebbing
<1>6. CASE r.action = "Carry"
  <2>1. g \in Plain(Carry(store, i)) BY <1>6 DEF Committed
  <2>2. PICK t \in Carry(store, i) : g = [store |-> t, hand |-> hand, synced |-> synced]
    BY <2>1
  <2>3. InWorld(store, i) /\ t = set_world_mode(store, i, "carried") BY <2>2 DEF Carry
  <2> DEFINE mode == "carried"
  <2>4. mode \in Modes /\ SlotsAgree(store) BY <1>2 DEF Modes, Sound
  <2> HIDE DEF mode
  <2>5. Onward(store, set_world_mode(store, i, mode)) BY <1>1, <1>2, <2>3, <2>4, OnwardMode
  <2>6. Flows(store, t) BY <2>3, <2>5, OnwardFlows DEF mode
  <2>7. g.store = t BY <2>2
  <2> QED BY <2>6, <2>7 DEF Ebbing
<1>7. CASE r.action \in {"Place", "Throw"}
  <2> DEFINE mode == IF r.action = "Place" THEN "placed" ELSE "flight"
  <2>1. g \in Plain(PutDown(store, i, q, mode)) BY <1>7 DEF Committed, Place, Throw
  <2>2. mode \in Modes BY DEF Modes
  <2> HIDE DEF mode
  <2>3. PICK t \in PutDown(store, i, q, mode) :
          g = [store |-> t, hand |-> hand, synced |-> synced]
    BY <2>1
  <2>4. Flows(store, t) BY <1>1, <1>2, <1>3, <2>2, <2>3, PutDownFlows
  <2>5. g.store = t BY <2>3
  <2> QED BY <2>4, <2>5 DEF Ebbing
<1>8. CASE r.action = "Transfer"
  BY <1>1, <1>3, <1>8, TransferFlows DEF Committed, Ebbing
<1> QED BY <1>1, <1>4, <1>5, <1>6, <1>7, <1>8 DEF Asks

\* What a step of the server does to its store, with what it decided.
Onflow == Flows(store, store') \/ (Ebbs(store, store') /\ TookWhole')

\* A request decided.
LEMMA DecideFlows ==
  ASSUME InStep(store, hand, synced), NEW id \in RequestIds, asked[id] \in Requests, asked' = asked,
         processed \in [RequestIds -> Outcomes \cup {"none"}], Decide(id, asked[id])
  PROVE  Onflow
<1> DEFINE r == asked[id]
<1>1. Ready(store, hand, synced)
  BY ArmsIs DEF InStep, Ready, Current
<1>2. CASE sync_weapon_loadouts(store)
  BY <1>1, <1>2, OnwardLoadout, OnwardFlows DEF sync_weapon_loadouts, Onflow
<1>3. CASE /\ Bounded
           /\ \E g \in Committed(r) :
                LET done == Loadout(g.store, g.hand, g.synced)
                IN store' = done.store /\ hand' = done.hand /\ synced' = done.synced
           /\ processed' = [processed EXCEPT ![id] = "committed"]
  <2>1. PICK g \in Committed(r) :
          LET done == Loadout(g.store, g.hand, g.synced)
          IN store' = done.store /\ hand' = done.hand /\ synced' = done.synced
    BY <1>3
  <2> DEFINE k == Loadout(g.store, g.hand, g.synced)
  <2>2. store' = k.store BY <2>1
  <2>3. Leaves(store, hand, g) /\ Ebbing(store, g.store, r)
    BY <1>3, CommittedLeaves, CommittedFlows
  <2>4. Followed(g.store, g.hand, k) /\ Onward(g.store, k.store)
    BY <2>3, LoadoutFollows, OnwardLoadout DEF Leaves
  <2> HIDE DEF k
  <2>5. Shaped(store) /\ Shaped(g.store) /\ Shaped(k.store)
    BY <2>3, <2>4 DEF Leaves, Ready, Followed, InStep, Sound
  <2>6. Flows(g.store, k.store) BY <2>4, OnwardFlows
  <2>7. CASE Flows(store, g.store)
    BY <2>2, <2>5, <2>6, <2>7, FlowsTrans DEF Onflow
  <2>8. CASE /\ r.action = "Transfer" /\ Ebbs(store, g.store)
             /\ \A n \in 1..Capacity["stock"] : g.store.slots["stock"][n] # r.item
    BY <1>3, <2>2, <2>4, <2>6, <2>8, EbbsTrans DEF Flows, Followed, TookWhole, Onflow
  <2> QED BY <2>3, <2>7, <2>8 DEF Ebbing
<1> QED BY <1>2, <1>3 DEF Decide

\* A tick goes on,
LEMMA TickFlows ==
  ASSUME InStep(store, hand, synced), Tick
  PROVE  Flows(store, store')
<1> DEFINE g == Loadout(store, hand, synced)
           k == write_back_weapon_states(g)
<1>1. Ready(store, hand, synced)
  BY ArmsIs DEF InStep, Ready, Current
<1>2. store' = k.store BY DEF Tick
<1>3. Followed(store, hand, g) /\ Onward(store, g.store) BY <1>1, LoadoutFollows, OnwardLoadout
<1> HIDE DEF g
<1>4. g = [store |-> g.store, hand |-> g.hand, synced |-> g.synced]
      /\ InStep(g.store, g.hand, g.synced)
  BY <1>3 DEF Followed
<1>5. Followed(g.store, g.hand, k) /\ Onward(g.store, k.store)
  BY <1>4, WriteBackFollows, OnwardWriteBack
<1> HIDE DEF k
<1>6. Shaped(store) /\ Shaped(g.store) /\ Shaped(k.store)
  BY <1>3, <1>5 DEF Followed, InStep, Sound
<1> QED BY <1>2, <1>3, <1>5, <1>6, OnwardTrans, OnwardFlows

\* a landing,
LEMMA LandFlows ==
  ASSUME InStep(store, hand, synced), Land
  PROVE  Flows(store, store')
<1>1. PICK i \in Ids : InWorld(store, i) /\ store' = set_world_mode(store, i, "placed")
  BY DEF Land
<1> DEFINE mode == "placed"
           t == set_world_mode(store, i, mode)
<1>2. mode \in Modes BY DEF Modes
<1>3. Shaped(store) /\ SlotsAgree(store) BY DEF InStep, Sound
<1>4. store' = t BY <1>1
<1> HIDE DEF mode
<1>5. Onward(store, t) BY <1>1, <1>2, <1>3, OnwardMode
<1> QED BY <1>4, <1>5, OnwardFlows

\* an entry,
LEMMA EnterFlows ==
  ASSUME InStep(store, hand, synced), enter_shelter
  PROVE  Flows(store, store')
BY OnwardSetDown, OnwardFlows DEF enter_shelter, InStep

\* t is s without container c.
Without(s, c, t) ==
  \E g : /\ Clears(g, s, c, Capacity[c])
         /\ t = [g[Capacity[c]] EXCEPT !.open = @ \ {c}, !.log[c] = <<>>]

\* the end of a container,
LEMMA OnwardDestroyed ==
  ASSUME NEW s, Sound(s), NEW c \in Containers, NEW t, Without(s, c, t)
  PROVE  Onward(s, t)
<1> DEFINE n == Capacity[c]
<1>1. PICK g : /\ Clears(g, s, c, n)
               /\ t = [g[n] EXCEPT !.open = @ \ {c}, !.log[c] = <<>>]
  BY DEF Without
<1>2. n \in Nat /\ n = Capacity[c] BY ItemStoreAssumption
<1> HIDE DEF n
<1> DEFINE Right(k) == ClearInv(s, c, k, g[k]) /\ Onward(s, g[k])
           T == {k \in 0..n : ~Right(k)}
<1>3. \A k \in 0..n : g[k] = IF k = 0 THEN s ELSE terminate(g[k - 1], s.slots[c][k])
  BY <1>1 DEF Clears
<1>4. Right(0)
  BY <1>2, <1>3, ClearStart, OnwardSelf DEF Sound
<1>5. ASSUME NEW k \in Nat, k + 1 <= n, Right(k) PROVE Right(k + 1)
  <2>1. k + 1 \in 1..Capacity[c] /\ k + 1 \in 0..n /\ k + 1 # 0 /\ (k + 1) - 1 = k BY <1>2, <1>5
  <2>2. g[k + 1] = terminate(g[k], s.slots[c][k + 1]) BY <1>3, <2>1
  <2>3. ClearInv(s, c, k, g[k]) /\ Onward(s, g[k]) BY <1>5
  <2> DEFINE u == g[k]
             i == s.slots[c][k + 1]
             v == terminate(u, i)
  <2>4. ClearInv(s, c, k, u) /\ Onward(s, u) BY <2>3
  <2> HIDE DEF u
  <2>5. ClearInv(s, c, k + 1, v) BY <2>1, <2>4, ClearStep
  <2>6. Shaped(u) /\ SlotsAgree(u) /\ Shaped(s) BY <2>4 DEF ClearInv, Sound
  <2>7. Onward(u, v)
    <3> HIDE DEF i
    <3> QED BY <2>6, OnwardTerminated
  <2> HIDE DEF v
  <2>8. Shaped(v) BY <2>5 DEF ClearInv, Sound
  <2>9. Onward(s, v) BY <2>4, <2>6, <2>7, <2>8, OnwardTrans
  <2>10. g[k + 1] = v BY <2>2 DEF u, v
  <2> QED BY <2>5, <2>9, <2>10
<1> HIDE DEF Right
<1>6. T = {}
  <2> SUFFICES ASSUME T # {} PROVE FALSE OBVIOUS
  <2>1. T \in SUBSET Nat OBVIOUS
  <2>2. PICK m \in T : \A k \in T : m <= k BY <2>1, LeastNat
  <2>3. m \in 0..n /\ ~Right(m) OBVIOUS
  <2>4. m # 0 BY <1>4, <2>3
  <2>5. m - 1 \in Nat /\ (m - 1) + 1 = m /\ m - 1 \in 0..n /\ m - 1 < m /\ m <= n
    BY <1>2, <2>3, <2>4
  <2>6. Right(m - 1) BY <2>2, <2>5
  <2>7. Right((m - 1) + 1) BY <1>5, <2>5, <2>6
  <2> QED BY <2>3, <2>5, <2>7
<1>7. Right(n) BY <1>2, <1>6
<1> DEFINE u == g[n]
           P == u.open \ {c}
           v == [u EXCEPT !.open = P]
           l == [v.log EXCEPT ![c] = <<>>]
           w == [v EXCEPT !.log = l]
<1>8. ClearInv(s, c, n, u) /\ Onward(s, u) BY <1>7 DEF Right
<1>9. t = [u EXCEPT !.open = @ \ {c}, !.log[c] = <<>>] BY <1>1
<1> HIDE DEF u
<1>10. Shaped(u) /\ Shaped(s) BY <1>8 DEF ClearInv, Sound
<1>11. t = w
  <2>1. [u EXCEPT !.open = @ \ {c}, !.log[c] = <<>>] = [v EXCEPT !.log[c] = <<>>] OBVIOUS
  <2> HIDE DEF v
  <2>2. [v EXCEPT !.log[c] = <<>>] = w OBVIOUS
  <2> QED BY <1>9, <2>1, <2>2
<1>12. P \in SUBSET Containers /\ 0 \in Nat BY <1>10 DEF Shaped
<1> HIDE DEF P
<1>13. /\ Shaped(v) /\ v.items = u.items /\ v.slots = u.slots
       /\ v.revision = u.revision /\ v.nextItem = u.nextItem
  BY <1>10, <1>12, CountersShaped
<1>14. v.log = u.log BY <1>10, LogStays
<1> HIDE DEF v
<1>15. v.log = [d \in Containers |-> v.log[d]] /\ \A d \in Containers : Listed(v.log[d])
  BY <1>13 DEF Shaped
<1>16. l = [d \in Containers |-> l[d]] /\ \A d \in Containers : Listed(l[d])
  BY <1>15, NoneSilent DEF Silent
<1>17. \A d \in Containers : l[d] \in {u.log[d], <<>>} BY <1>14, <1>15
<1> HIDE DEF l
<1>18. /\ Shaped(w) /\ w.items = v.items /\ w.slots = v.slots /\ w.open = v.open
       /\ w.revision = v.revision /\ w.nextItem = v.nextItem
       /\ w.nextProp = v.nextProp /\ w.props = v.props
  <2>1. \A f : f = [d \in Containers |-> f[d]] /\ (\A d \in Containers : Listed(f[d])) =>
          LET x == [v EXCEPT !.log = f]
          IN  /\ Shaped(x) /\ x.items = v.items /\ x.slots = v.slots /\ x.open = v.open
              /\ x.revision = v.revision /\ x.nextItem = v.nextItem
              /\ x.nextProp = v.nextProp /\ x.props = v.props
    BY <1>12, <1>13, CountersShaped
  <2> QED BY <1>16, <2>1
<1>19. w.log = l
  BY <1>13 DEF Shaped
<1> HIDE DEF w
<1>20. w.items = u.items /\ w.slots = u.slots /\ w.revision = u.revision
       /\ w.nextItem = u.nextItem
  BY <1>13, <1>18
<1>21. u.nextItem >= u.nextItem BY <1>10 DEF Shaped
<1>22. Grows(u, w) BY <1>10, <1>17, <1>18, <1>19, <1>20, <1>21, GrowsIdle
<1>23. Onward(u, w) BY <1>20, <1>22, StaysSame, EbbsSame DEF Onward
<1> QED BY <1>8, <1>10, <1>11, <1>18, <1>23, OnwardTrans

\* which the camp's is,
LEMMA DestroyFlows ==
  ASSUME InStep(store, hand, synced), destroy_camp
  PROVE  Flows(store, store')
<1> DEFINE c == "stock"
           n == Capacity[c]
           t == destroy_container(store, c)
           g == CHOOSE f : Clears(f, store, c, n)
<1>1. store' = t BY DEF destroy_camp
<1>2. c \in Containers /\ n \in Nat BY ItemStoreAssumption
<1>3. t = [g[n] EXCEPT !.open = @ \ {c}, !.log[c] = <<>>] BY DEF destroy_container, Clears
<1>4. Clears(g, store, c, n)
  BY <1>2, ClearsExists
<1>5. Sound(store) BY DEF InStep
<1> HIDE DEF t, g
<1>6. Without(store, c, t) BY <1>3, <1>4 DEF Without
<1> HIDE DEF c, n
<1>7. Onward(store, t) BY <1>2, <1>5, <1>6, OnwardDestroyed
<1> QED BY <1>1, <1>7, OnwardFlows

\* every step of the server,
LEMMA ServerFlows ==
  ASSUME Recorded, Wished, InStep(store, hand, synced), [InventoryNext]_inventoryVars
  PROVE  Onflow
<1>1. ASSUME store' = store PROVE Onflow
  BY <1>1, OnwardSelf, OnwardFlows DEF InStep, Sound, Onflow
<1>2. CASE Tick BY <1>2, TickFlows DEF Onflow
<1>3. CASE ServerReceive
  <2> DEFINE m == Head(toServer)
  <2>1. toServer # <<>> BY <1>3 DEF ServerReceive
  <2>2. Listed(toServer) BY DEF Recorded
  <2>3. m = toServer[1] /\ 1 \in 1..Len(toServer) BY <2>1, <2>2, ListedTail
  <2>4. \/ m.kind = "snapshot" /\ HandleSnapshotRequest(m.container)
        \/ m.kind = "request" /\ Decide(m.id, asked[m.id]) /\ asked' = asked
        \/ Unauthorized(m.id)
    BY <1>3 DEF ServerReceive
  <2> HIDE DEF m
  <2>5. CASE m.kind = "snapshot" /\ HandleSnapshotRequest(m.container)
    BY <1>1, <2>5 DEF HandleSnapshotRequest, requestVars
  <2>6. CASE m.kind = "request" /\ Decide(m.id, asked[m.id]) /\ asked' = asked
    BY <2>3, <2>6, DecideFlows DEF Wished, Recorded, Asking
  <2>7. CASE Unauthorized(m.id) BY <1>1, <2>7 DEF Unauthorized
  <2> QED BY <2>4, <2>5, <2>6, <2>7
<1>4. CASE World
  BY <1>1, <1>4, LandFlows, EnterFlows, DestroyFlows DEF Onflow, Fire, Reload,
    leave_shelter, World
<1>5. CASE submit_gameplay_request
  BY <1>1, <1>5 DEF submit_gameplay_request
<1>6. CASE ClientReceive
  BY <1>1, <1>6 DEF ClientReceive, requestVars
<1>7. CASE UNCHANGED inventoryVars
  BY <1>1, <1>7 DEF inventoryVars, requestVars
<1> QED BY <1>2, <1>3, <1>4, <1>5, <1>6, <1>7 DEF InventoryNext

-----------------------------------------------------------------------------
(* The store as it begins.                                                 *)

\* A new store is one whose past is known: nothing was ever shown.
LEMMA OpenedTold ==
  \A c \in Containers : \E h : Recalls(Opened, c, h)
<1> SUFFICES ASSUME NEW c \in Containers PROVE \E h : Recalls(Opened, c, h) OBVIOUS
<1> DEFINE s == Opened
           h == [r \in 0..s.revision[c] |-> Shown(s, c)]
<1>1. s.revision[c] = 0 /\ s.log[c] = <<>> BY OpenedIs DEF EmptyStore
<1>2. \A k \in 1..Capacity[c] : s.slots[c][k] = 0 BY OpenedSound
<1> HIDE DEF s
<1>3. Shown(s, c) = [k \in 1..Capacity[c] |-> Nothing] BY <1>2 DEF Shown
<1>4. Proper(s, c, Shown(s, c)) BY <1>3 DEF Proper, Nothing
<1>5. Len(s.log[c]) = 0 BY <1>1
<1>6. \A r \in 0..s.revision[c] : h[r] = Shown(s, c) BY <1>1
<1>7. s.revision[c] \in 0..s.revision[c] BY <1>1
<1>8. h = [r \in 0..s.revision[c] |-> h[r]] OBVIOUS
<1> HIDE DEF h
<1>9. Recalls(s, c, h) BY <1>1, <1>4, <1>5, <1>6, <1>7, <1>8 DEF Recalls
<1> QED BY <1>9 DEF s

\* Of the stock, every item made so far is in it.
StockTold(s) ==
  /\ \A i \in Ids : ~InWorld(s, i)
  /\ \A c \in Containers : \E h : Recalls(s, c, h)

\* The next item of the stock takes the next slot.
LEMMA StockNextIs ==
  ASSUME NEW s, NEW n \in Nat, n + 1 <= Len(StockContents), StockInv(s, n)
  PROVE  LET x == StockContents[n + 1]
         IN  StockNext(s, n + 1) = Put(Made(s, x.template, x.quantity, 0, x.state), s.nextItem,
                                       "stock", n + 1)
<1> DEFINE x == StockContents[n + 1]
           tm == x.template
           c == "stock"
           k == find_empty_slot(s, c, tm)
           free == {j \in 1..Capacity[c] : s.slots[c][j] = 0}
           m == n + 1
           t == Put(Made(s, tm, x.quantity, 0, x.state), s.nextItem, c, k)
<1>1. Capacity[c] \in Nat /\ Len(StockContents) <= Capacity[c] /\ Len(StockContents) \in Nat
  BY GameplayRequestsAssumption, ItemStoreAssumption, LenProperties
<1>2. \A j \in 1..Capacity[c] : s.slots[c][j] = 0 <=> j > n BY DEF StockInv
<1>3. m \in free /\ \A j \in free : m <= j BY <1>1, <1>2
<1>4. k = m
  <2>1. Least(free) \in free /\ \A j \in free : Least(free) <= j
    <3> HIDE DEF free
    <3> QED BY <1>3 DEF Least
  <2>2. Least(free) = m
    <3> DEFINE l == Least(free)
    <3>1. l \in 1..Capacity[c]
      <4>1. free \subseteq 1..Capacity[c] OBVIOUS
      <4> HIDE DEF free
      <4> QED BY <2>1, <4>1
    <3>2. l <= m /\ m <= l
      <4> HIDE DEF free
      <4> QED BY <1>3, <2>1
    <3>3. m \in Nat OBVIOUS
    <3> HIDE DEF l, m
    <3> QED BY <1>1, <3>1, <3>2, <3>3 DEF l
  <2>3. free # {} BY <1>3
  <2>4. k = Least(free) BY <2>3 DEF find_empty_slot
  <2> QED BY <2>2, <2>4
<1>5. StockNext(s, m) = t
  <2>1. create_inventory_item(s, tm, x.quantity, x.state, c) = {t}
    BY <1>4 DEF create_inventory_item
  <2> HIDE DEF t
  <2> QED BY <2>1 DEF StockNext
<1> QED BY <1>4, <1>5

\* What is known of the stock stays known as it is made.
LEMMA StockToldStep ==
  ASSUME NEW s, NEW n \in Nat, n + 1 <= Len(StockContents), StockInv(s, n), StockTold(s)
  PROVE  StockTold(StockNext(s, n + 1))
<1> DEFINE tm == StockContents[n + 1].template
           q == StockContents[n + 1].quantity
           state == StockContents[n + 1].state
           e == 0
           c == "stock"
           m == n + 1
           i == s.nextItem
           u == Made(s, tm, q, e, state)
           t == Put(u, i, c, m)
<1>1. /\ tm \in Templates /\ q \in Nat /\ 1 <= q /\ q <= MaxStack[tm] /\ state \in States
  BY GameplayRequestsAssumption, LenProperties, HoldingIs
<1>2. /\ Capacity[c] \in Nat /\ Len(StockContents) <= Capacity[c] /\ Len(StockContents) \in Nat
      /\ Len(StockContents) <= MaxItems /\ MaxItems \in Nat /\ c \in Containers
  BY GameplayRequestsAssumption, LenProperties, ItemStoreAssumption
<1>3. /\ Sound(s) /\ i = m /\ \A j \in 1..Capacity[c] : s.slots[c][j] = 0 <=> j > n
  BY DEF StockInv
<1>4. StockNext(s, m) = t BY StockNextIs
<1>5. e \in Nat OBVIOUS
<1>6. m \in 1..Capacity[c] /\ s.slots[c][m] = 0 /\ i \in Ids /\ i <= Len(StockContents)
  BY <1>2, <1>3 DEF Ids
<1>7. Shaped(s) /\ SlotsAgree(s) /\ s.items[i].at.kind = "none"
  BY <1>3, <1>6, NextIsFree, EmptyIs DEF Sound, EmptyItem
<1> HIDE DEF tm, q, state, e, t
<1>8. LET w == Made(s, tm, q, e, state)
      IN  /\ Onward(s, w) /\ Shaped(w) /\ Offslot(w, s.nextItem)
          /\ w.log = s.log /\ w.slots = s.slots /\ w.nextItem = s.nextItem + 1
  BY <1>1, <1>5, <1>6, <1>7, OnwardMade
<1>9. LET w == Made(s, tm, q, e, state)
          y == [template |-> tm, quantity |-> q, used |-> e, state |-> state, at |-> Nowhere]
      IN  /\ Shaped(w) /\ IsItem(y) /\ w.items = [s.items EXCEPT ![s.nextItem] = y]
          /\ w.slots = s.slots /\ w.open = s.open
          /\ w.revision = s.revision /\ w.nextItem = s.nextItem + 1
          /\ w.nextProp = s.nextProp /\ w.props = s.props
  BY <1>1, <1>5, <1>6, <1>7, MadeIs
<1>10. /\ Grows(s, u) /\ Shaped(u) /\ Offslot(u, i) /\ u.slots = s.slots /\ u.nextItem = i + 1
  BY <1>8 DEF Onward
<1> DEFINE y == [template |-> tm, quantity |-> q, used |-> e, state |-> state, at |-> Nowhere]
<1>11. u.items = [s.items EXCEPT ![i] = y] BY <1>9
<1>12. y.template = tm /\ y.quantity = q /\ y.at = Nowhere OBVIOUS
<1> HIDE DEF u, y
<1>13. u.items[i] = y /\ \A j \in Ids : j # i => u.items[j] = s.items[j]
  BY <1>6, <1>7, <1>11 DEF Shaped
<1>14. i < u.nextItem BY <1>3, <1>10
<1>15. Home(i, tm) = c BY <1>6 DEF Home
<1>16. tm \in Single => q = 1 BY <1>1, SingleIs
<1>17. q # 0 BY <1>1
<1>18. u.slots[c][m] = 0 BY <1>6, <1>10
<1> HIDE DEF i, m, c
<1>19. Grows(u, t)
  BY <1>1, <1>2, <1>6, <1>10, <1>12, <1>13, <1>14, <1>15, <1>16, <1>17, <1>18, GrowsPut DEF t
<1>20. LET v == Put(u, i, c, m)
           x == [u.items[i] EXCEPT !.at = InSlot(c, m)]
       IN  /\ Shaped(v) /\ Beside(u, v) /\ v.items = [u.items EXCEPT ![i] = x]
           /\ \A d \in Containers : \A k \in 1..Capacity[d] :
                v.slots[d][k] = IF d = c /\ k = m THEN i ELSE u.slots[d][k]
           /\ Ahead(u, v)
  BY <1>2, <1>6, <1>10, PutIs
<1> DEFINE x == [u.items[i] EXCEPT !.at = InSlot(c, m)]
<1>21. Shaped(t) /\ t.items = [u.items EXCEPT ![i] = x] BY <1>20 DEF t
<1>22. x.at = InSlot(c, m)
  BY <1>6, <1>10 DEF Shaped, IsItem
<1> HIDE DEF x
<1>23. ASSUME NEW j \in Ids PROVE ~InWorld(t, j)
  <2>1. CASE j = i
    BY <1>6, <1>10, <1>21, <1>22, <2>1, PlaceKinds DEF Shaped, InWorld
  <2>2. CASE j # i
    BY <1>10, <1>13, <1>21, <2>2 DEF Shaped, StockTold, InWorld
  <2> QED BY <2>1, <2>2
<1>24. Grows(s, t) BY <1>7, <1>10, <1>19, <1>21, GrowsTrans
<1>25. \A d \in Containers : \E h : Recalls(t, d, h) BY <1>24 DEF StockTold, Grows
<1>26. StockTold(t) BY <1>23, <1>25 DEF StockTold
<1> QED BY <1>4, <1>26 DEF m

\* The stock as it begins,
LEMMA StockedTold == Told(Stocked)
<1> DEFINE N == Len(StockContents)
           g == CHOOSE h : Stocks(h, N)
           Right(k) == StockInv(g[k], k) /\ StockTold(g[k])
           T == {k \in 0..N : ~Right(k)}
<1>1. N \in Nat BY GameplayRequestsAssumption, LenProperties
<1>2. Stocks(g, N)
  BY <1>1, StocksExists
<1>3. Stocked = g[N] BY DEF Stocked, Stocks, StockNext
<1> HIDE DEF g
<1>4. \A k \in 0..N : g[k] = IF k = 0 THEN Opened ELSE StockNext(g[k - 1], k)
  BY <1>2 DEF Stocks
<1>5. Right(0)
  BY <1>1, <1>4, StockStart, OpenedIs, EmptyIs, OpenedTold DEF EmptyStore, InWorld,
    StockTold
<1>6. ASSUME NEW k \in Nat, k + 1 <= N, Right(k) PROVE Right(k + 1)
  BY <1>1, <1>4, <1>6, StockStep, StockToldStep
<1> HIDE DEF Right, N
<1>7. T = {}
  <2> SUFFICES ASSUME T # {} PROVE FALSE OBVIOUS
  <2>1. T \in SUBSET Nat BY <1>1
  <2>2. PICK m \in T : \A k \in T : m <= k BY <2>1, LeastNat
  <2>3. m \in 0..N /\ ~Right(m) OBVIOUS
  <2>4. m # 0 BY <1>5, <2>3
  <2>5. m - 1 \in Nat /\ (m - 1) + 1 = m /\ m - 1 \in 0..N /\ m - 1 < m /\ m <= N
    BY <1>1, <2>3, <2>4
  <2>6. Right(m - 1) BY <2>2, <2>5
  <2>7. Right((m - 1) + 1) BY <1>6, <2>5, <2>6
  <2> QED BY <2>3, <2>5, <2>7
<1>8. Right(N) BY <1>1, <1>7
<1>9. Stocked.nextItem = N + 1 BY StockedIs DEF StockInv, N
<1>10. StockTold(Stocked) BY <1>3, <1>8 DEF Right
<1>11. Stocked.nextItem > N BY <1>1, <1>9
<1> QED BY <1>10, <1>11 DEF StockTold, Told, N

\* A thing of the world made,
LEMMA FurnishFlows ==
  ASSUME NEW s, NEW n \in Nat, n + 1 <= Len(WorldContents), FurnishInv(s, n)
  PROVE  Onward(s, FurnishNext(s, n + 1))
<1> DEFINE tm == WorldContents[n + 1].template
           q == WorldContents[n + 1].quantity
           state == WorldContents[n + 1].state
           e == 0
           i == s.nextItem
           a == Made(s, tm, q, e, state)
           v == spawn_prop(a)
           at == OnProp(s.nextProp, "placed")
           t == [v EXCEPT !.items[i].at = at]
           N == Len(StockContents)
<1>1. tm \in Templates /\ q \in Nat /\ state \in States
  BY GameplayRequestsAssumption, LenProperties, HoldingIs
<1>2. N \in Nat /\ N + (n + 1) <= MaxItems /\ MaxItems \in Nat
  <2>1. StockContents \in Seq(Holdings) /\ WorldContents \in Seq(Holdings)
        /\ N + Len(WorldContents) <= MaxItems
    BY GameplayRequestsAssumption
  <2>2. N \in Nat /\ Len(WorldContents) \in Nat BY <2>1, LenProperties
  <2>3. MaxItems \in Nat BY ItemStoreAssumption
  <2> HIDE DEF N
  <2> QED BY <2>1, <2>2, <2>3
<1>3. Sound(s) /\ i = N + n + 1 /\ s.nextProp \in Nat BY DEF FurnishInv
<1> HIDE DEF N
<1>4. i \in Ids /\ i > N /\ i \in Nat BY <1>2, <1>3 DEF Ids
<1>5. Shaped(s) /\ SlotsAgree(s) /\ s.items[i].at.kind = "none"
  BY <1>3, <1>4, NextIsFree, EmptyIs DEF Sound, EmptyItem
<1>6. e \in Nat OBVIOUS
<1>7. FurnishNext(s, n + 1) = t
  <2>1. create_world_item(s, tm, q, state)
          = [v EXCEPT !.items[s.nextItem].at = OnProp(s.nextProp, "placed")]
    BY DEF create_world_item
  <2> HIDE DEF v
  <2> QED BY <2>1 DEF FurnishNext
<1> HIDE DEF tm, q, state, e, t
<1>8. LET w == Made(s, tm, q, e, state)
      IN  /\ Onward(s, w) /\ Shaped(w) /\ Offslot(w, s.nextItem)
          /\ w.log = s.log /\ w.slots = s.slots /\ w.nextItem = s.nextItem + 1
  BY <1>1, <1>4, <1>5, <1>6, OnwardMade
<1>9. Onward(s, a) /\ Shaped(a) /\ Offslot(a, i) /\ a.nextItem = i + 1 BY <1>8
<1> HIDE DEF a
<1>10. LET w == spawn_prop(a)
       IN  /\ Shaped(w) /\ w.items = a.items /\ w.slots = a.slots /\ w.open = a.open
           /\ w.revision = a.revision /\ w.nextItem = a.nextItem
           /\ w.nextProp = a.nextProp + 1 /\ w.props = a.props \cup {a.nextProp}
  BY <1>9, SpawnIs
<1>11. Onward(a, v) BY <1>9, OnwardSpawned
<1>12. Shaped(v) /\ v.slots = a.slots /\ v.nextItem = i + 1 BY <1>9, <1>10
<1> HIDE DEF v
<1>13. Offslot(v, i) BY <1>9, <1>12 DEF Offslot
<1>14. IsPlace(at) /\ at.kind = "world"
  <2> DEFINE mode == "placed"
  <2>1. mode \in Modes BY DEF Modes
  <2>2. at = OnProp(s.nextProp, mode) OBVIOUS
  <2> HIDE DEF mode, at
  <2> QED BY <1>3, <2>1, <2>2, PlaceKinds DEF IsPlace
<1> HIDE DEF at
<1> DEFINE x == [v.items[i] EXCEPT !.at = at]
<1>15. LET w == [v EXCEPT !.items[i].at = at]
           y == [v.items[i] EXCEPT !.at = at]
       IN  /\ Shaped(w) /\ Beside(v, w) /\ w.items = [v.items EXCEPT ![i] = y]
           /\ IsItem(y) /\ w.slots = v.slots /\ w.revision = v.revision
  BY <1>4, <1>12, <1>14, AtIs
<1>16. /\ Shaped(t) /\ Beside(v, t) /\ t.items = [v.items EXCEPT ![i] = x]
       /\ t.slots = v.slots /\ t.revision = v.revision
  BY <1>15 DEF t
<1>17. t.log = v.log
  <2>1. t = [v EXCEPT !.items[i] = x] BY DEF t
  <2> HIDE DEF x
  <2> QED BY <1>12, <2>1, LogStays
<1>18. x.template = v.items[i].template /\ x.state = v.items[i].state
  BY <1>4, <1>12 DEF Shaped, IsItem
<1> HIDE DEF x, t, i
<1>19. t.nextItem >= v.nextItem BY <1>12, <1>16 DEF Beside, Shaped
<1>20. Onward(v, t)
  BY <1>4, <1>12, <1>13, <1>16, <1>17, <1>18, <1>19, OnwardOff DEF N
<1>21. Onward(s, v) BY <1>5, <1>9, <1>11, <1>12, OnwardTrans
<1>22. Onward(s, t) BY <1>5, <1>12, <1>16, <1>20, <1>21, OnwardTrans
<1> QED BY <1>7, <1>22

\* and the world as it begins.
LEMMA FurnishedTold == Told(Furnished)
<1> DEFINE N == Len(WorldContents)
           g == CHOOSE h : Furnishes(h, N)
           Right(k) == FurnishInv(g[k], k) /\ Told(g[k])
           T == {k \in 0..N : ~Right(k)}
<1>1. N \in Nat BY GameplayRequestsAssumption, LenProperties
<1>2. Furnishes(g, N)
  BY <1>1, FurnishesExists
<1>3. Furnished = g[N] BY DEF Furnished, Furnishes, FurnishNext
<1> HIDE DEF g
<1>4. \A k \in 0..N : g[k] = IF k = 0 THEN Stocked ELSE FurnishNext(g[k - 1], k)
  BY <1>2 DEF Furnishes
<1>5. Right(0)
  BY <1>1, <1>4, FurnishStart, StockedTold
<1>6. ASSUME NEW k \in Nat, k + 1 <= N, Right(k) PROVE Right(k + 1)
  BY <1>1, <1>4, <1>6, FurnishStep, FurnishFlows, ToldOnward DEF FurnishInv, Sound
<1> HIDE DEF Right, N
<1>7. T = {}
  <2> SUFFICES ASSUME T # {} PROVE FALSE OBVIOUS
  <2>1. T \in SUBSET Nat BY <1>1
  <2>2. PICK m \in T : \A k \in T : m <= k BY <2>1, LeastNat
  <2>3. m \in 0..N /\ ~Right(m) OBVIOUS
  <2>4. m # 0 BY <1>5, <2>3
  <2>5. m - 1 \in Nat /\ (m - 1) + 1 = m /\ m - 1 \in 0..N /\ m - 1 < m /\ m <= N
    BY <1>1, <2>3, <2>4
  <2>6. Right(m - 1) BY <2>2, <2>5
  <2>7. Right((m - 1) + 1) BY <1>6, <2>5, <2>6
  <2> QED BY <2>3, <2>5, <2>7
<1>8. Right(N) BY <1>1, <1>7
<1> QED BY <1>3, <1>8 DEF Right

\* What was taken whole stays taken: it is not decided again, and the stock gets nothing.
LEMMA TookStays ==
  ASSUME Inventoried, [InventoryNext]_inventoryVars, Ebbs(store, store'), TookWhole
  PROVE  TookWhole'
<1>1. PICK id \in RequestIds :
        /\ processed[id] = "committed" /\ asked[id].action = "Transfer"
        /\ ~(\E k \in 1..Capacity["stock"] : store.slots["stock"][k] = asked[id].item)
  BY DEF TookWhole
<1>2. asked \in [RequestIds -> Requests \cup {NotAsked}]
      /\ processed \in [RequestIds -> Outcomes \cup {"none"}]
  BY DEF Inventoried, Wished, Recorded
<1>3. asked[id] # NotAsked BY <1>1 DEF NotAsked
<1>4. asked'[id] = asked[id]
  <2>1. asked' = asked \/ \E k \in RequestIds : \E r : asked[k] = NotAsked /\ asked' = [asked EXCEPT ![k] = r]
    BY DEF InventoryNext, Tick, ServerReceive, HandleSnapshotRequest, World, Land, Fire,
           Reload, enter_shelter, leave_shelter, destroy_camp, submit_gameplay_request,
           ClientReceive, inventoryVars, requestVars
  <2> QED BY <1>2, <1>3, <2>1
<1>5. processed'[id] = processed[id]
  <2>1. processed' = processed \/ \E k, r : Decide(k, r)
    BY DEF InventoryNext, Tick, ServerReceive, HandleSnapshotRequest, World, Land, Fire,
           Reload, enter_shelter, leave_shelter, destroy_camp, submit_gameplay_request,
           ClientReceive, inventoryVars, requestVars, Unauthorized
  <2>2. ASSUME NEW k, NEW r, Decide(k, r) PROVE processed'[id] = processed[id]
    BY <1>1, <1>2, <2>2 DEF Decide, Undecided
  <2> QED BY <2>1, <2>2
<1>6. asked[id].item \in Ids
  BY <1>2, <1>3 DEF Requests
<1>7. ~(\E k \in 1..Capacity["stock"] : store'.slots["stock"][k] = asked[id].item)
  BY <1>1, <1>6 DEF Ids, Ebbs
<1>8. processed'[id] = "committed" BY <1>1, <1>5
<1>9. asked'[id].action = "Transfer"
      /\ ~(\E k \in 1..Capacity["stock"] : store'.slots["stock"][k] = asked'[id].item)
  BY <1>1, <1>4, <1>7
<1> QED BY <1>8, <1>9 DEF TookWhole

-----------------------------------------------------------------------------
(* What messages say, and where they take a client.                        *)

\* The slots that hold something of what is shown, the page a slot's entry is on, and
\* how many pages there are.
Filled(v) == {k \in DOMAIN v : v[k].id # 0}
Below(F, k) == {j \in F : j <= k}
Rank(v, k) == Cardinality(Below(Filled(v), k))
PageOf(v, k) == (Rank(v, k) - 1) \div PageSize + 1
PageCount(v) ==
  IF Filled(v) = {} THEN 1 ELSE (Cardinality(Filled(v)) + PageSize - 1) \div PageSize

\* The entries E are those of the pages S of what is shown.
Lists(E, v, S) ==
  /\ \A e \in E : /\ e.slot \in Filled(v) /\ PageOf(v, e.slot) \in S
                  /\ IsItem(e.item) /\ e.id = v[e.slot].id
                  /\ Bare(e.id, e.item) = v[e.slot]
  /\ \A k \in Filled(v) : PageOf(v, k) \in S => \E e \in E : e.slot = k

\* A message of a container's contents, the entries a page carries, and one that says what history h says.
About(c, m) == m.kind # "answer" /\ m.container = c
Carried(m) == {m.entries[n] : n \in 1..Len(m.entries)}
Tells(h, m) ==
  /\ m.kind \in {"closed", "page", "deltas"}
  /\ m.kind = "page" =>
       /\ m.revision \in DOMAIN h /\ m.count = PageCount(h[m.revision])
       /\ m.index \in 1..m.count
       /\ Lists(Carried(m), h[m.revision], {m.index})
  /\ m.kind = "deltas" =>
       /\ m.first \in Nat \ {0} /\ Len(m.records) \in Nat \ {0}
       /\ \A n \in 1..Len(m.records) :
            /\ m.first + n - 2 \in DOMAIN h /\ m.first + n - 1 \in DOMAIN h
            /\ Turns(h[m.first + n - 2], m.records[n], h[m.first + n - 1])

\* How far a client is: the revision it lists, and the pages gathered of another.
At(at, revision, count, got) ==
  [at |-> at, revision |-> revision, count |-> count, got |-> got]
Stage(z) ==
  /\ z = At(z.at, z.revision, z.count, z.got)
  /\ z.at \in Nat \cup {Unsent} /\ z.count \in Nat /\ z.got \in Nat
  /\ z.got < z.count \/ (z.count = 0 /\ z.got = 0)

\* The pages it has of the snapshot a page is of.
Had(z, m) == IF z.count = 0 \/ z.revision # m.revision \/ z.count # m.count THEN 0 ELSE z.got

\* How far message m takes it.
Heeds(z, m, y) ==
  \/ m.kind = "closed" /\ y = At(Unsent, 0, 0, 0)
  \/ m.kind = "page" /\ m.index <= Had(z, m) /\ y = At(z.at, m.revision, m.count, Had(z, m))
  \/ /\ m.kind = "page" /\ m.index = Had(z, m) + 1 /\ m.index < m.count
     /\ y = At(z.at, m.revision, m.count, m.index)
  \/ /\ m.kind = "page" /\ m.index = Had(z, m) + 1 /\ m.index = m.count
     /\ y = At(m.revision, 0, 0, 0)
  \/ /\ m.kind = "deltas" /\ z.at # Unsent /\ m.first = z.at + 1
     /\ y = At(m.first + Len(m.records) - 1, z.revision, z.count, z.got)
Passes(c, h, z, m, y) == IF About(c, m) THEN Tells(h, m) /\ Heeds(z, m, y) ELSE y = z

\* The messages q say of container c what its history h says, and take the client from z to y.
Leads(c, h, q, p) ==
  /\ \A n \in 0..Len(q) : Stage(p[n])
  /\ \A n \in 1..Len(q) : Passes(c, h, p[n - 1], q[n], p[n])
Reaches(c, h, z, q, y) == \E p : Leads(c, h, q, p) /\ p[0] = z /\ p[Len(q)] = y

\* The elements of a concatenation, of a tail and of a start, each at its place.
LEMMA ConcatAt ==
  ASSUME NEW q, NEW r, Listed(q), Listed(r)
  PROVE  /\ Len(q) \in Nat /\ Len(r) \in Nat /\ Len(q \o r) = Len(q) + Len(r)
         /\ \A n \in 1..Len(q) : (q \o r)[n] = q[n]
         /\ \A n \in 1..Len(r) : (q \o r)[Len(q) + n] = r[n]
<1> DEFINE S == {q[n] : n \in DOMAIN q} \cup {r[n] : n \in DOMAIN r}
<1>1. Len(q) \in Nat /\ Len(r) \in Nat /\ DOMAIN q = 1..Len(q) /\ DOMAIN r = 1..Len(r)
  BY ListedHas
<1>2. q \in Seq({q[n] : n \in DOMAIN q}) /\ r \in Seq({r[n] : n \in DOMAIN r})
  BY DEF Listed
<1>3. q \in [1..Len(q) -> S] /\ r \in [1..Len(r) -> S]
  BY <1>1, <1>2, LenProperties
<1>4. q \in Seq(S) /\ r \in Seq(S) BY <1>1, <1>3, IsASeq
<1> HIDE DEF S
<1>5. /\ Len(q \o r) = Len(q) + Len(r)
      /\ \A n \in 1..(Len(q) + Len(r)) :
           (q \o r)[n] = IF n <= Len(q) THEN q[n] ELSE r[n - Len(q)]
  BY <1>4, ConcatProperties
<1>6. ASSUME NEW n \in 1..Len(q) PROVE (q \o r)[n] = q[n]
  BY <1>1, <1>5
<1>7. ASSUME NEW n \in 1..Len(r) PROVE (q \o r)[Len(q) + n] = r[n]
  BY <1>1, <1>5
<1> QED BY <1>1, <1>5, <1>6, <1>7

\* of a tail,
LEMMA TailAt ==
  ASSUME NEW q, Listed(q), q # <<>>
  PROVE  /\ Listed(Tail(q)) /\ Len(q) \in Nat \ {0} /\ Len(Tail(q)) = Len(q) - 1
         /\ Head(q) = q[1] /\ \A n \in 1..(Len(q) - 1) : Tail(q)[n] = q[n + 1]
<1> DEFINE S == {q[n] : n \in DOMAIN q}
<1>1. q \in Seq(S) BY DEF Listed
<1> HIDE DEF S
<1>2. /\ Tail(q) \in Seq(S) /\ Len(Tail(q)) = Len(q) - 1 /\ Len(q) \in Nat
      /\ \A n \in 1..Len(Tail(q)) : Tail(q)[n] = q[n + 1]
      /\ Len(q) # 0 /\ Head(q) = q[1]
  BY <1>1, HeadTailProperties, LenProperties, EmptySeq
<1>3. Listed(Tail(q)) BY <1>2, ListedFrom
<1> QED BY <1>2, <1>3

\* and of a start.
LEMMA StartAt ==
  ASSUME NEW q, Listed(q), NEW m \in Nat, m <= Len(q)
  PROVE  /\ Listed(SubSeq(q, 1, m)) /\ Len(SubSeq(q, 1, m)) = m
         /\ \A n \in 1..m : SubSeq(q, 1, m)[n] = q[n]
<1> DEFINE S == {q[n] : n \in DOMAIN q}
<1>1. q \in Seq(S) /\ Len(q) \in Nat BY ListedHas DEF Listed
<1> HIDE DEF S
<1>2. /\ SubSeq(q, 1, m) \in Seq(S)
      /\ Len(SubSeq(q, 1, m)) = IF 1 <= m THEN m ELSE 0
      /\ \A n \in 1..m : SubSeq(q, 1, m)[n] = q[n]
  BY <1>1
<1>3. Listed(SubSeq(q, 1, m)) BY <1>2, ListedFrom
<1> QED BY <1>2, <1>3

\* No message takes it nowhere,
LEMMA ReachesDeaf ==
  ASSUME NEW c, NEW h, NEW z, Stage(z), NEW q, Listed(q),
         \A n \in 1..Len(q) : ~About(c, q[n])
  PROVE  Reaches(c, h, z, q, z)
<1> DEFINE p == [n \in 0..Len(q) |-> z]
<1>1. Len(q) \in Nat BY ListedHas
<1>2. \A n \in 0..Len(q) : p[n] = z OBVIOUS
<1>3. \A n \in 1..Len(q) : n \in 0..Len(q) /\ n - 1 \in 0..Len(q) BY <1>1
<1>4. 0 \in 0..Len(q) /\ Len(q) \in 0..Len(q) BY <1>1
<1> HIDE DEF p
<1>5. Leads(c, h, q, p) BY <1>2, <1>3 DEF Leads, Passes
<1> QED BY <1>2, <1>4, <1>5 DEF Reaches

\* nor do messages of something else,
LEMMA ReachesQuiet ==
  ASSUME NEW c, NEW h, NEW z, NEW y, NEW q, Listed(q), Reaches(c, h, z, q, y),
         \A n \in 1..Len(q) : ~About(c, q[n])
  PROVE  y = z
<1>1. Len(q) \in Nat BY ListedHas
<1>2. PICK p : Leads(c, h, q, p) /\ p[0] = z /\ p[Len(q)] = y BY DEF Reaches
<1>3. \A n \in 1..Len(q) : p[n] = p[n - 1] BY <1>2 DEF Leads, Passes
<1> DEFINE T == {n \in 0..Len(q) : p[n] # z}
<1>4. T = {}
  <2> SUFFICES ASSUME T # {} PROVE FALSE OBVIOUS
  <2>1. T \in SUBSET Nat BY <1>1
  <2>2. PICK m \in T : \A k \in T : m <= k BY <2>1, LeastNat
  <2>3. m \in 0..Len(q) /\ p[m] # z OBVIOUS
  <2>4. m # 0 BY <1>2, <2>3
  <2>5. m \in 1..Len(q) /\ m - 1 \in 0..Len(q) /\ m - 1 < m BY <1>1, <2>3, <2>4
  <2>6. p[m - 1] # z BY <1>3, <2>3, <2>5
  <2>7. m - 1 \in T BY <2>5, <2>6
  <2>8. m \in Nat BY <1>1, <2>3
  <2> HIDE DEF T
  <2>9. m <= m - 1 BY <2>2, <2>7
  <2> QED BY <2>8, <2>9
<1>5. Len(q) \in 0..Len(q) BY <1>1
<1> QED BY <1>2, <1>4, <1>5

\* one takes it where it says,
LEMMA ReachesOne ==
  ASSUME NEW c, NEW h, NEW z, NEW m, NEW y, Stage(z), Stage(y), Passes(c, h, z, m, y)
  PROVE  Reaches(c, h, z, <<m>>, y)
<1> DEFINE q == <<m>>
           p == [n \in 0..1 |-> IF n = 0 THEN z ELSE y]
<1>1. Len(q) = 1 /\ q[1] = m OBVIOUS
<1>2. p[0] = z /\ p[1] = y OBVIOUS
<1> HIDE DEF p, q
<1>3. \A n \in 0..Len(q) : n = 0 \/ n = 1 BY <1>1
<1>4. \A n \in 1..Len(q) : n = 1 BY <1>1
<1>5. \A n \in 0..Len(q) : Stage(p[n]) BY <1>2, <1>3
<1>6. \A n \in 1..Len(q) : Passes(c, h, p[n - 1], q[n], p[n])
  BY <1>1, <1>2, <1>4
<1>7. Leads(c, h, q, p) BY <1>5, <1>6 DEF Leads
<1>8. Reaches(c, h, z, q, y) BY <1>1, <1>2, <1>7 DEF Reaches
<1> QED BY <1>8 DEF q

\* messages take it on from where others have,
LEMMA ReachesConcat ==
  ASSUME NEW c, NEW h, NEW z, NEW x, NEW y, NEW q, NEW r, Listed(q), Listed(r),
         Reaches(c, h, z, q, x), Reaches(c, h, x, r, y)
  PROVE  Reaches(c, h, z, q \o r, y)
<1>1. PICK a : Leads(c, h, q, a) /\ a[0] = z /\ a[Len(q)] = x BY DEF Reaches
<1>2. PICK b : Leads(c, h, r, b) /\ b[0] = x /\ b[Len(r)] = y BY DEF Reaches
<1> DEFINE N == Len(q)
           M == Len(r)
           w == q \o r
           p == [n \in 0..(N + M) |-> IF n <= N THEN a[n] ELSE b[n - N]]
<1>3. /\ N \in Nat /\ M \in Nat /\ Len(w) = N + M
      /\ \A n \in 1..N : w[n] = q[n]
      /\ \A n \in 1..M : w[N + n] = r[n]
  BY ConcatAt
<1>4. \A n \in 0..N : Stage(a[n]) BY <1>1 DEF Leads
<1>5. \A n \in 1..N : Passes(c, h, a[n - 1], q[n], a[n]) BY <1>1 DEF Leads
<1>6. \A n \in 0..M : Stage(b[n]) BY <1>2 DEF Leads
<1>7. \A n \in 1..M : Passes(c, h, b[n - 1], r[n], b[n]) BY <1>2 DEF Leads
<1>8. a[0] = z /\ a[N] = x /\ b[0] = x /\ b[M] = y BY <1>1, <1>2
<1> HIDE DEF N, M, w
<1>9. \A n \in 0..(N + M) : p[n] = IF n <= N THEN a[n] ELSE b[n - N] OBVIOUS
<1> HIDE DEF p
<1>10. \A n \in 0..N : p[n] = a[n]
  BY <1>3, <1>9
<1>11. ASSUME NEW n \in 0..M PROVE p[N + n] = b[n]
  <2>1. N + n \in 0..(N + M) /\ N + n - N = n BY <1>3
  <2>2. CASE n = 0
    BY <1>3, <1>8, <1>9, <2>1, <2>2
  <2>3. CASE n # 0
    <3> DEFINE k == N + n
    <3>1. ~(k <= N) /\ k \in 0..(N + M) /\ k - N = n BY <1>3, <2>1, <2>3
    <3> HIDE DEF k
    <3>2. p[k] = b[k - N] BY <1>9, <3>1
    <3>3. p[k] = b[n] BY <3>1, <3>2
    <3> QED BY <3>3 DEF k
  <2> QED BY <2>2, <2>3
<1>12. ASSUME NEW n \in 0..(N + M) PROVE Stage(p[n])
  <2>1. CASE n \in 0..N BY <1>4, <1>10, <2>1
  <2>2. CASE n \notin 0..N
    <3>1. n - N \in 0..M /\ N + (n - N) = n BY <1>3, <2>2
    <3> QED BY <1>6, <1>11, <3>1
  <2> QED BY <2>1, <2>2
<1>13. ASSUME NEW n \in 1..(N + M) PROVE Passes(c, h, p[n - 1], w[n], p[n])
  <2>1. CASE n \in 1..N
    BY <1>3, <1>5, <1>10, <2>1
  <2>2. CASE n \notin 1..N
    <3> DEFINE k == n - N
    <3>1. k \in 1..M /\ k \in 0..M /\ k - 1 \in 0..M /\ N + k = n /\ N + (k - 1) = n - 1
      BY <1>3, <2>2
    <3> HIDE DEF k
    <3>2. p[n - 1] = b[k - 1] /\ p[n] = b[k] BY <1>11, <3>1
    <3>3. w[n] = r[k] BY <1>3, <3>1
    <3> QED BY <1>7, <3>1, <3>2, <3>3
  <2> QED BY <2>1, <2>2
<1>14. Leads(c, h, w, p) BY <1>3, <1>12, <1>13 DEF Leads
<1>15. p[0] = z /\ p[N + M] = y
  BY <1>3, <1>8, <1>10, <1>11
<1>16. Reaches(c, h, z, w, y) BY <1>3, <1>14, <1>15 DEF Reaches
<1> QED BY <1>16 DEF w

\* the first takes it where the others begin,
LEMMA ReachesTail ==
  ASSUME NEW c, NEW h, NEW z, NEW y, NEW q, Listed(q), q # <<>>, Reaches(c, h, z, q, y)
  PROVE  \E x : Stage(z) /\ Stage(x) /\ Passes(c, h, z, Head(q), x) /\ Reaches(c, h, x, Tail(q), y)
<1>1. PICK a : Leads(c, h, q, a) /\ a[0] = z /\ a[Len(q)] = y BY DEF Reaches
<1> DEFINE N == Len(q)
           w == Tail(q)
           p == [n \in 0..(N - 1) |-> a[n + 1]]
<1>2. /\ Listed(w) /\ N \in Nat \ {0} /\ Len(w) = N - 1 /\ Head(q) = q[1]
      /\ \A n \in 1..(N - 1) : w[n] = q[n + 1]
  BY TailAt
<1>3. \A n \in 0..N : Stage(a[n]) BY <1>1 DEF Leads
<1>4. \A n \in 1..N : Passes(c, h, a[n - 1], q[n], a[n]) BY <1>1 DEF Leads
<1>5. a[0] = z /\ a[N] = y BY <1>1
<1> HIDE DEF N, w
<1>6. \A n \in 0..(N - 1) : p[n] = a[n + 1] OBVIOUS
<1> HIDE DEF p
<1>7. ASSUME NEW n \in 0..Len(w) PROVE Stage(p[n])
  BY <1>2, <1>3, <1>6
<1>8. ASSUME NEW n \in 1..Len(w) PROVE Passes(c, h, p[n - 1], w[n], p[n])
  BY <1>2, <1>4, <1>6
<1>9. Leads(c, h, w, p) BY <1>7, <1>8 DEF Leads
<1>10. p[0] = a[1] /\ p[Len(w)] = y
  BY <1>2, <1>5, <1>6
<1>11. Reaches(c, h, a[1], w, y) BY <1>9, <1>10 DEF Reaches
<1>12. 1 \in 1..N /\ 0 \in 0..N /\ 1 \in 0..N /\ 1 - 1 = 0 BY <1>2
<1>13. Stage(z) /\ Stage(a[1]) /\ Passes(c, h, z, Head(q), a[1])
  BY <1>2, <1>3, <1>4, <1>5, <1>12
<1> QED BY <1>11, <1>13 DEF w

\* and a longer history says the same.
LEMMA ReachesLonger ==
  ASSUME NEW c, NEW h, NEW g, Longer(h, g), NEW z, NEW y, NEW q, Reaches(c, h, z, q, y)
  PROVE  Reaches(c, g, z, q, y)
<1>1. PICK p : Leads(c, h, q, p) /\ p[0] = z /\ p[Len(q)] = y BY DEF Reaches
<1>2. ASSUME NEW m, Tells(h, m) PROVE Tells(g, m)
  <2>1. \A r \in DOMAIN h : r \in DOMAIN g /\ g[r] = h[r] BY DEF Longer
  <2> HIDE DEF Longer
  <2> QED BY <1>2, <2>1 DEF Tells
<1>3. Leads(c, g, q, p) BY <1>1, <1>2 DEF Leads, Passes
<1> QED BY <1>1, <1>3 DEF Reaches

\* It begins and ends at a stage.
LEMMA ReachesStages ==
  ASSUME NEW c, NEW h, NEW z, NEW y, NEW q, Listed(q), Reaches(c, h, z, q, y)
  PROVE  Stage(z) /\ Stage(y)
BY ListedHas DEF Reaches, Leads

-----------------------------------------------------------------------------
(* The pages of a container.                                               *)

\* The places of a finite set of numbers in their order, one for each.
LEMMA RanksAre ==
  ASSUME NEW F \in SUBSET Nat, IsFiniteSet(F)
  PROVE  /\ Cardinality(F) \in Nat
         /\ \A k \in F : Cardinality(Below(F, k)) \in 1..Cardinality(F)
         /\ \A j, k \in F : Cardinality(Below(F, j)) = Cardinality(Below(F, k)) => j = k
         /\ \A n \in 1..Cardinality(F) : \E k \in F : Cardinality(Below(F, k)) = n
<1> DEFINE N == Cardinality(F)
           r(k) == Cardinality(Below(F, k))
           f == [k \in F |-> r(k)]
<1>1. N \in Nat BY FS_CardinalityType
<1>2. ASSUME NEW k \in F PROVE r(k) \in 1..N /\ IsFiniteSet(Below(F, k)) /\ k \in Below(F, k)
  <2>1. Below(F, k) \in SUBSET F /\ k \in Below(F, k) BY DEF Below
  <2>2. IsFiniteSet(Below(F, k)) /\ r(k) <= N BY <2>1, FS_Subset
  <2>3. r(k) \in Nat BY <2>2, FS_CardinalityType
  <2>4. r(k) # 0 BY <2>1, <2>2, FS_EmptySet
  <2> HIDE DEF N, r
  <2> QED BY <1>1, <2>1, <2>2, <2>3, <2>4
<1>3. ASSUME NEW j \in F, NEW k \in F, j < k PROVE r(j) # r(k)
  <2>1. Below(F, j) \in SUBSET Below(F, k) /\ k \notin Below(F, j)
    <3>1. \A i \in F : i <= j => i <= k BY <1>3
    <3>2. ~(k <= j) BY <1>3
    <3> QED BY <3>1, <3>2 DEF Below
  <2> QED BY <1>2, <2>1, FS_Subset
<1>4. ASSUME NEW j \in F, NEW k \in F, r(j) = r(k) PROVE j = k
  <2>1. j \in Nat /\ k \in Nat OBVIOUS
  <2> HIDE DEF r
  <2> QED BY <1>3, <1>4, <2>1
<1>5. IsFiniteSet(1..N) /\ Cardinality(1..N) = N
  <2> HIDE DEF N
  <2>1. IsFiniteSet(1..N) /\ Cardinality(1..N) = IF 1 > N THEN 0 ELSE N - 1 + 1
    BY <1>1, FS_Interval
  <2> QED BY <1>1, <2>1
<1>6. f \in Injection(F, 1..N)
  <2> HIDE DEF N, r
  <2>1. f \in [F -> 1..N] BY <1>2
  <2>2. \A a, b \in F : f[a] = f[b] => a = b BY <1>4
  <2> HIDE DEF f
  <2> QED BY <2>1, <2>2 DEF Injection, IsInjective
<1>7. f \in Surjection(F, 1..N)
  <2> HIDE DEF f
  <2> QED BY <1>5, <1>6, FS_Injection
<1>8. \A n \in 1..N : \E k \in F : r(k) = n
  <2> HIDE DEF r, N
  <2> SUFFICES ASSUME NEW n \in 1..N PROVE \E k \in F : r(k) = n OBVIOUS
  <2>1. \E k \in F : f[k] = n
    <3> HIDE DEF f
    <3> QED BY <1>7 DEF Surjection
  <2> QED BY <2>1
<1> QED BY <1>1, <1>2, <1>4, <1>8

\* What a division is,
LEMMA DivIs ==
  ASSUME NEW a \in Nat, NEW b \in Nat \ {0}
  PROVE  a \div b \in Nat /\ (a \div b) * b <= a /\ a < (a \div b) * b + b
OBVIOUS

\* what a product keeps,
LEMMA TimesOrder ==
  ASSUME NEW a \in Nat, NEW b \in Nat, NEW d \in Nat, a <= b
  PROVE  a * d <= b * d
OBVIOUS

\* when a division is a number,
LEMMA DivAt ==
  ASSUME NEW a \in Nat, NEW b \in Nat \ {0}, NEW q \in Nat, q * b <= a, a < (q + 1) * b
  PROVE  a \div b = q
<1> DEFINE d == a \div b
<1>1. d \in Nat /\ d * b <= a /\ a < d * b + b BY DivIs
<1>2. (d + 1) * b = d * b + b
  <2> HIDE DEF d
  <2> QED BY <1>1
<1> HIDE DEF d
<1>3. q * b \in Nat /\ d * b \in Nat /\ (q + 1) * b \in Nat /\ (d + 1) * b \in Nat BY <1>1
<1>4. ~(d < q)
  BY <1>1, <1>2, <1>3, TimesOrder
<1>5. ~(q < d)
  BY <1>1, <1>3, TimesOrder
<1> QED BY <1>1, <1>4, <1>5 DEF d

\* and which pages there are.
LEMMA DivPage ==
  ASSUME NEW x \in Nat \ {0}, NEW b \in Nat \ {0}, NEW L \in Nat, x <= L
  PROVE  (x - 1) \div b + 1 <= (L + b - 1) \div b
<1> DEFINE p == (x-1) \div b
           q == (L + b - 1) \div b
<1>1. p \in Nat /\ p * b <= x - 1 BY DivIs
<1>2. q \in Nat /\ L + b - 1 < q * b + b BY DivIs
<1> HIDE DEF p, q
<1>3. SUFFICES ASSUME p >= q PROVE FALSE BY <1>1, <1>2 DEF p, q
<1>4. p * b >= q * b BY <1>1, <1>2, <1>3
<1> QED BY <1>1, <1>2, <1>4

\* What is filled of what is shown, as an order.
LEMMA FilledIs ==
  ASSUME NEW s, Shaped(s), NEW c \in Containers
  PROVE  LET v == Shown(s, c)
         IN  /\ Filled(v) = {k \in 1..Capacity[c] : s.slots[c][k] # 0}
             /\ Filled(v) \in SUBSET Nat /\ IsFiniteSet(Filled(v))
             /\ PageCount(v) \in Nat \ {0}
             /\ \A k \in Filled(v) : PageOf(v, k) \in 1..PageCount(v)
<1> DEFINE v == Shown(s, c)
           F == Filled(v)
           N == Cardinality(F)
<1>1. F = {k \in 1..Capacity[c] : s.slots[c][k] # 0}
  <2>1. DOMAIN v = 1..Capacity[c] BY DEF Shown
  <2>2. \A k \in 1..Capacity[c] : v[k].id = s.slots[c][k] BY ShownIds
  <2> HIDE DEF v
  <2> QED BY <2>1, <2>2 DEF Filled
<1>2. Capacity[c] \in Nat BY ItemStoreAssumption
<1>3. F \in SUBSET (1..Capacity[c]) BY <1>1
<1>4. F \in SUBSET Nat /\ IsFiniteSet(F)
  <2>1. IsFiniteSet(1..Capacity[c]) BY <1>2, FS_Interval
  <2> QED BY <1>2, <1>3, <2>1, FS_Subset
<1> HIDE DEF v
<1>5. N \in Nat /\ (N = 0 <=> F = {}) BY <1>4, FS_CardinalityType, FS_EmptySet
<1>6. PageSize \in Nat \ {0} BY InventorySyncAssumption
<1>7. PageCount(v) = IF F = {} THEN 1 ELSE (N + PageSize - 1) \div PageSize BY DEF PageCount
<1>8. \A k \in F : Rank(v, k) \in 1..N BY <1>4, RanksAre DEF Rank
<1>9. \A k \in F : PageOf(v, k) = (Rank(v, k) - 1) \div PageSize + 1 BY DEF PageOf
<1> HIDE DEF F, N
<1>10. (N + PageSize - 1) \div PageSize \in Nat
  BY <1>5, <1>6, DivIs
<1>11. ASSUME NEW k \in F PROVE PageOf(v, k) \in 1..PageCount(v)
  <2> DEFINE x == Rank(v, k)
             d == (x - 1) \div PageSize
  <2>1. x \in Nat \ {0} /\ x <= N /\ PageOf(v, k) = d + 1 BY <1>5, <1>8, <1>9
  <2> HIDE DEF x
  <2>2. x - 1 \in Nat BY <2>1
  <2>3. d \in Nat BY <1>6, <2>2, DivIs
  <2>4. d + 1 <= (N + PageSize - 1) \div PageSize BY <1>5, <1>6, <2>1, DivPage
  <2>5. F # {} BY <1>11
  <2> HIDE DEF d
  <2> QED BY <1>7, <1>10, <2>1, <2>3, <2>4, <2>5
<1>12. PageCount(v) \in Nat \ {0}
  BY <1>7, <1>10, <1>11
<1> QED BY <1>1, <1>4, <1>11, <1>12 DEF F, v

\* The entries of a container are what is filled of what it shows, in its order.
LEMMA EntriesAre ==
  ASSUME NEW s, Shaped(s), NEW c \in Containers
  PROVE  LET v == Shown(s, c)
             all == Entries(s, c)
         IN  /\ Listed(all) /\ Len(all) = Cardinality(Filled(v))
             /\ \A n \in 1..Len(all) :
                  /\ all[n].slot \in Filled(v) /\ Rank(v, all[n].slot) = n
                  /\ IsItem(all[n].item) /\ all[n].id = v[all[n].slot].id
                  /\ Bare(all[n].id, all[n].item) = v[all[n].slot]
             /\ \A k \in Filled(v) : Rank(v, k) \in 1..Len(all) /\ all[Rank(v, k)].slot = k
<1> DEFINE v == Shown(s, c)
           all == Entries(s, c)
           F == Filled(v)
           N == Cardinality(F)
           held == {k \in 1..Capacity[c] : s.slots[c][k] # 0}
           Nth(n) == CHOOSE k \in held : Cardinality({j \in held : j <= k}) = n
           Of(n) == [slot |-> Nth(n), id |-> s.slots[c][Nth(n)],
                     item |-> [s.items[s.slots[c][Nth(n)]] EXCEPT !.at = Nowhere]]
<1>1. F = held /\ F \in SUBSET Nat /\ IsFiniteSet(F) BY FilledIs
<1>2. all = [n \in 1..Cardinality(held) |-> Of(n)] BY DEF Entries
<1>3. \A k \in F : k \in 1..Capacity[c] /\ s.slots[c][k] # 0
  <2> HIDE DEF F
  <2> QED BY <1>1
<1>4. s.slots[c] \in [1..Capacity[c] -> Ids \cup {0}] BY DEF Shaped
<1>5. \A k \in 1..Capacity[c] :
        /\ v[k].id = s.slots[c][k]
        /\ s.slots[c][k] # 0 => v[k] = Bare(s.slots[c][k], s.items[s.slots[c][k]])
  BY ShownIds
<1>6. /\ N \in Nat
      /\ \A k \in F : Rank(v, k) \in 1..N
      /\ \A j, k \in F : Rank(v, j) = Rank(v, k) => j = k
      /\ \A n \in 1..N : \E k \in F : Rank(v, k) = n
  <2> HIDE DEF v
  <2> QED BY <1>1, RanksAre DEF Rank
<1>7. ASSUME NEW n \in 1..N PROVE Nth(n) \in F /\ Rank(v, Nth(n)) = n
  <2>1. \A k : Rank(v, k) = Cardinality({j \in F : j <= k}) BY DEF Rank, Below
  <2>2. Nth(n) = CHOOSE k \in F : Rank(v, k) = n
    <3> HIDE DEF held, F
    <3> QED BY <1>1, <2>1
  <2> HIDE DEF Nth
  <2> QED BY <1>6, <2>2
<1> HIDE DEF Nth
<1>8. all = [n \in 1..N |-> Of(n)]
  <2> HIDE DEF held, all, Of
  <2> QED BY <1>1, <1>2
<1>9. ASSUME NEW n \in 1..N
      PROVE  /\ Of(n).slot \in F /\ Rank(v, Of(n).slot) = n
             /\ IsItem(Of(n).item) /\ Of(n).id = v[Of(n).slot].id
             /\ Bare(Of(n).id, Of(n).item) = v[Of(n).slot]
  <2> DEFINE k == Nth(n)
             i == s.slots[c][k]
             x == s.items[i]
             y == [x EXCEPT !.at = Nowhere]
  <2>1. Of(n).slot = k /\ Of(n).id = i /\ Of(n).item = y OBVIOUS
  <2> HIDE DEF Of
  <2>2. k \in F /\ Rank(v, k) = n BY <1>7
  <2> HIDE DEF k, F
  <2>3. k \in 1..Capacity[c] /\ i # 0 BY <1>3, <2>2
  <2>4. i \in Ids BY <1>4, <2>3
  <2>5. IsItem(x) BY <2>4 DEF Shaped
  <2>6. v[k].id = i /\ v[k] = Bare(i, x) BY <1>5, <2>3
  <2> HIDE DEF x, i
  <2>7. IsPlace(Nowhere) BY DEF IsPlace
  <2>8. LET w == [x EXCEPT !.at = Nowhere]
        IN  IsItem(w) /\ w = [template |-> x.template, quantity |-> x.quantity,
                              used |-> x.used, state |-> x.state, at |-> Nowhere]
    BY <2>5, <2>7, ItemWith
  <2>9. IsItem(y) /\ Bare(i, y) = Bare(i, x) BY <2>8 DEF Bare
  <2> QED BY <2>1, <2>2, <2>6, <2>9
<1> HIDE DEF all, Of
<1>10. DOMAIN all = 1..N /\ \A n \in 1..N : all[n] = Of(n) BY <1>8
<1> HIDE DEF N
<1>11. Listed(all) /\ Len(all) = N
  BY <1>6, <1>8, <1>10, ListedFunction
<1>12. ASSUME NEW n \in 1..Len(all)
       PROVE  /\ all[n].slot \in F /\ Rank(v, all[n].slot) = n
              /\ IsItem(all[n].item) /\ all[n].id = v[all[n].slot].id
              /\ Bare(all[n].id, all[n].item) = v[all[n].slot]
  BY <1>9, <1>10, <1>11
<1>13. ASSUME NEW k \in F PROVE Rank(v, k) \in 1..Len(all) /\ all[Rank(v, k)].slot = k
  BY <1>6, <1>11, <1>12
<1> HIDE DEF F
<1>14. /\ Listed(all) /\ Len(all) = Cardinality(Filled(v)) BY <1>11 DEF N, F
<1> QED BY <1>12, <1>13, <1>14 DEF all, v, F

\* A page's part of the entries.
Part(all, n) == SubSeq(all, (n - 1) * PageSize + 1, Lesser(n * PageSize, Len(all)))

\* It is the entries whose place is on that page.
LEMMA PartIs ==
  ASSUME NEW all, Listed(all), NEW n \in Nat \ {0}
  PROVE  /\ Len(Part(all, n)) \in Nat
         /\ {Part(all, n)[k] : k \in 1..Len(Part(all, n))}
              = {all[j] : j \in {i \in 1..Len(all) : (i - 1) \div PageSize + 1 = n}}
<1> DEFINE N == Len(all)
           m == (n - 1) * PageSize + 1
           l == Lesser(n * PageSize, N)
           p == Part(all, n)
           S == {all[j] : j \in DOMAIN all}
           I == {i \in 1..N : (i - 1) \div PageSize + 1 = n}
<1>1. N \in Nat /\ DOMAIN all = 1..N /\ PageSize \in Nat \ {0}
  BY ListedHas, InventorySyncAssumption
<1>2. (n - 1) * PageSize \in Nat /\ n * PageSize \in Nat /\ n - 1 \in Nat /\ n - 1 + 1 = n BY <1>1
<1>3. m \in Nat \ {0} /\ l \in Nat /\ l <= N /\ l <= n * PageSize
      /\ \A i \in Nat : i <= N /\ i <= n * PageSize => i <= l
  BY <1>1, <1>2 DEF Lesser
<1>4. \A i \in 1..N : i \in m..l <=> (i - 1) \div PageSize + 1 = n
  <2> SUFFICES ASSUME NEW i \in 1..N PROVE i \in m..l <=> (i - 1) \div PageSize + 1 = n OBVIOUS
  <2> DEFINE d == (i - 1) \div PageSize
  <2>1. i - 1 \in Nat /\ i \in Nat BY <1>1
  <2>2. d \in Nat /\ d * PageSize <= i - 1 /\ i - 1 < d * PageSize + PageSize
    BY <1>1, <2>1, DivIs
  <2>3. i \in m..l => d = n - 1
    <3> SUFFICES ASSUME i \in m..l PROVE d = n - 1 OBVIOUS
    <3>1. (n - 1) * PageSize <= i - 1 /\ i - 1 < n * PageSize
      BY <1>2, <1>3, <2>1
    <3>2. i - 1 < (n - 1 + 1) * PageSize BY <1>2, <3>1
    <3> HIDE DEF m, l, d
    <3> QED BY <1>1, <1>2, <2>1, <3>1, <3>2, DivAt DEF d
  <2>4. d + 1 = n => i \in m..l
    <3> SUFFICES ASSUME d + 1 = n PROVE i \in m..l OBVIOUS
    <3>1. d = n - 1 BY <2>2
    <3> HIDE DEF d
    <3>2. n * PageSize = (n - 1) * PageSize + PageSize BY <1>1, <1>2
    <3>3. (n - 1) * PageSize <= i - 1 /\ i - 1 < n * PageSize BY <2>2, <3>1, <3>2
    <3>4. m <= i /\ i <= n * PageSize BY <1>1, <1>2, <2>1, <3>3
    <3> QED BY <1>1, <1>3, <2>1, <3>4
  <2> HIDE DEF m, l
  <2> QED BY <1>2, <2>2, <2>3, <2>4
<1>5. \A i \in m..l : i \in 1..N BY <1>1, <1>3
<1>6. /\ p \in Seq(S)
      /\ Len(p) = IF m <= l THEN l - m + 1 ELSE 0
      /\ \A i \in 1..(l - m + 1) : p[i] = all[m + i - 1]
  <2>1. \A i \in m..l : all[i] \in S BY <1>1, <1>5
  <2>2. p = SubSeq(all, m, l) BY DEF Part
  <2> HIDE DEF S, m, l, p
  <2> QED BY <1>3, <2>1, <2>2, SubSeqProperties
<1> HIDE DEF p, m, l, N, S
<1>7. Len(p) \in Nat BY <1>3, <1>6
<1>8. ASSUME NEW x, x \in {p[k] : k \in 1..Len(p)} PROVE x \in {all[j] : j \in I}
  <2>1. PICK k \in 1..Len(p) : x = p[k] BY <1>8
  <2>2. k \in 1..(l - m + 1) BY <1>3, <1>6, <2>1
  <2>3. m + k - 1 \in m..l BY <1>3, <2>2
  <2>4. m + k - 1 \in I BY <1>4, <1>5, <2>3
  <2> QED BY <1>6, <2>1, <2>2, <2>4
<1>9. ASSUME NEW x, x \in {all[j] : j \in I} PROVE x \in {p[k] : k \in 1..Len(p)}
  <2>1. PICK j \in I : x = all[j] BY <1>9
  <2>2. j \in m..l BY <1>4, <2>1
  <2> DEFINE k == j - m + 1
  <2>3. k \in 1..(l - m + 1) /\ k \in 1..Len(p) /\ m + k - 1 = j BY <1>3, <1>6, <2>2
  <2> HIDE DEF k
  <2>4. p[k] = all[m + k - 1] BY <1>6, <2>3
  <2> QED BY <2>1, <2>3, <2>4
<1>10. {p[k] : k \in 1..Len(p)} = {all[j] : j \in I} BY <1>8, <1>9
<1> QED BY <1>7, <1>10 DEF p, N

\* Entries in the order of what is shown, those of one page.
LEMMA PartLists ==
  ASSUME NEW s, Shaped(s), NEW c \in Containers, NEW n \in Nat \ {0}
  PROVE  LET p == Part(Entries(s, c), n)
         IN  Lists({p[k] : k \in 1..Len(p)}, Shown(s, c), {n})
<1> DEFINE v == Shown(s, c)
           all == Entries(s, c)
           p == Part(all, n)
           E == {p[k] : k \in 1..Len(p)}
           I == {i \in 1..Len(all) : (i - 1) \div PageSize + 1 = n}
<1>1. LET w == Shown(s, c)
          a == Entries(s, c)
      IN  /\ Listed(a) /\ Len(a) = Cardinality(Filled(w))
          /\ \A j \in 1..Len(a) :
                  /\ a[j].slot \in Filled(w) /\ Rank(w, a[j].slot) = j
                  /\ IsItem(a[j].item) /\ a[j].id = w[a[j].slot].id
                  /\ Bare(a[j].id, a[j].item) = w[a[j].slot]
          /\ \A k \in Filled(w) : Rank(w, k) \in 1..Len(a) /\ a[Rank(w, k)].slot = k
  BY EntriesAre
<1>2. /\ Listed(all)
      /\ \A j \in 1..Len(all) :
                  /\ all[j].slot \in Filled(v) /\ Rank(v, all[j].slot) = j
                  /\ IsItem(all[j].item) /\ all[j].id = v[all[j].slot].id
                  /\ Bare(all[j].id, all[j].item) = v[all[j].slot]
      /\ \A k \in Filled(v) : Rank(v, k) \in 1..Len(all) /\ all[Rank(v, k)].slot = k
  BY <1>1
<1> HIDE DEF v, all
<1>3. E = {all[j] : j \in I}
  <2>0. Listed(all) BY <1>2
  <2>1. {Part(all, n)[k] : k \in 1..Len(Part(all, n))}
          = {all[j] : j \in {i \in 1..Len(all) : (i - 1) \div PageSize + 1 = n}}
    BY <2>0, PartIs, Zenon
  <2> QED BY <2>1
<1> HIDE DEF E
<1>4. ASSUME NEW e \in E
      PROVE  /\ e.slot \in Filled(v) /\ PageOf(v, e.slot) \in {n}
             /\ IsItem(e.item) /\ e.id = v[e.slot].id /\ Bare(e.id, e.item) = v[e.slot]
  BY <1>2, <1>3 DEF PageOf
<1>5. ASSUME NEW k \in Filled(v), PageOf(v, k) \in {n} PROVE \E e \in E : e.slot = k
  BY <1>2, <1>3, <1>5 DEF PageOf
<1>6. Lists(E, v, {n}) BY <1>4, <1>5 DEF Lists
<1> QED BY <1>6 DEF E, v, all

\* The pages of a container.
LEMMA PagesAre ==
  ASSUME NEW s, Shaped(s), NEW c \in Containers
  PROVE  LET v == Shown(s, c)
             q == Pages(s, c)
         IN  /\ Listed(q) /\ Len(q) = PageCount(v) /\ PageCount(v) \in Nat \ {0}
             /\ \A n \in 1..Len(q) :
                  /\ q[n].kind = "page" /\ q[n].container = c
                  /\ q[n].revision = s.revision[c] /\ q[n].index = n
                  /\ q[n].count = PageCount(v)
                  /\ Lists(Carried(q[n]), v, {n})
<1> DEFINE v == Shown(s, c)
           all == Entries(s, c)
           count == IF all = <<>> THEN 1 ELSE (Len(all) + PageSize - 1) \div PageSize
           page(n) == [kind |-> "page", container |-> c, revision |-> s.revision[c],
                       index |-> n, count |-> count, entries |-> Part(all, n)]
           q == Pages(s, c)
<1>1. q = [n \in 1..count |-> page(n)] BY DEF Pages, Part
<1>2. Listed(all) /\ Len(all) = Cardinality(Filled(v)) BY EntriesAre
<1>3. IsFiniteSet(Filled(v)) /\ PageCount(v) \in Nat \ {0} BY FilledIs
<1>4. ASSUME NEW n \in Nat \ {0}
      PROVE  Lists({Part(all, n)[k] : k \in 1..Len(Part(all, n))}, v, {n})
  BY PartLists
<1> HIDE DEF q, all, v
<1>5. count = PageCount(v)
  BY <1>2, <1>3, EmptySeq, FS_EmptySet DEF Listed, PageCount
<1> HIDE DEF count
<1>6. \A n \in 1..count : /\ page(n).kind = "page" /\ page(n).container = c
                          /\ page(n).revision = s.revision[c] /\ page(n).index = n
                          /\ page(n).count = count /\ page(n).entries = Part(all, n)
  OBVIOUS
<1> HIDE DEF page
<1>7. DOMAIN q = 1..count /\ \A n \in 1..count : q[n] = page(n) BY <1>1
<1>8. q = [n \in 1..count |-> q[n]] BY <1>1
<1>9. Listed(q) /\ Len(q) = count BY <1>3, <1>5, <1>7, <1>8, ListedFunction
<1>10. ASSUME NEW n \in 1..Len(q)
       PROVE  /\ q[n].kind = "page" /\ q[n].container = c
              /\ q[n].revision = s.revision[c] /\ q[n].index = n
              /\ q[n].count = PageCount(v)
              /\ Lists(Carried(q[n]), v, {n})
  <2>1. n \in 1..count /\ n \in Nat \ {0} BY <1>3, <1>5, <1>9
  <2>2. q[n] = page(n) BY <1>7, <2>1
  <2>3. Lists({Part(all, n)[k] : k \in 1..Len(Part(all, n))}, v, {n}) BY <1>4, <2>1
  <2>4. q[n].entries = Part(all, n) BY <1>6, <2>1, <2>2
  <2>5. Lists(Carried(q[n]), v, {n})
    <3> DEFINE e == q[n].entries
    <3>1. e = Part(all, n) BY <2>4
    <3> HIDE DEF e
    <3>2. Lists({e[k] : k \in 1..Len(e)}, v, {n}) BY <2>3, <3>1
    <3> QED BY <3>2 DEF e, Carried
  <2> QED BY <1>5, <1>6, <2>1, <2>2, <2>5
<1> QED BY <1>3, <1>5, <1>9, <1>10 DEF q, v

\* The pages take a client to the revision they are of, once it has all of them.
LEMMA PagesReach ==
  ASSUME NEW s, Shaped(s), NEW c \in Containers, NEW h, Recalls(s, c, h), NEW z, Stage(z),
         NEW w, Listed(w), Len(w) <= Len(Pages(s, c)),
         \A k \in 1..Len(w) : w[k] = Pages(s, c)[k]
  PROVE  \E y : /\ Reaches(c, h, z, w, y)
                /\ y.at = IF Len(w) = Len(Pages(s, c)) THEN s.revision[c] ELSE z.at
<1> DEFINE v == Shown(s, c)
           q == Pages(s, c)
           r == s.revision[c]
           N == PageCount(v)
           had == IF z.count = 0 \/ z.revision # r \/ z.count # N THEN 0 ELSE z.got
           More(k) == IF k <= had THEN had ELSE k
           M == Len(w)
           p == [k \in 0..M |-> IF k = 0 THEN z
                                ELSE IF k = N THEN At(r, 0, 0, 0) ELSE At(z.at, r, N, More(k))]
<1>1. LET u == Shown(s, c)
          l == Pages(s, c)
      IN  /\ Listed(l) /\ Len(l) = PageCount(u) /\ PageCount(u) \in Nat \ {0}
          /\ \A n \in 1..Len(l) :
                  /\ l[n].kind = "page" /\ l[n].container = c
                  /\ l[n].revision = s.revision[c] /\ l[n].index = n
                  /\ l[n].count = PageCount(u)
                  /\ Lists(Carried(l[n]), u, {n})
  BY PagesAre
<1>2. /\ Len(q) = N /\ N \in Nat \ {0}
      /\ \A n \in 1..N :
                  /\ q[n].kind = "page" /\ q[n].container = c
                  /\ q[n].revision = r /\ q[n].index = n /\ q[n].count = N
                  /\ Lists(Carried(q[n]), v, {n})
  BY <1>1
<1>3. r \in Nat /\ r \in DOMAIN h /\ h[r] = v
  <2>1. r \in Nat BY DEF Shaped
  <2>2. h = [n \in 0..r |-> h[n]] /\ h[r] = v BY DEF Recalls
  <2>3. DOMAIN h = 0..r BY <2>2
  <2> HIDE DEF r
  <2> QED BY <2>1, <2>2, <2>3
<1>4. M \in Nat /\ M <= N /\ \A k \in 1..M : w[k] = q[k] BY <1>2, ListedHas
<1> HIDE DEF q, M
<1>5. \A k \in 1..M :
        /\ w[k].kind = "page" /\ w[k].container = c
        /\ w[k].revision = r /\ w[k].index = k /\ w[k].count = N
        /\ Lists(Carried(w[k]), v, {k})
  <2> SUFFICES ASSUME NEW k \in 1..M
               PROVE  /\ w[k].kind = "page" /\ w[k].container = c
                      /\ w[k].revision = r /\ w[k].index = k /\ w[k].count = N
                      /\ Lists(Carried(w[k]), v, {k})
    OBVIOUS
  <2> DEFINE m == w[k]
  <2>1. k \in 1..N /\ m = q[k] BY <1>2, <1>4
  <2> HIDE DEF m, v, N, r
  <2>2. /\ m.kind = "page" /\ m.container = c
        /\ m.revision = r /\ m.index = k /\ m.count = N
        /\ Lists(Carried(m), v, {k})
    BY <1>2, <2>1
  <2> QED BY <2>2 DEF m
<1>6. had \in Nat /\ had < N
  BY <1>2 DEF Stage
<1>7. N = PageCount(h[r]) BY <1>3
<1> HIDE DEF N
<1>8. \A k \in 1..M : Tells(h, w[k])
  <2> SUFFICES ASSUME NEW k \in 1..M PROVE Tells(h, w[k]) OBVIOUS
  <2>1. k \in 1..N BY <1>2, <1>4
  <2> HIDE DEF r, v
  <2> QED BY <1>3, <1>5, <1>7, <2>1 DEF Tells
<1>9. \A k \in 1..M : About(c, w[k]) BY <1>5 DEF About
<1>10. \A k \in 0..M : p[k] = IF k = 0 THEN z
                              ELSE IF k = N THEN At(r, 0, 0, 0) ELSE At(z.at, r, N, More(k))
  OBVIOUS
<1>11. \A k \in 0..M : More(k) \in Nat /\ (k < N => More(k) < N)
  <2> HIDE DEF had
  <2> QED BY <1>2, <1>4, <1>6
<1> HIDE DEF p, v
<1>12. \A a, b, d, g : /\ At(a, b, d, g).at = a /\ At(a, b, d, g).revision = b
                       /\ At(a, b, d, g).count = d /\ At(a, b, d, g).got = g
  BY DEF At
<1>13. z.at \in Nat \cup {Unsent} BY DEF Stage
<1>14. ASSUME NEW k \in 0..M PROVE Stage(p[k])
  <2>1. CASE k = 0 BY <1>10, <2>1
  <2>2. CASE k # 0 /\ k = N
    <3>1. p[k] = At(r, 0, 0, 0) BY <1>10, <2>2
    <3> HIDE DEF r
    <3> QED BY <1>3, <1>12, <3>1 DEF Stage
  <2>3. CASE k # 0 /\ k # N
    <3> DEFINE g == More(k)
    <3>1. p[k] = At(z.at, r, N, g) BY <1>10, <2>3
    <3>2. k < N BY <1>2, <1>4, <2>3
    <3>3. g \in Nat /\ g < N BY <1>11, <3>2
    <3> HIDE DEF g, r
    <3> QED BY <1>2, <1>12, <1>13, <3>1, <3>3 DEF Stage
  <2> QED BY <2>1, <2>2, <2>3
<1>15. ASSUME NEW k \in 1..M PROVE Passes(c, h, p[k - 1], w[k], p[k])
  <2> DEFINE x == p[k - 1]
             m == w[k]
             y == p[k]
  <2>1. k \in Nat /\ k >= 1 /\ k <= N /\ k \in 0..M /\ k - 1 \in 0..M /\ k - 1 \in Nat /\ k - 1 # N
    BY <1>2, <1>4
  <2>2. x.at = z.at /\ Had(x, m) = More(k - 1)
    <3>0. m.revision = r /\ m.count = N BY <1>5
    <3>1. CASE k = 1
      BY <1>6, <1>10, <2>1, <3>0, <3>1 DEF Had
    <3>2. CASE k # 1
      <4>1. k - 1 # 0 BY <2>1, <3>2
      <4>2. x = At(z.at, r, N, More(k - 1)) BY <1>10, <2>1, <4>1
      <4> HIDE DEF m, x, r, More
      <4>3. x.count = N /\ x.revision = r /\ x.got = More(k - 1) /\ x.at = z.at
        BY <1>12, <4>2
      <4> QED BY <1>2, <3>0, <4>3 DEF Had
    <3> QED BY <3>1, <3>2
  <2>3. y = IF k = N THEN At(r, 0, 0, 0) ELSE At(z.at, r, N, More(k)) BY <1>10, <2>1
  <2>4. m.kind = "page" /\ m.revision = r /\ m.index = k /\ m.count = N BY <1>5
  <2> HIDE DEF x, y, m
  <2>5. Heeds(x, m, y)
    <3> DEFINE g == Had(x, m)
    <3>1. CASE k <= had
      <4>1. g = had /\ More(k) = had /\ k # N BY <1>2, <1>6, <2>1, <2>2, <3>1
      <4>2. y = At(z.at, r, N, had) BY <2>3, <4>1
      <4> HIDE DEF g, More, had, r
      <4> QED BY <2>2, <2>4, <3>1, <4>1, <4>2 DEF Heeds, g
    <3>2. CASE ~(k <= had)
      <4>1. g + 1 = k /\ More(k) = k
        BY <1>6, <2>1, <2>2, <3>2
      <4>2. y = IF k = N THEN At(r, 0, 0, 0) ELSE At(z.at, r, N, k) BY <2>3, <4>1
      <4>3. k < N \/ k = N BY <1>2, <2>1
      <4> HIDE DEF g, More, had, r
      <4> QED BY <2>2, <2>4, <4>1, <4>2, <4>3 DEF Heeds, g
    <3> QED BY <3>1, <3>2
  <2>6. Tells(h, m) /\ About(c, m) BY <1>8, <1>9 DEF m
  <2>7. Passes(c, h, x, m, y) BY <2>5, <2>6 DEF Passes
  <2> QED BY <2>7 DEF x, y, m
<1>16. Leads(c, h, w, p) BY <1>14, <1>15 DEF Leads, M
<1>17. p[0] = z BY <1>4, <1>10
<1>18. p[M].at = IF M = N THEN r ELSE z.at
  <2>1. M \in 0..M BY <1>4
  <2>2. CASE M = 0
    BY <1>2, <1>10, <2>1, <2>2
  <2>3. CASE M # 0
    <3>1. p[M] = IF M = N THEN At(r, 0, 0, 0) ELSE At(z.at, r, N, More(M)) BY <1>10, <2>1, <2>3
    <3> HIDE DEF r, More
    <3> QED BY <1>12, <3>1
  <2> QED BY <2>2, <2>3
<1>19. Reaches(c, h, z, w, p[M]) BY <1>16, <1>17 DEF Reaches, M
<1> QED BY <1>2, <1>18, <1>19 DEF M, q

-----------------------------------------------------------------------------
(* What a tick says.                                                       *)

\* The records since the cursor say what the history does.
LEMMA SinceTells ==
  ASSUME NEW s, Shaped(s), NEW c \in Containers, NEW h, Recalls(s, c, h), cursor[c] \in Nat,
         Since(s, c) # <<>>, Head(Since(s, c)).revision = cursor[c] + 1
  PROVE  LET news == Since(s, c)
             e == [kind |-> "deltas", container |-> c, first |-> cursor[c] + 1, records |-> news]
         IN  Len(news) \in Nat \ {0} /\ Tells(h, e)
<1> DEFINE q == s.log[c]
           O == {n \in 1..Len(q) : q[n].revision <= cursor[c]}
           older == Cardinality(O)
           last == Lesser(older + BatchSize, Len(q))
           news == Since(s, c)
           r == s.revision[c]
           l == cursor[c]
           S == {q[j] : j \in DOMAIN q}
           e == [kind |-> "deltas", container |-> c, first |-> l + 1, records |-> news]
<1>1. Listed(q) BY DEF Shaped
<1>2. Len(q) \in Nat /\ DOMAIN q = 1..Len(q) BY <1>1, ListedHas
<1>3. older \in Nat
  <2>1. IsFiniteSet(1..Len(q)) BY <1>2, FS_Interval
  <2>2. IsFiniteSet(O) BY <2>1, FS_Subset
  <2> QED BY <2>2, FS_CardinalityType
<1>4. news = SubSeq(q, older + 1, last) BY DEF Since
<1>5. /\ r \in Nat /\ h = [n \in 0..r |-> h[n]] /\ Len(q) <= r
      /\ \A n \in 1..Len(q) :
           /\ q[n].revision = r - Len(q) + n
           /\ Turns(h[q[n].revision - 1], q[n], h[q[n].revision])
  BY DEF Recalls, Shaped
<1>6. DOMAIN h = 0..r BY <1>5
<1>7. l \in Nat /\ news # <<>> /\ Head(news).revision = l + 1 OBVIOUS
<1>8. e.kind = "deltas" /\ e.first = l + 1 /\ e.records = news OBVIOUS
<1> HIDE DEF older, news, r, l, e, q, O
<1>9. last \in Nat /\ last <= Len(q) BY <1>2, <1>3, InventorySyncAssumption DEF Lesser
<1> HIDE DEF last
<1>10. /\ news \in Seq(S)
       /\ Len(news) = IF older + 1 <= last THEN last - (older + 1) + 1 ELSE 0
       /\ \A i \in 1..(last - (older + 1) + 1) : news[i] = q[older + 1 + i - 1]
  <2>1. \A i \in (older + 1)..last : i \in DOMAIN q BY <1>2, <1>3, <1>9
  <2>2. \A i \in (older + 1)..last : q[i] \in S BY <2>1
  <2> HIDE DEF S
  <2> QED BY <1>3, <1>4, <1>9, <2>2, SubSeqProperties
<1> HIDE DEF S
<1>11. Len(news) # 0 /\ Head(news) = news[1] BY <1>7, <1>10, EmptySeq, HeadTailProperties
<1>12. /\ Len(news) \in Nat \ {0} /\ Len(news) = last - older
  BY <1>3, <1>9, <1>10, <1>11
<1>13. ASSUME NEW n \in 1..Len(news) PROVE older + n \in 1..Len(q) /\ news[n] = q[older + n]
  <2>1. n \in 1..(last - (older + 1) + 1) /\ older + 1 + n - 1 = older + n
        /\ older + n \in 1..Len(q)
    BY <1>2, <1>3, <1>9, <1>12
  <2>2. news[n] = q[older + 1 + n - 1] BY <1>10, <2>1
  <2> QED BY <2>1, <2>2
<1>14. r - Len(q) + older = l
  <2>1. 1 \in 1..Len(news) BY <1>12
  <2>2. older + 1 \in 1..Len(q) /\ news[1] = q[older + 1] BY <1>13, <2>1
  <2>3. q[older + 1].revision = l + 1 BY <1>7, <1>11, <2>2
  <2>4. q[older + 1].revision = r - Len(q) + (older + 1) BY <1>5, <2>2
  <2>5. l + 1 = r - Len(q) + (older + 1) BY <2>3, <2>4
  <2>6. l \in Nat /\ r \in Nat /\ Len(q) \in Nat BY <1>2, <1>5, <1>7
  <2> DEFINE k == Len(q)
  <2>7. k \in Nat /\ l + 1 = r - k + (older + 1) BY <2>5, <2>6
  <2> HIDE DEF k
  <2>8. r - k + older = l BY <1>3, <2>6, <2>7
  <2> QED BY <2>8 DEF k
<1>15. ASSUME NEW n \in 1..Len(news)
       PROVE  /\ e.first + n - 2 \in DOMAIN h /\ e.first + n - 1 \in DOMAIN h
              /\ Turns(h[e.first + n - 2], e.records[n], h[e.first + n - 1])
  <2> DEFINE d == q[older + n]
             a == e.first + n - 2
             b == e.first + n - 1
  <2>1. older + n \in 1..Len(q) /\ news[n] = d BY <1>13
  <2>2. d.revision = r - Len(q) + (older + n) /\ Turns(h[d.revision - 1], d, h[d.revision])
    BY <1>5, <2>1
  <2> HIDE DEF d
  <2> DEFINE k == Len(q)
             f == e.first
             v == d.revision
  <2>7. /\ n \in Nat /\ n >= 1 /\ k \in Nat /\ r \in Nat /\ l \in Nat /\ f = l + 1
        /\ k <= r /\ older + n <= k /\ r - k + older = l /\ v = r - k + (older + n)
        /\ a = f + n - 2 /\ b = f + n - 1
    BY <1>2, <1>3, <1>5, <1>7, <1>8, <1>12, <1>14, <2>1, <2>2
  <2> HIDE DEF a, b, k, f, v
  <2>8. a = l + n - 1 /\ b = l + n /\ v = l + n
    BY <1>3, <2>7
  <2>9. a \in 0..r /\ b \in 0..r /\ v - 1 = a /\ v = b BY <1>3, <2>7, <2>8
  <2>3. d.revision = b /\ d.revision - 1 = a BY <2>9 DEF v
  <2>4. a \in 0..r /\ b \in 0..r BY <2>9
  <2>5. Turns(h[a], d, h[b]) BY <2>2, <2>3
  <2>6. e.records[n] = d BY <1>8, <2>1
  <2> QED BY <1>6, <2>4, <2>5, <2>6 DEF a, b, f
<1>16. e.first \in Nat \ {0} BY <1>7, <1>8
<1>17. Tells(h, e)
  BY <1>8, <1>12, <1>15, <1>16 DEF Tells
<1> QED BY <1>12, <1>17 DEF e, news, l

\* What a tick has to say of a container, all of it or its first messages.
LEMMA ToSayReach ==
  ASSUME NEW s, Shaped(s), NEW c \in Containers, NEW h, Recalls(s, c, h),
         cursor[c] \in Nat \cup {Unsent}, NEW z, Stage(z), z.at = cursor[c]
  PROVE  /\ \E y : Reaches(c, h, z, ToSay(s, c), y) /\ y.at = SentUpTo(s, c)
         /\ \A m \in 1..Len(ToSay(s, c)) :
              \E y : Reaches(c, h, z, SubSeq(ToSay(s, c), 1, m - 1), y) /\ y.at = cursor[c]
<1> DEFINE q == ToSay(s, c)
           news == Since(s, c)
           P == Pages(s, c)
           r == s.revision[c]
           l == cursor[c]
<1>1. q = CASE c \notin Observed(s) /\ l = Unsent -> <<>>
            [] c \notin Observed(s) /\ l # Unsent -> <<[kind |-> "closed", container |-> c]>>
            [] c \in Observed(s) /\ l = Unsent -> P
            [] c \in Observed(s) /\ l >= r -> <<>>
            [] OTHER -> IF news = <<>> \/ Head(news).revision # l + 1
                        THEN P
                        ELSE <<[kind |-> "deltas", container |-> c,
                                first |-> l + 1, records |-> news]>>
  BY DEF ToSay
<1>2. SentUpTo(s, c) =
        CASE q = <<>> -> l
          [] q # <<>> /\ Head(q).kind = "closed" -> Unsent
          [] q # <<>> /\ Head(q).kind = "page" -> r
          [] OTHER -> Head(q).first + Len(Head(q).records) - 1
  BY DEF SentUpTo
<1>3. Listed(q) /\ Len(q) \in Nat BY ToSaySilent, ListedHas DEF Silent
<1>4. r \in Nat /\ l \in Nat \cup {Unsent} /\ z.at = l BY DEF Shaped
<1>5. Unsent \notin Nat BY DEF Unsent
<1>6. /\ Listed(P) /\ Len(P) \in Nat \ {0} /\ \A n \in 1..Len(P) : P[n].kind = "page"
  <2>1. LET u == Shown(s, c)
            w == Pages(s, c)
        IN  /\ Listed(w) /\ Len(w) = PageCount(u) /\ PageCount(u) \in Nat \ {0}
            /\ \A n \in 1..Len(w) :
                  /\ w[n].kind = "page" /\ w[n].container = c
                  /\ w[n].revision = s.revision[c] /\ w[n].index = n
                  /\ w[n].count = PageCount(u)
                  /\ Lists(Carried(w[n]), u, {n})
    BY PagesAre
  <2> QED BY <2>1
<1>7. ASSUME NEW w, Listed(w), Len(w) <= Len(P), \A k \in 1..Len(w) : w[k] = P[k]
      PROVE  \E y : Reaches(c, h, z, w, y) /\ y.at = IF Len(w) = Len(P) THEN r ELSE z.at
  BY <1>7, PagesReach
<1>8. ASSUME l \in Nat, news # <<>>, Head(news).revision = l + 1
      PROVE  /\ Len(news) \in Nat \ {0}
             /\ Tells(h, [kind |-> "deltas", container |-> c, first |-> l + 1, records |-> news])
  BY <1>8, SinceTells
<1> HIDE DEF q, news, P, r, l
\* The first messages of one message are none.
<1>9. ASSUME Len(q) = 1, NEW m \in 1..Len(q)
      PROVE  \E y : Reaches(c, h, z, SubSeq(q, 1, m - 1), y) /\ y.at = l
  <2>1. m - 1 = 0 BY <1>9
  <2> DEFINE w == SubSeq(q, 1, 0)
  <2>2. Listed(w) /\ Len(w) = 0 BY <1>3, <1>9, StartAt
  <2> HIDE DEF w
  <2>4. \A n \in 1..Len(w) : ~About(c, w[n]) BY <2>2
  <2>3. Reaches(c, h, z, w, z) BY <2>2, <2>4, ReachesDeaf
  <2> QED BY <1>4, <2>1, <2>3 DEF w
<1>10. CASE q = <<>>
  BY <1>2, <1>3, <1>4, <1>10, ReachesDeaf DEF q, l
<1>11. CASE q = P
  <2>1. q # <<>> /\ Head(q) = P[1]
    BY <1>6, <1>11, TailAt
  <2>2. Head(q).kind = "page" BY <1>6, <2>1
  <2>3. SentUpTo(s, c) = r BY <1>2, <2>1, <2>2
  <2>4. \E y : Reaches(c, h, z, q, y) /\ y.at = r BY <1>6, <1>7, <1>11
  <2>5. ASSUME NEW m \in 1..Len(q)
        PROVE  \E y : Reaches(c, h, z, SubSeq(q, 1, m - 1), y) /\ y.at = l
    <3> DEFINE w == SubSeq(P, 1, m - 1)
    <3>1. m - 1 \in Nat /\ m - 1 <= Len(P) /\ m - 1 # Len(P) BY <1>3, <1>6, <1>11
    <3>2. Listed(w) /\ Len(w) = m - 1 /\ \A n \in 1..(m - 1) : w[n] = P[n]
      BY <1>6, <3>1, StartAt
    <3> HIDE DEF w
    <3>3. \E y : Reaches(c, h, z, w, y) /\ y.at = IF Len(w) = Len(P) THEN r ELSE z.at
      BY <1>7, <3>1, <3>2
    <3> QED BY <1>4, <1>11, <3>1, <3>2, <3>3 DEF w
  <2> QED BY <2>3, <2>4, <2>5 DEF q, l
<1>12. CASE q = <<[kind |-> "closed", container |-> c]>>
  <2> DEFINE e == [kind |-> "closed", container |-> c]
             y == At(Unsent, 0, 0, 0)
  <2>1. e.kind = "closed" /\ e.container = c OBVIOUS
  <2>2. q = <<e>> BY <1>12
  <2> HIDE DEF e
  <2>3. Len(q) = 1 /\ q # <<>> /\ Head(q) = e BY <2>2
  <2>4. Stage(y) /\ y.at = Unsent BY DEF Stage, At
  <2>5. Passes(c, h, z, e, y) BY <2>1 DEF Passes, About, Tells, Heeds
  <2> HIDE DEF y
  <2>6. Reaches(c, h, z, q, y) BY <2>2, <2>4, <2>5, ReachesOne
  <2>7. SentUpTo(s, c) = Unsent BY <1>2, <2>1, <2>3
  <2> QED BY <1>9, <2>3, <2>4, <2>6, <2>7 DEF q, l
<1>13. CASE /\ l \in Nat /\ news # <<>> /\ Head(news).revision = l + 1
            /\ q = <<[kind |-> "deltas", container |-> c, first |-> l + 1, records |-> news]>>
  <2> DEFINE e == [kind |-> "deltas", container |-> c, first |-> l + 1, records |-> news]
             y == At(e.first + Len(e.records) - 1, z.revision, z.count, z.got)
  <2>1. e.kind = "deltas" /\ e.container = c /\ e.first = l + 1 /\ e.records = news OBVIOUS
  <2>2. q = <<e>> BY <1>13
  <2>3. Len(news) \in Nat \ {0} /\ Tells(h, e) BY <1>8, <1>13
  <2> HIDE DEF e
  <2>4. Len(q) = 1 /\ q # <<>> /\ Head(q) = e BY <2>2
  <2>5. e.first + Len(e.records) - 1 \in Nat BY <1>13, <2>1, <2>3
  <2>6. /\ y.at = e.first + Len(e.records) - 1 /\ y.revision = z.revision
        /\ y.count = z.count /\ y.got = z.got /\ y = At(y.at, y.revision, y.count, y.got)
    BY DEF At
  <2>7. Heeds(z, e, y) BY <1>4, <1>5, <1>13, <2>1 DEF Heeds
  <2> HIDE DEF y
  <2>8. Stage(y) BY <2>5, <2>6 DEF Stage
  <2>12. About(c, e)
    BY <2>1 DEF About
  <2>9. Passes(c, h, z, e, y)
    <3> HIDE DEF About
    <3> QED BY <2>3, <2>7, <2>12 DEF Passes
  <2>10. Reaches(c, h, z, q, y) BY <2>2, <2>8, <2>9, ReachesOne
  <2>11. SentUpTo(s, c) = e.first + Len(e.records) - 1 BY <1>2, <2>1, <2>4
  <2> QED BY <1>9, <2>4, <2>6, <2>10, <2>11 DEF q, l
<1> QED
  BY <1>1, <1>4, <1>10, <1>11, <1>12, <1>13

\* What it has to say of one container is of that container,
LEMMA ToSayOf ==
  ASSUME NEW s, Shaped(s), NEW b \in Containers, NEW n \in 1..Len(ToSay(s, b))
  PROVE  ToSay(s, b)[n].container = b
<1> DEFINE q == ToSay(s, b)
           P == Pages(s, b)
           news == Since(s, b)
<1>1. Says(s, b, q) BY ToSayIs
<1>2. q = <<>> \/ q = <<[kind |-> "closed", container |-> b]>> \/ q = P
      \/ q = <<[kind |-> "deltas", container |-> b, first |-> cursor[b] + 1, records |-> news]>>
  BY <1>1 DEF Says
<1>3. LET u == Shown(s, b)
          w == Pages(s, b)
      IN  /\ Listed(w) /\ Len(w) = PageCount(u) /\ PageCount(u) \in Nat \ {0}
          /\ \A k \in 1..Len(w) :
                  /\ w[k].kind = "page" /\ w[k].container = b
                  /\ w[k].revision = s.revision[b] /\ w[k].index = k
                  /\ w[k].count = PageCount(u)
                  /\ Lists(Carried(w[k]), u, {k})
  BY PagesAre
<1>4. \A k \in 1..Len(P) : P[k].container = b BY <1>3
<1>5. n \in 1..Len(q) OBVIOUS
<1> HIDE DEF q, P, news
<1>6. CASE q = <<>> BY <1>5, <1>6
<1>7. CASE q = P BY <1>4, <1>5, <1>7 DEF q
<1>8. ASSUME NEW e, e.container = b, q = <<e>> PROVE q[n].container = b
  BY <1>5, <1>8
<1> QED BY <1>2, <1>6, <1>7, <1>8 DEF q

\* Messages of something else before or after change nothing.
LEMMA ReachesAround ==
  ASSUME NEW c, NEW h, NEW z, NEW y, NEW q, Listed(q), Reaches(c, h, z, q, y),
         NEW r, Listed(r), \A n \in 1..Len(r) : ~About(c, r[n])
  PROVE  Reaches(c, h, z, r \o q, y) /\ Reaches(c, h, z, q \o r, y)
BY ReachesStages, ReachesDeaf, ReachesConcat

\* What a tick says of one container with whatever was refused.
Accepted(s, refusal, c) ==
  IF refusal.of = c THEN SubSeq(ToSay(s, c), 1, refusal.at - 1) ELSE ToSay(s, c)

\* It is the first messages of what there was to say.
LEMMA AcceptedIs ==
  ASSUME NEW s, NEW refusal \in Refusals(s), NEW c \in Containers
  PROVE  /\ Listed(ToSay(s, c)) /\ Listed(Accepted(s, refusal, c))
         /\ refusal.of = c => refusal.at \in 1..Len(ToSay(s, c))
         /\ \A n \in 1..Len(Accepted(s, refusal, c)) :
              n \in 1..Len(ToSay(s, c)) /\ Accepted(s, refusal, c)[n] = ToSay(s, c)[n]
<1> DEFINE q == ToSay(s, c)
           w == Accepted(s, refusal, c)
<1>1. Listed(q) /\ Len(q) \in Nat BY ToSaySilent, ListedHas DEF Silent
<1>2. w = IF refusal.of = c THEN SubSeq(q, 1, refusal.at - 1) ELSE q BY DEF Accepted
<1>3. refusal.of = c => refusal.at \in 1..Len(q)
  BY ItemStoreAssumption, RefusalIs DEF NoRefusal
<1> HIDE DEF q, w
<1>4. CASE refusal.of = c
  <2> DEFINE m == refusal.at - 1
  <2>1. m \in Nat /\ m <= Len(q) /\ \A n \in 1..m : n \in 1..Len(q) BY <1>1, <1>3, <1>4
  <2>2. w = SubSeq(q, 1, m) BY <1>2, <1>4
  <2> HIDE DEF m
  <2>3. /\ Listed(SubSeq(q, 1, m)) /\ Len(SubSeq(q, 1, m)) = m
        /\ \A n \in 1..m : SubSeq(q, 1, m)[n] = q[n]
    BY <1>1, <2>1, StartAt
  <2> QED BY <1>1, <1>3, <2>1, <2>2, <2>3 DEF q, w
<1>5. CASE refusal.of # c BY <1>1, <1>2, <1>5 DEF q, w
<1> QED BY <1>4, <1>5

\* What a tick says of all the containers takes a client where the cursor then is.
LEMMA FlushedReach ==
  ASSUME NEW s, Shaped(s), NEW refusal \in Refusals(s), NEW c \in Containers,
         NEW h, Recalls(s, c, h), cursor[c] \in Nat \cup {Unsent},
         NEW z, Stage(z), z.at = cursor[c]
  PROVE  /\ Listed(Flushed(s, refusal))
         /\ \E y : /\ Reaches(c, h, z, Flushed(s, refusal), y)
                   /\ y.at = IF refusal.of = c THEN cursor[c] ELSE SentUpTo(s, c)
<1> DEFINE A(b) == Accepted(s, refusal, b)
           own == A("own")
           arms == A("arms")
           stock == A("stock")
<1>1. Containers = {"own", "arms", "stock"} BY ItemStoreAssumption
<1>2. Flushed(s, refusal) = IF "stock" \in Observed(s) THEN (own \o arms) \o stock
                            ELSE stock \o (own \o arms)
  BY DEF Flushed, Accepted
<1>3. \A b \in Containers : Listed(A(b)) BY AcceptedIs
<1>4. ASSUME NEW b \in Containers, b # c, NEW n \in 1..Len(A(b)) PROVE ~About(c, A(b)[n])
  <2>1. n \in 1..Len(ToSay(s, b)) /\ A(b)[n] = ToSay(s, b)[n] BY AcceptedIs
  <2>2. ToSay(s, b)[n].container = b BY <2>1, ToSayOf
  <2> HIDE DEF A
  <2> QED BY <1>4, <2>1, <2>2 DEF About
<1>5. \E y : /\ Reaches(c, h, z, A(c), y)
             /\ y.at = IF refusal.of = c THEN cursor[c] ELSE SentUpTo(s, c)
  <2>1. /\ \E y : Reaches(c, h, z, ToSay(s, c), y) /\ y.at = SentUpTo(s, c)
        /\ \A m \in 1..Len(ToSay(s, c)) :
              \E y : Reaches(c, h, z, SubSeq(ToSay(s, c), 1, m - 1), y) /\ y.at = cursor[c]
    BY ToSayReach
  <2>2. CASE refusal.of = c
    <3>1. refusal.at \in 1..Len(ToSay(s, c)) BY <2>2, AcceptedIs
    <3>2. A(c) = SubSeq(ToSay(s, c), 1, refusal.at - 1) BY <2>2 DEF Accepted
    <3> HIDE DEF A
    <3> QED BY <2>1, <2>2, <3>1, <3>2
  <2>3. CASE refusal.of # c
    <3>1. A(c) = ToSay(s, c) BY <2>3 DEF Accepted
    <3> HIDE DEF A
    <3> QED BY <2>1, <2>3, <3>1
  <2> QED BY <2>2, <2>3
<1>6. PICK y : /\ Reaches(c, h, z, A(c), y)
               /\ y.at = IF refusal.of = c THEN cursor[c] ELSE SentUpTo(s, c)
  BY <1>5
<1>7. Listed(own) /\ Listed(arms) /\ Listed(stock) BY <1>1, <1>3
<1>8. /\ c # "own" => \A n \in 1..Len(own) : ~About(c, own[n])
      /\ c # "arms" => \A n \in 1..Len(arms) : ~About(c, arms[n])
      /\ c # "stock" => \A n \in 1..Len(stock) : ~About(c, stock[n])
  BY <1>1, <1>4
<1>9. /\ c = "own" => Reaches(c, h, z, own, y)
      /\ c = "arms" => Reaches(c, h, z, arms, y)
      /\ c = "stock" => Reaches(c, h, z, stock, y)
  BY <1>6
<1> HIDE DEF A, own, arms, stock
<1> DEFINE owned == own \o arms
<1>10. Listed(owned) BY <1>7, ListedConcat
<1>11. c \in {"own", "arms"} => Reaches(c, h, z, owned, y)
  BY <1>7, <1>8, <1>9, ReachesAround
<1>12. c = "stock" => \A n \in 1..Len(owned) : ~About(c, owned[n])
  BY <1>7, <1>8, ListedConcat
<1> HIDE DEF owned
<1>13. Reaches(c, h, z, owned \o stock, y) /\ Reaches(c, h, z, stock \o owned, y)
  BY <1>1, <1>7, <1>8, <1>9, <1>10, <1>11, <1>12, ReachesAround
<1>14. Listed(owned \o stock) /\ Listed(stock \o owned) BY <1>7, <1>10, ListedConcat
<1>15. Flushed(s, refusal) = IF "stock" \in Observed(s) THEN owned \o stock ELSE stock \o owned
  BY <1>2 DEF owned
<1>16. Reaches(c, h, z, Flushed(s, refusal), y) BY <1>13, <1>15
<1>17. Listed(Flushed(s, refusal)) BY <1>14, <1>15
<1> QED BY <1>6, <1>16, <1>17

\* Answers are of no container.
LEMMA AnswersDeaf ==
  ASSUME Recorded, NEW s, NEW refusal \in Refusals(s), NEW c
  PROVE  /\ Listed(Answers(refusal))
         /\ \A n \in 1..Len(Answers(refusal)) : ~About(c, Answers(refusal)[n])
BY AnswersTruthful, ListedHas DEF Answers, About

\* A tick takes the messages on the way to where the cursors then are,
LEMMA TickReach ==
  ASSUME Recorded, InStep(store, hand, synced), Counted, Copied, Tick,
         NEW c \in Containers, NEW h, Recalls(store', c, h),
         NEW z, NEW y, Reaches(c, h, z, toClient, y), y.at = cursor[c]
  PROVE  \E x : Reaches(c, h, z, toClient', x) /\ x.at = cursor'[c]
<1> DEFINE g == write_back_weapon_states(Loadout(store, hand, synced))
           s == g.store
<1>1. store' = s BY DEF Tick
<1>2. \E refusal \in Refusals(s) :
        /\ toClient' = toClient \o Flushed(s, refusal) \o Answers(refusal)
        /\ cursor' = [b \in Containers |-> IF refusal.of = b THEN cursor[b]
                                           ELSE SentUpTo(s, b)]
  BY DEF Tick
<1> HIDE DEF s
<1>3. Shaped(s)
  <2>1. ServerKept BY TickKeeps
  <2>2. Sound(store') BY <2>1 DEF ServerKept, InStep, Sound, Shaped, SlotsAgree, PropsAgree,
                                 Numbered, Measured, InWorld, Live
  <2> QED BY <1>1, <2>2 DEF Sound
<1>4. PICK refusal \in Refusals(s) :
        /\ toClient' = toClient \o Flushed(s, refusal) \o Answers(refusal)
        /\ cursor' = [b \in Containers |-> IF refusal.of = b THEN cursor[b]
                                           ELSE SentUpTo(s, b)]
  BY <1>2
<1>5. Listed(toClient) /\ cursor[c] \in Nat \cup {Unsent} BY DEF Recorded, Copied
<1>6. Recalls(s, c, h) BY <1>1
<1>7. Stage(y) BY <1>5, ReachesStages
<1>8. /\ Listed(Flushed(s, refusal))
      /\ \E x : /\ Reaches(c, h, y, Flushed(s, refusal), x)
                /\ x.at = IF refusal.of = c THEN cursor[c] ELSE SentUpTo(s, c)
  BY <1>3, <1>5, <1>6, <1>7, FlushedReach
<1>9. PICK x : /\ Reaches(c, h, y, Flushed(s, refusal), x)
               /\ x.at = IF refusal.of = c THEN cursor[c] ELSE SentUpTo(s, c)
  BY <1>8
<1> DEFINE q == Flushed(s, refusal)
           r == Answers(refusal)
<1>10. Listed(q) /\ Reaches(c, h, y, q, x) BY <1>8, <1>9
<1>11. Listed(r) /\ \A n \in 1..Len(r) : ~About(c, r[n]) BY AnswersDeaf
<1> HIDE DEF q, r
<1>12. Reaches(c, h, z, toClient \o q, x) BY <1>5, <1>10, ReachesConcat
<1>13. Listed(toClient \o q) BY <1>5, <1>10, ListedConcat
<1>14. Reaches(c, h, z, (toClient \o q) \o r, x) BY <1>11, <1>12, <1>13, ReachesAround
<1>15. toClient' = (toClient \o q) \o r BY <1>4 DEF q, r
<1>16. cursor'[c] = IF refusal.of = c THEN cursor[c] ELSE SentUpTo(s, c) BY <1>4
<1> QED BY <1>9, <1>14, <1>15, <1>16

\* a call for a snapshot takes one,
LEMMA SnapshotReach ==
  ASSUME Recorded, InStep(store, hand, synced), Copied,
         NEW d \in Containers, HandleSnapshotRequest(d),
         NEW c \in Containers, NEW h, Recalls(store, c, h),
         NEW z, NEW y, Reaches(c, h, z, toClient, y), y.at = cursor[c]
  PROVE  \E x : Reaches(c, h, z, toClient', x) /\ x.at = cursor'[c]
<1> DEFINE P == Pages(store, d)
<1>1. Listed(toClient) /\ cursor \in [Containers -> Nat \cup {Unsent}] BY DEF Recorded, Copied
<1>2. Shaped(store) BY DEF InStep, Sound
<1>3. LET u == Shown(store, d)
          w == Pages(store, d)
      IN  /\ Listed(w) /\ Len(w) = PageCount(u) /\ PageCount(u) \in Nat \ {0}
          /\ \A n \in 1..Len(w) :
                  /\ w[n].kind = "page" /\ w[n].container = d
                  /\ w[n].revision = store.revision[d] /\ w[n].index = n
                  /\ w[n].count = PageCount(u)
                  /\ Lists(Carried(w[n]), u, {n})
  BY <1>2, PagesAre
<1>4. Listed(P) /\ Len(P) \in Nat \ {0} /\ \A n \in 1..Len(P) : P[n].container = d BY <1>3
<1>5. \/ toClient' = toClient /\ cursor' = cursor
      \/ toClient' = toClient \o P /\ cursor' = [cursor EXCEPT ![d] = store.revision[d]]
      \/ \E n \in 1..Len(P) : toClient' = toClient \o SubSeq(P, 1, n - 1) /\ cursor' = cursor
  <2> DEFINE R == IF d \in Observed(store) /\ scenario.faults > 0
                  THEN {NoRefusal} \cup {[of |-> d, at |-> n] : n \in 1..Len(P)}
                  ELSE {NoRefusal}
  <2>1. PICK refusal \in R :
          \/ toClient' = toClient /\ cursor' = cursor
          \/ toClient' = toClient \o P /\ cursor' = [cursor EXCEPT ![d] = store.revision[d]]
          \/ /\ refusal # NoRefusal /\ toClient' = toClient \o SubSeq(P, 1, refusal.at - 1)
             /\ cursor' = cursor
    BY DEF HandleSnapshotRequest
  <2>2. refusal = NoRefusal \/ \E n \in 1..Len(P) : refusal = [of |-> d, at |-> n]
    <3> HIDE DEF P
    <3> QED OBVIOUS
  <2> HIDE DEF P, R
  <2>3. ASSUME NEW n \in 1..Len(P), refusal = [of |-> d, at |-> n],
               toClient' = toClient \o SubSeq(P, 1, refusal.at - 1), cursor' = cursor
        PROVE  \E k \in 1..Len(P) : toClient' = toClient \o SubSeq(P, 1, k - 1) /\ cursor' = cursor
    BY <2>3
  <2> QED BY <2>1, <2>2, <2>3
<1>6. Stage(y) BY <1>1, ReachesStages
<1>7. ASSUME NEW w, Listed(w), Len(w) <= Len(P), \A k \in 1..Len(w) : w[k] = P[k], d = c
      PROVE  \E x : Reaches(c, h, y, w, x)
                    /\ x.at = IF Len(w) = Len(P) THEN store.revision[c] ELSE y.at
  BY <1>2, <1>6, <1>7, PagesReach
<1> HIDE DEF P
<1>8. CASE toClient' = toClient /\ cursor' = cursor BY <1>8
<1>9. CASE toClient' = toClient \o P /\ cursor' = [cursor EXCEPT ![d] = store.revision[d]]
  <2>1. CASE d = c
    <3>1. Len(P) <= Len(P) BY <1>4
    <3>2. PICK x : Reaches(c, h, y, P, x) /\ x.at = store.revision[c] BY <1>4, <1>7, <2>1, <3>1
    <3>3. Reaches(c, h, z, toClient \o P, x) BY <1>1, <1>4, <3>2, ReachesConcat
    <3>4. cursor'[c] = store.revision[c] BY <1>1, <1>9, <2>1
    <3> QED BY <1>9, <3>2, <3>3, <3>4
  <2>2. CASE d # c
    <3>1. \A n \in 1..Len(P) : ~About(c, P[n]) BY <1>4, <2>2 DEF About
    <3>2. Reaches(c, h, z, toClient \o P, y) BY <1>1, <1>4, <3>1, ReachesAround
    <3>3. cursor'[c] = cursor[c] BY <1>1, <1>9, <2>2
    <3> QED BY <1>9, <3>2, <3>3
  <2> QED BY <2>1, <2>2
<1>10. ASSUME NEW n \in 1..Len(P), toClient' = toClient \o SubSeq(P, 1, n - 1), cursor' = cursor
       PROVE  \E x : Reaches(c, h, z, toClient', x) /\ x.at = cursor'[c]
  <2> DEFINE m == n - 1
             w == SubSeq(P, 1, m)
  <2>1. m \in Nat /\ m <= Len(P) /\ m # Len(P) /\ \A k \in 1..m : k \in 1..Len(P) BY <1>4
  <2>2. toClient' = toClient \o w BY <1>10
  <2> HIDE DEF m
  <2>3. Listed(w) /\ Len(w) = m /\ \A k \in 1..m : w[k] = P[k] BY <1>4, <2>1, StartAt
  <2> HIDE DEF w
  <2>4. CASE d = c
    <3>1. PICK x : Reaches(c, h, y, w, x) /\ x.at = y.at BY <1>7, <2>1, <2>3, <2>4
    <3>2. Reaches(c, h, z, toClient \o w, x) BY <1>1, <2>3, <3>1, ReachesConcat
    <3> QED BY <1>10, <2>2, <3>1, <3>2
  <2>5. CASE d # c
    <3>1. \A k \in 1..Len(w) : ~About(c, w[k]) BY <1>4, <2>1, <2>3, <2>5 DEF About
    <3>2. Reaches(c, h, z, toClient \o w, y) BY <1>1, <2>3, <3>1, ReachesAround
    <3> QED BY <1>10, <2>2, <3>2
  <2> QED BY <2>4, <2>5
<1> QED BY <1>5, <1>8, <1>9, <1>10

\* and every other step of the server says nothing.
LEMMA ServerReach ==
  ASSUME Inventoried, Copied, Tick \/ ServerReceive \/ World \/ submit_gameplay_request,
         NEW c \in Containers, NEW h, Recalls(store', c, h),
         NEW z, NEW y, Reaches(c, h, z, toClient, y), y.at = cursor[c]
  PROVE  \E x : Reaches(c, h, z, toClient', x) /\ x.at = cursor'[c]
<1>1. Recorded /\ InStep(store, hand, synced) /\ Counted BY DEF Inventoried, Stored
<1>2. CASE Tick BY <1>1, <1>2, TickReach
<1>3. CASE ServerReceive
  <2> DEFINE m == Head(toServer)
  <2>1. toServer # <<>> BY <1>3 DEF ServerReceive
  <2>2. m = toServer[1] /\ 1 \in 1..Len(toServer) BY <1>1, <2>1, ListedTail DEF Recorded
  <2>3. CASE m.kind = "snapshot" /\ HandleSnapshotRequest(m.container)
    BY <1>1, <2>2, <2>3, SnapshotReach DEF Recorded, Asking, HandleSnapshotRequest,
      requestVars
  <2>4. CASE UNCHANGED <<inside, asked, cursor, toClient, scenario>> BY <2>4
  <2> QED BY <1>3, <2>3, <2>4 DEF ServerReceive
<1>4. CASE World BY <1>4 DEF World, syncVars
<1>5. CASE submit_gameplay_request BY <1>5 DEF submit_gameplay_request
<1> QED BY <1>2, <1>3, <1>4, <1>5

-----------------------------------------------------------------------------
(* The client's copy.                                                      *)

\* x is what a copy may know of item i of store t, now or earlier.
Known(t, i, x) ==
  \/ x.template = "none"
  \/ /\ i < t.nextItem /\ x.template = t.items[i].template
     /\ IF x.template \in Single THEN x.quantity \in {0, 1} ELSE x.state = t.items[i].state

\* What is in a slot of container c says so.
Held(s, c) ==
  \A k \in 1..Capacity[c] : s.slots[c][k] # 0 => s.items[s.slots[c][k]].at = InSlot(c, k)

\* s is a copy of store t, as it is or was.
Mirrors(t, s) ==
  /\ Shaped(s)
  /\ \A c \in Containers :
       /\ Proper(t, c, Shown(s, c)) /\ Held(s, c)
       /\ c \notin s.open => \A k \in 1..Capacity[c] : s.slots[c][k] = 0
  /\ \A i \in Ids : Known(t, i, s.items[i])

\* From s to u nothing changed but container c.
Elsewhere(s, u, c) ==
  \A b \in Containers : b # c =>
    /\ u.slots[b] = s.slots[b] /\ u.revision[b] = s.revision[b]
    /\ b \in u.open <=> b \in s.open
    /\ \A k \in 1..Capacity[b] :
         s.slots[b][k] # 0 => u.items[s.slots[b][k]] = s.items[s.slots[b][k]]

\* Over two steps nothing else changed either.
LEMMA ElsewhereTrans ==
  ASSUME NEW s, NEW u, NEW w, NEW c, Elsewhere(s, u, c), Elsewhere(u, w, c)
  PROVE  Elsewhere(s, w, c)
BY DEF Elsewhere

\* The other containers show what they did,
LEMMA ElsewhereShown ==
  ASSUME NEW s, NEW u, NEW c, Elsewhere(s, u, c), NEW b \in Containers, b # c
  PROVE  Shown(u, b) = Shown(s, b)
BY ShownSame DEF Elsewhere

\* and with container c as it should be the store is a copy still.
LEMMA MirrorsWith ==
  ASSUME NEW t, NEW s, Mirrors(t, s), NEW u, Shaped(u), NEW c \in Containers,
         Elsewhere(s, u, c), Proper(t, c, Shown(u, c)), Held(u, c),
         c \notin u.open => \A k \in 1..Capacity[c] : u.slots[c][k] = 0,
         \A i \in Ids : Known(t, i, u.items[i])
  PROVE  Mirrors(t, u)
<1>1. ASSUME NEW b \in Containers, b # c
      PROVE  /\ Proper(t, b, Shown(u, b)) /\ Held(u, b)
             /\ b \notin u.open => \A k \in 1..Capacity[b] : u.slots[b][k] = 0
  <2>1. Shown(u, b) = Shown(s, b) BY <1>1, ElsewhereShown
  <2>2. /\ Proper(t, b, Shown(s, b)) /\ Held(s, b)
        /\ b \notin s.open => \A k \in 1..Capacity[b] : s.slots[b][k] = 0
    BY DEF Mirrors
  <2>3. /\ u.slots[b] = s.slots[b]
        /\ b \in u.open <=> b \in s.open
        /\ \A k \in 1..Capacity[b] :
             s.slots[b][k] # 0 => u.items[s.slots[b][k]] = s.items[s.slots[b][k]]
    BY <1>1 DEF Elsewhere
  <2>4. Held(u, b) BY <2>2, <2>3 DEF Held
  <2> QED BY <2>1, <2>2, <2>3, <2>4
<1> QED BY <1>1 DEF Mirrors

\* A copy of what a store was is a copy of what it becomes.
LEMMA MirrorsLasts ==
  ASSUME NEW t, NEW w, Shaped(t), Shaped(w), Lasts(t, w), NEW s, Mirrors(t, s)
  PROVE  Mirrors(w, s)
<1>1. ASSUME NEW i \in Ids PROVE Known(w, i, s.items[i])
  <2>1. Known(t, i, s.items[i]) BY DEF Mirrors
  <2>2. t.nextItem \in Nat /\ w.nextItem \in Nat /\ t.nextItem <= w.nextItem /\ i \in Nat
    BY ItemStoreAssumption DEF Shaped, Lasts, Ids
  <2>3. i < t.nextItem =>
          /\ w.items[i].template = t.items[i].template
          /\ t.items[i].template \notin Single => w.items[i].state = t.items[i].state
    BY DEF Lasts
  <2> QED BY <2>1, <2>2, <2>3 DEF Known
<1>2. ASSUME NEW c \in Containers PROVE Proper(w, c, Shown(s, c))
  BY ProperLasts DEF Mirrors
<1> QED BY <1>1, <1>2 DEF Mirrors

\* An item of one container is in no slot of another.
LEMMA HomeAlone ==
  ASSUME NEW t, NEW s, Mirrors(t, s), NEW c \in Containers, NEW e, Genuine(t, c, e),
         NEW b \in Containers, b # c, NEW k \in 1..Capacity[b]
  PROVE  s.slots[b][k] # e.id
<1> SUFFICES ASSUME s.slots[b][k] = e.id PROVE FALSE OBVIOUS
<1> DEFINE v == Shown(s, b)
<1>1. Shaped(s) /\ Proper(t, b, v) BY DEF Mirrors
<1>2. v[k].id = e.id BY <1>1, ShownIds
<1>3. e.id \in Ids /\ e.template = t.items[e.id].template /\ Home(e.id, e.template) = c
  BY DEF Genuine
<1>4. e.id # 0 BY <1>3 DEF Ids
<1> HIDE DEF v
<1>5. v[k] # Nothing BY <1>2, <1>4 DEF Nothing
<1>6. Genuine(t, b, v[k]) BY <1>1, <1>5 DEF Proper
<1>7. v[k].template = t.items[e.id].template /\ Home(e.id, v[k].template) = b
  BY <1>2, <1>6 DEF Genuine
<1> QED BY <1>3, <1>7

\* What is shown of an item in a proper view.
LEMMA ProperAt ==
  ASSUME NEW t, NEW c, NEW v, Proper(t, c, v), NEW k \in 1..Capacity[c]
  PROVE  /\ v[k].id = 0 => v[k] = Nothing
         /\ v[k].id # 0 => Genuine(t, c, v[k]) /\ v[k] = Bare(v[k].id, v[k])
         /\ DOMAIN v = 1..Capacity[c]
BY DEF Proper, Genuine, Ids, Nothing

\* apply_replica_snapshot with the entries of all that container c showed once: the
\* container shows that again.
LEMMA ReplacedMirrors ==
  ASSUME NEW t, Shaped(t), NEW s, Mirrors(t, s), NEW c \in Containers,
         NEW v, Proper(t, c, v), NEW E, NEW S, Lists(E, v, S),
         \A k \in Filled(v) : PageOf(v, k) \in S, NEW r \in Nat
  PROVE  LET u == Replaced(s, c, r, E)
         IN  /\ Mirrors(t, u) /\ Elsewhere(s, u, c) /\ Shown(u, c) = v
             /\ u.revision[c] = r /\ u.open = s.open \cup {c}
<1> DEFINE Of(i) == {e \in E : e.id = i}
           In(k) == {e \in E : e.slot = k}
           Gone(i) == InInventory(s, i) /\ s.items[i].at.container = c
           F == [i \in Ids |->
                   IF Of(i) # {}
                   THEN LET e == CHOOSE x \in Of(i) : TRUE
                        IN [e.item EXCEPT !.at = InSlot(c, e.slot)]
                   ELSE IF Gone(i) THEN [s.items[i] EXCEPT !.quantity = 0, !.at = Terminal]
                   ELSE s.items[i]]
           G == [k \in 1..Capacity[c] |->
                   IF In(k) = {} THEN 0 ELSE (CHOOSE e \in In(k) : TRUE).id]
           slots == [s.slots EXCEPT ![c] = G]
           revision == [s.revision EXCEPT ![c] = r]
           open == s.open \cup {c}
           u == Replaced(s, c, r, E)
<1>1. Shaped(s) BY DEF Mirrors
<1>2. s = [items |-> s.items, slots |-> s.slots, open |-> s.open,
           revision |-> s.revision, log |-> s.log,
           nextItem |-> s.nextItem, nextProp |-> s.nextProp, props |-> s.props]
  BY <1>1 DEF Shaped
<1>3. u = [s EXCEPT !.items = F, !.slots[c] = G, !.revision[c] = r, !.open = @ \cup {c}]
  BY DEF Replaced
<1> HIDE DEF F, G, u
<1>4. u = [items |-> F, slots |-> slots, open |-> open, revision |-> revision, log |-> s.log,
           nextItem |-> s.nextItem, nextProp |-> s.nextProp, props |-> s.props]
  BY <1>2, <1>3
<1>5. /\ s.items = [i \in Ids |-> s.items[i]] /\ \A i \in Ids : IsItem(s.items[i])
      /\ s.slots = [d \in Containers |-> s.slots[d]]
      /\ \A d \in Containers : s.slots[d] \in [1..Capacity[d] -> Ids \cup {0}]
      /\ s.open \subseteq Containers /\ s.revision \in [Containers -> Nat]
  BY <1>1 DEF Shaped
\* What the entries say.
<1>6. ASSUME NEW e \in E
      PROVE  /\ e.slot \in 1..Capacity[c] /\ e.id \in Ids /\ e.id = v[e.slot].id
             /\ IsItem(e.item) /\ Bare(e.id, e.item) = v[e.slot] /\ Genuine(t, c, v[e.slot])
  <2>1. e.slot \in Filled(v) /\ IsItem(e.item) /\ e.id = v[e.slot].id
        /\ Bare(e.id, e.item) = v[e.slot]
    BY DEF Lists
  <2>2. e.slot \in DOMAIN v /\ v[e.slot].id # 0 BY <2>1 DEF Filled
  <2>3. DOMAIN v = 1..Capacity[c] BY DEF Proper
  <2>4. e.slot \in 1..Capacity[c] BY <2>2, <2>3
  <2>5. Genuine(t, c, v[e.slot]) BY <2>2, <2>4, ProperAt
  <2>6. v[e.slot].id \in Ids BY <2>5 DEF Genuine
  <2> QED BY <2>1, <2>4, <2>5, <2>6
<1>7. ASSUME NEW k \in 1..Capacity[c], v[k].id # 0 PROVE \E e \in E : e.slot = k
  BY <1>7 DEF Filled, Proper, Lists
<1>8. \A j, k \in 1..Capacity[c] : v[j].id = v[k].id /\ v[j].id # 0 => j = k BY DEF Proper
<1>9. ASSUME NEW i \in Ids
      PROVE  \/ \E e \in E : /\ e.id = i /\ IsItem(F[i])
                             /\ F[i].template = e.item.template
                             /\ F[i].quantity = e.item.quantity
                             /\ F[i].state = e.item.state /\ F[i].at = InSlot(c, e.slot)
             \/ /\ \A e \in E : e.id # i
                /\ Gone(i) /\ IsItem(F[i]) /\ F[i].template = s.items[i].template
                /\ F[i].quantity = 0 /\ F[i].state = s.items[i].state
             \/ (\A e \in E : e.id # i) /\ ~Gone(i) /\ F[i] = s.items[i] /\ IsItem(F[i])
  <2>1. CASE Of(i) # {}
    <3> DEFINE e == CHOOSE x \in Of(i) : TRUE
    <3>1. F[i] = [e.item EXCEPT !.at = InSlot(c, e.slot)] BY <2>1 DEF F
    <3>2. e \in E /\ e.id = i BY <2>1
    <3> HIDE DEF e
    <3>3. IsItem(e.item) /\ e.slot \in 1..Capacity[c] BY <1>6, <3>2
    <3>4. IsPlace(InSlot(c, e.slot)) BY <3>3 DEF IsPlace
    <3> DEFINE x == e.item
               at == InSlot(c, e.slot)
    <3>5. IsItem(x) /\ IsPlace(at) /\ F[i] = [x EXCEPT !.at = at] BY <3>1, <3>3, <3>4
    <3> HIDE DEF x, at
    <3>6. IsItem([x EXCEPT !.at = at])
          /\ [x EXCEPT !.at = at] = [template |-> x.template, quantity |-> x.quantity,
                                     used |-> x.used, state |-> x.state, at |-> at]
      BY <3>5, ItemWith
    <3>7. /\ IsItem(F[i]) /\ F[i].template = x.template /\ F[i].quantity = x.quantity
          /\ F[i].state = x.state /\ F[i].at = at
      BY <3>5, <3>6
    <3> QED BY <3>2, <3>7 DEF x, at
  <2>2. CASE Of(i) = {} /\ Gone(i)
    <3> DEFINE x == s.items[i]
    <3>1. F[i] = [x EXCEPT !.quantity = 0, !.at = Terminal] BY <2>2 DEF F
    <3>2. IsItem(x) BY <1>5
    <3> HIDE DEF x
    <3>3. x = [template |-> x.template, quantity |-> x.quantity, used |-> x.used,
               state |-> x.state, at |-> x.at]
      BY <3>2 DEF IsItem
    <3>4. F[i] = [template |-> x.template, quantity |-> 0, used |-> x.used,
                  state |-> x.state, at |-> Terminal]
      BY <3>1, <3>3
    <3>5. IsItem(F[i]) BY <3>2, <3>4 DEF IsItem, IsPlace
    <3>6. \A e \in E : e.id # i BY <2>2
    <3>7. F[i].template = x.template /\ F[i].quantity = 0 /\ F[i].state = x.state BY <3>4
    <3> QED BY <2>2, <3>5, <3>6, <3>7 DEF x
  <2>3. CASE Of(i) = {} /\ ~Gone(i)
    BY <1>5, <2>3 DEF F
  <2> QED BY <2>1, <2>2, <2>3
<1>10. F = [i \in Ids |-> F[i]] BY DEF F
<1>11. G \in [1..Capacity[c] -> Ids \cup {0}] /\ \A k \in 1..Capacity[c] : G[k] = v[k].id
  <2>1. ASSUME NEW k \in 1..Capacity[c] PROVE G[k] = v[k].id /\ G[k] \in Ids \cup {0}
    <3>1. G[k] = IF In(k) = {} THEN 0 ELSE (CHOOSE e \in In(k) : TRUE).id BY DEF G
    <3>2. CASE In(k) = {}
      BY <1>7, <3>1, <3>2
    <3>3. CASE In(k) # {}
      <4> DEFINE e == CHOOSE x \in In(k) : TRUE
      <4>1. G[k] = e.id BY <3>1, <3>3
      <4>2. e \in E /\ e.slot = k BY <3>3
      <4> HIDE DEF e
      <4>3. e.id \in Ids /\ e.id = v[e.slot].id BY <1>6, <4>2
      <4> QED BY <4>1, <4>2, <4>3
    <3> QED BY <3>2, <3>3
  <2>2. G = [k \in 1..Capacity[c] |-> G[k]] BY DEF G
  <2> QED BY <2>1, <2>2
<1> HIDE DEF Of, In, slots, revision, open
<1>12. /\ u.items = F /\ u.slots = slots /\ u.revision = revision /\ u.open = open
       /\ u.log = s.log /\ u.nextItem = s.nextItem /\ u.nextProp = s.nextProp
       /\ u.props = s.props
  BY <1>4
<1>13. slots[c] = G /\ \A b \in Containers : b # c => slots[b] = s.slots[b]
  BY <1>5 DEF slots
<1>14. revision[c] = r /\ \A b \in Containers : b # c => revision[b] = s.revision[b]
  BY <1>5 DEF revision
<1>15. Shaped(u)
  <2>1. u = [items |-> u.items, slots |-> u.slots, open |-> u.open,
             revision |-> u.revision, log |-> u.log,
             nextItem |-> u.nextItem, nextProp |-> u.nextProp, props |-> u.props]
    BY <1>4, <1>12
  <2>2. \A i \in Ids : IsItem(F[i]) BY <1>9
  <2>3. slots = [d \in Containers |-> slots[d]] BY <1>5 DEF slots
  <2>4. \A d \in Containers : slots[d] \in [1..Capacity[d] -> Ids \cup {0}]
    BY <1>5, <1>11, <1>13
  <2>5. revision \in [Containers -> Nat] BY <1>5 DEF revision
  <2>6. open \subseteq Containers BY <1>5 DEF open
  <2>7. /\ s.log = [d \in Containers |-> s.log[d]] /\ \A d \in Containers : Listed(s.log[d])
        /\ s.nextItem \in Nat /\ s.nextProp \in Nat /\ s.props \subseteq Nat
    BY <1>1 DEF Shaped
  <2> QED BY <1>10, <1>12, <2>1, <2>2, <2>3, <2>4, <2>5, <2>6, <2>7 DEF Shaped
\* An entry's item is the one in its slot.
<1>16. ASSUME NEW k \in 1..Capacity[c], v[k].id # 0
       PROVE  /\ v[k].id \in Ids /\ F[v[k].id].at = InSlot(c, k)
              /\ Bare(v[k].id, F[v[k].id]) = v[k]
  <2> DEFINE i == v[k].id
  <2>1. PICK x \in E : x.slot = k BY <1>7, <1>16
  <2>2. x.id \in Ids /\ x.id = i BY <1>6, <2>1
  <2>3. i \in Ids /\ i # 0 BY <1>16, <2>2
  <2> HIDE DEF i
  <2>4. PICK e \in E : /\ e.id = i
                       /\ F[i].template = e.item.template
                       /\ F[i].quantity = e.item.quantity
                       /\ F[i].state = e.item.state /\ F[i].at = InSlot(c, e.slot)
    BY <1>9, <2>2, <2>3
  <2>5. e.slot \in 1..Capacity[c] /\ v[e.slot].id = i /\ Bare(i, e.item) = v[e.slot]
    BY <1>6, <2>4
  <2>6. e.slot = k BY <1>8, <2>3, <2>5 DEF i
  <2>7. Bare(i, F[i]) = Bare(i, e.item) BY <2>4 DEF Bare
  <2> QED BY <2>3, <2>4, <2>5, <2>6, <2>7 DEF i
<1>17. Shown(u, c) = v
  <2> DEFINE w == Shown(u, c)
  <2>1. \A k \in 1..Capacity[c] :
          w[k] = IF G[k] = 0 THEN Nothing ELSE Bare(G[k], F[G[k]])
    BY <1>12, <1>13 DEF Shown
  <2>2. w = [k \in 1..Capacity[c] |-> w[k]] BY DEF Shown
  <2> HIDE DEF w
  <2>3. ASSUME NEW k \in 1..Capacity[c] PROVE w[k] = v[k]
    BY <1>11, <1>16, <2>1, ProperAt
  <2>4. v = [k \in 1..Capacity[c] |-> v[k]] BY DEF Proper
  <2>5. w = v BY <2>2, <2>3, <2>4
  <2> QED BY <2>5 DEF w
<1>18. Held(u, c)
  BY <1>11, <1>12, <1>13, <1>16 DEF Held
<1>19. Elsewhere(s, u, c)
  <2>1. ASSUME NEW b \in Containers, b # c, NEW k \in 1..Capacity[b], s.slots[b][k] # 0
        PROVE  u.items[s.slots[b][k]] = s.items[s.slots[b][k]]
    <3> DEFINE i == s.slots[b][k]
    <3>1. i \in Ids BY <1>5, <2>1
    <3>2. s.items[i].at = InSlot(b, k) BY <2>1 DEF Mirrors, Held
    <3>3. ~Gone(i) BY <2>1, <3>2 DEF InSlot
    <3>4. ASSUME NEW e \in E PROVE e.id # i
      BY <1>6, <2>1, HomeAlone
    <3> HIDE DEF i, Gone
    <3>5. F[i] = s.items[i] BY <1>9, <3>1, <3>3, <3>4
    <3> QED BY <1>12, <3>5 DEF i
  <2>2. \A b \in Containers : b # c => (b \in u.open <=> b \in s.open) BY <1>12 DEF open
  <2> QED BY <1>12, <1>13, <1>14, <2>1, <2>2 DEF Elsewhere
<1>20. ASSUME NEW i \in Ids PROVE Known(t, i, u.items[i])
  <2>1. Known(t, i, s.items[i]) BY DEF Mirrors
  <2>2. CASE \E e \in E : /\ e.id = i
                          /\ F[i].template = e.item.template
                          /\ F[i].quantity = e.item.quantity
                          /\ F[i].state = e.item.state
    <3>1. PICK e \in E : /\ e.id = i
                         /\ F[i].template = e.item.template
                         /\ F[i].quantity = e.item.quantity
                         /\ F[i].state = e.item.state
      BY <2>2
    <3>2. Bare(i, e.item) = v[e.slot] /\ Genuine(t, c, v[e.slot]) BY <1>6, <3>1
    <3> DEFINE w == v[e.slot]
    <3>3. w.id = i /\ w.template = F[i].template /\ w.quantity = F[i].quantity
          /\ w.state = F[i].state /\ Genuine(t, c, w)
      BY <3>1, <3>2 DEF Bare
    <3> HIDE DEF w
    <3>4. /\ i < t.nextItem /\ F[i].template = t.items[i].template
          /\ IF F[i].template \in Single THEN F[i].quantity = 1 ELSE F[i].state = t.items[i].state
      BY <3>3 DEF Genuine
    <3> QED BY <1>12, <3>4 DEF Known
  <2>3. CASE /\ F[i].template = s.items[i].template
             /\ F[i].quantity = 0 /\ F[i].state = s.items[i].state
    BY <1>12, <2>1, <2>3 DEF Known
  <2>4. CASE F[i] = s.items[i] BY <1>12, <2>1, <2>4
  <2> QED BY <1>9, <2>2, <2>3, <2>4
<1>21. Mirrors(t, u)
  BY <1>12, <1>15, <1>17, <1>18, <1>19, <1>20, MirrorsWith DEF open
<1> QED BY <1>12, <1>14, <1>17, <1>19, <1>21 DEF u, open

\* What was heard of an item of which a change says enough shows as the change does.
LEMMA HeardIs ==
  ASSUME NEW t, NEW s, Mirrors(t, s), NEW c \in Containers, NEW v, NEW d, NEW w,
         Turns(v, d, w), Proper(t, c, w), DOMAIN v = 1..Capacity[c],
         d.type # "Remove", Readable(s, d)
  PROVE  LET x == Heard(s, d)
         IN  /\ Bare(d.id, x) = w[d.slot] /\ Genuine(t, c, w[d.slot])
             /\ w[d.slot].id = d.id /\ x.used \in Nat
<1> DEFINE x == Heard(s, d)
           e == w[d.slot]
           i == d.id
           known == s.items[i]
<1>1. /\ d.type \in {"Add", "Update"} /\ d.slot \in 1..Capacity[c] /\ i \in Ids
      /\ d.item.used \in Nat /\ w = [v EXCEPT ![d.slot] = Bare(i, d.item)]
      /\ d.type = "Update" =>
           (IF d.item.template \in Single THEN "state" ELSE "quantity") \in d.changed
  BY DEF Turns
<1>2. e = Bare(i, d.item) BY <1>1
<1>3. e.id = i /\ i # 0 BY <1>1, <1>2 DEF Bare, Ids
<1>4. Genuine(t, c, e) BY <1>1, <1>3, ProperAt
<1>5. /\ e.template = d.item.template /\ e.quantity = d.item.quantity /\ e.state = d.item.state
  BY <1>2 DEF Bare
<1>6. CASE d.type = "Add"
  BY <1>1, <1>2, <1>3, <1>4, <1>6 DEF Heard
<1>7. CASE d.type = "Update"
  <2> DEFINE q == IF "quantity" \in d.changed THEN d.item.quantity ELSE known.quantity
             a == IF "state" \in d.changed THEN d.item.state ELSE known.state
             n == IF "used" \in d.changed THEN d.item.used ELSE known.used
  <2>1. x = [known EXCEPT
               !.quantity = IF "quantity" \in d.changed THEN d.item.quantity ELSE @,
               !.state = IF "state" \in d.changed THEN d.item.state ELSE @,
               !.used = IF "used" \in d.changed THEN d.item.used ELSE @]
    BY <1>7 DEF Heard
  <2>2. IsItem(known) /\ Known(t, i, known) BY <1>1 DEF Mirrors, Shaped
  <2>3. known.template # "none" /\ x.quantity > 0 BY <1>7 DEF Readable
  <2> HIDE DEF known, x
  <2>4. known = [template |-> known.template, quantity |-> known.quantity,
                 used |-> known.used, state |-> known.state, at |-> known.at]
        /\ known.used \in Nat /\ known.quantity \in Nat
    BY <2>2 DEF IsItem
  <2>5. /\ x.template = known.template /\ x.quantity = q /\ x.state = a /\ x.used = n
    BY <2>1, <2>4
  <2>6. n \in Nat BY <1>1, <2>4
  <2>7. /\ known.template = t.items[i].template
        /\ IF known.template \in Single THEN known.quantity \in {0, 1}
           ELSE known.state = t.items[i].state
    BY <2>2, <2>3 DEF Known
  <2>8. /\ e.template = t.items[i].template
        /\ IF e.template \in Single THEN e.quantity = 1 ELSE e.state = t.items[i].state
    BY <1>3, <1>4 DEF Genuine
  <2>9. q = e.quantity /\ a = e.state
    BY <1>1, <1>5, <1>7, <2>3, <2>5, <2>7, <2>8
  <2>10. Bare(i, x) = e
    <3>1. e = [id |-> i, template |-> e.template, quantity |-> e.quantity, state |-> e.state]
      BY <1>2 DEF Bare
    <3>2. x.template = e.template /\ x.quantity = e.quantity /\ x.state = e.state
      BY <2>5, <2>7, <2>8, <2>9
    <3> HIDE DEF e
    <3> QED BY <3>1, <3>2 DEF Bare
  <2> QED BY <1>3, <1>4, <2>5, <2>6, <2>10 DEF x
<1> QED BY <1>1, <1>6, <1>7

\* One record applied: the container shows what the change turns it into.
LEMMA AppliedMirrors ==
  ASSUME NEW t, Shaped(t), NEW s, Mirrors(t, s), NEW r, Mirrors(t, r),
         NEW c \in Containers, c \in s.open, NEW d, NEW w, Turns(Shown(s, c), d, w),
         Proper(t, c, w), Readable(r, d)
  PROVE  /\ Fits(s, c, d)
         /\ LET u == Applied(s, c, d, Heard(r, d))
            IN  /\ Mirrors(t, u) /\ Elsewhere(s, u, c) /\ Shown(u, c) = w
                /\ u.revision[c] = s.revision[c] + 1 /\ u.open = s.open
<1> DEFINE v == Shown(s, c)
           h == Heard(r, d)
           i == d.id
           k == d.slot
           x == IF d.type = "Remove" THEN Ended(s.items[i])
                ELSE [template |-> h.template, quantity |-> h.quantity, used |-> h.used,
                      state |-> h.state, at |-> InSlot(c, k)]
           j == IF d.type = "Remove" THEN 0 ELSE i
           slots == [s.slots EXCEPT ![c][k] = j]
           revision == [s.revision EXCEPT ![c] = @ + 1]
           items == [s.items EXCEPT ![i] = x]
           u == Applied(s, c, d, h)
<1>1. Shaped(s) /\ Shaped(r) /\ Proper(t, c, v) /\ Held(s, c) BY DEF Mirrors
<1>2. /\ d.type \in {"Add", "Update", "Remove"} /\ k \in DOMAIN v /\ i \in Ids
      /\ v[k].id = IF d.type = "Add" THEN 0 ELSE i
      /\ w = [v EXCEPT ![k] = IF d.type = "Remove" THEN Nothing ELSE Bare(i, d.item)]
  BY DEF Turns
<1>3. DOMAIN v = 1..Capacity[c] /\ k \in 1..Capacity[c] /\ i # 0
  BY <1>1, <1>2, ProperAt DEF Ids, Proper
<1>4. v[k].id = s.slots[c][k] BY <1>1, <1>3, ShownIds
<1>5. Fits(s, c, d) BY <1>2, <1>4 DEF Fits
<1>6. /\ s = [items |-> s.items, slots |-> s.slots, open |-> s.open,
              revision |-> s.revision, log |-> s.log,
              nextItem |-> s.nextItem, nextProp |-> s.nextProp, props |-> s.props]
      /\ s.items = [n \in Ids |-> s.items[n]] /\ \A n \in Ids : IsItem(s.items[n])
      /\ s.slots = [b \in Containers |-> s.slots[b]]
      /\ \A b \in Containers : s.slots[b] \in [1..Capacity[b] -> Ids \cup {0}]
      /\ s.open \subseteq Containers /\ s.revision \in [Containers -> Nat]
      /\ s.log = [b \in Containers |-> s.log[b]] /\ \A b \in Containers : Listed(s.log[b])
      /\ s.nextItem \in Nat /\ s.nextProp \in Nat /\ s.props \subseteq Nat
  BY <1>1 DEF Shaped
<1>7. u = [items |-> items, slots |-> slots, open |-> s.open, revision |-> revision,
           log |-> s.log, nextItem |-> s.nextItem, nextProp |-> s.nextProp, props |-> s.props]
  <2> DEFINE l == [s EXCEPT !.slots[c][k] = j, !.revision[c] = @ + 1]
  <2>1. l = [items |-> s.items, slots |-> slots, open |-> s.open, revision |-> revision,
             log |-> s.log, nextItem |-> s.nextItem, nextProp |-> s.nextProp, props |-> s.props]
    <3> DEFINE a == [s EXCEPT !.slots[c][k] = j]
    <3>1. s = [items |-> s.items, slots |-> s.slots, open |-> s.open,
               revision |-> s.revision, log |-> s.log,
               nextItem |-> s.nextItem, nextProp |-> s.nextProp, props |-> s.props]
      BY <1>6
    <3> HIDE DEF j
    <3>2. a = [items |-> s.items, slots |-> slots, open |-> s.open, revision |-> s.revision,
               log |-> s.log, nextItem |-> s.nextItem, nextProp |-> s.nextProp, props |-> s.props]
      BY <3>1
    <3>3. l = [a EXCEPT !.revision[c] = @ + 1] OBVIOUS
    <3>4. a.revision = s.revision BY <3>2
    <3> HIDE DEF a, l, slots
    <3> QED BY <3>2, <3>3, <3>4
  <2>2. CASE d.type = "Remove"
    <3>1. u = [l EXCEPT !.items[i].quantity = 0, !.items[i].at = Terminal] BY <2>2 DEF Applied
    <3> DEFINE y == s.items[i]
               f == s.items
    <3>2. y = [template |-> y.template, quantity |-> y.quantity, used |-> y.used,
               state |-> y.state, at |-> y.at]
      BY <1>2, <1>6 DEF IsItem
    <3>3. x = Ended(y) BY <2>2
    <3>4. f = [n \in Ids |-> f[n]] /\ i \in Ids BY <1>2, <1>6
    <3> DEFINE m == [l EXCEPT !.items[i].quantity = 0]
               z == [y EXCEPT !.quantity = 0]
               g == [f EXCEPT ![i] = z]
    <3>5. u = [m EXCEPT !.items[i].at = Terminal] BY <3>1
    <3>6. z = [template |-> y.template, quantity |-> 0, used |-> y.used,
               state |-> y.state, at |-> y.at]
      BY <3>2
    <3>7. x = [z EXCEPT !.at = Terminal]
      <4> HIDE DEF z, x, y
      <4>1. [z EXCEPT !.at = Terminal] = Ended(y) BY <3>6 DEF Ended
      <4> QED BY <3>3, <4>1
    <3>8. y = f[i] OBVIOUS
    <3>9. l = [items |-> f, slots |-> slots, open |-> s.open, revision |-> revision,
               log |-> s.log, nextItem |-> s.nextItem, nextProp |-> s.nextProp, props |-> s.props]
      BY <2>1
    <3> HIDE DEF l, x, slots, revision, y, f
    <3>10. m = [items |-> g, slots |-> slots, open |-> s.open, revision |-> revision,
                log |-> s.log, nextItem |-> s.nextItem, nextProp |-> s.nextProp, props |-> s.props]
      BY <3>8, <3>9
    <3>11. g[i] = z BY <3>4
    <3> HIDE DEF m, z
    <3>12. u = [items |-> [g EXCEPT ![i] = x], slots |-> slots, open |-> s.open,
                revision |-> revision, log |-> s.log, nextItem |-> s.nextItem,
                nextProp |-> s.nextProp, props |-> s.props]
      BY <3>5, <3>7, <3>10, <3>11
    <3>13. [g EXCEPT ![i] = x] = [f EXCEPT ![i] = x] BY <3>4
    <3> QED BY <3>12, <3>13 DEF f
  <2>3. CASE d.type # "Remove"
    <3>1. u = [l EXCEPT !.items[i] =
                 [template |-> h.template, quantity |-> h.quantity, used |-> h.used,
                  state |-> h.state, at |-> InSlot(c, k)]]
      BY <2>3 DEF Applied
    <3>2. x = [template |-> h.template, quantity |-> h.quantity, used |-> h.used,
               state |-> h.state, at |-> InSlot(c, k)]
      BY <2>3
    <3> HIDE DEF l, x, slots, revision
    <3> QED BY <2>1, <3>1, <3>2
  <2> QED BY <2>2, <2>3
<1>8. ASSUME d.type # "Remove"
      PROVE  /\ Bare(i, h) = w[k] /\ Genuine(t, c, w[k]) /\ w[k].id = i /\ h.used \in Nat
  BY <1>3, <1>8, HeardIs
<1>9. IsItem(x)
  <2>1. CASE d.type = "Remove"
    BY <1>2, <1>6, <2>1 DEF IsItem, IsPlace, Ended
  <2>2. CASE d.type # "Remove"
    <3> DEFINE e == w[k]
    <3>1. Bare(i, h) = e /\ Genuine(t, c, e) /\ h.used \in Nat BY <1>8, <2>2
    <3>2. h.template = e.template /\ h.quantity = e.quantity /\ h.state = e.state
      BY <3>1 DEF Bare
    <3>3. h.template \in Templates /\ h.quantity \in Nat /\ h.state \in States
      BY <3>1, <3>2 DEF Genuine
    <3>4. IsPlace(InSlot(c, k)) BY <1>3 DEF IsPlace
    <3>5. x = [template |-> h.template, quantity |-> h.quantity, used |-> h.used,
               state |-> h.state, at |-> InSlot(c, k)]
      BY <2>2
    <3> HIDE DEF x, h, e
    <3> QED BY <3>1, <3>3, <3>4, <3>5 DEF IsItem
  <2> QED BY <2>1, <2>2
<1>10. /\ d.type = "Remove" => j = 0 /\ x = Ended(s.items[i])
       /\ d.type # "Remove" => /\ j = i /\ x.at = InSlot(c, k) /\ x.template = h.template
                               /\ x.quantity = h.quantity /\ x.state = h.state
  OBVIOUS
<1>11. j \in Ids \cup {0} BY <1>2
<1> HIDE DEF u, x, j, h
<1>12. /\ u.items = items /\ u.slots = slots /\ u.revision = revision /\ u.open = s.open
       /\ u.log = s.log /\ u.nextItem = s.nextItem /\ u.nextProp = s.nextProp
       /\ u.props = s.props
       /\ u = [items |-> u.items, slots |-> u.slots, open |-> u.open,
               revision |-> u.revision, log |-> u.log,
               nextItem |-> u.nextItem, nextProp |-> u.nextProp, props |-> u.props]
  BY <1>7
<1>13. /\ slots = [b \in Containers |-> slots[b]]
       /\ \A b \in Containers : slots[b] \in [1..Capacity[b] -> Ids \cup {0}]
       /\ \A b \in Containers : b # c => slots[b] = s.slots[b]
       /\ slots[c][k] = j
       /\ \A n \in 1..Capacity[c] : n # k => slots[c][n] = s.slots[c][n]
  BY <1>3, <1>6, <1>11
<1>14. /\ revision \in [Containers -> Nat] /\ revision[c] = s.revision[c] + 1
       /\ \A b \in Containers : b # c => revision[b] = s.revision[b]
  BY <1>6
<1>15. /\ items = [n \in Ids |-> items[n]] /\ items[i] = x
       /\ \A n \in Ids : n # i => items[n] = s.items[n]
  BY <1>2, <1>6
<1> HIDE DEF items, slots, revision
<1>16. Shaped(u)
  BY <1>6, <1>9, <1>12, <1>13, <1>14, <1>15 DEF Shaped
\* The item is in no other slot.
<1>17. ASSUME NEW n \in 1..Capacity[c], n # k PROVE s.slots[c][n] # i
  <2>1. v[n].id = s.slots[c][n] BY <1>1, ShownIds
  <2>2. CASE d.type = "Add"
    BY <1>2, <1>3, <1>8, <1>17, <2>1, <2>2 DEF Proper
  <2>3. CASE d.type # "Add"
    BY <1>1, <1>2, <1>3, <1>17, <2>1, <2>3 DEF Proper
  <2> QED BY <2>2, <2>3
<1>18. ASSUME NEW b \in Containers, b # c, NEW n \in 1..Capacity[b] PROVE s.slots[b][n] # i
  <2>1. CASE d.type # "Remove"
    BY <1>8, <1>18, <2>1, HomeAlone
  <2>2. CASE d.type = "Remove"
    <3>1. v[k].id = i BY <1>2, <2>2
    <3>2. Genuine(t, c, v[k]) BY <1>1, <1>3, <3>1, ProperAt
    <3> QED BY <1>18, <3>1, <3>2, HomeAlone
  <2> QED BY <2>1, <2>2
<1>19. Elsewhere(s, u, c)
  BY <1>1, <1>12, <1>13, <1>14, <1>15, <1>18, SlotIn DEF Elsewhere
<1>20. Held(u, c)
  <2> SUFFICES ASSUME NEW n \in 1..Capacity[c], u.slots[c][n] # 0
               PROVE  u.items[u.slots[c][n]].at = InSlot(c, n)
    BY DEF Held
  <2>1. CASE n = k
    BY <1>10, <1>12, <1>13, <1>15, <2>1
  <2>2. CASE n # k
    <3>1. u.slots[c][n] = s.slots[c][n] BY <1>12, <1>13, <2>2
    <3>2. s.slots[c][n] \in Ids BY <1>6, <3>1
    <3>3. s.slots[c][n] # i BY <1>17, <2>2
    <3>4. s.items[s.slots[c][n]].at = InSlot(c, n) BY <1>1, <3>1 DEF Held
    <3> QED BY <1>12, <1>15, <3>1, <3>2, <3>3, <3>4
  <2> QED BY <2>1, <2>2
<1>21. Shown(u, c) = w
  <2> DEFINE z == Shown(u, c)
  <2>1. \A n \in 1..Capacity[c] :
          z[n] = IF slots[c][n] = 0 THEN Nothing ELSE Bare(slots[c][n], items[slots[c][n]])
    BY <1>12 DEF Shown
  <2>2. z = [n \in 1..Capacity[c] |-> z[n]] BY DEF Shown
  <2> HIDE DEF z
  <2>3. ASSUME NEW n \in 1..Capacity[c] PROVE z[n] = w[n]
    <3>1. CASE n = k /\ d.type = "Remove"
      BY <1>2, <1>3, <1>10, <1>13, <2>1, <3>1
    <3>2. CASE n = k /\ d.type # "Remove"
      <4>1. z[n] = Bare(i, x) BY <1>3, <1>10, <1>13, <1>15, <2>1, <3>2
      <4>2. Bare(i, x) = Bare(i, h) BY <1>10, <3>2 DEF Bare
      <4> QED BY <1>8, <3>2, <4>1, <4>2
    <3>3. CASE n # k
      <4>1. w[n] = v[n] BY <1>2, <1>3, <3>3
      <4>2. slots[c][n] = s.slots[c][n] /\ s.slots[c][n] # i BY <1>13, <1>17, <3>3
      <4>3. s.slots[c][n] # 0 => s.slots[c][n] \in Ids BY <1>6
      <4>4. /\ s.slots[c][n] = 0 => v[n] = Nothing
            /\ s.slots[c][n] # 0 => v[n] = Bare(s.slots[c][n], s.items[s.slots[c][n]])
        BY <1>1, ShownIds
      <4> HIDE DEF v
      <4> QED BY <1>15, <2>1, <4>1, <4>2, <4>3, <4>4
    <3> QED BY <3>1, <3>2, <3>3
  <2>4. w = [n \in 1..Capacity[c] |-> w[n]] BY DEF Proper
  <2>5. z = w BY <2>2, <2>3, <2>4
  <2> QED BY <2>5 DEF z
<1>22. ASSUME NEW n \in Ids PROVE Known(t, n, u.items[n])
  <2>1. Known(t, n, s.items[n]) BY DEF Mirrors
  <2>2. CASE n # i BY <1>12, <1>15, <2>1, <2>2
  <2>3. CASE n = i /\ d.type = "Remove"
    BY <1>10, <1>12, <1>15, <2>1, <2>3 DEF Known, Ended
  <2>4. CASE n = i /\ d.type # "Remove"
    <3> DEFINE e == w[k]
    <3>1. Bare(i, h) = e /\ Genuine(t, c, e) /\ e.id = i BY <1>8, <2>4
    <3>2. u.items[n] = x /\ x.template = h.template /\ x.quantity = h.quantity /\ x.state = h.state
      BY <1>10, <1>12, <1>15, <2>4
    <3>3. h.template = e.template /\ h.quantity = e.quantity /\ h.state = e.state
      BY <3>1 DEF Bare
    <3> HIDE DEF e
    <3>4. /\ n < t.nextItem /\ e.template = t.items[n].template
          /\ IF e.template \in Single THEN e.quantity = 1 ELSE e.state = t.items[n].state
      BY <2>4, <3>1 DEF Genuine
    <3> QED BY <3>2, <3>3, <3>4 DEF Known
  <2> QED BY <2>2, <2>3, <2>4
<1>23. Mirrors(t, u)
  BY <1>12, <1>16, <1>19, <1>20, <1>21, <1>22, MirrorsWith
<1> QED BY <1>5, <1>12, <1>14, <1>19, <1>21, <1>23 DEF u, h

\* The records of a message that says what the history does, applied.
LEMMA BatchMirrors ==
  ASSUME NEW t, Shaped(t), NEW s, Mirrors(t, s), NEW c \in Containers, c \in s.open,
         NEW h, Recalls(t, c, h), NEW m, m.kind = "deltas", Tells(h, m),
         m.first = s.revision[c] + 1, Shown(s, c) = h[s.revision[c]],
         \A n \in 1..Len(m.records) : Readable(s, m.records[n])
  PROVE  LET done == ApplyAll(s, c, m.records)
             u == done.store
             last == m.first + Len(m.records) - 1
         IN  /\ done.ok /\ Mirrors(t, u) /\ Elsewhere(s, u, c) /\ u.open = s.open
             /\ u.revision[c] = last /\ last \in DOMAIN h /\ Shown(u, c) = h[last]
<1> DEFINE q == m.records
           N == Len(q)
           l == s.revision[c]
           g == CHOOSE f : Applies(f, s, c, q, N)
           Right(k) == /\ g[k].ok /\ Mirrors(t, g[k].store) /\ Elsewhere(s, g[k].store, c)
                       /\ g[k].store.open = s.open /\ g[k].store.revision[c] = l + k
                       /\ Shown(g[k].store, c) = h[l + k]
           T == {k \in 0..N : ~Right(k)}
<1>1. ApplyAll(s, c, q) = g[N] BY DEF ApplyAll, Applies, ApplyStart, ApplyNext
<1>2. /\ N \in Nat \ {0} /\ m.first \in Nat \ {0}
      /\ \A n \in 1..N :
           /\ m.first + n - 2 \in DOMAIN h /\ m.first + n - 1 \in DOMAIN h
           /\ Turns(h[m.first + n - 2], q[n], h[m.first + n - 1])
  BY DEF Tells
<1>3. l \in Nat /\ m.first = l + 1 BY DEF Mirrors, Shaped
<1>4. DOMAIN h = 0..t.revision[c] /\ \A r \in DOMAIN h : Proper(t, c, h[r])
  BY DEF Recalls
<1>5. \A n \in 1..N : Readable(s, q[n]) OBVIOUS
<1> HIDE DEF N, q, l
<1>6. \A k \in 0..N : g[k] = IF k = 0 THEN ApplyStart(s) ELSE ApplyNext(g[k - 1], s, c, q[k])
  <2>1. \E f : Applies(f, s, c, q, N) BY <1>2, AppliesExists
  <2>2. Applies(g, s, c, q, N) BY <2>1
  <2> HIDE DEF g
  <2> QED BY <2>2 DEF Applies
<1> HIDE DEF g
<1>7. Right(0)
  <2>1. g[0] = ApplyStart(s) BY <1>2, <1>6
  <2>2. g[0].store = s /\ g[0].ok BY <2>1 DEF ApplyStart
  <2>3. Elsewhere(s, s, c) BY DEF Elsewhere
  <2>4. s.revision[c] = l + 0 /\ l + 0 = l BY <1>3 DEF l
  <2> QED BY <2>2, <2>3, <2>4 DEF l
<1>8. ASSUME NEW k \in Nat, k + 1 <= N, Right(k) PROVE Right(k + 1)
  <2> DEFINE a == g[k].store
             d == q[k + 1]
             u == Applied(a, c, d, Heard(s, d))
             w == h[l + (k + 1)]
  <2>1. k + 1 \in 1..N /\ k + 1 \in 0..N /\ k + 1 # 0 /\ (k + 1) - 1 = k BY <1>2, <1>8
  <2>2. g[k + 1] = ApplyNext(g[k], s, c, d) BY <1>6, <2>1
  <2>3. /\ g[k].ok /\ Mirrors(t, a) /\ Elsewhere(s, a, c) /\ a.open = s.open
        /\ a.revision[c] = l + k /\ Shown(a, c) = h[l + k]
    BY <1>8
  <2>4. m.first + (k + 1) - 2 = l + k /\ m.first + (k + 1) - 1 = l + (k + 1) BY <1>3
  <2>5. l + k \in DOMAIN h /\ l + (k + 1) \in DOMAIN h /\ Turns(h[l + k], d, w)
    BY <1>2, <2>1, <2>4
  <2>6. Proper(t, c, w) /\ Readable(s, d) BY <1>4, <1>5, <2>1, <2>5
  <2>7. c \in a.open BY <2>3
  <2> HIDE DEF d, w
  <2>8. g[k + 1] = IF g[k].ok /\ Fits(a, c, d) THEN [store |-> u, ok |-> TRUE]
                   ELSE [store |-> a, ok |-> FALSE]
    BY <2>2 DEF ApplyNext
  <2> HIDE DEF a
  <2>9. Turns(Shown(a, c), d, w) BY <2>3, <2>5
  <2>10. Fits(a, c, d) /\ LET x == Applied(a, c, d, Heard(s, d))
                          IN  /\ Mirrors(t, x) /\ Elsewhere(a, x, c) /\ Shown(x, c) = w
                              /\ x.revision[c] = a.revision[c] + 1 /\ x.open = a.open
    BY <2>3, <2>6, <2>7, <2>9, AppliedMirrors
  <2>11. /\ Mirrors(t, u) /\ Elsewhere(a, u, c) /\ Shown(u, c) = w
         /\ u.revision[c] = a.revision[c] + 1 /\ u.open = a.open
    BY <2>10
  <2> HIDE DEF u
  <2>12. Elsewhere(s, u, c) BY <2>3, <2>11, ElsewhereTrans
  <2>13. u.revision[c] = l + (k + 1) BY <1>3, <2>3, <2>11
  <2>14. g[k + 1].store = u /\ g[k + 1].ok BY <2>3, <2>8, <2>10
  <2> QED BY <2>3, <2>11, <2>12, <2>13, <2>14 DEF w
<1> HIDE DEF Right
<1>9. T = {}
  <2> SUFFICES ASSUME T # {} PROVE FALSE OBVIOUS
  <2>1. T \in SUBSET Nat BY <1>2
  <2>2. PICK n \in T : \A k \in T : n <= k BY <2>1, LeastNat
  <2>3. n \in 0..N /\ ~Right(n) OBVIOUS
  <2>4. n # 0 BY <1>7, <2>3
  <2>5. n - 1 \in Nat /\ (n - 1) + 1 = n /\ n - 1 \in 0..N /\ n - 1 < n /\ n <= N
    BY <1>2, <2>3, <2>4
  <2>6. Right(n - 1) BY <2>2, <2>5
  <2>7. Right((n - 1) + 1) BY <1>8, <2>5, <2>6
  <2>8. (n - 1) + 1 = n BY <2>5
  <2>9. Right(n) BY <2>7, <2>8
  <2> QED BY <2>3, <2>9
<1>10. Right(N)
  <2>1. N \in 0..N BY <1>2
  <2>2. ~Right(N) => N \in T BY <2>1
  <2> HIDE DEF T
  <2> QED BY <1>9, <2>2
<1>11. m.first + N - 1 = l + N /\ m.first + N - 1 \in DOMAIN h
  <2>1. N \in 1..N BY <1>2
  <2>2. m.first + N - 1 \in DOMAIN h BY <1>2, <2>1
  <2>3. l \in Nat /\ N \in Nat /\ m.first = l + 1 BY <1>2, <1>3
  <2> HIDE DEF N, l
  <2>4. m.first + N - 1 = l + N BY <2>3
  <2> QED BY <2>2, <2>4
<1>12. /\ g[N].ok /\ Mirrors(t, g[N].store) /\ Elsewhere(s, g[N].store, c)
       /\ g[N].store.open = s.open /\ g[N].store.revision[c] = l + N
       /\ Shown(g[N].store, c) = h[l + N]
  BY <1>10 DEF Right
<1>13. ApplyAll(s, c, m.records) = g[N] /\ N = Len(m.records) BY <1>1 DEF q, N
<1> QED BY <1>11, <1>12, <1>13

\* What is left of a copy as the slots of container c are cleared.
Cleared(s, u, c, n) ==
  /\ Shaped(u) /\ u.open = s.open
  /\ \A b \in Containers : b # c => u.slots[b] = s.slots[b] /\ u.revision[b] = s.revision[b]
  /\ \A k \in 1..Capacity[c] : u.slots[c][k] = IF k <= n THEN 0 ELSE s.slots[c][k]
  /\ \A i \in Ids :
       \/ u.items[i] = s.items[i]
       \/ /\ u.items[i] = Ended(s.items[i])
          /\ \E k \in 1..Capacity[c] : k <= n /\ s.items[i].at = InSlot(c, k)

\* One slot more.
LEMMA ClearedStep ==
  ASSUME NEW s, Shaped(s), NEW c \in Containers, Held(s, c), NEW n \in Nat,
         n + 1 \in 1..Capacity[c], NEW u, Cleared(s, u, c, n)
  PROVE  Cleared(s, terminate(u, s.slots[c][n + 1]), c, n + 1)
<1> DEFINE i == s.slots[c][n + 1]
           w == terminate(u, i)
<1>1. s.slots[c] \in [1..Capacity[c] -> Ids \cup {0}] /\ i \in Ids \cup {0} BY DEF Shaped
<1>2. Capacity[c] \in Nat BY ItemStoreAssumption
<1>3. /\ Shaped(u) /\ u.open = s.open
      /\ \A b \in Containers : b # c => u.slots[b] = s.slots[b] /\ u.revision[b] = s.revision[b]
      /\ \A k \in 1..Capacity[c] : u.slots[c][k] = IF k <= n THEN 0 ELSE s.slots[c][k]
      /\ \A j \in Ids :
           \/ u.items[j] = s.items[j]
           \/ /\ u.items[j] = Ended(s.items[j])
              /\ \E k \in 1..Capacity[c] : k <= n /\ s.items[j].at = InSlot(c, k)
  BY DEF Cleared
<1>4. \A k \in 1..Capacity[c] : k <= n + 1 <=> (k <= n \/ k = n + 1) BY <1>2
<1>5. CASE i = 0
  <2>1. ~Live(u, i) BY <1>5 DEF Live, Ids
  <2>2. w = u BY <2>1 DEF terminate
  <2>3. \A k \in 1..Capacity[c] : u.slots[c][k] = IF k <= n + 1 THEN 0 ELSE s.slots[c][k]
    BY <1>3, <1>4, <1>5
  <2> HIDE DEF w, i
  <2>4. Cleared(s, w, c, n + 1) BY <1>3, <1>4, <2>2, <2>3 DEF Cleared
  <2> QED BY <2>4 DEF w, i
<1>6. CASE i # 0
  <2>1. i \in Ids /\ s.items[i].at = InSlot(c, n + 1) BY <1>1, <1>6 DEF Held
  <2>2. \A k \in 1..Capacity[c] : k <= n => s.items[i].at # InSlot(c, k)
    BY <2>1 DEF InSlot
  <2>3. u.items[i] = s.items[i] BY <1>3, <2>1, <2>2
  <2>4. u.items[i].at = InSlot(c, n + 1) BY <2>1, <2>3
  <2>5. Live(u, i) BY <2>1, <2>4 DEF Live, InSlot
  <2> HIDE DEF i
  <2>6. LET x == terminate(u, i)
        IN  /\ Shaped(x) /\ Beside(u, x)
            /\ x.items = [u.items EXCEPT ![i] = Ended(u.items[i])]
            /\ \A d \in Containers : \A k \in 1..Capacity[d] :
                 x.slots[d][k] = IF u.items[i].at = InSlot(d, k) THEN 0 ELSE u.slots[d][k]
            /\ Ahead(u, x)
            /\ \A d \in Containers : ~(InInventory(u, i) /\ u.items[i].at.container = d)
                                       => x.revision[d] = u.revision[d]
    BY <1>3, <2>1, <2>5, TerminateIs
  <2>7. /\ Shaped(w) /\ Beside(u, w)
        /\ w.items = [u.items EXCEPT ![i] = Ended(u.items[i])]
        /\ \A d \in Containers : \A k \in 1..Capacity[d] :
             w.slots[d][k] = IF u.items[i].at = InSlot(d, k) THEN 0 ELSE u.slots[d][k]
        /\ \A d \in Containers : ~(InInventory(u, i) /\ u.items[i].at.container = d)
                                   => w.revision[d] = u.revision[d]
    BY <2>6
  <2> HIDE DEF w
  <2>8. ASSUME NEW b \in Containers, b # c
        PROVE  w.slots[b] = s.slots[b] /\ w.revision[b] = s.revision[b]
    <3>1. ASSUME NEW k \in 1..Capacity[b] PROVE w.slots[b][k] = u.slots[b][k]
      <4>1. InSlot(c, n + 1) # InSlot(b, k) BY <2>8 DEF InSlot
      <4>2. u.items[i].at # InSlot(b, k) BY <2>4, <4>1
      <4> QED BY <2>7, <4>2
    <3>2. w.slots[b] \in [1..Capacity[b] -> Ids \cup {0}] /\ u.slots[b] \in [1..Capacity[b] -> Ids \cup {0}]
      BY <1>3, <2>7 DEF Shaped
    <3>3. w.slots[b] = u.slots[b]
      <4> DEFINE x == w.slots[b]
                 y == u.slots[b]
                 D == 1..Capacity[b]
                 V == Ids \cup {0}
      <4>1. x \in [D -> V] /\ y \in [D -> V] /\ \A k \in D : x[k] = y[k] BY <3>1, <3>2
      <4> HIDE DEF x, y, D, V
      <4>2. x = y BY <4>1
      <4> QED BY <4>2 DEF x, y
    <3>4. u.items[i].at.container # b BY <2>4, <2>8 DEF InSlot
    <3> QED BY <1>3, <2>7, <2>8, <3>3, <3>4
  <2>9. ASSUME NEW k \in 1..Capacity[c]
        PROVE  w.slots[c][k] = IF k <= n + 1 THEN 0 ELSE s.slots[c][k]
    <3>1. InSlot(c, n + 1) = InSlot(c, k) <=> k = n + 1 BY DEF InSlot
    <3>2. w.slots[c][k] = IF k = n + 1 THEN 0 ELSE u.slots[c][k] BY <2>4, <2>7, <3>1
    <3> QED BY <1>3, <1>4, <3>2
  <2>10. ASSUME NEW j \in Ids
         PROVE  \/ w.items[j] = s.items[j]
                \/ /\ w.items[j] = Ended(s.items[j])
                   /\ \E k \in 1..Capacity[c] : k <= n + 1 /\ s.items[j].at = InSlot(c, k)
    <3>1. u.items = [l \in Ids |-> u.items[l]] BY <1>3 DEF Shaped
    <3>2. CASE j = i
      BY <1>4, <2>1, <2>3, <2>7, <3>1, <3>2
    <3>3. CASE j # i
      BY <1>3, <1>4, <2>7, <3>1, <3>3
    <3> QED BY <3>2, <3>3
  <2>11. w.open = s.open BY <1>3, <2>7 DEF Beside
  <2>12. Cleared(s, w, c, n + 1) BY <2>7, <2>8, <2>9, <2>10, <2>11 DEF Cleared
  <2> QED BY <2>12 DEF w, i
<1> QED BY <1>5, <1>6

\* A copy without one of its containers is a copy still.
LEMMA DestroyMirrors ==
  ASSUME NEW t, NEW s, Mirrors(t, s), NEW c \in Containers
  PROVE  LET u == destroy_container(s, c)
         IN  Mirrors(t, u) /\ Elsewhere(s, u, c) /\ u.open = s.open \ {c}
<1> DEFINE n == Capacity[c]
           g == CHOOSE f : Clears(f, s, c, n)
           T == {k \in 0..n : ~Cleared(s, g[k], c, k)}
<1>1. n \in Nat /\ n = Capacity[c] BY ItemStoreAssumption
<1>2. destroy_container(s, c) = [g[n] EXCEPT !.open = @ \ {c}, !.log[c] = <<>>]
  BY DEF destroy_container, Clears
<1>3. Shaped(s) /\ Held(s, c) /\ \A i \in Ids : Known(t, i, s.items[i]) BY DEF Mirrors
<1> HIDE DEF n
<1>4. \A k \in 0..n : g[k] = IF k = 0 THEN s ELSE terminate(g[k - 1], s.slots[c][k])
  <2>1. \E f : Clears(f, s, c, n) BY <1>1, ClearsExists
  <2>2. Clears(g, s, c, n) BY <2>1
  <2> HIDE DEF g
  <2> QED BY <2>2 DEF Clears
<1> HIDE DEF g
<1>5. Cleared(s, g[0], c, 0)
  BY <1>1, <1>3, <1>4 DEF Cleared
<1>6. T = {}
  <2> SUFFICES ASSUME T # {} PROVE FALSE OBVIOUS
  <2>1. T \in SUBSET Nat BY <1>1
  <2>2. PICK m \in T : \A k \in T : m <= k BY <2>1, LeastNat
  <2>3. m \in 0..n /\ ~Cleared(s, g[m], c, m) OBVIOUS
  <2>4. m # 0 BY <1>5, <2>3
  <2>5. m - 1 \in Nat /\ (m - 1) + 1 = m /\ m - 1 \in 0..n /\ m - 1 < m /\ m \in 1..Capacity[c]
    BY <1>1, <2>3, <2>4
  <2>6. Cleared(s, g[m - 1], c, m - 1) BY <2>2, <2>5
  <2>7. g[m] = terminate(g[m - 1], s.slots[c][m]) BY <1>4, <2>3, <2>4
  <2> DEFINE l == m - 1
  <2>8. l \in Nat /\ l + 1 = m /\ l + 1 \in 1..Capacity[c] /\ Cleared(s, g[l], c, l)
        /\ g[m] = terminate(g[l], s.slots[c][m])
    BY <2>5, <2>6, <2>7
  <2> HIDE DEF l, T
  <2>9. Cleared(s, terminate(g[l], s.slots[c][l + 1]), c, l + 1) BY <1>3, <2>8, ClearedStep
  <2> QED BY <2>3, <2>8, <2>9
<1> DEFINE a == g[n]
           P == a.open \ {c}
           v == [a EXCEPT !.open = P]
           l == [v.log EXCEPT ![c] = <<>>]
           w == [v EXCEPT !.log = l]
<1>7. Cleared(s, a, c, n)
  BY <1>1, <1>6
<1>8. destroy_container(s, c) = [a EXCEPT !.open = @ \ {c}, !.log[c] = <<>>] BY <1>2
<1> HIDE DEF a, T
<1>9. destroy_container(s, c) = w
  <2>1. [a EXCEPT !.open = @ \ {c}, !.log[c] = <<>>] = [v EXCEPT !.log[c] = <<>>] OBVIOUS
  <2> HIDE DEF v
  <2>2. [v EXCEPT !.log[c] = <<>>] = w OBVIOUS
  <2> QED BY <1>8, <2>1, <2>2
<1>10. Shaped(a) /\ a.open = s.open BY <1>7 DEF Cleared
<1>11. P \in SUBSET Containers /\ 0 \in Nat BY <1>10 DEF Shaped
<1>12. P = s.open \ {c} BY <1>10
<1> HIDE DEF P
<1>13. /\ Shaped(v) /\ v.items = a.items /\ v.slots = a.slots
       /\ v.revision = a.revision /\ v.open = P
  BY <1>10, <1>11, CountersShaped
<1> HIDE DEF v
<1>14. v.log = [d \in Containers |-> v.log[d]] /\ \A d \in Containers : Listed(v.log[d])
  BY <1>13 DEF Shaped
<1>15. l = [d \in Containers |-> l[d]] /\ \A d \in Containers : Listed(l[d])
  BY <1>14, NoneSilent DEF Silent
<1> HIDE DEF l
<1>16. /\ Shaped(w) /\ w.items = v.items /\ w.slots = v.slots /\ w.open = v.open
       /\ w.revision = v.revision
  <2>1. \A f : f = [d \in Containers |-> f[d]] /\ (\A d \in Containers : Listed(f[d])) =>
          LET x == [v EXCEPT !.log = f]
          IN  /\ Shaped(x) /\ x.items = v.items /\ x.slots = v.slots /\ x.open = v.open
              /\ x.revision = v.revision /\ x.nextItem = v.nextItem
              /\ x.nextProp = v.nextProp /\ x.props = v.props
    BY <1>11, <1>13, CountersShaped
  <2>2. LET x == [v EXCEPT !.log = l]
        IN  /\ Shaped(x) /\ x.items = v.items /\ x.slots = v.slots /\ x.open = v.open
            /\ x.revision = v.revision /\ x.nextItem = v.nextItem
            /\ x.nextProp = v.nextProp /\ x.props = v.props
    BY <1>15, <2>1
  <2> QED BY <2>2
<1> HIDE DEF w
<1>17. /\ w.items = a.items /\ w.slots = a.slots /\ w.revision = a.revision
       /\ w.open = s.open \ {c} /\ Shaped(w)
  BY <1>12, <1>13, <1>16
<1>18. /\ \A b \in Containers : b # c => a.slots[b] = s.slots[b] /\ a.revision[b] = s.revision[b]
       /\ \A k \in 1..Capacity[c] : a.slots[c][k] = IF k <= n THEN 0 ELSE s.slots[c][k]
       /\ \A i \in Ids :
            \/ a.items[i] = s.items[i]
            \/ /\ a.items[i] = Ended(s.items[i])
               /\ \E k \in 1..Capacity[c] : k <= n /\ s.items[i].at = InSlot(c, k)
  BY <1>7 DEF Cleared
<1>19. \A k \in 1..Capacity[c] : w.slots[c][k] = 0 BY <1>1, <1>17, <1>18
<1>20. Elsewhere(s, w, c)
  <2>1. ASSUME NEW b \in Containers, b # c, NEW k \in 1..Capacity[b], s.slots[b][k] # 0
        PROVE  w.items[s.slots[b][k]] = s.items[s.slots[b][k]]
    <3> DEFINE i == s.slots[b][k]
    <3>1. i \in Ids BY <1>3, <2>1, SlotIn
    <3>2. s.items[i].at = InSlot(b, k) BY <2>1 DEF Mirrors, Held
    <3>3. \A j : s.items[i].at # InSlot(c, j) BY <2>1, <3>2 DEF InSlot
    <3> HIDE DEF i
    <3>4. a.items[i] = s.items[i] BY <1>18, <3>1, <3>3
    <3> QED BY <1>17, <3>4 DEF i
  <2>2. \A b \in Containers : b # c => (b \in w.open <=> b \in s.open) BY <1>17
  <2> QED BY <1>17, <1>18, <2>1, <2>2 DEF Elsewhere
<1>21. Held(w, c) BY <1>19 DEF Held
<1>22. ASSUME NEW i \in Ids PROVE Known(t, i, w.items[i])
  <2>1. Known(t, i, s.items[i]) BY <1>3
  <2>2. w.items[i] = s.items[i] \/ w.items[i] = Ended(s.items[i]) BY <1>17, <1>18
  <2>3. CASE w.items[i] = s.items[i] BY <2>1, <2>3
  <2>4. CASE w.items[i] = Ended(s.items[i]) BY <2>1, <2>4 DEF Known, Ended
  <2> QED BY <2>2, <2>3, <2>4
<1>23. Proper(t, c, Shown(w, c))
  <2> DEFINE z == Shown(w, c)
  <2>1. \A k \in 1..Capacity[c] : z[k] = Nothing BY <1>19 DEF Shown
  <2>2. z = [k \in 1..Capacity[c] |-> z[k]] BY DEF Shown
  <2> HIDE DEF z
  <2>3. Nothing.id = 0 BY DEF Nothing
  <2>4. Proper(t, c, z) BY <2>1, <2>2, <2>3 DEF Proper
  <2> QED BY <2>4 DEF z
<1>24. Mirrors(t, w) BY <1>17, <1>19, <1>20, <1>21, <1>22, <1>23, MirrorsWith
<1> QED BY <1>9, <1>17, <1>20, <1>24

-----------------------------------------------------------------------------
(* What a client has, and what is on the way to it.                        *)

\* A proper view's filled slots are on its pages.
LEMMA PagesOf ==
  ASSUME NEW t, NEW c \in Containers, NEW v, Proper(t, c, v)
  PROVE  /\ PageCount(v) \in Nat \ {0}
         /\ \A k \in Filled(v) : PageOf(v, k) \in 1..PageCount(v)
<1> DEFINE F == Filled(v)
           N == Cardinality(F)
<1>1. F \in SUBSET (1..Capacity[c])
  BY DEF Proper, Filled
<1>2. Capacity[c] \in Nat BY ItemStoreAssumption
<1>3. F \in SUBSET Nat /\ IsFiniteSet(F)
  <2>1. IsFiniteSet(1..Capacity[c]) BY <1>2, FS_Interval
  <2> QED BY <1>1, <1>2, <2>1, FS_Subset
<1>4. N \in Nat /\ (N = 0 <=> F = {}) BY <1>3, FS_CardinalityType, FS_EmptySet
<1>5. PageSize \in Nat \ {0} BY InventorySyncAssumption
<1>6. PageCount(v) = IF F = {} THEN 1 ELSE (N + PageSize - 1) \div PageSize BY DEF PageCount
<1>7. \A k \in F : Rank(v, k) \in 1..N BY <1>3, RanksAre DEF Rank
<1>8. \A k \in F : PageOf(v, k) = (Rank(v, k) - 1) \div PageSize + 1 BY DEF PageOf
<1> HIDE DEF F, N
<1>9. (N + PageSize - 1) \div PageSize \in Nat
  BY <1>4, <1>5, DivIs
<1>10. ASSUME NEW k \in F PROVE PageOf(v, k) \in 1..PageCount(v)
  <2> DEFINE x == Rank(v, k)
             d == (x - 1) \div PageSize
  <2>1. x \in Nat \ {0} /\ x <= N /\ PageOf(v, k) = d + 1 BY <1>4, <1>7, <1>8
  <2> HIDE DEF x
  <2>2. x - 1 \in Nat BY <2>1
  <2>3. d \in Nat BY <1>5, <2>2, DivIs
  <2>4. d + 1 <= (N + PageSize - 1) \div PageSize BY <1>4, <1>5, <2>1, DivPage
  <2>5. F # {} BY <1>10
  <2> HIDE DEF d
  <2> QED BY <1>6, <1>9, <2>1, <2>3, <2>4, <2>5
<1>11. PageCount(v) \in Nat \ {0}
  BY <1>6, <1>9, <1>10
<1> QED BY <1>10, <1>11 DEF F

\* Assembly a is the pages gathered at stage z of a history h.
Gathers(a, h, z) ==
  /\ a = [revision |-> a.revision, count |-> a.count, received |-> a.received,
          entries |-> a.entries]
  /\ a.count = z.count /\ a.received = 1..z.got
  /\ z.count # 0 => /\ a.revision = z.revision /\ z.revision \in DOMAIN h
                    /\ z.count = PageCount(h[z.revision])
                    /\ Lists(a.entries, h[z.revision], 1..z.got)

\* A copy s of container c shows the revision it says; with no call for a snapshot
\* out it is at the stage z, and says it is ready or what it waits for.
Stands(s, c, h, z, calls, says, a) ==
  /\ c \in s.open => s.revision[c] \in DOMAIN h /\ Shown(s, c) = h[s.revision[c]]
  /\ c \notin calls => z.at = IF c \in s.open THEN s.revision[c] ELSE Unsent
  /\ c \in s.open /\ c \notin calls =>
       says = "ready" \/ (says = "syncing" /\ a.received # {})

\* What a client has of container c, and what is on the way to it, agree.
Follows(c) ==
  \E h, z, y : /\ Recalls(store, c, h) /\ Reaches(c, h, z, toClient, y) /\ y.at = cursor[c]
               /\ Gathers(assembly[c], h, z)
               /\ Stands(mirror, c, h, z, resync, sync[c], assembly[c])

\* A message of container c takes it to stage x, and nothing of the others changes.
Besides(c) ==
  /\ assembly' = [b \in Containers |-> assembly'[b]]
  /\ \A b \in Containers : b # c =>
       /\ assembly'[b] = assembly[b] /\ sync'[b] = sync[b]
       /\ b \in resync' <=> b \in resync
Advances(c, h, x) ==
  /\ Mirrors(store, mirror') /\ Elsewhere(mirror, mirror', c) /\ Besides(c)
  /\ Gathers(assembly'[c], h, x)
  /\ Stands(mirror', c, h, x, resync', sync'[c], assembly'[c])

\* A store is elsewhere what it is.
LEMMA ElsewhereSame == ASSUME NEW s, NEW c PROVE Elsewhere(s, s, c)
BY DEF Elsewhere

\* The entries of the pages so far and of the next.
LEMMA ListsMore ==
  ASSUME NEW E, NEW F, NEW v, NEW n \in Nat, Lists(E, v, 1..n), Lists(F, v, {n + 1})
  PROVE  Lists(E \cup F, v, 1..(n + 1))
<1>1. 1..(n + 1) = (1..n) \cup {n + 1} OBVIOUS
<1> DEFINE S == 1..n
           T == {n + 1}
           R == 1..(n + 1)
<1>2. R = S \cup T BY <1>1
<1>3. Lists(E, v, S) /\ Lists(F, v, T) OBVIOUS
<1> HIDE DEF R, S, T
<1>4. Lists(E \cup F, v, R) BY <1>2, <1>3 DEF Lists
<1> QED BY <1>4 DEF R

\* No page has no entries.
LEMMA ListsNone == ASSUME NEW v, NEW n, n = 0 PROVE Lists({}, v, 1..n)
BY DEF Lists

\* handle_client_inventory_snapshot_page
LEMMA PageAdvances ==
  ASSUME NEW m, m.kind = "page", NEW c \in Containers, c = m.container,
         Shaped(store), Mirrors(store, mirror), assembly = [b \in Containers |-> assembly[b]],
         sync = [b \in Containers |-> sync[b]],
         NEW h, Recalls(store, c, h), NEW z, NEW x, Stage(z), Stage(x),
         Tells(h, m), Heeds(z, m, x),
         Gathers(assembly[c], h, z), Stands(mirror, c, h, z, resync, sync[c], assembly[c]),
         ReceivePage(m)
  PROVE  Advances(c, h, x)
<1> DEFINE begun == Begun(m)
           had == Had(z, m)
           r == m.revision
           v == h[r]
           P == Carried(m)
           a == [begun EXCEPT !.received = @ \cup {m.index}, !.entries = @ \cup P]
<1>1. /\ r \in DOMAIN h /\ m.count = PageCount(v) /\ m.index \in 1..m.count
      /\ Lists(P, v, {m.index})
  BY DEF Tells
<1>2. /\ h = [n \in 0..store.revision[c] |-> h[n]]
      /\ \A n \in 0..store.revision[c] : Proper(store, c, h[n])
      /\ store.revision[c] \in Nat
  BY DEF Recalls, Shaped
<1>3. r \in Nat /\ Proper(store, c, v)
  <2>1. DOMAIN h = 0..store.revision[c] BY <1>2
  <2>2. r \in 0..store.revision[c] BY <1>1, <2>1
  <2>3. \A n \in 0..store.revision[c] : Proper(store, c, h[n]) BY <1>2
  <2> HIDE DEF r
  <2>4. Proper(store, c, h[r]) BY <2>2, <2>3
  <2>5. r \in Nat BY <1>2, <2>2
  <2> QED BY <2>4, <2>5
<1>4. m.count \in Nat \ {0} /\ \A k \in Filled(v) : PageOf(v, k) \in 1..m.count
  BY <1>1, <1>3, PagesOf
<1>5. m.index \in Nat \ {0} /\ m.index <= m.count BY <1>1, <1>4
<1>6. z.at \in Nat \cup {Unsent} /\ z.count \in Nat /\ z.got \in Nat BY DEF Stage
<1>7. had \in Nat BY <1>6 DEF Had
<1>8. /\ begun = [revision |-> r, count |-> m.count, received |-> 1..had,
                  entries |-> begun.entries]
      /\ Lists(begun.entries, v, 1..had)
  <2> DEFINE e == assembly[c]
  <2>1. /\ e = [revision |-> e.revision, count |-> e.count, received |-> e.received,
                entries |-> e.entries]
        /\ e.count = z.count /\ e.received = 1..z.got
        /\ z.count # 0 => /\ e.revision = z.revision
                          /\ Lists(e.entries, h[z.revision], 1..z.got)
    BY DEF Gathers
  <2>2. begun = IF e.count = 0 \/ e.revision # r \/ e.count # m.count
                THEN [revision |-> r, count |-> m.count, received |-> {}, entries |-> {}]
                ELSE e
    BY DEF Begun
  <2> HIDE DEF e, begun
  <2>3. CASE z.count = 0 \/ z.revision # r \/ z.count # m.count
    <3>1. had = 0 BY <2>3 DEF Had
    <3>2. 1..had = {} BY <3>1
    <3>3. begun = [revision |-> r, count |-> m.count, received |-> {}, entries |-> {}]
      BY <2>1, <2>2, <2>3
    <3>4. Lists({}, v, 1..had) BY <3>1, ListsNone
    <3> HIDE DEF had, v
    <3> QED BY <3>2, <3>3, <3>4
  <2>4. CASE ~(z.count = 0 \/ z.revision # r \/ z.count # m.count)
    <3>1. had = z.got BY <2>4 DEF Had
    <3>2. begun = e /\ z.count # 0 /\ z.revision = r BY <2>1, <2>2, <2>4
    <3>3. Lists(e.entries, v, 1..had) BY <2>1, <3>1, <3>2
    <3> HIDE DEF had, v
    <3> QED BY <2>1, <2>4, <3>1, <3>2, <3>3
  <2> QED BY <2>3, <2>4
<1>9. /\ IF m.index \in begun.received
         THEN /\ assembly' = [assembly EXCEPT ![c] = begun]
              /\ UNCHANGED <<mirror, sync, resync>>
         ELSE IF a.received # 1..a.count
         THEN /\ assembly' = [assembly EXCEPT ![c] = a]
              /\ sync' = [sync EXCEPT ![c] = "syncing"]
              /\ UNCHANGED <<mirror, resync>>
         ELSE /\ assembly' = [assembly EXCEPT ![c] = NoAssembly]
              /\ sync' = [sync EXCEPT ![c] = "ready"]
              /\ mirror' = Replaced(mirror, c, a.revision, a.entries)
              /\ resync' = resync \ {c}
  BY DEF ReceivePage, Carried
<1>10. \/ m.index <= had /\ x = At(z.at, r, m.count, had)
       \/ m.index = had + 1 /\ m.index < m.count /\ x = At(z.at, r, m.count, m.index)
       \/ m.index = had + 1 /\ m.index = m.count /\ x = At(r, 0, 0, 0)
  BY DEF Heeds
<1> HIDE DEF begun, had
<1>11. a = [revision |-> r, count |-> m.count, received |-> (1..had) \cup {m.index},
            entries |-> begun.entries \cup P]
  <2> DEFINE e == begun.entries
  <2>1. begun = [revision |-> r, count |-> m.count, received |-> 1..had, entries |-> e] BY <1>8
  <2> DEFINE H == 1..had
             I == H \cup {m.index}
             n == m.count
             Q == e \cup P
             b == [begun EXCEPT !.received = I]
  <2>2. begun = [revision |-> r, count |-> n, received |-> H, entries |-> e] BY <2>1
  <2>3. begun.received = H /\ begun.entries = e BY <2>2
  <2>4. a = [begun EXCEPT !.received = I, !.entries = e \cup P] BY <2>3
  <2> HIDE DEF e, r, P, H, I, n
  <2>5. b = [revision |-> r, count |-> n, received |-> I, entries |-> e] BY <2>2
  <2>6. a = [b EXCEPT !.entries = Q] BY <2>4
  <2> HIDE DEF b, Q
  <2>7. [b EXCEPT !.entries = Q] = [revision |-> r, count |-> n, received |-> I, entries |-> Q]
    BY <2>5
  <2> QED BY <2>6, <2>7 DEF e, I, H, n, Q
<1> HIDE DEF a
<1>12. /\ a.revision = r /\ a.count = m.count /\ a.received = (1..had) \cup {m.index}
       /\ a.entries = begun.entries \cup P
  BY <1>11
<1>13. begun.received = 1..had BY <1>8
<1>14. ASSUME m.index = had + 1
       PROVE  /\ a.received = 1..m.index /\ Lists(a.entries, v, 1..m.index)
              /\ m.index \notin begun.received /\ (a.received = 1..a.count <=> m.index = m.count)
  BY <1>1, <1>4, <1>5, <1>7, <1>8, <1>12, <1>13, <1>14, ListsMore
<1>15. /\ c \in mirror.open =>
            mirror.revision[c] \in DOMAIN h /\ Shown(mirror, c) = h[mirror.revision[c]]
       /\ c \notin resync => z.at = IF c \in mirror.open THEN mirror.revision[c] ELSE Unsent
       /\ c \in mirror.open /\ c \notin resync =>
            sync[c] = "ready" \/ (sync[c] = "syncing" /\ assembly[c].received # {})
  BY DEF Stands
<1>16. CASE m.index <= had /\ x = At(z.at, r, m.count, had)
  <2>1. m.index \in begun.received BY <1>5, <1>7, <1>13, <1>16
  <2>2. assembly' = [assembly EXCEPT ![c] = begun] /\ mirror' = mirror /\ sync' = sync
        /\ resync' = resync
    BY <1>9, <2>1
  <2>3. assembly'[c] = begun /\ Besides(c) BY <2>2 DEF Besides
  <2>4. x.at = z.at /\ x.revision = r /\ x.count = m.count /\ x.got = had BY <1>16 DEF At
  <2>5. Gathers(begun, h, x) BY <1>1, <1>8, <1>13, <2>4 DEF Gathers
  <2>6. begun.received # {} BY <2>1
  <2>7. assembly[c].received # {} => begun.received # {} BY <2>6
  <2>8. Stands(mirror, c, h, x, resync, sync[c], begun) BY <1>15, <2>4, <2>7 DEF Stands
  <2> QED BY <2>2, <2>3, <2>5, <2>8, ElsewhereSame DEF Advances
<1>17. CASE m.index = had + 1 /\ m.index < m.count /\ x = At(z.at, r, m.count, m.index)
  <2>1. m.index \notin begun.received /\ a.received # 1..a.count BY <1>5, <1>14, <1>17
  <2>2. assembly' = [assembly EXCEPT ![c] = a] /\ mirror' = mirror
        /\ sync' = [sync EXCEPT ![c] = "syncing"] /\ resync' = resync
    BY <1>9, <2>1
  <2>3. assembly'[c] = a /\ sync'[c] = "syncing" /\ Besides(c) BY <2>2 DEF Besides
  <2>4. x.at = z.at /\ x.revision = r /\ x.count = m.count /\ x.got = m.index BY <1>17 DEF At
  <2>5. a = [revision |-> a.revision, count |-> a.count, received |-> a.received,
             entries |-> a.entries]
    BY <1>11
  <2>6. Gathers(a, h, x) BY <1>1, <1>12, <1>14, <1>17, <2>4, <2>5 DEF Gathers
  <2>7. a.received # {} BY <1>12
  <2>8. Stands(mirror, c, h, x, resync, "syncing", a) BY <1>15, <2>4, <2>7 DEF Stands
  <2> QED BY <2>2, <2>3, <2>6, <2>8, ElsewhereSame DEF Advances
<1>18. CASE m.index = had + 1 /\ m.index = m.count /\ x = At(r, 0, 0, 0)
  <2> DEFINE u == Replaced(mirror, c, r, a.entries)
  <2>1. m.index \notin begun.received /\ a.received = 1..a.count BY <1>14, <1>18
  <2>2. assembly' = [assembly EXCEPT ![c] = NoAssembly] /\ mirror' = u
        /\ sync' = [sync EXCEPT ![c] = "ready"] /\ resync' = resync \ {c}
    BY <1>9, <1>12, <2>1
  <2>3. assembly'[c] = NoAssembly /\ sync'[c] = "ready" /\ Besides(c) BY <2>2 DEF Besides
  <2>4. x.at = r /\ x.count = 0 /\ x.got = 0 BY <1>18 DEF At
  <2>5. Gathers(NoAssembly, h, x) BY <2>4 DEF Gathers, NoAssembly
  <2>6. Lists(a.entries, v, 1..m.count) BY <1>14, <1>18
  <2>7. /\ Mirrors(store, u) /\ Elsewhere(mirror, u, c) /\ Shown(u, c) = v
        /\ u.revision[c] = r /\ u.open = mirror.open \cup {c}
    BY <1>3, <1>4, <2>6, ReplacedMirrors
  <2> HIDE DEF u
  <2>8. Stands(u, c, h, x, resync', "ready", NoAssembly) BY <1>1, <2>4, <2>7 DEF Stands
  <2> QED BY <2>2, <2>3, <2>5, <2>7, <2>8 DEF Advances
<1> QED BY <1>10, <1>16, <1>17, <1>18

\* handle_client_inventory_delta_batch
LEMMA DeltasAdvances ==
  ASSUME NEW m, m.kind = "deltas", NEW c \in Containers, c = m.container,
         Shaped(store), Mirrors(store, mirror), assembly = [b \in Containers |-> assembly[b]],
         sync = [b \in Containers |-> sync[b]],
         NEW h, Recalls(store, c, h), NEW z, NEW x, Stage(z), Stage(x),
         Tells(h, m), Heeds(z, m, x),
         Gathers(assembly[c], h, z), Stands(mirror, c, h, z, resync, sync[c], assembly[c]),
         ReceiveDeltas(m)
  PROVE  Advances(c, h, x)
<1> DEFINE l == mirror.revision[c]
           last == m.first + Len(m.records) - 1
           done == ApplyAll(mirror, c, m.records)
<1>1. /\ assembly' = assembly
      /\ \/ Ask(c) /\ sync' = [sync EXCEPT ![c] = "desynced"] /\ mirror' = mirror
         \/ c \in mirror.open /\ last <= l /\ UNCHANGED <<resync, toServer, sync, mirror>>
         \/ Ask(c) /\ sync' = sync /\ mirror' = mirror
         \/ /\ c \in mirror.open /\ m.first = l + 1
            /\ \A n \in 1..Len(m.records) : Readable(mirror, m.records[n])
            /\ mirror' = done.store
            /\ sync' = [sync EXCEPT ![c] = IF done.ok THEN "ready" ELSE "desynced"]
            /\ IF done.ok THEN UNCHANGED <<resync, toServer>> ELSE Ask(c)
  BY DEF ReceiveDeltas
<1>2. m.first \in Nat \ {0} /\ Len(m.records) \in Nat \ {0} BY DEF Tells
<1>3. /\ z.at # Unsent /\ m.first = z.at + 1
      /\ x = At(last, z.revision, z.count, z.got)
  BY DEF Heeds
<1>4. l \in Nat BY DEF Mirrors, Shaped
<1>5. x.at = last /\ x.revision = z.revision /\ x.count = z.count /\ x.got = z.got
  BY <1>3 DEF At
<1>6. /\ c \in mirror.open => l \in DOMAIN h /\ Shown(mirror, c) = h[l]
      /\ c \notin resync => z.at = IF c \in mirror.open THEN l ELSE Unsent
      /\ c \in mirror.open /\ c \notin resync =>
           sync[c] = "ready" \/ (sync[c] = "syncing" /\ assembly[c].received # {})
  BY DEF Stands
<1>7. Gathers(assembly[c], h, x) BY <1>5 DEF Gathers
<1> HIDE DEF last, l, done
<1>8. ASSUME Ask(c), mirror' = mirror, assembly' = assembly,
             sync' = [sync EXCEPT ![c] = "desynced"] \/ sync' = sync
      PROVE  Advances(c, h, x)
  BY <1>6, <1>7, <1>8, ElsewhereSame DEF Ask, Besides, Stands, l, Advances
<1>9. CASE c \in mirror.open /\ last <= l /\ UNCHANGED <<resync, toServer, sync, mirror>>
  <2>1. Besides(c) BY <1>1, <1>9 DEF Besides
  <2>2. c \in resync
    BY <1>2, <1>3, <1>4, <1>6, <1>9 DEF last
  <2>3. Stands(mirror, c, h, x, resync, sync[c], assembly[c])
    BY <1>6, <2>2 DEF Stands, l
  <2> QED BY <1>1, <1>7, <1>9, <2>1, <2>3, ElsewhereSame DEF Advances
<1>10. CASE /\ c \in mirror.open /\ m.first = l + 1
            /\ \A n \in 1..Len(m.records) : Readable(mirror, m.records[n])
            /\ mirror' = done.store
            /\ sync' = [sync EXCEPT ![c] = IF done.ok THEN "ready" ELSE "desynced"]
            /\ IF done.ok THEN UNCHANGED <<resync, toServer>> ELSE Ask(c)
  <2> DEFINE u == done.store
  <2>1. m.first = mirror.revision[c] + 1 /\ Shown(mirror, c) = h[mirror.revision[c]]
    BY <1>6, <1>10 DEF l
  <2>2. LET f == ApplyAll(mirror, c, m.records)
            w == f.store
            e == m.first + Len(m.records) - 1
        IN  /\ f.ok /\ Mirrors(store, w) /\ Elsewhere(mirror, w, c) /\ w.open = mirror.open
            /\ w.revision[c] = e /\ e \in DOMAIN h /\ Shown(w, c) = h[e]
    BY <1>10, <2>1, BatchMirrors
  <2>3. /\ done.ok /\ Mirrors(store, u) /\ Elsewhere(mirror, u, c) /\ u.open = mirror.open
        /\ u.revision[c] = last /\ last \in DOMAIN h /\ Shown(u, c) = h[last]
    BY <2>2 DEF done, last
  <2>4. mirror' = u /\ sync' = [sync EXCEPT ![c] = "ready"] /\ resync' = resync
    BY <1>10, <2>3
  <2> HIDE DEF u
  <2>5. Besides(c) /\ sync'[c] = "ready" BY <1>1, <2>4 DEF Besides
  <2>6. Stands(u, c, h, x, resync, "ready", assembly[c])
    BY <1>5, <1>10, <2>3 DEF Stands
  <2> QED BY <1>1, <1>7, <2>3, <2>4, <2>5, <2>6 DEF Advances
<1> QED BY <1>1, <1>8, <1>9, <1>10

\* handle_client_inventory_container_closed
LEMMA ClosedAdvances ==
  ASSUME NEW m, m.kind = "closed", NEW c \in Containers, c = m.container,
         Mirrors(store, mirror), assembly = [b \in Containers |-> assembly[b]],
         sync = [b \in Containers |-> sync[b]],
         NEW h, NEW z, NEW x, Heeds(z, m, x), ReceiveClosed(m)
  PROVE  Advances(c, h, x)
<1> DEFINE u == IF c \in mirror.open THEN destroy_container(mirror, c) ELSE mirror
<1>1. /\ mirror' = u /\ sync' = [sync EXCEPT ![c] = "none"]
      /\ assembly' = [assembly EXCEPT ![c] = NoAssembly] /\ resync' = resync \ {c}
  BY DEF ReceiveClosed
<1>2. x = At(Unsent, 0, 0, 0) BY DEF Heeds
<1>3. x.at = Unsent /\ x.count = 0 /\ x.got = 0 BY <1>2 DEF At
<1>4. Mirrors(store, u) /\ Elsewhere(mirror, u, c) /\ c \notin u.open
  BY DestroyMirrors, ElsewhereSame
<1> HIDE DEF u
<1>5. Besides(c) /\ assembly'[c] = NoAssembly BY <1>1 DEF Besides
<1>6. Gathers(NoAssembly, h, x) BY <1>3 DEF Gathers, NoAssembly
<1>7. Stands(u, c, h, x, resync', sync'[c], NoAssembly) BY <1>3, <1>4 DEF Stands
<1> QED BY <1>1, <1>4, <1>5, <1>6, <1>7 DEF Advances

\* What holds of the client's copies with what is on the way to them.
Following ==
  /\ Mirrors(store, mirror) /\ assembly = [c \in Containers |-> assembly[c]]
  /\ \A c \in Containers : Follows(c)

\* A message received.
LEMMA FollowsClient ==
  ASSUME Recorded, Copied, Shaped(store), Following, ClientReceive
  PROVE  Following'
<1> DEFINE m == Head(toClient)
           c == m.container
<1>1. toClient # <<>> /\ toClient' = Tail(toClient) /\ store' = store /\ cursor' = cursor
  BY DEF ClientReceive, requestVars
<1>2. Listed(toClient) BY DEF Recorded
<1>3. \/ m.kind = "page" /\ ReceivePage(m)
      \/ m.kind = "deltas" /\ ReceiveDeltas(m)
      \/ m.kind = "closed" /\ ReceiveClosed(m)
      \/ m.kind = "answer" /\ ReceiveAnswer(m)
  BY DEF ClientReceive
<1>4. m.kind # "answer" => c \in Containers
  BY <1>1, <1>2, TailAt DEF Recorded, Truthful
<1>5. /\ Mirrors(store, mirror) /\ assembly = [b \in Containers |-> assembly[b]]
      /\ sync = [b \in Containers |-> sync[b]]
  BY DEF Following, Copied
<1>6. ASSUME NEW b \in Containers
      PROVE  \E h, z, x, y :
               /\ Recalls(store, b, h) /\ Stage(z) /\ Stage(x) /\ Passes(b, h, z, m, x)
               /\ Reaches(b, h, x, toClient', y) /\ y.at = cursor[b]
               /\ Gathers(assembly[b], h, z)
               /\ Stands(mirror, b, h, z, resync, sync[b], assembly[b])
  BY <1>1, <1>2, ReachesTail DEF Following, Follows
<1> HIDE DEF m, c
<1>7. CASE m.kind = "answer"
  BY <1>1, <1>3, <1>5, <1>6, <1>7 DEF ReceiveAnswer, Passes, About, Follows, Following
<1>8. CASE m.kind # "answer"
  <2>1. PICK d \in Containers : d = m.container BY <1>4, <1>8 DEF c
  <2>2. PICK h, z, x, y :
               /\ Recalls(store, d, h) /\ Stage(z) /\ Stage(x) /\ Passes(d, h, z, m, x)
               /\ Reaches(d, h, x, toClient', y) /\ y.at = cursor[d]
               /\ Gathers(assembly[d], h, z)
               /\ Stands(mirror, d, h, z, resync, sync[d], assembly[d])
    BY <1>6, <2>1
  <2>3. Tells(h, m) /\ Heeds(z, m, x) BY <1>8, <2>1, <2>2 DEF Passes, About
  <2>4. Advances(d, h, x)
    BY <1>3, <1>5, <1>8, <2>1, <2>2, <2>3, PageAdvances, DeltasAdvances, ClosedAdvances
  <2>5. /\ Mirrors(store, mirror') /\ Elsewhere(mirror, mirror', d)
        /\ assembly' = [b \in Containers |-> assembly'[b]]
        /\ \A b \in Containers : b # d =>
             /\ assembly'[b] = assembly[b] /\ sync'[b] = sync[b]
             /\ b \in resync' <=> b \in resync
        /\ Gathers(assembly'[d], h, x)
        /\ Stands(mirror', d, h, x, resync', sync'[d], assembly'[d])
    BY <2>4 DEF Advances, Besides
  <2>6. Follows(d)' BY <1>1, <2>2, <2>5 DEF Follows
  <2>7. ASSUME NEW b \in Containers, b # d PROVE Follows(b)'
    <3>1. PICK g, w, s, t :
               /\ Recalls(store, b, g) /\ Passes(b, g, w, m, s)
               /\ Reaches(b, g, s, toClient', t) /\ t.at = cursor[b]
               /\ Gathers(assembly[b], g, w)
               /\ Stands(mirror, b, g, w, resync, sync[b], assembly[b])
      BY <1>6
    <3>2. s = w BY <2>1, <2>7, <3>1 DEF Passes, About
    <3>3. Shown(mirror', b) = Shown(mirror, b) BY <2>5, <2>7, ElsewhereShown
    <3>4. mirror'.revision[b] = mirror.revision[b] /\ (b \in mirror'.open <=> b \in mirror.open)
      BY <2>5, <2>7 DEF Elsewhere
    <3>5. Stands(mirror', b, g, w, resync', sync'[b], assembly'[b])
      BY <2>5, <2>7, <3>1, <3>3, <3>4 DEF Stands
    <3>6. assembly'[b] = assembly[b] BY <2>5, <2>7
    <3> QED BY <1>1, <3>1, <3>2, <3>5, <3>6 DEF Follows
  <2> QED BY <1>1, <2>5, <2>6, <2>7 DEF Following
<1> QED BY <1>7, <1>8

-----------------------------------------------------------------------------
(* The invariant.                                                          *)

\* A step of the server's.
LEMMA FollowsServer ==
  ASSUME Inventoried, Copied, Following,
         Tick \/ ServerReceive \/ World \/ submit_gameplay_request,
         Shaped(store), Shaped(store'), Onward(store, store')
  PROVE  Following'
<1>1. UNCHANGED <<mirror, assembly, sync, resync>>
  BY DEF Tick, ServerReceive, World, submit_gameplay_request, syncVars
<1>2. Grows(store, store') /\ Lasts(store, store') BY DEF Onward, Grows
<1>3. Mirrors(store', mirror)
  BY <1>2, MirrorsLasts DEF Following
<1>4. assembly = [c \in Containers |-> assembly[c]] BY DEF Following
<1>5. ASSUME NEW c \in Containers PROVE Follows(c)'
  <2>1. PICK h, z, y : /\ Recalls(store, c, h) /\ Reaches(c, h, z, toClient, y)
                       /\ y.at = cursor[c] /\ Gathers(assembly[c], h, z)
                       /\ Stands(mirror, c, h, z, resync, sync[c], assembly[c])
    BY DEF Following, Follows
  <2>2. PICK g : Recalls(store', c, g) /\ Longer(h, g) BY <1>2, <2>1 DEF Grows
  <2>3. Reaches(c, g, z, toClient, y) BY <2>1, <2>2, ReachesLonger
  <2>4. PICK x : Reaches(c, g, z, toClient', x) /\ x.at = cursor'[c]
    BY <2>1, <2>2, <2>3, ServerReach
  <2>5. DOMAIN h \subseteq DOMAIN g /\ \A r \in DOMAIN h : g[r] = h[r] BY <2>2 DEF Longer
  <2>6. Gathers(assembly[c], g, z) BY <2>1, <2>5 DEF Gathers
  <2>7. Stands(mirror, c, g, z, resync, sync[c], assembly[c]) BY <2>1, <2>5 DEF Stands
  <2> QED BY <1>1, <2>2, <2>4, <2>6, <2>7 DEF Follows
<1> QED BY <1>1, <1>3, <1>4, <1>5 DEF Following

\* The inductive invariant: as long as nothing moved whole from the stock, what the
\* stores have shown is known, and every container is followed.
Mirroring == Conserving /\ (TookWhole \/ (Told(store) /\ Following))

\* The client's copy begins empty.
LEMMA EmptyShaped == Shaped(EmptyStore)
<1> DEFINE a == [i \in Ids |-> EmptyItem]
           b == [c \in Containers |-> [k \in 1..Capacity[c] |-> 0]]
           d == [c \in Containers |-> 0]
           e == [c \in Containers |-> <<>>]
           t == EmptyStore
<1>1. t = [items |-> a, slots |-> b, open |-> {}, revision |-> d, log |-> e,
           nextItem |-> 1, nextProp |-> 1, props |-> {}]
  BY DEF EmptyStore
<1>2. IsItem(EmptyItem) BY EmptyIs
<1>3. a = [i \in Ids |-> a[i]] /\ \A i \in Ids : IsItem(a[i]) BY <1>2
<1>4. b = [c \in Containers |-> b[c]]
      /\ \A c \in Containers : b[c] \in [1..Capacity[c] -> Ids \cup {0}]
  OBVIOUS
<1>5. d \in [Containers -> Nat] OBVIOUS
<1>6. e = [c \in Containers |-> e[c]] /\ \A c \in Containers : Listed(e[c])
  BY NoneSilent DEF Silent
<1> HIDE DEF a, b, d, e, t
<1>7. /\ t.items = a /\ t.slots = b /\ t.open = {} /\ t.revision = d /\ t.log = e
      /\ t.nextItem = 1 /\ t.nextProp = 1 /\ t.props = {}
  BY <1>1
<1>8. Shaped(t) BY <1>1, <1>3, <1>4, <1>5, <1>6, <1>7 DEF Shaped
<1> QED BY <1>8 DEF t

\* so it is a copy of any store.
LEMMA EmptyMirrors == ASSUME NEW t PROVE Mirrors(t, EmptyStore)
<1> DEFINE s == EmptyStore
<1>1. /\ \A i \in Ids : s.items[i] = EmptyItem
      /\ \A c \in Containers : \A k \in 1..Capacity[c] : s.slots[c][k] = 0
  BY DEF EmptyStore
<1>2. EmptyItem.template = "none" BY DEF EmptyItem
<1>3. Shaped(s) BY EmptyShaped
<1> HIDE DEF s
<1>4. ASSUME NEW c \in Containers PROVE Proper(t, c, Shown(s, c)) /\ Held(s, c)
  <2> DEFINE z == Shown(s, c)
  <2>1. \A k \in 1..Capacity[c] : z[k] = Nothing BY <1>1 DEF Shown
  <2>2. z = [k \in 1..Capacity[c] |-> z[k]] BY DEF Shown
  <2> HIDE DEF z
  <2>3. Nothing.id = 0 BY DEF Nothing
  <2>4. Proper(t, c, z) BY <2>1, <2>2, <2>3 DEF Proper
  <2>5. Held(s, c) BY <1>1 DEF Held
  <2> QED BY <2>4, <2>5 DEF z
<1>5. \A i \in Ids : Known(t, i, s.items[i]) BY <1>1, <1>2 DEF Known
<1>6. Mirrors(t, s) BY <1>1, <1>3, <1>4, <1>5 DEF Mirrors
<1> QED BY <1>6 DEF s

\* The invariant holds at first
LEMMA MirroringStart == InventoryInit => Mirroring
<1> SUFFICES ASSUME InventoryInit PROVE Mirroring OBVIOUS
<1>1. Conserving BY InventoriedStart, CopiedStart DEF Conserving
<1>2. /\ store = Furnished /\ cursor = [c \in Containers |-> Unsent] /\ toClient = <<>>
      /\ mirror = EmptyStore /\ assembly = [c \in Containers |-> NoAssembly]
      /\ resync = {}
  BY DEF InventoryInit, RequestInit
<1>3. Told(store) BY <1>2, FurnishedTold
<1>4. Mirrors(store, mirror) BY <1>2, EmptyMirrors
<1>5. assembly = [c \in Containers |-> assembly[c]] BY <1>2
<1>6. mirror.open = {} BY <1>2 DEF EmptyStore
<1>7. ASSUME NEW c \in Containers PROVE Follows(c)
  <2> DEFINE z == At(Unsent, 0, 0, 0)
  <2>1. z.at = Unsent /\ z.revision = 0 /\ z.count = 0 /\ z.got = 0 BY DEF At
  <2>2. z = At(z.at, z.revision, z.count, z.got) BY <2>1
  <2> HIDE DEF z
  <2>3. Stage(z) BY <2>1, <2>2 DEF Stage
  <2>4. PICK h : Recalls(store, c, h) BY <1>3 DEF Told
  <2>5. Listed(toClient) /\ Len(toClient) = 0
    BY <1>2, NoneSilent DEF Silent
  <2>6. \A n \in 1..Len(toClient) : ~About(c, toClient[n]) BY <2>5
  <2>7. Reaches(c, h, z, toClient, z) BY <2>3, <2>5, <2>6, ReachesDeaf
  <2>8. assembly[c] = NoAssembly /\ cursor[c] = Unsent BY <1>2
  <2>9. Gathers(NoAssembly, h, z) BY <2>1 DEF Gathers, NoAssembly
  <2>10. Stands(mirror, c, h, z, resync, sync[c], NoAssembly) BY <1>6, <2>1 DEF Stands
  <2> QED BY <2>1, <2>4, <2>7, <2>8, <2>9, <2>10 DEF Follows
<1> QED BY <1>1, <1>3, <1>4, <1>5, <1>7 DEF Mirroring, Following

\* and in every step.
LEMMA MirroringStep == Mirroring /\ [InventoryNext]_inventoryVars => Mirroring'
<1> SUFFICES ASSUME Mirroring, [InventoryNext]_inventoryVars PROVE Mirroring' OBVIOUS
<1>1. Conserving /\ Inventoried /\ Copied /\ Recorded /\ Wished /\ Stored
  BY DEF Mirroring, Conserving, Inventoried
<1>2. InStep(store, hand, synced) /\ Shaped(store) BY <1>1 DEF Stored, InStep, Sound
<1>3. Conserving' /\ Inventoried'
  BY <1>1, InventoriedStep, CopiedStep DEF Conserving
<1>4. Shaped(store') BY <1>3 DEF Inventoried, Stored, InStep, Sound
<1>5. Onflow BY <1>1, <1>2, ServerFlows
<1>6. Flows(store, store') \/ (Ebbs(store, store') /\ TookWhole') BY <1>5 DEF Onflow
<1>7. ASSUME ~TookWhole' PROVE (Told(store) /\ Following)'
  <2>1. Flows(store, store') /\ Ebbs(store, store') BY <1>6, <1>7 DEF Flows
  <2>2. ~TookWhole BY <1>1, <1>7, <2>1, TookStays
  <2>3. Told(store) /\ Following BY <2>2 DEF Mirroring
  <2>4. Onward(store, store') BY <2>1, <2>3 DEF Flows
  <2>5. Told(store') BY <1>2, <1>4, <2>3, <2>4, ToldOnward
  <2>6. Told(store)' BY <2>5
  <2>7. CASE Tick \/ ServerReceive \/ World \/ submit_gameplay_request
    BY <1>1, <1>2, <1>4, <2>3, <2>4, <2>6, <2>7, FollowsServer
  <2>8. CASE ClientReceive BY <1>1, <1>2, <2>3, <2>6, <2>8, FollowsClient
  <2>9. CASE UNCHANGED inventoryVars
    BY <2>3, <2>6, <2>9 DEF inventoryVars, syncVars, requestVars, Following, Follows
  <2> QED BY <2>7, <2>8, <2>9 DEF InventoryNext
<1> QED BY <1>3, <1>7 DEF Mirroring

\* What shows as another item does, at its place, is that item.
LEMMA ItemSame ==
  ASSUME NEW i, NEW x, NEW y, IsItem(x), IsItem(y), Bare(i, x) = Bare(i, y), x.at = y.at
  PROVE  x = [y EXCEPT !.used = x.used]
<1>1. /\ x = [template |-> x.template, quantity |-> x.quantity, used |-> x.used,
              state |-> x.state, at |-> x.at]
      /\ y = [template |-> y.template, quantity |-> y.quantity, used |-> y.used,
              state |-> y.state, at |-> y.at]
  BY DEF IsItem
<1>2. x.template = y.template /\ x.quantity = y.quantity /\ x.state = y.state
  <2> DEFINE p == Bare(i, x)
             q == Bare(i, y)
  <2>1. /\ p.template = x.template /\ p.quantity = x.quantity /\ p.state = x.state
        /\ q.template = y.template /\ q.quantity = y.quantity /\ q.state = y.state
    BY DEF Bare
  <2>2. p = q OBVIOUS
  <2> HIDE DEF p, q
  <2> QED BY <2>1, <2>2
<1> DEFINE a == y.template
           b == y.quantity
           d == y.used
           e == y.state
           f == y.at
           u == x.used
<1>3. y = [template |-> a, quantity |-> b, used |-> d, state |-> e, at |-> f] BY <1>1
<1>4. x = [template |-> a, quantity |-> b, used |-> u, state |-> e, at |-> f] BY <1>1, <1>2
<1> HIDE DEF a, b, d, e, f, u
<1>5. [y EXCEPT !.used = u] = [template |-> a, quantity |-> b, used |-> u, state |-> e, at |-> f]
  BY <1>3
<1>6. x = [y EXCEPT !.used = u] BY <1>4, <1>5
<1> QED BY <1>6 DEF u

\* Two stores that show the same list the same.
LEMMA ListedSame ==
  ASSUME NEW s, NEW t, Shaped(s), Shaped(t), NEW c \in Containers, Shown(s, c) = Shown(t, c),
         Held(s, c), Held(t, c)
  PROVE  /\ s.slots[c] = t.slots[c]
         /\ \A k \in 1..Capacity[c] : t.slots[c][k] # 0 =>
              s.items[t.slots[c][k]]
                = [t.items[t.slots[c][k]] EXCEPT !.used = s.items[t.slots[c][k]].used]
<1>1. \A k \in 1..Capacity[c] :
        /\ Shown(s, c)[k].id = s.slots[c][k] /\ Shown(t, c)[k].id = t.slots[c][k]
        /\ s.slots[c][k] # 0 => Shown(s, c)[k] = Bare(s.slots[c][k], s.items[s.slots[c][k]])
        /\ t.slots[c][k] # 0 => Shown(t, c)[k] = Bare(t.slots[c][k], t.items[t.slots[c][k]])
  BY ShownIds
<1>2. \A k \in 1..Capacity[c] : s.slots[c][k] = t.slots[c][k] BY <1>1
<1>3. s.slots[c] = t.slots[c]
  <2> DEFINE x == s.slots[c]
             y == t.slots[c]
             D == 1..Capacity[c]
             V == Ids \cup {0}
  <2>1. x \in [D -> V] /\ y \in [D -> V] BY DEF Shaped
  <2>2. \A k \in D : x[k] = y[k] BY <1>2
  <2> HIDE DEF x, y, D, V
  <2>3. x = y BY <2>1, <2>2
  <2> QED BY <2>3 DEF x, y
<1>4. ASSUME NEW k \in 1..Capacity[c], t.slots[c][k] # 0
      PROVE  s.items[t.slots[c][k]]
               = [t.items[t.slots[c][k]] EXCEPT !.used = s.items[t.slots[c][k]].used]
  <2> DEFINE i == t.slots[c][k]
  <2>1. i \in Ids BY <1>4, SlotIn
  <2>2. IsItem(s.items[i]) /\ IsItem(t.items[i]) BY <2>1 DEF Shaped
  <2>3. s.items[i].at = InSlot(c, k) /\ t.items[i].at = InSlot(c, k) BY <1>2, <1>4 DEF Held
  <2>4. Bare(i, s.items[i]) = Bare(i, t.items[i]) BY <1>1, <1>2, <1>4
  <2> HIDE DEF i
  <2>5. s.items[i] = [t.items[i] EXCEPT !.used = s.items[i].used] BY <2>2, <2>3, <2>4, ItemSame
  <2> QED BY <2>5 DEF i
<1> QED BY <1>3, <1>4

\* With nothing on the way, a container followed is one whose copy agrees.
LEMMA MirroringIs == Mirroring => MirrorAgrees
<1> SUFFICES ASSUME Mirroring, NEW c \in Containers, Quiet(c), c \notin resync, ~TookWhole
             PROVE  IF c \in Observed(store)
                    THEN /\ c \in mirror.open
                         /\ sync[c] = "ready" \/ (sync[c] = "syncing" /\ assembly[c].received # {})
                         /\ mirror.slots[c] = store.slots[c]
                         /\ mirror.revision[c] = store.revision[c]
                         /\ \A k \in 1..Capacity[c] : store.slots[c][k] # 0 =>
                              LET i == store.slots[c][k]
                              IN mirror.items[i] = [store.items[i] EXCEPT !.used = mirror.items[i].used]
                    ELSE c \notin mirror.open
  BY DEF MirrorAgrees
<1>1. Following BY DEF Mirroring
<1>2. Listed(toClient) /\ Sound(store)
  BY DEF Mirroring, Conserving, Inventoried, Recorded, Stored, InStep
<1>3. PICK h, z, y : /\ Recalls(store, c, h) /\ Reaches(c, h, z, toClient, y)
                     /\ y.at = cursor[c] /\ Gathers(assembly[c], h, z)
                     /\ Stands(mirror, c, h, z, resync, sync[c], assembly[c])
  BY <1>1 DEF Following, Follows
<1>4. \A n \in 1..Len(toClient) : ~About(c, toClient[n]) BY DEF Quiet, About
<1>5. y = z BY <1>2, <1>3, <1>4, ReachesQuiet
<1>6. cursor[c] = IF c \in mirror.open THEN mirror.revision[c] ELSE Unsent
  BY <1>3, <1>5 DEF Stands
<1>7. Shaped(store) /\ Held(store, c) BY <1>2 DEF Sound, SlotsAgree, Held
<1>8. Shaped(mirror) /\ Held(mirror, c) BY <1>1 DEF Following, Mirrors
<1>9. store.revision[c] \in Nat /\ mirror.revision[c] \in Nat BY <1>7, <1>8 DEF Shaped
<1>10. CASE c \in Observed(store)
  <2>1. cursor[c] = store.revision[c] BY <1>10 DEF Quiet
  <2>2. c \in mirror.open /\ mirror.revision[c] = store.revision[c]
    BY <1>6, <1>9, <2>1 DEF Unsent
  <2>3. sync[c] = "ready" \/ (sync[c] = "syncing" /\ assembly[c].received # {})
    BY <1>3, <2>2 DEF Stands
  <2>4. Shown(mirror, c) = Shown(store, c) BY <1>3, <2>2 DEF Stands, Recalls
  <2>5. /\ mirror.slots[c] = store.slots[c]
        /\ \A k \in 1..Capacity[c] : store.slots[c][k] # 0 =>
             mirror.items[store.slots[c][k]]
               = [store.items[store.slots[c][k]] EXCEPT
                    !.used = mirror.items[store.slots[c][k]].used]
    BY <1>7, <1>8, <2>4, ListedSame
  <2> QED BY <1>10, <2>2, <2>3, <2>5
<1>11. CASE c \notin Observed(store)
  BY <1>6, <1>9, <1>11 DEF Quiet, Unsent
<1> QED BY <1>10, <1>11

\* Once everything sent has arrived and no snapshot is awaited, the client lists what
\* the server does, whatever was asked, refused, cut short or closed on the way, for
\* every page and batch size and every capacity (flush_inventory_replication and the
\* client's handlers).
THEOREM MirrorFollows == InventorySpec => []MirrorAgrees
<1>1. InventorySpec => []Mirroring BY MirroringStart, MirroringStep, PTL DEF InventorySpec
<1>2. Mirroring => MirrorAgrees BY MirroringIs
<1> QED BY <1>1, <1>2, PTL
=============================================================================
