------------------------------ MODULE ItemStore ------------------------------
(***************************************************************************)
(* The store both sides keep item instances and containers in.  It is one  *)
(* record s, and an operation is an operator from a store to a store:      *)
(*   items      [Ids -> item]: template, quantity, how often it was used   *)
(*              (for next_use_tick), portable state, and where it is       *)
(*   slots      [Containers -> sequence of ids], 0 for an empty slot       *)
(*   open       the containers there are                                   *)
(*   revision, log   per container, how often and how it changed           *)
(*   nextItem, nextProp, props   the next ids, and the props in the world  *)
(* Whether a cooldown has passed is left to chance.  Drop tags, which only *)
(* the host application sets, are left out.                                *)
(***************************************************************************)
EXTENDS Naturals, Sequences, FiniteSets, SequencesExt

CONSTANTS
  Capacity,          \* [Containers -> slot_capacity]
  MaxStack,          \* [Templates -> max_stack]
  Weapons,           \* templates with is_weapon
  Charged,           \* templates whose use spends a charge of the state
  HistoryLimit,      \* kInventoryDeltaHistoryLimit
  MaxItems,          \* bound: item instances ever made
  MaxProps           \* bound: props ever made

Containers == DOMAIN Capacity
Templates == DOMAIN MaxStack
Ids == 1..MaxItems
Props == 1..MaxProps
Fungible(t) == MaxStack[t] > 1

ASSUME ItemStoreAssumption ==
  /\ Containers = {"own", "arms", "stock"}
  /\ Capacity \in [Containers -> Nat \ {0}]
  /\ MaxStack \in [Templates -> Nat \ {0}]
  /\ Weapons \subseteq Templates /\ Charged \subseteq Templates
  /\ \A t \in Weapons \cup Charged : MaxStack[t] = 1
  /\ HistoryLimit \in Nat \ {0} /\ MaxItems \in Nat /\ MaxProps \in Nat

Nowhere == [kind |-> "none"]
Terminal == [kind |-> "terminal"]
InSlot(c, k) == [kind |-> "inventory", container |-> c, slot |-> k]
OnProp(p, mode) == [kind |-> "world", prop |-> p, mode |-> mode]

\* The portable fields: a magazine or the charges left, and the spare magazines.
NoState == [count |-> 0, reserve |-> 0]

EmptyItem == [template |-> "none", quantity |-> 0, used |-> 0,
              state |-> NoState, at |-> Nowhere]

EmptyStore ==
  [items |-> [i \in Ids |-> EmptyItem],
   slots |-> [c \in Containers |-> [k \in 1..Capacity[c] |-> 0]],
   open |-> {},
   revision |-> [c \in Containers |-> 0],
   log |-> [c \in Containers |-> <<>>],
   nextItem |-> 1, nextProp |-> 1, props |-> {}]

Live(s, i) == i \in Ids /\ s.items[i].at.kind \in {"inventory", "world"}
InInventory(s, i) == i \in Ids /\ s.items[i].at.kind = "inventory"
InWorld(s, i) == i \in Ids /\ s.items[i].at.kind = "world"

Least(S) == CHOOSE x \in S : \A y \in S : x <= y
Lesser(a, b) == IF a < b THEN a ELSE b

-----------------------------------------------------------------------------
\* A change of container c: the revision counts it, the log keeps the last few.
publish_delta(s, c, type, slot, previous, i, changed) ==
  LET delta == [revision |-> s.revision[c] + 1, type |-> type, slot |-> slot,
                previous |-> previous, id |-> i, changed |-> changed,
                item |-> [template |-> s.items[i].template,
                          quantity |-> s.items[i].quantity,
                          used |-> s.items[i].used, state |-> s.items[i].state]]
      log == Append(s.log[c], delta)
  IN [s EXCEPT !.revision[c] = @ + 1,
               !.log[c] = IF Len(log) > HistoryLimit THEN Tail(log) ELSE log]

\* An item's own change, published when it sits in a container.
Updated(s, i, changed) ==
  IF ~InInventory(s, i) THEN s
  ELSE LET at == s.items[i].at
       IN publish_delta(s, at.container, "Update", at.slot, at.slot, i, changed)

SetQuantity(s, i, q) == Updated([s EXCEPT !.items[i].quantity = q], i, {"quantity"})

set_portable_uint32(s, i, field, v) ==
  IF ~Live(s, i) \/ s.items[i].state[field] = v THEN s
  ELSE Updated([s EXCEPT !.items[i].state[field] = v], i, {"state"})

\* 0 when there is none.  A weapon has one place, and only a stock mixes.
find_empty_slot(s, c, t) ==
  LET free == {k \in 1..Capacity[c] : s.slots[c][k] = 0}
  IN IF \/ c = "arms" /\ t \notin Weapons
        \/ c = "own" /\ t \in Weapons
        \/ free = {}
     THEN 0 ELSE Least(free)

\* The item takes slot k of c, as something new there.
Put(s, i, c, k) ==
  publish_delta([s EXCEPT !.items[i].at = InSlot(c, k), !.slots[c][k] = i],
                c, "Add", k, k, i, {})

remove_from_inventory(s, i) ==
  IF ~InInventory(s, i) THEN s
  ELSE LET at == s.items[i].at
       IN publish_delta([s EXCEPT !.slots[at.container][at.slot] = 0],
                        at.container, "Remove", at.slot, at.slot, i, {})

terminate(s, i) ==
  IF ~Live(s, i) THEN s
  ELSE [remove_from_inventory(s, i) EXCEPT !.items[i].quantity = 0,
                                           !.items[i].at = Terminal]

-----------------------------------------------------------------------------
\* Where a caller may come away with nothing, the result is a set of stores.
create_container(s, c) == [s EXCEPT !.open = @ \cup {c}]

\* A new item of template t, not yet anywhere.
Made(s, t, q, used, state) ==
  [s EXCEPT !.items[s.nextItem] = [template |-> t, quantity |-> q, used |-> used,
                                   state |-> state, at |-> Nowhere],
            !.nextItem = @ + 1]

create_inventory_item(s, t, q, state, c) ==
  {Put(Made(s, t, q, 0, state), s.nextItem, c, k) :
     k \in {find_empty_slot(s, c, t)} \ {0}}

\* A prop is created for a world item (spawn_prop and its decoration).
spawn_prop(s) == [s EXCEPT !.props = @ \cup {s.nextProp}, !.nextProp = @ + 1]

\* destroy_entity: an item still on the prop goes with it.
destroy_prop(s, p) ==
  LET on == {i \in Ids : InWorld(s, i) /\ s.items[i].at.prop = p}
      cleared == IF on = {} THEN s ELSE terminate(s, CHOOSE i \in on : TRUE)
  IN [cleared EXCEPT !.props = @ \ {p}]

create_world_item(s, t, q, state) ==
  [spawn_prop(Made(s, t, q, 0, state))
     EXCEPT !.items[s.nextItem].at = OnProp(s.nextProp, "placed")]

move_to_world(s, i, p, mode) ==
  [remove_from_inventory(s, i) EXCEPT !.items[i].at = OnProp(p, mode)]

split_to_world(s, i, q, p, mode) ==
  LET n == s.nextItem
      made == [Made(s, s.items[i].template, q, 0, s.items[i].state)
                 EXCEPT !.items[n].at = OnProp(p, mode)]
  IN SetQuantity(made, i, s.items[i].quantity - q)

set_world_mode(s, i, mode) == [s EXCEPT !.items[i].at.mode = mode]

-----------------------------------------------------------------------------
\* compatible_runtime_state, of the same template
Compatible(s, i, j) ==
  /\ s.items[i].template = s.items[j].template
  /\ s.items[i].used = s.items[j].used
  /\ s.items[i].state = s.items[j].state

\* Slot k of c holds a stack that item i may top up.
Stacks(s, i, c, k) ==
  LET j == s.slots[c][k]
  IN /\ Fungible(s.items[i].template)
     /\ j # 0 /\ j # i /\ Compatible(s, i, j)
     /\ s.items[j].quantity < MaxStack[s.items[i].template]

\* What is left of item i goes into the stack in slot k, as far as it has room.
PouredInto(acc, i, c, k) ==
  LET j == acc.store.slots[c][k]
      held == acc.store.items[j].quantity
      moved == Lesser(acc.left, MaxStack[acc.store.items[i].template] - held)
  IN IF acc.left = 0 \/ ~Stacks(acc.store, i, c, k) THEN acc
     ELSE [store |-> SetQuantity(acc.store, j, held + moved),
           left |-> acc.left - moved]

\* q of item i poured over the stacks of c in slot order, and what no stack had
\* room for; i itself is not yet touched.
Poured(s, i, c, q) ==
  LET pour[k \in 0..Capacity[c]] ==
        IF k = 0 THEN [store |-> s, left |-> q]
        ELSE PouredInto(pour[k - 1], i, c, k)
  IN pour[Capacity[c]]

\* A world item, all of it: over the stacks, the rest in a slot of its own.
transfer_world_to_inventory(s, i, c) ==
  LET poured == Poured(s, i, c, s.items[i].quantity)
      less == [poured.store EXCEPT !.items[i].quantity = poured.left]
      k == find_empty_slot(s, c, s.items[i].template)
  IN IF poured.left = 0 THEN {terminate(less, i)}
     ELSE IF k = 0 THEN {} ELSE {Put(less, i, c, k)}

\* q of an inventory item into another container: over the stacks first, the
\* rest in one slot, the item itself when all of it leaves.
\* Faulty variant: a source that stays keeps what was taken.
transfer_keeping(s, i, q, c) ==
  LET poured == Poured(s, i, c, q)
      rest == poured.left
      whole == q = s.items[i].quantity
      k == find_empty_slot(s, c, s.items[i].template)
      less == poured.store
  IN CASE rest = 0 /\ whole -> {terminate(poured.store, i)}
       [] rest = 0 /\ ~whole -> {less}
       [] rest > 0 /\ k = 0 -> {}
       [] rest > 0 /\ k # 0 /\ whole ->
            {Put([remove_from_inventory(poured.store, i)
                    EXCEPT !.items[i].quantity = rest], i, c, k)}
       [] OTHER ->
            {Put(Made(less, s.items[i].template, rest, s.items[i].used,
                      s.items[i].state), s.nextItem, c, k)}
transfer_to_container(s, i, q, c) ==
  LET poured == Poured(s, i, c, q)
      rest == poured.left
      whole == q = s.items[i].quantity
      k == find_empty_slot(s, c, s.items[i].template)
      less == SetQuantity(poured.store, i, s.items[i].quantity - q)
  IN CASE rest = 0 /\ whole -> {terminate(poured.store, i)}
       [] rest = 0 /\ ~whole -> {less}
       [] rest > 0 /\ k = 0 -> {}
       [] rest > 0 /\ k # 0 /\ whole ->
            {Put([remove_from_inventory(poured.store, i)
                    EXCEPT !.items[i].quantity = rest], i, c, k)}
       [] OTHER ->
            {Put(Made(less, s.items[i].template, rest, s.items[i].used,
                      s.items[i].state), s.nextItem, c, k)}

\* One use: a charge, or one of the stack; the last one ends the item.
consume(s, i) ==
  LET item == s.items[i]
      Used(q, n, changed) ==
        Updated([s EXCEPT !.items[i].quantity = q, !.items[i].state.count = n,
                          !.items[i].used = @ + 1], i, changed)
  IN IF item.template \in Charged
     THEN IF item.state.count = 0 THEN {}
          ELSE IF item.state.count = 1 THEN {terminate(s, i)}
          ELSE {Used(item.quantity, item.state.count - 1, {"state", "used"})}
     ELSE IF item.quantity = 1 THEN {terminate(s, i)}
          ELSE {Used(item.quantity - 1, item.state.count, {"quantity", "used"})}

\* The containers of an owner that goes; what is left in them ends.
destroy_container(s, c) ==
  LET cleared[k \in 0..Capacity[c]] ==
        IF k = 0 THEN s ELSE terminate(cleared[k - 1], s.slots[c][k])
  IN [cleared[Capacity[c]] EXCEPT !.open = @ \ {c}, !.log[c] = <<>>]

-----------------------------------------------------------------------------
\* f[1] + ... + f[n], and how much of template t item i is.
SumTo(f, n) ==
  LET sum[k \in 0..n] == IF k = 0 THEN 0 ELSE sum[k - 1] + f[k] IN sum[n]
Amount(s, i, t) ==
  IF Live(s, i) /\ s.items[i].template = t THEN s.items[i].quantity ELSE 0
=============================================================================
