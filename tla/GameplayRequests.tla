--------------------------- MODULE GameplayRequests ---------------------------
(***************************************************************************)
(* What one player may ask of its items and of a camp's stock, and how the *)
(* server answers: every request is decided once, its outcome recorded     *)
(* under the requester's id, and a request that comes again is answered    *)
(* from the record.  The player's weapon in hand is a copy of the item in  *)
(* its weapon container, written back when the container changes.          *)
(*                                                                         *)
(* Ranges, line of sight, placements, cooldowns and item graphs are left   *)
(* to chance: they may refuse any request they are asked about.            *)
(***************************************************************************)
EXTENDS ItemStore

CONSTANTS
  MaxRequests,       \* bound: the client's request ids
  Magazine,          \* rounds to a magazine
  StockContents,     \* what the camp holds: sequence of [template, quantity, state]
  WorldContents      \* what lies about: the same

VARIABLES
  store,             \* item_store_
  hand,              \* WeaponState: [id, count, reserve], id 0 for none
  synced,            \* synced_weapon_revisions_ of the weapon container
  inside,            \* the player's Sheltered
  asked,             \* [ids -> the request the client made under it]
  processed,         \* [ids -> its outcome in processed_gameplay_requests_]
  outcomes,          \* pending_network_gameplay_outcomes_
  spent              \* history: [Templates -> how many were used up]

requestVars == <<store, hand, synced, inside, asked, processed, outcomes, spent>>

RequestIds == 1..MaxRequests
NotAsked == [action |-> "none", by |-> "own"]
Asks == {"Consume", "Pickup", "Carry", "Place", "Throw", "Transfer"}
\* A request names its instigator: the player of the session it comes over, or
\* another.
Requests == [action : Asks, item : Ids, quantity : Nat \ {0}, by : {"own", "other"}]
NoWeapon == [id |-> 0, count |-> 0, reserve |-> 0]

\* What may be made of the catalog: a stack at most, a weapon at most full.
Holdings ==
  {x \in [template : Templates, quantity : Nat \ {0}, state : [count : Nat, reserve : Nat]] :
     /\ x.quantity <= MaxStack[x.template]
     /\ x.template \in Weapons => x.state.count <= Magazine}

ASSUME GameplayRequestsAssumption ==
  /\ "none" \notin Templates /\ Magazine \in Nat \ {0}
  /\ StockContents \in Seq(Holdings) /\ WorldContents \in Seq(Holdings)
  /\ Len(StockContents) <= Capacity["stock"]
  /\ Len(StockContents) + Len(WorldContents) <= MaxItems
  /\ Len(WorldContents) <= MaxProps

\* The bounds on what may be made: one request makes an item and a prop at most.
Bounded == store.nextItem <= MaxItems /\ store.nextProp <= MaxProps

-----------------------------------------------------------------------------
(* The weapon in hand *)

\* The weapons leaving the hand keep what they had, wherever their item is now.
\* Faulty variant: only an item still in the container is written to.
WrittenBackIfHeld(s, h) ==
  IF h.id = 0 \/ ~InInventory(s, h.id) THEN s
  ELSE set_portable_uint32(set_portable_uint32(s, h.id, "count", h.count),
                           h.id, "reserve", h.reserve)
WrittenBack(s, h) ==
  IF h.id = 0 THEN s
  ELSE set_portable_uint32(set_portable_uint32(s, h.id, "count", h.count),
                           h.id, "reserve", h.reserve)

\* rebuild_weapon_loadout, from the container as it is.
Rebuilt(s) ==
  LET i == s.slots["arms"][1]
  IN IF i = 0 THEN NoWeapon
     ELSE [id |-> i, count |-> s.items[i].state.count,
           reserve |-> s.items[i].state.reserve]

\* sync_weapon_loadouts: rebuilt when the container's revision moved.
Loadout(s, h, r) ==
  IF "arms" \notin s.open \/ r = s.revision["arms"]
  THEN [store |-> s, hand |-> h, synced |-> r]
  ELSE LET t == WrittenBack(s, h)
       IN [store |-> t, hand |-> Rebuilt(t), synced |-> t.revision["arms"]]

sync_weapon_loadouts(s) ==
  LET g == Loadout(s, hand, synced)
  IN store' = g.store /\ hand' = g.hand /\ synced' = g.synced

\* At a tick's end: the magazines in the bag, not the one in the weapon.  The
\* revisions this moves are taken as seen.
write_back_weapon_states(g) ==
  LET s == IF g.hand.id = 0 THEN g.store
           ELSE set_portable_uint32(g.store, g.hand.id, "reserve", g.hand.reserve)
  IN [g EXCEPT !.store = s, !.synced = s.revision["arms"]]

-----------------------------------------------------------------------------
(* What each request does to the store when nothing refuses it *)

Own(t) == IF t \in Weapons THEN "arms" ELSE "own"

\* server_drop_inventory_item: the same instance goes down, and the loadout
\* follows before anything else happens.
server_drop_inventory_item(g, i) ==
  Loadout(move_to_world(spawn_prop(g.store), i, g.store.nextProp, "placed"),
          g.hand, g.synced)

\* The weapon already held in the slot goes to the picker's feet; the loadout
\* follows when the request is over.
MadeRoom(s, t) ==
  LET held == s.slots["arms"][1]
  IN IF t \in Weapons /\ held # 0
     THEN move_to_world(spawn_prop(s), held, s.nextProp, "placed") ELSE s

Pickup(s, i) ==
  LET at == s.items[i].at
      t == s.items[i].template
  IN IF ~InWorld(s, i) \/ at.mode # "placed" THEN {}
     ELSE {destroy_prop(u, at.prop) :
             u \in transfer_world_to_inventory(MadeRoom(s, t), i, Own(t))}

Carry(s, i) ==
  IF InWorld(s, i) /\ s.items[i].at.mode = "placed"
  THEN {set_world_mode(s, i, "carried")} ELSE {}

OwnedBy(s, i) == InInventory(s, i) /\ s.items[i].at.container \in {"own", "arms"}

\* Out of the player's hands into the world: what it carries, or q of a stack
\* in its inventory on a prop made for it.  A prop that cannot carry the item's
\* state would be taken back; the catalog admits no such pair (kernel.cc:4239-4252).
PutDown(s, i, q, mode) ==
  IF InWorld(s, i)
  THEN IF s.items[i].at.mode = "carried" THEN {set_world_mode(s, i, mode)} ELSE {}
  ELSE IF ~OwnedBy(s, i) \/ s.items[i].template \in Weapons
          \/ q > s.items[i].quantity THEN {}
  ELSE IF q = s.items[i].quantity
       THEN {move_to_world(spawn_prop(s), i, s.nextProp, mode)}
       ELSE {split_to_world(spawn_prop(s), i, q, s.nextProp, mode)}

Place(s, i, q) == PutDown(s, i, q, "placed")

\* The throw of an item that stays itself starts the same way; the prop then
\* flies until it lands, on a trajectory the catalog has checked (kernel.cc:4178).
\* A throw that uses the item up is Consume, by what it does to the store.
Throw(s, i, q) == PutDown(s, i, q, "flight")

Consume(s, i) ==
  IF OwnedBy(s, i) /\ s.items[i].template \notin Weapons THEN consume(s, i) ELSE {}

\* Whether one use takes one away: of a charged item only the last charge does.
UsesUp(item) == item.template \in Charged => item.state.count = 1

\* Out of the stock of the camp the player is inside, onto itself.
Transfer(s, i, q) ==
  LET t == s.items[i].template
      g == [store |-> s, hand |-> hand, synced |-> synced]
      held == s.slots["arms"][1]
      cleared == IF t \in Weapons /\ held # 0
                 THEN server_drop_inventory_item(g, held) ELSE g
  IN IF \/ ~inside \/ ~InInventory(s, i)
        \/ s.items[i].at.container # "stock"
        \/ q > s.items[i].quantity
     THEN {}
     ELSE {[cleared EXCEPT !.store = u] :
             u \in transfer_to_container(cleared.store, i, q, Own(t))}

\* Everything a committed request may lead to; the transfer alone has already
\* followed the weapon it put down.
Committed(r) ==
  LET Plain(S) == {[store |-> s, hand |-> hand, synced |-> synced] : s \in S}
  IN CASE r.action = "Consume" -> Plain(Consume(store, r.item))
       [] r.action = "Pickup" -> Plain(Pickup(store, r.item))
       [] r.action = "Carry" -> Plain(Carry(store, r.item))
       [] r.action = "Place" -> Plain(Place(store, r.item, r.quantity))
       [] r.action = "Throw" -> Plain(Throw(store, r.item, r.quantity))
       [] r.action = "Transfer" -> Transfer(store, r.item, r.quantity)

\* From inside a camp the only things to ask are to take from it and to leave.
Allowed(r) == inside => r.action = "Transfer"

\* Only a transfer asks nothing of the world around.
MayBeRefused(r) == r.action # "Transfer" \/ ~Allowed(r) \/ Committed(r) = {}

\* submit_request for a peer, and the loadout after it.  A request that came
\* before is answered from its record and changes nothing.
\* Faulty variant: it is decided again.
DecidedAgain(id) == TRUE
Undecided(id) == processed[id] = "none"

Decide(id, r) ==
  \/ /\ ~Undecided(id)
     /\ outcomes' = Append(outcomes, [id |-> id, status |-> processed[id]])
     /\ sync_weapon_loadouts(store)
     /\ UNCHANGED <<processed, spent>>
  \/ /\ Undecided(id) /\ Allowed(r) /\ Bounded
     /\ \E g \in Committed(r) :
          LET done == Loadout(g.store, g.hand, g.synced)
          IN store' = done.store /\ hand' = done.hand /\ synced' = done.synced
     /\ processed' = [processed EXCEPT ![id] = "committed"]
     /\ outcomes' = Append(outcomes, [id |-> id, status |-> "committed"])
     /\ spent' = IF r.action = "Consume" /\ UsesUp(store.items[r.item])
                 THEN [spent EXCEPT ![store.items[r.item].template] = @ + 1]
                 ELSE spent
  \/ /\ Undecided(id) /\ MayBeRefused(r)
     /\ processed' = [processed EXCEPT ![id] = "rejected"]
     /\ outcomes' = Append(outcomes, [id |-> id, status |-> "rejected"])
     /\ sync_weapon_loadouts(store)
     /\ UNCHANGED spent

\* poll_transport: a request in another's name never gets that far.  It is
\* answered, and nothing is recorded of it.
Unauthorized(id) ==
  /\ outcomes' = Append(outcomes, [id |-> id, status |-> "unauthorized"])
  /\ UNCHANGED <<store, hand, synced, processed, spent>>

-----------------------------------------------------------------------------
(* The rest of the server's world *)

\* A thrown prop meets the ground.
Land ==
  /\ \E i \in Ids : /\ InWorld(store, i) /\ store.items[i].at.mode = "flight"
                    /\ store' = set_world_mode(store, i, "placed")
  /\ UNCHANGED <<hand, synced, inside, asked, processed, outcomes, spent>>

\* A shot, and a reload.
Fire ==
  /\ ~inside /\ hand.count > 0
  /\ hand' = [hand EXCEPT !.count = @ - 1]
  /\ UNCHANGED <<store, synced, inside, asked, processed, outcomes, spent>>

\* Faulty variant: the new magazine comes on top of what is left.
ReloadOnTop ==
  /\ hand.id # 0 /\ hand.reserve > 0
  /\ hand' = [hand EXCEPT !.count = @ + Magazine, !.reserve = @ - 1]
  /\ UNCHANGED <<store, synced, inside, asked, processed, outcomes, spent>>
Reload ==
  /\ hand.id # 0 /\ hand.count < Magazine /\ hand.reserve > 0
  /\ hand' = [hand EXCEPT !.count = Magazine, !.reserve = @ - 1]
  /\ UNCHANGED <<store, synced, inside, asked, processed, outcomes, spent>>

\* What the player carries stays outside (drop_carried_props).
SetDown(s) ==
  [s EXCEPT !.items = [i \in Ids |->
     IF InWorld(s, i) /\ s.items[i].at.mode = "carried"
     THEN [s.items[i] EXCEPT !.at.mode = "placed"] ELSE s.items[i]]]

enter_shelter ==
  /\ ~inside /\ "stock" \in store.open
  /\ inside' = TRUE
  /\ store' = SetDown(store)
  /\ UNCHANGED <<hand, synced, asked, processed, outcomes, spent>>

leave_shelter ==
  /\ inside
  /\ inside' = FALSE
  /\ UNCHANGED <<store, hand, synced, asked, processed, outcomes, spent>>

\* The camp is destroyed: its occupant is out first, its stock goes with it.
destroy_camp ==
  /\ "stock" \in store.open
  /\ inside' = FALSE
  /\ store' = destroy_container(store, "stock")
  /\ spent' = [t \in Templates |->
                 spent[t] + SumTo([k \in 1..Capacity["stock"] |->
                                     Amount(store, store.slots["stock"][k], t)],
                                  Capacity["stock"])]
  /\ UNCHANGED <<hand, synced, asked, processed, outcomes>>

-----------------------------------------------------------------------------
\* The player has its two containers and the camp its stock.
Opened ==
  create_container(create_container(create_container(
    EmptyStore, "own"), "arms"), "stock")
Stocked ==
  LET made[n \in 0..Len(StockContents)] ==
        IF n = 0 THEN Opened
        ELSE LET x == StockContents[n]
             IN CHOOSE s \in create_inventory_item(made[n - 1], x.template, x.quantity,
                                                   x.state, "stock") : TRUE
  IN made[Len(StockContents)]
Furnished ==
  LET made[n \in 0..Len(WorldContents)] ==
        IF n = 0 THEN Stocked
        ELSE LET x == WorldContents[n]
             IN create_world_item(made[n - 1], x.template, x.quantity, x.state)
  IN made[Len(WorldContents)]

RequestInit ==
  /\ store = Furnished
  /\ hand = NoWeapon /\ synced = 0
  /\ inside = FALSE
  /\ asked = [id \in RequestIds |-> NotAsked]
  /\ processed = [id \in RequestIds |-> "none"]
  /\ outcomes = <<>>
  /\ spent = [t \in Templates |-> 0]
=============================================================================
