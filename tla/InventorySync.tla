---------------------------- MODULE InventorySync ----------------------------
(***************************************************************************)
(* One client's copy of the containers it may see: its own two always, a   *)
(* camp's stock while its player is inside.  The server keeps, per session *)
(* and container, the revision it has sent; a tick sends the changes since *)
(* that revision, or the whole container in pages.  The client applies     *)
(* them to a store of its own - the same ItemStore - and asks for a        *)
(* snapshot when something does not fit.                                   *)
(*                                                                         *)
(* The reliable channel delivers in order and loses nothing it accepted,   *)
(* but a send may be refused (bound: a scenario's faults).                 *)
(***************************************************************************)
EXTENDS GameplayRequests, Integers

CONSTANTS
  PageSize,          \* kInventorySnapshotEntriesPerPage
  BatchSize,         \* kInventoryDeltaRecordsPerPacket
  MaxWire,           \* bound: messages on the way when a tick may end
  Scenarios          \* {[wishes, world, faults, repeats]}: what is asked for,
                     \* what else may happen, how many sends are refused and
                     \* how many requests made again at most

ASSUME InventorySyncAssumption ==
  /\ PageSize \in Nat \ {0} /\ BatchSize \in Nat \ {0} /\ MaxRequests \in Nat
  /\ Scenarios \subseteq [wishes : SUBSET Requests,
                           world : SUBSET {"throws", "shots", "visits", "ruin"},
                           faults : Nat, repeats : Nat]

VARIABLES
  cursor,            \* PeerSession.inventory_revisions, Unsent for no entry
  toClient, toServer,  \* the reliable channel
  mirror,            \* the client's item_store_
  assembly,          \* client_inventory_snapshot_assemblies_
  sync,              \* client_inventory_sync_states_
  resync,            \* client_inventory_resync_pending_
  told,              \* [request ids -> the answers received]
  scenario           \* the one played, with the refusals and repeats left

syncVars == <<cursor, toClient, toServer, mirror, assembly, sync, resync, told, scenario>>
inventoryVars == <<requestVars, syncVars>>

Unsent == -1
NoAssembly == [revision |-> 0, count |-> 0, received |-> {}, entries |-> {}]

-----------------------------------------------------------------------------
(* The server's flush *)

Observed(s) == s.open \cap ({"own", "arms"} \cup (IF inside THEN {"stock"} ELSE {}))

\* The entries of a container, in slot order, cut into pages.
Entries(s, c) ==
  LET held == {k \in 1..Capacity[c] : s.slots[c][k] # 0}
      Nth(n) == CHOOSE k \in held : Cardinality({j \in held : j <= k}) = n
  IN [n \in 1..Cardinality(held) |->
        [slot |-> Nth(n), id |-> s.slots[c][Nth(n)],
         item |-> [s.items[s.slots[c][Nth(n)]] EXCEPT !.at = Nowhere]]]

\* send_inventory_snapshot
Pages(s, c) ==
  LET all == Entries(s, c)
      count == IF all = <<>> THEN 1 ELSE (Len(all) + PageSize - 1) \div PageSize
  IN [n \in 1..count |->
        [kind |-> "page", container |-> c, revision |-> s.revision[c],
         index |-> n, count |-> count,
         entries |-> SubSeq(all, (n - 1) * PageSize + 1, Lesser(n * PageSize, Len(all)))]]

\* inventory_deltas_since the cursor, as many as one packet carries; the log is
\* in the order of the revisions.
Since(s, c) ==
  LET log == s.log[c]
      older == Cardinality({n \in 1..Len(log) : log[n].revision <= cursor[c]})
  IN SubSeq(log, older + 1, Lesser(older + BatchSize, Len(log)))

\* What this tick has to say about container c.
ToSay(s, c) ==
  LET news == Since(s, c)
  IN CASE c \notin Observed(s) /\ cursor[c] = Unsent -> <<>>
       [] c \notin Observed(s) /\ cursor[c] # Unsent ->
            <<[kind |-> "closed", container |-> c]>>
       [] c \in Observed(s) /\ cursor[c] = Unsent -> Pages(s, c)
       [] c \in Observed(s) /\ cursor[c] >= s.revision[c] -> <<>>
       [] OTHER -> IF news = <<>> \/ Head(news).revision # cursor[c] + 1
                   THEN Pages(s, c)
                   ELSE <<[kind |-> "deltas", container |-> c,
                           first |-> cursor[c] + 1, records |-> news]>>

\* The revision the session has been sent once all of it was accepted.
SentUpTo(s, c) ==
  LET says == ToSay(s, c)
  IN CASE says = <<>> -> cursor[c]
       [] says # <<>> /\ Head(says).kind = "closed" -> Unsent
       [] says # <<>> /\ Head(says).kind = "page" -> s.revision[c]
       [] OTHER -> Head(says).first + Len(Head(says).records) - 1

\* A refusal: the send that fails, of one container or of the answers; the
\* pages behind a refused page are not tried.
NoRefusal == [of |-> "none", at |-> 0]
Refusals(s) ==
  {NoRefusal} \cup
  (IF scenario.faults = 0 THEN {}
   ELSE (UNION {{[of |-> c, at |-> n] : n \in 1..Len(ToSay(s, c))} : c \in Containers})
        \cup {[of |-> "answers", at |-> n] : n \in 1..Len(outcomes)})

\* flush_inventory_replication: closes first, then the player's own
\* containers, then the stock.
Flushed(s, refusal) ==
  LET Accepted(c) == IF refusal.of = c THEN SubSeq(ToSay(s, c), 1, refusal.at - 1)
                     ELSE ToSay(s, c)
      owned == Accepted("own") \o Accepted("arms")
  IN IF "stock" \in Observed(s) THEN owned \o Accepted("stock")
     ELSE Accepted("stock") \o owned

\* flush_network_gameplay_request_outcomes: an answer refused is gone.
Answers(refusal) ==
  LET kept == IF refusal.of = "answers" THEN RemoveAt(outcomes, refusal.at) ELSE outcomes
  IN [n \in 1..Len(kept) |->
        [kind |-> "answer", id |-> kept[n].id, status |-> kept[n].status]]

Refused(refusal) ==
  scenario' = IF refusal = NoRefusal THEN scenario
              ELSE [scenario EXCEPT !.faults = @ - 1]

\* A tick: the loadouts, the state the weapons leave, and what the peers hear.
Tick ==
  /\ Len(toClient) <= MaxWire
  /\ LET g == write_back_weapon_states(Loadout(store, hand, synced))
     IN /\ store' = g.store /\ hand' = g.hand /\ synced' = g.synced
        /\ \E refusal \in Refusals(g.store) :
             /\ toClient' = toClient \o Flushed(g.store, refusal) \o Answers(refusal)
             /\ cursor' = [c \in Containers |-> IF refusal.of = c THEN cursor[c]
                                                ELSE SentUpTo(g.store, c)]
             /\ Refused(refusal)
  /\ outcomes' = <<>>
  /\ UNCHANGED <<inside, asked, processed, spent,
                 toServer, mirror, assembly, sync, resync, told>>

-----------------------------------------------------------------------------
(* The server's side of the client's messages *)

\* A request for a snapshot is answered at once, or not at all.
HandleSnapshotRequest(c) ==
  /\ \E refusal \in IF c \in Observed(store) /\ scenario.faults > 0
                    THEN {NoRefusal} \cup {[of |-> c, at |-> n] : n \in 1..Len(Pages(store, c))}
                    ELSE {NoRefusal} :
       IF c \notin Observed(store) THEN UNCHANGED <<toClient, cursor, scenario>>
       ELSE IF refusal = NoRefusal
       THEN /\ toClient' = toClient \o Pages(store, c)
            /\ cursor' = [cursor EXCEPT ![c] = store.revision[c]]
            /\ UNCHANGED scenario
       ELSE /\ toClient' = toClient \o SubSeq(Pages(store, c), 1, refusal.at - 1)
            /\ Refused(refusal)
            /\ UNCHANGED cursor
  /\ UNCHANGED requestVars

\* poll_transport, one reliable message of the peer.
ServerReceive ==
  /\ toServer # <<>>
  /\ LET m == Head(toServer)
     IN \/ m.kind = "snapshot" /\ HandleSnapshotRequest(m.container)
        \/ /\ m.kind = "request"
           /\ IF asked[m.id].by = "own" THEN Decide(m.id, asked[m.id])
              ELSE Unauthorized(m.id)
           /\ UNCHANGED <<inside, asked, cursor, toClient, scenario>>
  /\ toServer' = Tail(toServer)
  /\ UNCHANGED <<mirror, assembly, sync, resync, told>>

\* What else moves the server's world between the peer's messages.
World ==
  /\ \/ "throws" \in scenario.world /\ Land
     \/ "shots" \in scenario.world /\ (Fire \/ Reload)
     \/ "visits" \in scenario.world /\ (enter_shelter \/ leave_shelter)
     \/ "ruin" \in scenario.world /\ destroy_camp
  /\ UNCHANGED syncVars

-----------------------------------------------------------------------------
(* The client *)

\* submit_gameplay_request: a new request, or an old one that went unanswered.
submit_gameplay_request ==
  /\ Len(toServer) < MaxWire
  /\ \E id \in RequestIds :
       /\ \/ /\ asked[id] = NotAsked
             /\ \A k \in RequestIds : k < id => asked[k] # NotAsked
             /\ \E r \in scenario.wishes : asked' = [asked EXCEPT ![id] = r]
             /\ UNCHANGED scenario
          \/ /\ asked[id] # NotAsked /\ told[id] = {} /\ scenario.repeats > 0
             /\ scenario' = [scenario EXCEPT !.repeats = @ - 1]
             /\ UNCHANGED asked
       /\ toServer' = Append(toServer, [kind |-> "request", id |-> id])
  /\ UNCHANGED <<store, hand, synced, inside, processed, outcomes, spent, cursor,
                 toClient, mirror, assembly, sync, resync, told>>

\* request_inventory_snapshot: one on the way at a time.
Ask(c) ==
  /\ resync' = resync \cup {c}
  /\ toServer' = IF c \in resync THEN toServer
                 ELSE Append(toServer, [kind |-> "snapshot", container |-> c])

\* apply_replica_snapshot: what the container held is gone, what it lists is made.
Replaced(s, c, revision, entries) ==
  LET At(k) == {e \in entries : e.slot = k}
      Of(i) == {e \in entries : e.id = i}
  IN [s EXCEPT
        !.items = [i \in Ids |->
          IF Of(i) # {}
          THEN LET e == CHOOSE x \in Of(i) : TRUE
               IN [e.item EXCEPT !.at = InSlot(c, e.slot)]
          ELSE IF InInventory(s, i) /\ s.items[i].at.container = c
          THEN [s.items[i] EXCEPT !.quantity = 0, !.at = Terminal]
          ELSE s.items[i]],
        !.slots[c] = [k \in 1..Capacity[c] |->
          IF At(k) = {} THEN 0 ELSE (CHOOSE e \in At(k) : TRUE).id],
        !.revision[c] = revision, !.open = @ \cup {c}]

\* handle_client_inventory_snapshot_page.  A page of another snapshot starts
\* the assembly over.
\* Faulty variant: whatever was gathered before is kept.
BegunKeeping(m) ==
  LET a == assembly[m.container]
  IN [a EXCEPT !.revision = m.revision, !.count = m.count]
Begun(m) ==
  LET a == assembly[m.container]
  IN IF a.count = 0 \/ a.revision # m.revision \/ a.count # m.count
     THEN [revision |-> m.revision, count |-> m.count, received |-> {}, entries |-> {}]
     ELSE a

ReceivePage(m) ==
  LET c == m.container
      begun == Begun(m)
      a == [begun EXCEPT !.received = @ \cup {m.index},
                         !.entries = @ \cup {m.entries[n] : n \in 1..Len(m.entries)}]
  IN /\ IF m.index \in begun.received
        THEN /\ assembly' = [assembly EXCEPT ![c] = begun]
             /\ UNCHANGED <<mirror, sync, resync>>
        ELSE IF a.received # 1..a.count
        THEN /\ assembly' = [assembly EXCEPT ![c] = a]
             /\ sync' = [sync EXCEPT ![c] = "syncing"]
             /\ UNCHANGED <<mirror, resync>>
        ELSE /\ assembly' = [assembly EXCEPT ![c] = NoAssembly]
             /\ sync' = [sync EXCEPT ![c] = "ready"]
             /\ mirror' = Replaced(mirror, c, a.revision, a.entries)
             /\ resync' = resync \ {c}
     /\ UNCHANGED <<toServer, told>>

\* What a record says of its item to this client: an addition carries it all,
\* an update only what changed.
Heard(s, d) ==
  IF d.type = "Add" THEN d.item
  ELSE LET known == s.items[d.id]
       IN IF d.type = "Remove" THEN known
          ELSE [known EXCEPT
                  !.quantity = IF "quantity" \in d.changed THEN d.item.quantity ELSE @,
                  !.state = IF "state" \in d.changed THEN d.item.state ELSE @,
                  !.used = IF "used" \in d.changed THEN d.item.used ELSE @]

\* inventory_view_from_wire: an item of none is refused.
Readable(s, d) ==
  /\ s.items[d.id].template = "none" => d.type = "Add"
  /\ d.type # "Remove" => Heard(s, d).quantity > 0

\* One record of apply_replica_deltas.
Fits(s, c, d) ==
  CASE d.type = "Remove" -> s.slots[c][d.slot] = d.id
    [] d.type = "Add" -> s.slots[c][d.slot] = 0
    [] OTHER -> TRUE
Applied(s, c, d, h) ==
  LET listed == [s EXCEPT !.slots[c][d.slot] = IF d.type = "Remove" THEN 0 ELSE d.id,
                          !.revision[c] = @ + 1]
  IN IF d.type = "Remove"
     THEN [listed EXCEPT !.items[d.id].quantity = 0, !.items[d.id].at = Terminal]
     ELSE [listed EXCEPT !.items[d.id] =
             [template |-> h.template, quantity |-> h.quantity, used |-> h.used,
              state |-> h.state, at |-> InSlot(c, d.slot)]]

\* The records up to the first that does not fit, each with what was heard of
\* its item in the store as it was before the first.
ApplyAll(s, c, records) ==
  LET applied[n \in 0..Len(records)] ==
        IF n = 0 THEN [store |-> s, ok |-> TRUE]
        ELSE LET before == applied[n - 1]
                 d == records[n]
             IN IF before.ok /\ Fits(before.store, c, d)
                THEN [store |-> Applied(before.store, c, d, Heard(s, d)), ok |-> TRUE]
                ELSE [store |-> before.store, ok |-> FALSE]
  IN applied[Len(records)]

\* handle_client_inventory_delta_batch
ReceiveDeltas(m) ==
  LET c == m.container
      last == m.first + Len(m.records) - 1
      done == ApplyAll(mirror, c, m.records)
  IN /\ IF c \notin mirror.open
        THEN /\ Ask(c) /\ sync' = [sync EXCEPT ![c] = "desynced"] /\ UNCHANGED mirror
        ELSE IF last <= mirror.revision[c] THEN UNCHANGED <<resync, toServer, sync, mirror>>
        ELSE IF m.first # mirror.revision[c] + 1
        THEN /\ Ask(c) /\ sync' = [sync EXCEPT ![c] = "desynced"] /\ UNCHANGED mirror
        ELSE IF \E n \in 1..Len(m.records) : ~Readable(mirror, m.records[n])
        THEN /\ Ask(c) /\ UNCHANGED <<sync, mirror>>
        ELSE /\ mirror' = done.store
             /\ sync' = [sync EXCEPT ![c] = IF done.ok THEN "ready" ELSE "desynced"]
             /\ IF done.ok THEN UNCHANGED <<resync, toServer>> ELSE Ask(c)
     /\ UNCHANGED <<assembly, told>>

\* handle_client_inventory_container_closed
ReceiveClosed(m) ==
  LET c == m.container
  IN /\ mirror' = IF c \in mirror.open THEN destroy_container(mirror, c) ELSE mirror
     /\ sync' = [sync EXCEPT ![c] = "none"]
     /\ assembly' = [assembly EXCEPT ![c] = NoAssembly]
     /\ resync' = resync \ {c}
     /\ UNCHANGED <<toServer, told>>

ReceiveAnswer(m) ==
  /\ told' = [told EXCEPT ![m.id] = @ \cup {m.status}]
  /\ UNCHANGED <<toServer, mirror, assembly, sync, resync>>

ClientReceive ==
  /\ toClient # <<>>
  /\ LET m == Head(toClient)
     IN \/ m.kind = "page" /\ ReceivePage(m)
        \/ m.kind = "deltas" /\ ReceiveDeltas(m)
        \/ m.kind = "closed" /\ ReceiveClosed(m)
        \/ m.kind = "answer" /\ ReceiveAnswer(m)
  /\ toClient' = Tail(toClient)
  /\ UNCHANGED <<requestVars, cursor, scenario>>

-----------------------------------------------------------------------------
InventoryInit ==
  /\ RequestInit
  /\ cursor = [c \in Containers |-> Unsent]
  /\ toClient = <<>> /\ toServer = <<>>
  /\ mirror = EmptyStore
  /\ assembly = [c \in Containers |-> NoAssembly]
  /\ sync = [c \in Containers |-> "none"]
  /\ resync = {}
  /\ told = [id \in RequestIds |-> {}]
  /\ scenario \in Scenarios

InventoryNext ==
  \/ Tick
  \/ ServerReceive
  \/ World
  \/ submit_gameplay_request
  \/ ClientReceive

InventorySpec == InventoryInit /\ [][InventoryNext]_inventoryVars

-----------------------------------------------------------------------------
(* Properties *)

\* Type invariant, part of Conservation.
InventoryTypeOK ==
  /\ DOMAIN store.items = Ids /\ store.open \subseteq Containers
  /\ store.nextItem \in 1..(MaxItems + 1) /\ store.nextProp \in 1..(MaxProps + 1)
  /\ hand.id \in Ids \cup {0} /\ hand.count \in 0..Magazine /\ hand.reserve \in Nat
  /\ synced \in Nat /\ inside \in BOOLEAN
  /\ asked \in [RequestIds -> Requests \cup {NotAsked}]
  /\ processed \in [RequestIds -> {"none", "committed", "rejected"}]
  /\ spent \in [Templates -> Nat]
  /\ cursor \in [Containers -> Nat \cup {Unsent}]
  /\ mirror.open \subseteq Containers
  /\ sync \in [Containers -> {"none", "syncing", "ready", "desynced"}]
  /\ resync \subseteq Containers
  /\ told \in [RequestIds -> SUBSET {"committed", "rejected", "unauthorized"}]

\* However it was split, stacked, thrown, taken and picked up, what there is of a template
\* and what was used up is what there was (item_system.cc transfers).
QuantitiesKept ==
  \A t \in Templates :
    LET Initial(contents) ==
          SumTo([n \in 1..Len(contents) |->
                   IF contents[n].template = t THEN contents[n].quantity ELSE 0],
                Len(contents))
    IN spent[t] + SumTo([i \in Ids |-> Amount(store, i, t)], MaxItems)
       = Initial(StockContents) + Initial(WorldContents)

\* An item is in one place: in the slot that names it and no other, or on one
\* prop that exists and carries nothing else (item_system.cc residency).
OnePlace ==
  /\ \A c \in Containers : \A k \in 1..Capacity[c] :
       LET i == store.slots[c][k]
       IN i # 0 => store.items[i].at = InSlot(c, k)
  /\ \A i \in Ids : InInventory(store, i) =>
       /\ store.items[i].at.container \in store.open
       /\ store.slots[store.items[i].at.container][store.items[i].at.slot] = i
  /\ \A i, j \in Ids : InWorld(store, i) =>
       /\ store.items[i].at.prop \in store.props
       /\ InWorld(store, j) /\ store.items[j].at.prop = store.items[i].at.prop => i = j

\* Nothing is made or lost, and nothing is in two places, whichever requests
\* came twice and wherever one of them failed half way.
Conservation == InventoryTypeOK /\ QuantitiesKept /\ OnePlace

\* A weapon's rounds, in the hand that holds it or in its item.
Rounds(i) ==
  IF hand.id = i THEN Magazine * hand.reserve + hand.count
  ELSE Magazine * store.items[i].state.reserve + store.items[i].state.count

\* A weapon loses rounds one shot at a time, or what a reload finds left in the
\* magazine, and never gains any: not by being dropped, swapped, taken up again,
\* or by either of its two copies overwriting the other (sync_weapon_loadouts and
\* write_back_weapon_states).
RoundsKept ==
  [][\A i \in Ids : store.items[i].template \in Weapons =>
       \/ Rounds(i)' = Rounds(i)
       \/ hand.id = i /\ Fire /\ Rounds(i)' = Rounds(i) - 1
       \/ hand.id = i /\ Reload /\ Rounds(i)' = Rounds(i) - hand.count]_inventoryVars

\* Every answer the client hears of a request of its own player is the one the
\* server recorded, however often it asked (item_gameplay_system.cc submit_request).
\* Of one it made in another's name it hears only that it may not, and none is
\* ever recorded (poll_transport).
AnswersAgree ==
  \A id \in RequestIds :
    IF asked[id].by = "own" THEN told[id] \subseteq {processed[id]} \ {"none"}
    ELSE told[id] \subseteq {"unauthorized"} /\ processed[id] = "none"

\* Once everything sent has arrived and no snapshot is awaited, the client lists
\* in its copy what the server does (but for the cooldowns), and calls it ready,
\* or syncing while it holds pages of a reply that was cut short; a container the
\* session may not see is not there (flush_inventory_replication and its handlers).
\* An item that moved whole from the stock is the exception TakenIsUsable is about.
Quiet(c) ==
  /\ \A n \in 1..Len(toClient) : toClient[n].kind = "answer" \/ toClient[n].container # c
  /\ \A n \in 1..Len(toServer) : toServer[n].kind = "request" \/ toServer[n].container # c
  /\ c \in Observed(store) => cursor[c] = store.revision[c]
  /\ c \notin Observed(store) => cursor[c] = Unsent
TookWhole ==
  \E id \in RequestIds :
    /\ processed[id] = "committed" /\ asked[id].action = "Transfer"
    /\ ~(\E k \in 1..Capacity["stock"] : store.slots["stock"][k] = asked[id].item)
MirrorAgrees ==
  \A c \in Containers : Quiet(c) /\ c \notin resync /\ ~TookWhole =>
    IF c \in Observed(store)
    THEN /\ c \in mirror.open
         /\ sync[c] = "ready" \/ (sync[c] = "syncing" /\ assembly[c].received # {})
         /\ mirror.slots[c] = store.slots[c]
         /\ mirror.revision[c] = store.revision[c]
         /\ \A k \in 1..Capacity[c] : store.slots[c][k] # 0 =>
              LET i == store.slots[c][k]
              IN mirror.items[i] = [store.items[i] EXCEPT !.used = mirror.items[i].used]
    ELSE c \notin mirror.open

\* What the client lists in a slot is an item it can use.
TakenIsUsable ==
  \A c \in Containers : Quiet(c) /\ c \in mirror.open =>
    \A k \in 1..Capacity[c] :
      mirror.slots[c][k] # 0 => Live(mirror, mirror.slots[c][k])
=============================================================================
