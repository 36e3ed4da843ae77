--------------------------- MODULE CatalogSyncProofs ---------------------------
(***************************************************************************)
(* CatalogSync, for every bundle, pump limit and timeout: a sync that has  *)
(* failed stays failed, a client whose sync is Ready has joined, and one   *)
(* that downloads never refuses a chunk (the invariant is Stage, below).   *)
(*                                                                         *)
(* The second is inductive only with the history of the one handshake:     *)
(* before it is sent neither it nor an answer is on the way, and from then *)
(* on at most one of the two is, once.  So nothing that could take the     *)
(* welcome back is on the way to a client that is Ready.                   *)
(***************************************************************************)
EXTENDS CatalogSync, TLAPS

Has(q, T) == \E k \in 1..Len(q) : q[k].type \in T
Once(q, T) ==
  \A i, j \in 1..Len(q) : q[i].type \in T /\ q[j].type \in T => i = j

Answers == {"Welcome", "Refused"}

Queues == /\ toServer \in Seq(ServerMessages)
          /\ toClient \in Seq(ClientMessages)

\* The link's life and what it puts on the queues.
LinkInv ==
  /\ link \in {"dialing", "up", "down"}
  /\ link = "dialing" => toServer = << >> /\ toClient = << >> /\ sync # "Ready"
  /\ link = "up" => ~Has(toServer, {"Disconnected"}) /\ ~Has(toClient, {"Disconnected"})

\* The handshake and its answer, at most one of them on the way.
HandshakeInv ==
  /\ handshook \in BOOLEAN
  /\ Has(toServer, {"Handshake"}) \/ Has(toClient, Answers) => handshook
  /\ ~(Has(toServer, {"Handshake"}) /\ Has(toClient, Answers))
  /\ Once(toServer, {"Handshake"}) /\ Once(toClient, Answers)
  /\ link = "up" /\ Has(toClient, {"Welcome"}) => session = "welcomed"

\* What Ready means, with nothing on the way that could undo it.
ReadyInv ==
  sync = "Ready" =>
    /\ handshook /\ catalog = "current"
    /\ ~Has(toServer, {"Handshake"}) /\ ~Has(toClient, Answers)
    /\ link = "up" => welcomed /\ session = "welcomed"

JoinInv == Queues /\ LinkInv /\ HandshakeInv /\ ReadyInv

-----------------------------------------------------------------------------
(* Queues.                                                                 *)

\* A message put at the end of a queue.
LEMMA AppendHas ==
  ASSUME NEW S, NEW q \in Seq(S), NEW m, NEW T
  PROVE  /\ Has(Append(q, m), T) <=> Has(q, T) \/ m.type \in T
         /\ Once(q, T) /\ (m.type \in T => ~Has(q, T)) => Once(Append(q, m), T)
<1> DEFINE p == Append(q, m)
<1>1. /\ Len(p) = Len(q) + 1 /\ p[Len(q) + 1] = m
      /\ \A k \in 1..Len(q) : p[k] = q[k]
      /\ Len(q) \in Nat
  OBVIOUS
<1> HIDE DEF p
<1>2. Has(p, T) <=> Has(q, T) \/ m.type \in T
  BY <1>1 DEF Has
<1>3. ASSUME Once(q, T), m.type \in T => ~Has(q, T)
      PROVE  Once(p, T)
  BY <1>1, <1>3 DEF Has, Once
<1>q. QED BY <1>2, <1>3 DEF p

\* A message taken from the head of a queue.
LEMMA TailHas ==
  ASSUME NEW S, NEW q \in Seq(S), q # << >>, NEW T
  PROVE  /\ Has(Tail(q), T) => Has(q, T)
         /\ Head(q).type \in T => Has(q, T)
         /\ Once(q, T) => Once(Tail(q), T)
         /\ Once(q, T) /\ Head(q).type \in T => ~Has(Tail(q), T)
<1> DEFINE p == Tail(q)
<1>1. /\ Len(p) = Len(q) - 1 /\ Len(q) \in Nat \ {0} /\ Head(q) = q[1]
      /\ \A k \in 1..Len(p) : p[k] = q[k + 1]
  OBVIOUS
<1> HIDE DEF p
<1>2. Has(p, T) => Has(q, T)
  BY <1>1 DEF Has
<1>3. Head(q).type \in T => Has(q, T)
  BY <1>1 DEF Has
<1>4. Once(q, T) => Once(p, T)
  <2> SUFFICES ASSUME Once(q, T), NEW i \in 1..Len(p), NEW j \in 1..Len(p),
                      p[i].type \in T, p[j].type \in T
               PROVE  i = j
    BY DEF Once
  <2>1. /\ i + 1 \in 1..Len(q) /\ j + 1 \in 1..Len(q)
        /\ q[i + 1].type \in T /\ q[j + 1].type \in T
    BY <1>1
  <2>2. i + 1 = j + 1 BY <2>1 DEF Once
  <2>q. QED BY <2>2
<1>5. ASSUME Once(q, T), Head(q).type \in T PROVE ~Has(p, T)
  <2> SUFFICES ASSUME NEW i \in 1..Len(p), p[i].type \in T PROVE FALSE
    BY DEF Has
  <2>1. i + 1 \in 1..Len(q) /\ 1 \in 1..Len(q) /\ q[i + 1].type \in T /\ q[1].type \in T
    BY <1>1, <1>5
  <2>2. i + 1 = 1 BY <2>1, <1>5 DEF Once
  <2>q. QED BY <2>2
<1>q. QED BY <1>2, <1>3, <1>4, <1>5 DEF p

\* A queue cut short.
LEMMA CutHas ==
  ASSUME NEW S, NEW q \in Seq(S), NEW c \in 0..Len(q), NEW T
  PROVE  /\ SubSeq(q, 1, c) \in Seq(S)
         /\ Has(SubSeq(q, 1, c), T) => Has(q, T)
         /\ Once(q, T) => Once(SubSeq(q, 1, c), T)
<1> DEFINE p == SubSeq(q, 1, c)
<1>1. /\ p \in Seq(S) /\ Len(p) = c /\ Len(q) \in Nat
      /\ \A k \in 1..c : p[k] = q[k]
  OBVIOUS
<1> HIDE DEF p
<1>2. Has(p, T) => Has(q, T) BY <1>1 DEF Has
<1>3. Once(q, T) => Once(p, T) BY <1>1 DEF Once
<1>q. QED BY <1>1, <1>2, <1>3 DEF p

\* A queue that some messages, none of a type in T, were put on.
LEMMA ConcatHas ==
  ASSUME NEW S, NEW q \in Seq(S), NEW r \in Seq(S), NEW T,
         \A k \in 1..Len(r) : r[k].type \notin T
  PROVE  /\ q \o r \in Seq(S)
         /\ Has(q \o r, T) => Has(q, T)
         /\ Once(q, T) => Once(q \o r, T)
<1> DEFINE p == q \o r
<1>1. /\ p \in Seq(S) /\ Len(p) = Len(q) + Len(r) /\ Len(q) \in Nat /\ Len(r) \in Nat
      /\ \A k \in 1..Len(q) : p[k] = q[k]
      /\ \A k \in (Len(q) + 1)..Len(p) : p[k] = r[k - Len(q)]
  OBVIOUS
<1> HIDE DEF p
<1>2. \A k \in 1..Len(p) : p[k].type \in T => k \in 1..Len(q) /\ p[k] = q[k]
  <2> SUFFICES ASSUME NEW k \in 1..Len(p), k \notin 1..Len(q) PROVE p[k].type \notin T
    BY <1>1
  <2>1. k \in (Len(q) + 1)..Len(p) /\ k - Len(q) \in 1..Len(r) BY <1>1
  <2>2. p[k] = r[k - Len(q)] BY <2>1, <1>1
  <2>q. QED BY <2>1, <2>2
<1>3. Has(p, T) => Has(q, T) BY <1>2 DEF Has
<1>4. Once(q, T) => Once(p, T) BY <1>2 DEF Once
<1>q. QED BY <1>1, <1>3, <1>4 DEF p

-----------------------------------------------------------------------------
(* What the actions do to the queues, as far as the invariant asks.        *)

\* The messages of both directions, and which types they have.
LEMMA Messages ==
  /\ \A t \in {"Connected", "Manifest", "Welcome", "Refused", "Disconnected"} :
       Msg(t) \in ClientMessages
  /\ \A t \in {"ManifestRequest", "BundleRequest", "Disconnected"} :
       Msg(t) \in ServerMessages
  /\ \A t : Msg(t).type = t
  /\ \A e \in Errors : [type |-> "SyncError", error |-> e] \in ClientMessages
  /\ \A k \in 0..(Total - 1) : Chunk(k) \in ClientMessages
  /\ \A k : Chunk(k).type = "Chunk"
  /\ catalog \in Catalogs => Handshake \in ServerMessages
  /\ Handshake.type = "Handshake"
BY DEF Msg, ClientMessages, ServerMessages, Chunk, Handshake

\* What putting a message of type t on a queue, or failing to, does to it.
Given(q, r, t, T) ==
  /\ Has(q, T) => Has(r, T)
  /\ Has(r, T) => Has(q, T) \/ t \in T
  /\ Once(q, T) /\ (t \in T => ~Has(q, T)) => Once(r, T)

\* Put, whether the message gets onto the queue or not.
LEMMA PutHas ==
  ASSUME NEW S, NEW q \in Seq(S), NEW m \in S, NEW ok \in BOOLEAN
  PROVE  /\ Put(q, m, ok) \in Seq(S)
         /\ link # "up" => Put(q, m, ok) = q
         /\ \A T : Given(q, Put(q, m, ok), m.type, T)
<1>1. Append(q, m) \in Seq(S) OBVIOUS
<1>2. \A T : Given(q, q, m.type, T) /\ Given(q, Append(q, m), m.type, T)
  BY AppendHas DEF Given
<1>q. QED BY <1>1, <1>2 DEF Put

\* A queue with no more messages of a type in T than before.
Quieter(q, r, T) == /\ Has(r, T) => Has(q, T)
                    /\ Once(q, T) => Once(r, T)

\* An action that leaves the handshake and the link alone: it may take a
\* message that is none of the watched types, and put some of that kind.
Quiet(T) == /\ Quieter(toServer, toServer', T)
            /\ Quieter(toClient, toClient', T)

Calm == /\ Queues' /\ catalog' \in Catalogs
        /\ \A T \in {{"Handshake"}, Answers, {"Welcome"}, {"Disconnected"}} : Quiet(T)
        /\ link' = link /\ handshook' = handshook
        /\ link = "up" => session' = session
        /\ link = "dialing" => toServer' = toServer /\ toClient' = toClient

Inv == JoinInv /\ catalog \in Catalogs

\* Calm steps keep what a client that was not Ready, or stays as it is, knows.
LEMMA CalmKeeps ==
  ASSUME Inv, Calm,
         sync' = "Ready" => sync = "Ready" /\ (link = "up" => welcomed' = welcomed)
                            /\ (catalog = "current" => catalog' = "current")
  PROVE  Inv'
<1>1. /\ Quiet({"Handshake"}) /\ Quiet(Answers)
      /\ Quiet({"Welcome"}) /\ Quiet({"Disconnected"})
  BY DEF Calm
<1>2. LinkInv' BY <1>1 DEF Inv, JoinInv, LinkInv, Calm, Quiet, Quieter
<1>3. HandshakeInv' BY <1>1 DEF Inv, JoinInv, HandshakeInv, Calm, Quiet, Quieter
<1>4. ReadyInv' BY <1>1 DEF Inv, JoinInv, ReadyInv, Calm, Quiet, Quieter
<1>q. QED BY <1>2, <1>3, <1>4 DEF Inv, JoinInv, Calm

-----------------------------------------------------------------------------
(* One lemma per kind of step.                                             *)

\* A step of the host or the timer that touches no queue.
LEMMA SilentStep ==
  ASSUME Inv, Timer \/ LoadCatalog
  PROVE  Inv'
<1>1. /\ UNCHANGED <<toServer, toClient, link, handshook, session, welcomed>>
      /\ catalog' \in Catalogs /\ (catalog = "current" => catalog' = "current")
      /\ sync' = "Ready" => sync = "Ready"
  BY DEF Inv, Timer, LoadCatalog, fail_gameplay_catalog_sync, serverVars, Catalogs
<1>2. Calm BY <1>1 DEF Calm, Quiet, Quieter, Inv, JoinInv, Queues
<1>q. QED BY <1>1, <1>2, CalmKeeps

\* What taking the message of type t from the head of a queue does to it.
Taken(q, r, t, T) ==
  /\ Has(r, T) => Has(q, T)
  /\ t \in T => Has(q, T)
  /\ Once(q, T) => Once(r, T)
  /\ Once(q, T) /\ t \in T => ~Has(r, T)

\* The client takes a message from a link that is or was up.
LEMMA ClientTakes ==
  ASSUME Inv, NEW t, ClientReads(t)
  PROVE  /\ link # "dialing" /\ link' = link /\ UNCHANGED <<transfer, session>>
         /\ toClient' \in Seq(ClientMessages)
         /\ \A T : Taken(toClient, toClient', t, T)
<1>1. /\ toClient \in Seq(ClientMessages) /\ toClient # << >>
      /\ toClient' = Tail(toClient) /\ Head(toClient).type = t
      /\ UNCHANGED <<link, transfer, session>>
  BY DEF Inv, JoinInv, Queues, ClientReads, serverVars
<1>2. link # "dialing" BY <1>1 DEF Inv, JoinInv, LinkInv
<1>3. Tail(toClient) \in Seq(ClientMessages) BY <1>1
<1>q. QED BY <1>1, <1>2, <1>3, TailHas DEF Taken

\* The same on the server.
LEMMA ServerTakes ==
  ASSUME Inv, NEW t, ServerReads(t)
  PROVE  /\ link # "dialing" /\ UNCHANGED <<link, sync, catalog, handshook, welcomed>>
         /\ toServer' \in Seq(ServerMessages)
         /\ \A T : Taken(toServer, toServer', t, T)
<1>1. /\ toServer \in Seq(ServerMessages) /\ toServer # << >>
      /\ toServer' = Tail(toServer) /\ Head(toServer).type = t
      /\ UNCHANGED <<link, sync, catalog, handshook, welcomed>>
  BY DEF Inv, JoinInv, Queues, ServerReads, clientVars
<1>2. link # "dialing" BY <1>1 DEF Inv, JoinInv, LinkInv
<1>3. Tail(toServer) \in Seq(ServerMessages) BY <1>1
<1>q. QED BY <1>1, <1>2, <1>3, TailHas DEF Taken

\* A Put on the queue to the server.
LEMMA ServerGiven ==
  ASSUME Inv, NEW ok \in BOOLEAN, NEW m \in ServerMessages,
         toServer' = Put(toServer, m, ok)
  PROVE  /\ toServer' \in Seq(ServerMessages)
         /\ link # "up" => toServer' = toServer
         /\ \A T : Given(toServer, toServer', m.type, T)
<1>1. toServer \in Seq(ServerMessages) BY DEF Inv, JoinInv, Queues
<1>q. QED BY <1>1, PutHas

\* A Put on the queue to the client.
LEMMA ClientGiven ==
  ASSUME Inv, NEW ok \in BOOLEAN, NEW m \in ClientMessages,
         toClient' = Put(toClient, m, ok)
  PROVE  /\ toClient' \in Seq(ClientMessages)
         /\ link # "up" => toClient' = toClient
         /\ \A T : Given(toClient, toClient', m.type, T)
<1>1. toClient \in Seq(ClientMessages) BY DEF Inv, JoinInv, Queues
<1>q. QED BY <1>1, PutHas

\* request_gameplay_catalog_bundle.
LEMMA RequestStep ==
  ASSUME Inv, NEW ok \in BOOLEAN, request_gameplay_catalog_bundle(ok)
  PROVE  Inv'
<1>1. /\ toServer' = Put(toServer, Msg("BundleRequest"), ok)
      /\ UNCHANGED <<link, toClient, catalog, handshook, welcomed, session>>
      /\ sync' # "Ready"
  BY DEF request_gameplay_catalog_bundle, fail_gameplay_catalog_sync, serverVars
<1>2. Msg("BundleRequest") \in ServerMessages /\ Msg("BundleRequest").type = "BundleRequest"
  BY Messages
<1>3. /\ toServer' \in Seq(ServerMessages) /\ (link # "up" => toServer' = toServer)
      /\ \A T : Given(toServer, toServer', "BundleRequest", T)
  BY <1>1, <1>2, ServerGiven
<1>4. Calm
  BY <1>1, <1>3 DEF Calm, Quiet, Quieter, Given, Answers, Inv, JoinInv, Queues
<1>q. QED BY <1>1, <1>4, CalmKeeps

\* The messages that end in the client's sync state alone.
LEMMA ClientStep ==
  ASSUME Inv,
         \/ handle_client_gameplay_catalog_manifest
         \/ handle_client_gameplay_catalog_bundle_chunk
         \/ handle_client_gameplay_catalog_sync_error
         \/ ClientRefused
         \/ handle_client_disconnect
  PROVE  Inv'
<1>1. PICK t \in {"Manifest", "Chunk", "SyncError", "Refused", "Disconnected"} :
        /\ ClientReads(t)
        /\ t \notin {"Refused", "Disconnected"} => welcomed' = welcomed
        /\ UNCHANGED <<toServer, catalog, handshook>>
        /\ sync' = "Ready" => sync = "Ready"
  BY DEF handle_client_gameplay_catalog_manifest, ClientRefused,
         handle_client_gameplay_catalog_bundle_chunk, handle_client_disconnect,
         handle_client_gameplay_catalog_sync_error, fail_gameplay_catalog_sync
<1>2. /\ link # "dialing" /\ link' = link /\ session' = session
      /\ toClient' \in Seq(ClientMessages)
      /\ \A T : Taken(toClient, toClient', t, T)
  BY <1>1, ClientTakes
<1>3. Calm
  BY <1>1, <1>2 DEF Calm, Quiet, Quieter, Taken, Inv, JoinInv, Queues
<1>4. Taken(toClient, toClient', t, Answers) /\ Taken(toClient, toClient', t, {"Disconnected"})
  BY <1>2
<1>5. t = "Refused" => sync # "Ready"
  BY <1>4 DEF Taken, Inv, JoinInv, ReadyInv, Answers
<1>6. t = "Disconnected" => link # "up"
  BY <1>4 DEF Taken, Inv, JoinInv, LinkInv
<1>q. QED BY <1>1, <1>3, <1>5, <1>6, CalmKeeps

\* The handshake, sent by whichever of the two steps sends it: if it has gone
\* out before nothing happens, and otherwise it and its answer are nowhere.
LEMMA HandshakeStep ==
  ASSUME Inv, NEW ok \in BOOLEAN, send_client_handshake(ok),
         link' = link, session' = session, catalog' = catalog,
         welcomed' = welcomed, sync' = "Ready" => sync = "Ready",
         toClient' \in Seq(ClientMessages),
         link = "dialing" => toClient' = toClient,
         \A T : Quieter(toClient, toClient', T)
  PROVE  Inv'
<1>1. CASE handshook
  <2>1. toServer' = toServer /\ handshook' = handshook
    BY <1>1 DEF send_client_handshake, Inv, JoinInv, HandshakeInv
  <2>2. Calm BY <2>1 DEF Calm, Quiet, Quieter, Inv, JoinInv, Queues
  <2>q. QED BY <2>2, CalmKeeps
<1>2. CASE ~handshook
  <2>1. toServer' = Put(toServer, Handshake, ok) /\ handshook' = ok
    BY <1>2 DEF send_client_handshake
  <2>2. Handshake \in ServerMessages /\ Handshake.type = "Handshake"
    BY Messages DEF Inv
  <2>3. /\ toServer' \in Seq(ServerMessages) /\ (link # "up" => toServer' = toServer)
        /\ \A T : Given(toServer, toServer', "Handshake", T)
    BY <2>1, <2>2, ServerGiven
  <2>4. /\ Given(toServer, toServer', "Handshake", {"Handshake"})
        /\ Given(toServer, toServer', "Handshake", {"Disconnected"})
        /\ Quieter(toClient, toClient', Answers)
        /\ Quieter(toClient, toClient', {"Welcome"})
        /\ Quieter(toClient, toClient', {"Disconnected"})
    BY <2>3
  <2>5. ~ok => toServer' = toServer
    BY <2>1 DEF Put
  <2>6. ~Has(toServer, {"Handshake"}) /\ ~Has(toClient, Answers) /\ sync # "Ready"
    BY <1>2 DEF Inv, JoinInv, HandshakeInv, ReadyInv
  <2>7. LinkInv' BY <2>3, <2>4 DEF Inv, JoinInv, LinkInv, Given, Quieter
  <2>8. HandshakeInv'
    BY <2>1, <2>4, <2>5, <2>6 DEF Inv, JoinInv, HandshakeInv, Given, Quieter
  <2>9. ReadyInv' BY <2>6 DEF ReadyInv
  <2>q. QED BY <2>3, <2>7, <2>8, <2>9 DEF Inv, JoinInv, Queues
<1>q. QED BY <1>1, <1>2

\* continue_client_handshake.
LEMMA ContinueStep ==
  ASSUME Inv, NEW ok \in BOOLEAN, continue_client_handshake(ok)
  PROVE  Inv'
<1>1. /\ send_client_handshake(ok) /\ sync' # "Ready"
      /\ UNCHANGED <<link, toClient, catalog, welcomed, session>>
  BY DEF continue_client_handshake, fail_gameplay_catalog_sync, serverVars
<1>2. toClient' \in Seq(ClientMessages) BY <1>1 DEF Inv, JoinInv, Queues
<1>3. \A T : Quieter(toClient, toClient', T) BY <1>1 DEF Quieter
<1>q. QED BY <1>1, <1>2, <1>3, HandshakeStep

\* The connected event: the manifest is asked for, or the handshake sent.
LEMMA ConnectedStep ==
  ASSUME Inv, NEW ok \in BOOLEAN, ClientConnected(ok)
  PROVE  Inv'
<1>1. ClientReads("Connected") /\ UNCHANGED <<catalog, welcomed>>
  BY DEF ClientConnected
<1>2. /\ link # "dialing" /\ link' = link /\ session' = session
      /\ toClient' \in Seq(ClientMessages)
      /\ \A T : Taken(toClient, toClient', "Connected", T)
  BY <1>1, ClientTakes
<1>3. CASE sync = "Connecting"
  <2>1. /\ toServer' = Put(toServer, Msg("ManifestRequest"), ok)
        /\ sync' # "Ready" /\ handshook' = handshook
    BY <1>3 DEF ClientConnected, fail_gameplay_catalog_sync
  <2>2. /\ Msg("ManifestRequest") \in ServerMessages
        /\ Msg("ManifestRequest").type = "ManifestRequest"
    BY Messages
  <2>3. /\ toServer' \in Seq(ServerMessages) /\ (link # "up" => toServer' = toServer)
        /\ \A T : Given(toServer, toServer', "ManifestRequest", T)
    BY <2>1, <2>2, ServerGiven
  <2>4. Calm
    BY <1>1, <1>2, <2>1, <2>3 DEF Calm, Quiet, Quieter, Given, Taken, Answers, Inv, JoinInv, Queues
  <2>q. QED BY <2>1, <2>4, CalmKeeps
<1>4. CASE sync # "Connecting"
  <2>1. send_client_handshake(ok) /\ sync' = sync
    BY <1>4 DEF ClientConnected
  <2>2. \A T : Quieter(toClient, toClient', T)
    BY <1>2 DEF Taken, Quieter
  <2>q. QED BY <1>1, <1>2, <2>1, <2>2, HandshakeStep
<1>q. QED BY <1>3, <1>4

\* The welcome: the answer is taken, so nothing is left on the way.
LEMMA WelcomeStep ==
  ASSUME Inv, NEW playable \in BOOLEAN, apply_welcome(playable)
  PROVE  Inv'
<1>1. /\ ClientReads("Welcome") /\ welcomed' = playable
      /\ sync' = "Ready" => playable \/ sync = "Ready"
      /\ playable => catalog' = "current"
      /\ UNCHANGED <<toServer, handshook>>
      /\ catalog' \in Catalogs
  BY DEF apply_welcome, Concludes, Inv, Catalogs
<1>2. /\ link # "dialing" /\ link' = link /\ session' = session
      /\ toClient' \in Seq(ClientMessages)
      /\ \A T : Taken(toClient, toClient', "Welcome", T)
  BY <1>1, ClientTakes
<1>3. /\ Taken(toClient, toClient', "Welcome", Answers)
      /\ Taken(toClient, toClient', "Welcome", {"Welcome"})
      /\ Taken(toClient, toClient', "Welcome", {"Disconnected"})
  BY <1>2
<1>4. /\ Has(toClient, Answers) /\ Has(toClient, {"Welcome"}) /\ ~Has(toClient', Answers)
  BY <1>3 DEF Taken, Answers, Inv, JoinInv, HandshakeInv
<1>5. sync # "Ready" /\ handshook /\ ~Has(toServer, {"Handshake"})
      /\ (link = "up" => session = "welcomed")
  BY <1>4 DEF Inv, JoinInv, HandshakeInv, ReadyInv
<1>6. LinkInv' BY <1>1, <1>2, <1>3 DEF Inv, JoinInv, LinkInv, Taken
<1>7. HandshakeInv'
  BY <1>1, <1>2, <1>3, <1>4, <1>5 DEF Inv, JoinInv, HandshakeInv, Taken
<1>8. ReadyInv' BY <1>1, <1>2, <1>4, <1>5 DEF ReadyInv
<1>q. QED BY <1>1, <1>2, <1>6, <1>7, <1>8 DEF Inv, JoinInv, Queues

\* The connection comes up: nothing was on the way before.
LEMMA LinkUpStep ==
  ASSUME Inv, LinkUp
  PROVE  Inv'
<1>1. /\ toServer' = << >> /\ toClient' = <<Msg("Connected")>> /\ link' = "up"
      /\ UNCHANGED <<sync, catalog, handshook, welcomed, session>>
      /\ link = "dialing" /\ toClient = << >>
  BY DEF LinkUp, clientVars, serverVars, Inv, JoinInv, LinkInv
<1>2. Msg("Connected") \in ClientMessages /\ Msg("Connected").type = "Connected"
  BY Messages
<1>3. Queues' BY <1>1, <1>2 DEF Queues
<1>4. \A T : ~Has(toServer', T) /\ Once(toServer', T) /\ Once(toClient', T)
           /\ (Has(toClient', T) => "Connected" \in T)
  BY <1>1, <1>2 DEF Has, Once
<1>5. /\ ~Has(toClient', Answers) /\ ~Has(toClient', {"Welcome"})
      /\ ~Has(toClient', {"Disconnected"})
  BY <1>4 DEF Answers
<1>6. sync' # "Ready" BY <1>1 DEF Inv, JoinInv, LinkInv
<1>7. LinkInv' BY <1>1, <1>4, <1>5 DEF LinkInv
<1>8. HandshakeInv' BY <1>1, <1>4, <1>5 DEF HandshakeInv, Inv, JoinInv
<1>q. QED BY <1>1, <1>3, <1>6, <1>7, <1>8 DEF Inv, JoinInv, ReadyInv

\* The connection is lost: both queues are cut and end in the disconnect.
LEMMA LinkDownStep ==
  ASSUME Inv, NEW c \in 0..Len(toClient), NEW d \in 0..Len(toServer), LinkDown(c, d)
  PROVE  Inv'
<1> DEFINE cut(q, n) == Append(SubSeq(q, 1, n), Msg("Disconnected"))
<1>1. /\ toClient' = cut(toClient, c)
      /\ toServer' = cut(toServer, d) \/ toServer' = << >>
      /\ link' = "down"
      /\ UNCHANGED <<sync, catalog, handshook, welcomed, session>>
      /\ Queues
  BY DEF LinkDown, clientVars, serverVars, Inv, JoinInv
<1>2. /\ Msg("Disconnected") \in ClientMessages /\ Msg("Disconnected") \in ServerMessages
      /\ Msg("Disconnected").type = "Disconnected"
  BY Messages
<1>3. ASSUME NEW S, NEW q \in Seq(S), NEW n \in 0..Len(q), Msg("Disconnected") \in S
      PROVE  /\ cut(q, n) \in Seq(S)
             /\ \A T : "Disconnected" \notin T => Quieter(q, cut(q, n), T)
  <2>1. SubSeq(q, 1, n) \in Seq(S)
        /\ \A T : Quieter(q, SubSeq(q, 1, n), T)
    BY CutHas DEF Quieter
  <2>2. \A T : "Disconnected" \notin T => Quieter(SubSeq(q, 1, n), cut(q, n), T)
    BY <1>2, <2>1, AppendHas DEF Quieter
  <2>q. QED BY <1>3, <2>1, <2>2 DEF Quieter
<1>4. \A T : Quieter(toServer, << >>, T)
  BY DEF Quieter, Has, Once
<1>5. Queues'
  <2>1. toClient' \in Seq(ClientMessages) BY <1>1, <1>2, <1>3 DEF Queues
  <2>2. cut(toServer, d) \in Seq(ServerMessages) BY <1>1, <1>2, <1>3 DEF Queues
  <2>3. << >> \in Seq(ServerMessages) OBVIOUS
  <2>4. toServer' \in Seq(ServerMessages) BY <1>1, <2>2, <2>3, Zenon
  <2>q. QED BY <2>1, <2>4 DEF Queues
<1>6. \A T : "Disconnected" \notin T => Quieter(toServer, toServer', T)
                                     /\ Quieter(toClient, toClient', T)
  BY <1>1, <1>2, <1>3, <1>4 DEF Queues
<1>7. /\ Quieter(toServer, toServer', {"Handshake"})
      /\ Quieter(toClient, toClient', Answers)
  BY <1>6 DEF Answers
<1>8. LinkInv' BY <1>1 DEF LinkInv
<1>9. HandshakeInv' BY <1>1, <1>7 DEF HandshakeInv, Inv, JoinInv, Quieter
<1>10. ReadyInv' BY <1>1, <1>7 DEF ReadyInv, Inv, JoinInv, Quieter
<1>q. QED BY <1>1, <1>5, <1>8, <1>9, <1>10 DEF Inv, JoinInv

\* The server's answers to the requests of the sync, and its disconnect.
LEMMA ServerStep ==
  ASSUME Inv,
         \/ \E ok \in BOOLEAN : handle_server_gameplay_catalog_manifest_request(ok)
         \/ handle_server_gameplay_catalog_bundle_request
         \/ handle_server_disconnect
  PROVE  Inv'
<1>1. CASE \E ok \in BOOLEAN : handle_server_gameplay_catalog_manifest_request(ok)
  <2>1. PICK ok \in BOOLEAN,
             m \in {[type |-> "SyncError", error |-> "VersionMismatch"],
                   [type |-> "SyncError", error |-> "BundleUnavailable"],
                   Msg("Manifest")} :
          /\ ServerReads("ManifestRequest") /\ session' = session
          /\ toClient' = Put(toClient, m, ok)
    BY <1>1 DEF handle_server_gameplay_catalog_manifest_request, serverVars
  <2>2. m \in ClientMessages /\ m.type \in {"SyncError", "Manifest"}
    BY <2>1, Messages DEF Errors
  <2>3. /\ link # "dialing" /\ UNCHANGED <<link, sync, catalog, handshook, welcomed>>
        /\ toServer' \in Seq(ServerMessages)
        /\ \A T : Taken(toServer, toServer', "ManifestRequest", T)
    BY <2>1, ServerTakes
  <2>4. /\ toClient' \in Seq(ClientMessages)
        /\ \A T : Given(toClient, toClient', m.type, T)
    BY <2>1, <2>2, ClientGiven
  <2>5. Calm
    BY <2>1, <2>2, <2>3, <2>4 DEF Calm, Quiet, Quieter, Given, Taken, Answers, Inv, Queues
  <2>q. QED BY <2>3, <2>5, CalmKeeps
<1>2. CASE handle_server_gameplay_catalog_bundle_request \/ handle_server_disconnect
  <2>1. PICK t \in {"BundleRequest", "Disconnected"} :
          /\ ServerReads(t) /\ toClient' = toClient
          /\ t = "BundleRequest" => session' = session
    BY <1>2 DEF handle_server_gameplay_catalog_bundle_request, handle_server_disconnect
  <2>2. /\ link # "dialing" /\ UNCHANGED <<link, sync, catalog, handshook, welcomed>>
        /\ toServer' \in Seq(ServerMessages)
        /\ \A T : Taken(toServer, toServer', t, T)
    BY <2>1, ServerTakes
  <2>3. Taken(toServer, toServer', t, {"Disconnected"}) BY <2>2
  <2>4. t = "Disconnected" => link # "up"
    BY <2>3 DEF Taken, Inv, JoinInv, LinkInv
  <2>5. Calm
    BY <2>1, <2>2, <2>4 DEF Calm, Quiet, Quieter, Taken, Inv, JoinInv, Queues
  <2>q. QED BY <2>2, <2>5, CalmKeeps
<1>q. QED BY <1>1, <1>2

\* The pump puts chunks on the queue, none of the watched messages.
LEMMA PumpStep ==
  ASSUME Inv, CatalogAssumption, transfer \in {NoTransfer} \cup 0..(Total - 1),
         NEW n \in 0..ChunksPerUpdate, NEW ok \in BOOLEAN,
         pump_gameplay_catalog_transfers(n, ok)
  PROVE  Inv'
<1> DEFINE r == [k \in 1..n |-> Chunk(transfer + k - 1)]
<1>1. /\ UNCHANGED <<link, toServer, sync, catalog, handshook, welcomed, session>>
      /\ toClient' = IF link = "up" THEN toClient \o r ELSE toClient
      /\ transfer # NoTransfer /\ transfer + n <= Total
  BY DEF pump_gameplay_catalog_transfers, clientVars
<1>2. transfer \in Nat /\ n \in Nat /\ Total \in Nat
  BY <1>1 DEF CatalogAssumption, Total
<1>3. \A k \in 1..n : transfer + k - 1 \in 0..(Total - 1)
  BY <1>1, <1>2
<1>4. r \in Seq(ClientMessages) /\ Len(r) = n
      /\ \A k \in 1..Len(r) : r[k].type = "Chunk"
  <2>1. \A k \in 1..n : Chunk(transfer + k - 1) \in ClientMessages
                        /\ Chunk(transfer + k - 1).type = "Chunk"
    BY <1>3, Messages
  <2>2. r \in [1..n -> ClientMessages] /\ \A k \in 1..n : r[k].type = "Chunk"
    BY <2>1
  <2> HIDE DEF r
  <2>3. r \in Seq(ClientMessages) /\ Len(r) = n BY <2>2, <1>2
  <2>q. QED BY <2>2, <2>3
<1> HIDE DEF r
<1>5. toClient \in Seq(ClientMessages) BY DEF Inv, JoinInv, Queues
<1>6. /\ toClient \o r \in Seq(ClientMessages)
      /\ \A T : "Chunk" \notin T => Quieter(toClient, toClient \o r, T)
  BY <1>4, <1>5, ConcatHas DEF Quieter
<1>7. /\ toClient' \in Seq(ClientMessages)
      /\ \A T : "Chunk" \notin T => Quieter(toClient, toClient', T)
  BY <1>1, <1>5, <1>6 DEF Quieter
<1>8. Calm
  BY <1>1, <1>7 DEF Calm, Quiet, Quieter, Answers, Inv, JoinInv, Queues
<1>q. QED BY <1>1, <1>8, CalmKeeps

\* The server answers the handshake: the answer takes its place.
LEMMA AnswerStep ==
  ASSUME Inv, NEW ok \in BOOLEAN, handle_server_handshake(ok)
  PROVE  Inv'
<1>1. PICK t \in Answers :
        /\ ServerReads("Handshake")
        /\ toClient' = Put(toClient, Msg(t), ok)
        /\ t = "Welcome" /\ ok => session' = "welcomed"
        /\ session = "welcomed" => session' = "welcomed"
  BY DEF handle_server_handshake, Answers
<1>2. Msg(t) \in ClientMessages /\ Msg(t).type = t
  BY Messages DEF Answers
<1>3. /\ link # "dialing" /\ UNCHANGED <<link, sync, catalog, handshook, welcomed>>
      /\ toServer' \in Seq(ServerMessages)
      /\ \A T : Taken(toServer, toServer', "Handshake", T)
  BY <1>1, ServerTakes
<1>4. /\ toClient' \in Seq(ClientMessages)
      /\ \A T : Given(toClient, toClient', t, T)
  BY <1>1, <1>2, ClientGiven
<1>5. /\ Taken(toServer, toServer', "Handshake", {"Handshake"})
      /\ Taken(toServer, toServer', "Handshake", {"Disconnected"})
      /\ Given(toClient, toClient', t, Answers)
      /\ Given(toClient, toClient', t, {"Welcome"})
      /\ Given(toClient, toClient', t, {"Disconnected"})
  BY <1>3, <1>4
<1>6. /\ Has(toServer, {"Handshake"}) /\ ~Has(toServer', {"Handshake"})
      /\ ~Has(toClient, Answers) /\ handshook /\ sync # "Ready"
  BY <1>5 DEF Taken, Inv, JoinInv, HandshakeInv, ReadyInv
<1>7. ~Has(toClient, {"Welcome"}) BY <1>6 DEF Has, Answers
<1>8. ~ok => toClient' = toClient BY <1>1 DEF Put
<1>9. LinkInv' BY <1>3, <1>5 DEF Inv, JoinInv, LinkInv, Taken, Given, Answers
<1>10. HandshakeInv'
  <2>1. Has(toClient', {"Welcome"}) => t = "Welcome" /\ ok
    BY <1>5, <1>7, <1>8 DEF Given
  <2>q. QED BY <1>1, <1>3, <1>5, <1>6, <2>1 DEF Inv, JoinInv, HandshakeInv, Taken, Given
<1>11. ReadyInv' BY <1>3, <1>6 DEF ReadyInv
<1>q. QED BY <1>3, <1>4, <1>9, <1>10, <1>11 DEF Inv, JoinInv, Queues

-----------------------------------------------------------------------------
(* The fields that are no queues.                                          *)

Fields ==
  /\ setup \in Setups /\ error \in Errors
  /\ sync \in Settled \cup TimedStates
  /\ elapsed \in 0..(Timeout + 1) /\ (sync \in TimedStates => elapsed <= Timeout)
  /\ bundle \in Seq(STRING) /\ Len(bundle) <= Total
  /\ \A k \in 1..Len(bundle) : bundle[k] = ServerBundle[k]
  /\ welcomed \in BOOLEAN
  /\ transfer \in {NoTransfer} \cup 0..(Total - 1)
  /\ session \in {"none", "pending", "welcomed"}

\* A sync that fails, or starts over with an empty download.
LEMMA EmptyBundle ==
  ASSUME CatalogAssumption
  PROVE  /\ << >> \in Seq(STRING) /\ Len(<< >>) = 0
         /\ Total \in Nat \ {0} /\ Timeout \in Nat
  BY DEF CatalogAssumption, Total

\* What a sync error packet names is an error.
LEMMA ErrorNamed ==
  ASSUME NEW m \in ClientMessages, m.type = "SyncError"
  PROVE  m.error \in Errors
  BY DEF ClientMessages, Msg, Chunk

\* A chunk's bytes are the bundle's at its offset.
LEMMA ChunkBytes ==
  ASSUME NEW m \in ClientMessages, m.type = "Chunk"
  PROVE  m.offset \in 0..(Total - 1) /\ m.bytes = ServerBundle[m.offset + 1]
  BY DEF ClientMessages, Msg, Chunk

\* Every step of the client keeps the fields.
LEMMA ClientFields ==
  ASSUME CatalogAssumption, Inv, Fields, Client
  PROVE  Fields'
<1> USE DEF Fields, Settled, TimedStates
<1>e. /\ << >> \in Seq(STRING) /\ Len(<< >>) = 0
      /\ Total \in Nat \ {0} /\ Timeout \in Nat
  BY EmptyBundle
<1>q1. toClient \in Seq(ClientMessages) BY DEF Inv, JoinInv, Queues
<1>f. \A e \in Errors : e = error' /\ sync' = "Failed" /\ bundle' = << >>
        /\ elapsed' \in 0..(Timeout + 1) /\ welcomed' \in BOOLEAN
        /\ UNCHANGED <<setup, transfer, session>> => Fields'
  BY <1>e
<1>1. CASE Timer
  <2>1. elapsed' \in 0..(Timeout + 1) /\ UNCHANGED <<setup, transfer, session, welcomed>>
    BY <1>1, <1>e DEF Timer, serverVars
  <2>2. CASE Expired
    BY <1>1, <1>f, <2>1, <2>2 DEF Timer, fail_gameplay_catalog_sync, Errors
  <2>3. CASE ~Expired
    BY <1>1, <1>e, <2>1, <2>3 DEF Timer, Expired
  <2>q. QED BY <2>2, <2>3
<1>2. CASE LoadCatalog
  BY <1>2 DEF LoadCatalog, serverVars
<1>3. ASSUME NEW ok \in BOOLEAN, request_gameplay_catalog_bundle(ok) PROVE Fields'
  <2>1. CASE ok
    BY <1>3, <1>e, <2>1 DEF request_gameplay_catalog_bundle, serverVars
  <2>2. CASE ~ok
    BY <1>3, <1>f, <2>2
    DEF request_gameplay_catalog_bundle, serverVars, fail_gameplay_catalog_sync, Errors
  <2>q. QED BY <2>1, <2>2
<1>4. ASSUME NEW ok \in BOOLEAN, continue_client_handshake(ok) PROVE Fields'
  <2>1. CASE handshook'
    BY <1>4, <1>e, <2>1 DEF continue_client_handshake, serverVars
  <2>2. CASE ~handshook'
    BY <1>4, <1>f, <2>2
    DEF continue_client_handshake, serverVars, fail_gameplay_catalog_sync, Errors
  <2>q. QED BY <2>1, <2>2
<1>5. ASSUME NEW ok \in BOOLEAN, ClientConnected(ok) PROVE Fields'
  <2>0. UNCHANGED <<setup, transfer, session, welcomed>>
    BY <1>5 DEF ClientConnected, ClientReads, serverVars
  <2>1. CASE sync = "Connecting" /\ ok
    BY <1>5, <1>e, <2>0, <2>1 DEF ClientConnected
  <2>2. CASE sync = "Connecting" /\ ~ok
    BY <1>5, <1>f, <2>0, <2>2 DEF ClientConnected, fail_gameplay_catalog_sync, Errors
  <2>3. CASE sync # "Connecting"
    BY <1>5, <2>0, <2>3 DEF ClientConnected
  <2>q. QED BY <2>1, <2>2, <2>3
<1>6. CASE handle_client_gameplay_catalog_manifest
  <2>0. UNCHANGED <<setup, transfer, session, welcomed>>
    BY <1>6 DEF handle_client_gameplay_catalog_manifest, ClientReads, serverVars
  <2>1. CASE sync = "FetchingManifest" /\ setup.fits
    BY <1>6, <1>e, <2>0, <2>1 DEF handle_client_gameplay_catalog_manifest
  <2>2. CASE ~(sync = "FetchingManifest" /\ setup.fits)
    BY <1>6, <1>f, <2>0, <2>2
    DEF handle_client_gameplay_catalog_manifest, fail_gameplay_catalog_sync, Errors
  <2>q. QED BY <2>1, <2>2
<1>7. CASE handle_client_gameplay_catalog_sync_error
  <2>0. UNCHANGED <<setup, transfer, session, welcomed, elapsed>>
        /\ toClient # << >> /\ Head(toClient).type = "SyncError"
    BY <1>7 DEF handle_client_gameplay_catalog_sync_error, ClientReads, serverVars
  <2>1. Head(toClient) \in ClientMessages BY <1>q1, <2>0
  <2>2. Head(toClient).error \in Errors BY <2>0, <2>1, ErrorNamed
  <2>q. QED
    BY <1>7, <1>f, <2>0, <2>2
    DEF handle_client_gameplay_catalog_sync_error, fail_gameplay_catalog_sync
<1>8. ASSUME NEW playable \in BOOLEAN, apply_welcome(playable) PROVE Fields'
  <2>0. UNCHANGED <<setup, transfer, session, elapsed>> /\ welcomed' = playable
    BY <1>8 DEF apply_welcome, ClientReads, serverVars
  <2>1. CASE Concludes(playable)
    <3>1. sync' = "Ready" /\ error' = "None" /\ bundle' = << >>
      BY <1>8, <2>1 DEF apply_welcome
    <3>q. QED BY <1>e, <2>0, <3>1 DEF Errors
  <2>2. CASE ~Concludes(playable)
    <3>1. UNCHANGED <<sync, error, bundle>> BY <1>8, <2>2 DEF apply_welcome
    <3>q. QED BY <2>0, <3>1
  <2>q. QED BY <2>1, <2>2
<1>9. CASE ClientRefused
  BY <1>9 DEF ClientRefused, ClientReads, serverVars
<1>10. CASE handle_client_disconnect
  <2>0. UNCHANGED <<setup, transfer, session, elapsed>> /\ welcomed' = FALSE
    BY <1>10 DEF handle_client_disconnect, ClientReads, serverVars
  <2>1. CASE sync \in {"Idle", "Ready"}
    BY <1>10, <2>0, <2>1 DEF handle_client_disconnect
  <2>2. CASE sync \notin {"Idle", "Ready"}
    BY <1>10, <1>f, <2>0, <2>2 DEF handle_client_disconnect, fail_gameplay_catalog_sync, Errors
  <2>q. QED BY <2>1, <2>2
<1>11. CASE handle_client_gameplay_catalog_bundle_chunk
  <2> DEFINE chunk == Head(toClient)
             got == Append(bundle, chunk.bytes)
  <2>0. UNCHANGED <<setup, transfer, session, welcomed>>
        /\ toClient # << >> /\ chunk.type = "Chunk"
    BY <1>11 DEF handle_client_gameplay_catalog_bundle_chunk, ClientReads, serverVars
  <2>1. chunk \in ClientMessages BY <1>q1, <2>0
  <2>2. chunk.bytes = ServerBundle[chunk.offset + 1] BY <2>0, <2>1, ChunkBytes
  <2>3. CASE sync # "Downloading" \/ ~Continues(chunk)
    BY <1>11, <1>f, <2>0, <2>3
    DEF handle_client_gameplay_catalog_bundle_chunk, fail_gameplay_catalog_sync, Errors
  <2>4. CASE sync = "Downloading" /\ Continues(chunk)
    <3>1. chunk.offset = Len(bundle) /\ Len(bundle) < Total BY <2>4 DEF Continues
    <3>2. ServerBundle \in Seq(STRING) /\ Total = Len(ServerBundle) /\ Len(bundle) \in Nat
      BY DEF CatalogAssumption, Total
    <3>3. chunk.bytes \in STRING BY <2>2, <3>1, <3>2
    <3>4. /\ got \in Seq(STRING) /\ Len(got) = Len(bundle) + 1
          /\ \A k \in 1..Len(got) : got[k] = ServerBundle[k]
      BY <2>2, <3>1, <3>2, <3>3
    <3>5. /\ elapsed' = 0
          /\ \/ bundle' = got /\ UNCHANGED <<sync, error>>
             \/ sync' = "BundleReady" /\ bundle' = got /\ UNCHANGED error
             \/ fail_gameplay_catalog_sync("InvalidBundle")
      BY <1>11, <2>4 DEF handle_client_gameplay_catalog_bundle_chunk
    <3> HIDE DEF got
    <3>6. CASE fail_gameplay_catalog_sync("InvalidBundle")
      BY <1>e, <1>f, <2>0, <3>5, <3>6 DEF fail_gameplay_catalog_sync, Errors
    <3>7. CASE bundle' = got /\ error' = error /\ sync' \in {"Downloading", "BundleReady"}
      BY <1>e, <2>0, <3>1, <3>2, <3>4, <3>5, <3>7
    <3>q. QED BY <2>4, <3>5, <3>6, <3>7
  <2>q. QED BY <2>3, <2>4
<1>q. QED
  BY <1>1, <1>2, <1>3, <1>4, <1>5, <1>6, <1>7, <1>8, <1>9, <1>10, <1>11 DEF Client

\* The server and the connection move the transfer and the session only.
LEMMA OtherFields ==
  ASSUME CatalogAssumption, Fields, NEW c, NEW d, LinkUp \/ LinkDown(c, d) \/ Server
  PROVE  Fields'
<1>e. Total \in Nat \ {0} BY EmptyBundle
<1>f. ASSUME UNCHANGED <<setup, clientVars>>,
             transfer' \in {NoTransfer} \cup 0..(Total - 1),
             session' \in {"none", "pending", "welcomed"}
      PROVE  Fields'
  BY <1>f DEF Fields, clientVars
<1>t. transfer \in {NoTransfer} \cup 0..(Total - 1) /\ session \in {"none", "pending", "welcomed"}
  BY DEF Fields
<1>1. CASE LinkUp \/ LinkDown(c, d)
  BY <1>1, <1>f, <1>t DEF LinkUp, LinkDown, serverVars
<1>2. ASSUME NEW ok \in BOOLEAN, handle_server_gameplay_catalog_manifest_request(ok)
      PROVE  Fields'
  BY <1>2, <1>f, <1>t
  DEF handle_server_gameplay_catalog_manifest_request, ServerReads, serverVars
<1>3. ASSUME NEW ok \in BOOLEAN, handle_server_handshake(ok) PROVE Fields'
  <2>1. /\ UNCHANGED <<setup, clientVars, transfer>>
        /\ session' \in {session, "pending", "welcomed"}
    BY <1>3 DEF handle_server_handshake, ServerReads
  <2>q. QED BY <1>f, <1>t, <2>1
<1>4. CASE handle_server_gameplay_catalog_bundle_request
  <2>1. /\ UNCHANGED <<setup, clientVars, session>> /\ transfer' = 0
    BY <1>4 DEF handle_server_gameplay_catalog_bundle_request, ServerReads
  <2>q. QED BY <1>e, <1>f, <1>t, <2>1
<1>5. ASSUME NEW n \in 0..ChunksPerUpdate, NEW ok \in BOOLEAN,
             pump_gameplay_catalog_transfers(n, ok)
      PROVE  Fields'
  <2>1. /\ UNCHANGED <<setup, clientVars, session>> /\ transfer # NoTransfer
        /\ transfer' = IF transfer + n >= Total THEN NoTransfer ELSE transfer + n
    BY <1>5 DEF pump_gameplay_catalog_transfers, Advance
  <2>2. transfer \in Nat /\ n \in Nat BY <1>t, <1>e, <2>1 DEF CatalogAssumption
  <2>3. transfer' \in {NoTransfer} \cup 0..(Total - 1) BY <1>e, <2>1, <2>2
  <2>q. QED BY <1>f, <1>t, <2>1, <2>3
<1>6. CASE handle_server_disconnect
  BY <1>6, <1>f DEF handle_server_disconnect, ServerReads
<1>q. QED BY <1>1, <1>2, <1>3, <1>4, <1>5, <1>6 DEF Server

-----------------------------------------------------------------------------
(* The inductive invariant and the theorems.                               *)

IndInv == Inv /\ Fields

\* Nothing is on the way when the client starts to dial.
LEMMA InitHolds ==
  ASSUME CatalogAssumption, Init
  PROVE  IndInv
<1>1. /\ toServer = << >> /\ toClient = << >> /\ link = "dialing" /\ sync # "Ready"
      /\ handshook = FALSE /\ catalog \in Catalogs
  BY DEF Init
<1>2. \A T : ~Has(<< >>, T) /\ Once(<< >>, T) BY DEF Has, Once
<1>3. Queues BY <1>1 DEF Queues
<1>4. LinkInv BY <1>1 DEF LinkInv
<1>5. HandshakeInv BY <1>1, <1>2 DEF HandshakeInv
<1>6. ReadyInv BY <1>1 DEF ReadyInv
<1>7. Fields
  <2>1. << >> \in Seq(STRING) /\ Len(<< >>) = 0 /\ Total \in Nat \ {0} /\ Timeout \in Nat
    BY EmptyBundle
  <2>2. /\ setup \in Setups /\ sync \in {"Idle", "Connecting"} /\ error = "None"
        /\ elapsed = 0 /\ bundle = << >> /\ welcomed = FALSE
        /\ transfer = NoTransfer /\ session = "none"
    BY DEF Init
  <2>3. bundle \in Seq(STRING) /\ Len(bundle) <= Total /\ 1..Len(bundle) = {}
    BY <2>1, <2>2
  <2>4. elapsed \in 0..(Timeout + 1) /\ elapsed <= Timeout BY <2>1, <2>2
  <2>5. welcomed \in BOOLEAN BY <2>2
  <2>6. /\ error \in Errors /\ sync \in Settled \cup TimedStates
        /\ transfer \in {NoTransfer} \cup 0..(Total - 1)
        /\ session \in {"none", "pending", "welcomed"}
    BY <2>2 DEF Errors, Settled, TimedStates
  <2>q. QED BY <2>2, <2>3, <2>4, <2>5, <2>6 DEF Fields
<1>q. QED BY <1>1, <1>3, <1>4, <1>5, <1>6, <1>7 DEF IndInv, Inv, JoinInv

\* Every step, and stuttering, keeps the inductive invariant.
LEMMA StepKeeps ==
  ASSUME CatalogAssumption, IndInv, [Next]_vars
  PROVE  IndInv'
<1>0. Inv /\ Fields BY DEF IndInv
<1>1. CASE LinkUp
  BY <1>0, <1>1, LinkUpStep, OtherFields DEF IndInv
<1>2. ASSUME NEW c \in 0..Len(toClient), NEW d \in 0..Len(toServer), LinkDown(c, d)
      PROVE  IndInv'
  BY <1>0, <1>2, LinkDownStep, OtherFields DEF IndInv
<1>3. CASE Client
  <2>1. Fields' BY <1>0, <1>3, ClientFields
  <2>2. Inv'
    BY <1>0, <1>3, SilentStep, RequestStep, ContinueStep, ConnectedStep, ClientStep,
       WelcomeStep DEF Client
  <2>q. QED BY <2>1, <2>2 DEF IndInv
<1>4. CASE Server
  <2>1. Fields' BY <1>0, <1>4, OtherFields
  <2>2. transfer \in {NoTransfer} \cup 0..(Total - 1) BY <1>0 DEF Fields
  <2>3. Inv'
    BY <1>0, <1>4, <2>2, ServerStep, AnswerStep, PumpStep DEF Server
  <2>q. QED BY <2>1, <2>3 DEF IndInv
<1>5. CASE UNCHANGED vars
  BY <1>5 DEF IndInv, Inv, JoinInv, Queues, LinkInv, HandshakeInv, ReadyInv, Fields,
     vars, clientVars, serverVars
<1>q. QED BY <1>1, <1>2, <1>3, <1>4, <1>5 DEF Next

\* The invariant is an invariant.
LEMMA Invariance == Spec => []IndInv
<1>1. Init => IndInv BY InitHolds, CatalogAssumption
<1>2. IndInv /\ [Next]_vars => IndInv' BY StepKeeps, CatalogAssumption
<1>q. QED BY <1>1, <1>2, PTL DEF Spec

\* Every field has its type and the download buffer holds a prefix of the
\* server's bundle, whatever the bundle, the timeout and the pump's limit.
THEOREM TypeCorrect == Spec => []TypeOK
<1>1. ASSUME IndInv PROVE TypeOK
  <2>1. /\ Fields /\ Queues /\ link \in {"dialing", "up", "down"}
        /\ handshook \in BOOLEAN /\ catalog \in Catalogs
    BY <1>1 DEF IndInv, Inv, JoinInv, LinkInv, HandshakeInv
  <2>2. bundle = SubSeq(ServerBundle, 1, Len(bundle))
    <3>1. /\ ServerBundle \in Seq(STRING) /\ bundle \in Seq(STRING)
          /\ Len(bundle) \in 0..Len(ServerBundle)
          /\ \A k \in 1..Len(bundle) : bundle[k] = ServerBundle[k]
      BY <2>1, CatalogAssumption DEF CatalogAssumption, Fields, Total
    <3>q. QED BY <3>1
  <2>q. QED BY <2>1, <2>2 DEF TypeOK, Fields, Queues, TimedStates
<1>q. QED BY <1>1, Invariance, PTL

\* A client whose sync is Ready over a live connection holds a welcome and the
\* server's catalog, and the server holds its welcomed session (apply_welcome,
\* handle_server_handshake).
THEOREM ReadyHasJoined == Spec => []ReadyIsJoined
<1>1. IndInv => ReadyIsJoined
  BY DEF IndInv, Inv, JoinInv, ReadyInv, ReadyIsJoined
<1>q. QED BY <1>1, Invariance, PTL

\* A failed sync is never revived (fail_gameplay_catalog_sync).
THEOREM FailureStays == Spec => FailureIsFinal
<1>1. ASSUME sync = "Failed", [Next]_vars PROVE sync' = "Failed"
  <2>1. CASE Client
    BY <1>1, <2>1
    DEF Client, Timer, LoadCatalog, request_gameplay_catalog_bundle,
        continue_client_handshake, ClientConnected, Concludes, apply_welcome,
        handle_client_gameplay_catalog_manifest, ClientRefused,
        handle_client_gameplay_catalog_bundle_chunk, handle_client_disconnect,
        handle_client_gameplay_catalog_sync_error, fail_gameplay_catalog_sync
  <2>2. CASE Server
    BY <1>1, <2>2
    DEF Server, handle_server_gameplay_catalog_manifest_request, ServerReads,
        handle_server_gameplay_catalog_bundle_request, clientVars,
        pump_gameplay_catalog_transfers, handle_server_handshake,
        handle_server_disconnect
  <2>3. ASSUME NEW c, NEW d, LinkUp \/ LinkDown(c, d) PROVE sync' = "Failed"
    BY <1>1, <2>3 DEF LinkUp, LinkDown, clientVars
  <2>4. CASE UNCHANGED vars BY <1>1, <2>4 DEF vars, clientVars
  <2>q. QED BY <1>1, <2>1, <2>2, <2>3, <2>4 DEF Next
<1>2. [Next]_vars => [sync = "Failed" => sync' = "Failed"]_vars BY <1>1
<1>q. QED BY <1>2, PTL DEF Spec, FailureIsFinal

-----------------------------------------------------------------------------
(* The download.  Until it is over the client asks one thing at a time,    *)
(* first for the manifest and then for the bundle, and nothing but the     *)
(* answer is on its way: so the chunks in the queue are the ones that come *)
(* next, each in its place, and the server's offset is where they end.     *)

Replies == {"Manifest", "SyncError"}
Asking == {"Connecting", "FetchingManifest", "ManifestReady"}
Searching == Asking \cup {"Downloading"}
Honest == ClientMessages \ {[type |-> "SyncError", error |-> "InvalidBundle"]}

Alone ==
  /\ toClient \in Seq(Honest) /\ Once(toClient, {"Connected"})
  /\ link = "dialing" => sync \in {"Connecting", "Idle", "Failed"} /\ transfer = NoTransfer
  /\ sync \in Searching => ~handshook
  /\ sync # "Failed" => error = "None"

\* One request for the manifest, or the one answer to it.
Asked ==
  /\ sync \in Searching \ {"FetchingManifest"} =>
       ~Has(toServer, {"ManifestRequest"}) /\ ~Has(toClient, Replies)
  /\ sync = "FetchingManifest" =>
       /\ Once(toServer, {"ManifestRequest"}) /\ Once(toClient, Replies)
       /\ ~(Has(toServer, {"ManifestRequest"}) /\ Has(toClient, Replies))
  /\ sync \in Searching \ {"Connecting"} => ~Has(toClient, {"Connected"})
  /\ sync \in Asking =>
       /\ transfer = NoTransfer
       /\ ~Has(toServer, {"BundleRequest"}) /\ ~Has(toClient, {"Chunk"})

InLine(q, n) == \A k \in 1..Len(q) : q[k].type = "Disconnected" \/ q[k] = Chunk(n + k - 1)

\* Where the transfer is: not begun, under way, or all of it sent.
Flowing ==
  \/ /\ Has(toServer, {"BundleRequest"}) /\ transfer = NoTransfer
     /\ Len(bundle) = 0 /\ Len(toClient) = 0
  \/ /\ ~Has(toServer, {"BundleRequest"}) /\ transfer # NoTransfer
     /\ transfer = Len(bundle) + Len(toClient)
  \/ /\ ~Has(toServer, {"BundleRequest"}) /\ transfer = NoTransfer
     /\ Len(bundle) + Len(toClient) = Total

Transferred ==
  sync = "Downloading" =>
    /\ InLine(toClient, Len(bundle)) /\ Once(toServer, {"BundleRequest"})
    /\ link = "up" => Flowing

Stage == Alone /\ Asked /\ Transferred

\* Nothing of what is watched is added to the queues.
Hushed ==
  /\ Quieter(toClient, toClient', {"Connected"}) /\ Quieter(toClient, toClient', Replies)
  /\ Quieter(toClient, toClient', {"Chunk"})
  /\ Quieter(toServer, toServer', {"ManifestRequest"})
  /\ Quieter(toServer, toServer', {"BundleRequest"})

LEMMA HushedKeeps ==
  ASSUME Alone, Asked, Hushed, toClient' \in Seq(Honest),
         sync' = sync \/ sync' \notin Searching,
         sync' \in Searching => handshook' = handshook,
         sync' # "Failed" => error' \in {error, "None"} /\ sync # "Failed",
         transfer' \in {transfer, NoTransfer},
         link' = "dialing" => link = "dialing" /\ sync' \in {sync, "Failed"}
  PROVE  Alone' /\ Asked'
<1>1. Alone' BY DEF Alone, Hushed, Quieter, Searching, Asking
<1>2. CASE sync' \notin Searching BY <1>1, <1>2 DEF Asked, Searching, Asking
<1>3. CASE sync' = sync BY <1>1, <1>3 DEF Asked, Hushed, Quieter
<1>q. QED BY <1>1, <1>2, <1>3

\* A step that ends the search, or is taken after it.
LEMMA SearchOver ==
  ASSUME sync' \notin Searching, toClient' \in Seq(Honest), Once(toClient', {"Connected"}),
         sync' # "Failed" => error' = "None",
         link' = "dialing" => sync' \in {"Connecting", "Idle", "Failed"} /\ transfer' = NoTransfer
  PROVE  Stage'
  BY DEF Stage, Alone, Asked, Transferred, Searching, Asking

\* What is on its way to a client is of one of these kinds.
LEMMA Kinds ==
  ASSUME NEW m \in Honest
  PROVE  /\ m \in ClientMessages
         /\ m.type \in {"Connected", "Disconnected", "Chunk"} \cup Answers \cup Replies
         /\ m.type = "SyncError" => m.error # "InvalidBundle"
<1>1. m \in ClientMessages BY DEF Honest
<1>2. m.type \in {"Connected", "Disconnected", "Chunk"} \cup Answers \cup Replies
  BY <1>1 DEF ClientMessages, Msg, Chunk, Answers, Replies
<1>3. ASSUME m.type = "SyncError", m.error = "InvalidBundle" PROVE FALSE
  <2>1. m \in [type: {"SyncError"}, error: Errors]
    BY <1>1, <1>3 DEF ClientMessages, Msg, Chunk
  <2>2. m = [type |-> "SyncError", error |-> "InvalidBundle"] BY <1>3, <2>1
  <2>q. QED BY <2>2 DEF Honest
<1>q. QED BY <1>1, <1>2, <1>3

\* And these are honest.
LEMMA HonestMessages ==
  /\ \A t \in {"Connected", "Manifest", "Welcome", "Refused", "Disconnected"} :
       Msg(t) \in Honest
  /\ \A e \in Errors \ {"InvalidBundle"} : [type |-> "SyncError", error |-> e] \in Honest
  /\ \A k \in 0..(Total - 1) : Chunk(k) \in Honest
<1>1. \A t \in {"Connected", "Manifest", "Welcome", "Refused", "Disconnected"} :
        Msg(t) \in ClientMessages /\ Msg(t).type = t /\ t # "SyncError"
  BY Messages
<1>2. \A e \in Errors \ {"InvalidBundle"} :
        /\ [type |-> "SyncError", error |-> e] \in ClientMessages
        /\ [type |-> "SyncError", error |-> e].error # "InvalidBundle"
  BY Messages
<1>3. \A k \in 0..(Total - 1) : Chunk(k) \in ClientMessages /\ Chunk(k).type = "Chunk"
  BY Messages
<1>4. /\ [type |-> "SyncError", error |-> "InvalidBundle"].type = "SyncError"
      /\ [type |-> "SyncError", error |-> "InvalidBundle"].error = "InvalidBundle"
  OBVIOUS
<1>5. \A m \in ClientMessages :
        m.type # "SyncError" \/ m.error # "InvalidBundle" => m \in Honest
  BY <1>4 DEF Honest
<1>6. \A t \in {"Connected", "Manifest", "Welcome", "Refused", "Disconnected"} :
        Msg(t) \in Honest
  BY <1>1, <1>5
<1>7. \A e \in Errors \ {"InvalidBundle"} : [type |-> "SyncError", error |-> e] \in Honest
  BY <1>2, <1>5
<1>8. \A k \in 0..(Total - 1) : Chunk(k) \in Honest BY <1>3, <1>5
<1>q. QED BY <1>6, <1>7, <1>8

\* What the client reads from the head of its queue.
LEMMA ClientTakesMore ==
  ASSUME Inv, Alone, NEW t, ClientReads(t)
  PROVE  /\ toClient' \in Seq(Honest) /\ Once(toClient', {"Connected"})
         /\ Head(toClient) \in Honest /\ Head(toClient).type = t
         /\ Head(toClient) = toClient[1] /\ Len(toClient) \in Nat \ {0}
         /\ Len(toClient') = Len(toClient) - 1
         /\ \A k \in 1..Len(toClient') : toClient'[k] = toClient[k + 1]
         /\ link # "dialing" /\ link' = link /\ UNCHANGED <<transfer, session>>
         /\ \A T : Taken(toClient, toClient', t, T)
<1>1. toClient \in Seq(Honest) /\ toClient # << >> /\ toClient' = Tail(toClient)
      /\ Head(toClient).type = t
  BY DEF Alone, ClientReads
<1>2. /\ Tail(toClient) \in Seq(Honest) /\ Head(toClient) = toClient[1]
      /\ Len(toClient) \in Nat \ {0} /\ Len(Tail(toClient)) = Len(toClient) - 1
      /\ \A k \in 1..Len(Tail(toClient)) : Tail(toClient)[k] = toClient[k + 1]
  BY <1>1
<1>3. Head(toClient) \in Honest BY <1>1
<1>4. /\ link # "dialing" /\ link' = link /\ UNCHANGED <<transfer, session>>
      /\ \A T : Taken(toClient, toClient', t, T)
  BY ClientTakes
<1>5. Taken(toClient, toClient', t, {"Connected"}) BY <1>4
<1>6. Once(toClient', {"Connected"}) BY <1>5 DEF Taken, Alone
<1>q. QED BY <1>1, <1>2, <1>3, <1>4, <1>6

\* An answer to the handshake is not on the way to a client that still searches.
LEMMA NoAnswerYet ==
  ASSUME Inv, Alone, sync \in Searching
  PROVE  ~handshook /\ ~Has(toServer, {"Handshake"}) /\ ~Has(toClient, Answers)
  BY DEF Inv, JoinInv, HandshakeInv, Alone

\* The timer and the host's load: the queues stay as they are.
LEMMA SilentStage ==
  ASSUME Inv, Stage, Timer \/ LoadCatalog
  PROVE  Stage'
<1>1. /\ UNCHANGED <<toServer, toClient, link, handshook, transfer>>
      /\ \/ UNCHANGED <<sync, error, bundle>>
         \/ sync' = "Failed"
      /\ sync # "Failed" \/ sync' = "Failed"
  BY DEF Timer, LoadCatalog, fail_gameplay_catalog_sync, serverVars
<1>2. Hushed BY <1>1 DEF Hushed, Quieter
<1>3. toClient' \in Seq(Honest) BY <1>1 DEF Stage, Alone
<1>4. Alone' /\ Asked' BY <1>1, <1>2, <1>3, HushedKeeps DEF Stage, Searching, Asking
<1>5. Transferred' BY <1>1 DEF Stage, Transferred, InLine, Flowing, Chunk
<1>q. QED BY <1>4, <1>5 DEF Stage

\* The request for the bundle: the client's queue is empty but for a disconnect.
LEMMA RequestStage ==
  ASSUME CatalogAssumption, Inv, Stage, NEW ok \in BOOLEAN,
         request_gameplay_catalog_bundle(ok)
  PROVE  Stage'
<1>1. /\ toServer' = Put(toServer, Msg("BundleRequest"), ok)
      /\ UNCHANGED <<link, toClient, handshook, transfer>>
      /\ sync = "ManifestReady" /\ (ok => sync' = "Downloading" /\ bundle' = << >>)
      /\ (ok => error' = error) /\ (~ok => sync' = "Failed")
  BY DEF request_gameplay_catalog_bundle, fail_gameplay_catalog_sync, serverVars
<1>2. /\ toClient \in Seq(Honest) /\ Once(toClient, {"Connected"}) /\ link # "dialing"
      /\ error = "None" /\ sync \in Searching /\ sync \in Asking
  BY <1>1 DEF Stage, Alone, Searching, Asking
<1>3. CASE ~ok
  BY <1>1, <1>2, <1>3, SearchOver DEF Searching, Asking
<1>4. CASE ok
  <2>1. Msg("BundleRequest") \in ServerMessages /\ Msg("BundleRequest").type = "BundleRequest"
    BY Messages
  <2>2. /\ toServer' \in Seq(ServerMessages)
        /\ \A T : Given(toServer, toServer', "BundleRequest", T)
    BY <1>1, <2>1, ServerGiven
  <2>3. /\ Given(toServer, toServer', "BundleRequest", {"ManifestRequest"})
        /\ Given(toServer, toServer', "BundleRequest", {"BundleRequest"})
    BY <2>2
  <2>4. ~Has(toClient, Answers) /\ ~handshook BY <1>2, NoAnswerYet DEF Stage
  <2>5. /\ ~Has(toServer, {"ManifestRequest"}) /\ ~Has(toClient, Replies)
        /\ ~Has(toClient, {"Connected"}) /\ ~Has(toClient, {"Chunk"})
        /\ transfer = NoTransfer /\ ~Has(toServer, {"BundleRequest"})
    BY <1>1 DEF Stage, Asked, Searching, Asking
  <2>6. \A k \in 1..Len(toClient) : toClient[k].type = "Disconnected"
    <3> TAKE k \in 1..Len(toClient)
    <3>1. toClient[k] \in Honest BY <1>2
    <3>2. toClient[k].type \in {"Connected", "Disconnected", "Chunk"} \cup Answers \cup Replies
      BY <3>1, Kinds
    <3>3. toClient[k].type \notin {"Connected", "Chunk"} \cup Answers \cup Replies
      BY <2>4, <2>5 DEF Has
    <3>q. QED BY <3>2, <3>3
  <2>7. link = "up" => Len(toClient) = 0
    <3>1. SUFFICES ASSUME link = "up", Len(toClient) # 0 PROVE FALSE OBVIOUS
    <3>2. Len(toClient) \in Nat BY <1>2
    <3>3. 1 \in 1..Len(toClient) BY <3>1, <3>2
    <3>4. Has(toClient, {"Disconnected"}) BY <2>6, <3>3 DEF Has
    <3>q. QED BY <3>1, <3>4 DEF Inv, JoinInv, LinkInv
  <2>8. link = "up" => Has(toServer', {"BundleRequest"})
    <3>1. toServer \in Seq(ServerMessages) BY DEF Inv, JoinInv, Queues
    <3>2. link = "up" => toServer' = Append(toServer, Msg("BundleRequest"))
      BY <1>1, <1>4 DEF Put
    <3>3. \A m : m.type = "BundleRequest" => Has(Append(toServer, m), {"BundleRequest"})
      BY <3>1, AppendHas
    <3>q. QED BY <2>1, <3>2, <3>3
  <2>9. bundle' = << >> /\ Len(bundle') = 0 BY <1>1, <1>4
  <2>10. Alone' BY <1>1, <1>2, <1>4, <2>4 DEF Alone, Searching, Asking
  <2>11. Asked'
    BY <1>1, <1>4, <2>3, <2>5 DEF Asked, Searching, Asking, Given
  <2>12. Once(toServer', {"BundleRequest"})
    <3>1. Once(toServer, {"BundleRequest"}) BY <2>5 DEF Has, Once
    <3>q. QED BY <2>3, <2>5, <3>1 DEF Given
  <2>13. Transferred'
    <3>1. InLine(toClient, Len(bundle')) BY <2>6 DEF InLine
    <3>2. link = "up" => Flowing' BY <1>1, <2>5, <2>7, <2>8, <2>9 DEF Flowing
    <3>q. QED BY <1>1, <2>12, <3>1, <3>2 DEF Transferred, InLine, Chunk
  <2>q. QED BY <2>10, <2>11, <2>13 DEF Stage
<1>q. QED BY <1>3, <1>4

\* The connected event: the manifest is asked for by a client that waits for it.
LEMMA ConnectedStage ==
  ASSUME Inv, Fields, Stage, NEW ok \in BOOLEAN, ClientConnected(ok)
  PROVE  Stage'
<1>1. ClientReads("Connected") BY DEF ClientConnected
<1>2. /\ toClient' \in Seq(Honest) /\ Once(toClient', {"Connected"})
      /\ link # "dialing" /\ link' = link /\ transfer' = transfer
      /\ \A T : Taken(toClient, toClient', "Connected", T)
  BY <1>1, ClientTakesMore DEF Stage
<1>3. /\ Taken(toClient, toClient', "Connected", {"Connected"})
      /\ Taken(toClient, toClient', "Connected", Replies)
      /\ Taken(toClient, toClient', "Connected", {"Chunk"})
  BY <1>2
<1>4. CASE sync = "Connecting"
  <2>1. /\ toServer' = Put(toServer, Msg("ManifestRequest"), ok) /\ handshook' = handshook
        /\ ok => sync' = "FetchingManifest" /\ error' = error
        /\ ~ok => sync' = "Failed"
    BY <1>4 DEF ClientConnected, fail_gameplay_catalog_sync
  <2>2. CASE ~ok BY <1>2, <2>1, <2>2, SearchOver DEF Searching, Asking
  <2>3. CASE ok
    <3>1. /\ Msg("ManifestRequest") \in ServerMessages
          /\ Msg("ManifestRequest").type = "ManifestRequest"
      BY Messages
    <3>2. \A T : Given(toServer, toServer', "ManifestRequest", T)
      BY <2>1, <3>1, ServerGiven
    <3>3. /\ Given(toServer, toServer', "ManifestRequest", {"ManifestRequest"})
          /\ Given(toServer, toServer', "ManifestRequest", {"BundleRequest"})
      BY <3>2
    <3>4. /\ ~Has(toServer, {"ManifestRequest"}) /\ ~Has(toClient, Replies)
          /\ ~Has(toServer, {"BundleRequest"}) /\ ~Has(toClient, {"Chunk"})
          /\ transfer = NoTransfer /\ ~handshook /\ error = "None"
          /\ Once(toClient, {"Connected"})
      BY <1>4 DEF Stage, Asked, Alone, Searching, Asking
    <3>5. Once(toServer, {"ManifestRequest"}) /\ Once(toClient', Replies)
      BY <1>3, <3>4 DEF Has, Once, Taken
    <3>6. Alone' BY <1>2, <2>1, <2>3, <3>4 DEF Alone, Searching, Asking
    <3>7. Asked'
      BY <1>2, <1>3, <2>1, <2>3, <3>3, <3>4, <3>5
      DEF Asked, Searching, Asking, Taken, Given
    <3>8. Transferred' BY <2>1, <2>3 DEF Transferred
    <3>q. QED BY <3>6, <3>7, <3>8 DEF Stage
  <2>q. QED BY <2>2, <2>3
<1>5. CASE sync # "Connecting"
  <2>1. sync' = sync /\ error' = error BY <1>5 DEF ClientConnected
  <2>2. sync \notin Searching BY <1>3, <1>5 DEF Stage, Asked, Taken, Searching, Asking
  <2>q. QED BY <1>2, <2>1, <2>2, SearchOver DEF Stage, Alone
<1>q. QED BY <1>4, <1>5

\* The manifest: with it the conversation rests until the host asks for more.
LEMMA ManifestStage ==
  ASSUME Inv, Fields, Stage, handle_client_gameplay_catalog_manifest
  PROVE  Stage'
<1>1. /\ ClientReads("Manifest") /\ UNCHANGED <<toServer, handshook>>
      /\ \/ sync = "FetchingManifest" /\ sync' = "ManifestReady" /\ error' = error
         \/ sync' = "Failed"
  BY DEF handle_client_gameplay_catalog_manifest, fail_gameplay_catalog_sync
<1>2. /\ toClient' \in Seq(Honest) /\ Once(toClient', {"Connected"})
      /\ link # "dialing" /\ link' = link /\ transfer' = transfer
      /\ \A T : Taken(toClient, toClient', "Manifest", T)
  BY <1>1, ClientTakesMore DEF Stage
<1>3. CASE sync' = "Failed" BY <1>2, <1>3, SearchOver DEF Searching, Asking
<1>4. CASE sync = "FetchingManifest" /\ sync' = "ManifestReady" /\ error' = error
  <2>1. /\ Taken(toClient, toClient', "Manifest", {"Connected"})
        /\ Taken(toClient, toClient', "Manifest", Replies)
        /\ Taken(toClient, toClient', "Manifest", {"Chunk"})
    BY <1>2
  <2>2. Alone' BY <1>1, <1>2, <1>4 DEF Stage, Alone, Searching, Asking
  <2>3. Has(toClient, Replies) /\ ~Has(toClient', Replies)
    BY <1>4, <2>1 DEF Taken, Stage, Asked, Replies
  <2>4. Asked'
    BY <1>1, <1>2, <1>4, <2>1, <2>3 DEF Stage, Asked, Taken, Searching, Asking
  <2>5. Transferred' BY <1>4 DEF Transferred
  <2>q. QED BY <2>2, <2>4, <2>5 DEF Stage
<1>q. QED BY <1>1, <1>3, <1>4

\* The chunk at the head of a downloading client's queue is the one that comes
\* next: it is taken.
LEMMA NextChunk ==
  ASSUME CatalogAssumption, Inv, Fields, Stage, sync = "Downloading", ClientReads("Chunk")
  PROVE  Head(toClient) = Chunk(Len(bundle)) /\ Continues(Head(toClient))
<1>1. /\ Head(toClient) = toClient[1] /\ Len(toClient) \in Nat \ {0}
      /\ Head(toClient).type = "Chunk" /\ Head(toClient) \in Honest
  BY ClientTakesMore DEF Stage
<1>2. Len(bundle) \in Nat /\ 1 \in 1..Len(toClient) BY <1>1 DEF Fields
<1>3. toClient[1] = Chunk(Len(bundle) + 1 - 1)
  BY <1>1, <1>2 DEF Stage, Transferred, InLine
<1>4. Len(bundle) + 1 - 1 = Len(bundle) BY <1>2
<1>5. Head(toClient) = Chunk(Len(bundle)) BY <1>1, <1>3, <1>4
<1>6. Head(toClient).offset \in 0..(Total - 1) BY <1>1, Kinds, ChunkBytes
<1>7. Chunk(Len(bundle)).offset = Len(bundle) BY DEF Chunk
<1>8. Total \in Nat \ {0} BY EmptyBundle
<1>q. QED BY <1>2, <1>5, <1>6, <1>7, <1>8 DEF Continues

\* A chunk.
LEMMA ChunkStage ==
  ASSUME CatalogAssumption, Inv, Fields, Stage,
         handle_client_gameplay_catalog_bundle_chunk
  PROVE  Stage'
<1>1. /\ ClientReads("Chunk") /\ UNCHANGED <<toServer, handshook>>
      /\ \/ sync = "Downloading" /\ sync' = sync /\ error' = error
            /\ bundle' = Append(bundle, Head(toClient).bytes)
         \/ sync = "Downloading" /\ sync' = "BundleReady" /\ error' = error
         \/ sync' = "Failed"
  BY DEF handle_client_gameplay_catalog_bundle_chunk, fail_gameplay_catalog_sync
<1>2. /\ toClient' \in Seq(Honest) /\ Once(toClient', {"Connected"})
      /\ Len(toClient) \in Nat \ {0} /\ Len(toClient') = Len(toClient) - 1
      /\ \A k \in 1..Len(toClient') : toClient'[k] = toClient[k + 1]
      /\ link # "dialing" /\ link' = link /\ transfer' = transfer
      /\ \A T : Taken(toClient, toClient', "Chunk", T)
  BY <1>1, ClientTakesMore DEF Stage
<1>3. sync = "Downloading" => error = "None" BY DEF Stage, Alone
<1>4. CASE sync' \in {"BundleReady", "Failed"}
  BY <1>1, <1>2, <1>3, <1>4, SearchOver DEF Searching, Asking
<1>5. CASE /\ sync = "Downloading" /\ sync' = sync /\ error' = error
           /\ bundle' = Append(bundle, Head(toClient).bytes)
  <2>1. /\ Taken(toClient, toClient', "Chunk", {"Connected"})
        /\ Taken(toClient, toClient', "Chunk", Replies)
        /\ Taken(toClient, toClient', "Chunk", {"Chunk"})
    BY <1>2
  <2>2. Hushed BY <1>1, <2>1 DEF Hushed, Quieter, Taken
  <2>3. Alone' /\ Asked'
    BY <1>1, <1>2, <1>5, <2>2, HushedKeeps DEF Stage
  <2>4. Len(bundle) \in Nat /\ Len(bundle') = Len(bundle) + 1
    BY <1>5 DEF Fields
  <2>5. InLine(toClient', Len(bundle'))
    <3>1. SUFFICES ASSUME NEW k \in 1..Len(toClient')
                   PROVE  \/ toClient'[k].type = "Disconnected"
                          \/ toClient'[k] = Chunk(Len(bundle') + k - 1)
      BY DEF InLine
    <3>2. k + 1 \in 1..Len(toClient) BY <1>2
    <3>3. \/ toClient[k + 1].type = "Disconnected"
          \/ toClient[k + 1] = Chunk(Len(bundle) + (k + 1) - 1)
      BY <1>5, <3>2 DEF Stage, Transferred, InLine
    <3>4. Len(bundle) + (k + 1) - 1 = Len(bundle') + k - 1 BY <2>4
    <3>5. toClient'[k] = toClient[k + 1] BY <1>2
    <3>q. QED BY <3>3, <3>4, <3>5
  <2>6. link = "up" => Flowing'
    <3>1. SUFFICES ASSUME link = "up" PROVE Flowing' OBVIOUS
    <3>2. Flowing BY <1>5, <3>1 DEF Stage, Transferred
    <3>3. Len(bundle') + Len(toClient') = Len(bundle) + Len(toClient) BY <1>2, <2>4
    <3>4. Len(toClient) # 0 BY <1>2
    <3>q. QED BY <1>1, <1>2, <3>2, <3>3, <3>4 DEF Flowing
  <2>7. Once(toServer', {"BundleRequest"})
    BY <1>1, <1>5 DEF Stage, Transferred
  <2>8. Transferred' BY <1>2, <2>5, <2>6, <2>7 DEF Transferred
  <2>q. QED BY <2>3, <2>8 DEF Stage
<1>q. QED BY <1>1, <1>4, <1>5

\* The other events end the search, or find it over.
LEMMA EndingStage ==
  ASSUME Inv, Fields, Stage,
         \/ handle_client_gameplay_catalog_sync_error
         \/ \E playable \in BOOLEAN : apply_welcome(playable)
         \/ ClientRefused
         \/ handle_client_disconnect
  PROVE  Stage'
<1>1. PICK t \in {"SyncError", "Welcome", "Refused", "Disconnected"} :
        /\ ClientReads(t)
        /\ t \in Answers => sync' \in {sync, "Ready"}
        /\ t \notin Answers => sync' \in {"Failed", "Idle", "Ready"}
        /\ sync' # "Failed" => sync # "Failed" /\ error' \in {error, "None"}
  BY DEF handle_client_gameplay_catalog_sync_error, apply_welcome, ClientRefused,
         handle_client_disconnect, fail_gameplay_catalog_sync, Concludes, Answers
<1>2. /\ toClient' \in Seq(Honest) /\ Once(toClient', {"Connected"})
      /\ link # "dialing" /\ link' = link
      /\ \A T : Taken(toClient, toClient', t, T)
  BY <1>1, ClientTakesMore DEF Stage
<1>3. Taken(toClient, toClient', t, Answers) BY <1>2
<1>4. t \in Answers => sync \notin Searching
  BY <1>3, NoAnswerYet DEF Taken, Stage
<1>5. sync' \notin Searching BY <1>1, <1>4 DEF Searching, Asking
<1>6. sync' # "Failed" => error' = "None" BY <1>1 DEF Stage, Alone
<1>q. QED BY <1>2, <1>5, <1>6, SearchOver

\* The host goes on to the handshake: the search is over.
LEMMA ContinueStage ==
  ASSUME Inv, Stage, NEW ok \in BOOLEAN, continue_client_handshake(ok)
  PROVE  Stage'
<1>1. /\ UNCHANGED <<link, toClient>> /\ sync \in {"ManifestReady", "BundleReady"}
      /\ sync' \in {"Handshaking", "Failed"} /\ (sync' # "Failed" => error' = error)
  BY DEF continue_client_handshake, fail_gameplay_catalog_sync
<1>2. /\ toClient \in Seq(Honest) /\ Once(toClient, {"Connected"}) /\ link # "dialing"
      /\ error = "None"
  BY <1>1 DEF Stage, Alone
<1>q. QED BY <1>1, <1>2, SearchOver DEF Searching, Asking

\* The connection comes up, and goes down.
LEMMA LinkUpStage ==
  ASSUME Inv, Stage, LinkUp
  PROVE  Stage'
<1>1. /\ toServer' = << >> /\ toClient' = <<Msg("Connected")>> /\ link' = "up"
      /\ UNCHANGED <<sync, error, handshook, transfer>> /\ link = "dialing"
  BY DEF LinkUp, clientVars, serverVars, Inv, JoinInv, LinkInv
<1>2. Msg("Connected") \in Honest /\ Msg("Connected").type = "Connected"
  BY HonestMessages, Messages
<1>3. toClient' \in Seq(Honest) BY <1>1, <1>2
<1>4. \A T : ~Has(toServer', T) /\ Once(toServer', T) /\ Once(toClient', T)
           /\ (Has(toClient', T) => "Connected" \in T)
  BY <1>1, <1>2 DEF Has, Once
<1>5. ~Has(toClient', Replies) /\ ~Has(toClient', {"Chunk"}) BY <1>4 DEF Replies
<1>6. sync \in {"Connecting", "Idle", "Failed"} /\ transfer = NoTransfer
  BY <1>1 DEF Stage, Alone
<1>7. Alone' BY <1>1, <1>3, <1>4 DEF Stage, Alone
<1>8. Asked' BY <1>1, <1>4, <1>5, <1>6 DEF Asked, Searching, Asking
<1>9. Transferred' BY <1>1, <1>6 DEF Transferred
<1>q. QED BY <1>7, <1>8, <1>9 DEF Stage

LEMMA LinkDownStage ==
  ASSUME Inv, Stage, NEW c \in 0..Len(toClient), NEW d \in 0..Len(toServer), LinkDown(c, d)
  PROVE  Stage'
<1> DEFINE cut(q, n) == Append(SubSeq(q, 1, n), Msg("Disconnected"))
<1>1. /\ toClient' = cut(toClient, c)
      /\ toServer' = cut(toServer, d) \/ toServer' = << >>
      /\ link' = "down"
      /\ UNCHANGED <<sync, error, bundle, handshook, transfer>>
      /\ toServer \in Seq(ServerMessages) /\ toClient \in Seq(Honest)
  BY DEF LinkDown, clientVars, serverVars, Inv, JoinInv, Queues, Stage, Alone
<1>2. /\ Msg("Disconnected") \in Honest /\ Msg("Disconnected") \in ServerMessages
      /\ Msg("Disconnected").type = "Disconnected"
  BY HonestMessages, Messages
<1>3. ASSUME NEW S, NEW q \in Seq(S), NEW n \in 0..Len(q), Msg("Disconnected") \in S
      PROVE  /\ cut(q, n) \in Seq(S)
             /\ \A T : "Disconnected" \notin T => Quieter(q, cut(q, n), T)
  <2>1. SubSeq(q, 1, n) \in Seq(S)
        /\ \A T : Quieter(q, SubSeq(q, 1, n), T)
    BY CutHas DEF Quieter
  <2>2. \A T : "Disconnected" \notin T => Quieter(SubSeq(q, 1, n), cut(q, n), T)
    BY <1>2, <2>1, AppendHas DEF Quieter
  <2>q. QED BY <1>3, <2>1, <2>2 DEF Quieter
<1>4. \A T : Quieter(toServer, << >>, T) BY DEF Quieter, Has, Once
<1>5. toClient' \in Seq(Honest) BY <1>1, <1>2, <1>3
<1>6. \A T : "Disconnected" \notin T => Quieter(toServer, toServer', T)
                                     /\ Quieter(toClient, toClient', T)
  BY <1>1, <1>2, <1>3, <1>4
<1>7. Hushed BY <1>6 DEF Hushed, Replies
<1>8. Alone' /\ Asked'
  <2>1. sync' # "Failed" => error' \in {error, "None"} /\ sync # "Failed" BY <1>1
  <2>q. QED BY <1>1, <1>5, <1>7, <2>1, HushedKeeps DEF Stage
<1>9. ASSUME sync = "Downloading" PROVE InLine(toClient', Len(bundle))
  <2>1. InLine(toClient, Len(bundle)) BY <1>9 DEF Stage, Transferred
  <2>2. /\ Len(toClient') = c + 1 /\ c \in Nat /\ c <= Len(toClient)
        /\ Len(toClient) \in Nat
        /\ toClient'[c + 1] = Msg("Disconnected")
        /\ \A k \in 1..c : toClient'[k] = toClient[k]
    <3>1. /\ SubSeq(toClient, 1, c) \in Seq(Honest) /\ Len(SubSeq(toClient, 1, c)) = c
          /\ \A k \in 1..c : SubSeq(toClient, 1, c)[k] = toClient[k]
          /\ Len(toClient) \in Nat /\ c \in Nat /\ c <= Len(toClient)
      BY <1>1
    <3>q. QED BY <1>1, <1>2, <3>1
  <2>3. SUFFICES ASSUME NEW k \in 1..Len(toClient')
                 PROVE  \/ toClient'[k].type = "Disconnected"
                        \/ toClient'[k] = Chunk(Len(bundle) + k - 1)
    BY DEF InLine
  <2>4. CASE k = c + 1 BY <1>2, <2>2, <2>4
  <2>5. CASE k # c + 1
    <3>1. k \in 1..c /\ k \in 1..Len(toClient) BY <2>2, <2>5
    <3>q. QED BY <2>1, <2>2, <3>1 DEF InLine
  <2>q. QED BY <2>4, <2>5
<1>10. Transferred'
  <2>1. sync = "Downloading" => Once(toServer', {"BundleRequest"})
    BY <1>7 DEF Hushed, Quieter, Stage, Transferred
  <2>q. QED BY <1>1, <1>9, <2>1 DEF Transferred
<1>q. QED BY <1>8, <1>10 DEF Stage

-----------------------------------------------------------------------------
(* The server's part of the download.                                      *)

\* The request for the manifest is answered once.
LEMMA ManifestRequestStage ==
  ASSUME Inv, Fields, Stage, NEW ok \in BOOLEAN,
         handle_server_gameplay_catalog_manifest_request(ok)
  PROVE  Stage'
<1>1. PICK m \in {[type |-> "SyncError", error |-> "VersionMismatch"],
                  [type |-> "SyncError", error |-> "BundleUnavailable"],
                  Msg("Manifest")} :
        /\ ServerReads("ManifestRequest") /\ transfer' = transfer
        /\ toClient' = Put(toClient, m, ok)
  BY DEF handle_server_gameplay_catalog_manifest_request, serverVars
<1>2. m \in Honest /\ m \in ClientMessages /\ m.type \in Replies
  BY HonestMessages, Messages DEF Errors, Replies
<1>3. /\ link # "dialing" /\ UNCHANGED <<link, sync, handshook>>
      /\ \A T : Taken(toServer, toServer', "ManifestRequest", T)
  BY <1>1, ServerTakes
<1>4. error' = error /\ bundle' = bundle BY <1>1 DEF ServerReads, clientVars
<1>5. \A T : Given(toClient, toClient', m.type, T)
  BY <1>1, <1>2, ClientGiven
<1>6. toClient' \in Seq(Honest)
  <2>1. toClient \in Seq(Honest) BY DEF Stage, Alone
  <2>q. QED BY <1>1, <1>2, <2>1, PutHas
<1>7. /\ Taken(toServer, toServer', "ManifestRequest", {"ManifestRequest"})
      /\ Taken(toServer, toServer', "ManifestRequest", {"BundleRequest"})
      /\ Given(toClient, toClient', m.type, {"Connected"})
      /\ Given(toClient, toClient', m.type, Replies)
      /\ Given(toClient, toClient', m.type, {"Chunk"})
  BY <1>3, <1>5
<1>8. m.type \notin {"Connected"} /\ m.type \notin {"Chunk"} BY <1>2 DEF Replies
<1>9. Has(toServer, {"ManifestRequest"}) BY <1>7 DEF Taken
<1>10. sync \in Searching => sync = "FetchingManifest"
  BY <1>9 DEF Stage, Asked
<1>11. Alone' BY <1>1, <1>3, <1>4, <1>6, <1>7, <1>8 DEF Stage, Alone, Given
<1>12. Asked'
  <2>1. CASE sync = "FetchingManifest"
    <3>1. /\ Once(toServer, {"ManifestRequest"}) /\ ~Has(toClient, Replies)
          /\ Once(toClient, Replies) /\ ~Has(toClient, {"Connected"})
          /\ transfer = NoTransfer /\ ~Has(toServer, {"BundleRequest"})
          /\ ~Has(toClient, {"Chunk"})
      BY <1>9, <2>1 DEF Stage, Asked, Searching, Asking
    <3>q. QED BY <1>1, <1>3, <1>7, <1>8, <2>1, <3>1 DEF Asked, Taken, Given
  <2>2. CASE sync # "FetchingManifest"
    BY <1>3, <1>10, <2>2 DEF Asked, Searching, Asking
  <2>q. QED BY <2>1, <2>2
<1>13. Transferred' BY <1>3, <1>10 DEF Transferred, Searching
<1>q. QED BY <1>11, <1>12, <1>13 DEF Stage

\* The request for the bundle starts the transfer.
LEMMA BundleRequestStage ==
  ASSUME CatalogAssumption, Inv, Fields, Stage,
         handle_server_gameplay_catalog_bundle_request
  PROVE  Stage'
<1>1. /\ ServerReads("BundleRequest") /\ transfer' = 0 /\ toClient' = toClient
  BY DEF handle_server_gameplay_catalog_bundle_request
<1>2. /\ link # "dialing" /\ UNCHANGED <<link, sync, handshook, error, bundle>>
      /\ \A T : Taken(toServer, toServer', "BundleRequest", T)
  BY <1>1, ServerTakes DEF ServerReads, clientVars
<1>3. /\ Taken(toServer, toServer', "BundleRequest", {"ManifestRequest"})
      /\ Taken(toServer, toServer', "BundleRequest", {"BundleRequest"})
  BY <1>2
<1>4. sync \notin Asking BY <1>3 DEF Stage, Asked, Taken
<1>5. Alone' BY <1>1, <1>2 DEF Stage, Alone
<1>6. Asked' BY <1>1, <1>2, <1>3, <1>4 DEF Stage, Asked, Taken, Asking
<1>7. ASSUME sync = "Downloading"
      PROVE  Once(toServer', {"BundleRequest"}) /\ ~Has(toServer', {"BundleRequest"})
  BY <1>3, <1>7 DEF Stage, Transferred, Taken
<1>8. ASSUME sync = "Downloading", link = "up" PROVE Flowing'
  <2>1. Flowing /\ Has(toServer, {"BundleRequest"})
    BY <1>3, <1>8 DEF Stage, Transferred, Taken
  <2>2. Len(bundle) = 0 /\ Len(toClient) = 0 BY <2>1 DEF Flowing
  <2>3. transfer' # NoTransfer /\ transfer' = Len(bundle') + Len(toClient')
    BY <1>1, <1>2, <2>2 DEF NoTransfer
  <2>q. QED BY <1>7, <1>8, <2>3 DEF Flowing
<1>9. Transferred'
  BY <1>1, <1>2, <1>7, <1>8 DEF Stage, Transferred, InLine, Chunk
<1>q. QED BY <1>5, <1>6, <1>9 DEF Stage

LEMMA ConcatAt ==
  ASSUME NEW S, NEW q \in Seq(S), NEW r \in Seq(S)
  PROVE  /\ Len(q \o r) = Len(q) + Len(r)
         /\ \A k \in 1..Len(q) : (q \o r)[k] = q[k]
         /\ \A k \in (Len(q) + 1)..(Len(q) + Len(r)) : (q \o r)[k] = r[k - Len(q)]
  OBVIOUS

\* The pump puts the next chunks behind the ones on the way.
LEMMA PumpStage ==
  ASSUME CatalogAssumption, Inv, Fields, Stage,
         NEW n \in 0..ChunksPerUpdate, NEW ok \in BOOLEAN,
         pump_gameplay_catalog_transfers(n, ok)
  PROVE  Stage'
<1> DEFINE r == [k \in 1..n |-> Chunk(transfer + k - 1)]
<1>1. /\ UNCHANGED <<link, toServer, sync, error, bundle, handshook>>
      /\ toClient' = IF link = "up" THEN toClient \o r ELSE toClient
      /\ transfer # NoTransfer /\ transfer + n <= Total
      /\ transfer' = IF transfer + n >= Total THEN NoTransfer ELSE transfer + n
  BY DEF pump_gameplay_catalog_transfers, clientVars, Advance
<1>2. /\ transfer \in Nat /\ n \in Nat /\ Total \in Nat \ {0}
      /\ Len(bundle) \in Nat
  BY <1>1, EmptyBundle DEF CatalogAssumption, Fields
<1>3. \A k \in 1..n : transfer + k - 1 \in 0..(Total - 1) BY <1>1, <1>2
<1>4. /\ r \in Seq(Honest) /\ Len(r) = n
      /\ \A k \in 1..n : r[k].type = "Chunk" /\ r[k] = Chunk(transfer + k - 1)
  <2>1. \A k \in 1..n : Chunk(transfer + k - 1) \in Honest
                        /\ Chunk(transfer + k - 1).type = "Chunk"
    BY <1>3, HonestMessages, Messages
  <2>2. /\ r \in [1..n -> Honest]
        /\ \A k \in 1..n : r[k].type = "Chunk" /\ r[k] = Chunk(transfer + k - 1)
    BY <2>1
  <2> HIDE DEF r
  <2>3. r \in Seq(Honest) /\ Len(r) = n BY <2>2, <1>2
  <2>q. QED BY <2>2, <2>3
<1> HIDE DEF r
<1>5. toClient \in Seq(Honest) /\ Len(toClient) \in Nat BY DEF Stage, Alone
<1>6. /\ toClient \o r \in Seq(Honest)
      /\ \A T : "Chunk" \notin T => Quieter(toClient, toClient \o r, T)
  BY <1>4, <1>5, ConcatHas DEF Quieter
<1>7. /\ toClient' \in Seq(Honest)
      /\ \A T : "Chunk" \notin T => Quieter(toClient, toClient', T)
  BY <1>1, <1>5, <1>6 DEF Quieter
<1>8. Quieter(toClient, toClient', {"Connected"}) /\ Quieter(toClient, toClient', Replies)
  BY <1>7 DEF Replies
<1>9. sync \notin Asking /\ link # "dialing"
  BY <1>1 DEF Stage, Asked, Alone
<1>10. Alone' BY <1>1, <1>7, <1>8, <1>9 DEF Stage, Alone, Quieter
<1>11. Asked' BY <1>1, <1>8, <1>9 DEF Stage, Asked, Quieter, Asking
<1>12. ASSUME sync = "Downloading", link = "up"
       PROVE  InLine(toClient', Len(bundle)) /\ Flowing'
  <2>1. /\ ~Has(toServer, {"BundleRequest"}) /\ transfer = Len(bundle) + Len(toClient)
        /\ InLine(toClient, Len(bundle))
    BY <1>1, <1>12 DEF Stage, Transferred, Flowing
  <2>2. /\ Len(toClient') = Len(toClient) + n
        /\ \A k \in 1..Len(toClient) : toClient'[k] = toClient[k]
        /\ \A k \in (Len(toClient) + 1)..(Len(toClient) + n) :
             toClient'[k] = r[k - Len(toClient)]
    <3>1. toClient' = toClient \o r BY <1>1, <1>12
    <3>2. r \in Seq(Honest) /\ Len(r) = n BY <1>4
    <3>q. QED BY <1>2, <1>5, <3>1, <3>2, ConcatAt, ZenonT(30)
  <2>3. ASSUME NEW k \in 1..Len(toClient')
        PROVE  \/ toClient'[k].type = "Disconnected"
               \/ toClient'[k] = Chunk(Len(bundle) + k - 1)
    <3>1. CASE k <= Len(toClient)
      <4>1. k \in 1..Len(toClient) BY <1>5, <3>1
      <4>q. QED BY <2>1, <2>2, <4>1 DEF InLine
    <3>2. CASE ~(k <= Len(toClient))
      <4>1. /\ k \in (Len(toClient) + 1)..(Len(toClient) + n)
            /\ k - Len(toClient) \in 1..n
        BY <1>2, <1>5, <2>2, <3>2
      <4>2. transfer + (k - Len(toClient)) - 1 = Len(bundle) + k - 1
        BY <1>2, <1>5, <2>1
      <4>3. toClient'[k] = Chunk(transfer + (k - Len(toClient)) - 1)
        BY <1>4, <2>2, <4>1
      <4>q. QED BY <4>2, <4>3
    <3>q. QED BY <3>1, <3>2
  <2>4. InLine(toClient', Len(bundle)) BY <2>3 DEF InLine
  <2>5. Len(bundle) + Len(toClient') = transfer + n BY <1>2, <1>5, <2>1, <2>2
  <2>6. CASE transfer + n >= Total
    BY <1>1, <1>2, <2>1, <2>4, <2>5, <2>6 DEF Flowing
  <2>7. CASE ~(transfer + n >= Total)
    <3>1. transfer' = transfer + n /\ transfer + n # NoTransfer
      BY <1>1, <1>2, <2>7 DEF NoTransfer
    <3>q. QED BY <1>1, <2>1, <2>4, <2>5, <3>1 DEF Flowing
  <2>q. QED BY <2>6, <2>7
<1>13. ASSUME link # "up" PROVE toClient' = toClient BY <1>1, <1>13
<1>14. Transferred'
  BY <1>1, <1>12, <1>13 DEF Stage, Transferred, InLine, Chunk
<1>q. QED BY <1>10, <1>11, <1>14 DEF Stage

\* A handshake finds no client that searches; a disconnect clears the peer.
LEMMA PartingStage ==
  ASSUME Inv, Fields, Stage,
         (\E ok \in BOOLEAN : handle_server_handshake(ok)) \/ handle_server_disconnect
  PROVE  Stage'
<1>1. CASE \E ok \in BOOLEAN : handle_server_handshake(ok)
  <2>1. PICK ok \in BOOLEAN, t \in Answers :
          /\ ServerReads("Handshake") /\ toClient' = Put(toClient, Msg(t), ok)
          /\ transfer' = transfer
    BY <1>1 DEF handle_server_handshake, Answers
  <2>2. /\ Msg(t) \in Honest /\ Msg(t) \in ClientMessages /\ Msg(t).type = t
        /\ t # "Connected"
    BY HonestMessages, Messages DEF Answers
  <2>3. /\ link # "dialing" /\ UNCHANGED <<link, sync, handshook, error>>
        /\ \A T : Taken(toServer, toServer', "Handshake", T)
    BY <2>1, ServerTakes DEF ServerReads, clientVars
  <2>4. Taken(toServer, toServer', "Handshake", {"Handshake"}) BY <2>3
  <2>5. sync \notin Searching BY <2>4, NoAnswerYet DEF Taken, Stage
  <2>6. toClient' \in Seq(Honest)
    <3>1. toClient \in Seq(Honest) BY DEF Stage, Alone
    <3>q. QED BY <2>1, <2>2, <3>1, PutHas
  <2>7. \A T : Given(toClient, toClient', t, T) BY <2>1, <2>2, ClientGiven
  <2>8. Given(toClient, toClient', t, {"Connected"}) BY <2>7
  <2>9. Once(toClient', {"Connected"}) BY <2>2, <2>8 DEF Given, Stage, Alone
  <2>10. sync' # "Failed" => error' = "None" BY <2>3 DEF Stage, Alone
  <2>q. QED BY <2>3, <2>5, <2>6, <2>9, <2>10, SearchOver
<1>2. CASE handle_server_disconnect
  <2>1. ServerReads("Disconnected") /\ toClient' = toClient /\ transfer' = NoTransfer
    BY <1>2 DEF handle_server_disconnect
  <2>2. /\ link # "dialing" /\ UNCHANGED <<link, sync, handshook, error, bundle>>
        /\ \A T : Taken(toServer, toServer', "Disconnected", T)
    BY <2>1, ServerTakes DEF ServerReads, clientVars
  <2>3. /\ Taken(toServer, toServer', "Disconnected", {"ManifestRequest"})
        /\ Taken(toServer, toServer', "Disconnected", {"BundleRequest"})
        /\ Taken(toServer, toServer', "Disconnected", {"Disconnected"})
    BY <2>2
  <2>4. link # "up" BY <2>3 DEF Taken, Inv, JoinInv, LinkInv
  <2>5. Hushed BY <2>1, <2>3 DEF Hushed, Quieter, Taken
  <2>6. toClient' \in Seq(Honest) BY <2>1 DEF Stage, Alone
  <2>7. sync' # "Failed" => error' \in {error, "None"} /\ sync # "Failed" BY <2>2
  <2>8. Alone' /\ Asked'
    BY <2>1, <2>2, <2>5, <2>6, <2>7, HushedKeeps DEF Stage
  <2>9. Transferred'
    BY <2>1, <2>2, <2>4, <2>5
    DEF Stage, Transferred, InLine, Chunk, Hushed, Quieter
  <2>q. QED BY <2>8, <2>9 DEF Stage
<1>q. QED BY <1>1, <1>2

-----------------------------------------------------------------------------
LEMMA StageInit ==
  ASSUME Init
  PROVE  Stage
<1>1. /\ toServer = << >> /\ toClient = << >> /\ link = "dialing"
      /\ sync \in {"Connecting", "Idle"} /\ handshook = FALSE /\ error = "None"
      /\ transfer = NoTransfer
  BY DEF Init
<1>2. \A T : ~Has(<< >>, T) /\ Once(<< >>, T) BY DEF Has, Once
<1>3. << >> \in Seq(Honest) OBVIOUS
<1>4. Alone BY <1>1, <1>2, <1>3 DEF Alone
<1>5. Asked BY <1>1, <1>2 DEF Asked, Searching, Asking
<1>6. Transferred BY <1>1 DEF Transferred
<1>q. QED BY <1>4, <1>5, <1>6 DEF Stage

LEMMA StageKept ==
  ASSUME CatalogAssumption, IndInv, Stage, [Next]_vars
  PROVE  Stage'
<1>0. Inv /\ Fields BY DEF IndInv
<1>1. CASE LinkUp BY <1>0, <1>1, LinkUpStage
<1>2. CASE \E c \in 0..Len(toClient), d \in 0..Len(toServer) : LinkDown(c, d)
  BY <1>0, <1>2, LinkDownStage
<1>3. CASE Client
  BY <1>0, <1>3, SilentStage, RequestStage, ContinueStage, ConnectedStage, ManifestStage,
     ChunkStage, EndingStage DEF Client
<1>4. CASE Server
  BY <1>0, <1>4, ManifestRequestStage, BundleRequestStage, PumpStage, PartingStage
  DEF Server
<1>5. CASE UNCHANGED vars
  BY <1>5 DEF Stage, Alone, Asked, Transferred, InLine, Flowing, Chunk, vars, clientVars,
     serverVars
<1>q. QED BY <1>1, <1>2, <1>3, <1>4, <1>5 DEF Next

\* The step of a downloading client whose error changes takes no bad chunk.
LEMMA NoBadChunk ==
  ASSUME CatalogAssumption, IndInv, Stage, [Next]_vars, sync = "Downloading"
  PROVE  error' # "InvalidBundle"
<1>0. /\ Inv /\ Fields /\ error = "None" /\ sync \in Searching
      /\ ~Has(toClient, Replies)
  BY DEF IndInv, Stage, Alone, Asked, Searching, Asking
<1>1. CASE handle_client_gameplay_catalog_bundle_chunk
  <2>1. ClientReads("Chunk") BY <1>1 DEF handle_client_gameplay_catalog_bundle_chunk
  <2>2. Head(toClient) = Chunk(Len(bundle)) /\ Continues(Head(toClient))
    BY <1>0, <2>1, NextChunk
  <2>3. Len(Append(bundle, Head(toClient).bytes)) < Total
        \/ Append(bundle, Head(toClient).bytes) = ServerBundle
    <3>1. /\ ServerBundle \in Seq(STRING) /\ bundle \in Seq(STRING)
          /\ Len(bundle) \in Nat /\ Len(ServerBundle) \in Nat
          /\ Total = Len(ServerBundle) /\ Len(bundle) < Total
          /\ \A k \in 1..Len(bundle) : bundle[k] = ServerBundle[k]
      <4>1. Len(bundle) < Total
        BY <2>2 DEF Continues, Chunk
      <4>q. QED BY <1>0, <4>1 DEF CatalogAssumption, Fields, Total
    <3>2. Head(toClient).bytes = ServerBundle[Len(bundle) + 1] BY <2>2 DEF Chunk
    <3>3. ASSUME ~(Len(bundle) + 1 < Total)
          PROVE  Append(bundle, Head(toClient).bytes) = ServerBundle
      <4> DEFINE g == Append(bundle, Head(toClient).bytes)
      <4>1. Len(bundle) + 1 = Len(ServerBundle) BY <3>1, <3>3
      <4>2. ServerBundle[Len(bundle) + 1] \in STRING BY <3>1, <4>1
      <4>3. /\ g \in Seq(STRING) /\ Len(g) = Len(bundle) + 1
            /\ g[Len(bundle) + 1] = ServerBundle[Len(bundle) + 1]
            /\ \A k \in 1..Len(bundle) : g[k] = bundle[k]
        BY <3>1, <3>2, <4>2
      <4> HIDE DEF g
      <4>4. \A k \in 1..Len(g) : g[k] = ServerBundle[k]
        <5> TAKE k \in 1..Len(g)
        <5>1. k \in 1..Len(bundle) \/ k = Len(bundle) + 1 BY <3>1, <4>3
        <5>q. QED BY <3>1, <4>3, <5>1
      <4>5. g = ServerBundle BY <3>1, <4>1, <4>3, <4>4
      <4>q. QED BY <4>5 DEF g
    <3>4. Len(Append(bundle, Head(toClient).bytes)) = Len(bundle) + 1 BY <3>1
    <3>q. QED BY <3>3, <3>4
  <2>4. error' = error
    BY <1>1, <2>2, <2>3 DEF handle_client_gameplay_catalog_bundle_chunk
  <2>q. QED BY <1>0, <2>4
<1>2. CASE handle_client_gameplay_catalog_sync_error \/ handle_client_gameplay_catalog_manifest
  <2>1. PICK t \in Replies : ClientReads(t)
    BY <1>2 DEF handle_client_gameplay_catalog_sync_error, Replies,
       handle_client_gameplay_catalog_manifest
  <2>2. \A T : Taken(toClient, toClient', t, T) BY <1>0, <2>1, ClientTakes
  <2>3. Taken(toClient, toClient', t, Replies) BY <2>2
  <2>q. QED BY <1>0, <2>1, <2>3 DEF Taken
<1>3. CASE /\ Client
           /\ ~handle_client_gameplay_catalog_bundle_chunk
           /\ ~handle_client_gameplay_catalog_sync_error
           /\ ~handle_client_gameplay_catalog_manifest
  <2>1. error' \in {error, "None", "Timeout", "Transport", "Disconnected"}
    BY <1>3 DEF Client, Timer, LoadCatalog, request_gameplay_catalog_bundle,
       continue_client_handshake, ClientConnected, apply_welcome, ClientRefused,
       handle_client_disconnect, fail_gameplay_catalog_sync
  <2>q. QED BY <1>0, <2>1
<1>4. CASE Server \/ LinkUp \/ UNCHANGED vars
           \/ \E c \in 0..Len(toClient), d \in 0..Len(toServer) : LinkDown(c, d)
  <2>1. error' = error
    BY <1>4 DEF Server, LinkUp, LinkDown, vars, clientVars, ServerReads,
       handle_server_gameplay_catalog_manifest_request, pump_gameplay_catalog_transfers,
       handle_server_gameplay_catalog_bundle_request, handle_server_handshake,
       handle_server_disconnect
  <2>q. QED BY <1>0, <2>1
<1>q. QED BY <1>1, <1>2, <1>3, <1>4 DEF Next

\* A downloading client never refuses a chunk, for every bundle, pump limit and
\* pattern of failing Sends: what is on its way is what it needs next
\* (pump_gameplay_catalog_transfers, handle_client_gameplay_catalog_bundle_chunk).
THEOREM ChunksFit == Spec => NoChunkRefused
<1>1. Init => IndInv /\ Stage BY InitHolds, StageInit, CatalogAssumption
<1>2. IndInv /\ Stage /\ [Next]_vars => IndInv' /\ Stage'
  BY StepKeeps, StageKept, CatalogAssumption
<1>3. IndInv /\ Stage /\ [Next]_vars =>
        [sync = "Downloading" => error' # "InvalidBundle"]_vars
  BY NoBadChunk, CatalogAssumption
<1>q. QED BY <1>1, <1>2, <1>3, PTL DEF Spec, NoChunkRefused
=============================================================================
