------------------------------- MODULE CatalogSync -------------------------------
(***************************************************************************)
(* A client joins a server: the gameplay catalog is brought up to date     *)
(* over the session channel (manifest, bundle in chunks), then handshake   *)
(* and welcome.  The connection may come up late, drop at any time and     *)
(* refuse a Send; the sync timer runs in update(), beside all of it.       *)
(*                                                                         *)
(* The session channel is reliable and ordered: two queues, of what is in  *)
(* flight or waits to be polled, that a drop cuts short, each ended by the *)
(* disconnect event its reader will see.  Latency is the time a message    *)
(* stays in a queue while the timer of update() runs on.                   *)
(* The server keeps what it keeps per peer, so one client is enough.       *)
(***************************************************************************)
EXTENDS Integers, Sequences

CONSTANTS
  ServerBundle,   \* the bundle, as the sequence of its chunks' bytes
  ChunksPerUpdate,\* chunks a pump sends at most to a peer
  Timeout         \* updates a sync state may last (gameplay_catalog_sync_timeout_ms_)

ASSUME CatalogAssumption ==
  /\ ServerBundle \in Seq(STRING) /\ ServerBundle # << >>
  /\ ChunksPerUpdate \in Nat \ {0} /\ Timeout \in Nat

Total == Len(ServerBundle)
NoTransfer == -1

VARIABLES
  setup,     \* what both sides were started with, see Setups; never changes
  link,      \* "dialing", "up" or "down"
  toServer,  \* session messages and the disconnect on their way
  toClient,
  sync,      \* client: gameplay_catalog_sync_state_
  error,     \*         gameplay_catalog_sync_error_
  elapsed,   \*         gameplay_catalog_sync_elapsed_us_, in updates
  bundle,    \*         downloaded_gameplay_catalog_bundle_
  catalog,   \*         the loaded catalog: the server's ("current") or not
  handshook, \*         client_handshake_sent_
  welcomed,  \*         has_welcome_
  transfer,  \* server: chunks of the bundle already sent to the peer
  session    \*         "none", "pending" (a player, no welcome yet), "welcomed"

clientVars == <<sync, error, elapsed, bundle, catalog, handshook, welcomed>>
serverVars == <<transfer, session>>
vars == <<setup, link, toServer, toClient, clientVars, serverVars>>

\* sync: started with start_client_catalog_sync; versions: protocol and schema
\* versions agree; offered: the server has a bundle; fits: within the client's
\* size limit; cached: the host already has the bundle.
Setups == [sync: BOOLEAN, versions: BOOLEAN, offered: BOOLEAN, fits: BOOLEAN,
           cached: BOOLEAN]
Catalogs == {"current", "stale"}
Settled == {"Idle", "Ready", "Failed"}

\* Faulty variant: the timer's range of states stops one state early.
TimedButLast == {"Connecting", "FetchingManifest", "ManifestReady", "Downloading",
                 "BundleReady"}

\* The states the sync timer runs in: Connecting up to Handshaking.
TimedStates == {"Connecting", "FetchingManifest", "ManifestReady", "Downloading",
                "BundleReady", "Handshaking"}
Errors == {"None", "BundleUnavailable", "VersionMismatch", "InvalidManifest",
           "BundleTooLarge", "InvalidBundle", "Timeout", "Disconnected",
           "Transport"}

Msg(type) == [type |-> type]
Handshake == [type |-> "Handshake", catalog |-> catalog]
Chunk(k) == [type |-> "Chunk", offset |-> k, bytes |-> ServerBundle[k + 1]]

\* A Send that the transport accepts reaches the peer only over a live link.
Put(queue, m, ok) == IF ok /\ link = "up" THEN Append(queue, m) ELSE queue

Init ==
  /\ setup \in Setups
  /\ link = "dialing" /\ toServer = << >> /\ toClient = << >>
  /\ sync = IF setup.sync THEN "Connecting" ELSE "Idle"
  /\ error = "None" /\ elapsed = 0 /\ bundle = << >>
  /\ catalog \in Catalogs
  /\ handshook = FALSE /\ welcomed = FALSE
  /\ transfer = NoTransfer /\ session = "none"

-----------------------------------------------------------------------------
(* The connection.                                                         *)

LinkUp ==
  /\ link = "dialing" /\ link' = "up"
  /\ toClient' = <<Msg("Connected")>>
  /\ UNCHANGED <<setup, toServer, clientVars, serverVars>>

\* A dial that fails, or a drop: each side may still read some of what was on
\* its way, and then the disconnect.
LinkDown(c, s) ==
  /\ link # "down" /\ link' = "down"
  /\ c \in 0..Len(toClient) /\ s \in 0..Len(toServer)
  /\ toClient' = Append(SubSeq(toClient, 1, c), Msg("Disconnected"))
  /\ toServer' = IF link = "up" THEN Append(SubSeq(toServer, 1, s), Msg("Disconnected"))
                 ELSE << >>
  /\ UNCHANGED <<setup, clientVars, serverVars>>

-----------------------------------------------------------------------------
(* Client: the sync timer and the host's calls.                            *)

fail_gameplay_catalog_sync(e) ==
  sync' = "Failed" /\ error' = e /\ bundle' = << >>

\* Faulty variant: the limit is never reached.
NeverExpired == FALSE

Expired == elapsed + 1 > Timeout

\* update(): the timer of the running sync.
Timer ==
  /\ sync \in TimedStates
  /\ elapsed' = elapsed + 1
  /\ IF Expired THEN fail_gameplay_catalog_sync("Timeout")
     ELSE UNCHANGED <<sync, error, bundle>>
  /\ UNCHANGED <<setup, link, toServer, toClient, catalog, handshook, welcomed,
                 serverVars>>

request_gameplay_catalog_bundle(ok) ==
  /\ sync = "ManifestReady"
  /\ toServer' = Put(toServer, Msg("BundleRequest"), ok)
  /\ IF ok THEN sync' = "Downloading" /\ bundle' = << >> /\ elapsed' = 0
                /\ UNCHANGED error
     ELSE fail_gameplay_catalog_sync("Transport") /\ UNCHANGED elapsed
  /\ UNCHANGED <<setup, link, toClient, catalog, handshook, welcomed, serverVars>>

\* The host loads what it downloaded or had cached.
LoadCatalog ==
  /\ \/ sync = "BundleReady"
     \/ sync = "ManifestReady" /\ setup.cached
  /\ catalog' = "current"
  /\ UNCHANGED <<setup, link, toServer, toClient, sync, error, elapsed, bundle,
                 handshook, welcomed, serverVars>>

\* The handshake goes out once.
send_client_handshake(ok) ==
  /\ toServer' = IF handshook THEN toServer ELSE Put(toServer, Handshake, ok)
  /\ handshook' = (handshook \/ ok)

continue_client_handshake(ok) ==
  /\ sync \in {"ManifestReady", "BundleReady"} /\ catalog = "current"
  /\ send_client_handshake(ok)
  /\ IF handshook' THEN sync' = "Handshaking" /\ elapsed' = 0
                        /\ UNCHANGED <<error, bundle>>
     ELSE fail_gameplay_catalog_sync("Transport") /\ UNCHANGED elapsed
  /\ UNCHANGED <<setup, link, toClient, catalog, welcomed, serverVars>>

-----------------------------------------------------------------------------
(* Client: what poll_transport hands it.                                   *)

ClientReads(type) ==
  /\ toClient # << >> /\ Head(toClient).type = type
  /\ toClient' = Tail(toClient)
  /\ UNCHANGED <<setup, link, serverVars>>

ClientConnected(ok) ==
  /\ ClientReads("Connected")
  /\ IF sync = "Connecting"
     THEN /\ toServer' = Put(toServer, Msg("ManifestRequest"), ok)
          /\ IF ok THEN sync' = "FetchingManifest" /\ elapsed' = 0
                        /\ UNCHANGED <<error, bundle>>
             ELSE fail_gameplay_catalog_sync("Transport") /\ UNCHANGED elapsed
          /\ UNCHANGED handshook
     ELSE send_client_handshake(ok) /\ UNCHANGED <<sync, error, elapsed, bundle>>
  /\ UNCHANGED <<catalog, welcomed>>

handle_client_gameplay_catalog_manifest ==
  /\ ClientReads("Manifest")
  /\ IF sync = "FetchingManifest" /\ setup.fits
     THEN sync' = "ManifestReady" /\ elapsed' = 0 /\ UNCHANGED <<error, bundle>>
     ELSE /\ fail_gameplay_catalog_sync(IF setup.fits THEN "InvalidManifest"
                                        ELSE "BundleTooLarge")
          /\ UNCHANGED elapsed
  /\ UNCHANGED <<toServer, catalog, handshook, welcomed>>

\* The chunk continues what has been downloaded.
Continues(chunk) == chunk.offset = Len(bundle) /\ chunk.offset < Total

handle_client_gameplay_catalog_bundle_chunk ==
  LET chunk == Head(toClient)
      got == Append(bundle, chunk.bytes)
  IN /\ ClientReads("Chunk")
     /\ IF sync # "Downloading" \/ ~Continues(chunk)
        THEN fail_gameplay_catalog_sync("InvalidBundle") /\ UNCHANGED elapsed
        ELSE /\ elapsed' = 0
             /\ IF Len(got) < Total
                THEN bundle' = got /\ UNCHANGED <<sync, error>>
                ELSE IF got = ServerBundle
                THEN sync' = "BundleReady" /\ bundle' = got /\ UNCHANGED error
                ELSE fail_gameplay_catalog_sync("InvalidBundle")
     /\ UNCHANGED <<toServer, catalog, handshook, welcomed>>

handle_client_gameplay_catalog_sync_error ==
  /\ ClientReads("SyncError")
  /\ fail_gameplay_catalog_sync(Head(toClient).error)
  /\ UNCHANGED <<toServer, elapsed, catalog, handshook, welcomed>>

\* Faulty variants: the sync is over whatever the artifact, or in any state.
ConcludesUnplayable(playable) == sync = "Handshaking"
ConcludesLate(playable) == playable

\* The welcome concludes the sync that waits for it.
Concludes(playable) == playable /\ sync = "Handshaking"

\* playable: the collision artifact prediction needs could be loaded.
apply_welcome(playable) ==
  /\ ClientReads("Welcome")
  /\ welcomed' = playable
  /\ IF Concludes(playable)
     THEN sync' = "Ready" /\ error' = "None" /\ bundle' = << >>
     ELSE UNCHANGED <<sync, error, bundle>>
  /\ catalog' = IF playable THEN "current" ELSE catalog
  /\ UNCHANGED <<toServer, elapsed, handshook>>

\* The server refused the handshake.
ClientRefused ==
  /\ ClientReads("Refused")
  /\ welcomed' = FALSE
  /\ UNCHANGED <<toServer, sync, error, elapsed, bundle, catalog, handshook>>

handle_client_disconnect ==
  /\ ClientReads("Disconnected")
  /\ IF sync \in {"Idle", "Ready"} THEN UNCHANGED <<sync, error, bundle>>
     ELSE fail_gameplay_catalog_sync("Disconnected")
  /\ welcomed' = FALSE
  /\ UNCHANGED <<toServer, elapsed, catalog, handshook>>

-----------------------------------------------------------------------------
(* Server.                                                                 *)

ServerReads(type) ==
  /\ toServer # << >> /\ Head(toServer).type = type
  /\ toServer' = Tail(toServer)
  /\ UNCHANGED <<setup, link, clientVars>>

handle_server_gameplay_catalog_manifest_request(ok) ==
  /\ ServerReads("ManifestRequest")
  /\ toClient' = Put(toClient,
       IF ~setup.versions THEN [type |-> "SyncError", error |-> "VersionMismatch"]
       ELSE IF ~setup.offered THEN [type |-> "SyncError", error |-> "BundleUnavailable"]
       ELSE Msg("Manifest"), ok)
  /\ UNCHANGED serverVars

\* Only a manifest the server sent leads to a request, so the digest matches.
handle_server_gameplay_catalog_bundle_request ==
  /\ ServerReads("BundleRequest")
  /\ transfer' = 0
  /\ UNCHANGED <<toClient, session>>

\* Faulty variant: a chunk whose Send failed counts as sent.
SentOrNot(n, ok) == IF transfer + n < Total /\ ~ok THEN n + 1 ELSE n

\* How far a pump that sent n chunks and then met a Send that fails (or the end
\* of the bundle, or its limit) moves the transfer.
Advance(n, ok) == n

pump_gameplay_catalog_transfers(n, ok) ==
  /\ transfer # NoTransfer
  /\ n \in 0..ChunksPerUpdate /\ transfer + n <= Total
  /\ ok => n = ChunksPerUpdate \/ transfer + n = Total
  /\ toClient' = IF link = "up"
                 THEN toClient \o [k \in 1..n |-> Chunk(transfer + k - 1)]
                 ELSE toClient
  /\ LET sent == transfer + Advance(n, ok)
     IN transfer' = IF sent >= Total THEN NoTransfer ELSE sent
  /\ UNCHANGED <<setup, link, toServer, clientVars, session>>

\* A matching handshake gets a player, once, and a welcome.
handle_server_handshake(ok) ==
  /\ ServerReads("Handshake")
  /\ IF setup.versions /\ Head(toServer).catalog = "current"
     THEN /\ toClient' = Put(toClient, Msg("Welcome"), ok)
          /\ session' = IF ok THEN "welcomed"
                        ELSE IF session = "none" THEN "pending" ELSE session
     ELSE toClient' = Put(toClient, Msg("Refused"), ok) /\ UNCHANGED session
  /\ UNCHANGED transfer

handle_server_disconnect ==
  /\ ServerReads("Disconnected")
  /\ transfer' = NoTransfer /\ session' = "none"
  /\ UNCHANGED toClient

-----------------------------------------------------------------------------
Client ==
  \/ Timer
  \/ LoadCatalog
  \/ \E ok \in BOOLEAN : \/ request_gameplay_catalog_bundle(ok)
                         \/ continue_client_handshake(ok)
                         \/ ClientConnected(ok)
  \/ handle_client_gameplay_catalog_manifest
  \/ handle_client_gameplay_catalog_bundle_chunk
  \/ handle_client_gameplay_catalog_sync_error
  \/ \E playable \in BOOLEAN : apply_welcome(playable)
  \/ ClientRefused
  \/ handle_client_disconnect

Server ==
  \/ \E ok \in BOOLEAN : \/ handle_server_gameplay_catalog_manifest_request(ok)
                         \/ handle_server_handshake(ok)
  \/ handle_server_gameplay_catalog_bundle_request
  \/ \E n \in 0..ChunksPerUpdate, ok \in BOOLEAN :
       pump_gameplay_catalog_transfers(n, ok)
  \/ handle_server_disconnect

Next ==
  \/ LinkUp
  \/ \E c \in 0..Len(toClient), s \in 0..Len(toServer) : LinkDown(c, s)
  \/ Client
  \/ Server

\* The host keeps calling update(); nothing is asked of the network, of the
\* server or of the host's other calls.
Spec == Init /\ [][Next]_vars /\ WF_vars(Timer)

-----------------------------------------------------------------------------
(* Properties.                                                             *)

ClientMessages ==
  {Msg(t) : t \in {"Connected", "Manifest", "Welcome", "Refused", "Disconnected"}}
  \cup [type: {"SyncError"}, error: Errors]
  \cup {Chunk(k) : k \in 0..(Total - 1)}
ServerMessages ==
  {Msg(t) : t \in {"ManifestRequest", "BundleRequest", "Disconnected"}}
  \cup [type: {"Handshake"}, catalog: Catalogs]

\* Every field has its type, and nothing but the bundle's chunks, in order, is
\* ever in the download buffer (handle_client_gameplay_catalog_bundle_chunk).
TypeOK ==
  /\ setup \in Setups /\ link \in {"dialing", "up", "down"}
  /\ toServer \in Seq(ServerMessages) /\ toClient \in Seq(ClientMessages)
  /\ sync \in Settled \cup {"Connecting", "FetchingManifest", "ManifestReady",
                          "Downloading", "BundleReady", "Handshaking"}
  /\ error \in Errors /\ elapsed \in 0..(Timeout + 1)
  /\ Len(bundle) <= Total /\ bundle = SubSeq(ServerBundle, 1, Len(bundle))
  /\ catalog \in Catalogs /\ handshook \in BOOLEAN /\ welcomed \in BOOLEAN
  /\ transfer \in {NoTransfer} \cup 0..(Total - 1)
  /\ session \in {"none", "pending", "welcomed"}

\* A client that is downloading never has to refuse a chunk: whatever Sends the
\* server's pump meets, the chunks arrive without a gap or a repeat, since a
\* failed chunk is sent again from the same offset.
NoChunkRefused ==
  [][sync = "Downloading" => error' # "InvalidBundle"]_vars

\* A client whose sync is Ready holds a welcome and the server's catalog, and
\* the server holds a welcomed session for it, until the connection drops.
ReadyIsJoined ==
  sync = "Ready" /\ link = "up" =>
    welcomed /\ catalog = "current" /\ session = "welcomed"

\* A sync that has failed stays failed: no late manifest, chunk, welcome or
\* connection revives it after the host was told.
FailureIsFinal == [][sync = "Failed" => sync' = "Failed"]_vars

\* A sync never hangs: whatever is lost and whoever stops answering, the timer
\* brings it to an end.
SyncSettles == []<>(sync \in Settled)
=============================================================================
