----------------------------- MODULE WireFormat -----------------------------
(***************************************************************************)
(* The packets both sides exchange.  Encoder and decoder of a packet are   *)
(* written by hand, field by field, and nothing but their agreement holds  *)
(* them together: each definition below gives the widths the encoder       *)
(* writes and the widths the decoder asks for, the payload size the        *)
(* decoder checks, and what each side refuses in a record.                 *)
(*                                                                         *)
(* A layout is a sequence of widths in bytes.  Values are left out, except *)
(* those that decide the layout (counts, and the flags of a record) and    *)
(* those a side checks, which are named flaws.                             *)
(***************************************************************************)
EXTENDS Naturals, Sequences, SequencesExt, FiniteSets, FiniteSetsExt

CONSTANT MaxRecords   \* bound: records of a packet

ASSUME WireAssumption == MaxRecords \in Nat \ {0}

VARIABLES
  letter,      \* the message given to the encoder
  wire,      \* the packet on the way: a payload layout and its header
  verdict    \* what the decoder says: "none", "accepted", "refused"

wireVars == <<letter, wire, verdict>>

-----------------------------------------------------------------------------
(* PacketWriter and PacketReader *)

u8 == <<1>>
u16 == <<2>>
u32 == <<4>>
u64 == u32 \o u32
float == u32
vec3 == float \o float \o float
quat == vec3 \o float
text(n) == <<n>>
None == <<>>

Size(layout) ==
  MapThenSumSet(LAMBDA w : w * Cardinality({n \in DOMAIN layout : layout[n] = w}),
                Range(layout))

When(flag, flags, layout) == IF flag \in flags THEN layout ELSE None

\* Records of one layout, whatever they say.
Alike(layout) == [f \in {{}} |-> layout]

\* A packet that is one record of fixed size; what the decoder checks of its
\* values is in get.
Single(writes, reads, size, flaws) ==
  [header |-> writes, expects |-> reads, floor |-> size, exact |-> TRUE,
   least |-> 0, most |-> 0, put |-> Alike(None), get |-> Alike(None), refusesToWrite |-> {}, refusesToRead |-> flaws]

-----------------------------------------------------------------------------
(* Session packets *)

handshake ==
  LET fields == u32 \o u16 \o u16 \o u16 \o u32 \o u64 \o text(64) \o text(64)
  IN Single(fields, u32 \o u16 \o u16 \o u16 \o u32 \o u64 \o text(64) \o text(64),
            4 + 2 + 2 + 2 + 4 + 8 + 64 + 64, {})

welcome ==
  Single(u32 \o u32 \o u32 \o u32 \o u32 \o u32 \o u64 \o u32,
         u32 \o u32 \o u32 \o u32 \o u32 \o u32 \o u64 \o u32, 36, {"blocking mode"})

ping_pong ==
  Single(u32 \o u64 \o u64 \o u64 \o u64 \o u64,
         u32 \o u64 \o u64 \o u64 \o u64 \o u64, 44, {})

disconnect == Single(u32, u32, 4, {})

gameplay_catalog_manifest_request == Single(u16 \o u16 \o u16, u16 \o u16 \o u16, 6, {})

gameplay_catalog_manifest ==
  Single(u32 \o u64 \o u32 \o text(32) \o text(128) \o text(64),
         u32 \o u64 \o u32 \o text(32) \o text(128) \o text(64),
         4 + 8 + 4 + 32 + 128 + 64, {})

gameplay_catalog_bundle_request == Single(text(32), text(32), 32, {})

gameplay_catalog_sync_error == Single(u32, u32, 4, {"error code"})

-----------------------------------------------------------------------------
(* Single gameplay packets *)

player_input ==
  Single(u32 \o u32 \o u64 \o float \o float \o float \o float \o float \o u32 \o u8
           \o u32 \o u16 \o u8 \o u8 \o u32 \o u8 \o u8 \o u16,
         u32 \o u32 \o u64 \o float \o float \o float \o float \o float \o u32 \o u8
           \o u32 \o u16 \o u8 \o u8 \o u32 \o u8 \o u8 \o u16, 57, {})

reliable_event ==
  Single(u16 \o u32 \o u32 \o u32 \o u32 \o u64 \o u64,
         u16 \o u32 \o u32 \o u32 \o u32 \o u64 \o u64, 34, {})

entity_spawn ==
  Single(u32 \o u16 \o u16 \o u32 \o u32 \o u32 \o vec3 \o quat \o u32 \o u32 \o u32
           \o u64 \o u8 \o u32 \o u32,
         u32 \o u16 \o u16 \o u32 \o u32 \o u32 \o vec3 \o quat \o u32 \o u32 \o u32
           \o u64 \o u8 \o u32 \o u32, 77, {"world mode"})

entity_despawn == Single(u32 \o u32 \o u32, u32 \o u32 \o u32, 12, {})

entity_template_update == Single(u32 \o u32 \o u32, u32 \o u32 \o u32, 12, {})

agent_command ==
  Single(u64 \o u32 \o u32 \o u16 \o u8 \o u8 \o float \o float \o float,
         u64 \o u32 \o u32 \o u16 \o u8 \o u8 \o float \o float \o float, 32, {})

agent_command_outcome ==
  Single(u64 \o u32 \o u8 \o u8 \o u16, u64 \o u32 \o u8 \o u8 \o u16, 16, {})

gameplay_request ==
  Single(u32 \o u64 \o u32 \o u8 \o u8 \o u16 \o u64 \o u32 \o u32
           \o float \o float \o float \o float \o float \o float,
         u32 \o u64 \o u32 \o u8 \o u8 \o u16 \o u64 \o u32 \o u32
           \o float \o float \o float \o float \o float \o float, 60, {})

gameplay_request_outcome ==
  Single(u32 \o u64 \o u8 \o u8 \o u8 \o u8 \o u64 \o u32 \o u32,
         u32 \o u64 \o u8 \o u8 \o u8 \o u8 \o u64 \o u32 \o u32, 32, {})

inventory_snapshot_request ==
  [Single(u64 \o u64, u64 \o u64, 16, {"no container"})
     EXCEPT !.refusesToWrite = {"no container"}]

inventory_container_closed ==
  [Single(u64, u64, 8, {"no container"}) EXCEPT !.refusesToWrite = {"no container"}]

-----------------------------------------------------------------------------
(* Batches: a header that ends in a count, then as many records *)

\* A run of projectiles of one template opens with the template and a count.
projectile_spawn_batch ==
  LET record(f) == When("opens", f, u32 \o u32)
                     \o u32 \o u32 \o u32 \o u32 \o u16 \o u8 \o u8 \o vec3 \o vec3
  IN [header |-> u32 \o u64 \o u64 \o u32, expects |-> u32 \o u64 \o u64 \o u32,
      floor |-> 24, exact |-> FALSE, least |-> 0, most |-> 2^16 - 1,
      put |-> [f \in SUBSET {"opens"} |-> record(f)],
      get |-> [f \in SUBSET {"opens"} |-> record(f)],
      refusesToWrite |-> {}, refusesToRead |-> {}]

local_action_result_batch ==
  [header |-> u32 \o u16 \o u16, expects |-> u32 \o u16 \o u16,
   floor |-> 8, exact |-> TRUE, least |-> 0, most |-> 2^16 - 1,
   put |-> Alike(u32 \o u16 \o u8 \o u8 \o u32),
   get |-> Alike(u32 \o u16 \o u8 \o u8 \o u32),
   refusesToWrite |-> {}, refusesToRead |-> {"no instance", "result"}]

\* A status event and an action event fill the record differently; the decoder
\* refuses a record that mixes them.
remote_action_presentation_batch ==
  [header |-> u32 \o u16 \o u16, expects |-> u32 \o u16 \o u16,
   floor |-> 8, exact |-> TRUE, least |-> 0, most |-> 2^16 - 1,
   put |-> Alike(u32 \o u32 \o u32 \o u16 \o u16 \o u8 \o u8 \o u16 \o u32 \o u32
                   \o u16 \o u16),
   get |-> Alike(u32 \o u32 \o u32 \o u16 \o u16 \o u8 \o u8 \o u16 \o u32 \o u32
                   \o u16 \o u16),
   refusesToWrite |-> {"stack"},
   refusesToRead |-> {"stack", "no actor", "no commit", "event", "mixed"}]

status_effect_state ==
  [header |-> u32 \o u32 \o u32 \o u16 \o u16, expects |-> u32 \o u32 \o u32 \o u16 \o u16,
   floor |-> 16, exact |-> TRUE, least |-> 0, most |-> 32,
   put |-> Alike(u32 \o u32 \o u32 \o u32 \o u32 \o u16 \o u16),
   get |-> Alike(u32 \o u32 \o u32 \o u32 \o u32 \o u16 \o u16),
   refusesToWrite |-> {"no target", "no id", "stack", "expired"},
   refusesToRead |-> {"no target", "no id", "stack", "expired", "repeated"}]

\* The body is bytes; a record stands for one.
game_message ==
  [header |-> u32 \o u32, expects |-> u32 \o u32,
   floor |-> 8, exact |-> TRUE, least |-> 0, most |-> 512,
   put |-> Alike(u8), get |-> Alike(u8),
   refusesToWrite |-> {}, refusesToRead |-> {}]

gameplay_catalog_bundle_chunk ==
  [header |-> text(32) \o u32 \o u32 \o u32, expects |-> text(32) \o u32 \o u32 \o u32,
   floor |-> 44, exact |-> TRUE, least |-> 0, most |-> 32 * 1024,
   put |-> Alike(u8), get |-> Alike(u8),
   refusesToWrite |-> {}, refusesToRead |-> {}]

ItemFields == {"quantity", "cooldown", "portable", "tag"}

\* write_wire_item and read_wire_item; the state is a count and its values,
\* of which there are two here.
wire_item(whole, f) ==
  u64 \o (IF whole THEN u32 ELSE None) \o When("quantity", f, u32)
      \o When("cooldown", f, u32) \o When("portable", f, u8 \o u32 \o u32)
      \o When("tag", f, u8)

\* An Add carries the whole item, an Update what changed, the rest only the id.
inventory_delta_batch ==
  LET variants == {{}, {"add"}} \cup {{"update"} \cup f : f \in SUBSET ItemFields}
      record(f) == u8 \o u16 \o u16 \o u16
                     \o (IF "add" \in f THEN wire_item(TRUE, ItemFields)
                         ELSE IF "update" \in f THEN wire_item(FALSE, f)
                         ELSE u64)
  IN [header |-> u64 \o u64 \o u16, expects |-> u64 \o u64 \o u16,
      floor |-> 18, exact |-> FALSE, least |-> 1, most |-> 2^16 - 1,
      put |-> [f \in variants |-> record(f)],
      get |-> [f \in variants |-> record(f)],
      refusesToWrite |-> {"no container", "type", "item"},
      refusesToRead |-> {"no container", "type", "item"}]

inventory_snapshot_page ==
  [header |-> u64 \o u32 \o u64 \o u32 \o u16 \o u16 \o u8 \o u16,
   expects |-> u64 \o u32 \o u64 \o u32 \o u16 \o u16 \o u8 \o u16,
   floor |-> 31, exact |-> FALSE, least |-> 0, most |-> 2^16 - 1,
   put |-> Alike(u16 \o wire_item(TRUE, ItemFields)),
   get |-> Alike(u16 \o wire_item(TRUE, ItemFields)),
   refusesToWrite |-> {"no container", "page", "slot", "item"},
   refusesToRead |-> {"no container", "page", "slot", "item", "kind"}]

locomotion_step_batch ==
  [header |-> u32 \o u16, expects |-> u32 \o u16,
   floor |-> 6, exact |-> FALSE, least |-> 1, most |-> 2^16 - 1,
   put |-> Alike(u32 \o u8 \o u8 \o float \o float \o float),
   get |-> Alike(u32 \o u8 \o u8 \o float \o float \o float),
   refusesToWrite |-> {"no entity", "leg", "not finite"},
   refusesToRead |-> {"no entity", "leg", "not finite"}]

PropFields == {"mode", "transform", "velocity", "health"}

prop_state_change_batch ==
  LET record(f) == u32 \o u8 \o When("mode", f, u8 \o u32)
                     \o When("transform", f, vec3 \o quat)
                     \o When("velocity", f, vec3) \o When("health", f, u16 \o u16)
  IN [header |-> u32 \o u16, expects |-> u32 \o u16,
      floor |-> 6, exact |-> FALSE, least |-> 1, most |-> 2^16 - 1,
      put |-> [f \in (SUBSET PropFields) \ {{}} |-> record(f)],
      get |-> [f \in (SUBSET PropFields) \ {{}} |-> record(f)],
      refusesToWrite |-> {"no entity", "nothing", "health"},
      refusesToRead |-> {"no entity", "nothing", "health", "world mode"}]

actor_impulse_batch ==
  [header |-> u32 \o u16, expects |-> u32 \o u16,
   floor |-> 6, exact |-> FALSE, least |-> 1, most |-> 2^16 - 1,
   put |-> Alike(u32 \o vec3 \o vec3 \o float \o float \o u16 \o u8),
   get |-> Alike(u32 \o vec3 \o vec3 \o float \o float \o u16 \o u8),
   refusesToWrite |-> {"no entity", "no lockout", "not finite", "flags"},
   refusesToRead |-> {"no entity", "no lockout", "not finite", "flags"}]

actor_teleport_batch ==
  [header |-> u32 \o u16, expects |-> u32 \o u16,
   floor |-> 6, exact |-> FALSE, least |-> 1, most |-> 2^16 - 1,
   put |-> Alike(u32 \o u32 \o u32), get |-> Alike(u32 \o u32 \o u32),
   refusesToWrite |-> {"no entity", "no portal"},
   refusesToRead |-> {"no entity", "no portal"}]

Packets ==
  [handshake |-> handshake, welcome |-> welcome, ping_pong |-> ping_pong,
   disconnect |-> disconnect,
   gameplay_catalog_manifest_request |-> gameplay_catalog_manifest_request,
   gameplay_catalog_manifest |-> gameplay_catalog_manifest,
   gameplay_catalog_bundle_request |-> gameplay_catalog_bundle_request,
   gameplay_catalog_bundle_chunk |-> gameplay_catalog_bundle_chunk,
   gameplay_catalog_sync_error |-> gameplay_catalog_sync_error,
   player_input |-> player_input, reliable_event |-> reliable_event,
   entity_spawn |-> entity_spawn, entity_despawn |-> entity_despawn,
   entity_template_update |-> entity_template_update,
   agent_command |-> agent_command, agent_command_outcome |-> agent_command_outcome,
   gameplay_request |-> gameplay_request,
   gameplay_request_outcome |-> gameplay_request_outcome,
   inventory_snapshot_request |-> inventory_snapshot_request,
   inventory_container_closed |-> inventory_container_closed,
   projectile_spawn_batch |-> projectile_spawn_batch,
   local_action_result_batch |-> local_action_result_batch,
   remote_action_presentation_batch |-> remote_action_presentation_batch,
   status_effect_state |-> status_effect_state, game_message |-> game_message,
   inventory_delta_batch |-> inventory_delta_batch,
   inventory_snapshot_page |-> inventory_snapshot_page,
   locomotion_step_batch |-> locomotion_step_batch,
   prop_state_change_batch |-> prop_state_change_batch,
   actor_impulse_batch |-> actor_impulse_batch,
   actor_teleport_batch |-> actor_teleport_batch]

Kinds == DOMAIN Packets

-----------------------------------------------------------------------------
(* A packet on its way: encode_*, wrap_packet, unwrap_packet, decode_* *)

\* What a single packet or an Alike batch holds is one variant.
Variants(k) == DOMAIN Packets[k].put
\* The records of one template stand together behind their group's header.
InGroups(k, records) ==
  records # <<>> /\ {"opens"} \in Variants(k) => "opens" \in records[1]
Bodies(k) ==
  IF Packets[k].most = 0 THEN {<<>>}
  ELSE {r \in BoundedSeq(Variants(k), MaxRecords) : InGroups(k, r)}

Written(k, records) ==
  FoldLeft(LAMBDA l, f : l \o Packets[k].put[f], Packets[k].header, records)
Read(k, records) ==
  FoldLeft(LAMBDA l, f : l \o Packets[k].get[f], Packets[k].expects, records)

Flaws(k) == {"none"} \cup Packets[k].refusesToWrite \cup Packets[k].refusesToRead

\* What can happen to a packet before its decoder sees it; a header that names
\* another type is one handed to the wrong decoder.
Damages == {"none", "cut", "padded", "flipped", "other version", "other type", "no header"}

Nothing == [kind |-> "none", records |-> <<>>, flaw |-> "none"]
NoPacket == [payload |-> <<>>, damage |-> "none"]

Encode ==
  /\ letter = Nothing
  /\ \E k \in Kinds : \E r \in Bodies(k), flaw \in Flaws(k) :
       /\ letter' = [kind |-> k, records |-> r, flaw |-> flaw]
       /\ IF \/ flaw \in Packets[k].refusesToWrite
             \/ Len(r) < Packets[k].least \/ Len(r) > Packets[k].most
          THEN wire' = NoPacket /\ verdict' = "not sent"
          ELSE wire' = [payload |-> Written(k, r), damage |-> "none"] /\ verdict' = "none"

Damage ==
  /\ verdict = "none" /\ wire.damage = "none" /\ letter # Nothing
  /\ \E d \in Damages \ {"none"} : wire' = [wire EXCEPT !.damage = d]
  /\ UNCHANGED <<letter, verdict>>

\* unwrap_packet: the header is whole, of this build and this type, and it has
\* the payload's length and checksum.
unwrap_packet(packet) == packet.damage = "none"

\* The decoder's own checks of the payload: its length, that no field is asked
\* for past the end, and that nothing is left.
Fits(k, packet, records) ==
  LET size == Size(packet.payload)
      asked == Size(Read(k, records))
  IN /\ size >= Packets[k].floor
     /\ Packets[k].exact => size = Packets[k].floor + asked - Size(Packets[k].expects)
     /\ asked = size

Decode ==
  /\ verdict = "none" /\ letter # Nothing
  /\ verdict' = IF /\ unwrap_packet(wire)
                   /\ Fits(letter.kind, wire, letter.records)
                   /\ letter.flaw \notin Packets[letter.kind].refusesToRead
                THEN "accepted" ELSE "refused"
  /\ UNCHANGED <<letter, wire>>

WireInit == letter = Nothing /\ wire = NoPacket /\ verdict = "none"
WireNext == Encode \/ Damage \/ Decode
WireSpec == WireInit /\ [][WireNext]_wireVars

-----------------------------------------------------------------------------
(* Properties *)

WireTypeOK ==
  /\ letter # Nothing => letter.kind \in Kinds /\ Len(letter.records) <= MaxRecords
  /\ wire.damage \in Damages
  /\ verdict \in {"none", "accepted", "refused", "not sent"}

\* What an encoder was given whole and the network did not touch is read back
\* field by field as it was written, and everything else is turned away: a
\* layout or a size constant changed on one side only would lose every packet
\* of that kind, or read fields from each other's bytes (encode_* and decode_*
\* of session_packets.cc and network_packets.cc).
WireAgrees ==
  /\ verdict = "accepted" =>
       /\ wire.damage = "none" /\ letter.flaw = "none"
       /\ Read(letter.kind, letter.records) = wire.payload
  /\ verdict = "refused" => wire.damage # "none" \/ letter.flaw # "none"
=============================================================================
