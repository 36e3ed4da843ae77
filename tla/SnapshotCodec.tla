---------------------------- MODULE SnapshotCodec ----------------------------
(***************************************************************************)
(* The snapshot of one interval on its way to one session: a send set      *)
(* within a byte budget, split over several packets, each encoded on its   *)
(* own with whatever lock records ride the first, and read back.  Sizes    *)
(* are the real ones, in bytes; an entity is its type and the set of       *)
(* optional parts its record has.                                          *)
(***************************************************************************)
EXTENDS WireFormat

CONSTANTS
  Sights,        \* what the session may be shown: sequences of entities, its player first
  LockLoads,     \* the lock records of an interval: [missiles, strikes]
  SendBudget,    \* kSnapshotSendBudgetBytes
  MaxPackets     \* kSnapshotMaxPacketsPerInterval

ASSUME CodecAssumption == SendBudget \in Nat /\ MaxPackets \in Nat \ {0}

VARIABLES
  sendSet,   \* the entities of the interval
  locks,     \* its lock records
  parts,     \* what is still to be sent: sequence of sequences of entities
  sizes,     \* the sizes of the packets sent
  read,      \* what the client has decoded of them
  lost       \* packets the decoder turned away

codecVars == <<sendSet, locks, parts, sizes, read, lost>>

-----------------------------------------------------------------------------
(* Which record an entity gets *)

PlayerParts == {"health", "timeline", "movement", "weapon", "lockout", "recovering",
                "shelter", "held", "suspension", "hover"}

\* The parts that keep an actor out of the agent section.
OwnParts == {"movement", "weapon", "lockout", "suspension", "hover", "shelter"}

snapshot_section_type(e) ==
  CASE e.type = "player" -> "actor"
    [] e.type = "agent" -> IF e.has \cap OwnParts = {} THEN "agent" ELSE "actor"
    [] e.type = "projectile" -> IF "hybrid" \in e.has THEN "hybrid"
                                ELSE IF "beam" \in e.has THEN "beam" ELSE "compact"
    [] e.type = "prop" -> "generic"

\* A recovery is only said of a lockout; only a player has an owner, shows its
\* health and the weapon it holds.
actor_record_flags(e) ==
  {"rotation"}
    \cup (IF e.type = "player" THEN {"owner"} \cup (e.has \cap {"health", "held"}) ELSE {})
    \cup (e.has \cap (PlayerParts \ {"health", "held", "recovering"}))
    \cup (IF {"lockout", "recovering"} \subseteq e.has THEN {"recovering"} ELSE {})

\* Wide ids are known from the entity ("large"); a start tick out of reach
\* ("old") only when the packet is written.
agent_record_flags(e) ==
  IF "timeline" \notin e.has THEN {}
  ELSE {"timeline"} \cup (IF "large" \in e.has THEN {"wide"} ELSE {})
EncodedAgentFlags(e) ==
  agent_record_flags(e)
    \cup (IF {"timeline", "old"} \subseteq e.has THEN {"wide"} ELSE {})

\* agent_position_frame: one agent out of reach of the middle makes them all
\* full.
agent_position_frame(agents) ==
  IF \E e \in Range(agents) : "far" \in e.has THEN "full" ELSE "compact"

\* varint_size of the entity's id.
varint(e) == [i \in 1..(IF "late id" \in e.has THEN 3 ELSE 1) |-> 1]

-----------------------------------------------------------------------------
(* The records, as encode_snapshot_packet writes them and decode_snapshot_  *)
(* packet reads them                                                        *)

timeline == u32 \o u32 \o u32 \o u32 \o u16 \o u16

ActorWritten(flags) ==
  u32 \o u16 \o u16 \o u16 \o vec3 \o vec3 \o u16 \o u32 \o vec3
    \o When("owner", flags, u32) \o When("rotation", flags, quat)
    \o When("health", flags, u16 \o u16) \o When("timeline", flags, timeline)
    \o When("movement", flags, u16 \o vec3 \o u32 \o u32)
    \o When("weapon", flags, u8 \o u8 \o u16) \o When("lockout", flags, u32 \o u32)
    \o When("shelter", flags, u32 \o u8) \o When("held", flags, u8)
    \o When("suspension", flags, vec3 \o u32)
    \o When("hover", flags, float \o float \o u32)

\* Faulty variant: the weapon held is read before the shelter.
ActorReadSwapped(flags) ==
  u32 \o u16 \o u16 \o u16 \o vec3 \o vec3 \o u16 \o u32 \o vec3
    \o When("owner", flags, u32) \o When("rotation", flags, quat)
    \o When("health", flags, u16 \o u16) \o When("timeline", flags, timeline)
    \o When("movement", flags, u16 \o vec3 \o u32 \o u32)
    \o When("weapon", flags, u8 \o u8 \o u16) \o When("lockout", flags, u32 \o u32)
    \o When("held", flags, u8) \o When("shelter", flags, u32 \o u8)
    \o When("suspension", flags, vec3 \o u32)
    \o When("hover", flags, float \o float \o u32)
ActorRead(flags) ==
  u32 \o u16 \o u16 \o u16 \o vec3 \o vec3 \o u16 \o u32 \o vec3
    \o When("owner", flags, u32) \o When("rotation", flags, quat)
    \o When("health", flags, u16 \o u16) \o When("timeline", flags, timeline)
    \o When("movement", flags, u16 \o vec3 \o u32 \o u32)
    \o When("weapon", flags, u8 \o u8 \o u16) \o When("lockout", flags, u32 \o u32)
    \o When("shelter", flags, u32 \o u8) \o When("held", flags, u8)
    \o When("suspension", flags, vec3 \o u32)
    \o When("hover", flags, float \o float \o u32)

NarrowTimeline == u16 \o u32 \o u16 \o u16 \o u8

AgentWritten(e, mode, flags) ==
  varint(e) \o u8 \o (IF mode = "compact" THEN u16 \o u16 \o u16 ELSE vec3)
    \o u16 \o u16 \o u16 \o u16 \o u16 \o u8 \o u16 \o u16
    \o (IF "wide" \in flags THEN timeline
        ELSE When("timeline", flags, NarrowTimeline))
AgentRead(e, mode, flags) ==
  varint(e) \o u8 \o (IF mode = "compact" THEN u16 \o u16 \o u16 ELSE vec3)
    \o u16 \o u16 \o u16 \o u16 \o u16 \o u8 \o u16 \o u16
    \o (IF "wide" \in flags THEN timeline
        ELSE When("timeline", flags, NarrowTimeline))

CompactWritten == u32 \o vec3 \o vec3 \o u16 \o u32
BeamWritten == u32 \o u16
HybridWritten == u32 \o u32 \o vec3 \o vec3 \o u16 \o u32 \o u32 \o u32
GenericWritten(e) ==
  u32 \o u16 \o u32 \o vec3 \o vec3 \o u16 \o u32 \o u32
    \o When("health", e.has, u16 \o u16)

RecordWritten(e, mode) ==
  CASE snapshot_section_type(e) = "actor" -> ActorWritten(actor_record_flags(e))
    [] snapshot_section_type(e) = "agent" -> AgentWritten(e, mode, EncodedAgentFlags(e))
    [] snapshot_section_type(e) = "compact" -> CompactWritten
    [] snapshot_section_type(e) = "beam" -> BeamWritten
    [] snapshot_section_type(e) = "hybrid" -> HybridWritten
    [] snapshot_section_type(e) = "generic" -> GenericWritten(e)
RecordRead(e, mode) ==
  CASE snapshot_section_type(e) = "actor" -> ActorRead(actor_record_flags(e))
    [] snapshot_section_type(e) = "agent" -> AgentRead(e, mode, EncodedAgentFlags(e))
    [] snapshot_section_type(e) = "compact" -> u32 \o vec3 \o vec3 \o u16 \o u32
    [] snapshot_section_type(e) = "beam" -> u32 \o u16
    [] snapshot_section_type(e) = "hybrid" ->
         u32 \o u32 \o vec3 \o vec3 \o u16 \o u32 \o u32 \o u32
    [] snapshot_section_type(e) = "generic" ->
         u32 \o u16 \o u32 \o vec3 \o vec3 \o u16 \o u32 \o u32
           \o When("health", e.has, u16 \o u16)

\* What the reader makes of a record: an agent's and a projectile's health is
\* unknown to it, a narrow timeline that says so is told apart from a wide one.
Kept(e) ==
  [type |-> e.type,
   has |-> CASE snapshot_section_type(e) = "actor" ->
                  actor_record_flags(e) \ {"owner", "rotation"}
             [] snapshot_section_type(e) = "agent" -> EncodedAgentFlags(e) \ {"wide"}
             [] OTHER -> e.has]

-----------------------------------------------------------------------------
(* The packet *)

SectionOrder == <<"actor", "agent", "compact", "hybrid", "beam", "generic">>
section_entities(entities, s) ==
  SelectSeq(entities, LAMBDA e : snapshot_section_type(e) = s)

\* The five sections every packet has, the beam's only when there is one.
Sections(entities) ==
  SelectSeq(SectionOrder, LAMBDA s : s # "beam" \/ section_entities(entities, s) # <<>>)

MissileWritten(m) == u32 \o u32 \o u16 \o u8 \o u8 \o u8 \o When("origin", m, vec3 \o u32)
StrikeWritten(targets) ==
  vec3 \o u16 \o u16 \o u16 \o u32 \o u32 \o u32 \o u16 \o u8 \o u8 \o u8
    \o [n \in 1..targets |-> 4]

Concat(op(_), seq) == FoldLeft(LAMBDA l, x : l \o op(x), None, seq)

SectionWritten(s, entities) ==
  LET mine == section_entities(entities, s)
      mode == agent_position_frame(mine)
      Record(e) == RecordWritten(e, mode)
  IN u16 \o u16 \o (IF s = "agent" THEN vec3 \o u8 ELSE None) \o Concat(Record, mine)
SectionRead(s, entities) ==
  LET mine == section_entities(entities, s)
      mode == agent_position_frame(mine)
      Record(e) == RecordRead(e, mode)
  IN u16 \o u16 \o (IF s = "agent" THEN vec3 \o u8 ELSE None) \o Concat(Record, mine)

LockSections(l) ==
  (IF l.missiles = <<>> THEN None ELSE u16 \o u16 \o Concat(MissileWritten, l.missiles))
    \o (IF l.strikes = <<>> THEN None ELSE u16 \o u16 \o Concat(StrikeWritten, l.strikes))

SnapshotHeader == u32 \o u32 \o u32 \o u16 \o u16

encode_snapshot_packet(entities, l) ==
  LET Section(s) == SectionWritten(s, entities)
  IN SnapshotHeader \o Concat(Section, Sections(entities)) \o LockSections(l)

\* decode_snapshot_packet accepts five to eight sections, in any order, and
\* refuses the whole packet for one bad lock record.
SectionCountOK(entities, l) ==
  LET n == Len(Sections(entities)) + (IF l.missiles = <<>> THEN 0 ELSE 1)
             + (IF l.strikes = <<>> THEN 0 ELSE 1)
  IN n \in 5..8

decode_snapshot_packet(entities, l, payload) ==
  LET Section(s) == SectionRead(s, entities)
      asked == SnapshotHeader \o Concat(Section, Sections(entities)) \o LockSections(l)
  IN /\ SectionCountOK(entities, l)
     /\ \A n \in 1..Len(l.strikes) : l.strikes[n] <= 16
     /\ asked = payload

-----------------------------------------------------------------------------
(* What the sender reckons a record will cost *)

estimate_snapshot_base_packet_size == 28 + 16 + 5 * 4 + 13

estimate_snapshot_entity_size(e) ==
  LET flags == actor_record_flags(e)
      Part(f, n) == IF f \in flags THEN n ELSE 0
  IN CASE snapshot_section_type(e) = "actor" ->
            52 + Part("owner", 4) + Part("rotation", 16) + Part("health", 4)
              + Part("timeline", 20) + Part("movement", 22) + Part("weapon", 4)
              + Part("lockout", 8) + Part("shelter", 5) + Part("held", 1)
              + Part("suspension", 16) + Part("hover", 12)
       [] snapshot_section_type(e) = "agent" ->
            Len(varint(e)) + 22
              + (IF "wide" \in agent_record_flags(e) THEN 20
                 ELSE IF "timeline" \in agent_record_flags(e) THEN 11 ELSE 0)
       [] snapshot_section_type(e) = "compact" -> 34
       [] snapshot_section_type(e) = "beam" -> 6 + 4
       [] snapshot_section_type(e) = "hybrid" -> 46
       [] snapshot_section_type(e) = "generic" -> 44 + (IF "health" \in e.has THEN 4 ELSE 0)

snapshot_lock_record_bytes(l) ==
  (IF l.missiles = <<>> THEN 0
   ELSE 4 + FoldLeft(LAMBDA n, m : n + 13 + (IF "origin" \in m THEN 16 ELSE 0), 0, l.missiles))
  + (IF l.strikes = <<>> THEN 0
     ELSE 4 + FoldLeft(LAMBDA n, t : n + 35 + 4 * t, 0, l.strikes))

snapshot_send_set_budget(packets) ==
  packets * SendBudget - (packets - 1) * estimate_snapshot_base_packet_size

\* build_snapshot_send_set, whose order of the queue is SnapshotSendSet's: what
\* does not fit is passed over.
FillSendSet(sight, budget) ==
  FoldLeft(LAMBDA acc, e :
             IF acc.size + estimate_snapshot_entity_size(e) > budget THEN acc
             ELSE [set |-> Append(acc.set, e), size |-> acc.size + estimate_snapshot_entity_size(e)],
           [set |-> <<>>, size |-> estimate_snapshot_base_packet_size], sight).set

\* Everything but agents first; a packet is closed when the next does not fit.
split_snapshot_for_packets(entities, budget) ==
  LET ordered == SelectSeq(entities, LAMBDA e : snapshot_section_type(e) # "agent")
                   \o section_entities(entities, "agent")
      Add(acc, e) ==
        LET size == estimate_snapshot_entity_size(e)
        IN IF acc.size + size > budget /\ Last(acc.parts) # <<>>
           THEN [parts |-> Append(acc.parts, <<e>>),
                 size |-> estimate_snapshot_base_packet_size + size]
           ELSE [parts |-> Front(acc.parts) \o <<Append(Last(acc.parts), e)>>,
                 size |-> acc.size + size]
  IN FoldLeft(Add, [parts |-> <<<<>>>>, size |-> estimate_snapshot_base_packet_size], ordered).parts

-----------------------------------------------------------------------------
(* The interval *)

NoLocks == [missiles |-> <<>>, strikes |-> <<>>]

\* publish_snapshot, for one session.
publish_snapshot ==
  /\ parts = <<>> /\ sizes = <<>>
  /\ \E sight \in Sights, l \in LockLoads :
       LET bytes == snapshot_lock_record_bytes(l)
           set == FillSendSet(sight, snapshot_send_set_budget(MaxPackets) - bytes)
       IN /\ sendSet' = set
          /\ locks' = l
          /\ parts' = split_snapshot_for_packets(set, SendBudget - bytes)
  /\ UNCHANGED <<sizes, read, lost>>

\* Each part is a packet of its own; the first carries the lock records.
SendPart ==
  /\ parts # <<>>
  /\ LET l == IF sizes = <<>> THEN locks ELSE NoLocks
         payload == encode_snapshot_packet(Head(parts), l)
     IN /\ sizes' = Append(sizes, 28 + Size(payload))
        /\ IF decode_snapshot_packet(Head(parts), l, payload)
           THEN read' = read \o [n \in 1..Len(Head(parts)) |-> Kept(Head(parts)[n])]
                /\ UNCHANGED lost
           ELSE lost' = lost + 1 /\ UNCHANGED read
  /\ parts' = Tail(parts)
  /\ UNCHANGED <<sendSet, locks>>

CodecInit ==
  /\ sendSet = <<>> /\ locks = NoLocks /\ parts = <<>>
  /\ sizes = <<>> /\ read = <<>> /\ lost = 0
CodecNext == publish_snapshot \/ SendPart
CodecIdle == sendSet = <<>> /\ parts = <<>> /\ sizes = <<>>

-----------------------------------------------------------------------------
(* Properties *)

CodecTypeOK ==
  /\ Len(FlattenSeq(parts)) + Len(read) <= Len(sendSet)
  /\ \A n \in DOMAIN sizes : sizes[n] \in Nat
  /\ lost <= Len(sizes)

Arrived == sizes # <<>> /\ parts = <<>>

\* What the interval's packets say, read together, is the send set: every
\* entity once and with every part its record has, whatever combination of
\* parts, beams and lock records the packets hold (encode_snapshot_packet,
\* decode_snapshot_packet, split_snapshot_for_packets).
SnapshotReadBack ==
  Arrived =>
    /\ lost = 0
    /\ Len(read) = Len(sendSet)
    /\ LET Times(seq) == [e \in Range(seq) |-> Cardinality({n \in DOMAIN seq : seq[n] = e})]
       IN Times(read) = Times([n \in DOMAIN sendSet |-> Kept(sendSet[n])])

\* The parts a record may be larger by than its estimate: an action whose start
\* is out of reach, and positions that do not fit their short form.
Overrun(set) ==
  9 * Cardinality({n \in DOMAIN set : {"timeline", "old"} \subseteq set[n].has})
    + (IF \E e \in Range(set) : "far" \in e.has
       THEN 6 * Len(section_entities(set, "agent")) ELSE 0)

\* No packet outgrows the budget but for what the sender cannot know when it
\* fills it, and for one entity that fills it alone (estimate_snapshot_entity_
\* size against encode_snapshot_packet).
PacketsWithinBudget ==
  \A n \in DOMAIN sizes : sizes[n] <= SendBudget + Overrun(sendSet)

\* Both sides of the wire agree on every packet: what its bytes are, what a
\* snapshot's packets say together, and how large the sender took them to be.
PacketsAgree ==
  /\ WireTypeOK /\ CodecTypeOK
  /\ WireAgrees /\ SnapshotReadBack /\ PacketsWithinBudget
==============================================================================
