----------------------------- MODULE MCChannels -----------------------------
(***************************************************************************)
(* What travels between one session and its server, one concern at a time: *)
(* inputs and their acknowledgement, the choice of what a snapshot sends,  *)
(* the packets a snapshot is split into, the bytes of every packet, and    *)
(* the projectiles, of which a client hears only the first of a chain.     *)
(* The concerns share no state; a behaviour studies one of them.           *)
(***************************************************************************)
EXTENDS InputSync, SnapshotSendSet, SnapshotCodec, Projectiles

VARIABLE focus

Concerns == {"input", "send set", "codec", "wire", "projectiles"}

\* The projectiles while a behaviour is about something else.
NoFlights ==
  /\ flightTick = 0 /\ sky = {} /\ alive = {} /\ dealt = {} /\ triggered = {} /\ sight = {}
  /\ past = {} /\ ended = {} /\ frayed = {} /\ inbox = {} /\ render = 0 /\ chains = {}
  /\ drawn = {} /\ deferred = {} /\ heardRoots = {} /\ spentShots = 0

ChannelsInit ==
  /\ focus \in Concerns
  /\ InputInit /\ SendSetInit /\ CodecInit /\ WireInit
  /\ IF focus = "projectiles" THEN ShotInit ELSE NoFlights

ChannelsNext ==
  /\ UNCHANGED focus
  /\ \/ focus = "input" /\ InputNext
     \/ focus # "input" /\ UNCHANGED inputVars
  /\ \/ focus = "send set" /\ build_snapshot_send_set
     \/ focus # "send set" /\ UNCHANGED age
  /\ \/ focus = "codec" /\ CodecNext
     \/ focus # "codec" /\ UNCHANGED codecVars
  /\ \/ focus = "wire" /\ WireNext
     \/ focus # "wire" /\ UNCHANGED wireVars
  /\ \/ focus = "projectiles" /\ ShotNext
     \/ focus # "projectiles" /\ UNCHANGED shotVars

ChannelsSpec ==
  ChannelsInit
    /\ [][ChannelsNext]_<<focus, inputVars, age, codecVars, wireVars, shotVars>>

-----------------------------------------------------------------------------
(* The instances *)

\* The fourth record is twice the size of the others.
MCSizes == [e \in Candidates |-> IF e = 4 THEN 2 ELSE 1]

Own == [type |-> "player", has |-> {"health", "movement", "weapon", "held"}]
Player(has) == [type |-> "player", has |-> has]
Agent(has) == [type |-> "agent", has |-> has]
Shot(has) == [type |-> "projectile", has |-> has]
Prop(has) == [type |-> "prop", has |-> has]
Crowd(n, e) == [i \in 1..n |-> e]

\* One entity of every shape beside the own player, and crowds that fill
\* packets.
MCSights ==
  {<<Own>>, <<>>}
    \cup {<<Player(has)>> : has \in SUBSET PlayerParts}
    \cup {<<Own, Agent(has), Agent({"late id"})>> :
            has \in SUBSET {"timeline", "large", "old", "far", "shelter", "lockout"}}
    \cup {<<Own, Shot(a), Prop(b), Shot({"beam"})>> :
            a \in {{}, {"beam"}, {"hybrid"}}, b \in {{}, {"health"}}}
    \cup {<<Own>> \o Crowd(n, Agent({"timeline", "late id"})) : n \in {8, 18}}
    \cup {<<Own>> \o Crowd(5, Prop({})) \o Crowd(8, Agent({"late id"}))}
    \cup {<<Own>> \o Crowd(n, Player({"health", "timeline", "held"})) : n \in {2, 3, 9}}

MCLocks ==
  {NoLocks,
   [missiles |-> <<{}, {"origin"}>>, strikes |-> <<>>],
   [missiles |-> <<>>, strikes |-> <<16>>],
   [missiles |-> <<{"origin"}>>, strikes |-> <<0, 3>>]}

Binds(list) == [spawns |-> list, forwards |-> FALSE]
Child(kind, stagger) == [kind |-> kind, life |-> 0, stagger |-> stagger]
Flight(type, life) ==
    [type |-> type, life |-> life, weapon |-> "none", still |-> FALSE, derived |-> FALSE,
     homing |-> FALSE, boost |-> 0, actors |-> TRUE, walls |-> TRUE, shots |-> FALSE, fall |-> 0,
     pierces |-> FALSE, maxHits |-> 1, damage |-> 1, interval |-> 1, instigator |-> FALSE,
     expired |-> NoBinding, impact |-> NoBinding]
Derived(type, life) == [Flight(type, life) EXCEPT !.derived = TRUE, !.actors = FALSE, !.damage = 0]
ShotTemplates ==
    [grenade |-> [Flight("standard", 2) EXCEPT
                    !.weapon = "projectile", !.shots = TRUE, !.expired = Binds(<<Child("blast", 0)>>),
                    !.impact = [spawns |-> <<Child("blast", 0)>>, forwards |-> TRUE]],
     blast |-> [Flight("area", 4) EXCEPT !.still = TRUE, !.interval = 2, !.instigator = TRUE],
     lance |-> [Flight("standard", 2) EXCEPT
                  !.weapon = "projectile", !.shots = TRUE, !.pierces = TRUE, !.maxHits = 2],
     missile |-> [Flight("standard", 3) EXCEPT
                    !.weapon = "projectile", !.homing = TRUE, !.boost = 1],
     wave |-> [Flight("area", 2) EXCEPT !.weapon = "projectile"],
     ray |-> [Flight("beam", 1) EXCEPT !.weapon = "projectile"],
     marker |-> [Flight("standard", 1) EXCEPT
                   !.weapon = "strike", !.still = TRUE, !.actors = FALSE, !.walls = FALSE,
                   !.damage = 0, !.expired = Binds(<<Child("fuse", 0)>>)],
     fuse |-> [Derived("standard", 1) EXCEPT !.impact = Binds(<<Child("crater", 1)>>), !.fall = 1],
     crater |-> [Derived("area", 1) EXCEPT !.still = TRUE]]
ShotMeetings ==
    <<[left |-> "grenade", right |-> "lance", symmetric |-> TRUE, endLeft |-> TRUE,
       endRight |-> FALSE, spawn |-> "blast"]>>
Shoots(a, kind) == [by |-> a, kind |-> kind]
ShotSalvos ==
    {<<Shoots(1, "grenade"), Shoots(2, "lance")>>, <<Shoots(1, "missile")>>, <<Shoots(2, "wave")>>,
     <<Shoots(1, "ray"), Shoots(1, "ray")>>, <<Shoots(1, "marker")>>, <<Shoots(2, "marker")>>}
ShotTouches == {<<>>, <<1, 2>>, <<3, Wall>>}

-----------------------------------------------------------------------------
(* A shot ends once and deals its damage once; a chain of derived projectiles *)
(* looks the same at the server and at every client that knows its root.      *)
ShotsKept == focus = "projectiles" => ShotTypeOK /\ ProjectilesHold
==============================================================================
