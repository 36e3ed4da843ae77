------------------------------ MODULE MCServices ------------------------------
(***************************************************************************)
(* The services around the weapons and the players' channels, one at a     *)
(* time: `focus' chooses which of them a behaviour is about, and the       *)
(* others stay as they began.  They share no state in these models; what   *)
(* they exchange in the code is an input of each (a hit, a death, a        *)
(* request to spawn).                                                      *)
(***************************************************************************)
EXTENDS CatalogGraphs, Catalog, Statuses, Triggers, DamagePipeline, Lifecycle, Directors,
        GameServer

VARIABLE focus

Services ==
    {"graph", "definition", "statuses", "triggers", "damage", "lifecycle", "directors", "rules"}

(***************************************************************************)
(* Values for the constants.                                               *)
(***************************************************************************)

\* What a graph does: to whom, how much, with which status.
Deed(type, to, amount, status) ==
    [type |-> type, to |-> to, when |-> FALSE, amount |-> amount, status |-> status]

StatusTemplates ==
    [burn |-> [channel |-> "fire", policy |-> "stack", maxStacks |-> 2, refreshOnStack |-> TRUE,
               duration |-> 2, interval |-> 1, onApply |-> <<>>,
               onTick |-> <<Deed("apply_damage", "self", 1, "none")>>, onExpire |-> <<>>],
     slow |-> [channel |-> "legs", policy |-> "replace", maxStacks |-> 1, refreshOnStack |-> FALSE,
               duration |-> 2, interval |-> 0,
               onApply |-> <<Deed("apply_speed_modifier", "self", -1, "none")>>, onTick |-> <<>>,
               onExpire |-> <<Deed("apply_health_change", "self", 1, "none")>>],
     root |-> [channel |-> "legs", policy |-> "refresh", maxStacks |-> 1, refreshOnStack |-> FALSE,
               duration |-> 1, interval |-> 0,
               onApply |-> <<Deed("apply_suspend_movement", "self", 0, "none"),
                             Deed("apply_block_actions", "self", 0, "none")>>,
               onTick |-> <<>>, onExpire |-> <<>>],
     ghost |-> [channel |-> "veil", policy |-> "refresh", maxStacks |-> 1, refreshOnStack |-> FALSE,
                duration |-> 1, interval |-> 0,
                onApply |-> <<Deed("apply_untargetable", "self", 0, "none")>>,
                onTick |-> <<>>, onExpire |-> <<>>]]

By(from, to, graphActions) ==
    [graph |-> graphActions, event |-> [subject |-> from, instigator |-> from, target |-> to]]
StatusRequests ==
    <<By(2, 1, <<Deed("apply_status", "target", 0, "burn"), Deed("apply_damage", "target", 1, "none")>>),
      By(2, 1, <<Deed("apply_status", "target", 0, "slow"), Deed("spawn_entity", "self", 0, "none")>>),
      By(1, 2, <<Deed("apply_status", "self", 0, "ghost"), Deed("apply_impulse", "target", 1, "none"),
                 Deed("remove_status", "self", 0, "slow")>>),
      By(2, 1, <<Deed("apply_status", "target", 0, "root"), Deed("apply_health_change", "target", 1, "none"),
                 Deed("apply_pull", "target", 1, "none")>>),
      By(1, 2, <<Deed("apply_damage", "target", 2, "none"), Deed("apply_status", "target", 1, "burn"),
                 Deed("open_ui", "target", 0, "none")>>)>>

\* Volume 1 is a shrine for players; volume 2 a portal that hurts.
TriggerVolumes ==
    <<[playersOnly |-> TRUE, portal |-> FALSE, overlap |-> <<>>, grace |-> 0,
       enter |-> <<Deed("apply_status", "target", 0, "ghost")>>,
       exit |-> <<Deed("remove_status", "target", 0, "ghost")>>],
      [playersOnly |-> FALSE, portal |-> TRUE, grace |-> 4,
       overlap |-> <<Deed("apply_damage", "target", 1, "none")>>,
       enter |-> <<Deed("teleport", "target", 0, "none")>>,
       exit |-> <<Deed("open_ui", "target", 0, "none")>>]>>
TriggerHits == [m \in {5} |-> <<Deed("apply_damage", "target", 1, "none")>>]

Prop(life, group, importance, exit, leaves) ==
    [type |-> "prop", life |-> life, group |-> group, importance |-> importance, exit |-> exit,
     leaves |-> leaves, seats |-> 0, mask |-> "none"]
Actor(type, leaves) ==
    [type |-> type, life |-> 0, group |-> "none", importance |-> 0, exit |-> "none",
     leaves |-> leaves, seats |-> 0, mask |-> "all"]
LifeTemplates ==
    [tent |-> Prop(1, "camp", 0, "none", <<"relic">>), relic |-> Prop(0, "loot", 0, "none", <<>>),
     portal |-> Prop(1, "gates", 1, "exit", <<>>), exit |-> Prop(0, "none", 0, "none", <<"relic">>),
     player |-> Actor("player", <<>>), agent |-> Actor("agent", <<"relic">>)]
LifeRules ==
    [camp |-> [max |-> 1, runs |-> TRUE], loot |-> [max |-> 1, runs |-> FALSE],
     gates |-> [max |-> 1, runs |-> TRUE]]

Units(lo, hi) == [min |-> lo, max |-> hi]
OneInTwo == [num |-> 1, den |-> 2]
MapPatrol ==
    [around |-> FALSE, min |-> 1, max |-> 2, interval |-> 1, groups |-> 1,
     units |-> [caller |-> Units(1, 1), grunt |-> Units(0, 1)]]
HuntingPatrol ==
    [around |-> TRUE, interval |-> 2, floor |-> 2, perMember |-> OneInTwo, perPlayer |-> OneInTwo,
     tiers |-> <<[min |-> 1, max |-> 1, units |-> [grunt |-> Units(1, 1)]],
                 [min |-> 1, max |-> 2, units |-> [grunt |-> Units(1, 2)]]>>]
NestSpawner ==
    [trigger |-> "interval", min |-> 1, max |-> 2, interval |-> 1, ceiling |-> 2, calls |-> 0,
     units |-> [grunt |-> Units(0, 1), caller |-> Units(1, 1)]]
CallerSpawner ==
    [trigger |-> "alert", min |-> 1, max |-> 1, interval |-> 1, ceiling |-> 1, calls |-> 1,
     units |-> [caller |-> Units(0, 1), grunt |-> Units(0, 1)]]
DirectorMaps ==
    {[patrols |-> <<MapPatrol>>, spawners |-> [nest |-> NestSpawner, caller |-> CallerSpawner],
      standing |-> <<"nest", "caller">>],
     [patrols |-> <<MapPatrol, HuntingPatrol>>, spawners |-> [kind \in {} |-> NestSpawner],
      standing |-> <<>>],
     [patrols |-> <<HuntingPatrol>>, spawners |-> [caller |-> CallerSpawner],
      standing |-> <<"caller", "caller">>]}
DirectorRule == [target |-> 1, interval |-> 1]

MissionNode(next, waits, count, wave) ==
    [next |-> next, waits |-> waits, count |-> count, wave |-> wave]
RulesMission ==
    <<MissionNode({3}, "players", 1, 0), MissionNode({3}, "group", 0, 1),
      MissionNode({}, "group", 0, 1)>>

(***************************************************************************)
(* One service at a time.                                                  *)
(***************************************************************************)

\* What a service that a behaviour is not about holds.
Unused == 0

ServicesInit ==
    /\ focus \in Services
    /\ IF focus = "graph" THEN GraphInit
       ELSE /\ graph = Unused /\ graphEdits = Unused /\ graphStage = Unused /\ trigger = Unused
    /\ IF focus = "definition" THEN DraftInit
       ELSE /\ draft = Unused /\ draftEdits = Unused /\ draftStage = Unused
    /\ IF focus = "statuses" THEN StatusInit
       ELSE /\ world = Unused /\ pass = Unused /\ mirror = Unused /\ news = Unused /\ again = Unused
            /\ failed = Unused /\ ran = Unused /\ spent = Unused
    /\ IF focus = "triggers" THEN TriggerInit
       ELSE /\ clock = Unused /\ walker = Unused /\ inside = Unused /\ mode = Unused /\ pairs = Unused
            /\ holds = Unused /\ contacts = Unused
    /\ IF focus = "damage" THEN DamageInit
       ELSE /\ now = Unused /\ fighter = Unused /\ queued = Unused /\ pending = Unused /\ defences = Unused
            /\ seen = Unused /\ wounds = Unused /\ fell = Unused /\ deaths = Unused /\ made = Unused
    /\ IF focus = "lifecycle" THEN LifeInit
       ELSE /\ realm = Unused /\ asked = Unused
    /\ IF focus = "directors" THEN DirectorInit
       ELSE /\ map = Unused /\ folk = Unused /\ doomed = Unused /\ engaged = Unused /\ groups = Unused
            /\ rounds = Unused /\ ruleLeft = Unused /\ spawners = Unused /\ reinforce = Unused
            /\ mute = Unused /\ alerts = Unused /\ known = Unused /\ despawning = Unused /\ chain = Unused
            /\ day = Unused /\ losses = Unused
    /\ IF focus = "rules" THEN ServerInit
       ELSE /\ kern = Unused /\ events = Unused /\ mail = Unused /\ server = Unused /\ quest = Unused
            /\ chances = Unused

ServicesNext ==
    /\ UNCHANGED focus
    /\ \/ focus = "graph" /\ GraphNext
       \/ focus # "graph" /\ UNCHANGED graphVars
    /\ \/ focus = "definition" /\ DraftNext
       \/ focus # "definition" /\ UNCHANGED draftVars
    /\ \/ focus = "statuses" /\ StatusNext
       \/ focus # "statuses" /\ UNCHANGED statusVars
    /\ \/ focus = "triggers" /\ TriggerNext
       \/ focus # "triggers" /\ UNCHANGED triggerVars
    /\ \/ focus = "damage" /\ DamageNext
       \/ focus # "damage" /\ UNCHANGED damageVars
    /\ \/ focus = "lifecycle" /\ LifeNext
       \/ focus # "lifecycle" /\ UNCHANGED lifeVars
    /\ \/ focus = "directors" /\ DirectorNext
       \/ focus # "directors" /\ UNCHANGED directorVars
    /\ \/ focus = "rules" /\ ServerNext
       \/ focus # "rules" /\ UNCHANGED serverVars

ServicesSpec ==
    ServicesInit
    /\ [][ServicesNext]_<<focus, graphVars, draftVars, statusVars, triggerVars, damageVars, lifeVars,
                          directorVars, serverVars>>

(***************************************************************************)
(* Properties: what each service keeps, stated in its own module.          *)
(***************************************************************************)

\* Whatever the loader of the configuration accepts, the kernel's own validation
\* accepts too, apart from the disagreements named in Catalog and CatalogGraphs:
\* a graph bound to a trigger, and a definition of any kind.  What both accept can
\* do what it is for: its action ends, what it derives from a root has one, its
\* mission has no cycle.
LoadersAgree ==
    /\ focus = "graph" => GraphTypeOK /\ TablesAgree
    /\ focus = "definition" =>
          DraftTypeOK /\ LoaderAndKernelAgree /\ DerivedHasRoot /\ LoadedCanAct

\* Statuses come and go with what they grant, whatever refuses or fails midway;
\* the owner's client shows what the server holds once the news has reached it;
\* a request resubmitted runs once.
StatusesKept ==
    focus = "statuses" => StatusTypeOK /\ StatusesHold /\ OwnerSeesStatuses /\ RequestRunsOnce

\* Every entry into a volume is followed by one exit, for actors that leave on
\* foot, by a portal, or by ending; a missile reports a contact once.
TriggersKept == focus = "triggers" => TriggerTypeOK /\ TriggersPair

\* Damage waits for the defence it may meet and is dealt once, when it lands and
\* not to a later life; and a body dies once until it stands up.
WoundsKept == focus = "damage" => DamageTypeOK /\ WoundsAreFair

\* Deaths, respawns, shelters, portals and population limits leave no entity
\* behind that nothing refers to, and none referred to that is gone.
LifecycleKept == focus = "lifecycle" => LifeTypeOK /\ LifecycleHolds

\* The directors stay within the budget of agents and each within its own share.
PopulationKept == focus = "directors" => DirectorTypeOK /\ PopulationHolds

\* The game server's own records (seats, revives, loadouts, the mission) agree
\* with the kernel's events once it has caught up with them.
RulesKept == focus = "rules" => ServerTypeOK /\ GameServerHolds
===============================================================================
