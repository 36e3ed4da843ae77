---------------------------- MODULE GraphExecution ----------------------------
(***************************************************************************)
(* What happens when a trigger runs an action graph on the server.  The    *)
(* graph is evaluated into commands; a batch of commands is checked as a   *)
(* whole, reserved against repetition, and then carried out one command    *)
(* after the other.  A status it applies runs graphs of its own, when it   *)
(* starts, every few ticks and when it ends, as batches of the same        *)
(* transaction.                                                            *)
(*                                                                         *)
(* The world a batch works on is a record, and every operator here maps a  *)
(* world to a world: Statuses is the machine that owns it.  Amounts are    *)
(* small numbers; where things land is left out.                           *)
(***************************************************************************)
EXTENDS Integers, Sequences, FiniteSets, SequencesExt

CONSTANTS
    Bodies,         \* net ids of what a graph can act on
    Templates,      \* status templates by name
    MaxActive,      \* kMaxActiveStatusEffects
    DedupCapacity,  \* kActionGraphDedupCapacity
    Retention,      \* action_graph_dedup_retention_ticks
    MaxAmount,      \* the largest damage one request carries
    RevisionRange   \* status revisions run from 1 to one below this, then wrap

ASSUME GraphExecutionAssumption ==
    /\ Bodies \subseteq Nat \ {0}
    /\ MaxActive \in Nat \ {0} /\ DedupCapacity \in Nat \ {0}
    /\ Retention \in Nat \ {0} /\ MaxAmount \in Nat /\ RevisionRange \in Nat

Nobody == 0
BaseSpeed == 4

(***************************************************************************)
(* The world.                                                              *)
(***************************************************************************)

\* A status that is active on a body.
Effect(instance, name, source, stacks, expire, next) ==
    [instance |-> instance, name |-> name, source |-> source, stacks |-> stacks,
     expire |-> expire, next |-> next, does |-> {}]

Body(kind) ==
    [kind |-> kind, here |-> TRUE, hp |-> 2, sheltered |-> FALSE, resistance |-> 0,
     active |-> {}, slows |-> {}, speed |-> BaseSpeed, held |-> FALSE, flung |-> FALSE,
     revision |-> 0]
MaxHp == 2

Here(w, b) == b # Nobody /\ w.body[b].here
Has(w, b, name) == \E e \in w.body[b].active : e.name = name
InstanceOf(w, b, instance) == {e \in w.body[b].active : e.instance = instance}
status_untargetable(w, b) == \E e \in w.body[b].active : "untargetable" \in e.does

recompute_speed(body) ==
    [body EXCEPT !.speed = BaseSpeed + FoldSet(LAMBDA s, sum : sum + s.by, 0, body.slows)]

advance_status_revision(revision) ==
    IF (revision + 1) % RevisionRange = 0 THEN 1 ELSE (revision + 1) % RevisionRange

\* What the owner of a body is told of it.
Records(effects) ==
    {[instance |-> e.instance, name |-> e.name, source |-> e.source,
      stacks |-> e.stacks, expire |-> e.expire] : e \in effects}
StatePacket(w, b) ==
    [target |-> b, revision |-> w.body[b].revision, active |-> Records(w.body[b].active)]

\* The new set goes out under a new revision.
Publish(w, b) ==
    LET v == [w EXCEPT !.body[b].revision = advance_status_revision(@)]
    IN [v EXCEPT !.published = Append(@, StatePacket(v, b))]

(***************************************************************************)
(* Repetition: a batch is known by its key from the moment it is reserved, *)
(* counts as done once committed, and is forgotten Retention ticks later.  *)
(***************************************************************************)

action_graph_batch_processed(w, key) == \E d \in w.done : d.key = key

reserve_all(w, keys) ==
    LET fresh == {k \in keys : ~action_graph_batch_processed(w, k)} \ w.reserved
        used == Cardinality(w.done) + Cardinality(w.reserved)
    IN IF Cardinality(fresh) > DedupCapacity - used
       THEN [w EXCEPT !.ok = FALSE] ELSE [w EXCEPT !.reserved = @ \cup fresh]

commit_action_graph_batch(w) ==
    [w EXCEPT !.done = @ \cup {[key |-> k, tick |-> w.tick] : k \in w.reserved},
              !.reserved = {}]
cancel_action_graph_batch(w) == [w EXCEPT !.reserved = {}]

\* Faulty variant: the front of the list is dropped whatever its age.
prune_action_graph_batches_early(w) ==
    [w EXCEPT !.done = {d \in @ : w.tick - d.tick < Retention - 1}]
prune_action_graph_batches(w) ==
    [w EXCEPT !.done = {d \in @ : w.tick - d.tick < Retention}]

(***************************************************************************)
(* Evaluation: a graph's actions become commands with their operands       *)
(* filled in from the event.  One action that cannot be filled in fails    *)
(* the graph.                                                              *)
(***************************************************************************)

OnTarget == {"apply_damage", "apply_health_change", "apply_impulse", "apply_pull",
             "apply_status", "remove_status", "apply_speed_modifier",
             "apply_block_actions", "apply_suspend_movement", "apply_hover_movement",
             "apply_untargetable", "refill_weapon_reserve", "teleport", "open_ui"}

action_condition(action, event) == action.when => event.target # Nobody

\* Whom an action is about: "self" is the body the trigger belongs to.
resolve_expression(action, event) ==
    CASE action.to = "self" -> event.subject
      [] action.to = "instigator" -> event.instigator
      [] action.to = "target" -> event.target

action_source(event) ==
    IF event.subject # Nobody THEN event.subject ELSE event.instigator

CommandOf(action, event) ==
    [type |-> action.type, target |-> resolve_expression(action, event),
     source |-> action_source(event), amount |-> action.amount, status |-> action.status]

EvaluatesSpawn(action, event) ==
    action.type = "spawn_entity" => resolve_expression(action, event) # Nobody
EvaluatesTarget(action, event) ==
    action.type \in OnTarget => resolve_expression(action, event) # Nobody
EvaluatesAmount(action) ==
    /\ action.type = "apply_damage" => action.amount \in 1..MaxAmount
    /\ action.type = "apply_health_change" =>
          action.amount \in (-MaxAmount)..MaxAmount /\ action.amount # 0
    /\ action.type \in {"apply_status", "remove_status"} => action.status # "none"

CannotEvaluate == <<[type |-> "cannot"]>>
evaluate_action_graph(graph, event) ==
    LET acting == SelectSeq(graph, LAMBDA action : action_condition(action, event))
    IN IF \A i \in DOMAIN acting :
             EvaluatesSpawn(acting[i], event) /\ EvaluatesTarget(acting[i], event)
                /\ EvaluatesAmount(acting[i])
       THEN [i \in DOMAIN acting |-> CommandOf(acting[i], event)]
       ELSE CannotEvaluate

(***************************************************************************)
(* The graphs of a status.                                                 *)
(***************************************************************************)

StatusOnly == {"apply_speed_modifier", "apply_block_actions", "apply_suspend_movement",
               "apply_hover_movement", "apply_untargetable"}
Allowed(command, b, when) ==
    \/ command.type \in {"apply_damage", "apply_health_change"}
    \/ command.type \in StatusOnly /\ when = "applied" /\ command.target = b

\* What a stack multiplies: damage over time, and slows.
Scaled(command, when, stacks) ==
    IF command.type = "apply_speed_modifier"
         \/ (when \in {"tick", "expired"}
               /\ command.type \in {"apply_damage", "apply_health_change"})
    THEN [command EXCEPT !.amount = @ * stacks] ELSE command

Unprepared == [ok |-> FALSE, batch |-> <<>>, key |-> <<>>]
prepare_status_lifecycle_trigger(w, b, source, instance, stacks, when, graph) ==
    IF graph = <<>> THEN [ok |-> TRUE, batch |-> <<>>, key |-> <<>>]
    ELSE LET commands == evaluate_action_graph(
                 graph, [subject |-> b, instigator |-> source, target |-> b])
             present == SelectSeq(commands, LAMBDA c :
                            Allowed(c, b, when) => Here(w, c.target))
             scaled == [i \in DOMAIN present |-> Scaled(present[i], when, stacks)]
         IN IF commands = CannotEvaluate
                 \/ \E i \in DOMAIN scaled :
                       ~Allowed(scaled[i], b, when)
                         \/ (scaled[i].type = "apply_damage" /\ scaled[i].amount > MaxAmount)
            THEN Unprepared
            ELSE [ok |-> TRUE,
                  batch |-> [i \in DOMAIN scaled |-> scaled[i] @@ [instance |-> instance]],
                  key |-> <<"status", w.tick, when, b, instance, stacks>>]

(***************************************************************************)
(* One command.                                                            *)
(***************************************************************************)

Alter(w, c, Op(_)) == [w EXCEPT !.body[c.target] = Op(@)]

Damage(w, c) ==
    IF Here(w, c.target) THEN [w EXCEPT !.damage = Append(@, <<c.target, c.amount>>)] ELSE w
HealthChange(w, c) ==
    LET hp == w.body[c.target].hp
    IN CASE ~Here(w, c.target) -> w
         [] c.amount < 0 -> [w EXCEPT !.damage = Append(@, <<c.target, -c.amount>>)]
         [] hp = 0 -> w
         [] OTHER -> [w EXCEPT !.body[c.target].hp = IF hp + c.amount > MaxHp
                                                     THEN MaxHp ELSE hp + c.amount]

\* A slow belongs to the instance that brought it, which must still be there.
SpeedModifier(w, c) ==
    CASE w.body[c.target].kind # "actor" -> w
      [] InstanceOf(w, c.target, c.instance) = {} -> [w EXCEPT !.ok = FALSE]
      [] OTHER -> Alter(w, c, LAMBDA body : recompute_speed(
                     [body EXCEPT !.slows = {s \in @ : s.instance # c.instance}
                                             \cup {[instance |-> c.instance, by |-> c.amount]}]))

\* What an instance does to its bearer for as long as it lasts.
Does == [apply_block_actions |-> "blocks", apply_suspend_movement |-> "suspends",
         apply_hover_movement |-> "hovers", apply_untargetable |-> "untargetable"]
WhileActive(w, c) ==
    CASE w.body[c.target].kind # "actor"
           \/ (c.type = "apply_suspend_movement" /\ w.body[c.target].sheltered) -> w
      [] InstanceOf(w, c.target, c.instance) = {} -> [w EXCEPT !.ok = FALSE]
      [] OTHER ->
           LET told == [w EXCEPT !.body[c.target].active =
                          {IF e.instance = c.instance
                           THEN [e EXCEPT !.does = @ \cup {Does[c.type]}] ELSE e : e \in @}]
           IN IF c.type = "apply_suspend_movement"
              THEN [told EXCEPT !.body[c.target].held = TRUE,
                                !.body[c.target].flung = FALSE]
              ELSE told

\* An impulse or a pull throws a body that is not in shelter, if it is
\* stronger than what the body withstands.
Fling(w, c) ==
    LET body == w.body[c.target]
    IN IF body.sheltered \/ c.amount <= body.resistance
            \/ (c.type = "apply_pull" /\ body.kind # "actor")
       THEN w ELSE [w EXCEPT !.body[c.target].flung = TRUE]

SpawnEntity(w, c) ==
    IF w.room = 0 THEN [w EXCEPT !.ok = FALSE]
    ELSE [w EXCEPT !.room = @ - 1, !.effects = Append(@, c.type)]

\* Effects outside this model: they are noted, with no more said of them.
Noted(w, c) == [w EXCEPT !.effects = Append(@, c.type)]

Simple(w, c) ==
    CASE c.type = "apply_damage" -> Damage(w, c)
      [] c.type = "apply_health_change" -> HealthChange(w, c)
      [] c.type = "apply_speed_modifier" -> SpeedModifier(w, c)
      [] c.type \in DOMAIN Does -> WhileActive(w, c)
      [] c.type \in {"apply_impulse", "apply_pull"} -> Fling(w, c)
      [] c.type = "spawn_entity" -> SpawnEntity(w, c)
      [] OTHER -> Noted(w, c)

(***************************************************************************)
(* A status's own batch, inside whatever transaction is under way.         *)
(***************************************************************************)

RunLifecycle(w, prepared) ==
    IF prepared.batch = <<>> \/ action_graph_batch_processed(w, prepared.key) THEN w
    ELSE FoldLeft(LAMBDA v, c : IF v.ok THEN Simple(v, c) ELSE v,
                  reserve_all(w, {prepared.key}), prepared.batch)

Expiring(w, b, e) ==
    prepare_status_lifecycle_trigger(w, b, e.source, e.instance, e.stacks, "expired",
                                     Templates[e.name].onExpire)
Applying(w, c, instance, stacks) ==
    prepare_status_lifecycle_trigger(w, c.target, c.source, instance, stacks, "applied",
                                     Templates[c.status].onApply)

ByInstance(effects) == SetToSortSeq(effects, LAMBDA e, f : e.instance < f.instance)

\* Their graphs run, one after the other.
RunExpiring(w, b, gone) ==
    FoldLeft(LAMBDA v, e : IF v.ok THEN RunLifecycle(v, Expiring(v, b, e)) ELSE v,
             w, ByInstance(gone))
Without(w, b, gone) ==
    [w EXCEPT !.body[b] = recompute_speed(
        [@ EXCEPT !.active = @ \ gone,
                  !.slows = {s \in @ : \A e \in gone : s.instance # e.instance}])]

Same(w, c) == {e \in w.body[c.target].active : e.name = c.status}
InChannel(w, c) ==
    {e \in w.body[c.target].active :
        Templates[e.name].channel = Templates[c.status].channel}

Touched(w, c, e, stacks, prolonged) ==
    [w EXCEPT !.body[c.target].active = (@ \ {e}) \cup
        {[e EXCEPT !.source = c.source, !.stacks = stacks,
                   !.expire = IF prolonged THEN w.tick + Templates[c.status].duration
                              ELSE @]}]

Failed(w) == [w EXCEPT !.ok = FALSE]
Told(w, b) == IF w.ok THEN Publish(w, b) ELSE w

\* Once all is prepared, the set changes, the graph runs, and the owner is told.
Begun(w, changed, b, prepared) ==
    IF prepared.ok THEN Told(RunLifecycle(changed, prepared), b) ELSE Failed(w)

\* The same status again, where its policy is to refresh or to stack.
ApplyAgain(w, c, e) ==
    LET t == Templates[c.status]
    IN CASE t.policy = "refresh" -> Publish(Touched(w, c, e, e.stacks, TRUE), c.target)
         [] e.stacks >= t.maxStacks /\ ~t.refreshOnStack -> w
         [] e.stacks >= t.maxStacks -> Publish(Touched(w, c, e, e.stacks, TRUE), c.target)
         [] OTHER -> Begun(w, Touched(w, c, e, e.stacks + 1, t.refreshOnStack), c.target,
                           Applying(w, c, e.instance, e.stacks + 1))

\* Faulty variant: what it replaces leaves its slow behind.
ReplaceKeeping(w, c, effect, replaced) ==
    IF ~w.ok THEN w ELSE [w EXCEPT !.body[c.target].active = (@ \ replaced) \cup {effect}]
\* A status takes the place of whatever its channel holds, whose graphs have
\* run while it was still there.
Replace(w, c, effect, replaced) ==
    IF ~w.ok THEN w
    ELSE [Without(w, c.target, replaced) EXCEPT !.body[c.target].active = @ \cup {effect}]
StartOf(c, instance, tick) ==
    LET t == Templates[c.status]
    IN Effect(instance, c.status, c.source, 1, tick + t.duration,
              IF t.interval = 0 THEN 0 ELSE tick + t.interval)

ApplyNew(w, c, instance) ==
    LET replaced == InChannel(w, c)
    IN IF \/ Cardinality(w.body[c.target].active) - Cardinality(replaced) + 1 > MaxActive
          \/ \E e \in replaced : ~Expiring(w, c.target, e).ok
       THEN Failed(w)
       ELSE Begun(w, Replace(RunExpiring(w, c.target, replaced), c,
                             StartOf(c, instance, w.tick), replaced),
                  c.target, Applying(w, c, instance, 1))

ApplyStatus(w, c, instance) ==
    IF Same(w, c) # {} /\ Templates[c.status].policy \in {"refresh", "stack"}
    THEN ApplyAgain(w, c, CHOOSE e \in Same(w, c) : TRUE)
    ELSE ApplyNew(w, c, instance)

RemoveStatus(w, c) ==
    LET gone == Same(w, c)
    IN CASE gone = {} -> w
         [] \E e \in gone : ~Expiring(w, c.target, e).ok -> Failed(w)
         [] OTHER -> Told(RunExpiring(Without(w, c.target, gone), c.target, gone), c.target)

(***************************************************************************)
(* A batch.                                                                *)
(***************************************************************************)

strikes_untargetable(w, c) ==
    /\ c.type \in {"apply_damage", "apply_health_change", "apply_impulse", "apply_pull",
                   "apply_status"}
    /\ Here(w, c.target) /\ status_untargetable(w, c.target)
resisted_status(w, c) ==
    /\ c.type = "apply_status" /\ c.amount > 0
    /\ Here(w, c.target) /\ c.amount <= w.body[c.target].resistance

\* The channels a body would have in use, command by command.
Projected(w, commands) ==
    LET channels == FoldLeft(
            LAMBDA acc, c :
               IF c.type = "apply_status"
               THEN [acc EXCEPT !.in[c.target][Templates[c.status].channel] = c.status,
                       !.ok = @ /\ Cardinality({ch \in DOMAIN acc.in[c.target] :
                                 acc.in[c.target][ch] # "none"
                                   \/ ch = Templates[c.status].channel}) <= MaxActive]
               ELSE IF c.type = "remove_status"
               THEN [acc EXCEPT !.in[c.target] =
                       [ch \in DOMAIN @ |-> IF @[ch] = c.status THEN "none" ELSE @[ch]]]
               ELSE acc,
            [ok |-> TRUE,
             in |-> [b \in Bodies |->
                       [ch \in {Templates[n].channel : n \in DOMAIN Templates} |->
                          IF \E e \in w.body[b].active : Templates[e.name].channel = ch
                          THEN (CHOOSE e \in w.body[b].active :
                                   Templates[e.name].channel = ch).name
                          ELSE "none"]]],
            commands)
    IN channels.ok

\* The graphs of statuses a command will run, as far as they are known before
\* anything has been carried out.
Planned(w, c, instance) ==
    CASE c.type = "remove_status" -> {Expiring(w, c.target, e) : e \in Same(w, c)}
      [] c.type # "apply_status" -> {}
      [] Same(w, c) # {} /\ Templates[c.status].policy = "refresh" -> {}
      [] Same(w, c) # {} /\ Templates[c.status].policy = "stack" ->
            {Applying(w, c, e.instance, e.stacks + 1) :
                e \in {f \in Same(w, c) : f.stacks < Templates[c.status].maxStacks}}
      [] OTHER -> {Expiring(w, c.target, e) : e \in InChannel(w, c)}
                    \cup {Applying(w, c, instance, 1)}

Runnable(w, c) ==
    /\ c.source # Nobody \/ c.type \in {"spawn_entity", "spawn_projectile", "lock_strike"}
    /\ c.type \in OnTarget \cup {"spawn_entity"} => Here(w, c.target)
    /\ c.type \in {"apply_status", "remove_status"} => c.status \in DOMAIN Templates

\* One command of a batch; what has failed before it is not gone on with.
Execute(w, c, instance) ==
    CASE ~w.ok -> w
      [] c.type = "apply_status" -> ApplyStatus(w, c, instance)
      [] c.type = "remove_status" -> RemoveStatus(w, c)
      [] OTHER -> Simple(w, c)

\* What has failed half way stays done, and is not remembered.
Settle(w) == IF w.ok THEN commit_action_graph_batch(w) ELSE cancel_action_graph_batch(w)

\* All is checked before anything is done.
Checked(w, key, commands, instances, planned) ==
    IF \/ \E i \in DOMAIN commands : ~Runnable(w, commands[i])
       \/ ~Projected(w, commands)
       \/ \E p \in planned : ~p.ok
    THEN Failed(w)
    ELSE reserve_all(w, {key} \cup {p.key : p \in {q \in planned : q.batch # <<>>}})

Reached(w, key, batch) ==
    SelectSeq(batch, LAMBDA c :
       ~(key[1] = "request" /\ strikes_untargetable(w, c)) /\ ~resisted_status(w, c))

Carry(w, key, commands) ==
    LET applies == {i \in DOMAIN commands : commands[i].type = "apply_status"}
        instances == [i \in DOMAIN commands |-> w.next + Cardinality({j \in applies : j < i})]
    IN Settle(FoldLeft(
          LAMBDA v, i : Execute(v, commands[i], instances[i]),
          Checked([w EXCEPT !.next = @ + Cardinality(applies)], key, commands, instances,
                  UNION {Planned(w, commands[i], instances[i]) : i \in DOMAIN commands}),
          [i \in DOMAIN commands |-> i]))

\* Faulty variant: a batch seen before is carried out again.
execute_action_graph_commands_again(w, key, batch) ==
    Carry([w EXCEPT !.done = {d \in @ : d.key # key}], key, Reached(w, key, batch))

execute_action_graph_commands(w, key, batch) ==
    IF action_graph_batch_processed(w, key) THEN w
    ELSE Carry(w, key, Reached(w, key, batch))
=============================================================================
