-------------------------- MODULE ActionRuntimeProofs --------------------------
(***************************************************************************)
(* What one pass over an actor preserves, operator by operator, for every  *)
(* catalog of valid templates.  The theorems about WeaponActions and       *)
(* ActionSession rest on WeaponPassKeeps, IdlePassKeeps and what follows.  *)
(*                                                                         *)
(* The second half says what a pass reports, seen from outside the actor:  *)
(* it interrupts, reads the input and advances, and each of the three      *)
(* leaves the action alone (Quiet), ends it (Cut), begins one (Begun),     *)
(* turns an intent down (TurnedDown), or commits (Struck, Finished).       *)
(* Every history property of the actor and of the session is an induction  *)
(* over these few shapes.                                                  *)
(*                                                                         *)
(* The last part counts (Says): a pass speaks at most one word that        *)
(* becomes a result, and its count is no less than the action's before the *)
(* pass and no more than the action's after it.                            *)
(*                                                                         *)
(* Field sets stay folded (only ActorType is expanded), and the value each *)
(* EXCEPT writes is shown to be in its set first: the provers handle       *)
(* records of this size only that way.                                     *)
(***************************************************************************)
EXTENDS ActionRuntime, TLAPS

Busy(s) == s.phase # "None" => s.source \in Weapons
Magazines(s) == \A w \in Weapons : s.ammo[w] <= MagazineSize[w]
Latched(s) == s.reloading => InProgress(s) /\ s.binding = "Reload"

\* What the passes keep true of an actor: its type, a template for the action
\* it is in, no more rounds than the magazine holds, and the reload latch only
\* under a reload action.
Sound(s) == s \in ActorType /\ Busy(s) /\ Magazines(s) /\ Latched(s)

-----------------------------------------------------------------------------
(* Constants.                                                              *)

LEMMA Zeros ==
  /\ 0 \in Ids /\ 1 \in Ids /\ 0 \in Ticks /\ TickCap \in Ticks
  /\ 0 \in Counts /\ BeamLife \in Ticks /\ NoWeapon \in Arms
  /\ "None" \in Phases /\ "Windup" \in Phases /\ "Active" \in Phases
  /\ "Recovery" \in Phases
  /\ "PrimaryFire" \in Bindings /\ "Reload" \in Bindings
  BY RuntimeAssumption DEF Ids, Ticks, Counts, Arms, Phases, Bindings

LEMMA OutcomeKinds ==
  /\ "Admitted" \in OutcomeTypes /\ "Committed" \in OutcomeTypes
  /\ "Completed" \in OutcomeTypes /\ "Corrected" \in OutcomeTypes
  /\ "Rejected" \in OutcomeTypes
  /\ \A b \in Bindings : b \in OutcomeBindings
  /\ Malformed \in OutcomeBindings
  /\ Malformed \notin Bindings
  BY DEF OutcomeTypes, OutcomeBindings, Bindings, Malformed

LEMMA ReasonFacts ==
  /\ "None" \in Reasons /\ "InvalidActionId" \in Reasons /\ "Busy" \in Reasons
  /\ "MissingTemplate" \in Reasons /\ "Dead" \in Reasons
  /\ "Reloading" \in Reasons /\ "NoAmmo" \in Reasons /\ "Cooldown" \in Reasons
  /\ "EffectFailed" \in Reasons /\ "ItemAction" \in Reasons
  /\ "WeaponChanged" \in Reasons /\ "TimedOut" \in Reasons
  /\ "Cancelled" \in Reasons /\ "Sheltered" \in Reasons
  /\ "StatusBlocked" \in Reasons /\ "Staggered" \in Reasons
  /\ "KnockedBack" \in Reasons
  BY DEF Reasons, BlockReasons

LEMMA TemplateFacts ==
  ASSUME NEW w \in Weapons, NEW b
  PROVE  /\ TemplateFor(w, b) \in ActionTemplates
         /\ TemplateFor(w, b).offset \in Ticks
         /\ TemplateFor(w, b).interval \in Ticks
         /\ TemplateFor(w, b).recovery \in Ticks
         /\ TemplateFor(w, b).maxCommits \in Counts
         /\ TemplateFor(w, b).cost \in Nat
  BY RuntimeAssumption DEF TemplateFor, ActionTemplates

-----------------------------------------------------------------------------
(* Outcomes.                                                               *)

LEMMA OutcomeType ==
  ASSUME NEW i \in Ids, NEW b \in OutcomeBindings, NEW n \in Nat,
         NEW t \in OutcomeTypes, NEW r \in Reasons
  PROVE  /\ Outcome(i, b, n, t, r) \in Outcomes
         /\ Outcome(i, b, n, t, r).id = i
         /\ Outcome(i, b, n, t, r).type = t
  BY RuntimeAssumption DEF MinOf, Counts, Outcome, Outcomes

\* push only appends: every other field is untouched.
LEMMA PushSound ==
  ASSUME NEW s, Sound(s), NEW o \in Outcomes
  PROVE  /\ Sound(push(s, o))
         /\ push(s, o).phase = s.phase /\ push(s, o).id = s.id
         /\ push(s, o).source = s.source /\ push(s, o).binding = s.binding
         /\ push(s, o).out = Append(s.out, o)
<1>1. s \in ActorType BY DEF Sound
<1>2. s.out \in Seq(Outcomes) BY <1>1 DEF ActorType
<1>3. Append(s.out, o) \in Seq(Outcomes) BY <1>2
<1>4. push(s, o) \in ActorType BY <1>1, <1>3 DEF push, ActorType
<1>5. /\ push(s, o).phase = s.phase /\ push(s, o).id = s.id
      /\ push(s, o).source = s.source /\ push(s, o).binding = s.binding
      /\ push(s, o).out = Append(s.out, o)
      /\ push(s, o).ammo = s.ammo /\ push(s, o).reloading = s.reloading
  BY <1>1 DEF push, ActorType
<1>q. QED BY <1>4, <1>5 DEF Sound, Busy, Magazines, Latched, InProgress

LEMMA ResetSound ==
  ASSUME NEW s, s \in ActorType, Magazines(s), ~s.reloading
  PROVE  /\ Sound(reset_action(s))
         /\ reset_action(s).out = s.out
         /\ reset_action(s).phase = "None"
  BY Zeros DEF reset_action, ActorType, Sound, Busy, Magazines, Latched

\* Under Latched, letting go of an action's resources always drops the latch.
LEMMA ReleaseSound ==
  ASSUME NEW s, Sound(s)
  PROVE  /\ Sound(release_action_resources(s))
         /\ ~release_action_resources(s).reloading
         /\ release_action_resources(s).out = s.out
<1> DEFINE r == release_action_resources(s)
           latch == s.reloading /\ s.binding # "Reload"
<1>1. s \in ActorType BY DEF Sound
<1>2. latch \in BOOLEAN OBVIOUS
<1>3. r \in ActorType
  BY <1>1, <1>2, Zeros, ZenonT(30) DEF release_action_resources, ActorType
<1>4. /\ r.out = s.out /\ r.ammo = s.ammo /\ r.phase = s.phase
      /\ r.source = s.source /\ r.reloading = latch
  BY <1>1 DEF release_action_resources, ActorType
<1>5. ~latch BY DEF Sound, Latched
<1>6. ~r.reloading BY <1>4, <1>5
<1>q. QED BY <1>3, <1>4, <1>6 DEF Sound, Busy, Magazines, Latched

LEMMA RecoverySound ==
  ASSUME NEW s, Sound(s), NEW t, t.recovery \in Ticks, s.source \in Weapons
  PROVE  /\ Sound(enter_recovery(s, t))
         /\ enter_recovery(s, t).out = s.out
<1> DEFINE r == release_action_resources(s)
           e == [r EXCEPT !.rest = t.recovery, !.phase = "Recovery",
                          !.cancelAfter = FALSE]
<1>1. /\ Sound(r) /\ ~r.reloading /\ r.out = s.out BY ReleaseSound
<1>2. r \in ActorType /\ Magazines(r) BY <1>1 DEF Sound
<1>3. r.source = s.source
  BY DEF release_action_resources, ActorType, Sound
<1>h. HIDE DEF r
<1>4. CASE t.recovery = 0
  BY <1>1, <1>2, <1>4, ResetSound DEF enter_recovery, r
<1>5. CASE t.recovery # 0
  <2>1. e \in ActorType BY <1>2, Zeros DEF ActorType
  <2>2. /\ e.out = r.out /\ e.ammo = r.ammo /\ e.source = r.source
        /\ e.reloading = r.reloading
    BY <1>2 DEF ActorType
  <2>3. Sound(e)
    BY <2>1, <2>2, <1>1, <1>2, <1>3 DEF Sound, Busy, Magazines, Latched
  <2>q. QED BY <2>2, <2>3, <1>1, <1>5 DEF enter_recovery, r
<1>q. QED BY <1>4, <1>5

LEMMA SettleSound ==
  ASSUME NEW s, Sound(s)
  PROVE  /\ Sound(settle_recovery(s))
         /\ settle_recovery(s).out = s.out
         /\ InProgress(s) => settle_recovery(s) = s
  BY ResetSound DEF Sound, Latched, InProgress, settle_recovery

-----------------------------------------------------------------------------
(* Covers: an instance is under way or its end is among the outcomes.      *)

EndReported(s, i) == \E k \in DOMAIN s.out : s.out[k].id = i /\ Ends(s.out[k])
Covers(s, i) == (InProgress(s) /\ s.id = i) \/ EndReported(s, i)

\* An end, once reported, stays among the outcomes as more are appended.
LEMMA AppendKeepsEnds ==
  ASSUME NEW u \in Seq(Outcomes), NEW o \in Outcomes, NEW i
  PROVE  LET v == Append(u, o)
         IN /\ (\E k \in DOMAIN u : u[k].id = i /\ Ends(u[k])) =>
                 \E k \in DOMAIN v : v[k].id = i /\ Ends(v[k])
            /\ o.id = i /\ Ends(o) =>
                 \E k \in DOMAIN v : v[k].id = i /\ Ends(v[k])
<1> DEFINE v == Append(u, o)
<1>1. /\ Len(v) = Len(u) + 1 /\ DOMAIN v = 1..(Len(u) + 1)
      /\ DOMAIN u = 1..Len(u) /\ Len(u) \in Nat
      /\ v[Len(u) + 1] = o
      /\ \A k \in 1..Len(u) : v[k] = u[k]
  OBVIOUS
<1>2. \A k \in DOMAIN u : k \in DOMAIN v /\ v[k] = u[k] BY <1>1
<1>3. Len(u) + 1 \in DOMAIN v BY <1>1
<1>q. QED BY <1>1, <1>2, <1>3, Zenon

LEMMA PushCovers ==
  ASSUME NEW s, Sound(s), NEW o \in Outcomes, NEW i
  PROVE  /\ Covers(s, i) => Covers(push(s, o), i)
         /\ EndReported(s, i) => EndReported(push(s, o), i)
         /\ o.id = i /\ Ends(o) => EndReported(push(s, o), i)
<1>1. s.out \in Seq(Outcomes) BY DEF Sound, ActorType
<1>2. /\ push(s, o).out = Append(s.out, o)
      /\ push(s, o).phase = s.phase /\ push(s, o).id = s.id
  BY PushSound
<1>q. QED BY <1>1, <1>2, AppendKeepsEnds DEF Covers, EndReported, InProgress

LEMMA PushOutcome ==
  ASSUME NEW s, Sound(s), NEW t \in OutcomeTypes, NEW r \in Reasons
  PROVE  LET p == push_outcome(s, t, r)
         IN /\ Sound(p)
            /\ p.phase = s.phase /\ p.id = s.id /\ p.source = s.source
            /\ p.binding = s.binding
            /\ \A i : Covers(s, i) => Covers(p, i)
            /\ t \in {"Completed", "Corrected", "Rejected"} => EndReported(p, s.id)
<1> DEFINE o == Outcome(s.id, s.binding, s.commits, t, r)
<1>1. s.id \in Ids /\ s.binding \in Bindings /\ s.commits \in Counts
  BY DEF Sound, ActorType
<1>2. s.commits \in Nat BY <1>1, RuntimeAssumption DEF Counts
<1>3. s.binding \in OutcomeBindings BY <1>1, OutcomeKinds
<1>4. o \in Outcomes /\ o.id = s.id /\ o.type = t
  BY <1>1, <1>2, <1>3, RuntimeAssumption DEF MinOf, Counts, Outcome, Outcomes
<1>5. push_outcome(s, t, r) = push(s, o) BY DEF push_outcome
<1>h. HIDE DEF o
<1>6. /\ Sound(push(s, o))
      /\ push(s, o).phase = s.phase /\ push(s, o).id = s.id
      /\ push(s, o).source = s.source /\ push(s, o).binding = s.binding
  BY <1>4, PushSound
<1>7. \A i : Covers(s, i) => Covers(push(s, o), i) BY <1>4, PushCovers
<1>8. t \in {"Completed", "Corrected", "Rejected"} => EndReported(push(s, o), s.id)
  BY <1>4, PushCovers DEF Ends
<1>q. QED BY <1>5, <1>6, <1>7, <1>8

\* The shape of every lemma below: the actor stays sound, and an instance that
\* was covered stays covered.
Keeps(s, r) == Sound(r) /\ \A i : Covers(s, i) => Covers(r, i)

LEMMA KeepsTrans ==
  ASSUME NEW s, NEW r, NEW u, Keeps(s, r), Keeps(r, u)
  PROVE  Keeps(s, u)
  BY DEF Keeps

\* An actor whose action is over covers what its outcomes report.
LEMMA SameOutcomes ==
  ASSUME NEW s, NEW r, Sound(r), r.out = s.out,
         InProgress(s) => EndReported(s, s.id)
  PROVE  Keeps(s, r)
  BY DEF Keeps, Covers, EndReported

LEMMA EndOutrightKeeps ==
  ASSUME NEW s, Sound(s), NEW reason \in Reasons
  PROVE  Keeps(s, EndOutright(s, reason))
<1> DEFINE p == push_outcome(s, "Corrected", reason)
           r == release_action_resources(p)
<1>1. /\ Sound(p) /\ p.id = s.id /\ p.phase = s.phase
      /\ \A i : Covers(s, i) => Covers(p, i)
      /\ EndReported(p, s.id)
  BY OutcomeKinds, PushOutcome
<1>h. HIDE DEF p
<1>2. Sound(r) /\ ~r.reloading /\ r.out = p.out BY <1>1, ReleaseSound
<1>h2. HIDE DEF r
<1>3. Sound(reset_action(r)) /\ reset_action(r).out = p.out
  BY <1>2, ResetSound DEF Sound
<1>4. Keeps(p, reset_action(r)) BY <1>1, <1>3, SameOutcomes
<1>5. Keeps(s, reset_action(r)) BY <1>1, <1>4 DEF Keeps
<1>q. QED BY <1>5 DEF EndOutright, p, r

LEMMA CorrectedRecoveryKeeps ==
  ASSUME NEW s, Sound(s), s.source \in Weapons, NEW reason \in Reasons,
         NEW t, t.recovery \in Ticks
  PROVE  Keeps(s, enter_recovery(push_outcome(s, "Corrected", reason), t))
<1> DEFINE p == push_outcome(s, "Corrected", reason)
<1>1. /\ Sound(p) /\ p.id = s.id /\ p.phase = s.phase /\ p.source = s.source
      /\ \A i : Covers(s, i) => Covers(p, i)
      /\ EndReported(p, s.id)
  BY OutcomeKinds, PushOutcome
<1>h. HIDE DEF p
<1>2. Sound(enter_recovery(p, t)) /\ enter_recovery(p, t).out = p.out
  BY <1>1, RecoverySound
<1>3. Keeps(p, enter_recovery(p, t)) BY <1>1, <1>2, SameOutcomes
<1>q. QED BY <1>1, <1>3 DEF Keeps, p

\* A field no invariant reads may change freely.
LEMMA SameAction ==
  ASSUME NEW s, Sound(s), NEW r \in ActorType,
         r.out = s.out, r.phase = s.phase, r.id = s.id, r.source = s.source,
         r.binding = s.binding, r.ammo = s.ammo, r.reloading = s.reloading
  PROVE  Keeps(s, r)
  BY DEF Keeps, Sound, Busy, Magazines, Latched, InProgress, Covers, EndReported

LEMMA KeepsItself ==
  ASSUME NEW s, Sound(s)
  PROVE  Keeps(s, s)
  BY DEF Keeps

-----------------------------------------------------------------------------
(* Interrupts.                                                             *)

LEMMA InterruptsKeep ==
  ASSUME NEW s, Sound(s)
  PROVE  Keeps(s, Interrupts(s))
<1>1. ASSUME NEW a, Sound(a)
      PROVE  Keeps(a, interrupt_staggered_actions(a))
  <2> DEFINE seen == [a EXCEPT !.stagger = FALSE]
  <2>1. a \in ActorType BY <1>1 DEF Sound
  <2>2. seen \in ActorType BY <2>1 DEF ActorType
  <2>3. /\ seen.out = a.out /\ seen.phase = a.phase /\ seen.id = a.id
        /\ seen.source = a.source /\ seen.binding = a.binding
        /\ seen.ammo = a.ammo /\ seen.reloading = a.reloading
    BY <2>1 DEF ActorType
  <2>4. Keeps(a, seen) BY <1>1, <2>2, <2>3, SameAction
  <2>h. HIDE DEF seen
  <2>5. Keeps(seen, EndOutright(seen, "Staggered"))
    BY <2>4, EndOutrightKeeps, ReasonFacts DEF Keeps
  <2>q. QED BY <2>4, <2>5, KeepsTrans DEF interrupt_staggered_actions, seen
<1>2. ASSUME NEW a, Sound(a)
      PROVE  Keeps(a, interrupt_status_blocked_actions(a))
  BY <1>2, EndOutrightKeeps, KeepsItself, ReasonFacts DEF interrupt_status_blocked_actions
<1>3. ASSUME NEW a, Sound(a)
      PROVE  Keeps(a, interrupt_sheltered_actions(a))
  BY <1>3, EndOutrightKeeps, KeepsItself, ReasonFacts DEF interrupt_sheltered_actions
<1>4. ASSUME NEW a, Sound(a)
      PROVE  Keeps(a, interrupt_actions_for_items(a))
  <2> DEFINE seen == [a EXCEPT !.hands = FALSE]
  <2>1. a \in ActorType BY <1>4 DEF Sound
  <2>2. seen \in ActorType BY <2>1 DEF ActorType
  <2>3. /\ seen.out = a.out /\ seen.phase = a.phase /\ seen.id = a.id
        /\ seen.source = a.source /\ seen.binding = a.binding
        /\ seen.ammo = a.ammo /\ seen.reloading = a.reloading
    BY <2>1 DEF ActorType
  <2>4. Keeps(a, seen) BY <1>4, <2>2, <2>3, SameAction
  <2>5. InProgress(a) => seen.source \in Weapons
    BY <1>4, <2>3 DEF Sound, Busy, InProgress
  <2>h. HIDE DEF seen
  <2>6. Keeps(seen, EndOutright(seen, "ItemAction"))
    BY <2>4, EndOutrightKeeps, ReasonFacts DEF Keeps
  <2>7. ASSUME InProgress(a)
        PROVE  Keeps(seen, enter_recovery(push_outcome(seen, "Corrected", "ItemAction"),
                                          TemplateFor(a.source, a.binding)))
    BY <2>4, <2>5, <2>3, <2>7, TemplateFacts, CorrectedRecoveryKeeps, ReasonFacts DEF Keeps
  <2>q. QED BY <2>4, <2>6, <2>7, KeepsTrans DEF interrupt_actions_for_items, seen
<1> DEFINE a1 == interrupt_staggered_actions(s)
           a2 == interrupt_status_blocked_actions(a1)
           a3 == interrupt_sheltered_actions(a2)
           a4 == interrupt_actions_for_items(a3)
<1>5. Keeps(s, a1) BY <1>1
<1>6. Keeps(a1, a2) BY <1>2, <1>5 DEF Keeps
<1>7. Keeps(a2, a3) BY <1>3, <1>6 DEF Keeps
<1>8. Keeps(a3, a4) BY <1>4, <1>7 DEF Keeps
<1>9. Interrupts(s) = a4 BY DEF Interrupts
<1>h. HIDE DEF a1, a2, a3, a4
<1>q. QED BY <1>5, <1>6, <1>7, <1>8, <1>9, KeepsTrans

-----------------------------------------------------------------------------
(* Reading an input.                                                       *)

\* An update of the weapons that leaves the action alone and keeps every
\* magazine within its size.
LEMMA SameActionAmmo ==
  ASSUME NEW s, Sound(s), NEW r \in ActorType, Magazines(r),
         r.out = s.out, r.phase = s.phase, r.id = s.id, r.source = s.source,
         r.binding = s.binding, r.reloading => s.reloading
  PROVE  Keeps(s, r)
  BY DEF Keeps, Sound, Busy, Latched, InProgress, Covers, EndReported

\* A full magazine taken from the reserve.
LEMMA RefillKeeps ==
  ASSUME NEW s, Sound(s), NEW w \in Weapons, s.reserve[w] > 0
  PROVE  Keeps(s, [s EXCEPT !.ammo[w] = MagazineSize[w], !.reserve[w] = @ - 1])
<1> DEFINE a == [s.ammo EXCEPT ![w] = MagazineSize[w]]
           v == [s.reserve EXCEPT ![w] = s.reserve[w] - 1]
           r == [s EXCEPT !.ammo = a, !.reserve = v]
<1>1. s \in ActorType BY DEF Sound
<1>2. s.ammo \in [Weapons -> Nat] /\ s.reserve \in [Weapons -> Nat]
  BY <1>1 DEF ActorType, PerWeapon
<1>3. MagazineSize[w] \in Nat /\ s.reserve[w] - 1 \in Nat
  BY <1>2, RuntimeAssumption
<1>4. a \in PerWeapon(Nat) BY <1>2, <1>3 DEF PerWeapon
<1>5. v \in PerWeapon(Nat) BY <1>2, <1>3 DEF PerWeapon
<1>6. \A x \in Weapons : a[x] <= MagazineSize[x]
  BY <1>2, RuntimeAssumption DEF Sound, Magazines
<1>h. HIDE DEF a, v
<1>7. r \in ActorType BY <1>1, <1>4, <1>5 DEF ActorType
<1>8. /\ r.out = s.out /\ r.phase = s.phase /\ r.id = s.id
      /\ r.source = s.source /\ r.binding = s.binding
      /\ r.reloading = s.reloading /\ r.ammo = a
  BY <1>1 DEF ActorType
<1>9. Magazines(r) BY <1>6, <1>8 DEF Magazines
<1>10. Keeps(s, r) BY <1>7, <1>8, <1>9, SameActionAmmo
<1>q. QED BY <1>10 DEF r, a, v

LEMMA HoldWeaponKeeps ==
  ASSUME NEW s, Sound(s), NEW w
  PROVE  Keeps(s, hold_selected_weapon(s, w))
<1> DEFINE h == [v \in Weapons |-> IF v = w THEN FALSE
                                   ELSE v = s.active \/ s.holstered[v]]
           y == [v \in Weapons |-> IF v = s.active \/ v = w THEN 0 ELSE s.away[v]]
           put == [s EXCEPT !.holstered = h, !.away = y, !.active = w]
<1>1. s \in ActorType BY DEF Sound
<1>2. CASE w \notin s.equipped \/ w = s.active \/ InProgress(s)
  BY <1>2, KeepsItself DEF hold_selected_weapon
<1>3. CASE ~(w \notin s.equipped \/ w = s.active \/ InProgress(s))
  <2>1. w \in Weapons
    BY <1>1, <1>3 DEF ActorType
  <2>2. w \in Arms BY <2>1 DEF Arms
  <2>3. s.away \in [Weapons -> Ticks] /\ s.holstered \in [Weapons -> BOOLEAN]
    BY <1>1 DEF ActorType, PerWeapon
  <2>4. h \in PerWeapon(BOOLEAN) BY <2>3, Zenon DEF PerWeapon
  <2>5. y \in PerWeapon(Ticks) BY <2>3, Zeros, Zenon DEF PerWeapon
  <2>h. HIDE DEF h, y
  <2>6. put \in ActorType BY <1>1, <2>2, <2>4, <2>5 DEF ActorType
  <2>7. /\ put.out = s.out /\ put.phase = s.phase /\ put.id = s.id
        /\ put.source = s.source /\ put.binding = s.binding
        /\ put.ammo = s.ammo /\ put.reloading = s.reloading
        /\ put.reserve = s.reserve
    BY <1>1 DEF ActorType
  <2>8. Keeps(s, put) BY <2>6, <2>7, SameAction
  <2>9. hold_selected_weapon(s, w) =
          IF /\ s.holstered[w]
             /\ s.away[w] >= ReloadTemplate[w].offset
             /\ s.ammo[w] < MagazineSize[w]
             /\ s.reserve[w] > 0
          THEN [put EXCEPT !.ammo[w] = MagazineSize[w], !.reserve[w] = @ - 1]
          ELSE put
    BY <1>3 DEF hold_selected_weapon, h, y
  <2>h2. HIDE DEF put
  <2>10. s.reserve[w] > 0 =>
           Keeps(put, [put EXCEPT !.ammo[w] = MagazineSize[w], !.reserve[w] = @ - 1])
    BY <2>1, <2>7, <2>8, RefillKeeps DEF Keeps
  <2>q. QED BY <2>8, <2>9, <2>10, KeepsTrans
<1>q. QED BY <1>2, <1>3

LEMMA ContinuousKeeps ==
  ASSUME NEW s, Sound(s), NEW in \in Inputs(Ids)
  PROVE  Keeps(s, take_continuous_input(s, in))
<1> DEFINE r == [s EXCEPT !.contId = in.holdId, !.contHeld = in.held, !.silence = 0]
<1>1. s \in ActorType BY DEF Sound
<1>2. in.holdId \in Ids /\ in.held \in BOOLEAN BY DEF Inputs
<1>3. r \in ActorType BY <1>1, <1>2, Zeros DEF ActorType
<1>4. /\ r.out = s.out /\ r.phase = s.phase /\ r.id = s.id
      /\ r.source = s.source /\ r.binding = s.binding
      /\ r.ammo = s.ammo /\ r.reloading = s.reloading
  BY <1>1 DEF ActorType
<1>5. Keeps(s, r) BY <1>3, <1>4, SameAction
<1>q. QED BY <1>5, KeepsItself DEF take_continuous_input

\* What an admission tells: the refusal is a reason, and none means an idle
\* actor, a weapon with templates and a well-formed binding.
LEMMA RefusalFacts ==
  ASSUME NEW s, Sound(s), NEW intent \in Intents(Ids), NEW w
  PROVE  /\ AdmissionRefusal(s, intent, w) \in Reasons
         /\ AdmissionRefusal(s, intent, w) = "None" =>
              /\ s.phase = "None" /\ w \in Weapons
              /\ intent.binding \in Bindings
<1>1. action_block_reason(s) \in Reasons BY ReasonFacts DEF action_block_reason
<1>2. intent.binding \in OutcomeBindings BY DEF Intents
<1>3. intent.binding # Malformed => intent.binding \in Bindings
  BY <1>2 DEF OutcomeBindings
<1>h. HIDE DEF action_block_reason
<1>4. AdmissionRefusal(s, intent, w) \in Reasons
  BY <1>1, ReasonFacts DEF AdmissionRefusal
<1>5. AdmissionRefusal(s, intent, w) = "None" =>
        s.phase = "None" /\ w \in Weapons /\ intent.binding # Malformed
  BY DEF AdmissionRefusal
<1>q. QED BY <1>3, <1>4, <1>5

LEMMA StartKeeps ==
  ASSUME NEW s, Sound(s), NEW intent \in Intents(Ids), NEW w \in Weapons,
         intent.binding \in Bindings, s.phase = "None"
  PROVE  /\ Keeps(s, Start(s, intent, w))
         /\ Covers(Start(s, intent, w), intent.id)
<1> DEFINE t == TemplateFor(w, intent.binding)
           n == NextGenerated(intent.id)
           phase == IF t.offset = 0 THEN "Active" ELSE "Windup"
           latch == s.reloading \/ intent.binding = "Reload"
           offset == t.offset
           a == [s EXCEPT !.nextId = n, !.id = intent.id,
                     !.binding = intent.binding, !.source = w,
                     !.wait = offset, !.rest = 0, !.commits = 0,
                     !.cancelAfter = FALSE, !.silence = 0,
                     !.phase = phase, !.reloading = latch]
<1>1. s \in ActorType BY DEF Sound
<1>2. offset \in Ticks BY TemplateFacts
<1>3. intent.id \in Ids BY DEF Intents
<1>4. n \in Ids BY <1>3, RuntimeAssumption DEF NextGenerated, Ids
<1>5. phase \in Phases /\ phase \in {"Windup", "Active"} BY Zeros
<1>6. latch \in BOOLEAN OBVIOUS
<1>7. w \in Arms BY DEF Arms
<1>8. latch => intent.binding = "Reload" BY DEF Sound, Latched, InProgress
<1>9. Start(s, intent, w) = push_outcome(a, "Admitted", "None") BY DEF Start
<1>h. HIDE DEF t, n, phase, latch, offset
<1>10. a \in ActorType
  BY <1>1, <1>2, <1>3, <1>4, <1>5, <1>6, <1>7, Zeros DEF ActorType
<1>11. /\ a.out = s.out /\ a.phase = phase /\ a.id = intent.id /\ a.source = w
       /\ a.binding = intent.binding /\ a.ammo = s.ammo /\ a.reloading = latch
  BY <1>1 DEF ActorType
<1>h2. HIDE DEF a
<1>12. Sound(a)
  BY <1>5, <1>8, <1>10, <1>11 DEF Sound, Busy, Magazines, Latched, InProgress
<1>13. Keeps(s, a)
  BY <1>11, <1>12, SameOutcomes DEF InProgress
<1>14. Covers(a, intent.id) BY <1>5, <1>11 DEF Covers, InProgress
<1>15. Keeps(a, push_outcome(a, "Admitted", "None"))
  BY <1>12, PushOutcome, OutcomeKinds, ReasonFacts DEF Keeps
<1>q. QED BY <1>9, <1>13, <1>14, <1>15, KeepsTrans DEF Keeps

LEMMA RejectionKeeps ==
  ASSUME NEW s, Sound(s), NEW intent \in Intents(Ids), NEW reason \in Reasons
  PROVE  /\ Keeps(s, push_rejection(s, intent, reason))
         /\ Covers(push_rejection(s, intent, reason), intent.id)
<1> DEFINE o == Outcome(intent.id, intent.binding, 0, "Rejected", reason)
<1>1. intent.id \in Ids /\ intent.binding \in OutcomeBindings BY DEF Intents
<1>2. MinOf(CountCap, 0) \in Counts
  BY RuntimeAssumption DEF MinOf, Counts
<1>3. o \in Outcomes /\ o.id = intent.id /\ o.type = "Rejected"
  BY <1>1, <1>2, OutcomeKinds DEF Outcome, Outcomes
<1>4. push_rejection(s, intent, reason) = push(s, o) BY DEF push_rejection
<1>h. HIDE DEF o
<1>5. Ends(o) BY <1>3 DEF Ends
<1>6. Keeps(s, push(s, o)) BY <1>3, PushSound, PushCovers DEF Keeps
<1>7. EndReported(push(s, o), intent.id) BY <1>3, <1>5, PushCovers
<1>q. QED BY <1>4, <1>6, <1>7 DEF Covers

\* An intent that reaches admit_action is under way or refused afterwards.
LEMMA AdmitKeeps ==
  ASSUME NEW s, Sound(s), NEW in \in Inputs(Ids)
  PROVE  /\ Keeps(s, admit_action(s, in))
         /\ in.intent.id # 0 => Covers(admit_action(s, in), in.intent.id)
<1> DEFINE a == settle_recovery(s)
           refusal == AdmissionRefusal(a, in.intent, in.selected)
<1>1. in.intent \in Intents(Ids) BY DEF Inputs
<1>2. Sound(a) /\ a.out = s.out /\ (InProgress(s) => a = s) BY SettleSound
<1>3. Keeps(s, a)
  BY <1>2, KeepsItself DEF Keeps, Covers, EndReported
<1>h. HIDE DEF a
<1>4. /\ refusal \in Reasons
      /\ refusal = "None" => /\ a.phase = "None" /\ in.selected \in Weapons
                             /\ in.intent.binding \in Bindings
  BY <1>1, <1>2, RefusalFacts
<1>h2. HIDE DEF refusal
<1>5. admit_action(s, in) =
        IF in.intent.id = 0 THEN s
        ELSE IF refusal = "None" THEN Start(a, in.intent, in.selected)
        ELSE push_rejection(a, in.intent, refusal)
  BY DEF admit_action, a, refusal
<1>6. CASE in.intent.id = 0 BY <1>5, <1>6, KeepsItself
<1>7. CASE in.intent.id # 0 /\ refusal = "None"
  BY <1>1, <1>2, <1>3, <1>4, <1>5, <1>7, StartKeeps, KeepsTrans
<1>8. CASE in.intent.id # 0 /\ refusal # "None"
  BY <1>1, <1>2, <1>3, <1>4, <1>5, <1>8, RejectionKeeps, KeepsTrans
<1>q. QED BY <1>6, <1>7, <1>8

LEMMA ReadInputKeeps ==
  ASSUME NEW s, Sound(s), NEW in \in Inputs(Ids)
  PROVE  /\ Keeps(s, ReadInput(s, in))
         /\ in.intent.id # 0 => Covers(ReadInput(s, in), in.intent.id)
<1> DEFINE c == [s EXCEPT !.selected = in.selected]
           h == hold_selected_weapon(c, in.selected)
           u == take_continuous_input(h, in)
           a == admit_action(u, in)
<1>1. s \in ActorType BY DEF Sound
<1>2. in.selected \in Arms BY DEF Inputs
<1>3. c \in ActorType BY <1>1, <1>2 DEF ActorType
<1>4. /\ c.out = s.out /\ c.phase = s.phase /\ c.id = s.id
      /\ c.source = s.source /\ c.binding = s.binding
      /\ c.ammo = s.ammo /\ c.reloading = s.reloading
  BY <1>1 DEF ActorType
<1>5. Keeps(s, c) BY <1>3, <1>4, SameAction
<1>6. ReadInput(s, in) = take_continuous_input(a, in) BY DEF ReadInput
<1>h1. HIDE DEF c
<1>7. Keeps(c, h) BY <1>5, HoldWeaponKeeps DEF Keeps
<1>h2. HIDE DEF h
<1>8. Keeps(h, u) BY <1>7, ContinuousKeeps DEF Keeps
<1>h3. HIDE DEF u
<1>9. Keeps(u, a) /\ (in.intent.id # 0 => Covers(a, in.intent.id))
  BY <1>8, AdmitKeeps DEF Keeps
<1>h4. HIDE DEF a
<1>10. Keeps(a, take_continuous_input(a, in)) BY <1>9, ContinuousKeeps DEF Keeps
<1>11. Keeps(s, a) BY <1>5, <1>7, <1>8, <1>9, KeepsTrans
<1>q. QED BY <1>6, <1>9, <1>10, <1>11, KeepsTrans DEF Keeps

-----------------------------------------------------------------------------
(* Advancing, and the commit it emits.                                     *)

Commits ==
  [id: Ids, binding: Bindings, weapon: Weapons, count: Counts, completes: BOOLEAN]

\* What advance_action promises: a sound actor and at most one commit; what
\* was covered still is, except the instance a completing commit ends, whose
\* end the commit loop has yet to report.
Advanced(s, adv) ==
  /\ Sound(adv.actor)
  /\ \/ adv.commits = << >> /\ Keeps(s, adv.actor)
     \/ \E c \in Commits :
          /\ adv.commits = <<c>>
          /\ \A i : Covers(s, i) => \/ Covers(adv.actor, i)
                                    \/ c.completes /\ i = c.id

LEMMA StillAdvances ==
  ASSUME NEW s, NEW r, Keeps(s, r)
  PROVE  Advanced(s, Still(r))
  BY DEF Still, Advanced, Keeps

LEMMA EmitAdvances ==
  ASSUME NEW s, Sound(s), InProgress(s),
         NEW t, t.interval \in Ticks, t.recovery \in Ticks, t.maxCommits \in Counts
  PROVE  Advanced(s, EmitCommit(s, t))
<1> DEFINE count == MinOf(CountCap, s.commits + 1)
           done == (t.maxCommits # 0 /\ count >= t.maxCommits) \/ s.cancelAfter
           interval == t.interval
           a == [s EXCEPT !.phase = "Active", !.commits = count, !.wait = interval]
           c == [id |-> s.id, binding |-> s.binding, weapon |-> s.source,
                 count |-> count, completes |-> done]
           r == IF done THEN enter_recovery(a, t) ELSE a
<1>1. s \in ActorType BY DEF Sound
<1>2. /\ s.id \in Ids /\ s.binding \in Bindings /\ s.commits \in Counts
      /\ s.cancelAfter \in BOOLEAN
  BY <1>1 DEF ActorType
<1>3. s.source \in Weapons BY DEF Sound, Busy, InProgress
<1>4. count \in Counts BY <1>2, RuntimeAssumption DEF MinOf, Counts
<1>5. interval \in Ticks OBVIOUS
<1>6. done \in BOOLEAN BY <1>2
<1>7. EmitCommit(s, t).actor = r /\ EmitCommit(s, t).commits = <<c>>
  BY DEF EmitCommit
<1>h. HIDE DEF count, done, interval
<1>8. c \in Commits BY <1>2, <1>3, <1>4, <1>6 DEF Commits
<1>9. a \in ActorType BY <1>1, <1>4, <1>5, Zeros DEF ActorType
<1>10. /\ a.out = s.out /\ a.phase = "Active" /\ a.id = s.id
       /\ a.source = s.source /\ a.binding = s.binding
       /\ a.ammo = s.ammo /\ a.reloading = s.reloading
  BY <1>1 DEF ActorType
<1>h2. HIDE DEF a
<1>11. Sound(a)
  BY <1>3, <1>9, <1>10 DEF Sound, Busy, Magazines, Latched, InProgress
<1>12. \A i : Covers(s, i) => Covers(a, i)
  BY <1>10 DEF Covers, EndReported, InProgress
<1>13. CASE ~done
  BY <1>7, <1>8, <1>11, <1>12, <1>13 DEF Advanced
<1>14. CASE done
  <2>1. r = enter_recovery(a, t) BY <1>14
  <2>2. Sound(r) /\ r.out = a.out
    BY <2>1, <1>3, <1>10, <1>11, RecoverySound
  <2>3. \A i : Covers(s, i) => Covers(r, i) \/ i = s.id
    BY <2>2, <1>10 DEF Covers, EndReported
  <2>4. c.id = s.id /\ c.completes = done OBVIOUS
  <2>h. HIDE DEF c, r
  <2>q. QED BY <2>2, <2>3, <2>4, <1>7, <1>8, <1>14 DEF Advanced
<1>q. QED BY <1>13, <1>14

LEMMA ContinueAdvances ==
  ASSUME NEW s, Sound(s), InProgress(s),
         NEW t, t.interval \in Ticks, t.recovery \in Ticks, t.maxCommits \in Counts
  PROVE  Advanced(s, ContinueAction(s, t))
<1> DEFINE reason == CancelReason(s, t)
           cancel == s.cancelAfter \/ reason # "None"
           a == [s EXCEPT !.cancelAfter = cancel]
           w == [a EXCEPT !.phase = "Windup"]
<1>1. s \in ActorType BY DEF Sound
<1>2. reason \in Reasons BY ReasonFacts DEF CancelReason
<1>3. s.source \in Weapons BY DEF Sound, Busy, InProgress
<1>4. cancel \in BOOLEAN OBVIOUS
<1>5. ContinueAction(s, t) =
        IF reason # "None" /\ (s.commits > 0 \/ t.cancelBeforeFirstCommit)
        THEN Still(enter_recovery(push_outcome(s, "Corrected", reason), t))
        ELSE IF a.wait > 0 THEN Still(w)
        ELSE IF ~CanSpend(a, t)
        THEN Still(enter_recovery(push_outcome(a, "Corrected", "EffectFailed"), t))
        ELSE EmitCommit(a, t)
  BY DEF ContinueAction
<1>h. HIDE DEF reason, cancel
<1>6. a \in ActorType BY <1>1, <1>4 DEF ActorType
<1>7. /\ a.out = s.out /\ a.phase = s.phase /\ a.id = s.id
      /\ a.source = s.source /\ a.binding = s.binding
      /\ a.ammo = s.ammo /\ a.reloading = s.reloading
  BY <1>1 DEF ActorType
<1>8. Keeps(s, a) BY <1>6, <1>7, SameAction
<1>9. InProgress(a) /\ a.source \in Weapons BY <1>3, <1>7 DEF InProgress
<1>h2. HIDE DEF a
<1>10. w \in ActorType BY <1>6, Zeros DEF ActorType
<1>11. /\ w.out = a.out /\ w.phase = "Windup" /\ w.id = a.id
       /\ w.source = a.source /\ w.binding = a.binding
       /\ w.ammo = a.ammo /\ w.reloading = a.reloading
  BY <1>6 DEF ActorType
<1>h3. HIDE DEF w
<1>12. Keeps(a, w)
  BY <1>8, <1>9, <1>10, <1>11
  DEF Keeps, Sound, Busy, Magazines, Latched, InProgress, Covers, EndReported
<1>13. Advanced(s, Still(enter_recovery(push_outcome(s, "Corrected", reason), t)))
  BY <1>2, <1>3, CorrectedRecoveryKeeps, StillAdvances
<1>14. Advanced(s, Still(w)) BY <1>8, <1>12, KeepsTrans, StillAdvances
<1>15. Advanced(s, Still(enter_recovery(push_outcome(a, "Corrected", "EffectFailed"), t)))
  BY <1>8, <1>9, ReasonFacts, CorrectedRecoveryKeeps, KeepsTrans, StillAdvances DEF Keeps
<1>16. Advanced(s, EmitCommit(a, t))
  BY <1>8, <1>9, EmitAdvances DEF Keeps, Advanced
<1>q. QED BY <1>5, <1>13, <1>14, <1>15, <1>16

LEMMA AdvanceAdvances ==
  ASSUME NEW s, Sound(s)
  PROVE  Advanced(s, advance_action(s))
<1> DEFINE q == settle_recovery(s)
           a == [q EXCEPT !.advanced = TRUE]
           t == TemplateFor(a.source, a.binding)
           stop == ChargeStop(a, t)
           w == [a EXCEPT !.phase = "Windup"]
           charging == t.mode = "Charge" /\ a.commits = 0
<1>1. Sound(q) /\ q.out = s.out /\ (InProgress(s) => q = s) BY SettleSound
<1>2. Keeps(s, q) BY <1>1, KeepsItself DEF Keeps, Covers, EndReported
<1>3. advance_action(s) =
        IF s.advanced THEN Still(s)
        ELSE IF ~InProgress(a) THEN Still(a)
        ELSE IF charging /\ stop # "None" THEN Still(EndOutright(a, stop))
        ELSE IF charging /\ ~Released(a) THEN Still(w)
        ELSE ContinueAction(a, t)
  BY DEF advance_action
<1>h. HIDE DEF q
<1>4. q \in ActorType BY <1>1 DEF Sound
<1>5. a \in ActorType BY <1>4 DEF ActorType
<1>6. /\ a.out = q.out /\ a.phase = q.phase /\ a.id = q.id
      /\ a.source = q.source /\ a.binding = q.binding
      /\ a.ammo = q.ammo /\ a.reloading = q.reloading
  BY <1>4 DEF ActorType
<1>7. Keeps(q, a) BY <1>1, <1>5, <1>6, SameAction
<1>8. Keeps(s, a) BY <1>2, <1>7, KeepsTrans
<1>9. Sound(a) BY <1>8 DEF Keeps
<1>h2. HIDE DEF a
<1>10. stop \in Reasons BY ReasonFacts DEF ChargeStop
<1>11. Advanced(s, Still(s)) BY KeepsItself, StillAdvances
<1>12. Advanced(s, Still(a)) BY <1>8, StillAdvances
<1>13. Advanced(s, Still(EndOutright(a, stop)))
  BY <1>8, <1>9, <1>10, EndOutrightKeeps, KeepsTrans, StillAdvances
<1>14. ASSUME InProgress(a) PROVE Advanced(s, Still(w))
  <2>1. w \in ActorType BY <1>5, Zeros DEF ActorType
  <2>2. /\ w.out = a.out /\ w.phase = "Windup" /\ w.id = a.id
        /\ w.source = a.source /\ w.binding = a.binding
        /\ w.ammo = a.ammo /\ w.reloading = a.reloading
    BY <1>5 DEF ActorType
  <2>h. HIDE DEF w
  <2>3. Keeps(a, w)
    BY <1>9, <1>14, <2>1, <2>2
    DEF Keeps, Sound, Busy, Magazines, Latched, InProgress, Covers, EndReported
  <2>q. QED BY <2>3, <1>8, KeepsTrans, StillAdvances
<1>15. ASSUME InProgress(a) PROVE Advanced(s, ContinueAction(a, t))
  BY <1>8, <1>9, <1>15, TemplateFacts, ContinueAdvances DEF Sound, Busy, InProgress,
    Advanced, Keeps
<1>h3. HIDE DEF t, stop, w, charging
<1>q. QED BY <1>3, <1>11, <1>12, <1>13, <1>14, <1>15

-----------------------------------------------------------------------------
(* Commits take effect.                                                    *)

\* What the commit loop promises of a commit: the actor stays sound, nothing
\* covered is lost, and a commit that completes its action has its end
\* reported, whether it took effect or was refused.
Applied(s, c, r) ==
  /\ Keeps(s, r)
  /\ c.completes => EndReported(r, c.id)

LEMMA CommitOutcome ==
  ASSUME NEW c \in Commits, NEW t \in OutcomeTypes, NEW r \in Reasons
  PROVE  LET o == Outcome(c.id, c.binding, c.count, t, r)
         IN o \in Outcomes /\ o.id = c.id /\ o.type = t
  BY OutcomeKinds, RuntimeAssumption DEF Commits, MinOf, Counts, Outcome, Outcomes

LEMMA RefuseApplies ==
  ASSUME NEW s, Sound(s), NEW c \in Commits, NEW reason \in Reasons
  PROVE  Applied(s, c, Refuse(s, c, reason))
<1> DEFINE o == Outcome(c.id, c.binding, c.count, "Corrected", reason)
<1>1. o \in Outcomes /\ o.id = c.id /\ o.type = "Corrected"
  BY CommitOutcome, OutcomeKinds
<1>2. Refuse(s, c, reason) = push(s, o) BY DEF Refuse
<1>h. HIDE DEF o
<1>3. Ends(o) BY <1>1 DEF Ends
<1>4. Keeps(s, push(s, o)) BY <1>1, PushSound, PushCovers DEF Keeps
<1>5. EndReported(push(s, o), c.id) BY <1>1, <1>3, PushCovers
<1>q. QED BY <1>2, <1>4, <1>5 DEF Applied

LEMMA ConfirmApplies ==
  ASSUME NEW s, Sound(s), NEW c \in Commits
  PROVE  Applied(s, c, Confirm(s, c))
<1> DEFINE o == Outcome(c.id, c.binding, c.count, "Committed", "None")
           d == Outcome(c.id, c.binding, c.count, "Completed", "None")
           a == push(s, o)
<1>1. o \in Outcomes BY CommitOutcome, OutcomeKinds, ReasonFacts
<1>2. d \in Outcomes /\ d.id = c.id /\ d.type = "Completed"
  BY CommitOutcome, OutcomeKinds, ReasonFacts
<1>3. Confirm(s, c) = IF c.completes THEN push(a, d) ELSE a BY DEF Confirm
<1>h. HIDE DEF o, d
<1>4. Keeps(s, a) BY <1>1, PushSound, PushCovers DEF Keeps
<1>h2. HIDE DEF a
<1>5. Sound(a) /\ Ends(d) BY <1>2, <1>4 DEF Keeps, Ends
<1>6. Keeps(a, push(a, d)) BY <1>2, <1>5, PushSound, PushCovers DEF Keeps
<1>7. EndReported(push(a, d), c.id) BY <1>2, <1>5, PushCovers
<1>q. QED BY <1>3, <1>4, <1>6, <1>7, KeepsTrans DEF Applied

LEMMA AppliedAfter ==
  ASSUME NEW s, NEW a, NEW r, NEW c, Keeps(s, a), Applied(a, c, r)
  PROVE  Applied(s, c, r)
  BY KeepsTrans DEF Applied

LEMMA CommitReloadApplies ==
  ASSUME NEW s, Sound(s), NEW c \in Commits
  PROVE  Applied(s, c, CommitReload(s, c))
<1> DEFINE l == [s EXCEPT !.reloading = FALSE]
           f == [l EXCEPT !.ammo[c.weapon] = MagazineSize[c.weapon],
                          !.reserve[c.weapon] = @ - 1]
<1>1. s \in ActorType BY DEF Sound
<1>2. c.weapon \in Weapons BY DEF Commits
<1>3. l \in ActorType BY <1>1 DEF ActorType
<1>4. /\ l.out = s.out /\ l.phase = s.phase /\ l.id = s.id
      /\ l.source = s.source /\ l.binding = s.binding
      /\ l.ammo = s.ammo /\ l.reloading = FALSE /\ l.reserve = s.reserve
  BY <1>1 DEF ActorType
<1>5. Magazines(l) BY <1>4 DEF Sound, Magazines
<1>6. Keeps(s, l) BY <1>3, <1>4, <1>5, SameActionAmmo
<1>7. CommitReload(s, c) =
        IF s.reserve[c.weapon] = 0 \/ s.ammo[c.weapon] >= MagazineSize[c.weapon]
        THEN Refuse(l, c, "EffectFailed") ELSE Confirm(f, c)
  BY DEF CommitReload
<1>h. HIDE DEF l
<1>8. Sound(l) BY <1>6 DEF Keeps
<1>9. Applied(s, c, Refuse(l, c, "EffectFailed"))
  BY <1>6, <1>8, ReasonFacts, RefuseApplies, AppliedAfter
<1>10. ASSUME s.reserve[c.weapon] # 0 PROVE Applied(s, c, Confirm(f, c))
  <2>1. s.reserve \in [Weapons -> Nat] BY <1>1 DEF ActorType, PerWeapon
  <2>2. l.reserve[c.weapon] > 0 BY <2>1, <1>2, <1>4, <1>10
  <2>3. Keeps(l, f) BY <2>2, <1>2, <1>8, RefillKeeps
  <2>4. Keeps(s, f) BY <2>3, <1>6, KeepsTrans
  <2>h. HIDE DEF f
  <2>5. Applied(f, c, Confirm(f, c)) BY <2>4, ConfirmApplies DEF Keeps
  <2>q. QED BY <2>4, <2>5, AppliedAfter
<1>h2. HIDE DEF f
<1>q. QED BY <1>7, <1>9, <1>10

LEMMA CommitFireApplies ==
  ASSUME NEW s, Sound(s), NEW c \in Commits, NEW found
  PROVE  Applied(s, c, CommitFire(s, c, found))
<1> DEFINE w == c.weapon
           t == FireTemplate[w]
           mode == FireMode[w]
           spent == IF mode = "LockMissile" /\ ~found THEN 0 ELSE t.cost
           am == [s.ammo EXCEPT ![w] = s.ammo[w] - spent]
           cd == [s.cooldown EXCEPT ![w] = t.interval]
           ef == IF mode = "Beam" THEN BeamLife ELSE s.effect
           f == [s EXCEPT !.ammo = am, !.cooldown = cd, !.effect = ef]
           refused == s.ammo[w] < t.cost \/ (mode = "TargetedStrike" /\ ~found)
<1>1. s \in ActorType BY DEF Sound
<1>2. w \in Weapons BY DEF Commits
<1>3. t.cost \in Nat /\ t.interval \in Ticks
  BY <1>2, TemplateFacts DEF TemplateFor
<1>4. /\ s.ammo \in [Weapons -> Nat] /\ s.cooldown \in [Weapons -> Ticks]
      /\ s.effect \in Ticks
  BY <1>1 DEF ActorType, PerWeapon
<1>5. CommitFire(s, c, found) =
        IF refused THEN Refuse(s, c, "EffectFailed") ELSE Confirm(f, c)
  BY DEF CommitFire
<1>6. Applied(s, c, Refuse(s, c, "EffectFailed")) BY ReasonFacts, RefuseApplies
<1>7. ASSUME ~refused PROVE Applied(s, c, Confirm(f, c))
  <2>1. spent \in Nat /\ spent <= t.cost BY <1>3
  <2>2. s.ammo[w] - spent \in Nat /\ s.ammo[w] - spent <= s.ammo[w]
    <3>1. s.ammo[w] \in Nat BY <1>2, <1>4
    <3>2. ~(s.ammo[w] < t.cost) BY <1>7
    <3>h. HIDE DEF t, spent, w
    <3>q. QED BY <3>1, <3>2, <2>1, <1>3
  <2>3. am \in PerWeapon(Nat) BY <2>2, <1>2, <1>4 DEF PerWeapon
  <2>4. cd \in PerWeapon(Ticks) BY <1>2, <1>3, <1>4 DEF PerWeapon
  <2>5. ef \in Ticks BY <1>4, Zeros
  <2>6. \A x \in Weapons : am[x] <= MagazineSize[x]
    <3>1. \A x \in Weapons : s.ammo[x] <= MagazineSize[x]
      BY DEF Sound, Magazines
    <3>2. MagazineSize \in [Weapons -> Nat] BY RuntimeAssumption
    <3> DEFINE rounds == s.ammo[w] - spent
    <3>3. rounds \in Nat /\ rounds <= s.ammo[w] /\ s.ammo[w] \in Nat
      BY <2>2, <1>2, <1>4
    <3>4. am = [s.ammo EXCEPT ![w] = rounds] OBVIOUS
    <3>h. HIDE DEF rounds, am, w
    <3>5. ASSUME NEW x \in Weapons PROVE am[x] <= MagazineSize[x]
      BY <1>2, <1>4, <3>1, <3>2, <3>3, <3>4
    <3>q. QED BY <3>5
  <2>h. HIDE DEF am, cd, ef
  <2>7. f \in ActorType BY <1>1, <2>3, <2>4, <2>5 DEF ActorType
  <2>8. /\ f.out = s.out /\ f.phase = s.phase /\ f.id = s.id
        /\ f.source = s.source /\ f.binding = s.binding
        /\ f.ammo = am /\ f.reloading = s.reloading
    BY <1>1 DEF ActorType
  <2>9. Magazines(f) BY <2>6, <2>8 DEF Magazines
  <2>10. Keeps(s, f) BY <2>7, <2>8, <2>9, SameActionAmmo
  <2>h2. HIDE DEF f
  <2>11. Applied(f, c, Confirm(f, c)) BY <2>10, ConfirmApplies DEF Keeps
  <2>q. QED BY <2>10, <2>11, AppliedAfter
<1>h. HIDE DEF refused, f
<1>q. QED BY <1>5, <1>6, <1>7

LEMMA ApplyCommitApplies ==
  ASSUME NEW s, Sound(s), NEW c \in Commits, NEW found
  PROVE  Applied(s, c, ApplyCommit(s, c, found))
<1> DEFINE a == [s EXCEPT !.active = c.weapon]
<1>1. s \in ActorType BY DEF Sound
<1>2. c.weapon \in Arms BY DEF Commits, Arms
<1>3. a \in ActorType BY <1>1, <1>2 DEF ActorType
<1>4. /\ a.out = s.out /\ a.phase = s.phase /\ a.id = s.id
      /\ a.source = s.source /\ a.binding = s.binding
      /\ a.ammo = s.ammo /\ a.reloading = s.reloading
  BY <1>1 DEF ActorType
<1>5. Keeps(s, a) BY <1>3, <1>4, SameAction
<1>6. ApplyCommit(s, c, found) =
        IF c.weapon \notin s.equipped THEN Refuse(s, c, "MissingTemplate")
        ELSE IF c.binding = "Reload" THEN CommitReload(a, c)
        ELSE CommitFire(a, c, found)
  BY DEF ApplyCommit
<1>h. HIDE DEF a
<1>7. Sound(a) BY <1>5 DEF Keeps
<1>8. Applied(s, c, Refuse(s, c, "MissingTemplate")) BY ReasonFacts, RefuseApplies
<1>9. Applied(s, c, CommitReload(a, c))
  BY <1>5, <1>7, CommitReloadApplies, AppliedAfter
<1>10. Applied(s, c, CommitFire(a, c, found))
  BY <1>5, <1>7, CommitFireApplies, AppliedAfter
<1>q. QED BY <1>6, <1>8, <1>9, <1>10

-----------------------------------------------------------------------------
(* Whole passes.                                                           *)

LEMMA AdvanceAndCommitKeeps ==
  ASSUME NEW s, Sound(s), NEW found
  PROVE  Keeps(s, AdvanceAndCommit(s, found))
<1> DEFINE adv == advance_action(s)
<1>1. Advanced(s, adv) BY AdvanceAdvances
<1>2. AdvanceAndCommit(s, found) =
        IF adv.commits = << >> THEN adv.actor
        ELSE ApplyCommit(adv.actor, Head(adv.commits), found)
  BY DEF AdvanceAndCommit
<1>h. HIDE DEF adv
<1>3. CASE adv.commits = << >> /\ Keeps(s, adv.actor) BY <1>2, <1>3
<1>4. ASSUME NEW c \in Commits, adv.commits = <<c>>,
             \A i : Covers(s, i) => \/ Covers(adv.actor, i)
                                    \/ c.completes /\ i = c.id
      PROVE  Keeps(s, AdvanceAndCommit(s, found))
  <2> DEFINE r == ApplyCommit(adv.actor, c, found)
  <2>1. AdvanceAndCommit(s, found) = r
    BY <1>2, <1>4
  <2>2. Applied(adv.actor, c, r) BY <1>1, ApplyCommitApplies DEF Advanced
  <2>h. HIDE DEF r
  <2>q. QED BY <2>1, <2>2, <1>4 DEF Applied, Keeps, Covers
<1>q. QED BY <1>1, <1>3, <1>4 DEF Advanced

\* A pass over an input keeps the actor sound and loses no instance: what was
\* under way, what was reported and what the input asks for are under way or
\* reported ended afterwards.
LEMMA WeaponPassKeeps ==
  ASSUME NEW s, Sound(s), NEW in \in Inputs(Ids), NEW found
  PROVE  /\ Keeps(s, WeaponPass(s, in, found))
         /\ in.intent.id # 0 => Covers(WeaponPass(s, in, found), in.intent.id)
<1> DEFINE a == Interrupts(s)
           r == ReadInput(a, in)
<1>1. Keeps(s, a) BY InterruptsKeep
<1>h. HIDE DEF a
<1>2. Keeps(a, r) /\ (in.intent.id # 0 => Covers(r, in.intent.id))
  BY <1>1, ReadInputKeeps DEF Keeps
<1>h2. HIDE DEF r
<1>3. Keeps(r, AdvanceAndCommit(r, found))
  BY <1>2, AdvanceAndCommitKeeps DEF Keeps
<1>4. Keeps(s, AdvanceAndCommit(r, found)) BY <1>1, <1>2, <1>3, KeepsTrans
<1>q. QED BY <1>2, <1>3, <1>4 DEF WeaponPass, a, r, Keeps

LEMMA IdlePassKeeps ==
  ASSUME NEW s, Sound(s), NEW found
  PROVE  Keeps(s, IdlePass(s, found))
<1> DEFINE a == Interrupts(s)
<1>1. Keeps(s, a) BY InterruptsKeep
<1>h. HIDE DEF a
<1>2. Keeps(a, AdvanceAndCommit(a, found))
  BY <1>1, AdvanceAndCommitKeeps DEF Keeps
<1>q. QED BY <1>1, <1>2, KeepsTrans DEF IdlePass, a

-----------------------------------------------------------------------------
(* The next tick, and what the world does between ticks.                   *)

LEMMA DownType ==
  ASSUME NEW n \in Ticks
  PROVE  Down(n) \in Ticks /\ MinOf(TickCap, n + 1) \in Ticks
  BY RuntimeAssumption DEF Down, MinOf, Ticks

\* The next tick keeps the actor sound and its action under way; the outcomes
\* of the old one are gone.
LEMMA TickOverKeeps ==
  ASSUME NEW s, Sound(s)
  PROVE  /\ Sound(TickOver(s))
         /\ TickOver(s).out = << >>
         /\ TickOver(s).phase = s.phase /\ TickOver(s).id = s.id
<1> DEFINE cd == [w \in Weapons |-> Down(s.cooldown[w])]
           aw == [w \in Weapons |-> IF s.holstered[w]
                                    THEN MinOf(TickCap, s.away[w] + 1) ELSE 0]
           sil == MinOf(TickCap, s.silence + 1)
           r == [s EXCEPT !.wait = Down(s.wait), !.rest = Down(s.rest),
                          !.effect = Down(s.effect), !.cooldown = cd,
                          !.silence = sil, !.away = aw,
                          !.advanced = FALSE, !.out = << >>]
<1>1. s \in ActorType BY DEF Sound
<1>2. /\ s.wait \in Ticks /\ s.rest \in Ticks /\ s.effect \in Ticks
      /\ s.silence \in Ticks /\ s.cooldown \in PerWeapon(Ticks)
      /\ s.away \in PerWeapon(Ticks)
  BY <1>1 DEF ActorType
<1>3. /\ Down(s.wait) \in Ticks /\ Down(s.rest) \in Ticks
      /\ Down(s.effect) \in Ticks /\ sil \in Ticks
  BY <1>2, DownType
<1>4. cd \in PerWeapon(Ticks) BY <1>2, DownType DEF PerWeapon
<1>5. aw \in PerWeapon(Ticks) BY <1>2, DownType, Zeros DEF PerWeapon
<1>6. << >> \in Seq(Outcomes) OBVIOUS
<1>7. TickOver(s) = r BY <1>1 DEF TickOver, ActorType
<1>h. HIDE DEF cd, aw, sil
<1>8. r \in ActorType BY <1>1, <1>3, <1>4, <1>5, <1>6 DEF ActorType
<1>9. /\ r.out = << >> /\ r.phase = s.phase /\ r.id = s.id
      /\ r.source = s.source /\ r.binding = s.binding
      /\ r.ammo = s.ammo /\ r.reloading = s.reloading
  BY <1>1 DEF ActorType
<1>h2. HIDE DEF r
<1>q. QED BY <1>7, <1>8, <1>9 DEF Sound, Busy, Magazines, Latched, InProgress

\* Every change of blocks, life and pending interrupts leaves the action alone.
LEMMA WorldKeeps ==
  ASSUME NEW s, Sound(s), NEW al \in BOOLEAN, NEW bl \in SUBSET BlockReasons,
         NEW st \in BOOLEAN, NEW ha \in BOOLEAN
  PROVE  Keeps(s, [s EXCEPT !.alive = al, !.blocks = bl, !.stagger = st,
                            !.hands = ha])
<1> DEFINE r == [s EXCEPT !.alive = al, !.blocks = bl, !.stagger = st,
                          !.hands = ha]
<1>1. s \in ActorType BY DEF Sound
<1>2. r \in ActorType BY <1>1 DEF ActorType
<1>3. /\ r.out = s.out /\ r.phase = s.phase /\ r.id = s.id
      /\ r.source = s.source /\ r.binding = s.binding
      /\ r.ammo = s.ammo /\ r.reloading = s.reloading
  BY <1>1 DEF ActorType
<1>h. HIDE DEF r
<1>q. QED BY <1>2, <1>3, SameAction DEF r

\* A stagger, a block, its end, a taken hand, death and revival lose no
\* instance: what they interrupt is ended by the next pass.
LEMMA DisturbanceKeeps ==
  ASSUME NEW s, Sound(s), NEW reason \in BlockReasons
  PROVE  /\ Keeps(s, Staggered(s)) /\ Keeps(s, Blocked(s, reason))
         /\ Keeps(s, Sheltered(s))
         /\ Keeps(s, Unblocked(s, reason)) /\ Keeps(s, HandsTaken(s))
         /\ Keeps(s, Killed(s)) /\ Keeps(s, Revived(s))
<1> DEFINE W(al, bl, st, ha) == [s EXCEPT !.alive = al, !.blocks = bl,
                                         !.stagger = st, !.hands = ha]
<1>1. s \in ActorType BY DEF Sound
<1>2. /\ s.alive \in BOOLEAN /\ s.blocks \in SUBSET BlockReasons
      /\ s.stagger \in BOOLEAN /\ s.hands \in BOOLEAN
  BY <1>1 DEF ActorType
<1>3. \A al \in BOOLEAN, bl \in SUBSET BlockReasons, st \in BOOLEAN,
        ha \in BOOLEAN : Keeps(s, W(al, bl, st, ha))
  BY WorldKeeps
<1>4. /\ Staggered(s) = W(s.alive, s.blocks \cup {"Staggered"}, TRUE, s.hands)
      /\ Sheltered(s) = W(s.alive, (s.blocks \ {"Staggered"}) \cup {"Sheltered"},
                          FALSE, s.hands)
      /\ Blocked(s, reason) = W(s.alive, s.blocks \cup {reason}, s.stagger, s.hands)
      /\ Unblocked(s, reason) = W(s.alive, s.blocks \ {reason}, s.stagger, s.hands)
      /\ HandsTaken(s) = W(s.alive, s.blocks, s.stagger, TRUE)
      /\ Killed(s) = W(FALSE, s.blocks \ {"Staggered", "KnockedBack"}, FALSE, s.hands)
      /\ Revived(s) = W(TRUE, s.blocks \cap {"Sheltered"}, FALSE, s.hands)
  BY <1>1 DEF ActorType, Staggered, Sheltered, Blocked, Unblocked, HandsTaken, Killed, Revived
<1>5. /\ s.blocks \cup {"Staggered"} \in SUBSET BlockReasons
      /\ (s.blocks \ {"Staggered"}) \cup {"Sheltered"} \in SUBSET BlockReasons
      /\ s.blocks \cup {reason} \in SUBSET BlockReasons
      /\ s.blocks \ {reason} \in SUBSET BlockReasons
      /\ s.blocks \ {"Staggered", "KnockedBack"} \in SUBSET BlockReasons
      /\ s.blocks \cap {"Sheltered"} \in SUBSET BlockReasons
  BY <1>2 DEF BlockReasons
<1>h. HIDE DEF W
<1>q. QED BY <1>2, <1>3, <1>4, <1>5, ZenonT(40)

\* A new loadout may only lower the reload latch.
LEMMA LoadoutKeeps ==
  ASSUME NEW s, Sound(s), NEW held \in SUBSET Weapons, NEW first \in Arms
  PROVE  Sound(rebuild_weapon_loadout(s, held, first))
<1> DEFINE stays(w) == w \in held \cap s.equipped
           ac == IF s.active \in held THEN s.active ELSE first
           re == s.reloading /\ s.active \in held
           cd == [w \in Weapons |-> IF stays(w) THEN s.cooldown[w] ELSE 0]
           ho == [w \in Weapons |-> stays(w) /\ s.holstered[w]]
           aw == [w \in Weapons |-> IF stays(w) THEN s.away[w] ELSE 0]
           r == [s EXCEPT !.equipped = held, !.active = ac, !.reloading = re,
                          !.cooldown = cd, !.holstered = ho, !.away = aw]
<1>1. s \in ActorType BY DEF Sound
<1>2. /\ s.active \in Arms /\ s.cooldown \in PerWeapon(Ticks)
      /\ s.away \in PerWeapon(Ticks)
  BY <1>1 DEF ActorType
<1>3. ac \in Arms BY <1>2
<1>4. re \in BOOLEAN OBVIOUS
<1>5. cd \in PerWeapon(Ticks) /\ aw \in PerWeapon(Ticks)
  BY <1>2, Zeros DEF PerWeapon
<1>6. ho \in PerWeapon(BOOLEAN) BY DEF PerWeapon
<1>7. rebuild_weapon_loadout(s, held, first) = r
  BY <1>1 DEF rebuild_weapon_loadout, ActorType
<1>8. re => s.reloading OBVIOUS
<1>h. HIDE DEF ac, re, cd, ho, aw
<1>9. r \in ActorType BY <1>1, <1>3, <1>4, <1>5, <1>6 DEF ActorType
<1>10. /\ r.phase = s.phase /\ r.source = s.source /\ r.binding = s.binding
       /\ r.ammo = s.ammo /\ r.reloading = re
  BY <1>1 DEF ActorType
<1>h2. HIDE DEF r
<1>q. QED BY <1>7, <1>8, <1>9, <1>10 DEF Sound, Busy, Magazines, Latched, InProgress

\* A fresh actor is sound and has reported nothing.
LEMMA InitActorSound ==
  ASSUME NEW w \in Weapons
  PROVE  Sound(InitActor(w)) /\ InitActor(w).out = << >>
  BY RuntimeAssumption, Zeros DEF PerWeapon, Arms, InitActor, ActorType, Sound, Busy,
    Magazines, Latched

-----------------------------------------------------------------------------
(* The shapes of a step.                                                   *)

\* Neither the blocks nor the cadence change, and no round is spent.
Frame(s, r) ==
  /\ r.blocks = s.blocks /\ r.cooldown = s.cooldown
  /\ \A w \in Weapons : s.ammo[w] <= r.ammo[w]

\* The outcome reports what became of instance i.
Tells(o, i, type) == o \in Outcomes /\ o.id = i /\ o.type = type

SameAct(s, r) ==
  /\ InProgress(r) <=> InProgress(s)
  /\ InProgress(s) => r.id = s.id
  /\ r.nextId = s.nextId

Quiet(s, r) == SameAct(s, r) /\ r.out = s.out
TurnedDown(s, r, i) ==
  SameAct(s, r) /\ \E o : Tells(o, i, "Rejected") /\ r.out = Append(s.out, o)
Begun(s, r, i) ==
  /\ ~InProgress(s) /\ InProgress(r) /\ r.id = i
  /\ s.nextId <= i /\ r.nextId = NextGenerated(i)
  /\ s.blocks \cap {"Sheltered", "StatusBlocked", "Staggered"} = {}
  /\ \E o : Tells(o, i, "Admitted") /\ r.out = Append(s.out, o)
Cut(s, r) ==
  /\ InProgress(s) /\ ~InProgress(r) /\ r.nextId = s.nextId
  /\ \E o : Tells(o, s.id, "Corrected") /\ r.out = Append(s.out, o)
Struck(s, r) ==
  /\ InProgress(s) /\ SameAct(s, r)
  /\ \E o : Tells(o, s.id, "Committed") /\ o.count # 0 /\ r.out = Append(s.out, o)
\* The world refused a commit and the action goes on.
Faltered(s, r) ==
  /\ InProgress(s) /\ SameAct(s, r)
  /\ \E o : Tells(o, s.id, "Corrected") /\ r.out = Append(s.out, o)
Finished(s, r) ==
  /\ InProgress(s) /\ ~InProgress(r) /\ r.nextId = s.nextId
  /\ \E o, p : /\ Tells(o, s.id, "Committed") /\ o.count # 0
               /\ Tells(p, s.id, "Completed")
               /\ r.out = Append(Append(s.out, o), p)

\* What holds of an actor between two operators, beside Sound: an action under
\* way has an id, its next shot is not due before the cadence allows, and a
\* beam burns under it only, with no end on order.
Named(s) == InProgress(s) => s.id # 0
Paced(s) ==
  InProgress(s) /\ s.binding = "PrimaryFire" => s.cooldown[s.source] <= s.wait
Burning(s) == s.effect > 0 => InProgress(s)
Patient(s) ==
  InProgress(s) /\ s.binding = "PrimaryFire" /\ FireMode[s.source] = "Beam" =>
    ~s.cancelAfter
Fit(s) == /\ Sound(s) /\ Named(s) /\ Paced(s)
          /\ BeamsHold => Burning(s) /\ Patient(s)

\* Nothing Fit speaks of has changed.
LEMMA SameFit ==
  ASSUME NEW s, Fit(s), NEW r, Sound(r),
         r.phase = s.phase, r.id = s.id, r.source = s.source,
         r.binding = s.binding, r.wait = s.wait, r.cancelAfter = s.cancelAfter,
         r.cooldown = s.cooldown, r.effect = s.effect
  PROVE  Fit(r)
  BY DEF Fit, Named, Paced, Burning, Patient, InProgress

\* An actor without an action and without a beam is fit.
LEMMA IdleFit ==
  ASSUME NEW r, Sound(r), ~InProgress(r), r.effect = 0
  PROVE  Fit(r)
  BY DEF Fit, Named, Paced, Burning, Patient

LEMMA FrameItself ==
  ASSUME NEW s, Sound(s)
  PROVE  Frame(s, s) /\ Quiet(s, s)
  BY DEF Sound, ActorType, PerWeapon, Frame, Quiet, SameAct

LEMMA FrameTrans ==
  ASSUME NEW s, Sound(s), NEW r, Sound(r), NEW u, Sound(u),
         Frame(s, r), Frame(r, u)
  PROVE  Frame(s, u)
  BY DEF Sound, ActorType, PerWeapon, Frame

\* The same actor with the same rounds.
LEMMA SameFrame ==
  ASSUME NEW s, Sound(s), NEW r,
         r.blocks = s.blocks, r.cooldown = s.cooldown, r.ammo = s.ammo
  PROVE  Frame(s, r)
  BY DEF Sound, ActorType, PerWeapon, Frame

-----------------------------------------------------------------------------
(* The ways an action ends.                                                *)

LEMMA PushFields ==
  ASSUME NEW s \in ActorType, NEW o
  PROVE  LET p == push(s, o)
         IN /\ p.phase = s.phase /\ p.id = s.id /\ p.source = s.source
            /\ p.binding = s.binding /\ p.wait = s.wait
            /\ p.cancelAfter = s.cancelAfter /\ p.nextId = s.nextId
            /\ p.cooldown = s.cooldown /\ p.ammo = s.ammo
            /\ p.effect = s.effect /\ p.blocks = s.blocks
            /\ p.stagger = s.stagger /\ p.out = Append(s.out, o)
  BY DEF push, ActorType

\* An ended action: nothing under way, no beam, the rest as it was.
Over(s, r) ==
  /\ ~InProgress(r) /\ r.effect = 0 /\ r.nextId = s.nextId
  /\ r.cooldown = s.cooldown /\ r.ammo = s.ammo /\ r.blocks = s.blocks
  /\ r.stagger = s.stagger /\ r.out = s.out

LEMMA ResetOver ==
  ASSUME NEW s \in ActorType, s.effect = 0
  PROVE  Over(s, reset_action(s))
  BY DEF reset_action, ActorType, InProgress, Over

LEMMA ReleaseFields ==
  ASSUME NEW s \in ActorType
  PROVE  LET r == release_action_resources(s)
         IN /\ r.effect = 0 /\ r.nextId = s.nextId
            /\ r.cooldown = s.cooldown /\ r.ammo = s.ammo
            /\ r.blocks = s.blocks /\ r.stagger = s.stagger /\ r.out = s.out
  BY DEF release_action_resources, ActorType

LEMMA RecoveryOver ==
  ASSUME NEW s, Sound(s), NEW t, t.recovery \in Ticks
  PROVE  Over(s, enter_recovery(s, t))
<1> DEFINE r == release_action_resources(s)
           rest == t.recovery
           e == [r EXCEPT !.rest = rest, !.phase = "Recovery",
                          !.cancelAfter = FALSE]
<1>1. s \in ActorType BY DEF Sound
<1>2. /\ r.effect = 0 /\ r.nextId = s.nextId
      /\ r.cooldown = s.cooldown /\ r.ammo = s.ammo
      /\ r.blocks = s.blocks /\ r.stagger = s.stagger /\ r.out = s.out
  BY <1>1, ReleaseFields
<1>3. r \in ActorType BY ReleaseSound DEF Sound
<1>4. enter_recovery(s, t) = IF t.recovery = 0 THEN reset_action(r) ELSE e
  BY DEF enter_recovery
<1>h. HIDE DEF r, rest
<1>5. Over(r, reset_action(r)) BY <1>2, <1>3, ResetOver
<1>6. /\ e.phase = "Recovery" /\ e.effect = r.effect /\ e.nextId = r.nextId
      /\ e.cooldown = r.cooldown /\ e.ammo = r.ammo /\ e.blocks = r.blocks
      /\ e.stagger = r.stagger /\ e.out = r.out
  BY <1>3 DEF ActorType
<1>7. Over(s, e) BY <1>2, <1>6 DEF Over, InProgress
<1>8. Over(s, reset_action(r)) BY <1>2, <1>5 DEF Over
<1>q. QED BY <1>4, <1>7, <1>8

LEMMA OutcomeTells ==
  ASSUME NEW s, Sound(s), NEW reason \in Reasons
  PROVE  LET o == Outcome(s.id, s.binding, s.commits, "Corrected", reason)
         IN /\ Tells(o, s.id, "Corrected")
            /\ push_outcome(s, "Corrected", reason) = push(s, o)
  BY RuntimeAssumption, OutcomeKinds, OutcomeType DEF Sound, ActorType, Counts, Tells,
    push_outcome

\* An action reported Corrected and over is a Cut.
LEMMA OverCuts ==
  ASSUME NEW s, Sound(s), InProgress(s), NEW reason \in Reasons,
         NEW r, Sound(r), Over(push_outcome(s, "Corrected", reason), r)
  PROVE  Cut(s, r) /\ Frame(s, r) /\ Fit(r) /\ r.stagger = s.stagger
<1> DEFINE o == Outcome(s.id, s.binding, s.commits, "Corrected", reason)
<1>1. /\ Tells(o, s.id, "Corrected")
      /\ push_outcome(s, "Corrected", reason) = push(s, o)
  BY OutcomeTells
<1>h. HIDE DEF o
<1>2. s \in ActorType BY DEF Sound
<1>3. /\ push(s, o).nextId = s.nextId /\ push(s, o).cooldown = s.cooldown
      /\ push(s, o).ammo = s.ammo /\ push(s, o).blocks = s.blocks
      /\ push(s, o).stagger = s.stagger /\ push(s, o).out = Append(s.out, o)
  BY <1>2, PushFields
<1>4. /\ ~InProgress(r) /\ r.effect = 0 /\ r.nextId = s.nextId
      /\ r.cooldown = s.cooldown /\ r.ammo = s.ammo /\ r.blocks = s.blocks
      /\ r.stagger = s.stagger /\ r.out = Append(s.out, o)
  BY <1>1, <1>3 DEF Over
<1>5. Cut(s, r) BY <1>1, <1>4 DEF Cut
<1>6. Frame(s, r) BY <1>4, SameFrame
<1>7. Fit(r) BY <1>4, IdleFit
<1>q. QED BY <1>4, <1>5, <1>6, <1>7

LEMMA EndOutrightCuts ==
  ASSUME NEW s, Sound(s), InProgress(s), NEW reason \in Reasons
  PROVE  LET r == EndOutright(s, reason)
         IN Cut(s, r) /\ Frame(s, r) /\ Fit(r) /\ r.stagger = s.stagger
<1> DEFINE p == push_outcome(s, "Corrected", reason)
           q == release_action_resources(p)
<1>1. Sound(p) BY OutcomeKinds, PushOutcome
<1>2. EndOutright(s, reason) = reset_action(q) BY DEF EndOutright
<1>3. Sound(EndOutright(s, reason)) BY EndOutrightKeeps DEF Keeps
<1>h. HIDE DEF p
<1>4. /\ q.effect = 0 /\ q.nextId = p.nextId
      /\ q.cooldown = p.cooldown /\ q.ammo = p.ammo
      /\ q.blocks = p.blocks /\ q.stagger = p.stagger /\ q.out = p.out
  BY <1>1, ReleaseFields DEF Sound
<1>5. q \in ActorType BY <1>1, ReleaseSound DEF Sound
<1>h2. HIDE DEF q
<1>6. Over(p, reset_action(q)) BY <1>4, <1>5, ResetOver DEF Over
<1>q. QED BY <1>2, <1>3, <1>6, OverCuts DEF p

LEMMA CorrectedRecoveryCuts ==
  ASSUME NEW s, Sound(s), InProgress(s), NEW reason \in Reasons,
         NEW t, t.recovery \in Ticks
  PROVE  LET r == enter_recovery(push_outcome(s, "Corrected", reason), t)
         IN Cut(s, r) /\ Frame(s, r) /\ Fit(r) /\ r.stagger = s.stagger
<1> DEFINE p == push_outcome(s, "Corrected", reason)
<1>1. s.source \in Weapons BY DEF Sound, Busy, InProgress
<1>2. Sound(p) BY OutcomeKinds, PushOutcome
<1>3. Sound(enter_recovery(p, t)) BY <1>1, CorrectedRecoveryKeeps DEF Keeps
<1>h. HIDE DEF p
<1>4. Over(p, enter_recovery(p, t)) BY <1>2, RecoveryOver
<1>q. QED BY <1>3, <1>4, OverCuts DEF p

-----------------------------------------------------------------------------
(* Interrupts.                                                             *)

Held(s) == s.blocks \cap {"Sheltered", "StatusBlocked", "Staggered"} # {}

\* A quiet step, or the end of the action.
QuietOrCut(s, r) == /\ Fit(r) /\ Frame(s, r)
                    /\ Quiet(s, r) \/ Cut(s, r)

\* After an end nothing can follow but quiet steps.
LEMMA QuietOrCutTrans ==
  ASSUME NEW s, Fit(s), NEW r, NEW u, QuietOrCut(s, r), QuietOrCut(r, u)
  PROVE  QuietOrCut(s, u)
  BY FrameTrans DEF QuietOrCut, Fit, Quiet, Cut, SameAct

LEMMA StaggerStep ==
  ASSUME NEW s, Fit(s)
  PROVE  LET r == interrupt_staggered_actions(s)
         IN QuietOrCut(s, r) /\ (s.stagger => ~InProgress(r))
<1> DEFINE seen == [s EXCEPT !.stagger = FALSE]
<1>1. s \in ActorType /\ Sound(s) BY DEF Fit, Sound
<1>2. seen \in ActorType BY <1>1 DEF ActorType
<1>3. /\ seen.out = s.out /\ seen.phase = s.phase /\ seen.id = s.id
      /\ seen.source = s.source /\ seen.binding = s.binding
      /\ seen.ammo = s.ammo /\ seen.reloading = s.reloading
      /\ seen.wait = s.wait /\ seen.cancelAfter = s.cancelAfter
      /\ seen.cooldown = s.cooldown /\ seen.effect = s.effect
      /\ seen.blocks = s.blocks /\ seen.nextId = s.nextId
  BY <1>1 DEF ActorType
<1>4. interrupt_staggered_actions(s) =
        IF s.stagger /\ InProgress(s) THEN EndOutright(seen, "Staggered") ELSE seen
  BY DEF interrupt_staggered_actions
<1>h. HIDE DEF seen
<1>5. Sound(seen) BY <1>1, <1>2, <1>3, SameAction DEF Keeps
<1>6. Fit(seen) BY <1>3, <1>5, SameFit
<1>7. QuietOrCut(s, seen) /\ (InProgress(seen) <=> InProgress(s))
  BY <1>1, <1>3, <1>6, SameFrame DEF QuietOrCut, Quiet, SameAct, InProgress
<1>8. CASE s.stagger /\ InProgress(s)
  <2>1. QuietOrCut(seen, EndOutright(seen, "Staggered"))
    BY <1>5, <1>7, <1>8, EndOutrightCuts, ReasonFacts DEF QuietOrCut
  <2>2. ~InProgress(EndOutright(seen, "Staggered"))
    BY <1>5, <1>7, <1>8, EndOutrightCuts, ReasonFacts DEF Cut
  <2>q. QED BY <2>1, <2>2, <1>4, <1>7, <1>8, QuietOrCutTrans
<1>q. QED BY <1>4, <1>7, <1>8

LEMMA StatusStep ==
  ASSUME NEW s, Fit(s)
  PROVE  LET r == interrupt_status_blocked_actions(s)
         IN QuietOrCut(s, r) /\ ("StatusBlocked" \in s.blocks => ~InProgress(r))
  BY FrameItself, EndOutrightCuts, ReasonFacts DEF Fit, QuietOrCut, Cut,
    interrupt_status_blocked_actions

LEMMA ShelterStep ==
  ASSUME NEW s, Fit(s)
  PROVE  LET r == interrupt_sheltered_actions(s)
         IN QuietOrCut(s, r) /\ ("Sheltered" \in s.blocks => ~InProgress(r))
  BY FrameItself, EndOutrightCuts, ReasonFacts DEF Fit, QuietOrCut, Cut,
    interrupt_sheltered_actions

LEMMA ItemStep ==
  ASSUME NEW s, Fit(s)
  PROVE  QuietOrCut(s, interrupt_actions_for_items(s))
<1> DEFINE seen == [s EXCEPT !.hands = FALSE]
           t == TemplateFor(s.source, s.binding)
<1>1. s \in ActorType /\ Sound(s) BY DEF Fit, Sound
<1>2. seen \in ActorType BY <1>1 DEF ActorType
<1>3. /\ seen.out = s.out /\ seen.phase = s.phase /\ seen.id = s.id
      /\ seen.source = s.source /\ seen.binding = s.binding
      /\ seen.ammo = s.ammo /\ seen.reloading = s.reloading
      /\ seen.wait = s.wait /\ seen.cancelAfter = s.cancelAfter
      /\ seen.cooldown = s.cooldown /\ seen.effect = s.effect
      /\ seen.blocks = s.blocks /\ seen.nextId = s.nextId
  BY <1>1 DEF ActorType
<1>4. interrupt_actions_for_items(s) =
        IF ~(s.hands /\ InProgress(s)) THEN seen
        ELSE IF s.commits > 0
        THEN enter_recovery(push_outcome(seen, "Corrected", "ItemAction"), t)
        ELSE EndOutright(seen, "ItemAction")
  BY DEF interrupt_actions_for_items
<1>5. InProgress(s) => t.recovery \in Ticks
  BY <1>1, TemplateFacts DEF Sound, Busy, InProgress
<1>h. HIDE DEF seen, t
<1>6. Sound(seen) BY <1>1, <1>2, <1>3, SameAction DEF Keeps
<1>7. Fit(seen) BY <1>3, <1>6, SameFit
<1>8. QuietOrCut(s, seen) /\ (InProgress(seen) <=> InProgress(s))
  BY <1>1, <1>3, <1>7, SameFrame DEF QuietOrCut, Quiet, SameAct, InProgress
<1>9. ASSUME InProgress(s)
      PROVE  /\ QuietOrCut(seen, EndOutright(seen, "ItemAction"))
             /\ QuietOrCut(seen, enter_recovery(
                  push_outcome(seen, "Corrected", "ItemAction"), t))
  BY <1>5, <1>6, <1>8, <1>9, EndOutrightCuts, CorrectedRecoveryCuts, ReasonFacts
  DEF QuietOrCut
<1>q. QED BY <1>4, <1>8, <1>9, QuietOrCutTrans

\* The interrupts leave the action alone or end it, and what the actor is held
\* by (a stagger not yet seen, a blocking status, a shelter) has ended it.
LEMMA InterruptsStep ==
  ASSUME NEW s, Fit(s), "Staggered" \in s.blocks => s.stagger \/ ~InProgress(s)
  PROVE  LET r == Interrupts(s)
         IN QuietOrCut(s, r) /\ (Held(r) => ~InProgress(r))
<1> DEFINE a1 == interrupt_staggered_actions(s)
           a2 == interrupt_status_blocked_actions(a1)
           a3 == interrupt_sheltered_actions(a2)
           a4 == interrupt_actions_for_items(a3)
<1>1. QuietOrCut(s, a1) /\ (s.stagger => ~InProgress(a1)) BY StaggerStep
<1>2. Interrupts(s) = a4 BY DEF Interrupts
<1>h. HIDE DEF a1
<1>3. QuietOrCut(a1, a2) /\ ("StatusBlocked" \in a1.blocks => ~InProgress(a2))
  BY <1>1, StatusStep DEF QuietOrCut
<1>h2. HIDE DEF a2
<1>4. QuietOrCut(a2, a3) /\ ("Sheltered" \in a2.blocks => ~InProgress(a3))
  BY <1>3, ShelterStep DEF QuietOrCut
<1>h3. HIDE DEF a3
<1>5. QuietOrCut(a3, a4) BY <1>4, ItemStep DEF QuietOrCut
<1>h4. HIDE DEF a4
<1>6. /\ a1.blocks = s.blocks /\ a2.blocks = s.blocks
      /\ a3.blocks = s.blocks /\ a4.blocks = s.blocks
  BY <1>1, <1>3, <1>4, <1>5 DEF QuietOrCut, Frame
<1>7. /\ ~InProgress(s) => ~InProgress(a1)
      /\ ~InProgress(a1) => ~InProgress(a2)
      /\ ~InProgress(a2) => ~InProgress(a3)
      /\ ~InProgress(a3) => ~InProgress(a4)
  BY <1>1, <1>3, <1>4, <1>5 DEF QuietOrCut, Quiet, Cut, SameAct
<1>8. QuietOrCut(s, a2) BY <1>1, <1>3, QuietOrCutTrans
<1>9. QuietOrCut(s, a3) BY <1>4, <1>8, QuietOrCutTrans
<1>10. QuietOrCut(s, a4) BY <1>5, <1>9, QuietOrCutTrans
<1>11. Held(a4) => ~InProgress(a4)
  BY <1>1, <1>3, <1>4, <1>6, <1>7 DEF Held
<1>q. QED BY <1>2, <1>10, <1>11

-----------------------------------------------------------------------------
(* Reading an input.                                                       *)

\* What reading an input may do to the action: nothing, or what its intent i
\* asks for.
InputStep(s, r, i) ==
  /\ Fit(r) /\ Frame(s, r)
  /\ \/ Quiet(s, r)
     \/ i # 0 /\ (TurnedDown(s, r, i) \/ Begun(s, r, i))

\* Frame and Quiet together.
Rests(s, r) == Fit(r) /\ Frame(s, r) /\ Quiet(s, r)

LEMMA StillTrans ==
  ASSUME NEW s, Fit(s), NEW r, NEW u, Rests(s, r), Rests(r, u)
  PROVE  Rests(s, u)
  BY FrameTrans DEF Rests, Fit, Quiet, SameAct

LEMMA InputAfterStill ==
  ASSUME NEW s, Fit(s), NEW r, NEW u, NEW i, Rests(s, r), InputStep(r, u, i)
  PROVE  InputStep(s, u, i)
  BY FrameTrans DEF Rests, InputStep, Fit, Frame, Quiet, SameAct, TurnedDown, Begun

LEMMA StillAfterInput ==
  ASSUME NEW s, Fit(s), NEW r, NEW u, NEW i, InputStep(s, r, i), Rests(r, u)
  PROVE  InputStep(s, u, i)
  BY FrameTrans DEF Rests, InputStep, Fit, Quiet, SameAct, TurnedDown, Begun

\* A change of fields no shape speaks of.
LEMMA SameStill ==
  ASSUME NEW s, Fit(s), NEW r, Sound(r),
         r.phase = s.phase, r.id = s.id, r.source = s.source,
         r.binding = s.binding, r.wait = s.wait, r.cancelAfter = s.cancelAfter,
         r.cooldown = s.cooldown, r.effect = s.effect,
         r.nextId = s.nextId, r.blocks = s.blocks, r.out = s.out,
         \A w \in Weapons : s.ammo[w] <= r.ammo[w]
  PROVE  Rests(s, r)
  BY SameFit DEF Rests, Frame, Quiet, SameAct, InProgress

LEMMA AmmoItself ==
  ASSUME NEW s, Fit(s)
  PROVE  \A w \in Weapons : s.ammo[w] <= s.ammo[w]
  BY DEF Fit, Sound, ActorType, PerWeapon

LEMMA StillItself ==
  ASSUME NEW s, Fit(s)
  PROVE  Rests(s, s)
  BY FrameItself DEF Rests, Fit

LEMMA HoldWeaponStill ==
  ASSUME NEW s, Fit(s), NEW w
  PROVE  Rests(s, hold_selected_weapon(s, w))
<1> DEFINE h == [v \in Weapons |-> IF v = w THEN FALSE
                                   ELSE v = s.active \/ s.holstered[v]]
           y == [v \in Weapons |-> IF v = s.active \/ v = w THEN 0 ELSE s.away[v]]
           put == [s EXCEPT !.holstered = h, !.away = y, !.active = w]
           m == [s.ammo EXCEPT ![w] = MagazineSize[w]]
           z == [s.reserve EXCEPT ![w] = s.reserve[w] - 1]
           full == [s EXCEPT !.holstered = h, !.away = y, !.active = w,
                             !.ammo = m, !.reserve = z]
           r == hold_selected_weapon(s, w)
<1>1. s \in ActorType /\ Sound(s) BY DEF Fit, Sound
<1>2. Sound(r) BY <1>1, HoldWeaponKeeps DEF Keeps
<1>3. CASE w \notin s.equipped \/ w = s.active \/ InProgress(s)
  BY <1>3, StillItself DEF hold_selected_weapon
<1>4. CASE ~(w \notin s.equipped \/ w = s.active \/ InProgress(s))
  <2>1. w \in Weapons
    BY <1>1, <1>4 DEF ActorType
  <2>2. r = IF /\ s.holstered[w]
               /\ s.away[w] >= ReloadTemplate[w].offset
               /\ s.ammo[w] < MagazineSize[w]
               /\ s.reserve[w] > 0
            THEN [put EXCEPT !.ammo[w] = MagazineSize[w], !.reserve[w] = @ - 1]
            ELSE put
    BY <1>4 DEF hold_selected_weapon
  <2>3. [put EXCEPT !.ammo[w] = MagazineSize[w], !.reserve[w] = @ - 1] = full
    BY <1>1 DEF ActorType
  <2>4. r = put \/ (r = full /\ s.ammo[w] < MagazineSize[w]) BY <2>2, <2>3
  <2>h. HIDE DEF h, y, m, z, r
  <2>5. CASE r = put
    <3>1. /\ put.phase = s.phase /\ put.id = s.id /\ put.source = s.source
          /\ put.binding = s.binding /\ put.wait = s.wait
          /\ put.cancelAfter = s.cancelAfter /\ put.cooldown = s.cooldown
          /\ put.effect = s.effect /\ put.nextId = s.nextId
          /\ put.blocks = s.blocks /\ put.out = s.out /\ put.ammo = s.ammo
      BY <1>1 DEF ActorType
    <3>h. HIDE DEF put
    <3>q. QED BY <1>2, <2>5, <3>1, AmmoItself, SameStill DEF r
  <2>6. CASE r = full /\ s.ammo[w] < MagazineSize[w]
    <3>1. /\ full.phase = s.phase /\ full.id = s.id /\ full.source = s.source
          /\ full.binding = s.binding /\ full.wait = s.wait
          /\ full.cancelAfter = s.cancelAfter /\ full.cooldown = s.cooldown
          /\ full.effect = s.effect /\ full.nextId = s.nextId
          /\ full.blocks = s.blocks /\ full.out = s.out /\ full.ammo = m
      BY <1>1 DEF ActorType
    <3>2. \A v \in Weapons : s.ammo[v] <= m[v]
      BY <1>1, <2>1, <2>6, RuntimeAssumption DEF ActorType, PerWeapon, m
    <3>h. HIDE DEF full
    <3>q. QED BY <1>2, <2>6, <3>1, <3>2, SameStill DEF r
  <2>q. QED BY <2>4, <2>5, <2>6
<1>q. QED BY <1>3, <1>4

LEMMA ContinuousStill ==
  ASSUME NEW s, Fit(s), NEW in \in Inputs(Ids)
  PROVE  Rests(s, take_continuous_input(s, in))
<1> DEFINE r == [s EXCEPT !.contId = in.holdId, !.contHeld = in.held, !.silence = 0]
<1>1. s \in ActorType /\ Sound(s) BY DEF Fit, Sound
<1>2. Sound(take_continuous_input(s, in)) BY <1>1, ContinuousKeeps DEF Keeps
<1>3. /\ r.phase = s.phase /\ r.id = s.id /\ r.source = s.source
      /\ r.binding = s.binding /\ r.wait = s.wait
      /\ r.cancelAfter = s.cancelAfter /\ r.cooldown = s.cooldown
      /\ r.effect = s.effect /\ r.nextId = s.nextId
      /\ r.blocks = s.blocks /\ r.out = s.out /\ r.ammo = s.ammo
  BY <1>1 DEF ActorType
<1>4. take_continuous_input(s, in) = r \/ take_continuous_input(s, in) = s
  BY DEF take_continuous_input
<1>h. HIDE DEF r
<1>5. CASE take_continuous_input(s, in) = r
  BY <1>2, <1>3, <1>5, AmmoItself, SameStill
<1>q. QED BY <1>4, <1>5, StillItself

LEMMA SettleStill ==
  ASSUME NEW s, Fit(s)
  PROVE  Rests(s, settle_recovery(s))
<1>1. Sound(s) /\ Sound(settle_recovery(s)) BY SettleSound DEF Fit
<1>2. CASE s.phase = "Recovery" /\ s.rest = 0
  <2> DEFINE r == reset_action(s)
  <2>1. settle_recovery(s) = r BY <1>2 DEF settle_recovery
  <2>2. /\ r.phase = "None" /\ r.cooldown = s.cooldown /\ r.effect = s.effect
        /\ r.nextId = s.nextId /\ r.blocks = s.blocks /\ r.out = s.out
        /\ r.ammo = s.ammo
    BY <1>1 DEF reset_action, Sound, ActorType
  <2>h. HIDE DEF r
  <2>3. ~InProgress(s) /\ ~InProgress(r) BY <1>2, <2>2 DEF InProgress
  <2>4. Fit(r) BY <1>1, <2>1, <2>2, <2>3 DEF Fit, Named, Paced, Burning, Patient
  <2>5. Frame(s, r) BY <1>1, <2>2, SameFrame
  <2>q. QED BY <2>1, <2>2, <2>3, <2>4, <2>5 DEF Rests, Quiet, SameAct
<1>3. CASE ~(s.phase = "Recovery" /\ s.rest = 0)
  BY <1>3, StillItself DEF settle_recovery
<1>q. QED BY <1>2, <1>3

\* What an admission that finds no reason to refuse has established.
LEMMA AdmissionFacts ==
  ASSUME NEW s, Fit(s), NEW intent \in Intents(Ids), NEW w,
         AdmissionRefusal(s, intent, w) = "None"
  PROVE  /\ s.phase = "None" /\ w \in Weapons /\ intent.binding \in Bindings
         /\ s.nextId <= intent.id /\ ~Held(s)
         /\ intent.binding = "PrimaryFire" =>
              s.cooldown[w] <= FireTemplate[w].offset
<1>1. Sound(s) BY DEF Fit
<1>2. s.phase = "None" /\ w \in Weapons /\ intent.binding \in Bindings
  BY <1>1, RefusalFacts
<1>3. /\ ~(intent.id <= (s.nextId - 1) % IdModulus)
      /\ action_block_reason(s) = "None"
      /\ intent.binding = "PrimaryFire" => ~projected_primary_commit_is_blocked(s, w)
  BY <1>2 DEF AdmissionRefusal
<1>4. ~Held(s) BY <1>3 DEF action_block_reason, Held
<1>5. s.nextId <= intent.id
  <2>1. s.nextId \in Ids /\ intent.id \in Ids BY <1>1 DEF Sound, ActorType, Intents
  <2>2. CASE s.nextId = 0 BY <2>1, <2>2 DEF Ids
  <2>3. CASE s.nextId # 0
    <3>1. s.nextId - 1 \in 0..(IdModulus - 1) BY <2>1, <2>3, RuntimeAssumption DEF Ids
    <3>2. (s.nextId - 1) % IdModulus = s.nextId - 1 BY <3>1, RuntimeAssumption
    <3>3. ~(intent.id <= s.nextId - 1) BY <3>2, <1>3, Zenon
    <3>4. s.nextId \in Int /\ intent.id \in Int BY <2>1, RuntimeAssumption DEF Ids
    <3>q. QED BY <3>3, <3>4
  <2>q. QED BY <2>2, <2>3
<1>6. intent.binding = "PrimaryFire" => s.cooldown[w] <= FireTemplate[w].offset
  <2>1. s.cooldown[w] \in Ticks BY <1>1, <1>2 DEF Sound, ActorType, PerWeapon
  <2>2. FireTemplate[w].offset \in Ticks
    BY <1>2, RuntimeAssumption DEF ActionTemplates
  <2>q. QED BY <2>1, <2>2, <1>3, RuntimeAssumption
        DEF Ticks, projected_primary_commit_is_blocked
<1>q. QED BY <1>2, <1>4, <1>5, <1>6

LEMMA StartBegins ==
  ASSUME NEW s, Fit(s), NEW intent \in Intents(Ids), NEW w, intent.id # 0,
         AdmissionRefusal(s, intent, w) = "None"
  PROVE  LET r == Start(s, intent, w)
         IN Fit(r) /\ Frame(s, r) /\ Begun(s, r, intent.id)
<1> DEFINE t == TemplateFor(w, intent.binding)
           n == NextGenerated(intent.id)
           phase == IF t.offset = 0 THEN "Active" ELSE "Windup"
           latch == s.reloading \/ intent.binding = "Reload"
           offset == t.offset
           a == [s EXCEPT !.nextId = n, !.id = intent.id,
                     !.binding = intent.binding, !.source = w,
                     !.wait = offset, !.rest = 0, !.commits = 0,
                     !.cancelAfter = FALSE, !.silence = 0,
                     !.phase = phase, !.reloading = latch]
           o == Outcome(a.id, a.binding, a.commits, "Admitted", "None")
           r == push(a, o)
<1>1. s \in ActorType /\ Sound(s) BY DEF Fit, Sound
<1>2. /\ s.phase = "None" /\ w \in Weapons /\ intent.binding \in Bindings
      /\ s.nextId <= intent.id /\ ~Held(s)
      /\ intent.binding = "PrimaryFire" => s.cooldown[w] <= FireTemplate[w].offset
  BY AdmissionFacts
<1>3. offset \in Ticks BY <1>2, TemplateFacts
<1>4. intent.id \in Ids BY DEF Intents
<1>5. n \in Ids BY <1>4, RuntimeAssumption DEF NextGenerated, Ids
<1>6. phase \in Phases /\ phase \in {"Windup", "Active"} BY Zeros
<1>7. latch \in BOOLEAN OBVIOUS
<1>8. w \in Arms BY <1>2 DEF Arms
<1>9. Start(s, intent, w) = r BY DEF Start, push_outcome
<1>10. intent.binding = "PrimaryFire" => offset = FireTemplate[w].offset
  BY DEF TemplateFor
<1>11. Sound(r) BY <1>1, <1>2, <1>9, StartKeeps DEF Keeps
<1>h. HIDE DEF t, n, phase, latch, offset, r, o
<1>b. intent.binding \in Bindings BY <1>2
<1>12. a \in ActorType
  BY <1>b, <1>1, <1>3, <1>4, <1>5, <1>6, <1>7, <1>8, Zeros DEF ActorType
<1>13. /\ a.out = s.out /\ a.phase = phase /\ a.id = intent.id /\ a.source = w
       /\ a.binding = intent.binding /\ a.ammo = s.ammo /\ a.wait = offset
       /\ a.cancelAfter = FALSE /\ a.nextId = n /\ a.cooldown = s.cooldown
       /\ a.effect = s.effect /\ a.blocks = s.blocks /\ a.commits = 0
  BY <1>1 DEF ActorType
<1>14. Tells(o, intent.id, "Admitted")
  <2>1. a.binding \in OutcomeBindings BY <1>2, <1>13, OutcomeKinds
  <2>2. a.commits \in Nat BY <1>13
  <2>h. HIDE DEF a
  <2>q. QED BY <2>1, <2>2, <1>4, <1>13, OutcomeType, OutcomeKinds, ReasonFacts
        DEF Tells, o
<1>h2. HIDE DEF a
<1>15. /\ r.phase = phase /\ r.id = intent.id /\ r.source = w
       /\ r.binding = intent.binding /\ r.wait = offset
       /\ r.cancelAfter = FALSE /\ r.nextId = n /\ r.cooldown = s.cooldown
       /\ r.ammo = s.ammo /\ r.effect = s.effect /\ r.blocks = s.blocks
       /\ r.out = Append(s.out, o)
  BY <1>12, <1>13, PushFields DEF r
<1>16. ~InProgress(s) /\ InProgress(r) BY <1>2, <1>6, <1>15 DEF InProgress
<1>17. Paced(r) BY <1>2, <1>10, <1>15 DEF Paced
<1>18. Fit(r) BY <1>11, <1>15, <1>16, <1>17 DEF Fit, Named, Burning, Patient
<1>19. Frame(s, r) BY <1>1, <1>15, SameFrame
<1>20. Begun(s, r, intent.id)
  BY <1>2, <1>14, <1>15, <1>16 DEF Begun, Held, n
<1>q. QED BY <1>9, <1>18, <1>19, <1>20

LEMMA RejectionTurnsDown ==
  ASSUME NEW s, Fit(s), NEW intent \in Intents(Ids), NEW reason \in Reasons
  PROVE  LET r == push_rejection(s, intent, reason)
         IN Fit(r) /\ Frame(s, r) /\ TurnedDown(s, r, intent.id)
<1> DEFINE o == Outcome(intent.id, intent.binding, 0, "Rejected", reason)
           r == push(s, o)
<1>1. s \in ActorType /\ Sound(s) BY DEF Fit, Sound
<1>2. intent.id \in Ids /\ intent.binding \in OutcomeBindings BY DEF Intents
<1>3. Tells(o, intent.id, "Rejected") BY <1>2, OutcomeKinds, OutcomeType DEF Tells
<1>4. push_rejection(s, intent, reason) = r BY DEF push_rejection
<1>5. Sound(r) BY <1>1, <1>4, RejectionKeeps DEF Keeps
<1>h. HIDE DEF o
<1>6. /\ r.phase = s.phase /\ r.id = s.id /\ r.source = s.source
      /\ r.binding = s.binding /\ r.wait = s.wait
      /\ r.cancelAfter = s.cancelAfter /\ r.nextId = s.nextId
      /\ r.cooldown = s.cooldown /\ r.ammo = s.ammo
      /\ r.effect = s.effect /\ r.blocks = s.blocks
      /\ r.out = Append(s.out, o)
  BY <1>1, PushFields
<1>h2. HIDE DEF r
<1>7. Fit(r) BY <1>5, <1>6, SameFit
<1>8. Frame(s, r) BY <1>1, <1>6, SameFrame
<1>9. TurnedDown(s, r, intent.id)
  BY <1>3, <1>6 DEF TurnedDown, SameAct, InProgress
<1>q. QED BY <1>4, <1>7, <1>8, <1>9

LEMMA AdmitStep ==
  ASSUME NEW s, Fit(s), NEW in \in Inputs(Ids)
  PROVE  InputStep(s, admit_action(s, in), in.intent.id)
<1> DEFINE a == settle_recovery(s)
           refusal == AdmissionRefusal(a, in.intent, in.selected)
<1>1. in.intent \in Intents(Ids) BY DEF Inputs
<1>2. Rests(s, a) BY SettleStill
<1>3. admit_action(s, in) =
        IF in.intent.id = 0 THEN s
        ELSE IF refusal = "None" THEN Start(a, in.intent, in.selected)
        ELSE push_rejection(a, in.intent, refusal)
  BY DEF admit_action
<1>h. HIDE DEF a
<1>4. Fit(a) /\ Sound(a) BY <1>2 DEF Rests, Fit
<1>5. refusal \in Reasons BY <1>1, <1>4, RefusalFacts
<1>6. CASE in.intent.id = 0
  BY <1>3, <1>6, StillItself DEF Rests, InputStep
<1>7. CASE in.intent.id # 0 /\ refusal = "None"
  BY <1>1, <1>2, <1>3, <1>4, <1>7, StartBegins, InputAfterStill DEF InputStep
<1>8. CASE in.intent.id # 0 /\ refusal # "None"
  <2>h. HIDE DEF refusal
  <2>1. InputStep(a, push_rejection(a, in.intent, refusal), in.intent.id)
    BY <1>1, <1>4, <1>5, <1>8, RejectionTurnsDown DEF InputStep
  <2>q. QED BY <2>1, <1>2, <1>3, <1>8, InputAfterStill
<1>q. QED BY <1>6, <1>7, <1>8

\* Reading an input leaves the action alone, refuses the intent or begins it.
LEMMA ReadInputStep ==
  ASSUME NEW s, Fit(s), NEW in \in Inputs(Ids)
  PROVE  InputStep(s, ReadInput(s, in), in.intent.id)
<1> DEFINE c == [s EXCEPT !.selected = in.selected]
           h == hold_selected_weapon(c, in.selected)
           u == take_continuous_input(h, in)
           a == admit_action(u, in)
<1>1. s \in ActorType /\ Sound(s) BY DEF Fit, Sound
<1>2. in.selected \in Arms BY DEF Inputs
<1>3. c \in ActorType BY <1>1, <1>2 DEF ActorType
<1>4. /\ c.phase = s.phase /\ c.id = s.id /\ c.source = s.source
      /\ c.binding = s.binding /\ c.wait = s.wait
      /\ c.cancelAfter = s.cancelAfter /\ c.cooldown = s.cooldown
      /\ c.effect = s.effect /\ c.nextId = s.nextId
      /\ c.blocks = s.blocks /\ c.out = s.out /\ c.ammo = s.ammo
      /\ c.reloading = s.reloading
  BY <1>1 DEF ActorType
<1>5. ReadInput(s, in) = take_continuous_input(a, in) BY DEF ReadInput
<1>h1. HIDE DEF c
<1>6. Sound(c) BY <1>1, <1>3, <1>4, SameAction DEF Keeps
<1>7. Rests(s, c) BY <1>4, <1>6, AmmoItself, SameStill
<1>8. Rests(c, h) BY <1>7, HoldWeaponStill DEF Rests
<1>h2. HIDE DEF h
<1>9. Rests(h, u) BY <1>8, ContinuousStill DEF Rests
<1>h3. HIDE DEF u
<1>10. InputStep(u, a, in.intent.id) BY <1>9, AdmitStep DEF Rests
<1>h4. HIDE DEF a
<1>11. Rests(a, take_continuous_input(a, in)) BY <1>10, ContinuousStill DEF InputStep
<1>12. Rests(s, h) BY <1>7, <1>8, StillTrans
<1>13. Rests(s, u) BY <1>9, <1>12, StillTrans
<1>14. InputStep(s, a, in.intent.id) BY <1>10, <1>13, InputAfterStill
<1>q. QED BY <1>5, <1>11, <1>14, StillAfterInput

-----------------------------------------------------------------------------
(* Advancing.                                                              *)

\* The commit c that is due of actor s, and the actor m it leaves for the
\* commit loop: its action goes on unless c completes it.
Due(s, m, c) ==
  LET t == TemplateFor(c.weapon, c.binding)
      fires == c.binding = "PrimaryFire"
  IN /\ Sound(m) /\ c \in Commits /\ InProgress(s)
     /\ c.id = s.id /\ c.weapon = s.source /\ c.binding = s.binding /\ c.count # 0
     /\ m.out = s.out /\ m.nextId = s.nextId /\ m.blocks = s.blocks
     /\ m.cooldown = s.cooldown /\ m.ammo = s.ammo
     /\ c.weapon \in m.equipped
     /\ fires => m.ammo[c.weapon] >= t.cost /\ s.cooldown[c.weapon] = 0
     /\ InProgress(m) <=> ~c.completes
     /\ ~c.completes => /\ m.id = s.id /\ m.source = s.source
                        /\ m.binding = s.binding /\ m.wait = t.interval
                        /\ ~m.cancelAfter /\ m.effect = s.effect
     /\ c.completes => m.effect = 0
     /\ t.maxCommits = 1 => c.completes
     /\ BeamsHold /\ fires /\ FireMode[c.weapon] = "Beam" => ~c.completes

AdvanceStep(s, adv) ==
  \/ adv.commits = << >> /\ QuietOrCut(s, adv.actor)
  \/ \E c \in Commits : adv.commits = <<c>> /\ Due(s, adv.actor, c)

LEMMA StillSteps ==
  ASSUME NEW s, NEW r, QuietOrCut(s, r)
  PROVE  AdvanceStep(s, Still(r))
  BY DEF Still, AdvanceStep

\* A commit falls due once the cadence has run out, and the one commit of a
\* template that has only one completes its action.
LEMMA EmitDue ==
  ASSUME NEW s, Fit(s), InProgress(s), ~(s.wait > 0),
         CanSpend(s, TemplateFor(s.source, s.binding))
  PROVE  AdvanceStep(s, EmitCommit(s, TemplateFor(s.source, s.binding)))
<1> DEFINE t == TemplateFor(s.source, s.binding)
           count == MinOf(CountCap, s.commits + 1)
           done == (t.maxCommits # 0 /\ count >= t.maxCommits) \/ s.cancelAfter
           interval == t.interval
           a == [s EXCEPT !.phase = "Active", !.commits = count, !.wait = interval]
           c == [id |-> s.id, binding |-> s.binding, weapon |-> s.source,
                 count |-> count, completes |-> done]
           r == IF done THEN enter_recovery(a, t) ELSE a
<1>1. s \in ActorType /\ Sound(s) BY DEF Fit, Sound
<1>2. /\ s.id \in Ids /\ s.binding \in Bindings /\ s.commits \in Counts
      /\ s.cancelAfter \in BOOLEAN /\ s.wait \in Ticks
  BY <1>1 DEF ActorType
<1>3. s.source \in Weapons BY <1>1 DEF Sound, Busy, InProgress
<1>4. /\ interval \in Ticks /\ t.recovery \in Ticks /\ t.maxCommits \in Counts
  BY <1>3, TemplateFacts
<1>5. count \in Counts /\ count >= 1
  BY <1>2, RuntimeAssumption DEF MinOf, Counts
<1>6. done \in BOOLEAN BY <1>2
<1>7. EmitCommit(s, t).actor = r /\ EmitCommit(s, t).commits = <<c>>
  BY DEF EmitCommit
<1>8. s.source \in s.equipped /\ (s.binding = "PrimaryFire" => s.ammo[s.source] >= t.cost)
  BY DEF CanSpend
<1>9. t.maxCommits = 1 => done BY <1>5
<1>10. /\ ~done => ~s.cancelAfter
       /\ BeamsHold /\ s.binding = "PrimaryFire" /\ FireMode[s.source] = "Beam" => ~done
  BY <1>3 DEF BeamsHold, TemplateFor, Fit, Patient
<1>11. s.binding = "PrimaryFire" => s.cooldown[s.source] = 0
  BY <1>1, <1>2, <1>3, RuntimeAssumption DEF ActorType, PerWeapon, Fit, Paced, Ticks
<1>12. t = TemplateFor(c.weapon, c.binding) OBVIOUS
<1>h. HIDE DEF count, done, interval, t
<1>13. c \in Commits BY <1>2, <1>3, <1>5, <1>6 DEF Commits
<1>14. a \in ActorType BY <1>1, <1>4, <1>5, Zeros DEF ActorType
<1>15. /\ a.out = s.out /\ a.phase = "Active" /\ a.id = s.id
       /\ a.source = s.source /\ a.binding = s.binding
       /\ a.ammo = s.ammo /\ a.reloading = s.reloading
       /\ a.nextId = s.nextId /\ a.blocks = s.blocks /\ a.cooldown = s.cooldown
       /\ a.equipped = s.equipped /\ a.wait = interval
       /\ a.cancelAfter = s.cancelAfter /\ a.effect = s.effect
  BY <1>1 DEF ActorType
<1>h2. HIDE DEF a
<1>16. Sound(a)
  BY <1>1, <1>3, <1>14, <1>15 DEF Sound, Busy, Magazines, Latched, InProgress
<1>17. InProgress(a) BY <1>15 DEF InProgress
<1>18. /\ c.id = s.id /\ c.weapon = s.source /\ c.binding = s.binding
       /\ c.completes = done /\ c.count # 0
  BY <1>5 DEF Counts
<1>h3. HIDE DEF c
<1>19. CASE ~done
  <2>1. r = a BY <1>19
  <2>2. Due(s, a, c)
    BY <1>8, <1>9, <1>10, <1>11, <1>12, <1>13, <1>15, <1>16, <1>17, <1>18, <1>19
    DEF Due, interval
  <2>q. QED BY <2>1, <2>2, <1>7, <1>13 DEF AdvanceStep, t
<1>20. CASE done
  <2>1. r = enter_recovery(a, t) BY <1>20
  <2>2. Sound(r) BY <2>1, <1>3, <1>4, <1>15, <1>16, RecoverySound
  <2>3. Over(a, r) BY <2>1, <1>4, <1>16, RecoveryOver
  <2>4. r.equipped = a.equipped
    BY <2>1, <1>14 DEF enter_recovery, release_action_resources, reset_action, ActorType
  <2>h. HIDE DEF r
  <2>5. Due(s, r, c)
    BY <2>2, <2>3, <2>4, <1>8, <1>9, <1>10, <1>11, <1>12, <1>13, <1>15, <1>18, <1>20
    DEF Due, Over
  <2>q. QED BY <2>5, <1>7, <1>13 DEF AdvanceStep, t
<1>q. QED BY <1>19, <1>20

\* A change of phase within the action, or of a field no shape speaks of.
LEMMA SameAdvance ==
  ASSUME NEW s, Fit(s), NEW r, Sound(r), InProgress(r) <=> InProgress(s),
         r.id = s.id, r.source = s.source,
         r.binding = s.binding, r.wait = s.wait, r.cancelAfter = s.cancelAfter,
         r.cooldown = s.cooldown, r.effect = s.effect,
         r.nextId = s.nextId, r.blocks = s.blocks, r.out = s.out, r.ammo = s.ammo
  PROVE  QuietOrCut(s, r)
  BY SameFrame DEF Fit, Named, Paced, Burning, Patient, QuietOrCut, Quiet, SameAct

\* What advances an action reached by a quiet step advances the action.
LEMMA AdvanceAfter ==
  ASSUME NEW s, Fit(s), NEW r, NEW adv,
         Fit(r), Quiet(s, r), r.blocks = s.blocks, r.cooldown = s.cooldown,
         r.ammo = s.ammo, InProgress(s) => r.source = s.source /\ r.binding = s.binding,
         r.effect = s.effect, AdvanceStep(r, adv)
  PROVE  AdvanceStep(s, adv)
  BY SameFrame, QuietOrCutTrans DEF QuietOrCut, Fit, AdvanceStep, Due, Quiet, SameAct

LEMMA ContinueStep ==
  ASSUME NEW s, Fit(s), InProgress(s)
  PROVE  AdvanceStep(s, ContinueAction(s, TemplateFor(s.source, s.binding)))
<1> DEFINE t == TemplateFor(s.source, s.binding)
           reason == CancelReason(s, t)
           cancel == s.cancelAfter \/ reason # "None"
           cuts == reason # "None" /\ (s.commits > 0 \/ t.cancelBeforeFirstCommit)
           a == [s EXCEPT !.cancelAfter = cancel]
           w == [a EXCEPT !.phase = "Windup"]
<1>1. s \in ActorType /\ Sound(s) BY DEF Fit, Sound
<1>2. reason \in Reasons BY ReasonFacts DEF CancelReason
<1>3. s.source \in Weapons BY <1>1 DEF Sound, Busy, InProgress
<1>4. cancel \in BOOLEAN OBVIOUS
<1>5. ContinueAction(s, t) =
        IF cuts
        THEN Still(enter_recovery(push_outcome(s, "Corrected", reason), t))
        ELSE IF a.wait > 0 THEN Still(w)
        ELSE IF ~CanSpend(a, t)
        THEN Still(enter_recovery(push_outcome(a, "Corrected", "EffectFailed"), t))
        ELSE EmitCommit(a, t)
  BY DEF ContinueAction
<1>6. t.recovery \in Ticks BY <1>3, TemplateFacts
<1>7. ASSUME ~cuts, BeamsHold, s.binding = "PrimaryFire", FireMode[s.source] = "Beam"
      PROVE  ~cancel
  BY <1>3, <1>7 DEF BeamsHold, TemplateFor, Fit, Patient
<1>h. HIDE DEF t, reason, cancel
<1>8. a \in ActorType BY <1>1, <1>4 DEF ActorType
<1>9. /\ a.out = s.out /\ a.phase = s.phase /\ a.id = s.id
      /\ a.source = s.source /\ a.binding = s.binding
      /\ a.ammo = s.ammo /\ a.reloading = s.reloading
      /\ a.nextId = s.nextId /\ a.blocks = s.blocks /\ a.cooldown = s.cooldown
      /\ a.wait = s.wait /\ a.effect = s.effect /\ a.cancelAfter = cancel
  BY <1>1 DEF ActorType
<1>h2. HIDE DEF a
<1>10. Sound(a) BY <1>1, <1>8, <1>9, SameAction DEF Keeps
<1>11. InProgress(a) BY <1>9 DEF InProgress
<1>12. ASSUME ~cuts PROVE Fit(a) /\ QuietOrCut(s, a)
  <2>1. Patient(a) \/ ~BeamsHold BY <1>7, <1>9, <1>12 DEF Patient
  <2>2. Fit(a) BY <2>1, <1>9, <1>10, <1>11 DEF Fit, Named, Paced, Burning
  <2>3. Frame(s, a) BY <1>1, <1>9, SameFrame
  <2>q. QED BY <2>2, <2>3, <1>9, <1>11 DEF QuietOrCut, Quiet, SameAct
<1>13. CASE cuts
  BY <1>1, <1>2, <1>5, <1>6, <1>13, CorrectedRecoveryCuts, StillSteps DEF QuietOrCut, t
<1>14. CASE ~cuts /\ a.wait > 0
  <2>1. w \in ActorType BY <1>8, Zeros DEF ActorType
  <2>2. /\ w.out = a.out /\ w.phase = "Windup" /\ w.id = a.id
        /\ w.source = a.source /\ w.binding = a.binding
        /\ w.ammo = a.ammo /\ w.reloading = a.reloading
        /\ w.nextId = a.nextId /\ w.blocks = a.blocks /\ w.cooldown = a.cooldown
        /\ w.wait = a.wait /\ w.effect = a.effect /\ w.cancelAfter = a.cancelAfter
    BY <1>8 DEF ActorType
  <2>h. HIDE DEF w
  <2>3. InProgress(w) BY <2>2 DEF InProgress
  <2>4. Sound(w)
    BY <1>10, <1>11, <2>1, <2>2, <2>3 DEF Sound, Busy, Magazines, Latched, InProgress
  <2>5. QuietOrCut(a, w) BY <1>11, <1>12, <1>14, <2>2, <2>3, <2>4, SameAdvance
  <2>6. QuietOrCut(s, w) BY <1>12, <1>14, <2>5, QuietOrCutTrans
  <2>q. QED BY <2>6, <1>5, <1>14, StillSteps DEF t
<1>15. CASE ~cuts /\ ~(a.wait > 0) /\ ~CanSpend(a, t)
  <2>1. QuietOrCut(a, enter_recovery(push_outcome(a, "Corrected", "EffectFailed"), t))
    BY <1>6, <1>10, <1>11, ReasonFacts, CorrectedRecoveryCuts DEF QuietOrCut
  <2>2. QuietOrCut(s, enter_recovery(push_outcome(a, "Corrected", "EffectFailed"), t))
    BY <1>12, <1>15, <2>1, QuietOrCutTrans
  <2>q. QED BY <2>2, <1>5, <1>15, StillSteps DEF t
<1>16. CASE ~cuts /\ ~(a.wait > 0) /\ CanSpend(a, t)
  BY <1>5, <1>9, <1>11, <1>12, <1>16, EmitDue, AdvanceAfter DEF t, Quiet, SameAct
<1>q. QED BY <1>13, <1>14, <1>15, <1>16

LEMMA AdvanceActionStep ==
  ASSUME NEW s, Fit(s)
  PROVE  AdvanceStep(s, advance_action(s))
<1> DEFINE q == settle_recovery(s)
           a == [q EXCEPT !.advanced = TRUE]
           t == TemplateFor(a.source, a.binding)
           stop == ChargeStop(a, t)
           w == [a EXCEPT !.phase = "Windup"]
           charging == t.mode = "Charge" /\ a.commits = 0
<1>1. advance_action(s) =
        IF s.advanced THEN Still(s)
        ELSE IF ~InProgress(a) THEN Still(a)
        ELSE IF charging /\ stop # "None" THEN Still(EndOutright(a, stop))
        ELSE IF charging /\ ~Released(a) THEN Still(w)
        ELSE ContinueAction(a, t)
  BY DEF advance_action
<1>2. Rests(s, q) BY SettleStill
<1>3. InProgress(s) => q = s BY SettleSound DEF Fit
<1>4. q.effect = s.effect /\ q.ammo = s.ammo
  BY DEF settle_recovery, reset_action, Fit, Sound, ActorType
<1>h. HIDE DEF q
<1>5. q \in ActorType /\ Sound(q) /\ Fit(q) BY <1>2 DEF Rests, Fit, Sound
<1>6. a \in ActorType BY <1>5 DEF ActorType
<1>7. /\ a.out = q.out /\ a.phase = q.phase /\ a.id = q.id
      /\ a.source = q.source /\ a.binding = q.binding
      /\ a.ammo = q.ammo /\ a.reloading = q.reloading
      /\ a.nextId = q.nextId /\ a.blocks = q.blocks /\ a.cooldown = q.cooldown
      /\ a.wait = q.wait /\ a.effect = q.effect /\ a.cancelAfter = q.cancelAfter
  BY <1>5 DEF ActorType
<1>h2. HIDE DEF a
<1>8. Sound(a) BY <1>5, <1>6, <1>7, SameAction DEF Keeps
<1>9. InProgress(a) <=> InProgress(q) BY <1>7 DEF InProgress
<1>10. Fit(a) BY <1>5, <1>7, <1>8, SameFit
<1>11. /\ Quiet(s, a) /\ a.blocks = s.blocks /\ a.cooldown = s.cooldown
       /\ a.ammo = s.ammo /\ a.effect = s.effect
       /\ InProgress(s) => a.source = s.source /\ a.binding = s.binding
  BY <1>2, <1>3, <1>4, <1>7, <1>9 DEF Rests, Frame, Quiet, SameAct
<1>12. stop \in Reasons BY ReasonFacts DEF ChargeStop
<1>13. AdvanceStep(s, Still(s))
  BY FrameItself, StillSteps DEF QuietOrCut, Fit
<1>14. AdvanceStep(a, Still(a))
  BY <1>8, <1>10, FrameItself, StillSteps DEF QuietOrCut
<1>15. ASSUME InProgress(a) PROVE AdvanceStep(a, Still(EndOutright(a, stop)))
  BY <1>8, <1>12, <1>15, EndOutrightCuts, StillSteps DEF QuietOrCut
<1>16. ASSUME InProgress(a) PROVE AdvanceStep(a, Still(w))
  <2>1. w \in ActorType BY <1>6, Zeros DEF ActorType
  <2>2. /\ w.out = a.out /\ w.phase = "Windup" /\ w.id = a.id
        /\ w.source = a.source /\ w.binding = a.binding
        /\ w.ammo = a.ammo /\ w.reloading = a.reloading
        /\ w.nextId = a.nextId /\ w.blocks = a.blocks /\ w.cooldown = a.cooldown
        /\ w.wait = a.wait /\ w.effect = a.effect /\ w.cancelAfter = a.cancelAfter
    BY <1>6 DEF ActorType
  <2>h. HIDE DEF w
  <2>3. InProgress(w) BY <2>2 DEF InProgress
  <2>4. Sound(w)
    BY <1>8, <1>16, <2>1, <2>2, <2>3 DEF Sound, Busy, Magazines, Latched, InProgress
  <2>q. QED BY <1>10, <1>16, <2>2, <2>3, <2>4, SameAdvance, StillSteps
<1>17. ASSUME InProgress(a) PROVE AdvanceStep(a, ContinueAction(a, t))
  BY <1>10, <1>17, ContinueStep
<1>h3. HIDE DEF t, stop, w, charging
<1>18. CASE s.advanced BY <1>1, <1>13, <1>18
<1>19. CASE ~s.advanced
  BY <1>1, <1>10, <1>11, <1>14, <1>15, <1>16, <1>17, <1>19, AdvanceAfter
<1>q. QED BY <1>18, <1>19

-----------------------------------------------------------------------------
(* Commits take effect.                                                    *)

\* What advancing and committing may do: nothing, end the action, or commit
\* it, spending rounds only of a weapon whose cadence has run out.
CommitStep(s, r) ==
  /\ Fit(r) /\ r.blocks = s.blocks
  /\ \A w \in Weapons : r.ammo[w] < s.ammo[w] => s.cooldown[w] = 0
  /\ \/ Quiet(s, r) \/ Cut(s, r) \/ Struck(s, r) \/ Finished(s, r)
     \/ ~SingleEffects /\ Faltered(s, r)

LEMMA FrameSpendsNothing ==
  ASSUME NEW s, Sound(s), NEW r, Sound(r), Frame(s, r)
  PROVE  \A w \in Weapons : r.ammo[w] < s.ammo[w] => s.cooldown[w] = 0
  BY DEF Sound, ActorType, PerWeapon, Frame

\* A refused commit ends its action if it was the last one.
LEMMA RefuseStep ==
  ASSUME NEW s, Fit(s), NEW m, NEW c, Due(s, m, c), SingleEffects => c.completes,
         NEW l, Sound(l), l.phase = m.phase, l.id = m.id, l.source = m.source,
         l.binding = m.binding, l.wait = m.wait, l.cancelAfter = m.cancelAfter,
         l.effect = m.effect, l.nextId = m.nextId, l.blocks = m.blocks,
         l.cooldown = m.cooldown, l.ammo = m.ammo, l.out = m.out,
         NEW reason \in Reasons
  PROVE  CommitStep(s, Refuse(l, c, reason))
<1> DEFINE o == Outcome(c.id, c.binding, c.count, "Corrected", reason)
           r == push(l, o)
<1>1. /\ Sound(s) /\ InProgress(s) /\ c \in Commits /\ c.id = s.id /\ s.id # 0
      /\ m.out = s.out /\ m.nextId = s.nextId /\ m.blocks = s.blocks
      /\ m.cooldown = s.cooldown /\ m.ammo = s.ammo
      /\ c.weapon = s.source /\ c.binding = s.binding
  BY DEF Due, Fit, Named
<1>2. Tells(o, s.id, "Corrected")
  BY <1>1, CommitOutcome, OutcomeKinds DEF Tells
<1>3. Refuse(l, c, reason) = r BY DEF Refuse
<1>4. Sound(r) BY <1>1, <1>3, RefuseApplies DEF Applied, Keeps
<1>h. HIDE DEF o
<1>5. /\ r.phase = l.phase /\ r.id = l.id /\ r.source = l.source
      /\ r.binding = l.binding /\ r.wait = l.wait
      /\ r.cancelAfter = l.cancelAfter /\ r.nextId = l.nextId
      /\ r.cooldown = l.cooldown /\ r.ammo = l.ammo
      /\ r.effect = l.effect /\ r.blocks = l.blocks /\ r.out = Append(l.out, o)
  BY PushFields DEF Sound
<1>h2. HIDE DEF r
<1>6. Frame(s, r) BY <1>1, <1>5, SameFrame
<1>7. InProgress(r) <=> ~c.completes BY <1>5 DEF Due, InProgress
<1>8. CASE c.completes
  <2>1. Fit(r) BY <1>4, <1>5, <1>7, <1>8, IdleFit DEF Due
  <2>2. Cut(s, r) BY <1>1, <1>2, <1>5, <1>7, <1>8 DEF Cut
  <2>q. QED BY <2>1, <2>2, <1>1, <1>3, <1>4, <1>5, <1>6, FrameSpendsNothing
        DEF CommitStep
<1>9. CASE ~c.completes
  <2>1. /\ r.id = s.id /\ r.source = s.source /\ r.binding = s.binding
        /\ r.wait = TemplateFor(c.weapon, c.binding).interval /\ ~r.cancelAfter
    BY <1>5, <1>9 DEF Due
  <2>2. Paced(r)
    BY <1>1, <1>5, <2>1, TemplateFacts, RuntimeAssumption DEF Commits, Due, Paced, Ticks
  <2>3. Fit(r) BY <2>1, <2>2, <1>1, <1>4, <1>7, <1>9
        DEF Fit, Named, Burning, Patient
  <2>4. Faltered(s, r) BY <2>1, <1>1, <1>2, <1>5, <1>7, <1>9 DEF Faltered, SameAct
  <2>q. QED BY <2>3, <2>4, <1>1, <1>3, <1>4, <1>5, <1>6, <1>9, FrameSpendsNothing
        DEF CommitStep
<1>q. QED BY <1>8, <1>9

LEMMA ConfirmCommits ==
  ASSUME NEW s, Fit(s), NEW m, NEW c, Due(s, m, c), NEW f, Sound(f),
         f.phase = m.phase, f.id = m.id, f.source = m.source,
         f.binding = m.binding, f.wait = m.wait, f.cancelAfter = m.cancelAfter,
         f.nextId = m.nextId, f.blocks = m.blocks, f.out = m.out,
         f.effect = m.effect \/ (c.binding = "PrimaryFire" /\ FireMode[c.weapon] = "Beam"),
         c.binding = "PrimaryFire" =>
           f.cooldown[c.weapon] = TemplateFor(c.weapon, c.binding).interval,
         \A w \in Weapons : f.ammo[w] < m.ammo[w] =>
                              w = c.weapon /\ c.binding = "PrimaryFire"
  PROVE  CommitStep(s, Confirm(f, c))
<1> DEFINE o == Outcome(c.id, c.binding, c.count, "Committed", "None")
           d == Outcome(c.id, c.binding, c.count, "Completed", "None")
           p == push(f, o)
           r == Confirm(f, c)
<1>1. /\ Sound(s) /\ InProgress(s) /\ c \in Commits /\ c.id = s.id
      /\ m.out = s.out /\ m.nextId = s.nextId /\ m.blocks = s.blocks
      /\ m.cooldown = s.cooldown /\ m.ammo = s.ammo
      /\ c.weapon = s.source /\ c.binding = s.binding /\ s.id # 0
  BY DEF Due, Fit, Named
<1>2. Tells(o, s.id, "Committed") /\ Tells(d, s.id, "Completed")
  BY <1>1, CommitOutcome, OutcomeKinds, ReasonFacts DEF Tells
<1>13. o.count # 0
  BY <1>1, RuntimeAssumption DEF Due, Commits, Counts, Outcome, MinOf
<1>3. Sound(r) BY <1>1, ConfirmApplies DEF Applied, Keeps
<1>4. r = IF c.completes THEN push(p, d) ELSE p BY DEF Confirm
<1>5. Sound(p) BY <1>2, PushSound DEF Tells
<1>h. HIDE DEF o, d
<1>6. /\ p.phase = f.phase /\ p.id = f.id /\ p.source = f.source
      /\ p.binding = f.binding /\ p.wait = f.wait
      /\ p.cancelAfter = f.cancelAfter /\ p.nextId = f.nextId
      /\ p.cooldown = f.cooldown /\ p.ammo = f.ammo
      /\ p.effect = f.effect /\ p.blocks = f.blocks /\ p.out = Append(f.out, o)
  BY PushFields DEF Sound
<1>h2. HIDE DEF p
<1>7. /\ r.phase = f.phase /\ r.id = f.id /\ r.source = f.source
      /\ r.binding = f.binding /\ r.wait = f.wait
      /\ r.cancelAfter = f.cancelAfter /\ r.nextId = f.nextId
      /\ r.cooldown = f.cooldown /\ r.ammo = f.ammo
      /\ r.effect = f.effect /\ r.blocks = f.blocks
      /\ r.out = IF c.completes THEN Append(Append(f.out, o), d)
                 ELSE Append(f.out, o)
  <2>1. CASE c.completes
    <3>1. r = push(p, d) BY <2>1, <1>4
    <3>h. HIDE DEF r
    <3>q. QED BY <2>1, <3>1, <1>5, <1>6, PushFields, SMTT(30) DEF Sound
  <2>2. CASE ~c.completes
    <3>1. r = p BY <2>2, <1>4
    <3>h. HIDE DEF r
    <3>q. QED BY <2>2, <3>1, <1>6
  <2>q. QED BY <2>1, <2>2
<1>h3. HIDE DEF r
<1>8. \A w \in Weapons : r.ammo[w] < s.ammo[w] => s.cooldown[w] = 0
  BY <1>1, <1>7 DEF Due
<1>9. r.blocks = s.blocks BY <1>1, <1>7
<1>10. InProgress(r) <=> ~c.completes BY <1>7 DEF Due, InProgress
<1>11. CASE c.completes
  <2>1. BeamsHold => r.effect = 0 BY <1>7, <1>11 DEF Due
  <2>2. Fit(r) BY <2>1, <1>3, <1>10, <1>11 DEF Fit, Named, Paced, Burning, Patient
  <2>3. Finished(s, r) BY <1>1, <1>2, <1>13, <1>7, <1>10, <1>11 DEF Finished
  <2>q. QED BY <2>2, <2>3, <1>8, <1>9 DEF CommitStep, r
<1>12. CASE ~c.completes
  <2>1. /\ r.id = s.id /\ r.source = s.source /\ r.binding = s.binding
        /\ r.wait = TemplateFor(c.weapon, c.binding).interval /\ ~r.cancelAfter
    BY <1>7, <1>12 DEF Due
  <2>2. Paced(r)
    BY <1>1, <1>7, <2>1, TemplateFacts, RuntimeAssumption DEF Commits, Paced, Ticks
  <2>3. Fit(r) BY <2>1, <2>2, <1>1, <1>3, <1>10, <1>12
        DEF Fit, Named, Burning, Patient
  <2>4. Struck(s, r) BY <2>1, <1>1, <1>2, <1>13, <1>7, <1>10, <1>12 DEF Struck, SameAct
  <2>q. QED BY <2>3, <2>4, <1>8, <1>9 DEF CommitStep, r
<1>q. QED BY <1>11, <1>12

LEMMA CommitReloadStep ==
  ASSUME NEW s, Fit(s), NEW a, Sound(a), NEW c, Due(s, a, c),
         c.binding = "Reload"
  PROVE  CommitStep(s, CommitReload(a, c))
<1> DEFINE l == [a EXCEPT !.reloading = FALSE]
           am == [a.ammo EXCEPT ![c.weapon] = MagazineSize[c.weapon]]
           rv == [a.reserve EXCEPT ![c.weapon] = a.reserve[c.weapon] - 1]
           f == [a EXCEPT !.reloading = FALSE, !.ammo = am, !.reserve = rv]
           g == [l EXCEPT !.ammo[c.weapon] = MagazineSize[c.weapon],
                          !.reserve[c.weapon] = @ - 1]
<1>1. a \in ActorType /\ c \in Commits /\ c.weapon \in Weapons
  BY DEF Sound, Due, Commits
<1>2. SingleEffects => c.completes
  BY <1>1 DEF Due, SingleEffects, TemplateFor
<1>3. l \in ActorType BY <1>1 DEF ActorType
<1>4. /\ l.out = a.out /\ l.phase = a.phase /\ l.id = a.id
      /\ l.source = a.source /\ l.binding = a.binding
      /\ l.ammo = a.ammo /\ l.reloading = FALSE /\ l.reserve = a.reserve
      /\ l.effect = a.effect /\ l.nextId = a.nextId /\ l.blocks = a.blocks
      /\ l.cooldown = a.cooldown /\ l.wait = a.wait
      /\ l.cancelAfter = a.cancelAfter
  BY <1>1 DEF ActorType
<1>5. CommitReload(a, c) =
        IF a.reserve[c.weapon] = 0 \/ a.ammo[c.weapon] >= MagazineSize[c.weapon]
        THEN Refuse(l, c, "EffectFailed") ELSE Confirm(g, c)
  BY DEF CommitReload
<1>6. g = f BY <1>1 DEF ActorType
<1>h0. HIDE DEF g
<1>7. CASE a.reserve[c.weapon] = 0 \/ a.ammo[c.weapon] >= MagazineSize[c.weapon]
  <2>h. HIDE DEF l
  <2>1. Magazines(l) BY <1>4 DEF Sound, Magazines
  <2>2. Sound(l) BY <2>1, <1>3, <1>4, SameActionAmmo DEF Keeps
  <2>3. CommitStep(s, Refuse(l, c, "EffectFailed"))
    BY <2>2, <1>2, <1>4, ReasonFacts, RefuseStep
  <2>q. QED BY <2>3, <1>5, <1>7
<1>8. CASE ~(a.reserve[c.weapon] = 0 \/ a.ammo[c.weapon] >= MagazineSize[c.weapon])
  <2>0. /\ a.ammo \in [Weapons -> Nat] /\ a.reserve \in [Weapons -> Nat]
        /\ MagazineSize[c.weapon] \in Nat
    BY <1>1, RuntimeAssumption DEF ActorType, PerWeapon
  <2>1. am \in PerWeapon(Nat) /\ rv \in PerWeapon(Nat)
    BY <1>1, <1>8, <2>0 DEF PerWeapon
  <2>2. /\ \A w \in Weapons : am[w] <= MagazineSize[w]
        /\ \A w \in Weapons : a.ammo[w] <= am[w]
    BY <2>0, <1>1, RuntimeAssumption DEF Sound, Magazines
  <2>h. HIDE DEF am, rv
  <2>3. f \in ActorType BY <1>1, <2>1 DEF ActorType
  <2>4. /\ f.out = a.out /\ f.phase = a.phase /\ f.id = a.id
        /\ f.source = a.source /\ f.binding = a.binding
        /\ f.ammo = am /\ f.reloading = FALSE /\ f.wait = a.wait
        /\ f.cancelAfter = a.cancelAfter
        /\ f.effect = a.effect /\ f.nextId = a.nextId /\ f.blocks = a.blocks
        /\ f.cooldown = a.cooldown
    BY <1>1 DEF ActorType
  <2>h2. HIDE DEF f
  <2>5. Magazines(f) BY <2>2, <2>4 DEF Magazines
  <2>6. Sound(f) BY <2>3, <2>4, <2>5, SameActionAmmo DEF Keeps
  <2>7. \A w \in Weapons : ~(f.ammo[w] < a.ammo[w])
    <3>1. f.ammo \in [Weapons -> Nat] BY <2>3 DEF ActorType, PerWeapon
    <3>2. \A w \in Weapons : /\ f.ammo[w] \in Nat /\ a.ammo[w] \in Nat
                             /\ a.ammo[w] <= f.ammo[w]
      BY <3>1, <2>0, <2>2, <2>4
    <3>3. ASSUME NEW w \in Weapons PROVE ~(f.ammo[w] < a.ammo[w])
      <4> DEFINE x == f.ammo[w]  y == a.ammo[w]
      <4>1. x \in Nat /\ y \in Nat /\ y <= x BY <3>2
      <4>h. HIDE DEF x, y
      <4>2. ~(x < y) BY <4>1
      <4>q. QED BY <4>2 DEF x, y
    <3>q. QED BY <3>3
  <2>8. CommitStep(s, Confirm(f, c)) BY <2>4, <2>6, <2>7, ConfirmCommits
  <2>q. QED BY <2>8, <1>5, <1>6, <1>8
<1>q. QED BY <1>7, <1>8

LEMMA CommitFireStep ==
  ASSUME NEW s, Fit(s), NEW a, Sound(a), NEW c, Due(s, a, c),
         c.binding = "PrimaryFire", NEW found
  PROVE  CommitStep(s, CommitFire(a, c, found))
<1> DEFINE w == c.weapon
           t == FireTemplate[w]
           mode == FireMode[w]
           spent == IF mode = "LockMissile" /\ ~found THEN 0 ELSE t.cost
           am == [a.ammo EXCEPT ![w] = a.ammo[w] - spent]
           cd == [a.cooldown EXCEPT ![w] = t.interval]
           ef == IF mode = "Beam" THEN BeamLife ELSE a.effect
           f == [a EXCEPT !.ammo = am, !.cooldown = cd, !.effect = ef]
           refused == a.ammo[w] < t.cost \/ (mode = "TargetedStrike" /\ ~found)
<1>1. a \in ActorType /\ c \in Commits /\ w \in Weapons
  BY DEF Sound, Due, Commits
<1>2. TemplateFor(c.weapon, c.binding) = t BY DEF TemplateFor
<1>3. t.cost \in Nat /\ t.interval \in Ticks BY <1>1, <1>2, TemplateFacts
<1>4. /\ a.ammo \in [Weapons -> Nat] /\ a.cooldown \in [Weapons -> Ticks]
      /\ a.effect \in Ticks
  BY <1>1 DEF ActorType, PerWeapon
<1>5. CommitFire(a, c, found) =
        IF refused THEN Refuse(a, c, "EffectFailed") ELSE Confirm(f, c)
  BY DEF CommitFire
<1>6. a.ammo[w] >= t.cost BY <1>2 DEF Due
<1>7. CASE refused
  <2>1. mode = "TargetedStrike"
    BY <1>1, <1>3, <1>4, <1>6, <1>7
  <2>2. SingleEffects => c.completes BY <2>1, <1>1, <1>2 DEF Due, SingleEffects
  <2>3. CommitStep(s, Refuse(a, c, "EffectFailed")) BY <2>2, ReasonFacts, RefuseStep
  <2>q. QED BY <2>3, <1>5, <1>7
<1>8. CASE ~refused
  <2>1. spent \in Nat /\ spent <= t.cost BY <1>3
  <2> DEFINE rounds == a.ammo[w] - spent
  <2>2. rounds \in Nat /\ rounds <= a.ammo[w] /\ a.ammo[w] \in Nat
    <3>1. a.ammo[w] \in Nat BY <1>1, <1>4
    <3>h. HIDE DEF t, spent, w
    <3>q. QED BY <3>1, <2>1, <1>3, <1>6
  <2>3. am = [a.ammo EXCEPT ![w] = rounds] OBVIOUS
  <2>4. ef \in Ticks /\ (ef = a.effect \/ mode = "Beam") BY <1>4, Zeros
  <2>5. cd \in PerWeapon(Ticks) /\ cd[w] = t.interval
    BY <1>1, <1>3, <1>4 DEF PerWeapon
  <2>h1. HIDE DEF rounds, am, w, ef, cd, t, mode, spent
  <2>6. am \in PerWeapon(Nat) BY <2>2, <2>3, <1>1, <1>4 DEF PerWeapon
  <2>7. \A x \in Weapons : /\ am[x] \in Nat /\ am[x] <= a.ammo[x]
                           /\ x # w => am[x] = a.ammo[x]
    BY <1>1, <1>4, <2>2, <2>3
  <2>8. \A x \in Weapons : am[x] <= MagazineSize[x]
    <3>1. MagazineSize \in [Weapons -> Nat] BY RuntimeAssumption
    <3>2. \A x \in Weapons : /\ a.ammo[x] <= MagazineSize[x] /\ a.ammo[x] \in Nat
                             /\ MagazineSize[x] \in Nat
      BY <3>1, <1>4 DEF Sound, Magazines
    <3>3. \A i, j, k \in Nat : i <= j /\ j <= k => i <= k OBVIOUS
    <3>q. QED BY <3>2, <3>3, <2>7
  <2>9. f \in ActorType BY <1>1, <2>4, <2>5, <2>6 DEF ActorType
  <2>10. /\ f.out = a.out /\ f.phase = a.phase /\ f.id = a.id
         /\ f.source = a.source /\ f.binding = a.binding
         /\ f.ammo = am /\ f.reloading = a.reloading /\ f.wait = a.wait
         /\ f.cancelAfter = a.cancelAfter
         /\ f.effect = ef /\ f.nextId = a.nextId /\ f.blocks = a.blocks
         /\ f.cooldown = cd
    BY <1>1 DEF ActorType
  <2>h2. HIDE DEF f
  <2>11. Magazines(f) BY <2>8, <2>10 DEF Magazines
  <2>12. Sound(f) BY <2>9, <2>10, <2>11, SameActionAmmo DEF Keeps
  <2>13. \A x \in Weapons : f.ammo[x] < a.ammo[x] => x = c.weapon
    <3>1. \A x \in Weapons : a.ammo[x] \in Nat BY <1>4
    <3>2. ASSUME NEW x \in Weapons, f.ammo[x] < a.ammo[x] PROVE x = w
      BY <2>7, <2>10, <3>1, <3>2
    <3>q. QED BY <3>2 DEF w
  <2>14. f.cooldown[c.weapon] = TemplateFor(c.weapon, c.binding).interval
    BY <2>5, <2>10, <1>2 DEF w
  <2>15. f.effect = a.effect \/ FireMode[c.weapon] = "Beam"
    BY <2>4, <2>10 DEF mode, w
  <2>16. CommitStep(s, Confirm(f, c))
    BY <2>10, <2>12, <2>13, <2>14, <2>15, ConfirmCommits
  <2>q. QED BY <2>16, <1>5, <1>8
<1>q. QED BY <1>7, <1>8

LEMMA ApplyStep ==
  ASSUME NEW s, Fit(s), NEW m, NEW c, Due(s, m, c), NEW found
  PROVE  CommitStep(s, ApplyCommit(m, c, found))
<1> DEFINE x == c.weapon
           a == [m EXCEPT !.active = x]
<1>1. m \in ActorType /\ Sound(m) /\ c \in Commits /\ c.weapon \in m.equipped
  BY DEF Due, Sound
<1>2. x \in Arms /\ c.binding \in Bindings BY <1>1 DEF Commits, Arms
<1>3. ApplyCommit(m, c, found) =
        IF c.binding = "Reload" THEN CommitReload(a, c) ELSE CommitFire(a, c, found)
  BY <1>1 DEF ApplyCommit
<1>h. HIDE DEF x
<1>4. a \in ActorType BY <1>1, <1>2 DEF ActorType
<1>5. /\ a.out = m.out /\ a.phase = m.phase /\ a.id = m.id
      /\ a.source = m.source /\ a.binding = m.binding
      /\ a.ammo = m.ammo /\ a.reloading = m.reloading /\ a.wait = m.wait
      /\ a.cancelAfter = m.cancelAfter /\ a.equipped = m.equipped
      /\ a.effect = m.effect /\ a.nextId = m.nextId /\ a.blocks = m.blocks
      /\ a.cooldown = m.cooldown
  BY <1>1 DEF ActorType
<1>h2. HIDE DEF a
<1>6. Sound(a) BY <1>1, <1>4, <1>5, SameAction DEF Keeps
<1>7. Due(s, a, c) BY <1>5, <1>6 DEF Due, InProgress
<1>8. c.binding = "Reload" \/ c.binding = "PrimaryFire" BY <1>2 DEF Bindings
<1>q. QED BY <1>3, <1>6, <1>7, <1>8, CommitReloadStep, CommitFireStep DEF x, a

\* Advancing an actor once a tick leaves its action alone, ends it or commits
\* it.
LEMMA AdvanceAndCommitStep ==
  ASSUME NEW s, Fit(s), NEW found
  PROVE  CommitStep(s, AdvanceAndCommit(s, found))
<1> DEFINE adv == advance_action(s)
<1>1. AdvanceStep(s, adv) BY AdvanceActionStep
<1>2. AdvanceAndCommit(s, found) =
        IF adv.commits = << >> THEN adv.actor
        ELSE ApplyCommit(adv.actor, Head(adv.commits), found)
  BY DEF AdvanceAndCommit
<1>h. HIDE DEF adv
<1>3. CASE adv.commits = << >> /\ QuietOrCut(s, adv.actor)
  BY <1>2, <1>3, FrameSpendsNothing DEF QuietOrCut, CommitStep, Frame, Fit
<1>4. ASSUME NEW c \in Commits, adv.commits = <<c>>, Due(s, adv.actor, c)
      PROVE  CommitStep(s, AdvanceAndCommit(s, found))
  BY <1>2, <1>4, ApplyStep
<1>q. QED BY <1>1, <1>3, <1>4 DEF AdvanceStep

-----------------------------------------------------------------------------
(* A whole pass, and the tick around it.                                   *)

\* A stagger that stands has been seen by the interrupts or is about to be.
Steadied(s) == "Staggered" \in s.blocks => s.stagger \/ ~InProgress(s)

\* A pass whose input carries the intent i (0 for none): the interrupts, the
\* input, the commit.
PassStep(s, r, i) ==
  \E p, q : /\ QuietOrCut(s, p) /\ (Held(p) => ~InProgress(p))
            /\ InputStep(p, q, i) /\ CommitStep(q, r)

LEMMA WeaponPassSteps ==
  ASSUME NEW s, Fit(s), Steadied(s), NEW in \in Inputs(Ids), NEW found
  PROVE  PassStep(s, WeaponPass(s, in, found), in.intent.id)
<1> DEFINE p == Interrupts(s)
           q == ReadInput(p, in)
           r == AdvanceAndCommit(q, found)
<1>1. QuietOrCut(s, p) /\ (Held(p) => ~InProgress(p))
  BY InterruptsStep DEF Steadied
<1>2. WeaponPass(s, in, found) = r BY DEF WeaponPass
<1>h. HIDE DEF p
<1>3. InputStep(p, q, in.intent.id) BY <1>1, ReadInputStep DEF QuietOrCut
<1>h2. HIDE DEF q
<1>4. CommitStep(q, r) BY <1>3, AdvanceAndCommitStep DEF InputStep
<1>h3. HIDE DEF r
<1>q. QED BY <1>1, <1>2, <1>3, <1>4 DEF PassStep

LEMMA IdlePassSteps ==
  ASSUME NEW s, Fit(s), Steadied(s), NEW found
  PROVE  PassStep(s, IdlePass(s, found), 0)
<1> DEFINE p == Interrupts(s)
           r == AdvanceAndCommit(p, found)
<1>1. QuietOrCut(s, p) /\ (Held(p) => ~InProgress(p))
  BY InterruptsStep DEF Steadied
<1>2. IdlePass(s, found) = r BY DEF IdlePass
<1>h. HIDE DEF p
<1>3. InputStep(p, p, 0) BY <1>1, FrameItself DEF QuietOrCut, InputStep, Fit
<1>4. CommitStep(p, r) BY <1>1, AdvanceAndCommitStep DEF QuietOrCut
<1>h2. HIDE DEF r
<1>q. QED BY <1>1, <1>2, <1>3, <1>4 DEF PassStep

\* What a pass leaves: a fit actor that is in no action while it is held, and
\* rounds gone only from a weapon whose cadence had run out.
LEMMA PassKeepsFit ==
  ASSUME NEW s, Fit(s), NEW i, NEW r, PassStep(s, r, i)
  PROVE  /\ Fit(r) /\ Steadied(r) /\ r.blocks = s.blocks
         /\ \A w \in Weapons : r.ammo[w] < s.ammo[w] => s.cooldown[w] = 0
<1>1. PICK p, q : /\ QuietOrCut(s, p) /\ (Held(p) => ~InProgress(p))
                  /\ InputStep(p, q, i) /\ CommitStep(q, r)
  BY DEF PassStep
<1>2. Fit(p) /\ Fit(q) /\ Fit(r) BY <1>1 DEF QuietOrCut, InputStep, CommitStep
<1>3. Frame(s, q) BY <1>1, <1>2, FrameTrans DEF QuietOrCut, InputStep, Fit
<1>4. p.blocks = s.blocks /\ q.blocks = s.blocks /\ r.blocks = s.blocks
  BY <1>1 DEF QuietOrCut, InputStep, CommitStep, Frame
<1>5. Held(p) => ~InProgress(q)
  BY <1>1 DEF InputStep, Quiet, TurnedDown, Begun, SameAct, Held
<1>6. ~InProgress(q) => ~InProgress(r)
  BY <1>1 DEF CommitStep, Quiet, Cut, Struck, Finished, Faltered, SameAct
<1>7. Steadied(r) BY <1>4, <1>5, <1>6 DEF Steadied, Held
<1>8. /\ s.ammo \in [Weapons -> Nat] /\ q.ammo \in [Weapons -> Nat]
      /\ r.ammo \in [Weapons -> Nat]
  BY <1>2 DEF Fit, Sound, ActorType, PerWeapon
<1>9. \A w \in Weapons : r.ammo[w] < s.ammo[w] => s.cooldown[w] = 0
  BY <1>1, <1>3, <1>8 DEF Frame, CommitStep
<1>q. QED BY <1>2, <1>4, <1>7, <1>9

LEMMA TickOverFit ==
  ASSUME NEW s, Fit(s), Steadied(s)
  PROVE  LET r == TickOver(s)
         IN /\ Fit(r) /\ Steadied(r) /\ r.out = << >> /\ r.nextId = s.nextId
            /\ r.phase = s.phase /\ r.id = s.id /\ r.ammo = s.ammo
<1> DEFINE cd == [w \in Weapons |-> Down(s.cooldown[w])]
           aw == [w \in Weapons |-> IF s.holstered[w]
                                    THEN MinOf(TickCap, s.away[w] + 1) ELSE 0]
           sil == MinOf(TickCap, s.silence + 1)
           wa == Down(s.wait)
           re == Down(s.rest)
           ef == Down(s.effect)
           r == [s EXCEPT !.wait = wa, !.rest = re,
                          !.effect = ef, !.cooldown = cd,
                          !.silence = sil, !.away = aw,
                          !.advanced = FALSE, !.out = << >>]
<1>1. s \in ActorType /\ Sound(s) BY DEF Fit, Sound
<1>2. TickOver(s) = r BY <1>1 DEF TickOver, ActorType
<1>3. Sound(r) BY <1>1, <1>2, TickOverKeeps
<1>4. s.wait \in Ticks /\ s.effect \in Ticks /\ s.cooldown \in [Weapons -> Ticks]
  BY <1>1 DEF ActorType, PerWeapon
<1>5. \A n \in Ticks : n \in Nat BY RuntimeAssumption DEF Ticks
<1>6. ef > 0 => s.effect > 0 BY <1>4, <1>5 DEF Down
<1>7. \A w \in Weapons : s.cooldown[w] <= s.wait => cd[w] <= wa
  BY <1>4, <1>5 DEF Down
<1>h. HIDE DEF cd, aw, sil, wa, re, ef
<1>8. /\ r.phase = s.phase /\ r.id = s.id /\ r.source = s.source
      /\ r.binding = s.binding /\ r.wait = wa
      /\ r.cancelAfter = s.cancelAfter /\ r.cooldown = cd
      /\ r.effect = ef /\ r.blocks = s.blocks /\ r.stagger = s.stagger
      /\ r.nextId = s.nextId /\ r.out = << >> /\ r.ammo = s.ammo
  BY <1>1 DEF ActorType
<1>h2. HIDE DEF r
<1>9. InProgress(r) <=> InProgress(s) BY <1>8 DEF InProgress
<1>10. InProgress(s) => s.source \in Weapons
  BY <1>1 DEF Sound, Busy, InProgress
<1>11. Named(r) BY <1>8, <1>9 DEF Fit, Named
<1>12. Paced(r) BY <1>7, <1>8, <1>9, <1>10 DEF Fit, Paced
<1>13. BeamsHold => Burning(r) /\ Patient(r)
  BY <1>6, <1>8, <1>9 DEF Fit, Burning, Patient
<1>14. Fit(r) BY <1>3, <1>11, <1>12, <1>13 DEF Fit
<1>15. Steadied(r) BY <1>8, <1>9 DEF Steadied
<1>q. QED BY <1>2, <1>8, <1>14, <1>15

\* What the world did to an actor: everything but the blocks stands.
Touched(s, r) ==
  /\ Fit(r) /\ Steadied(r) /\ r.out = s.out /\ r.nextId = s.nextId
  /\ r.phase = s.phase /\ r.id = s.id /\ r.ammo = s.ammo

\* Blocks, life and pending interrupts are no part of the action.
LEMMA WorldFit ==
  ASSUME NEW s, Fit(s), NEW al \in BOOLEAN, NEW bl \in SUBSET BlockReasons,
         NEW st \in BOOLEAN, NEW ha \in BOOLEAN,
         "Staggered" \in bl => st \/ ~InProgress(s)
  PROVE  Touched(s, [s EXCEPT !.alive = al, !.blocks = bl, !.stagger = st,
                              !.hands = ha])
<1> DEFINE r == [s EXCEPT !.alive = al, !.blocks = bl, !.stagger = st,
                          !.hands = ha]
<1>1. s \in ActorType /\ Sound(s) BY DEF Fit, Sound
<1>2. Sound(r) BY <1>1, WorldKeeps DEF Keeps
<1>3. /\ r.phase = s.phase /\ r.id = s.id /\ r.source = s.source
      /\ r.binding = s.binding /\ r.wait = s.wait
      /\ r.cancelAfter = s.cancelAfter /\ r.cooldown = s.cooldown
      /\ r.effect = s.effect /\ r.blocks = bl /\ r.stagger = st
      /\ r.nextId = s.nextId /\ r.out = s.out /\ r.ammo = s.ammo
  BY <1>1 DEF ActorType
<1>h. HIDE DEF r
<1>4. Fit(r) BY <1>2, <1>3, SameFit
<1>5. Steadied(r) BY <1>3 DEF Steadied, InProgress
<1>q. QED BY <1>3, <1>4, <1>5 DEF Touched, r

LEMMA DisturbanceFit ==
  ASSUME NEW s, Fit(s), Steadied(s), NEW reason \in BlockReasons
  PROVE  /\ Touched(s, Staggered(s)) /\ Touched(s, Sheltered(s))
         /\ reason # "Staggered" => Touched(s, Blocked(s, reason))
         /\ Touched(s, Unblocked(s, reason)) /\ Touched(s, HandsTaken(s))
         /\ Touched(s, Killed(s)) /\ Touched(s, Revived(s))
<1> DEFINE W(al, bl, st, ha) == [s EXCEPT !.alive = al, !.blocks = bl,
                                         !.stagger = st, !.hands = ha]
<1>1. s \in ActorType BY DEF Fit, Sound
<1>2. /\ s.alive \in BOOLEAN /\ s.blocks \in SUBSET BlockReasons
      /\ s.stagger \in BOOLEAN /\ s.hands \in BOOLEAN
  BY <1>1 DEF ActorType
<1>3. \A al \in BOOLEAN, bl \in SUBSET BlockReasons, st \in BOOLEAN,
        ha \in BOOLEAN :
        ("Staggered" \in bl => st \/ ~InProgress(s)) => Touched(s, W(al, bl, st, ha))
  BY WorldFit
<1>4. /\ Staggered(s) = W(s.alive, s.blocks \cup {"Staggered"}, TRUE, s.hands)
      /\ Sheltered(s) = W(s.alive, (s.blocks \ {"Staggered"}) \cup {"Sheltered"},
                          FALSE, s.hands)
      /\ Blocked(s, reason) = W(s.alive, s.blocks \cup {reason}, s.stagger, s.hands)
      /\ Unblocked(s, reason) = W(s.alive, s.blocks \ {reason}, s.stagger, s.hands)
      /\ HandsTaken(s) = W(s.alive, s.blocks, s.stagger, TRUE)
      /\ Killed(s) = W(FALSE, s.blocks \ {"Staggered", "KnockedBack"}, FALSE, s.hands)
      /\ Revived(s) = W(TRUE, s.blocks \cap {"Sheltered"}, FALSE, s.hands)
  BY <1>1 DEF ActorType, Staggered, Sheltered, Blocked, Unblocked, HandsTaken, Killed, Revived
<1>5. /\ s.blocks \cup {"Staggered"} \in SUBSET BlockReasons
      /\ (s.blocks \ {"Staggered"}) \cup {"Sheltered"} \in SUBSET BlockReasons
      /\ s.blocks \cup {reason} \in SUBSET BlockReasons
      /\ s.blocks \ {reason} \in SUBSET BlockReasons
      /\ s.blocks \ {"Staggered", "KnockedBack"} \in SUBSET BlockReasons
      /\ s.blocks \cap {"Sheltered"} \in SUBSET BlockReasons
  BY <1>2 DEF BlockReasons
<1>6. /\ "Staggered" \notin (s.blocks \ {"Staggered"}) \cup {"Sheltered"}
      /\ reason # "Staggered" /\ "Staggered" \in s.blocks \cup {reason} =>
           s.stagger \/ ~InProgress(s)
      /\ "Staggered" \in s.blocks => s.stagger \/ ~InProgress(s)
      /\ "Staggered" \in s.blocks \ {reason} => s.stagger \/ ~InProgress(s)
      /\ "Staggered" \notin s.blocks \ {"Staggered", "KnockedBack"}
      /\ "Staggered" \notin s.blocks \cap {"Sheltered"}
  BY DEF Steadied
<1>7. TRUE \in BOOLEAN /\ FALSE \in BOOLEAN OBVIOUS
<1>h. HIDE DEF W
<1>8. /\ Touched(s, Staggered(s)) /\ Touched(s, Sheltered(s))
  BY <1>2, <1>3, <1>4, <1>5, <1>6, <1>7
<1>9. reason # "Staggered" => Touched(s, Blocked(s, reason))
  BY <1>2, <1>3, <1>4, <1>5, <1>6, ZenonT(30)
<1>10. Touched(s, Unblocked(s, reason)) /\ Touched(s, HandsTaken(s))
  BY <1>2, <1>3, <1>4, <1>5, <1>6, <1>7, ZenonT(30)
<1>11. Touched(s, Killed(s)) /\ Touched(s, Revived(s))
  BY <1>2, <1>3, <1>4, <1>5, <1>6, <1>7
<1>q. QED BY <1>8, <1>9, <1>10, <1>11

\* A new loadout may only lower the reload latch and forget a cadence.
LEMMA LoadoutFit ==
  ASSUME NEW s, Fit(s), Steadied(s), NEW held \in SUBSET Weapons,
         NEW first \in Arms
  PROVE  Touched(s, rebuild_weapon_loadout(s, held, first))
<1> DEFINE stays(w) == w \in held \cap s.equipped
           ac == IF s.active \in held THEN s.active ELSE first
           re == s.reloading /\ s.active \in held
           cd == [w \in Weapons |-> IF stays(w) THEN s.cooldown[w] ELSE 0]
           ho == [w \in Weapons |-> stays(w) /\ s.holstered[w]]
           aw == [w \in Weapons |-> IF stays(w) THEN s.away[w] ELSE 0]
           r == [s EXCEPT !.equipped = held, !.active = ac, !.reloading = re,
                          !.cooldown = cd, !.holstered = ho, !.away = aw]
<1>1. s \in ActorType /\ Sound(s) BY DEF Fit, Sound
<1>2. rebuild_weapon_loadout(s, held, first) = r
  BY <1>1 DEF rebuild_weapon_loadout, ActorType
<1>3. Sound(r) BY <1>1, <1>2, LoadoutKeeps
<1>4. s.wait \in Nat /\ s.cooldown \in [Weapons -> Nat]
  BY <1>1, RuntimeAssumption DEF ActorType, PerWeapon, Ticks
<1>5. \A w \in Weapons : s.cooldown[w] <= s.wait => cd[w] <= s.wait BY <1>4
<1>h. HIDE DEF ac, re, cd, ho, aw
<1>6. /\ r.phase = s.phase /\ r.id = s.id /\ r.source = s.source
      /\ r.binding = s.binding /\ r.wait = s.wait
      /\ r.cancelAfter = s.cancelAfter /\ r.cooldown = cd
      /\ r.effect = s.effect /\ r.blocks = s.blocks /\ r.stagger = s.stagger
      /\ r.nextId = s.nextId /\ r.out = s.out /\ r.ammo = s.ammo
  BY <1>1 DEF ActorType
<1>h2. HIDE DEF r
<1>7. InProgress(r) <=> InProgress(s) BY <1>6 DEF InProgress
<1>8. InProgress(s) => s.source \in Weapons
  BY <1>1 DEF Sound, Busy, InProgress
<1>9. Named(r) BY <1>6, <1>7 DEF Fit, Named
<1>10. Paced(r) BY <1>5, <1>6, <1>7, <1>8 DEF Fit, Paced
<1>11. BeamsHold => Burning(r) /\ Patient(r)
  BY <1>6, <1>7 DEF Fit, Burning, Patient
<1>12. Fit(r) BY <1>3, <1>9, <1>10, <1>11 DEF Fit
<1>13. Steadied(r) BY <1>6, <1>7 DEF Steadied
<1>q. QED BY <1>2, <1>6, <1>12, <1>13 DEF Touched

LEMMA InitActorFit ==
  ASSUME NEW w \in Weapons
  PROVE  LET r == InitActor(w)
         IN Fit(r) /\ Steadied(r) /\ r.out = << >> /\ ~InProgress(r)
  BY InitActorSound, IdleFit DEF InitActor, InProgress, Steadied

-----------------------------------------------------------------------------
(* What has been said of an instance.                                      *)

LastWords == {"Completed", "Corrected"}

\* No last word on instance i yet, in the outcomes u or, by E, before them.
Free(u, E, i) ==
  i \notin E /\ \A k \in DOMAIN u : u[k].id = i => u[k].type \notin LastWords

\* What is reported of an instance beside refusals comes before the last word
\* on it, and the next id to be admitted is still ahead.
Once(u, E, n) ==
  \A k \in DOMAIN u :
    u[k].type # "Rejected" =>
      /\ u[k].id \notin E /\ u[k].id < n
      /\ \A j \in 1..(k - 1) : u[j].id = u[k].id => u[j].type \notin LastWords

History(s, E) ==
  /\ Once(s.out, E, s.nextId) /\ (\A e \in E : e \in Ids /\ e < s.nextId)
  /\ InProgress(s) => s.id < s.nextId /\ Free(s.out, E, s.id)

LEMMA AppendParts ==
  ASSUME NEW u \in Seq(Outcomes), NEW o \in Outcomes
  PROVE  LET v == Append(u, o)
         IN /\ v \in Seq(Outcomes) /\ Len(v) = Len(u) + 1 /\ Len(u) \in Nat
            /\ DOMAIN u = 1..Len(u) /\ DOMAIN v = 1..(Len(u) + 1)
            /\ \A k \in 1..Len(u) : v[k] = u[k]
            /\ v[Len(u) + 1] = o
  OBVIOUS

LEMMA AppendFree ==
  ASSUME NEW u \in Seq(Outcomes), NEW E, NEW i, Free(u, E, i),
         NEW o \in Outcomes, o.id = i => o.type \notin LastWords
  PROVE  Free(Append(u, o), E, i)
<1> DEFINE v == Append(u, o)
<1>1. /\ Len(u) \in Nat
      /\ DOMAIN u = 1..Len(u) /\ DOMAIN v = 1..(Len(u) + 1)
      /\ \A k \in 1..Len(u) : v[k] = u[k]
      /\ v[Len(u) + 1] = o
  BY AppendParts
<1>h. HIDE DEF v
<1>2. \A k \in DOMAIN v : k \in 1..Len(u) \/ k = Len(u) + 1 BY <1>1
<1>3. Free(v, E, i) BY <1>1, <1>2 DEF Free
<1>q. QED BY <1>3 DEF v

LEMMA AppendOnce ==
  ASSUME NEW u \in Seq(Outcomes), NEW E, NEW n, Once(u, E, n),
         NEW o \in Outcomes,
         o.type # "Rejected" => o.id < n /\ Free(u, E, o.id)
  PROVE  Once(Append(u, o), E, n)
<1> DEFINE v == Append(u, o)
<1>1. /\ Len(u) \in Nat
      /\ DOMAIN u = 1..Len(u) /\ DOMAIN v = 1..(Len(u) + 1)
      /\ \A k \in 1..Len(u) : v[k] = u[k]
      /\ v[Len(u) + 1] = o
  BY AppendParts
<1>h. HIDE DEF v
<1>2. ASSUME NEW k \in DOMAIN v, v[k].type # "Rejected"
      PROVE  /\ v[k].id \notin E /\ v[k].id < n
             /\ \A j \in 1..(k - 1) : v[j].id = v[k].id => v[j].type \notin LastWords
  BY <1>1, <1>2 DEF Once, Free
<1>q. QED BY <1>2 DEF Once, v

\* An id still ahead of the actor has had no last word.
LEMMA NewIsFree ==
  ASSUME NEW s \in ActorType, NEW E, History(s, E), NEW i \in Ids, s.nextId <= i
  PROVE  Free(s.out, E, i)
  BY RuntimeAssumption DEF ActorType, Ids, LastWords, History, Once, Free

\* The six shapes keep the history.
LEMMA ShapeHistory ==
  ASSUME NEW s, Fit(s), NEW r, Fit(r), NEW E, History(s, E),
         NEW i \in Ids, i # IdModulus - 1,
         \/ Quiet(s, r) \/ TurnedDown(s, r, i) \/ Begun(s, r, i)
         \/ Cut(s, r) \/ Struck(s, r) \/ Finished(s, r)
  PROVE  History(r, E)
<1>1. /\ s \in ActorType /\ s.out \in Seq(Outcomes) /\ s.nextId \in Ids
      /\ r \in ActorType /\ r.out \in Seq(Outcomes) /\ r.nextId \in Ids
      /\ s.id \in Ids
  BY DEF Fit, Sound, ActorType
<1>2. /\ Once(s.out, E, s.nextId) /\ (\A e \in E : e \in Ids /\ e < s.nextId)
      /\ InProgress(s) => s.id < s.nextId /\ Free(s.out, E, s.id)
  BY DEF History
<1>3. CASE Quiet(s, r) BY <1>2, <1>3 DEF Quiet, SameAct, History
<1>4. CASE TurnedDown(s, r, i)
  BY <1>1, <1>2, <1>4, AppendOnce, AppendFree DEF TurnedDown, Tells, LastWords, SameAct,
    History
<1>5. CASE Begun(s, r, i)
  <2>1. PICK o : Tells(o, i, "Admitted") /\ r.out = Append(s.out, o)
    BY <1>5 DEF Begun
  <2>2. o \in Outcomes /\ o.type = "Admitted" /\ o.type \notin LastWords /\ o.id = i
    BY <2>1 DEF Tells, LastWords
  <2>3. s.nextId <= i /\ r.id = i /\ InProgress(r) /\ r.nextId = NextGenerated(i)
    BY <1>5 DEF Begun
  <2>4. i \in Int /\ s.nextId \in Int BY <1>1, RuntimeAssumption DEF Ids
  <2>5. r.nextId = i + 1
    BY <2>3, RuntimeAssumption DEF NextGenerated, Ids
  <2>6. Free(s.out, E, i) BY <1>1, <2>3, NewIsFree
  <2>7. \A k \in DOMAIN s.out : s.out[k].id \in Int
    <3>1. \A k \in DOMAIN s.out : s.out[k] \in Outcomes BY <1>1
    <3>q. QED BY <3>1, RuntimeAssumption DEF Outcomes, Ids
  <2>8. s.nextId < r.nextId /\ i < r.nextId BY <2>3, <2>4, <2>5
  <2>9. \A k \in DOMAIN s.out : s.out[k].id < s.nextId => s.out[k].id < r.nextId
    BY <2>4, <2>5, <2>7, <2>8
  <2>10. Once(s.out, E, r.nextId) BY <1>2, <2>9 DEF Once
  <2>11. Once(r.out, E, r.nextId) BY <1>1, <2>1, <2>2, <2>6, <2>8, <2>10, AppendOnce
  <2>12. Free(r.out, E, i) BY <1>1, <2>1, <2>2, <2>6, AppendFree
  <2>13. \A e \in E : e \in Ids /\ e < r.nextId
    BY <1>2, <2>4, <2>5, <2>8, RuntimeAssumption DEF Ids
  <2>q. QED BY <2>3, <2>8, <2>11, <2>12, <2>13 DEF History
<1>6. CASE Cut(s, r)
  BY <1>1, <1>2, <1>6, AppendOnce DEF Cut, Tells, History
<1>7. CASE Struck(s, r)
  BY <1>1, <1>2, <1>7, AppendOnce, AppendFree DEF Struck, Tells, LastWords, SameAct, History
<1>8. CASE Finished(s, r)
  <2>1. PICK o, p : /\ Tells(o, s.id, "Committed") /\ Tells(p, s.id, "Completed")
                    /\ r.out = Append(Append(s.out, o), p)
    BY <1>8 DEF Finished
  <2>2. /\ o \in Outcomes /\ o.id = s.id /\ o.type \notin LastWords
        /\ p \in Outcomes /\ p.id = s.id
    BY <2>1 DEF Tells, LastWords
  <2>3. Once(Append(s.out, o), E, s.nextId) /\ Free(Append(s.out, o), E, s.id)
    BY <1>1, <1>2, <1>8, <2>2, AppendOnce, AppendFree DEF Finished
  <2>4. Append(s.out, o) \in Seq(Outcomes) BY <1>1, <2>2
  <2>5. Once(r.out, E, s.nextId)
    BY <1>2, <1>8, <2>1, <2>2, <2>3, <2>4, AppendOnce DEF Finished
  <2>q. QED BY <1>2, <1>8, <2>5 DEF Finished, History
<1>q. QED BY <1>3, <1>4, <1>5, <1>6, <1>7, <1>8

\* A pass keeps the history, for catalogs whose refusable commits are the last
\* of their action and for ids short of the last one of their width.
LEMMA PassHistory ==
  ASSUME SingleEffects, NEW s, Fit(s), NEW E, History(s, E), NEW i \in Ids,
         i # IdModulus - 1, NEW r, PassStep(s, r, i)
  PROVE  History(r, E)
  BY ShapeHistory DEF PassStep, QuietOrCut, InputStep, CommitStep

\* The last words of a tick are remembered when the next one begins.
LEMMA TickHistory ==
  ASSUME NEW s, Fit(s), Steadied(s), NEW E, History(s, E)
  PROVE  History(TickOver(s),
                 E \cup {s.out[k].id : k \in
                           {j \in DOMAIN s.out : s.out[j].type \in LastWords}})
<1> DEFINE r == TickOver(s)
           F == {s.out[k].id : k \in
                   {j \in DOMAIN s.out : s.out[j].type \in LastWords}}
<1>1. /\ r.out = << >> /\ r.nextId = s.nextId
      /\ r.phase = s.phase /\ r.id = s.id
  BY TickOverFit
<1>0. \A k \in DOMAIN s.out : s.out[k].id \in Ids
  <2>1. s.out \in Seq(Outcomes) BY DEF Fit, Sound, ActorType
  <2>2. \A k \in DOMAIN s.out : s.out[k] \in Outcomes BY <2>1
  <2>q. QED BY <2>2 DEF Outcomes
<1>2. \A e \in F : e \in Ids /\ e < s.nextId
  BY <1>0 DEF History, Once, LastWords
<1>3. InProgress(s) => s.id \notin F BY DEF History, Free
<1>h. HIDE DEF r, F
<1>4. DOMAIN r.out = {} BY <1>1
<1>5. InProgress(r) <=> InProgress(s) BY <1>1 DEF InProgress
<1>6. InProgress(s) => Free(r.out, E \cup F, s.id)
  BY <1>3, <1>4 DEF Free, History
<1>7. Once(r.out, E \cup F, r.nextId) BY <1>4 DEF Once
<1>8. History(r, E \cup F) BY <1>1, <1>2, <1>5, <1>6, <1>7 DEF History
<1>q. QED BY <1>8 DEF r, F

\* What the world does to an actor is no part of its history.
LEMMA TouchedHistory ==
  ASSUME NEW s, NEW r, Touched(s, r), NEW E, History(s, E)
  PROVE  History(r, E)
  BY DEF Touched, History, InProgress

-----------------------------------------------------------------------------
(* Nothing commits while held.                                             *)

Unspent(u) == \A k \in DOMAIN u : u[k].type # "Committed"

LEMMA AppendUnspent ==
  ASSUME NEW u \in Seq(Outcomes), Unspent(u), NEW o \in Outcomes,
         o.type # "Committed"
  PROVE  Unspent(Append(u, o))
<1> DEFINE v == Append(u, o)
<1>1. /\ Len(u) \in Nat
      /\ DOMAIN u = 1..Len(u) /\ DOMAIN v = 1..(Len(u) + 1)
      /\ \A k \in 1..Len(u) : v[k] = u[k]
      /\ v[Len(u) + 1] = o
  BY AppendParts
<1>h. HIDE DEF v
<1>2. \A k \in DOMAIN v : k \in 1..Len(u) \/ k = Len(u) + 1 BY <1>1
<1>3. Unspent(v) BY <1>1, <1>2 DEF Unspent
<1>q. QED BY <1>3 DEF v

\* A pass over an actor that is held commits nothing, and leaves it held.
LEMMA PassUnspent ==
  ASSUME NEW s, Fit(s), NEW i, NEW r, PassStep(s, r, i), Held(s), Unspent(s.out)
  PROVE  Unspent(r.out)
<1>1. PICK p, q : /\ QuietOrCut(s, p) /\ (Held(p) => ~InProgress(p))
                  /\ InputStep(p, q, i) /\ CommitStep(q, r)
  BY DEF PassStep
<1>2. s.out \in Seq(Outcomes) /\ p.out \in Seq(Outcomes) /\ q.out \in Seq(Outcomes)
  BY <1>1 DEF QuietOrCut, InputStep, Fit, Sound, ActorType
<1>3. p.blocks = s.blocks /\ ~InProgress(p)
  BY <1>1 DEF QuietOrCut, Frame, Held
<1>4. Unspent(p.out) BY <1>1, <1>2, AppendUnspent DEF QuietOrCut, Quiet, Cut, Tells
<1>5. Quiet(p, q) \/ TurnedDown(p, q, i)
  BY <1>1, <1>3 DEF InputStep, Begun, Held
<1>6. Unspent(q.out) /\ ~InProgress(q)
  BY <1>2, <1>3, <1>4, <1>5, AppendUnspent DEF Quiet, TurnedDown, Tells, SameAct
<1>7. Quiet(q, r)
  BY <1>1, <1>6 DEF CommitStep, Cut, Struck, Finished, Faltered
<1>q. QED BY <1>6, <1>7 DEF Quiet

-----------------------------------------------------------------------------
(* What a session that claims one instance at a time relies on.            *)

\* No end of instance c is reported yet.
Open(u, c) == \A k \in DOMAIN u : u[k].id = c => ~Ends(u[k])

\* A completion is reported right after its commit.
Paired(u) ==
  \A k \in DOMAIN u :
    u[k].type = "Completed" =>
      /\ k > 1 /\ u[k - 1].id = u[k].id /\ u[k - 1].type = "Committed"

LEMMA AppendOpen ==
  ASSUME NEW u \in Seq(Outcomes), NEW c, Open(u, c), NEW o \in Outcomes, ~Ends(o)
  PROVE  Open(Append(u, o), c)
<1> DEFINE v == Append(u, o)
<1>1. /\ Len(u) \in Nat
      /\ DOMAIN u = 1..Len(u) /\ DOMAIN v = 1..(Len(u) + 1)
      /\ \A k \in 1..Len(u) : v[k] = u[k]
      /\ v[Len(u) + 1] = o
  BY AppendParts
<1>h. HIDE DEF v
<1>2. \A k \in DOMAIN v : k \in 1..Len(u) \/ k = Len(u) + 1 BY <1>1
<1>3. Open(v, c) BY <1>1, <1>2 DEF Open
<1>q. QED BY <1>3 DEF v

LEMMA AppendPaired ==
  ASSUME NEW u \in Seq(Outcomes), Paired(u), NEW o \in Outcomes
  PROVE  /\ o.type # "Completed" => Paired(Append(u, o))
         /\ \A p \in Outcomes :
              o.type = "Committed" /\ p.id = o.id /\ p.type = "Completed" =>
                Paired(Append(Append(u, o), p))
<1> DEFINE v == Append(u, o)
<1>1. /\ Len(u) \in Nat /\ v \in Seq(Outcomes) /\ Len(v) = Len(u) + 1
      /\ DOMAIN u = 1..Len(u) /\ DOMAIN v = 1..(Len(u) + 1)
      /\ \A k \in 1..Len(u) : v[k] = u[k]
      /\ v[Len(u) + 1] = o
  BY AppendParts
<1>h. HIDE DEF v
<1>2. ASSUME o.type # "Completed" PROVE Paired(v)
  BY <1>1, <1>2 DEF Paired
<1>3. ASSUME NEW p \in Outcomes,
             o.type = "Committed" /\ p.id = o.id /\ p.type = "Completed"
      PROVE  Paired(Append(v, p))
  <2> DEFINE w == Append(v, p)
  <2>1. /\ DOMAIN w = 1..(Len(v) + 1) /\ w[Len(v) + 1] = p
        /\ \A k \in 1..Len(v) : w[k] = v[k]
    BY <1>1, AppendParts
  <2>h. HIDE DEF w
  <2>2. Paired(v) BY <1>2, <1>3
  <2> SUFFICES ASSUME NEW k \in DOMAIN w, w[k].type = "Completed"
               PROVE  k > 1 /\ w[k - 1].id = w[k].id /\ w[k - 1].type = "Committed"
    BY DEF Paired, w
  <2>3. CASE k = Len(v) + 1
    BY <1>1, <1>3, <2>1, <2>3
  <2>4. CASE k \in 1..Len(v)
    BY <1>1, <2>1, <2>2, <2>4 DEF Paired
  <2>q. QED BY <1>1, <2>1, <2>3, <2>4
<1>q. QED BY <1>2, <1>3 DEF v

\* A pass keeps completions paired with their commits.
LEMMA PassPaired ==
  ASSUME NEW s, Fit(s), NEW i, NEW r, PassStep(s, r, i), Paired(s.out)
  PROVE  Paired(r.out)
<1>1. PICK p, q : /\ QuietOrCut(s, p) /\ (Held(p) => ~InProgress(p))
                  /\ InputStep(p, q, i) /\ CommitStep(q, r)
  BY DEF PassStep
<1>2. s.out \in Seq(Outcomes) /\ p.out \in Seq(Outcomes) /\ q.out \in Seq(Outcomes)
  BY <1>1 DEF QuietOrCut, InputStep, Fit, Sound, ActorType
<1>3. Paired(p.out)
  BY <1>1, <1>2, AppendPaired DEF QuietOrCut, Quiet, Cut, Tells
<1>4. Paired(q.out)
  BY <1>1, <1>2, <1>3, AppendPaired DEF InputStep, Quiet, TurnedDown, Begun, Tells
<1>5. ASSUME NEW o, o \in Outcomes, o.type # "Completed", r.out = Append(q.out, o)
      PROVE  Paired(r.out)
  BY <1>2, <1>4, <1>5, AppendPaired
<1>6. CASE Finished(q, r)
  BY <1>2, <1>4, <1>6, AppendPaired DEF Finished, Tells
<1>7. CASE Quiet(q, r) BY <1>4, <1>7 DEF Quiet
<1>8. CASE Cut(q, r) \/ Struck(q, r) \/ Faltered(q, r)
  BY <1>5, <1>8 DEF Cut, Struck, Faltered, Tells
<1>q. QED BY <1>1, <1>6, <1>7, <1>8 DEF CommitStep

\* A session that claims c lets an intent through only while nothing is under
\* way and no end of c is reported: then what is under way after a pass is c,
\* still open, and a pass without an intent over an idle actor reports nothing.
LEMMA PassClaims ==
  ASSUME SingleEffects, NEW s, Fit(s), NEW i, NEW c,
         InProgress(s) => s.id = c /\ i = 0 /\ Open(s.out, c),
         i # 0 => i = c /\ Open(s.out, c),
         NEW r, PassStep(s, r, i)
  PROVE  /\ InProgress(r) => r.id = c /\ Open(r.out, c)
         /\ ~InProgress(s) /\ i = 0 => ~InProgress(r) /\ r.out = s.out
<1>1. PICK p, q : /\ QuietOrCut(s, p) /\ (Held(p) => ~InProgress(p))
                  /\ InputStep(p, q, i) /\ CommitStep(q, r)
  BY DEF PassStep
<1>2. s.out \in Seq(Outcomes) /\ p.out \in Seq(Outcomes) /\ q.out \in Seq(Outcomes)
  BY <1>1 DEF QuietOrCut, InputStep, Fit, Sound, ActorType
<1>3. /\ InProgress(p) => p.id = c /\ i = 0 /\ Open(p.out, c)
      /\ i # 0 => Open(p.out, c)
      /\ ~InProgress(s) => ~InProgress(p) /\ p.out = s.out
  BY <1>1 DEF QuietOrCut, Quiet, Cut, SameAct
<1>4. /\ InProgress(q) => q.id = c /\ Open(q.out, c)
      /\ ~InProgress(p) /\ i = 0 => ~InProgress(q) /\ q.out = p.out
  BY <1>1, <1>2, <1>3, AppendOpen DEF Quiet, SameAct, TurnedDown, Begun, Tells, Ends,
    InputStep
<1>5. /\ InProgress(r) => r.id = c /\ Open(r.out, c)
      /\ ~InProgress(q) => ~InProgress(r) /\ r.out = q.out
  <2>1. CASE Quiet(q, r) BY <1>4, <2>1 DEF Quiet, SameAct
  <2>2. CASE Cut(q, r) \/ Finished(q, r) BY <2>2 DEF Cut, Finished
  <2>3. CASE Struck(q, r)
    BY <1>2, <1>4, <2>3, AppendOpen DEF Struck, Tells, Ends, SameAct
  <2>q. QED BY <1>1, <2>1, <2>2, <2>3 DEF CommitStep
<1>q. QED BY <1>3, <1>4, <1>5

-----------------------------------------------------------------------------
(* What a pass says of the count.                                          *)

\* The outcomes that become results of the session.
Spoken(o) == o.type \in {"Committed", "Corrected", "Rejected"}

\* At most one of the outcomes is spoken, and it counts n commits; none is.
Speaks(u, n) ==
  /\ \A j, k \in DOMAIN u : Spoken(u[j]) /\ Spoken(u[k]) => j = k
  /\ \A k \in DOMAIN u : Spoken(u[k]) => u[k].count = n
Unspoken(u) == \A k \in DOMAIN u : ~Spoken(u[k])

LEMMA AppendSpeaks ==
  ASSUME NEW u \in Seq(Outcomes), NEW o \in Outcomes
  PROVE  /\ Unspoken(u) => Speaks(Append(u, o), o.count)
         /\ Unspoken(u) /\ ~Spoken(o) => Unspoken(Append(u, o))
         /\ \A n : Speaks(u, n) /\ ~Spoken(o) => Speaks(Append(u, o), n)
<1> DEFINE v == Append(u, o)
<1>1. /\ Len(u) \in Nat
      /\ DOMAIN u = 1..Len(u) /\ DOMAIN v = 1..(Len(u) + 1)
      /\ \A k \in 1..Len(u) : v[k] = u[k]
      /\ v[Len(u) + 1] = o
  BY AppendParts
<1>h. HIDE DEF v
<1>2. \A k \in DOMAIN v : (k \in DOMAIN u /\ v[k] = u[k]) \/ (k = Len(u) + 1 /\ v[k] = o)
  BY <1>1
<1>3. Unspoken(u) => Speaks(v, o.count) BY <1>2 DEF Unspoken, Speaks
<1>4. Unspoken(u) /\ ~Spoken(o) => Unspoken(v) BY <1>2 DEF Unspoken
<1>5. ASSUME NEW n, Speaks(u, n), ~Spoken(o) PROVE Speaks(v, n)
  BY <1>2, <1>5 DEF Speaks
<1>q. QED BY <1>3, <1>4, <1>5 DEF v

\* The flags the interrupts and the advance read are as they were.
Flagged(s, r) ==
  r.stagger = s.stagger /\ r.hands = s.hands /\ r.advanced = s.advanced

\* Nothing is said and the count stands, or the action's end is, at its count.
Mute(s, r) ==
  /\ r.out = s.out
  /\ InProgress(r) => InProgress(s) /\ r.commits = s.commits
EndsWith(s, r) ==
  /\ InProgress(s) /\ ~InProgress(r)
  /\ \E o \in Outcomes : o.count = s.commits /\ r.out = Append(s.out, o)
Stopped(s, r) == Mute(s, r) \/ EndsWith(s, r)

LEMMA StoppedTrans ==
  ASSUME NEW s, NEW r, NEW u, Stopped(s, r), Stopped(r, u)
  PROVE  Stopped(s, u)
  BY DEF Stopped, Mute, EndsWith

LEMMA PushCounts ==
  ASSUME NEW s \in ActorType, NEW o \in Outcomes
  PROVE  LET p == push(s, o)
         IN /\ p \in ActorType /\ Flagged(s, p) /\ p.out = Append(s.out, o)
            /\ p.commits = s.commits /\ p.phase = s.phase
<1>1. Append(s.out, o) \in Seq(Outcomes) BY DEF ActorType
<1>2. push(s, o) \in ActorType BY <1>1 DEF push, ActorType
<1>q. QED BY <1>2 DEF push, ActorType, Flagged

\* The count an action is stopped at.
LEMMA StopCounts ==
  ASSUME NEW s, Sound(s), NEW reason \in Reasons
  PROVE  LET p == push_outcome(s, "Corrected", reason)
         IN /\ Sound(p) /\ Flagged(s, p)
            /\ \E o \in Outcomes : o.count = s.commits /\ p.out = Append(s.out, o)
<1> DEFINE o == Outcome(s.id, s.binding, s.commits, "Corrected", reason)
           p == push(s, o)
<1>1. o \in Outcomes /\ push_outcome(s, "Corrected", reason) = p
  BY OutcomeTells DEF Tells
<1>2. s \in ActorType /\ s.commits \in Counts BY DEF Sound, ActorType
<1>3. o.count = s.commits
  BY <1>2, RuntimeAssumption DEF Outcome, MinOf, Counts
<1>4. Sound(p) BY <1>1, OutcomeKinds, PushOutcome
<1>h. HIDE DEF o
<1>5. Flagged(s, p) /\ p.out = Append(s.out, o) BY <1>1, <1>2, PushCounts
<1>h2. HIDE DEF p
<1>q. QED BY <1>1, <1>3, <1>4, <1>5

LEMMA ResetFlagged ==
  ASSUME NEW s \in ActorType
  PROVE  LET r == reset_action(s) IN Flagged(s, r) /\ r.out = s.out /\ ~InProgress(r)
  BY DEF reset_action, ActorType, Flagged, InProgress

LEMMA ReleaseFlagged ==
  ASSUME NEW s, Sound(s)
  PROVE  LET r == release_action_resources(s)
         IN r \in ActorType /\ Flagged(s, r) /\ r.out = s.out
<1>1. s \in ActorType /\ release_action_resources(s) \in ActorType
  BY ReleaseSound DEF Sound
<1>q. QED BY <1>1 DEF release_action_resources, ActorType, Flagged

LEMMA EndOutrightStops ==
  ASSUME NEW s, Sound(s), InProgress(s), NEW reason \in Reasons
  PROVE  LET r == EndOutright(s, reason) IN EndsWith(s, r) /\ Flagged(s, r)
<1> DEFINE p == push_outcome(s, "Corrected", reason)
           q == release_action_resources(p)
           r == reset_action(q)
<1>1. /\ Sound(p) /\ Flagged(s, p)
      /\ \E o \in Outcomes : o.count = s.commits /\ p.out = Append(s.out, o)
  BY StopCounts
<1>2. EndOutright(s, reason) = r BY DEF EndOutright
<1>h. HIDE DEF p
<1>3. q \in ActorType /\ Flagged(p, q) /\ q.out = p.out BY <1>1, ReleaseFlagged
<1>h2. HIDE DEF q
<1>4. Flagged(q, r) /\ r.out = q.out /\ ~InProgress(r) BY <1>3, ResetFlagged
<1>h3. HIDE DEF r
<1>q. QED BY <1>1, <1>2, <1>3, <1>4 DEF EndsWith, Flagged

LEMMA RecoveryFlagged ==
  ASSUME NEW s, Sound(s), NEW t, t.recovery \in Ticks
  PROVE  LET r == enter_recovery(s, t) IN Flagged(s, r) /\ r.out = s.out /\ ~InProgress(r)
<1> DEFINE q == release_action_resources(s)
           rest == t.recovery
           e == [q EXCEPT !.rest = rest, !.phase = "Recovery", !.cancelAfter = FALSE]
           r == enter_recovery(s, t)
<1>1. q \in ActorType /\ Flagged(s, q) /\ q.out = s.out BY ReleaseFlagged
<1>2. r = IF t.recovery = 0 THEN reset_action(q) ELSE e BY DEF enter_recovery
<1>h. HIDE DEF q, rest
<1>3. /\ Flagged(q, reset_action(q)) /\ reset_action(q).out = q.out
      /\ ~InProgress(reset_action(q))
  BY <1>1, ResetFlagged
<1>4. /\ e.stagger = q.stagger /\ e.hands = q.hands /\ e.advanced = q.advanced
      /\ e.out = q.out /\ e.phase = "Recovery"
  BY <1>1 DEF ActorType
<1>5. ~InProgress(e) BY <1>4 DEF InProgress
<1>h2. HIDE DEF e, r
<1>q. QED BY <1>1, <1>2, <1>3, <1>4, <1>5 DEF Flagged, r

LEMMA RecoveryStops ==
  ASSUME NEW s, Sound(s), InProgress(s), NEW reason \in Reasons,
         NEW t, t.recovery \in Ticks
  PROVE  LET r == enter_recovery(push_outcome(s, "Corrected", reason), t)
         IN EndsWith(s, r) /\ Flagged(s, r)
<1> DEFINE p == push_outcome(s, "Corrected", reason)
           r == enter_recovery(p, t)
<1>1. /\ Sound(p) /\ Flagged(s, p)
      /\ \E o \in Outcomes : o.count = s.commits /\ p.out = Append(s.out, o)
  BY StopCounts
<1>h. HIDE DEF p
<1>2. Flagged(p, r) /\ r.out = p.out /\ ~InProgress(r) BY <1>1, RecoveryFlagged
<1>h2. HIDE DEF r
<1>3. EndsWith(s, r) /\ Flagged(s, r) BY <1>1, <1>2 DEF EndsWith, Flagged
<1>q. QED BY <1>3 DEF r, p

\* A field the count does not depend on.
LEMMA StopsItself == ASSUME NEW s PROVE Stopped(s, s) /\ Flagged(s, s)
  BY DEF Stopped, Mute, Flagged

\* The interrupts stop the action or leave it, and have seen the stagger and
\* the hands.
LEMMA InterruptsStop ==
  ASSUME NEW s, Fit(s)
  PROVE  LET r == Interrupts(s)
         IN Stopped(s, r) /\ ~r.stagger /\ ~r.hands /\ r.advanced = s.advanced
<1> DEFINE seen == [s EXCEPT !.stagger = FALSE]
           a1 == interrupt_staggered_actions(s)
           a2 == interrupt_status_blocked_actions(a1)
           a3 == interrupt_sheltered_actions(a2)
           free == [a3 EXCEPT !.hands = FALSE]
           t == TemplateFor(a3.source, a3.binding)
           a4 == interrupt_actions_for_items(a3)
<1>1. Interrupts(s) = a4 BY DEF Interrupts
<1>2. Fit(a1) BY StaggerStep DEF QuietOrCut
<1>3. Stopped(s, a1) /\ ~a1.stagger /\ a1.hands = s.hands /\ a1.advanced = s.advanced
  <2>1. s \in ActorType /\ Sound(s) BY DEF Fit, Sound
  <2>2. seen \in ActorType BY <2>1 DEF ActorType
  <2>3. /\ seen.out = s.out /\ seen.phase = s.phase /\ seen.id = s.id
        /\ seen.source = s.source /\ seen.binding = s.binding
        /\ seen.ammo = s.ammo /\ seen.reloading = s.reloading
        /\ seen.commits = s.commits /\ ~seen.stagger /\ seen.hands = s.hands
        /\ seen.advanced = s.advanced
    BY <2>1 DEF ActorType
  <2>4. a1 = IF s.stagger /\ InProgress(s) THEN EndOutright(seen, "Staggered") ELSE seen
    BY DEF interrupt_staggered_actions
  <2>h. HIDE DEF seen, a1
  <2>5. Sound(seen) BY <2>1, <2>2, <2>3, SameAction DEF Keeps
  <2>6. Stopped(s, seen) /\ (InProgress(seen) <=> InProgress(s))
    BY <2>3 DEF Stopped, Mute, InProgress
  <2>7. CASE s.stagger /\ InProgress(s)
    BY <2>3, <2>4, <2>5, <2>6, <2>7, EndOutrightStops, ReasonFacts, StoppedTrans DEF
      Stopped, Flagged
  <2>8. CASE ~(s.stagger /\ InProgress(s)) BY <2>3, <2>4, <2>6, <2>8
  <2>q. QED BY <2>7, <2>8
<1>h. HIDE DEF a1, seen
<1>4. Fit(a2) BY <1>2, StatusStep DEF QuietOrCut
<1>5. Stopped(a1, a2) /\ Flagged(a1, a2)
  BY <1>2, EndOutrightStops, ReasonFacts, StopsItself
  DEF interrupt_status_blocked_actions, Stopped, Fit
<1>h2. HIDE DEF a2
<1>6. Fit(a3) BY <1>4, ShelterStep DEF QuietOrCut
<1>7. Stopped(a2, a3) /\ Flagged(a2, a3)
  BY <1>4, EndOutrightStops, ReasonFacts, StopsItself
  DEF interrupt_sheltered_actions, Stopped, Fit
<1>h3. HIDE DEF a3
<1>8. Stopped(a3, a4) /\ ~a4.hands /\ a4.stagger = a3.stagger /\ a4.advanced = a3.advanced
  <2>1. a3 \in ActorType /\ Sound(a3) BY <1>6 DEF Fit, Sound
  <2>2. free \in ActorType BY <2>1 DEF ActorType
  <2>3. /\ free.out = a3.out /\ free.phase = a3.phase /\ free.id = a3.id
        /\ free.source = a3.source /\ free.binding = a3.binding
        /\ free.ammo = a3.ammo /\ free.reloading = a3.reloading
        /\ free.commits = a3.commits /\ ~free.hands /\ free.stagger = a3.stagger
        /\ free.advanced = a3.advanced
    BY <2>1 DEF ActorType
  <2>4. a4 = IF ~(a3.hands /\ InProgress(a3)) THEN free
             ELSE IF a3.commits > 0
             THEN enter_recovery(push_outcome(free, "Corrected", "ItemAction"), t)
             ELSE EndOutright(free, "ItemAction")
    BY DEF interrupt_actions_for_items
  <2>5. InProgress(a3) => t.recovery \in Ticks
    BY <2>1, TemplateFacts DEF Sound, Busy, InProgress
  <2>h. HIDE DEF free, a4, t
  <2>6. Sound(free) BY <2>1, <2>2, <2>3, SameAction DEF Keeps
  <2>7. Stopped(a3, free) /\ (InProgress(free) <=> InProgress(a3))
    BY <2>3 DEF Stopped, Mute, InProgress
  <2>8. CASE a3.hands /\ InProgress(a3)
    <3>1. EndsWith(free, a4) /\ Flagged(free, a4)
      BY <2>4, <2>5, <2>6, <2>7, <2>8, EndOutrightStops, RecoveryStops, ReasonFacts
    <3>2. Stopped(a3, a4) BY <2>7, <3>1, StoppedTrans DEF Stopped
    <3>q. QED BY <2>3, <3>1, <3>2 DEF Flagged
  <2>9. CASE ~(a3.hands /\ InProgress(a3)) BY <2>3, <2>4, <2>7, <2>9
  <2>q. QED BY <2>8, <2>9
<1>h4. HIDE DEF a4
<1>9. Stopped(s, a4) BY <1>3, <1>5, <1>7, <1>8, StoppedTrans
<1>q. QED BY <1>1, <1>3, <1>5, <1>7, <1>8, <1>9 DEF Flagged

\* What an input with intent i may say: nothing, that it is refused, or that
\* its action begins, with no commit counted.
Replied(s, r, i) ==
  \/ Mute(s, r)
  \/ /\ i # 0 /\ (InProgress(r) => InProgress(s) /\ r.commits = s.commits)
     /\ \E o \in Outcomes : o.count = 0 /\ r.out = Append(s.out, o)
  \/ /\ i # 0 /\ ~InProgress(s) /\ (InProgress(r) => r.commits = 0)
     /\ \E o \in Outcomes : ~Spoken(o) /\ r.out = Append(s.out, o)

LEMMA HoldWeaponMute ==
  ASSUME NEW s, Fit(s), NEW w
  PROVE  LET r == hold_selected_weapon(s, w) IN Mute(s, r) /\ Flagged(s, r)
<1> DEFINE h == [v \in Weapons |-> IF v = w THEN FALSE
                                   ELSE v = s.active \/ s.holstered[v]]
           y == [v \in Weapons |-> IF v = s.active \/ v = w THEN 0 ELSE s.away[v]]
           put == [s EXCEPT !.holstered = h, !.away = y, !.active = w]
           m == [s.ammo EXCEPT ![w] = MagazineSize[w]]
           z == [s.reserve EXCEPT ![w] = s.reserve[w] - 1]
           full == [s EXCEPT !.holstered = h, !.away = y, !.active = w,
                             !.ammo = m, !.reserve = z]
           r == hold_selected_weapon(s, w)
<1>1. s \in ActorType BY DEF Fit, Sound
<1>2. r = s \/ r = put \/ r = [put EXCEPT !.ammo[w] = MagazineSize[w], !.reserve[w] = @ - 1]
  BY DEF hold_selected_weapon
<1>3. [put EXCEPT !.ammo[w] = MagazineSize[w], !.reserve[w] = @ - 1] = full
  BY <1>1 DEF ActorType
<1>4. r = s \/ r = put \/ r = full BY <1>2, <1>3
<1>h. HIDE DEF h, y, m, z, r
<1>5. /\ put.out = s.out /\ put.phase = s.phase /\ put.commits = s.commits
      /\ put.stagger = s.stagger /\ put.hands = s.hands /\ put.advanced = s.advanced
  BY <1>1 DEF ActorType
<1>6. /\ full.out = s.out /\ full.phase = s.phase /\ full.commits = s.commits
      /\ full.stagger = s.stagger /\ full.hands = s.hands
      /\ full.advanced = s.advanced
  BY <1>1 DEF ActorType
<1>h2. HIDE DEF put, full
<1>q. QED BY <1>4, <1>5, <1>6 DEF Mute, Flagged, InProgress, r

LEMMA ContinuousMute ==
  ASSUME NEW s, s \in ActorType, NEW in
  PROVE  LET r == take_continuous_input(s, in) IN Mute(s, r) /\ Flagged(s, r)
<1> DEFINE r == [s EXCEPT !.contId = in.holdId, !.contHeld = in.held, !.silence = 0]
<1>1. /\ r.out = s.out /\ r.phase = s.phase /\ r.commits = s.commits
      /\ r.stagger = s.stagger /\ r.hands = s.hands /\ r.advanced = s.advanced
  BY DEF ActorType
<1>2. take_continuous_input(s, in) = r \/ take_continuous_input(s, in) = s
  BY DEF take_continuous_input
<1>h. HIDE DEF r
<1>q. QED BY <1>1, <1>2 DEF Mute, Flagged, InProgress

LEMMA SettleMute ==
  ASSUME NEW s, Sound(s)
  PROVE  LET r == settle_recovery(s) IN Mute(s, r) /\ Flagged(s, r)
  BY ResetFlagged DEF Sound, settle_recovery, Mute, Flagged

LEMMA RejectionCounts ==
  ASSUME NEW s, Sound(s), NEW intent \in Intents(Ids), NEW reason \in Reasons
  PROVE  LET r == push_rejection(s, intent, reason)
         IN /\ Flagged(s, r) /\ r.commits = s.commits /\ r.phase = s.phase
            /\ \E o \in Outcomes : o.count = 0 /\ r.out = Append(s.out, o)
<1> DEFINE o == Outcome(intent.id, intent.binding, 0, "Rejected", reason)
<1>1. intent.id \in Ids /\ intent.binding \in OutcomeBindings BY DEF Intents
<1>2. o \in Outcomes BY <1>1, OutcomeKinds, OutcomeType
<1>3. o.count = 0 BY RuntimeAssumption DEF Outcome, MinOf
<1>4. push_rejection(s, intent, reason) = push(s, o) BY DEF push_rejection
<1>h. HIDE DEF o
<1>q. QED BY <1>2, <1>3, <1>4, PushCounts DEF Sound

LEMMA StartCounts ==
  ASSUME NEW s, Fit(s), NEW intent \in Intents(Ids), NEW w,
         AdmissionRefusal(s, intent, w) = "None"
  PROVE  LET r == Start(s, intent, w)
         IN /\ Flagged(s, r) /\ r.commits = 0 /\ ~InProgress(s)
            /\ \E o \in Outcomes : ~Spoken(o) /\ r.out = Append(s.out, o)
<1> DEFINE t == TemplateFor(w, intent.binding)
           n == NextGenerated(intent.id)
           phase == IF t.offset = 0 THEN "Active" ELSE "Windup"
           latch == s.reloading \/ intent.binding = "Reload"
           offset == t.offset
           a == [s EXCEPT !.nextId = n, !.id = intent.id,
                     !.binding = intent.binding, !.source = w,
                     !.wait = offset, !.rest = 0, !.commits = 0,
                     !.cancelAfter = FALSE, !.silence = 0,
                     !.phase = phase, !.reloading = latch]
           o == Outcome(a.id, a.binding, a.commits, "Admitted", "None")
<1>1. s \in ActorType /\ Sound(s) BY DEF Fit, Sound
<1>2. s.phase = "None" /\ w \in Weapons /\ intent.binding \in Bindings
  BY AdmissionFacts
<1>3. offset \in Ticks BY <1>2, TemplateFacts
<1>4. intent.id \in Ids BY DEF Intents
<1>5. n \in Ids BY <1>4, RuntimeAssumption DEF NextGenerated, Ids
<1>6. phase \in Phases BY Zeros
<1>7. latch \in BOOLEAN OBVIOUS
<1>8. w \in Arms BY <1>2 DEF Arms
<1>9. Start(s, intent, w) = push(a, o) BY DEF Start, push_outcome
<1>h. HIDE DEF t, n, phase, latch, offset, o
<1>b. intent.binding \in Bindings BY <1>2
<1>10. a \in ActorType
  BY <1>b, <1>1, <1>3, <1>4, <1>5, <1>6, <1>7, <1>8, Zeros DEF ActorType
<1>11. /\ a.out = s.out /\ a.commits = 0 /\ a.id = intent.id
       /\ a.binding = intent.binding /\ Flagged(s, a)
  BY <1>1 DEF ActorType, Flagged
<1>12. o \in Outcomes /\ o.type = "Admitted"
  <2>1. a.binding \in OutcomeBindings BY <1>2, <1>11, OutcomeKinds
  <2>2. a.commits \in Nat BY <1>11
  <2>h. HIDE DEF a
  <2>q. QED BY <2>1, <2>2, <1>4, <1>11, OutcomeType, OutcomeKinds, ReasonFacts DEF o
<1>h2. HIDE DEF a
<1>13. /\ Flagged(a, push(a, o)) /\ push(a, o).out = Append(a.out, o)
       /\ push(a, o).commits = a.commits
  BY <1>10, <1>12, PushCounts
<1>14. ~Spoken(o) BY <1>12 DEF Spoken
<1>q. QED BY <1>2, <1>9, <1>11, <1>12, <1>13, <1>14 DEF Flagged, InProgress

\* Reading an input says what became of its intent.
LEMMA ReadInputAnswers ==
  ASSUME NEW s, Fit(s), NEW in \in Inputs(Ids)
  PROVE  LET r == ReadInput(s, in) IN Replied(s, r, in.intent.id) /\ Flagged(s, r)
<1> DEFINE c == [s EXCEPT !.selected = in.selected]
           h == hold_selected_weapon(c, in.selected)
           u == take_continuous_input(h, in)
           v == settle_recovery(u)
           refusal == AdmissionRefusal(v, in.intent, in.selected)
           a == admit_action(u, in)
           r == take_continuous_input(a, in)
           i == in.intent.id
<1>1. s \in ActorType /\ Sound(s) BY DEF Fit, Sound
<1>2. in.selected \in Arms /\ in.intent \in Intents(Ids) BY DEF Inputs
<1>3. c \in ActorType BY <1>1, <1>2 DEF ActorType
<1>4. /\ c.phase = s.phase /\ c.id = s.id /\ c.source = s.source
      /\ c.binding = s.binding /\ c.wait = s.wait
      /\ c.cancelAfter = s.cancelAfter /\ c.cooldown = s.cooldown
      /\ c.effect = s.effect /\ c.out = s.out /\ c.ammo = s.ammo
      /\ c.reloading = s.reloading /\ c.commits = s.commits /\ Flagged(s, c)
  BY <1>1 DEF ActorType, Flagged
<1>5. ReadInput(s, in) = r BY DEF ReadInput
<1>h1. HIDE DEF c
<1>6. Sound(c) BY <1>1, <1>3, <1>4, SameAction DEF Keeps
<1>7. Fit(c) BY <1>4, <1>6, SameFit
<1>8. Mute(s, c) BY <1>4 DEF Mute, InProgress
<1>9. Fit(h) /\ Rests(c, h) BY <1>7, HoldWeaponStill DEF Rests
<1>10. Mute(c, h) /\ Flagged(c, h) BY <1>7, HoldWeaponMute
<1>h2. HIDE DEF h
<1>11. Fit(u) BY <1>9, ContinuousStill DEF Rests
<1>12. Mute(h, u) /\ Flagged(h, u) BY <1>9, ContinuousMute DEF Fit, Sound
<1>13. a = IF i = 0 THEN u
           ELSE IF refusal = "None" THEN Start(v, in.intent, in.selected)
           ELSE push_rejection(v, in.intent, refusal)
  BY DEF admit_action
<1>s2. InProgress(u) <=> InProgress(s)
  BY <1>4, <1>9, ContinuousStill DEF Rests, Quiet, SameAct, InProgress
<1>h3. HIDE DEF u
<1>14. Fit(v) BY <1>11, SettleStill DEF Rests
<1>15. Mute(u, v) /\ Flagged(u, v) BY <1>11, SettleMute DEF Fit
<1>s. InProgress(u) => InProgress(v) BY <1>11, SettleSound DEF Fit
<1>16. Fit(a) BY <1>11, AdmitStep DEF InputStep
<1>17. Mute(a, r) /\ Flagged(a, r) BY <1>16, ContinuousMute DEF Fit, Sound
<1>h4. HIDE DEF v
<1>18. refusal \in Reasons BY <1>2, <1>14, RefusalFacts DEF Fit
<1>19. Replied(u, a, i) /\ Flagged(u, a)
  <2>1. CASE i = 0 BY <1>13, <2>1 DEF Replied, Mute, Flagged
  <2>2. CASE i # 0 /\ refusal = "None"
    <3>1. a = Start(v, in.intent, in.selected) BY <1>13, <2>2
    <3>2. /\ Flagged(v, a) /\ a.commits = 0 /\ ~InProgress(v)
          /\ \E o \in Outcomes : ~Spoken(o) /\ a.out = Append(v.out, o)
      BY <1>2, <1>14, <2>2, <3>1, StartCounts
    <3>h. HIDE DEF a
    <3>q. QED BY <1>15, <1>s, <2>2, <3>2 DEF Replied, Mute, Flagged
  <2>3. CASE i # 0 /\ refusal # "None"
    <3>1. a = push_rejection(v, in.intent, refusal) BY <1>13, <2>3
    <3>h. HIDE DEF refusal
    <3>2. /\ Flagged(v, a) /\ a.commits = v.commits /\ a.phase = v.phase
          /\ \E o \in Outcomes : o.count = 0 /\ a.out = Append(v.out, o)
      BY <1>2, <1>14, <1>18, <3>1, RejectionCounts DEF Fit
    <3>h2. HIDE DEF a
    <3>3. InProgress(a) => InProgress(u) /\ a.commits = u.commits
      BY <1>15, <3>2 DEF Mute, InProgress
    <3>q. QED BY <1>15, <2>3, <3>2, <3>3 DEF Replied, Mute, Flagged
  <2>q. QED BY <2>1, <2>2, <2>3
<1>h5. HIDE DEF a, r
<1>20. Mute(s, u) /\ Flagged(s, u) BY <1>4, <1>8, <1>10, <1>12 DEF Mute, Flagged
<1>21. Flagged(s, r) BY <1>17, <1>19, <1>20 DEF Flagged
<1>22. Replied(s, r, i)
  <2>h. HIDE DEF i
  <2>1. CASE Mute(u, a) BY <1>17, <1>20, <2>1 DEF Replied, Mute
  <2>2. CASE /\ i # 0 /\ (InProgress(a) => InProgress(u) /\ a.commits = u.commits)
             /\ \E o \in Outcomes : o.count = 0 /\ a.out = Append(u.out, o)
    BY <1>17, <1>20, <2>2 DEF Replied, Mute
  <2>3. CASE /\ i # 0 /\ ~InProgress(u) /\ (InProgress(a) => a.commits = 0)
             /\ \E o \in Outcomes : ~Spoken(o) /\ a.out = Append(u.out, o)
    BY <1>17, <1>20, <1>s2, <2>3 DEF Replied, Mute
  <2>q. QED BY <1>19, <2>1, <2>2, <2>3 DEF Replied
<1>q. QED BY <1>5, <1>21, <1>22

\* What advancing may do to the count: nothing, stop at it, or the commit that
\* is due, which counts no less.
Moves(s, adv) ==
  /\ Flagged(s, adv.actor)
  /\ \/ adv.commits = << >> /\ Stopped(s, adv.actor)
     \/ \E c : /\ adv.commits = <<c>> /\ InProgress(s) /\ s.commits <= c.count
               /\ adv.actor.out = s.out
               /\ InProgress(adv.actor) => adv.actor.commits = c.count

LEMMA StillMoves ==
  ASSUME NEW s, NEW r, Stopped(s, r), Flagged(s, r)
  PROVE  Moves(s, Still(r))
  BY DEF Still, Moves

LEMMA MovesAfter ==
  ASSUME NEW s, NEW r, NEW adv, Mute(s, r), Flagged(s, r), Moves(r, adv)
  PROVE  Moves(s, adv)
  BY StoppedTrans DEF Stopped, Moves, Flagged, Mute

LEMMA EmitMoves ==
  ASSUME NEW s, Sound(s), InProgress(s)
  PROVE  Moves(s, EmitCommit(s, TemplateFor(s.source, s.binding)))
<1> DEFINE t == TemplateFor(s.source, s.binding)
           count == MinOf(CountCap, s.commits + 1)
           done == (t.maxCommits # 0 /\ count >= t.maxCommits) \/ s.cancelAfter
           interval == t.interval
           a == [s EXCEPT !.phase = "Active", !.commits = count, !.wait = interval]
           c == [id |-> s.id, binding |-> s.binding, weapon |-> s.source,
                 count |-> count, completes |-> done]
           r == IF done THEN enter_recovery(a, t) ELSE a
<1>1. s \in ActorType BY DEF Sound
<1>2. s.commits \in Counts BY <1>1 DEF ActorType
<1>3. s.source \in Weapons BY DEF Sound, Busy, InProgress
<1>4. interval \in Ticks /\ t.recovery \in Ticks BY <1>3, TemplateFacts
<1>5. count \in Counts /\ s.commits <= count
  BY <1>2, RuntimeAssumption DEF MinOf, Counts
<1>6. EmitCommit(s, t).actor = r /\ EmitCommit(s, t).commits = <<c>>
  BY DEF EmitCommit
<1>7. c.count = count OBVIOUS
<1>h. HIDE DEF count, interval, t, done
<1>8. a \in ActorType BY <1>1, <1>4, <1>5, Zeros DEF ActorType
<1>9. /\ a.out = s.out /\ a.phase = "Active" /\ a.commits = count
      /\ a.source = s.source /\ a.binding = s.binding
      /\ a.ammo = s.ammo /\ a.reloading = s.reloading /\ Flagged(s, a)
  BY <1>1 DEF ActorType, Flagged
<1>h2. HIDE DEF a, c
<1>10. Sound(a)
  BY <1>3, <1>8, <1>9 DEF Sound, Busy, Magazines, Latched, InProgress
<1>11. Flagged(a, enter_recovery(a, t)) /\ enter_recovery(a, t).out = a.out
       /\ ~InProgress(enter_recovery(a, t))
  BY <1>4, <1>10, RecoveryFlagged
<1>12. Flagged(s, r) /\ r.out = s.out /\ (InProgress(r) => r.commits = count)
  BY <1>9, <1>11 DEF Flagged
<1>h3. HIDE DEF r
<1>q. QED BY <1>5, <1>6, <1>7, <1>12 DEF Moves, t

LEMMA ContinueMoves ==
  ASSUME NEW s, Sound(s), InProgress(s)
  PROVE  Moves(s, ContinueAction(s, TemplateFor(s.source, s.binding)))
<1> DEFINE t == TemplateFor(s.source, s.binding)
           reason == CancelReason(s, t)
           cancel == s.cancelAfter \/ reason # "None"
           cuts == reason # "None" /\ (s.commits > 0 \/ t.cancelBeforeFirstCommit)
           a == [s EXCEPT !.cancelAfter = cancel]
           w == [a EXCEPT !.phase = "Windup"]
<1>1. s \in ActorType BY DEF Sound
<1>2. reason \in Reasons BY ReasonFacts DEF CancelReason
<1>3. s.source \in Weapons BY DEF Sound, Busy, InProgress
<1>4. cancel \in BOOLEAN OBVIOUS
<1>5. ContinueAction(s, t) =
        IF cuts
        THEN Still(enter_recovery(push_outcome(s, "Corrected", reason), t))
        ELSE IF a.wait > 0 THEN Still(w)
        ELSE IF ~CanSpend(a, t)
        THEN Still(enter_recovery(push_outcome(a, "Corrected", "EffectFailed"), t))
        ELSE EmitCommit(a, t)
  BY DEF ContinueAction
<1>6. t.recovery \in Ticks BY <1>3, TemplateFacts
<1>h. HIDE DEF t, reason, cancel, cuts
<1>7. a \in ActorType BY <1>1, <1>4 DEF ActorType
<1>8. /\ a.out = s.out /\ a.phase = s.phase /\ a.id = s.id /\ a.commits = s.commits
      /\ a.source = s.source /\ a.binding = s.binding
      /\ a.ammo = s.ammo /\ a.reloading = s.reloading /\ Flagged(s, a)
  BY <1>1 DEF ActorType, Flagged
<1>9. /\ w.out = a.out /\ w.phase = "Windup" /\ w.commits = a.commits
      /\ Flagged(a, w)
  BY <1>7 DEF ActorType, Flagged
<1>h2. HIDE DEF a, w
<1>10. Sound(a) BY <1>7, <1>8, SameAction DEF Keeps
<1>11. InProgress(a) /\ Mute(s, a) BY <1>8 DEF InProgress, Mute
<1>12. Moves(s, Still(enter_recovery(push_outcome(s, "Corrected", reason), t)))
  BY <1>2, <1>6, RecoveryStops, StillMoves DEF Stopped
<1>13. Moves(a, Still(w)) BY <1>9, <1>11, StillMoves DEF Stopped, Mute
<1>14. Moves(a, Still(enter_recovery(push_outcome(a, "Corrected", "EffectFailed"), t)))
  BY <1>6, <1>10, <1>11, ReasonFacts, RecoveryStops, StillMoves DEF Stopped
<1>15. t = TemplateFor(a.source, a.binding) BY <1>8 DEF t
<1>16. Moves(a, EmitCommit(a, t)) BY <1>10, <1>11, <1>15, EmitMoves
<1>17. CASE cuts BY <1>5, <1>12, <1>17 DEF t
<1>18. CASE ~cuts
  BY <1>5, <1>8, <1>11, <1>13, <1>14, <1>16, <1>18, MovesAfter DEF t
<1>q. QED BY <1>17, <1>18

\* Advancing a tick's actor for the first time; the second time does nothing.
LEMMA AdvanceMoves ==
  ASSUME NEW s, Fit(s)
  PROVE  LET adv == advance_action(s)
         IN /\ adv.actor.advanced
            /\ adv.actor.stagger = s.stagger /\ adv.actor.hands = s.hands
            /\ \/ adv.commits = << >> /\ Stopped(s, adv.actor)
               \/ \E c : /\ adv.commits = <<c>> /\ InProgress(s)
                         /\ s.commits <= c.count /\ adv.actor.out = s.out
                         /\ InProgress(adv.actor) => adv.actor.commits = c.count
<1> DEFINE q == settle_recovery(s)
           a == [q EXCEPT !.advanced = TRUE]
           t == TemplateFor(a.source, a.binding)
           stop == ChargeStop(a, t)
           w == [a EXCEPT !.phase = "Windup"]
           charging == t.mode = "Charge" /\ a.commits = 0
           adv == advance_action(s)
<1>1. adv =
        IF s.advanced THEN Still(s)
        ELSE IF ~InProgress(a) THEN Still(a)
        ELSE IF charging /\ stop # "None" THEN Still(EndOutright(a, stop))
        ELSE IF charging /\ ~Released(a) THEN Still(w)
        ELSE ContinueAction(a, t)
  BY DEF advance_action
<1>2. Mute(s, q) /\ Flagged(s, q) /\ Sound(q) BY SettleMute, SettleSound DEF Fit
<1>h. HIDE DEF q
<1>3. q \in ActorType BY <1>2 DEF Sound
<1>4. a \in ActorType BY <1>3 DEF ActorType
<1>5. /\ a.out = q.out /\ a.phase = q.phase /\ a.id = q.id
      /\ a.source = q.source /\ a.binding = q.binding /\ a.commits = q.commits
      /\ a.ammo = q.ammo /\ a.reloading = q.reloading
      /\ a.stagger = q.stagger /\ a.hands = q.hands /\ a.advanced
  BY <1>3 DEF ActorType
<1>6. /\ w.out = a.out /\ w.phase = "Windup" /\ w.commits = a.commits
      /\ Flagged(a, w)
  BY <1>4 DEF ActorType, Flagged
<1>h2. HIDE DEF a, w
<1>7. Sound(a) BY <1>2, <1>4, <1>5, SameAction DEF Keeps
<1>8. Mute(s, a) BY <1>2, <1>5 DEF Mute, InProgress
<1>9. stop \in Reasons BY ReasonFacts DEF ChargeStop
<1>10. Moves(a, Still(a)) BY StopsItself, StillMoves
<1>11. InProgress(a) => Moves(a, Still(EndOutright(a, stop)))
  BY <1>7, <1>9, EndOutrightStops, StillMoves DEF Stopped
<1>12. InProgress(a) => Moves(a, Still(w)) BY <1>6, StillMoves DEF Stopped, Mute
<1>13. InProgress(a) => Moves(a, ContinueAction(a, t)) BY <1>7, ContinueMoves
<1>h3. HIDE DEF t, stop, charging, adv
<1>14. CASE s.advanced
  BY <1>1, <1>14, StopsItself, StillMoves DEF adv, Moves, Flagged
<1>15. CASE ~s.advanced
  <2>1. Moves(a, adv) BY <1>1, <1>10, <1>11, <1>12, <1>13, <1>15
  <2> DEFINE m == adv.actor
  <2>2. m.advanced /\ m.stagger = s.stagger /\ m.hands = s.hands
    BY <2>1, <1>2, <1>5 DEF Moves, Flagged
  <2>3. CASE adv.commits = << >> /\ Stopped(a, adv.actor)
    BY <1>8, <2>2, <2>3, StoppedTrans DEF Stopped, adv
  <2>4. ASSUME NEW c, adv.commits = <<c>>, InProgress(a), a.commits <= c.count,
               m.out = a.out, InProgress(m) => m.commits = c.count
        PROVE  /\ InProgress(s) /\ s.commits <= c.count /\ m.out = s.out
    BY <2>4, <1>8 DEF Mute
  <2>q. QED BY <2>1, <2>2, <2>3, <2>4 DEF Moves, adv
<1>q. QED BY <1>14, <1>15

\* What a commit that takes effect, or is refused, says: one outcome of its
\* count, and a completion after it.
Utters(m, r, c) ==
  /\ Flagged(m, r) /\ r.phase = m.phase /\ r.commits = m.commits
  /\ \E o \in Outcomes :
       /\ o.count = c.count
       /\ \/ r.out = Append(m.out, o)
          \/ \E p \in Outcomes : ~Spoken(p) /\ r.out = Append(Append(m.out, o), p)

LEMMA CommitCounts ==
  ASSUME NEW c \in Commits, NEW t, NEW reason
  PROVE  Outcome(c.id, c.binding, c.count, t, reason).count = c.count
  BY RuntimeAssumption DEF Commits, Outcome, MinOf, Counts

LEMMA RefuseUtters ==
  ASSUME NEW s \in ActorType, NEW c \in Commits, NEW reason \in Reasons
  PROVE  Utters(s, Refuse(s, c, reason), c)
<1> DEFINE o == Outcome(c.id, c.binding, c.count, "Corrected", reason)
<1>1. o \in Outcomes BY CommitOutcome, OutcomeKinds
<1>2. o.count = c.count BY CommitCounts
<1>3. Refuse(s, c, reason) = push(s, o) BY DEF Refuse
<1>h. HIDE DEF o
<1>q. QED BY <1>1, <1>2, <1>3, PushCounts DEF Utters

LEMMA ConfirmUtters ==
  ASSUME NEW s \in ActorType, NEW c \in Commits
  PROVE  Utters(s, Confirm(s, c), c)
<1> DEFINE o == Outcome(c.id, c.binding, c.count, "Committed", "None")
           d == Outcome(c.id, c.binding, c.count, "Completed", "None")
           p == push(s, o)
           r == Confirm(s, c)
<1>1. o \in Outcomes /\ d \in Outcomes /\ d.type = "Completed"
  BY CommitOutcome, OutcomeKinds, ReasonFacts
<1>2. o.count = c.count BY CommitCounts
<1>3. ~Spoken(d) BY <1>1 DEF Spoken
<1>4. r = IF c.completes THEN push(p, d) ELSE p BY DEF Confirm
<1>h. HIDE DEF o, d, r
<1>5. /\ p \in ActorType /\ Flagged(s, p) /\ p.out = Append(s.out, o)
      /\ p.commits = s.commits /\ p.phase = s.phase
  BY <1>1, PushCounts
<1>h2. HIDE DEF p
<1>6. /\ Flagged(p, push(p, d)) /\ push(p, d).out = Append(p.out, d)
      /\ push(p, d).commits = p.commits /\ push(p, d).phase = p.phase
  BY <1>1, <1>5, PushCounts
<1>7. CASE c.completes
  BY <1>1, <1>2, <1>3, <1>4, <1>5, <1>6, <1>7 DEF Flagged, Utters, r
<1>8. CASE ~c.completes
  BY <1>1, <1>2, <1>4, <1>5, <1>8 DEF Utters, r
<1>q. QED BY <1>7, <1>8

\* A field the words do not depend on, before the commit takes effect.
LEMMA UttersAfter ==
  ASSUME NEW m, NEW l, NEW r, NEW c, Utters(l, r, c),
         Flagged(m, l), l.phase = m.phase, l.commits = m.commits, l.out = m.out
  PROVE  Utters(m, r, c)
  BY DEF Utters, Flagged

LEMMA ReloadUtters ==
  ASSUME NEW a, Sound(a), NEW c \in Commits
  PROVE  Utters(a, CommitReload(a, c), c)
<1> DEFINE l == [a EXCEPT !.reloading = FALSE]
           am == [a.ammo EXCEPT ![c.weapon] = MagazineSize[c.weapon]]
           rv == [a.reserve EXCEPT ![c.weapon] = a.reserve[c.weapon] - 1]
           f == [a EXCEPT !.reloading = FALSE, !.ammo = am, !.reserve = rv]
           g == [l EXCEPT !.ammo[c.weapon] = MagazineSize[c.weapon],
                          !.reserve[c.weapon] = @ - 1]
<1>1. a \in ActorType /\ c.weapon \in Weapons BY DEF Sound, Commits
<1>2. l \in ActorType BY <1>1 DEF ActorType
<1>3. Flagged(a, l) /\ l.phase = a.phase /\ l.commits = a.commits /\ l.out = a.out
  BY <1>1 DEF ActorType, Flagged
<1>4. CommitReload(a, c) =
        IF a.reserve[c.weapon] = 0 \/ a.ammo[c.weapon] >= MagazineSize[c.weapon]
        THEN Refuse(l, c, "EffectFailed") ELSE Confirm(g, c)
  BY DEF CommitReload
<1>5. g = f BY <1>1 DEF ActorType
<1>h. HIDE DEF g
<1>6. CASE a.reserve[c.weapon] = 0 \/ a.ammo[c.weapon] >= MagazineSize[c.weapon]
  <2>1. Utters(l, Refuse(l, c, "EffectFailed"), c) BY <1>2, ReasonFacts, RefuseUtters
  <2>h. HIDE DEF l
  <2>q. QED BY <2>1, <1>3, <1>4, <1>6, UttersAfter
<1>7. CASE ~(a.reserve[c.weapon] = 0 \/ a.ammo[c.weapon] >= MagazineSize[c.weapon])
  <2>0. /\ a.ammo \in [Weapons -> Nat] /\ a.reserve \in [Weapons -> Nat]
        /\ MagazineSize[c.weapon] \in Nat
    BY <1>1, RuntimeAssumption DEF ActorType, PerWeapon
  <2>1. am \in PerWeapon(Nat) /\ rv \in PerWeapon(Nat)
    BY <1>1, <1>7, <2>0 DEF PerWeapon
  <2>h. HIDE DEF am, rv
  <2>2. f \in ActorType BY <1>1, <2>1 DEF ActorType
  <2>3. Flagged(a, f) /\ f.phase = a.phase /\ f.commits = a.commits /\ f.out = a.out
    BY <1>1 DEF ActorType, Flagged
  <2>4. Utters(f, Confirm(f, c), c) BY <2>2, ConfirmUtters
  <2>h2. HIDE DEF f
  <2>5. Utters(a, Confirm(f, c), c) BY <2>3, <2>4, UttersAfter
  <2>q. QED BY <2>5, <1>4, <1>5, <1>7
<1>q. QED BY <1>6, <1>7

LEMMA FireUtters ==
  ASSUME NEW a, Sound(a), NEW c \in Commits, NEW found
  PROVE  Utters(a, CommitFire(a, c, found), c)
<1> DEFINE w == c.weapon
           t == FireTemplate[w]
           mode == FireMode[w]
           spent == IF mode = "LockMissile" /\ ~found THEN 0 ELSE t.cost
           am == [a.ammo EXCEPT ![w] = a.ammo[w] - spent]
           cd == [a.cooldown EXCEPT ![w] = t.interval]
           ef == IF mode = "Beam" THEN BeamLife ELSE a.effect
           f == [a EXCEPT !.ammo = am, !.cooldown = cd, !.effect = ef]
           refused == a.ammo[w] < t.cost \/ (mode = "TargetedStrike" /\ ~found)
<1>1. a \in ActorType /\ w \in Weapons BY DEF Sound, Commits
<1>2. t = TemplateFor(w, "PrimaryFire") BY DEF TemplateFor
<1>3. t.cost \in Nat /\ t.interval \in Ticks BY <1>1, <1>2, TemplateFacts
<1>4. /\ a.ammo \in [Weapons -> Nat] /\ a.cooldown \in [Weapons -> Ticks]
      /\ a.effect \in Ticks
  BY <1>1 DEF ActorType, PerWeapon
<1>5. CommitFire(a, c, found) =
        IF refused THEN Refuse(a, c, "EffectFailed") ELSE Confirm(f, c)
  BY DEF CommitFire
<1>6. CASE refused BY <1>1, <1>5, <1>6, ReasonFacts, RefuseUtters
<1>7. CASE ~refused
  <2>1. am \in PerWeapon(Nat)
    <3>1. a.ammo[w] - spent \in Nat
      <4>1. a.ammo[w] \in Nat /\ spent \in Nat /\ spent <= t.cost BY <1>1, <1>3, <1>4
      <4>2. ~(a.ammo[w] < t.cost) BY <1>7
      <4> DEFINE x == a.ammo[w]
      <4>h. HIDE DEF t, spent, w, x
      <4>3. x - spent \in Nat BY <4>1, <4>2, <1>3 DEF x
      <4>q. QED BY <4>3 DEF x
    <3>q. QED BY <3>1, <1>4 DEF PerWeapon
  <2>2. cd \in PerWeapon(Ticks) BY <1>3, <1>4 DEF PerWeapon
  <2>3. ef \in Ticks BY <1>4, Zeros
  <2>h. HIDE DEF am, cd, ef
  <2>4. f \in ActorType BY <1>1, <2>1, <2>2, <2>3 DEF ActorType
  <2>5. Flagged(a, f) /\ f.phase = a.phase /\ f.commits = a.commits /\ f.out = a.out
    BY <1>1 DEF ActorType, Flagged
  <2>6. Utters(f, Confirm(f, c), c) BY <2>4, ConfirmUtters
  <2>h2. HIDE DEF f
  <2>7. Utters(a, Confirm(f, c), c) BY <2>5, <2>6, UttersAfter
  <2>q. QED BY <2>7, <1>5, <1>7
<1>q. QED BY <1>6, <1>7

LEMMA ApplyUtters ==
  ASSUME NEW m, Sound(m), NEW c \in Commits, NEW found
  PROVE  Utters(m, ApplyCommit(m, c, found), c)
<1> DEFINE x == c.weapon
           a == [m EXCEPT !.active = x]
<1>1. m \in ActorType BY DEF Sound
<1>2. x \in Arms BY DEF Commits, Arms
<1>3. ApplyCommit(m, c, found) =
        IF c.weapon \notin m.equipped THEN Refuse(m, c, "MissingTemplate")
        ELSE IF c.binding = "Reload" THEN CommitReload(a, c)
        ELSE CommitFire(a, c, found)
  BY DEF ApplyCommit
<1>h. HIDE DEF x
<1>4. a \in ActorType BY <1>1, <1>2 DEF ActorType
<1>5. /\ a.out = m.out /\ a.phase = m.phase /\ a.id = m.id
      /\ a.source = m.source /\ a.binding = m.binding /\ a.commits = m.commits
      /\ a.ammo = m.ammo /\ a.reloading = m.reloading /\ Flagged(m, a)
  BY <1>1 DEF ActorType, Flagged
<1>h2. HIDE DEF a
<1>6. Sound(a) BY <1>4, <1>5, SameAction DEF Keeps
<1>7. Utters(m, CommitReload(a, c), c) /\ Utters(m, CommitFire(a, c, found), c)
  BY <1>5, <1>6, ReloadUtters, FireUtters, UttersAfter
<1>8. Utters(m, Refuse(m, c, "MissingTemplate"), c) BY <1>1, ReasonFacts, RefuseUtters
<1>q. QED BY <1>3, <1>7, <1>8

\* What advancing and committing says: the action stops or goes on at its
\* count, or one outcome reports the count it has come to.
CountsUp(s, r) ==
  \/ Stopped(s, r)
  \/ \E o \in Outcomes :
       /\ InProgress(s) /\ s.commits <= o.count
       /\ InProgress(r) => r.commits = o.count
       /\ \/ r.out = Append(s.out, o)
          \/ \E p \in Outcomes : ~Spoken(p) /\ r.out = Append(Append(s.out, o), p)

LEMMA AdvanceCounts ==
  ASSUME NEW s, Fit(s), NEW found
  PROVE  LET r == AdvanceAndCommit(s, found)
         IN /\ r.advanced /\ r.stagger = s.stagger /\ r.hands = s.hands
            /\ CountsUp(s, r)
<1> DEFINE adv == advance_action(s)
           m == adv.actor
           r == AdvanceAndCommit(s, found)
<1>1. AdvanceStep(s, adv) BY AdvanceActionStep
<1>2. /\ m.advanced /\ m.stagger = s.stagger /\ m.hands = s.hands
      /\ \/ adv.commits = << >> /\ Stopped(s, m)
         \/ \E c : /\ adv.commits = <<c>> /\ InProgress(s)
                   /\ s.commits <= c.count /\ m.out = s.out
                   /\ InProgress(m) => m.commits = c.count
  BY AdvanceMoves
<1>3. r = IF adv.commits = << >> THEN m ELSE ApplyCommit(m, Head(adv.commits), found)
  BY DEF AdvanceAndCommit
<1>h. HIDE DEF adv, r
<1>4. CASE adv.commits = << >> /\ Stopped(s, m)
  BY <1>2, <1>3, <1>4 DEF CountsUp, r
<1>5. ASSUME NEW c, adv.commits = <<c>>, InProgress(s), s.commits <= c.count,
             m.out = s.out, InProgress(m) => m.commits = c.count
      PROVE  /\ r.advanced /\ r.stagger = s.stagger /\ r.hands = s.hands
             /\ CountsUp(s, r)
  <2>1. PICK d \in Commits : adv.commits = <<d>> /\ Due(s, m, d)
    BY <1>1, <1>5 DEF AdvanceStep
  <2>2. d = c /\ adv.commits # << >> /\ Head(adv.commits) = d BY <2>1, <1>5
  <2>3. Sound(m) BY <2>1 DEF Due
  <2>4. r = ApplyCommit(m, d, found) BY <2>2, <1>3
  <2>5. Utters(m, r, d) BY <2>3, <2>4, ApplyUtters
  <2>h. HIDE DEF m
  <2>6. InProgress(r) <=> InProgress(m) BY <2>5 DEF Utters, InProgress
  <2>7. CountsUp(s, r) BY <2>2, <2>5, <2>6, <1>5 DEF CountsUp, Utters
  <2>q. QED BY <2>5, <2>7, <1>2 DEF Utters, Flagged
<1>q. QED BY <1>2, <1>4, <1>5 DEF r

\* Nothing is said while the action goes on at the count of s; once it is over,
\* at most one word is, of no smaller count.
Ready(s, x) ==
  IF InProgress(x)
  THEN Unspoken(x.out) /\ (InProgress(s) => x.commits = s.commits)
  ELSE \E n \in Nat : Speaks(x.out, n) /\ (InProgress(s) => s.commits <= n)

\* What a whole pass says: at most one word, whose count n is no less than the
\* action's at the start and no more than the action's at the end.
Says(s, r) ==
  \E n \in Nat : /\ Speaks(r.out, n)
                 /\ InProgress(s) => s.commits <= n
                 /\ InProgress(r) => n <= r.commits

LEMMA UnspokenSpeaks ==
  ASSUME NEW u, NEW n, Unspoken(u)
  PROVE  Speaks(u, n)
  BY DEF Unspoken, Speaks

LEMMA CommitsAreNat ==
  ASSUME NEW s, s \in ActorType
  PROVE  s.commits \in Nat /\ s.commits <= s.commits /\ s.out \in Seq(Outcomes)
  BY RuntimeAssumption DEF ActorType, Counts

LEMMA ReadyAfter ==
  ASSUME NEW s \in ActorType, NEW x \in ActorType, NEW y, Ready(s, x), Stopped(x, y)
  PROVE  Ready(s, y)
<1>1. s.commits \in Nat /\ s.commits <= s.commits /\ x.out \in Seq(Outcomes)
  BY CommitsAreNat
<1>2. CASE Mute(x, y)
  BY <1>1, <1>2, UnspokenSpeaks DEF Ready, Mute
<1>3. CASE EndsWith(x, y)
  BY <1>1, <1>3, AppendSpeaks, CommitsAreNat DEF EndsWith, Ready
<1>q. QED BY <1>2, <1>3 DEF Stopped

LEMMA ReadyCommits ==
  ASSUME NEW s \in ActorType, NEW x \in ActorType, NEW r \in ActorType,
         Ready(s, x), CountsUp(x, r)
  PROVE  Says(s, r)
<1>1. s.commits \in Nat /\ s.commits <= s.commits BY CommitsAreNat
<1>2. x.commits \in Nat /\ x.out \in Seq(Outcomes) BY CommitsAreNat
<1>3. r.commits \in Nat /\ r.commits <= r.commits BY CommitsAreNat
<1>4. CASE Stopped(x, r)
  BY <1>1, <1>3, <1>4, ReadyAfter, UnspokenSpeaks DEF Ready, Says
<1>5. ASSUME NEW o \in Outcomes, InProgress(x), x.commits <= o.count,
             InProgress(r) => r.commits = o.count,
             \/ r.out = Append(x.out, o)
             \/ \E p \in Outcomes : ~Spoken(p) /\ r.out = Append(Append(x.out, o), p)
      PROVE  Says(s, r)
  <2>1. Unspoken(x.out) /\ (InProgress(s) => x.commits = s.commits)
    BY <1>5 DEF Ready
  <2>2. Speaks(Append(x.out, o), o.count) BY <2>1, <1>2, AppendSpeaks
  <2>3. Append(x.out, o) \in Seq(Outcomes) BY <1>2
  <2>4. Speaks(r.out, o.count) BY <1>5, <2>2, <2>3, AppendSpeaks
  <2>5. o.count \in Nat /\ o.count <= o.count
    BY RuntimeAssumption DEF Outcomes, Counts
  <2>6. InProgress(s) => s.commits <= o.count BY <1>5, <2>1
  <2>7. InProgress(r) => o.count <= r.commits BY <1>3, <1>5
  <2>q. QED BY <2>4, <2>5, <2>6, <2>7 DEF Says
<1>q. QED BY <1>4, <1>5 DEF CountsUp

LEMMA EmptyIsReady ==
  ASSUME NEW s \in ActorType, s.out = << >>
  PROVE  Ready(s, s)
  BY CommitsAreNat, UnspokenSpeaks DEF Unspoken, Ready

\* A weapon pass over an actor with nothing to say says one thing at most, and
\* has seen what interrupts the next one.
LEMMA WeaponPassSays ==
  ASSUME NEW s, Fit(s), Steadied(s), s.out = << >>, NEW in \in Inputs(Ids),
         InProgress(s) => in.intent.id = 0, NEW found
  PROVE  LET r == WeaponPass(s, in, found)
         IN Says(s, r) /\ r.advanced /\ ~r.stagger /\ ~r.hands
<1> DEFINE p == Interrupts(s)
           q == ReadInput(p, in)
           r == AdvanceAndCommit(q, found)
           i == in.intent.id
<1>1. QuietOrCut(s, p) BY InterruptsStep DEF Steadied
<1>2. Stopped(s, p) /\ ~p.stagger /\ ~p.hands BY InterruptsStop
<1>3. WeaponPass(s, in, found) = r BY DEF WeaponPass
<1>h. HIDE DEF p
<1>4. Fit(p) BY <1>1 DEF QuietOrCut
<1>5. InputStep(p, q, i) BY <1>4, ReadInputStep
<1>6. Replied(p, q, i) /\ Flagged(p, q) BY <1>4, ReadInputAnswers
<1>h2. HIDE DEF q
<1>7. Fit(q) BY <1>5 DEF InputStep
<1>8. CommitStep(q, r) BY <1>7, AdvanceAndCommitStep
<1>9. r.advanced /\ r.stagger = q.stagger /\ r.hands = q.hands /\ CountsUp(q, r)
  BY <1>7, AdvanceCounts
<1>h3. HIDE DEF r
<1>10. /\ s \in ActorType /\ p \in ActorType /\ q \in ActorType /\ r \in ActorType
  BY <1>4, <1>7, <1>8 DEF Fit, Sound, CommitStep
<1>11. Ready(s, p) BY <1>2, <1>10, EmptyIsReady, ReadyAfter
<1>12. Ready(s, q)
  <2>1. CASE Mute(p, q) BY <1>10, <1>11, <2>1, ReadyAfter DEF Stopped
  <2>2. CASE i # 0
    <3>1. ~InProgress(s) BY <2>2
    <3>2. ~InProgress(p) /\ p.out = << >> BY <3>1, <1>2 DEF Stopped, Mute, EndsWith
    <3>3. p.out \in Seq(Outcomes) /\ Unspoken(p.out)
      BY <3>2, <1>10, CommitsAreNat DEF Unspoken
    <3>4. CASE /\ i # 0 /\ (InProgress(q) => InProgress(p) /\ q.commits = p.commits)
               /\ \E o \in Outcomes : o.count = 0 /\ q.out = Append(p.out, o)
      BY <3>1, <3>2, <3>3, <3>4, AppendSpeaks DEF Ready
    <3>5. CASE /\ i # 0 /\ ~InProgress(p) /\ (InProgress(q) => q.commits = 0)
               /\ \E o \in Outcomes : ~Spoken(o) /\ q.out = Append(p.out, o)
      BY <3>1, <3>3, <3>5, AppendSpeaks, UnspokenSpeaks DEF Ready
    <3>6. CASE Mute(p, q) BY <1>10, <1>11, <3>6, ReadyAfter DEF Stopped
    <3>h. HIDE DEF i
    <3>q. QED BY <1>6, <3>4, <3>5, <3>6 DEF Replied
  <2>h. HIDE DEF i
  <2>q. QED BY <1>6, <2>1, <2>2 DEF Replied
<1>13. Says(s, r) BY <1>9, <1>10, <1>12, ReadyCommits
<1>q. QED BY <1>2, <1>3, <1>6, <1>9, <1>13 DEF Flagged

\* The closing pass of a tick the actor has already advanced in, with nothing
\* left to interrupt, changes nothing.
LEMMA IdlePassAfter ==
  ASSUME NEW s, s \in ActorType, s.advanced, ~s.stagger, ~s.hands,
         InProgress(s) => ~Held(s), NEW found
  PROVE  IdlePass(s, found) = s
<1> DEFINE a1 == [s EXCEPT !.stagger = FALSE]
           a2 == [s EXCEPT !.hands = FALSE]
<1>1. a1 = s
  BY DEF ActorType
<1>2. a2 = s
  BY DEF ActorType
<1>h. HIDE DEF a1, a2
<1>3. interrupt_staggered_actions(s) = s
  BY <1>1 DEF interrupt_staggered_actions, a1
<1>4. InProgress(s) => "StatusBlocked" \notin s.blocks /\ "Sheltered" \notin s.blocks
  BY DEF Held
<1>5. interrupt_status_blocked_actions(s) = s
  BY <1>4 DEF interrupt_status_blocked_actions
<1>6. interrupt_sheltered_actions(s) = s
  BY <1>4 DEF interrupt_sheltered_actions
<1>7. interrupt_actions_for_items(s) = s
  BY <1>2 DEF interrupt_actions_for_items, a2
<1>8. Interrupts(s) = s BY <1>3, <1>5, <1>6, <1>7 DEF Interrupts
<1>9. advance_action(s) = Still(s) BY DEF advance_action
<1>10. Still(s).commits = << >> /\ Still(s).actor = s BY DEF Still
<1>q. QED BY <1>8, <1>9, <1>10 DEF IdlePass, AdvanceAndCommit

\* What is under way after a pass is not held.
LEMMA PassUnheld ==
  ASSUME NEW s, NEW r, NEW i, PassStep(s, r, i)
  PROVE  InProgress(r) => ~Held(r)
<1>1. PICK p, q : /\ QuietOrCut(s, p) /\ (Held(p) => ~InProgress(p))
                  /\ InputStep(p, q, i) /\ CommitStep(q, r)
  BY DEF PassStep
<1>2. r.blocks = q.blocks /\ q.blocks = p.blocks
  BY <1>1 DEF CommitStep, InputStep, Frame
<1>3. ASSUME InProgress(r), Held(r) PROVE FALSE
  <2>1. Held(q) /\ Held(p) BY <1>2, <1>3 DEF Held
  <2>2. InProgress(q)
    BY <1>1, <1>3 DEF CommitStep, Quiet, SameAct, Cut, Struck, Finished, Faltered
  <2>3. InProgress(p)
    BY <1>1, <2>1, <2>2 DEF InputStep, Quiet, SameAct, TurnedDown, Begun, Held
  <2>q. QED BY <1>1, <2>1, <2>3
<1>q. QED BY <1>3
=============================================================================
