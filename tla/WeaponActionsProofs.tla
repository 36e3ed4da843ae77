--------------------------- MODULE WeaponActionsProofs ---------------------------
(***************************************************************************)
(* WeaponActions keeps its types, its reload latch and its cadence and     *)
(* commits nothing while held, for every catalog of valid templates, every *)
(* input and every bound; and it reports an end once, for catalogs whose   *)
(* refusable commits are the last of their action.                         *)
(*                                                                         *)
(* None of these is inductive on its own.  A pass needs to know that an    *)
(* action under way has a weapon with a template and that the fields it    *)
(* computes with are ticks, counts and rounds (Sound), that its next shot  *)
(* is not due before the cadence allows (Fit), that a stagger that stands  *)
(* has ended the action or is about to (Steadied), and for the ends, that  *)
(* what is under way has had no last word (History).                       *)
(***************************************************************************)
EXTENDS WeaponActions, ActionRuntimeProofs

Inv ==
  /\ Fit(actor) /\ Steadied(actor)
  /\ Held(actor) => Unspent(actor.out)
  /\ stage \in {"between", "inputs", "done"}
  /\ stage = "between" => actor.out = << >>
  /\ taken \in 0..MaxInputsPerTick
  /\ ended \subseteq Ids

\* The inputs the model enumerates are inputs ActionRuntimeProofs is about.
LEMMA InputsKnown == Inputs(IntentIds \cup {0}) \subseteq Inputs(Ids)
<1>1. IntentIds \cup {0} \subseteq Ids BY InputAssumption, Zeros
<1>q. QED BY <1>1 DEF Inputs, Intents

LEMMA NothingUnspent == Unspent(<< >>)
<1>1. \A k \in DOMAIN << >> : << >>[k].type # "Committed" OBVIOUS
<1>q. QED BY <1>1 DEF Unspent

\* What each action does to the actor: a pass, the next tick, or the touch of
\* the world between two ticks.
ActorStep ==
  \/ /\ stage' = "inputs" /\ ended' = ended
     /\ \E i \in IntentIds \cup {0} : PassStep(actor, actor', i)
  \/ stage' = "done" /\ ended' = ended /\ PassStep(actor, actor', 0)
  \/ NextTick
  \/ /\ stage = "between" /\ stage' = stage /\ ended' = ended
     /\ Touched(actor, actor')
  \/ UNCHANGED vars

LEMMA NextActorStep ==
  ASSUME Inv, [Next]_vars
  PROVE  ActorStep /\ taken' \in 0..MaxInputsPerTick
<1>f. Fit(actor) /\ Steadied(actor) BY DEF Inv
<1>1. ASSUME NEW in \in Inputs(IntentIds \cup {0}), SimulateInput(in)
      PROVE  ActorStep /\ taken' \in 0..MaxInputsPerTick
  <2>1. in \in Inputs(Ids) BY <1>1, InputsKnown
  <2>2. PICK found \in BOOLEAN : actor' = WeaponPass(actor, in, found)
    BY <1>1 DEF SimulateInput
  <2>3. PassStep(actor, actor', in.intent.id) BY <1>f, <2>1, <2>2, WeaponPassSteps
  <2>4. in.intent.id \in IntentIds \cup {0} BY <1>1 DEF Inputs, Intents
  <2>5. taken' \in 0..MaxInputsPerTick
    BY <1>1, InputAssumption DEF SimulateInput, Inv
  <2>q. QED BY <1>1, <2>3, <2>4, <2>5 DEF SimulateInput, ActorStep
<1>2. ASSUME SimulateIdle PROVE ActorStep /\ taken' \in 0..MaxInputsPerTick
  <2>1. PICK found \in BOOLEAN : actor' = IdlePass(actor, found)
    BY <1>2 DEF SimulateIdle
  <2>2. PassStep(actor, actor', 0) BY <1>f, <2>1, IdlePassSteps
  <2>q. QED BY <1>2, <2>2 DEF SimulateIdle, ActorStep, Inv
<1>3. ASSUME NextTick PROVE ActorStep /\ taken' \in 0..MaxInputsPerTick
  BY <1>3, InputAssumption DEF NextTick, ActorStep
<1>4. ASSUME NEW reason \in Disturbances, Disturb(reason) \/ Recover(reason)
      PROVE  ActorStep /\ taken' \in 0..MaxInputsPerTick
  <2>1. reason \in BlockReasons BY <1>4, InputAssumption
  <2>2. /\ Touched(actor, Staggered(actor)) /\ Touched(actor, Sheltered(actor))
        /\ reason # "Staggered" => Touched(actor, Blocked(actor, reason))
        /\ Touched(actor, Unblocked(actor, reason))
    BY <1>f, <2>1, DisturbanceFit
  <2>q. QED BY <1>4, <2>2 DEF Disturb, Recover, Inv, ActorStep
<1>5. ASSUME TakeHands \/ Die \/ Revive
      PROVE  ActorStep /\ taken' \in 0..MaxInputsPerTick
  <2>1. "Staggered" \in BlockReasons BY DEF BlockReasons
  <2>2. /\ Touched(actor, HandsTaken(actor)) /\ Touched(actor, Killed(actor))
        /\ Touched(actor, Revived(actor))
    BY <1>f, <2>1, DisturbanceFit
  <2>q. QED BY <1>5, <2>2 DEF TakeHands, Die, Revive, Inv, ActorStep
<1>6. ASSUME NEW held \in Loadouts, ChangeLoadout(held)
      PROVE  ActorStep /\ taken' \in 0..MaxInputsPerTick
  <2>1. held \in SUBSET Weapons BY <1>6, InputAssumption
  <2>2. PICK first \in IF held = {} THEN {NoWeapon} ELSE held :
          actor' = rebuild_weapon_loadout(actor, held, first)
    BY <1>6 DEF ChangeLoadout
  <2>3. first \in Arms BY <2>1, <2>2 DEF Arms
  <2>4. Touched(actor, actor') BY <1>f, <2>1, <2>2, <2>3, LoadoutFit
  <2>q. QED BY <1>6, <2>4 DEF ChangeLoadout, Inv, ActorStep
<1>7. ASSUME UNCHANGED vars PROVE ActorStep /\ taken' \in 0..MaxInputsPerTick
  BY <1>7 DEF vars, Inv, ActorStep
<1>q. QED BY <1>1, <1>2, <1>3, <1>4, <1>5, <1>6, <1>7 DEF Next

\* The initial states satisfy the inductive invariant.
LEMMA InitInv == Init => Inv
<1>1. 0 \in 0..MaxInputsPerTick BY InputAssumption
<1>q. QED BY <1>1, InitActorFit, NothingUnspent DEF Init, Inv

\* Every step, stuttering included, preserves the inductive invariant.
LEMMA NextInv == Inv /\ [Next]_vars => Inv'
<1> SUFFICES ASSUME Inv, [Next]_vars PROVE Inv'
  OBVIOUS
<1>f. Fit(actor) /\ Steadied(actor) BY DEF Inv
<1>s. ActorStep /\ taken' \in 0..MaxInputsPerTick BY NextActorStep
<1>1. ASSUME NEW i, PassStep(actor, actor', i), stage' \in {"inputs", "done"},
             ended' = ended
      PROVE  Inv'
  <2>1. Fit(actor') /\ Steadied(actor') /\ actor'.blocks = actor.blocks
    BY <1>f, <1>1, PassKeepsFit
  <2>2. Held(actor') => Unspent(actor'.out)
    BY <1>f, <1>1, <2>1, PassUnspent DEF Held, Inv
  <2>q. QED BY <1>s, <1>1, <2>1, <2>2 DEF Inv
<1>2. CASE NextTick
  <2>1. Fit(actor') /\ Steadied(actor') /\ actor'.out = << >>
    BY <1>f, <1>2, TickOverFit DEF NextTick
  <2>2. actor.out \in Seq(Outcomes) BY <1>f DEF Fit, Sound, ActorType
  <2>3. \A k \in DOMAIN actor.out : actor.out[k].id \in Ids
    <3>1. \A k \in DOMAIN actor.out : actor.out[k] \in Outcomes BY <2>2
    <3>q. QED BY <3>1 DEF Outcomes
  <2>4. ended' \subseteq Ids BY <1>2, <2>3 DEF NextTick, Inv
  <2>q. QED BY <1>2, <1>s, <2>1, <2>4, NothingUnspent DEF NextTick, Inv
<1>3. CASE stage = "between" /\ stage' = stage /\ ended' = ended
           /\ Touched(actor, actor')
  BY <1>3, <1>s, NothingUnspent DEF Touched, Inv
<1>4. CASE UNCHANGED vars BY <1>4 DEF vars, Inv
<1>q. QED BY <1>s, <1>1, <1>2, <1>3, <1>4 DEF ActorStep

\* Whatever the inputs, the interrupts and the loadout changes, simulate_actions
\* and simulate_weapons keep the actor's fields in their types and no magazine
\* above its size.
THEOREM TypeCorrect == Spec => []TypeOK
<1>1. Inv => TypeOK BY DEF Inv, TypeOK, Fit, Sound, Magazines
<1>q. QED BY InitInv, NextInv, <1>1, PTL DEF Spec

\* is_reloading stands only while a reload action is under way: no way an action
\* ends, is interrupted or is refused leaves the latch behind.
THEOREM ReloadLatchIsHeld == Spec => []ReloadLatchHeld
<1>1. Inv => ReloadLatchHeld BY DEF Inv, ReloadLatchHeld, Fit, Sound, Latched
<1>q. QED BY InitInv, NextInv, <1>1, PTL DEF Spec

\* Nothing commits in a tick the actor spends staggered, sheltered or under a
\* blocking status, whatever is under way when the block comes: the interrupts
\* at the head of each pass run before the input and the commit.
THEOREM HeldCommitsNothing == Spec => []NoCommitWhileHeld
<1>1. Inv => NoCommitWhileHeld BY DEF Inv, NoCommitWhileHeld, Held, Unspent
<1>q. QED BY InitInv, NextInv, <1>1, PTL DEF Spec

\* A weapon's rounds go down only once its commit interval has run out since its
\* last shot: the admission looks ahead to the first commit, and a hold or burst
\* waits the interval (projected_primary_commit_is_blocked).
THEOREM CadenceIsKept == Spec => CadenceKept
<1> DEFINE Kept == \A w \in Weapons :
                     actor'.ammo[w] < actor.ammo[w] => actor.cooldown[w] = 0
<1>1. ASSUME Inv, [Next]_vars PROVE [Kept]_vars
  <2>f. Fit(actor) /\ Steadied(actor) BY <1>1 DEF Inv
  <2>s. ActorStep BY <1>1, NextActorStep
  <2>t. actor.ammo \in [Weapons -> Nat]
    BY <2>f DEF Fit, Sound, ActorType, PerWeapon
  <2>1. ASSUME NEW i, PassStep(actor, actor', i) PROVE Kept
    BY <2>f, <2>1, PassKeepsFit
  <2>2. CASE actor'.ammo = actor.ammo BY <2>t, <2>2
  <2>3. CASE NextTick BY <2>f, <2>2, <2>3, TickOverFit DEF NextTick
  <2>4. CASE Touched(actor, actor') BY <2>2, <2>4 DEF Touched
  <2>q. QED BY <2>s, <2>1, <2>3, <2>4 DEF ActorStep
<1>2. Inv /\ [Next]_vars => [Kept]_vars BY <1>1
<1>q. QED BY InitInv, NextInv, <1>2, PTL DEF Spec, CadenceKept

-----------------------------------------------------------------------------
(* Ends.                                                                   *)

\* The ids in use stop short of the last one of their width: there
\* next_generated_instance_id stays where it is and the same id is admitted
\* again.
ShortIds == IntentIds \subseteq 0..(IdModulus - 2)

\* An instance is reported ended once, nothing but refusals follows, and its
\* beam goes with it: for every catalog whose reloads and targeted strikes
\* commit once and whose beams hold, and ids short of the last one.
THEOREM EndsAreFinal ==
  ASSUME SingleEffects, BeamsHold, ShortIds
  PROVE  Spec => []EndIsFinal
<1> DEFINE Told == Inv /\ History(actor, ended)
<1>i. \A i \in IntentIds \cup {0} : i \in Ids /\ i # IdModulus - 1
  BY InputAssumption, Zeros, RuntimeAssumption DEF ShortIds, Ids
<1>1. Init => Told
  <2>1. ASSUME NEW w \in Weapons, actor = InitActor(w), ended = {}
        PROVE  History(actor, ended)
    <3>1. actor.out = << >> /\ ~InProgress(actor) BY <2>1, InitActorFit
    <3>2. DOMAIN actor.out = {} BY <3>1
    <3>q. QED BY <2>1, <3>1, <3>2 DEF History, Once
  <2>q. QED BY <2>1, InitInv DEF Init
<1>2. Told /\ [Next]_vars => Told'
  <2> SUFFICES ASSUME Told, [Next]_vars PROVE Told'
    OBVIOUS
  <2>f. Fit(actor) /\ Steadied(actor) BY DEF Inv
  <2>s. ActorStep /\ Inv' BY NextActorStep, NextInv
  <2>1. ASSUME NEW i \in IntentIds \cup {0}, PassStep(actor, actor', i), ended' = ended
        PROVE  History(actor', ended')
    BY <2>f, <2>1, <1>i, PassHistory
  <2>2. ASSUME NextTick PROVE History(actor', ended')
    BY <2>f, <2>2, TickHistory DEF NextTick, Endings, LastWords
  <2>3. ASSUME Touched(actor, actor'), ended' = ended PROVE History(actor', ended')
    BY <2>3, TouchedHistory
  <2>4. ASSUME UNCHANGED vars PROVE History(actor', ended') BY <2>4 DEF vars
  <2>q. QED BY <2>s, <2>1, <2>2, <2>3, <2>4 DEF ActorStep
<1>3. Told => EndIsFinal
  BY DEF Inv, Fit, Burning, History, Once, EndIsFinal, BeamEndsWithAction, Endings, LastWords
<1>h. HIDE DEF Told
<1>q. QED BY <1>1, <1>2, <1>3, PTL DEF Spec
=============================================================================
