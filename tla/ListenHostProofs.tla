---------------------------- MODULE ListenHostProofs ----------------------------
(***************************************************************************)
(* The player's session on the server, and the listen server's player.     *)
(*                                                                         *)
(* The session, for every catalog of valid templates, every input          *)
(* a client sends and every bound: its cache of recent results stays       *)
(* consistent (TypeOK), it never wedges (ClaimIsLive), it agrees with the  *)
(* actor and forgets no intent (IntentsAnswered), a repeated intent does   *)
(* not run again (RepeatRunsOnce), a result counts the commits that took   *)
(* effect (CountsEffects), and the actor it drives is the one              *)
(* WeaponActions specifies (RefinesActor).                                 *)
(*                                                                         *)
(* The inductive invariants: TypeInv with ClaimIsLive for the claim;       *)
(* RunInv, which carries the actor's Fit and Steadied, with Alone and      *)
(* Answered for the intents, with History for the repeats, and with        *)
(* Counted for the counts.                                                 *)
(*                                                                         *)
(* The application hears an end once.  Results reach the client half in    *)
(* the order of one stream, what is on the wire and what the session has   *)
(* queued behind it.  Once an end of an instance is in that stream, or has *)
(* been handed on, every later word of the instance is the same result     *)
(* (OneEnd), and the client half drops a result it has already applied.    *)
(*                                                                         *)
(* The server could only say something new of such an instance if it had   *)
(* forgotten its result and were sent its intent once more.  An intent     *)
(* queued at the client waits behind at most MaxPending others, each of    *)
(* which pushes at most one result into the cache: Room counts that the    *)
(* result is still there when the intent gets through, for a cache no      *)
(* smaller than the queue of intents.  In the code they are                *)
(* kRecentActionResultCapacity = 256 and kMaxPendingClientActionIntents =  *)
(* 32; with a smaller cache the end is heard twice.                        *)
(*                                                                         *)
(* After an update the client half has the server's last word.  The words  *)
(* of an instance form one chain, Chain: what was applied, what is on the  *)
(* way, what the session remembers, each counting no less than the one     *)
(* before and said at a later tick.  So the client half drops only what it *)
(* has, and an empty stream leaves it the last.  That the server speaks in *)
(* order is Fresh: what was said counts no more than the action under way, *)
(* which is what a weapon pass says next (ActionRuntimeProofs, Says).  The *)
(* same Room, for all that was heard of (HeardRoom), keeps a result from   *)
(* being said anew with a lower count.                                     *)
(***************************************************************************)
EXTENDS ListenHost, ActionRuntimeProofs

-----------------------------------------------------------------------------
(* The session, ActionSession.                                             *)

Caches == UNION {[D -> Results] : D \in SUBSET Ids}

SessionType ==
  [claim: Ids, highWater: Ids, recent: Caches, order: Seq(Ids),
   pending: Seq(Results)]

HistoryType ==
  [seen: SUBSET Ids, answered: SUBSET Ids, ended: SUBSET Ids,
   commits: [Ids -> Nat]]

\* No id is queued twice for eviction: without this the eviction of the oldest
\* id could forget a result whose id is still queued.
Distinct(q) == \A j, k \in DOMAIN q : q[j] = q[k] => j = k

\* The cache and its eviction order agree.
Cached(ses) ==
  /\ Distinct(ses.order)
  /\ DOMAIN ses.recent = {ses.order[k] : k \in DOMAIN ses.order}
  /\ Len(ses.order) <= RecentCapacity
  /\ \A i \in DOMAIN ses.recent : ses.recent[i].id = i

TypeInv ==
  /\ Sound(actor)
  /\ session \in SessionType /\ Cached(session)
  /\ hist \in HistoryType
  /\ inputs \in Seq(Inputs(IntentIds \cup {0}))
  /\ stage \in {"poll", "simulate", "finalize"}
  /\ taken \in Nat /\ taken + Len(inputs) <= MaxInputsPerTick
  /\ stage = "poll" => taken = 0
  /\ settled \in 0..Len(actor.out)
  /\ stage # "finalize" => settled = 0
  /\ tick \in 0..MaxTick
  /\ stage = "finalize" => tick < MaxTick

-----------------------------------------------------------------------------
(* The cache of recent results.                                            *)

\* Appending an id that is not queued keeps the queue free of repeats.
LEMMA AppendDistinct ==
  ASSUME NEW q \in Seq(Ids), Distinct(q), NEW i \in Ids,
         i \notin {q[k] : k \in DOMAIN q}
  PROVE  /\ Append(q, i) \in Seq(Ids) /\ Distinct(Append(q, i))
         /\ Len(Append(q, i)) = Len(q) + 1
         /\ {Append(q, i)[k] : k \in DOMAIN Append(q, i)} =
              {q[k] : k \in DOMAIN q} \cup {i}
<1> DEFINE v == Append(q, i)
<1>1. /\ v \in Seq(Ids) /\ DOMAIN v = 1..(Len(q) + 1) /\ Len(v) = Len(q) + 1
      /\ DOMAIN q = 1..Len(q) /\ Len(q) \in Nat
      /\ v[Len(q) + 1] = i /\ \A k \in 1..Len(q) : v[k] = q[k]
  OBVIOUS
<1>h. HIDE DEF v
<1>2. \A k \in 1..(Len(q) + 1) : k \in 1..Len(q) \/ k = Len(q) + 1 BY <1>1
<1>3. Distinct(v)
  BY <1>1, <1>2 DEF Distinct
<1>4. {v[k] : k \in DOMAIN v} = {q[k] : k \in DOMAIN q} \cup {i}
  BY <1>1, <1>2
<1>q. QED BY <1>1, <1>3, <1>4 DEF v

\* Dropping the oldest id of a queue without repeats forgets that id only.
LEMMA TailDistinct ==
  ASSUME NEW q \in Seq(Ids), Distinct(q), q # << >>
  PROVE  /\ Tail(q) \in Seq(Ids) /\ Distinct(Tail(q))
         /\ Len(Tail(q)) = Len(q) - 1
         /\ {Tail(q)[k] : k \in DOMAIN Tail(q)} =
              {q[k] : k \in DOMAIN q} \ {Head(q)}
<1> DEFINE v == Tail(q)
<1>1. /\ v \in Seq(Ids) /\ DOMAIN v = 1..(Len(q) - 1) /\ Len(v) = Len(q) - 1
      /\ DOMAIN q = 1..Len(q) /\ Len(q) \in Nat \ {0}
      /\ Head(q) = q[1] /\ \A k \in 1..(Len(q) - 1) : v[k] = q[k + 1]
  OBVIOUS
<1>h. HIDE DEF v
<1>2. \A k \in DOMAIN v : k + 1 \in DOMAIN q /\ k + 1 # 1 /\ v[k] = q[k + 1]
  BY <1>1
<1>3. \A k \in DOMAIN q : k # 1 => k - 1 \in DOMAIN v /\ v[k - 1] = q[k]
  BY <1>1
<1>4. 1 \in DOMAIN q BY <1>1
<1>5. Distinct(v)
  BY <1>1, <1>2 DEF Distinct
<1>6. {v[k] : k \in DOMAIN v} = {q[k] : k \in DOMAIN q} \ {q[1]}
  BY <1>2, <1>3, <1>4 DEF Distinct
<1>q. QED BY <1>1, <1>5, <1>6 DEF v

\* A remembered result keeps the cache consistent and touches no other field.
LEMMA RememberKeeps ==
  ASSUME NEW ses \in SessionType, Cached(ses), NEW r \in Results
  PROVE  LET a == Remember(ses, r)
         IN /\ a \in SessionType /\ Cached(a)
            /\ a.claim = ses.claim /\ a.highWater = ses.highWater
            /\ a.pending = ses.pending
<1> DEFINE i == r.id
           new == i \notin DOMAIN ses.recent
           order == IF new THEN Append(ses.order, i) ELSE ses.order
           full == Len(order) > RecentCapacity
           known == (DOMAIN ses.recent \cup {i}) \ (IF full THEN {Head(order)} ELSE {})
           kept == IF full THEN Tail(order) ELSE order
           cache == [j \in known |-> IF j = i THEN r ELSE ses.recent[j]]
           a == [ses EXCEPT !.order = kept, !.recent = cache]
<1>1. /\ ses.order \in Seq(Ids) /\ ses.recent \in Caches /\ i \in Ids
  BY DEF SessionType, Results
<1>2. /\ DOMAIN ses.recent \in SUBSET Ids
      /\ \A j \in DOMAIN ses.recent : ses.recent[j] \in Results
  BY <1>1 DEF Caches
<1>3. /\ order \in Seq(Ids) /\ Distinct(order)
      /\ {order[k] : k \in DOMAIN order} = DOMAIN ses.recent \cup {i}
      /\ Len(order) <= RecentCapacity + 1
  <2>0. RecentCapacity \in Nat /\ Len(ses.order) \in Nat
    BY <1>1, SessionAssumption
  <2>1. CASE new
    <3>1. i \notin {ses.order[k] : k \in DOMAIN ses.order} BY <2>1 DEF Cached
    <3>2. order = Append(ses.order, i) BY <2>1
    <3>h. HIDE DEF order, new
    <3>3. /\ Append(ses.order, i) \in Seq(Ids) /\ Distinct(Append(ses.order, i))
          /\ Len(Append(ses.order, i)) = Len(ses.order) + 1
          /\ {Append(ses.order, i)[k] : k \in DOMAIN Append(ses.order, i)} =
               {ses.order[k] : k \in DOMAIN ses.order} \cup {i}
      BY <3>1, <1>1, AppendDistinct DEF Cached
    <3>q. QED BY <3>2, <3>3, <2>0 DEF Cached
  <2>2. CASE ~new
    <3>1. order = ses.order BY <2>2
    <3>h. HIDE DEF order
    <3>q. QED BY <3>1, <2>2, <2>0, <1>1 DEF Cached
  <2>q. QED BY <2>1, <2>2
<1>4. Remember(ses, r) = a BY DEF Remember, SessionType
<1>h. HIDE DEF order
<1>5. /\ kept \in Seq(Ids) /\ Distinct(kept) /\ Len(kept) <= RecentCapacity
      /\ {kept[k] : k \in DOMAIN kept} = known
  <2>0. RecentCapacity \in Nat /\ Len(order) \in Nat
    BY <1>3, SessionAssumption
  <2>1. CASE full
    <3>1. order # << >> BY <2>0, <2>1, <1>3
    <3>2. /\ Tail(order) \in Seq(Ids) /\ Distinct(Tail(order))
          /\ Len(Tail(order)) = Len(order) - 1
          /\ {Tail(order)[k] : k \in DOMAIN Tail(order)} =
               {order[k] : k \in DOMAIN order} \ {Head(order)}
      BY <3>1, <1>3, TailDistinct
    <3>3. /\ kept = Tail(order)
          /\ known = (DOMAIN ses.recent \cup {i}) \ {Head(order)}
      BY <2>1
    <3>4. Len(order) - 1 <= RecentCapacity BY <2>0, <1>3
    <3>h. HIDE DEF kept, known, full, i
    <3>q. QED BY <3>2, <3>3, <3>4, <1>3
  <2>2. CASE ~full BY <2>0, <2>2, <1>3
  <2>q. QED BY <2>1, <2>2
<1>6. known \in SUBSET Ids BY <1>1, <1>2
<1>7. cache \in [known -> Results] BY <1>2
<1>8. cache \in Caches BY <1>6, <1>7 DEF Caches
<1>9. \A j \in DOMAIN cache : cache[j].id = j BY DEF Cached
<1>10. DOMAIN cache = known OBVIOUS
<1>h2. HIDE DEF known, kept, cache
<1>11. a \in SessionType BY <1>5, <1>8 DEF SessionType
<1>12. /\ a.order = kept /\ a.recent = cache /\ a.claim = ses.claim
       /\ a.highWater = ses.highWater /\ a.pending = ses.pending
  BY DEF SessionType
<1>h3. HIDE DEF a
<1>13. Cached(a) BY <1>5, <1>9, <1>10, <1>12 DEF Cached
<1>q. QED BY <1>4, <1>11, <1>12, <1>13

\* The cache is indexed by ids.
LEMMA CacheDomain ==
  ASSUME NEW ses \in SessionType
  PROVE  DOMAIN ses.recent \in SUBSET Ids
  BY DEF SessionType, Caches

\* Queueing a result keeps the session's type and its claim.
LEMMA QueueKeeps ==
  ASSUME NEW ses \in SessionType, Cached(ses), NEW r \in Results
  PROVE  LET q == queue_local_action_result(ses, r)
         IN q \in SessionType /\ Cached(q) /\ q.claim = ses.claim
<1> DEFINE a == Remember(ses, r)
           b == [a EXCEPT !.pending = Append(a.pending, r)]
<1>1. a \in SessionType /\ Cached(a) /\ a.claim = ses.claim BY RememberKeeps
<1>2. queue_local_action_result(ses, r) \in {a, b}
  BY <1>1 DEF queue_local_action_result, SessionType
<1>h. HIDE DEF a
<1>3. Append(a.pending, r) \in Seq(Results) BY <1>1 DEF SessionType
<1>4. b \in SessionType BY <1>1, <1>3 DEF SessionType
<1>5. b.order = a.order /\ b.recent = a.recent /\ b.claim = a.claim
  BY <1>1 DEF SessionType
<1>h2. HIDE DEF b
<1>6. Cached(b) BY <1>1, <1>5 DEF Cached
<1>q. QED BY <1>1, <1>2, <1>4, <1>5, <1>6

-----------------------------------------------------------------------------
(* The session's two handlers.                                             *)

\* A result made from an id, a count and a reason of the actor is a result.
LEMMA ResultIsResult ==
  ASSUME NEW i \in Ids, NEW n \in Counts, NEW reason \in Reasons,
         NEW t \in {"Accepted", "Corrected", "Rejected"}, tick \in 0..MaxTick
  PROVE  Result(i, n, t, reason) \in Results
  BY DEF Result, Results

\* prepare_server_action_intent takes a claim only with the intent it keeps,
\* and gives none up.
LEMMA PrepareKeeps ==
  ASSUME NEW ses \in SessionType, Cached(ses), NEW s, NEW w,
         NEW intent \in Intents(Ids), tick \in 0..MaxTick
  PROVE  LET p == prepare_server_action_intent(ses, s, intent, w)
         IN /\ p.session \in SessionType /\ Cached(p.session)
            /\ p.kept \in BOOLEAN
            /\ \/ p.session.claim = ses.claim
               \/ p.kept /\ p.session.claim = intent.id
<1> DEFINE i == intent.id
           marked == [ses EXCEPT !.highWater = i]
           taken_ == [marked EXCEPT !.claim = i]
           refusal == SessionRefusal(s, intent, w)
           Good(p) == /\ p.session \in SessionType /\ Cached(p.session)
                      /\ p.kept \in BOOLEAN
                      /\ \/ p.session.claim = ses.claim
                         \/ p.kept /\ p.session.claim = i
<1>1. i \in Ids BY DEF Intents
<1>2. marked \in SessionType BY <1>1 DEF SessionType
<1>3. /\ marked.claim = ses.claim /\ marked.order = ses.order
      /\ marked.recent = ses.recent
  BY DEF SessionType
<1>4. Cached(marked) BY <1>3 DEF Cached
<1>5. refusal \in Reasons BY ReasonFacts DEF SessionRefusal
<1>6. prepare_server_action_intent(ses, s, intent, w) =
        IF i = 0 THEN [session |-> ses, kept |-> TRUE]
        ELSE IF intent.binding = Malformed THEN Reject(ses, intent, "InvalidActionId")
        ELSE IF i \in DOMAIN ses.recent
        THEN Dropped(queue_local_action_result(ses, ses.recent[i]))
        ELSE IF ses.claim = i THEN Dropped(ses)
        ELSE IF ses.highWater # 0 /\ ~NewerId(i, ses.highWater)
        THEN Reject(ses, intent, "InvalidActionId")
        ELSE IF ses.claim # 0 THEN Reject(marked, intent, "Busy")
        ELSE IF refusal # "None" THEN Reject(marked, intent, refusal)
        ELSE [session |-> taken_, kept |-> TRUE]
  BY DEF prepare_server_action_intent
<1>h. HIDE DEF marked, refusal
<1>7. ASSUME NEW u \in SessionType, Cached(u), u.claim = ses.claim,
             NEW reason \in Reasons
      PROVE  Good(Reject(u, intent, reason))
  <2> DEFINE r == Result(i, 0, "Rejected", reason)
             q == queue_local_action_result(u, r)
  <2>1. r \in Results BY <1>1, Zeros, ResultIsResult
  <2>h. HIDE DEF r
  <2>2. q \in SessionType /\ Cached(q) /\ q.claim = u.claim
    BY <1>7, <2>1, QueueKeeps
  <2>3. Reject(u, intent, reason) = [session |-> q, kept |-> FALSE]
    BY DEF Reject, Dropped, r
  <2>h2. HIDE DEF q
  <2>q. QED BY <2>2, <2>3, <1>7
<1>8. ASSUME i \in DOMAIN ses.recent
      PROVE  Good(Dropped(queue_local_action_result(ses, ses.recent[i])))
  <2> DEFINE q == queue_local_action_result(ses, ses.recent[i])
  <2>1. ses.recent \in Caches BY DEF SessionType
  <2>2. ses.recent[i] \in Results BY <1>8, <2>1 DEF Caches
  <2>3. q \in SessionType /\ Cached(q) /\ q.claim = ses.claim
    BY <2>2, QueueKeeps
  <2>h. HIDE DEF q
  <2>q. QED BY <2>3 DEF Dropped, q
<1>9. Good(Dropped(ses)) BY DEF Dropped
<1>10. Good([session |-> ses, kept |-> TRUE]) OBVIOUS
<1>11. Good([session |-> taken_, kept |-> TRUE])
  <2>1. taken_ \in SessionType BY <1>1, <1>2 DEF SessionType
  <2>2. /\ taken_.claim = i /\ taken_.order = marked.order
        /\ taken_.recent = marked.recent
    BY <1>2 DEF SessionType
  <2>h. HIDE DEF taken_
  <2>3. Cached(taken_) BY <2>2, <1>4 DEF Cached
  <2>q. QED BY <2>1, <2>2, <2>3
<1>12. /\ Good(Reject(ses, intent, "InvalidActionId"))
       /\ Good(Reject(marked, intent, "Busy"))
       /\ Good(Reject(marked, intent, refusal))
  BY <1>2, <1>3, <1>4, <1>5, <1>7, ReasonFacts
<1>h2. HIDE DEF Good, taken_, i
<1>13. Good(prepare_server_action_intent(ses, s, intent, w))
  BY <1>6, <1>8, <1>9, <1>10, <1>11, <1>12
<1>q. QED BY <1>13 DEF Good, i

\* finalize releases the claim exactly when the outcome ends its instance.
LEMMA SettleKeeps ==
  ASSUME NEW ses \in SessionType, Cached(ses), NEW o \in Outcomes,
         tick \in 0..MaxTick
  PROVE  LET a == Settle(ses, o)
         IN /\ a \in SessionType /\ Cached(a)
            /\ IF Ends(o) /\ ses.claim = o.id THEN a.claim = 0
               ELSE a.claim = ses.claim
<1> DEFINE r == Result(o.id, o.count, ResultType(o.type), o.reason)
           told == IF o.type \in {"Admitted", "Completed"} THEN ses
                   ELSE queue_local_action_result(ses, r)
           freed == [told EXCEPT !.claim = 0]
<1>1. o.id \in Ids /\ o.count \in Counts /\ o.reason \in Reasons
  BY DEF Outcomes
<1>2. ResultType(o.type) \in {"Accepted", "Corrected", "Rejected"}
  BY DEF ResultType
<1>3. r \in Results BY <1>1, <1>2, ResultIsResult
<1>4. Settle(ses, o) =
        IF Ends(o) /\ ses.claim = o.id THEN freed ELSE told
  BY DEF Settle
<1>h. HIDE DEF r
<1>5. told \in SessionType /\ Cached(told) /\ told.claim = ses.claim
  BY <1>3, QueueKeeps
<1>h2. HIDE DEF told
<1>6. freed \in SessionType BY <1>5, Zeros DEF SessionType
<1>7. freed.claim = 0 /\ freed.order = told.order /\ freed.recent = told.recent
  BY <1>5 DEF SessionType
<1>h3. HIDE DEF freed
<1>8. Cached(freed) BY <1>5, <1>7 DEF Cached
<1>q. QED BY <1>4, <1>5, <1>6, <1>7, <1>8

-----------------------------------------------------------------------------
(* The type invariant.                                                     *)

\* The inputs the model enumerates are inputs ActionRuntimeProofs is about.
LEMMA InputsKnown ==
  /\ Inputs(IntentIds \cup {0}) \subseteq Inputs(Ids)
  /\ \A in \in Inputs(Ids) : in.intent \in Intents(Ids)
  /\ \A in \in Inputs(IntentIds \cup {0}) :
       [in EXCEPT !.intent = NoIntent] \in Inputs(IntentIds \cup {0})
  BY SessionAssumption, Zeros, OutcomeKinds DEF NoIntent, Intents, Inputs

\* The initial states satisfy the type invariant.
LEMMA InitTypes == Init => TypeInv
<1> SUFFICES ASSUME Init PROVE TypeInv
  OBVIOUS
<1>1. Sound(actor) /\ actor.out = << >> BY InitActorSound DEF Init
<1>2. [i \in Ids |-> 0] \in [Ids -> Nat] OBVIOUS
<1>3. hist \in HistoryType BY <1>2 DEF Init, InitHistory, HistoryType
<1>4. << >> \in Caches
  BY DEF Caches
<1>5. << >> \in Seq(Ids) /\ << >> \in Seq(Results) OBVIOUS
<1>6. session \in SessionType
  BY <1>4, <1>5, Zeros DEF Init, InitSession, SessionType
<1>7. session.order = << >> /\ session.recent = << >> BY DEF Init, InitSession
<1>8. Cached(session) BY <1>7, SessionAssumption DEF Cached, Distinct
<1>9. /\ inputs \in Seq(Inputs(IntentIds \cup {0})) /\ Len(inputs) = 0
      /\ Len(actor.out) = 0
  BY <1>1 DEF Init
<1>q. QED BY <1>1, <1>3, <1>6, <1>8, <1>9, SessionAssumption DEF Init, TypeInv

\* An accepted input adds one input and leaves the actor alone.
LEMMA ReceiveTypes ==
  ASSUME TypeInv, NEW in \in Inputs(IntentIds \cup {0}), ReceiveInput(in)
  PROVE  TypeInv'
<1> DEFINE p == prepare_server_action_intent(session, actor, in.intent, in.selected)
           i == in.intent.id
           add == [in EXCEPT !.intent = IF p.kept THEN in.intent ELSE NoIntent]
           an == hist.answered \cup DOMAIN p.session.recent
           se == hist.seen \cup ({i} \ {0})
<1>1. in \in Inputs(Ids) /\ in.intent \in Intents(Ids) BY InputsKnown
<1>2. i \in Ids BY <1>1 DEF Intents
<1>3. p.session \in SessionType /\ Cached(p.session) /\ p.kept \in BOOLEAN
  BY <1>1, PrepareKeeps DEF TypeInv
<1>4. add \in Inputs(IntentIds \cup {0})
  BY InputsKnown DEF Inputs
<1>5. /\ session' = p.session
      /\ inputs' = Append(inputs, add)
      /\ hist' = [hist EXCEPT !.seen = se, !.answered = an]
      /\ UNCHANGED <<actor, stage, taken, settled, tick>>
      /\ stage = "poll" /\ Len(inputs) < MaxInputsPerTick
  BY DEF ReceiveInput, TypeInv, HistoryType
<1>6. hist' \in HistoryType
  <2>1. hist \in HistoryType BY DEF TypeInv
  <2>2. DOMAIN p.session.recent \in SUBSET Ids BY <1>3, CacheDomain
  <2>3. se \in SUBSET Ids /\ an \in SUBSET Ids BY <2>1, <2>2, <1>2 DEF HistoryType
  <2>h. HIDE DEF se, an
  <2>q. QED BY <2>1, <2>3, <1>5 DEF HistoryType
<1>h. HIDE DEF p, add
<1>7. /\ inputs' \in Seq(Inputs(IntentIds \cup {0}))
      /\ Len(inputs') = Len(inputs) + 1 /\ Len(inputs) \in Nat
  BY <1>4, <1>5 DEF TypeInv
<1>8. taken' = 0 BY <1>5 DEF TypeInv
<1>9. taken' + Len(inputs') <= MaxInputsPerTick
  BY <1>5, <1>7, <1>8, SessionAssumption
<1>q. QED BY <1>3, <1>5, <1>6, <1>7, <1>8, <1>9 DEF TypeInv

\* What the actor's outcomes are, read at an index.
LEMMA OutcomeAt ==
  ASSUME NEW s, Sound(s)
  PROVE  /\ s.out \in Seq(Outcomes) /\ DOMAIN s.out = 1..Len(s.out)
         /\ Len(s.out) \in Nat
         /\ \A k \in DOMAIN s.out : s.out[k] \in Outcomes /\ s.out[k].id \in Ids
<1>1. s.out \in Seq(Outcomes) BY DEF Sound, ActorType
<1>2. \A o \in Outcomes : o.id \in Ids BY DEF Outcomes
<1>q. QED BY <1>1, <1>2

\* Taking the head of the queued inputs.
LEMMA InputAt ==
  ASSUME TypeInv, inputs # << >>
  PROVE  /\ Head(inputs) \in Inputs(IntentIds \cup {0})
         /\ Head(inputs) \in Inputs(Ids) /\ Head(inputs) = inputs[1]
         /\ Tail(inputs) \in Seq(Inputs(IntentIds \cup {0}))
         /\ Len(Tail(inputs)) = Len(inputs) - 1
         /\ Len(inputs) \in Nat \ {0} /\ DOMAIN inputs = 1..Len(inputs)
         /\ DOMAIN Tail(inputs) = 1..(Len(inputs) - 1)
         /\ \A k \in 1..(Len(inputs) - 1) : Tail(inputs)[k] = inputs[k + 1]
<1>1. ASSUME NEW S, NEW q \in Seq(S), q # << >>
      PROVE  /\ Head(q) \in S /\ Head(q) = q[1] /\ Tail(q) \in Seq(S)
             /\ Len(Tail(q)) = Len(q) - 1 /\ Len(q) \in Nat \ {0}
             /\ DOMAIN q = 1..Len(q) /\ DOMAIN Tail(q) = 1..(Len(q) - 1)
             /\ \A k \in 1..(Len(q) - 1) : Tail(q)[k] = q[k + 1]
  BY <1>1
<1>2. inputs \in Seq(Inputs(IntentIds \cup {0})) BY DEF TypeInv
<1>3. Inputs(IntentIds \cup {0}) \subseteq Inputs(Ids) BY InputsKnown
<1>q. QED BY <1>1, <1>2, <1>3

\* Every step, stuttering included, preserves the type invariant.
LEMMA NextTypes == TypeInv /\ [Next]_vars => TypeInv'
<1> SUFFICES ASSUME TypeInv, [Next]_vars PROVE TypeInv'
  OBVIOUS
<1>s. Sound(actor) BY DEF TypeInv
<1>1. ASSUME NEW in \in Inputs(IntentIds \cup {0}), ReceiveInput(in) PROVE TypeInv'
  BY <1>1, ReceiveTypes
<1>2. CASE SimulateInput
  BY <1>2, <1>s, InputAt, WeaponPassKeeps, OutcomeAt, SessionAssumption DEF SimulateInput,
    Keeps, TypeInv
<1>3. CASE SimulateIdle
  BY <1>3, <1>s, IdlePassKeeps, OutcomeAt DEF SimulateIdle, Keeps, TypeInv
<1>4. CASE FinalizeOutcome
  <2> DEFINE o == actor.out[settled + 1]
             an == hist.answered \cup DOMAIN Settle(session, o).recent
             co == [hist.commits EXCEPT ![o.id] =
                      IF o.type = "Committed" THEN hist.commits[o.id] + 1
                      ELSE hist.commits[o.id]]
  <2>1. settled + 1 \in DOMAIN actor.out /\ settled \in Nat
    BY <1>s, <1>4, OutcomeAt DEF FinalizeOutcome, TypeInv
  <2>2. o \in Outcomes /\ o.id \in Ids BY <2>1, <1>s, OutcomeAt
  <2>3. session' = Settle(session, o) BY <1>4 DEF FinalizeOutcome
  <2>4. hist \in HistoryType BY DEF TypeInv
  <2>5. hist' = [hist EXCEPT !.answered = an, !.commits = co]
    BY <2>4, <1>4 DEF FinalizeOutcome, HistoryType
  <2>6. hist.answered \in SUBSET Ids /\ hist.commits \in [Ids -> Nat]
    BY <2>4 DEF HistoryType
  <2>7. an \in SUBSET Ids BY <2>2, <2>6, SettleKeeps, CacheDomain DEF TypeInv
  <2>8. co \in [Ids -> Nat] BY <2>2, <2>6
  <2>h. HIDE DEF o, an, co
  <2>9. hist' \in HistoryType BY <2>4, <2>5, <2>7, <2>8 DEF HistoryType
  <2>10. session' \in SessionType /\ Cached(session')
    BY <2>2, <2>3, SettleKeeps DEF TypeInv
  <2>11. settled' \in 0..Len(actor.out)
    BY <2>1, <1>4, <1>s, OutcomeAt DEF FinalizeOutcome
  <2>q. QED BY <2>9, <2>10, <2>11, <1>4 DEF FinalizeOutcome, TypeInv
<1>5. ASSUME NEW batches \in Batches, Flush(batches) PROVE TypeInv'
  <2> DEFINE pe == IF Len(Sent(batches)) = Len(session.pending) THEN << >>
                   ELSE session.pending
             en == hist.ended \cup {actor.out[k].id : k \in
                     {j \in DOMAIN actor.out : actor.out[j].type \in Endings}}
  <2>1. Sound(actor') /\ actor'.out = << >> BY <1>5, <1>s, TickOverKeeps DEF Flush
  <2>2. session \in SessionType /\ Cached(session) /\ hist \in HistoryType
    BY DEF TypeInv
  <2>3. session' = [session EXCEPT !.pending = pe]
    BY <1>5, <2>2 DEF Flush, SessionType
  <2>4. hist' = [hist EXCEPT !.ended = en]
    BY <1>5, <2>2 DEF Flush, HistoryType
  <2>5. pe \in Seq(Results) BY <2>2 DEF SessionType
  <2>6. en \in SUBSET Ids
    BY <1>s, <2>2, OutcomeAt DEF HistoryType
  <2>h. HIDE DEF pe, en
  <2>7. session' \in SessionType BY <2>2, <2>3, <2>5 DEF SessionType
  <2>8. session'.order = session.order /\ session'.recent = session.recent
    BY <2>2, <2>3 DEF SessionType
  <2>9. Cached(session') BY <2>2, <2>8 DEF Cached
  <2>10. hist' \in HistoryType BY <2>2, <2>4, <2>6 DEF HistoryType
  <2>11. settled' \in 0..Len(actor'.out) /\ settled' = 0
    BY <2>1, <1>5 DEF Flush
  <2>12. tick' \in 0..MaxTick BY <1>5, SessionAssumption DEF Flush, TypeInv
  <2>13. taken' = 0 /\ taken' + Len(inputs') <= MaxInputsPerTick
    BY <1>5, SessionAssumption DEF TypeInv, Flush
  <2>q. QED BY <2>1, <2>7, <2>9, <2>10, <2>11, <2>12, <2>13, <1>5 DEF Flush, TypeInv
<1>6. CASE Stagger \/ Steady \/ TakeHands \/ Die \/ Revive
  <2>1. "Staggered" \in BlockReasons BY DEF BlockReasons
  <2>2. /\ Sound(actor')
        /\ UNCHANGED <<session, inputs, stage, taken, settled, tick, hist>>
        /\ stage = "poll"
    BY <1>6, <1>s, <2>1, DisturbanceKeeps
    DEF Keeps, Stagger, Steady, TakeHands, Die, Revive, World
  <2>3. settled' \in 0..Len(actor'.out) BY <2>2, OutcomeAt DEF TypeInv
  <2>q. QED BY <2>2, <2>3 DEF TypeInv
<1>7. CASE UNCHANGED vars BY <1>7 DEF vars, TypeInv
<1>q. QED BY <1>1, <1>2, <1>3, <1>4, <1>5, <1>6, <1>7 DEF Next, Server

\* The session's fields keep their types, and the cache of recent results is
\* indexed by exactly the ids queued for eviction and never exceeds its
\* capacity, whatever results are queued and in whatever order
\* (queue_local_action_result).
THEOREM TypeCorrect == Spec => []TypeOK
<1>1. TypeInv => TypeOK
  BY SessionAssumption DEF TypeInv, SessionType, Caches, TypeOK, Cached
<1>q. QED BY InitTypes, NextTypes, <1>1, PTL DEF Spec

-----------------------------------------------------------------------------
(* The claim.  Its inductive invariant is TypeInv and ClaimIsLive.         *)

\* While nothing is settled, a live claim is queued or covered.
LEMMA LiveIsCovered ==
  ASSUME NEW i, Sound(actor), settled = 0, EndToCome(i)
  PROVE  \/ \E k \in DOMAIN inputs : inputs[k].intent.id = i
         \/ Covers(actor, i)
  BY OutcomeAt DEF Covers, EndReported, EndToCome

\* Every step, stuttering included, keeps the claim live.
LEMMA NextClaim == TypeInv /\ TypeInv' /\ ClaimIsLive /\ [Next]_vars => ClaimIsLive'
<1> SUFFICES ASSUME TypeInv, TypeInv', ClaimIsLive, [Next]_vars,
                    NEW CONSTANT c, c = session'.claim, c # 0
             PROVE  EndToCome(c)'
  BY DEF ClaimIsLive, EndToCome
<1>s. Sound(actor) /\ Sound(actor') BY DEF TypeInv
<1>1. ASSUME NEW in \in Inputs(IntentIds \cup {0}), ReceiveInput(in)
      PROVE  EndToCome(c)'
  <2> DEFINE p == prepare_server_action_intent(session, actor, in.intent, in.selected)
             add == [in EXCEPT !.intent = IF p.kept THEN in.intent ELSE NoIntent]
  <2>1. in.intent \in Intents(Ids) BY InputsKnown
  <2>2. \/ p.session.claim = session.claim
        \/ p.kept /\ p.session.claim = in.intent.id
    BY <2>1, PrepareKeeps DEF TypeInv
  <2>3. p.kept => add.intent = in.intent BY DEF Inputs
  <2>4. session' = p.session /\ inputs' = Append(inputs, add)
        /\ UNCHANGED <<actor, settled>>
    BY <1>1 DEF ReceiveInput
  <2>h. HIDE DEF p, add
  <2>5. /\ inputs'[Len(inputs) + 1] = add /\ Len(inputs) + 1 \in DOMAIN inputs'
        /\ \A k \in DOMAIN inputs : k \in DOMAIN inputs' /\ inputs'[k] = inputs[k]
    BY <2>4 DEF TypeInv
  <2>6. CASE session.claim = c
    BY <2>4, <2>5, <2>6 DEF ClaimIsLive, EndToCome, InProgress
  <2>7. CASE p.kept /\ c = in.intent.id
    BY <2>3, <2>5, <2>7 DEF EndToCome
  <2>q. QED BY <2>2, <2>4, <2>6, <2>7
<1>2. CASE SimulateInput
  <2>1. PICK found \in BOOLEAN : actor' = WeaponPass(actor, Head(inputs), found)
    BY <1>2 DEF SimulateInput
  <2>2. /\ inputs # << >> /\ inputs' = Tail(inputs) /\ settled = 0 /\ settled' = 0
        /\ session.claim = c
    BY <1>2 DEF SimulateInput, TypeInv
  <2>3. Head(inputs) \in Inputs(Ids) /\ Head(inputs) = inputs[1] BY <2>2, InputAt
  <2>4. /\ \A i : Covers(actor, i) => Covers(actor', i)
        /\ inputs[1].intent.id # 0 => Covers(actor', inputs[1].intent.id)
    BY <2>1, <2>3, <1>s, WeaponPassKeeps DEF Keeps
  <2>5. EndToCome(c) /\ c # 0 BY <2>2 DEF ClaimIsLive
  <2>6. \/ \E k \in DOMAIN inputs : inputs[k].intent.id = c
        \/ Covers(actor, c)
    BY <2>2, <2>5, <1>s, LiveIsCovered
  <2>7. Covers(actor', c) => EndToCome(c)'
    BY <1>s, <2>2, OutcomeAt DEF Covers, EndReported, EndToCome
  <2>8. ASSUME NEW k \in DOMAIN inputs, inputs[k].intent.id = c, k # 1
        PROVE  EndToCome(c)'
    <3>1. k - 1 \in DOMAIN inputs' /\ inputs'[k - 1] = inputs[k]
      BY <2>2, <2>8, InputAt
    <3>q. QED BY <3>1, <2>2, <2>8 DEF EndToCome
  <2>q. QED BY <2>2, <2>4, <2>5, <2>6, <2>7, <2>8
<1>3. CASE SimulateIdle
  <2>1. PICK found \in BOOLEAN : actor' = IdlePass(actor, found)
    BY <1>3 DEF SimulateIdle
  <2>2. /\ inputs = << >> /\ settled = 0 /\ settled' = 0 /\ session.claim = c
    BY <1>3 DEF SimulateIdle, TypeInv
  <2>3. \A i : Covers(actor, i) => Covers(actor', i)
    BY <2>1, <1>s, IdlePassKeeps DEF Keeps
  <2>4. Covers(actor, c) BY <2>2, <1>s, LiveIsCovered DEF ClaimIsLive
  <2>5. Covers(actor', c) BY <2>3, <2>4
  <2>6. DOMAIN actor'.out = 1..Len(actor'.out) BY <1>s, OutcomeAt
  <2>7. (settled' + 1)..Len(actor'.out) = 1..Len(actor'.out) BY <2>2
  <2>q. QED BY <2>2, <2>5, <2>6, <2>7 DEF Covers, EndReported, EndToCome
<1>4. CASE FinalizeOutcome
  <2> DEFINE o == actor.out[settled + 1]
  <2>1. settled + 1 \in DOMAIN actor.out /\ settled \in Nat
    BY <1>s, <1>4, OutcomeAt DEF FinalizeOutcome, TypeInv
  <2>2. o \in Outcomes BY <2>1, <1>s, OutcomeAt
  <2>3. session' = Settle(session, o) /\ settled' = settled + 1
        /\ UNCHANGED <<actor, inputs>>
    BY <1>4 DEF FinalizeOutcome
  <2>4. session.claim = c /\ ~(Ends(o) /\ c = o.id)
    BY <2>2, <2>3, SettleKeeps DEF TypeInv
  <2>5. EndToCome(c) BY <2>4 DEF ClaimIsLive
  <2>6. ASSUME NEW k \in (settled + 1)..Len(actor.out),
               actor.out[k].id = c, Ends(actor.out[k])
        PROVE  k \in (settled' + 1)..Len(actor'.out)
    BY <1>s, <2>1, <2>3, <2>4, <2>6, OutcomeAt
  <2>q. QED BY <2>3, <2>4, <2>5, <2>6 DEF EndToCome, InProgress
<1>5. ASSUME NEW batches \in Batches, Flush(batches)
      PROVE  EndToCome(c)'
  <2>1. session.claim = c BY <1>5 DEF Flush, TypeInv, SessionType
  <2>2. /\ settled = Len(actor.out) /\ inputs' = inputs
        /\ actor'.phase = actor.phase /\ actor'.id = actor.id
    BY <1>5, <1>s, TickOverKeeps DEF Flush
  <2>3. EndToCome(c) BY <2>1 DEF ClaimIsLive
  <2>4. (settled + 1)..Len(actor.out) = {}
    BY <1>s, <2>2, OutcomeAt
  <2>q. QED BY <2>1, <2>2, <2>3, <2>4 DEF EndToCome, InProgress
<1>6. CASE Stagger \/ Steady \/ TakeHands \/ Die \/ Revive
  <2>1. "Staggered" \in BlockReasons BY DEF BlockReasons
  <2>2. Keeps(actor, actor')
    BY <1>6, <1>s, <2>1, DisturbanceKeeps
    DEF Stagger, Steady, TakeHands, Die, Revive, World
  <2>3. UNCHANGED <<session, inputs, settled>> /\ settled = 0
    BY <1>6 DEF Stagger, Steady, TakeHands, Die, Revive, World, TypeInv
  <2>4. \/ \E k \in DOMAIN inputs : inputs[k].intent.id = c
        \/ Covers(actor, c)
    BY <2>3, <1>s, LiveIsCovered DEF ClaimIsLive
  <2>5. DOMAIN actor'.out = 1..Len(actor'.out) BY <1>s, OutcomeAt
  <2>6. (settled' + 1)..Len(actor'.out) = 1..Len(actor'.out) BY <2>3
  <2>q. QED BY <2>2, <2>3, <2>4, <2>5, <2>6
        DEF Keeps, Covers, EndReported, EndToCome
<1>7. CASE UNCHANGED vars
  BY <1>7 DEF vars, ClaimIsLive, EndToCome, InProgress
<1>q. QED BY <1>1, <1>2, <1>3, <1>4, <1>5, <1>6, <1>7 DEF Next, Server

\* The session never wedges: in every reachable state, for every catalog and
\* every client, the instance the session claims is still queued, under way or
\* about to be reported ended (prepare_server_action_intent,
\* finalize_server_action_outcomes).
THEOREM ClaimStaysLive == Spec => []ClaimIsLive
<1>1. Init => ClaimIsLive BY DEF Init, InitSession, ClaimIsLive
<1>2. Spec => []TypeInv BY InitTypes, NextTypes, PTL DEF Spec
<1>q. QED BY <1>1, <1>2, NextClaim, PTL DEF Spec

-----------------------------------------------------------------------------
(* The answers.                                                            *)

\* A remembered result is in the cache: the eviction never takes the id that
\* has just been added.
LEMMA RememberKnows ==
  ASSUME NEW ses \in SessionType, Cached(ses), NEW r \in Results
  PROVE  r.id \in DOMAIN Remember(ses, r).recent
<1> DEFINE i == r.id
           new == i \notin DOMAIN ses.recent
           order == IF new THEN Append(ses.order, i) ELSE ses.order
           full == Len(order) > RecentCapacity
           known == (DOMAIN ses.recent \cup {i}) \ (IF full THEN {Head(order)} ELSE {})
           cache == [j \in known |-> IF j = i THEN r ELSE ses.recent[j]]
<1>1. ses.order \in Seq(Ids) /\ i \in Ids BY DEF SessionType, Results
<1>2. Len(ses.order) \in Nat /\ Len(ses.order) <= RecentCapacity
      /\ RecentCapacity \in Nat \ {0}
  BY <1>1, SessionAssumption DEF Cached
<1>3. full => Head(order) # i
  BY <1>1, <1>2 DEF Cached
<1>h. HIDE DEF order, full, new
<1>4. i \in known BY <1>3
<1>5. DOMAIN cache = known OBVIOUS
<1>6. Remember(ses, r).recent = cache
  BY DEF Remember, SessionType, order, full, new
<1>h2. HIDE DEF cache, known
<1>q. QED BY <1>4, <1>5, <1>6

\* A queued result can be looked up under its id.
LEMMA QueueKnows ==
  ASSUME NEW ses \in SessionType, Cached(ses), NEW r \in Results
  PROVE  r.id \in DOMAIN queue_local_action_result(ses, r).recent
<1> DEFINE a == Remember(ses, r)
           b == [a EXCEPT !.pending = Append(a.pending, r)]
<1>1. a \in SessionType BY RememberKeeps
<1>2. queue_local_action_result(ses, r) \in {a, b}
  BY <1>1 DEF queue_local_action_result, SessionType
<1>3. r.id \in DOMAIN a.recent BY RememberKnows
<1>h. HIDE DEF a
<1>4. b.recent = a.recent BY <1>1 DEF SessionType
<1>h2. HIDE DEF b
<1>q. QED BY <1>2, <1>3, <1>4

\* An intent is answered at once, is the one already claimed, or takes a claim
\* that nobody holds.
LEMMA PrepareAnswers ==
  ASSUME NEW ses \in SessionType, Cached(ses), NEW s, NEW w,
         NEW intent \in Intents(Ids), tick \in 0..MaxTick
  PROVE  LET p == prepare_server_action_intent(ses, s, intent, w)
         IN /\ p.kept \in BOOLEAN
            /\ p.kept => \/ intent.id = 0 /\ p.session.claim = ses.claim
                         \/ /\ intent.id # 0 /\ ses.claim = 0
                            /\ p.session.claim = intent.id
            /\ ~p.kept => /\ p.session.claim = ses.claim
                          /\ \/ intent.id \in DOMAIN p.session.recent
                             \/ intent.id = ses.claim
<1> DEFINE i == intent.id
           marked == [ses EXCEPT !.highWater = i]
           taken_ == [marked EXCEPT !.claim = i]
           refusal == SessionRefusal(s, intent, w)
           Good(p) == /\ p.kept \in BOOLEAN
                      /\ p.kept => \/ i = 0 /\ p.session.claim = ses.claim
                                   \/ /\ i # 0 /\ ses.claim = 0
                                      /\ p.session.claim = i
                      /\ ~p.kept => /\ p.session.claim = ses.claim
                                    /\ \/ i \in DOMAIN p.session.recent
                                       \/ i = ses.claim
<1>1. i \in Ids BY DEF Intents
<1>2. marked \in SessionType BY <1>1 DEF SessionType
<1>3. /\ marked.claim = ses.claim /\ marked.order = ses.order
      /\ marked.recent = ses.recent
  BY DEF SessionType
<1>4. Cached(marked) BY <1>3 DEF Cached
<1>5. refusal \in Reasons BY ReasonFacts DEF SessionRefusal
<1>6. prepare_server_action_intent(ses, s, intent, w) =
        IF i = 0 THEN [session |-> ses, kept |-> TRUE]
        ELSE IF intent.binding = Malformed THEN Reject(ses, intent, "InvalidActionId")
        ELSE IF i \in DOMAIN ses.recent
        THEN Dropped(queue_local_action_result(ses, ses.recent[i]))
        ELSE IF ses.claim = i THEN Dropped(ses)
        ELSE IF ses.highWater # 0 /\ ~NewerId(i, ses.highWater)
        THEN Reject(ses, intent, "InvalidActionId")
        ELSE IF ses.claim # 0 THEN Reject(marked, intent, "Busy")
        ELSE IF refusal # "None" THEN Reject(marked, intent, refusal)
        ELSE [session |-> taken_, kept |-> TRUE]
  BY DEF prepare_server_action_intent
<1>h. HIDE DEF marked, refusal
<1>7. ASSUME NEW u \in SessionType, Cached(u), u.claim = ses.claim,
             NEW reason \in Reasons
      PROVE  Good(Reject(u, intent, reason))
  <2> DEFINE r == Result(i, 0, "Rejected", reason)
             q == queue_local_action_result(u, r)
  <2>1. r \in Results BY <1>1, Zeros, ResultIsResult
  <2>2. r.id = i BY DEF Result
  <2>h. HIDE DEF r
  <2>3. q.claim = u.claim /\ r.id \in DOMAIN q.recent
    BY <1>7, <2>1, QueueKeeps, QueueKnows
  <2>4. Reject(u, intent, reason) = [session |-> q, kept |-> FALSE]
    BY DEF Reject, Dropped, r
  <2>h2. HIDE DEF q
  <2>q. QED BY <2>2, <2>3, <2>4, <1>7
<1>8. ASSUME i \in DOMAIN ses.recent
      PROVE  Good(Dropped(queue_local_action_result(ses, ses.recent[i])))
  <2> DEFINE r == ses.recent[i]
             q == queue_local_action_result(ses, r)
  <2>1. ses.recent \in Caches BY DEF SessionType
  <2>2. r \in Results /\ r.id = i BY <1>8, <2>1 DEF Caches, Cached
  <2>h. HIDE DEF r
  <2>3. q.claim = ses.claim /\ r.id \in DOMAIN q.recent
    BY <2>2, QueueKeeps, QueueKnows
  <2>4. Dropped(q) = [session |-> q, kept |-> FALSE] BY DEF Dropped
  <2>h2. HIDE DEF q
  <2>5. Good(Dropped(q)) BY <2>2, <2>3, <2>4
  <2>q. QED BY <2>5 DEF q, r
<1>9. i = ses.claim => Good(Dropped(ses)) BY DEF Dropped
<1>10. i = 0 => Good([session |-> ses, kept |-> TRUE]) OBVIOUS
<1>11. i # 0 /\ ses.claim = 0 => Good([session |-> taken_, kept |-> TRUE])
  <2>1. taken_.claim = i BY <1>2 DEF SessionType
  <2>h. HIDE DEF taken_
  <2>q. QED BY <2>1
<1>12. /\ Good(Reject(ses, intent, "InvalidActionId"))
       /\ Good(Reject(marked, intent, "Busy"))
       /\ Good(Reject(marked, intent, refusal))
  BY <1>2, <1>3, <1>4, <1>5, <1>7, ReasonFacts
<1>h2. HIDE DEF Good, taken_, i
<1>13. Good(prepare_server_action_intent(ses, s, intent, w))
  BY <1>6, <1>8, <1>9, <1>10, <1>11, <1>12
<1>q. QED BY <1>13 DEF Good, i

\* Finalize queues a result for every outcome but an admission or completion.
LEMMA SettleKnows ==
  ASSUME NEW ses \in SessionType, Cached(ses), NEW o \in Outcomes,
         tick \in 0..MaxTick, o.type \notin {"Admitted", "Completed"}
  PROVE  o.id \in DOMAIN Settle(ses, o).recent
<1> DEFINE r == Result(o.id, o.count, ResultType(o.type), o.reason)
           told == queue_local_action_result(ses, r)
           freed == [told EXCEPT !.claim = 0]
<1>1. o.id \in Ids /\ o.count \in Counts /\ o.reason \in Reasons
  BY DEF Outcomes
<1>2. ResultType(o.type) \in {"Accepted", "Corrected", "Rejected"}
  BY DEF ResultType
<1>3. r \in Results BY <1>1, <1>2, ResultIsResult
<1>4. r.id = o.id BY DEF Result
<1>5. Settle(ses, o) = IF Ends(o) /\ ses.claim = o.id THEN freed ELSE told
  BY DEF Settle
<1>h. HIDE DEF r
<1>6. told \in SessionType /\ r.id \in DOMAIN told.recent
  BY <1>3, QueueKeeps, QueueKnows
<1>h2. HIDE DEF told
<1>7. freed.recent = told.recent BY <1>6 DEF SessionType
<1>h3. HIDE DEF freed
<1>q. QED BY <1>4, <1>5, <1>6, <1>7

-----------------------------------------------------------------------------
(* The actor under the session.                                            *)

RunInv ==
  /\ TypeInv /\ Fit(actor) /\ Steadied(actor) /\ Paired(actor.out)
  /\ stage = "poll" => actor.out = << >>

\* What each action does to the actor.
SessionStep ==
  \/ \E in \in Inputs(IntentIds \cup {0}) : ReceiveInput(in)
  \/ SimulateInput /\ PassStep(actor, actor', Head(inputs).intent.id)
  \/ SimulateIdle /\ PassStep(actor, actor', 0)
  \/ FinalizeOutcome
  \/ \E batches \in Batches : Flush(batches)
  \/ /\ stage = "poll" /\ Touched(actor, actor')
     /\ UNCHANGED <<session, inputs, stage, taken, settled, tick, hist>>
  \/ UNCHANGED vars

\* Every step of the specification is one of those.
LEMMA NextSessionStep ==
  ASSUME RunInv, [Next]_vars
  PROVE  SessionStep
<1>f. Fit(actor) /\ Steadied(actor) BY DEF RunInv
<1>1. ASSUME SimulateInput PROVE PassStep(actor, actor', Head(inputs).intent.id)
  BY <1>1, <1>f, InputAt, WeaponPassSteps DEF SimulateInput, RunInv
<1>2. ASSUME SimulateIdle PROVE PassStep(actor, actor', 0)
  BY <1>2, <1>f, IdlePassSteps DEF SimulateIdle
<1>3. ASSUME Stagger \/ Steady \/ TakeHands \/ Die \/ Revive
      PROVE  /\ stage = "poll" /\ Touched(actor, actor')
             /\ UNCHANGED <<session, inputs, stage, taken, settled, tick, hist>>
  BY <1>3, <1>f, DisturbanceFit DEF BlockReasons, Stagger, Steady, TakeHands, Die, Revive,
    World
<1>q. QED BY <1>1, <1>2, <1>3 DEF Next, Server, SessionStep

\* The run starts sound.
LEMMA InitRun == Init => RunInv
  BY InitTypes, InitActorFit DEF Paired, Init, RunInv

\* Every step keeps the run sound.
LEMMA NextRun == RunInv /\ [Next]_vars => RunInv'
<1> SUFFICES ASSUME RunInv, [Next]_vars PROVE RunInv'
  OBVIOUS
<1>f. Fit(actor) /\ Steadied(actor) /\ Paired(actor.out) BY DEF RunInv
<1>t. TypeInv /\ TypeInv' BY NextTypes DEF RunInv
<1>s. SessionStep BY NextSessionStep
<1>e. Paired(<< >>) BY DEF Paired
<1>1. ASSUME NEW i, PassStep(actor, actor', i), stage' # "poll" PROVE RunInv'
  BY <1>f, <1>t, <1>1, PassKeepsFit, PassPaired DEF RunInv
<1>2. ASSUME NEW in \in Inputs(IntentIds \cup {0}), ReceiveInput(in) PROVE RunInv'
  BY <1>t, <1>2 DEF ReceiveInput, RunInv
<1>3. CASE FinalizeOutcome BY <1>t, <1>3 DEF FinalizeOutcome, RunInv
<1>4. ASSUME NEW batches \in Batches, Flush(batches) PROVE RunInv'
  BY <1>e, <1>f, <1>t, <1>4, TickOverFit DEF Flush, RunInv
<1>5. CASE Touched(actor, actor') /\ stage' = stage
  BY <1>f, <1>t, <1>5 DEF Touched, RunInv
<1>6. CASE UNCHANGED vars BY <1>t, <1>6 DEF vars, RunInv
<1>7. SimulateInput => stage' # "poll" BY DEF SimulateInput
<1>8. SimulateIdle => stage' # "poll" BY DEF SimulateIdle
<1>q. QED BY <1>s, <1>1, <1>2, <1>3, <1>4, <1>5, <1>6, <1>7, <1>8 DEF SessionStep

\* The ids in use stop short of the last one of their width: there
\* next_generated_instance_id stays where it is and the same id is admitted
\* again.
ShortIds == IntentIds \subseteq 0..(IdModulus - 2)

\* An instance whose end was reported never runs again, whatever the client
\* repeats and whatever the cache of results has forgotten, for catalogs whose
\* reloads and targeted strikes commit once and ids short of the last one.
THEOREM RepeatsRunOnce ==
  ASSUME SingleEffects, ShortIds
  PROVE  Spec => []RepeatRunsOnce
<1> DEFINE Told == RunInv /\ History(actor, hist.ended)
<1>i. \A i \in IntentIds \cup {0} : i \in Ids /\ i # IdModulus - 1
  BY SessionAssumption, Zeros, RuntimeAssumption DEF ShortIds, Ids
<1>1. Init => Told
  BY InitActorFit, InitRun DEF History, Once, Init, InitHistory
<1>2. Told /\ [Next]_vars => Told'
  <2> SUFFICES ASSUME Told, [Next]_vars PROVE Told'
    OBVIOUS
  <2>f. Fit(actor) /\ Steadied(actor) /\ TypeInv /\ hist \in HistoryType
    BY DEF RunInv, TypeInv
  <2>s. SessionStep /\ RunInv' BY NextSessionStep, NextRun
  <2>1. ASSUME NEW i \in IntentIds \cup {0}, PassStep(actor, actor', i), hist' = hist
        PROVE  History(actor', hist'.ended)
    BY <2>f, <2>1, <1>i, PassHistory
  <2>2. ASSUME NEW batches \in Batches, Flush(batches)
        PROVE  History(actor', hist'.ended)
    BY <2>f, <2>2, TickHistory DEF Flush, Endings, LastWords, HistoryType
  <2>3. ASSUME Touched(actor, actor'), hist' = hist PROVE History(actor', hist'.ended)
    BY <2>3, TouchedHistory
  <2>4. ASSUME actor' = actor, hist'.ended = hist.ended
        PROVE  History(actor', hist'.ended)
    BY <2>4
  <2>5. SimulateInput => Head(inputs).intent.id \in IntentIds \cup {0} /\ hist' = hist
    BY <2>f, InputAt DEF SimulateInput, Inputs, Intents
  <2>6. SimulateIdle => hist' = hist /\ 0 \in IntentIds \cup {0} BY DEF SimulateIdle
  <2>7. FinalizeOutcome => actor' = actor /\ hist'.ended = hist.ended
    BY <2>f DEF FinalizeOutcome, HistoryType
  <2>8. ASSUME NEW in, ReceiveInput(in)
        PROVE  actor' = actor /\ hist'.ended = hist.ended
    BY <2>f, <2>8 DEF ReceiveInput, HistoryType
  <2>9. UNCHANGED vars => actor' = actor /\ hist'.ended = hist.ended BY DEF vars
  <2>q. QED BY <2>s, <2>1, <2>2, <2>3, <2>4, <2>5, <2>6, <2>7, <2>8, <2>9 DEF SessionStep
<1>3. Told => RepeatRunsOnce BY DEF History, Once, RepeatRunsOnce
<1>h. HIDE DEF Told
<1>q. QED BY <1>1, <1>2, <1>3, PTL DEF Spec

-----------------------------------------------------------------------------
(* One instance at a time.                                                 *)

\* No end of instance i waits to be settled.
NotOwed(i) ==
  \A k \in (settled + 1)..Len(actor.out) :
    actor.out[k].id = i => ~Ends(actor.out[k])

\* The claim stands for one thing only: an intent in the queue, the action
\* under way, or an end that waits to be settled.
Alone ==
  /\ InProgress(actor) => session.claim = actor.id /\ NotOwed(session.claim)
  /\ \A k \in DOMAIN inputs :
       inputs[k].intent.id # 0 =>
         /\ inputs[k].intent.id = session.claim
         /\ ~InProgress(actor) /\ NotOwed(session.claim)
  /\ \A j, k \in DOMAIN inputs :
       inputs[j].intent.id # 0 /\ inputs[k].intent.id # 0 => j = k

\* While nothing is settled, NotOwed speaks of all outcomes.
LEMMA NotOwedIsOpen ==
  ASSUME NEW s, Sound(s), NEW c
  PROVE  Open(s.out, c) <=>
           \A k \in (0 + 1)..Len(s.out) : s.out[k].id = c => ~Ends(s.out[k])
  BY OutcomeAt DEF Open

\* An input that arrives leaves the claimed intent alone on its way.
LEMMA ReceiveAlone ==
  ASSUME RunInv, Alone, NEW in \in Inputs(IntentIds \cup {0}), ReceiveInput(in)
  PROVE  Alone'
<1> DEFINE p == prepare_server_action_intent(session, actor, in.intent, in.selected)
           add == [in EXCEPT !.intent = IF p.kept THEN in.intent ELSE NoIntent]
<1>1. in.intent \in Intents(Ids) BY InputsKnown
<1>2. /\ p.kept \in BOOLEAN
      /\ p.kept => \/ in.intent.id = 0 /\ p.session.claim = session.claim
                   \/ /\ in.intent.id # 0 /\ session.claim = 0
                      /\ p.session.claim = in.intent.id
      /\ ~p.kept => p.session.claim = session.claim
  BY <1>1, PrepareAnswers DEF RunInv, TypeInv
<1>3. (p.kept => add.intent = in.intent) /\ (~p.kept => add.intent.id = 0)
  BY DEF Inputs, NoIntent
<1>4. session' = p.session /\ inputs' = Append(inputs, add)
      /\ UNCHANGED <<actor, settled>> /\ stage = "poll"
  BY DEF ReceiveInput
<1>h. HIDE DEF p, add
<1>5. /\ DOMAIN inputs = 1..Len(inputs) /\ Len(inputs) \in Nat
      /\ DOMAIN inputs' = 1..(Len(inputs) + 1)
      /\ inputs'[Len(inputs) + 1] = add
      /\ \A k \in 1..Len(inputs) : inputs'[k] = inputs[k]
  BY <1>4 DEF RunInv, TypeInv
<1>6. \A k \in DOMAIN inputs' : k \in 1..Len(inputs) \/ k = Len(inputs) + 1
  BY <1>5
<1>7. Len(actor.out) = 0 BY <1>4 DEF RunInv
<1>8. \A i : NotOwed(i)'
  BY <1>4, <1>7 DEF RunInv, TypeInv, NotOwed
<1>9. CASE session'.claim = session.claim /\ add.intent.id = 0
  BY <1>4, <1>5, <1>6, <1>8, <1>9 DEF Alone
<1>10. CASE /\ session.claim = 0 /\ p.kept /\ in.intent.id # 0
            /\ session'.claim = in.intent.id
  BY <1>3, <1>4, <1>5, <1>6, <1>8, <1>10 DEF Alone, RunInv, Fit, Named
<1>q. QED BY <1>2, <1>3, <1>4, <1>9, <1>10

\* So does the simulation of a tick.
LEMMA SimulateAlone ==
  ASSUME SingleEffects, RunInv, RunInv', Alone, SimulateInput,
         PassStep(actor, actor', Head(inputs).intent.id)
  PROVE  Alone'
<1> DEFINE i == Head(inputs).intent.id
           c == session.claim
<1>1. /\ inputs # << >> /\ inputs' = Tail(inputs) /\ settled = 0 /\ settled' = 0
      /\ session' = session
  BY DEF SimulateInput, RunInv, TypeInv
<1>2. /\ Head(inputs) = inputs[1]
      /\ Len(inputs) \in Nat \ {0} /\ DOMAIN inputs = 1..Len(inputs)
      /\ DOMAIN inputs' = 1..(Len(inputs) - 1)
      /\ \A k \in 1..(Len(inputs) - 1) : inputs'[k] = inputs[k + 1]
  BY <1>1, InputAt DEF RunInv
<1>3. 1 \in DOMAIN inputs BY <1>2
<1>4. Sound(actor) /\ Sound(actor') /\ Fit(actor) BY DEF RunInv, Fit
<1>5. NotOwed(c) <=> Open(actor.out, c) BY <1>1, <1>4, NotOwedIsOpen DEF NotOwed
<1>6. NotOwed(c)' <=> Open(actor'.out, c)
  BY <1>1, <1>4, NotOwedIsOpen DEF NotOwed
<1>7. /\ InProgress(actor) => actor.id = c /\ i = 0 /\ Open(actor.out, c)
      /\ i # 0 => i = c /\ Open(actor.out, c)
  BY <1>2, <1>3, <1>5 DEF Alone
<1>h. HIDE DEF i, c
<1>8. /\ InProgress(actor') => actor'.id = c /\ Open(actor'.out, c)
      /\ ~InProgress(actor) /\ i = 0 => ~InProgress(actor') /\ actor'.out = actor.out
  BY <1>4, <1>7, PassClaims DEF i
<1>9. InProgress(actor') => session'.claim = actor'.id /\ NotOwed(session.claim)'
  BY <1>1, <1>6, <1>8 DEF c
<1>10. ASSUME NEW k \in DOMAIN inputs', inputs'[k].intent.id # 0
       PROVE  /\ inputs'[k].intent.id = session'.claim
              /\ ~InProgress(actor') /\ NotOwed(session.claim)'
  BY <1>1, <1>2, <1>3, <1>5, <1>6, <1>8, <1>10 DEF Alone, i, c
<1>11. ASSUME NEW j \in DOMAIN inputs', NEW k \in DOMAIN inputs',
              inputs'[j].intent.id # 0 /\ inputs'[k].intent.id # 0
       PROVE  j = k
  BY <1>2, <1>11 DEF Alone
<1>q. QED BY <1>9, <1>10, <1>11 DEF Alone

\* Every step keeps the claim for one thing only.
LEMMA NextAlone ==
  ASSUME SingleEffects, RunInv, RunInv', Alone, [Next]_vars
  PROVE  Alone'
<1>s. SessionStep BY NextSessionStep
<1>f. Sound(actor) /\ Sound(actor') /\ Fit(actor) /\ TypeInv BY DEF RunInv, Fit
<1>1. ASSUME SimulateIdle, PassStep(actor, actor', 0) PROVE Alone'
  <2> DEFINE c == session.claim
  <2>1. /\ inputs = << >> /\ inputs' = inputs /\ settled = 0 /\ settled' = 0
        /\ session' = session
    BY <1>1, <1>f DEF SimulateIdle, TypeInv
  <2>2. NotOwed(c) <=> Open(actor.out, c)
    BY <1>f, <2>1, NotOwedIsOpen DEF NotOwed
  <2>3. NotOwed(c)' <=> Open(actor'.out, c)
    BY <1>f, <2>1, NotOwedIsOpen DEF NotOwed
  <2>4. InProgress(actor) => actor.id = c /\ Open(actor.out, c)
    BY <2>2 DEF Alone
  <2>h. HIDE DEF c
  <2>5. InProgress(actor') => actor'.id = c /\ Open(actor'.out, c)
    BY <1>1, <1>f, <2>4, PassClaims
  <2>6. DOMAIN inputs' = {} BY <2>1
  <2>q. QED BY <2>1, <2>3, <2>5, <2>6 DEF Alone, c
<1>2. ASSUME FinalizeOutcome PROVE Alone'
  <2> DEFINE o == actor.out[settled + 1]
  <2>1. settled + 1 \in DOMAIN actor.out /\ settled \in Nat /\ Len(actor.out) \in Nat
    BY <1>f, <1>2, OutcomeAt DEF FinalizeOutcome, TypeInv
  <2>2. o \in Outcomes BY <2>1, <1>f, OutcomeAt
  <2>3. session' = Settle(session, o) /\ settled' = settled + 1
        /\ UNCHANGED <<actor, inputs>>
    BY <1>2 DEF FinalizeOutcome
  <2>4. NotOwed(session.claim) => session'.claim = session.claim
    <3>1. settled + 1 \in (settled + 1)..Len(actor.out)
      BY <1>2, <2>1 DEF FinalizeOutcome
    <3>2. NotOwed(session.claim) => ~(Ends(o) /\ session.claim = o.id)
      BY <3>1 DEF NotOwed
    <3>q. QED BY <3>2, <2>2, <2>3, <1>f, SettleKeeps DEF TypeInv
  <2>5. \A i : NotOwed(i) => NotOwed(i)'
    BY <2>1, <2>3 DEF NotOwed
  <2>6. NotOwed(session.claim) => NotOwed(session.claim)'
    BY <2>4, <2>5 DEF NotOwed
  <2>q. QED BY <2>3, <2>4, <2>6 DEF Alone
<1>3. ASSUME NEW batches \in Batches, Flush(batches) PROVE Alone'
  BY <1>3, <1>f, TickOverKeeps DEF Flush, TypeInv, SessionType, NotOwed, Alone, InProgress
<1>4. ASSUME Touched(actor, actor'),
             UNCHANGED <<session, inputs, stage, taken, settled, tick, hist>>
      PROVE  Alone'
  BY <1>4 DEF Touched, NotOwed, Alone, InProgress
<1>5. ASSUME UNCHANGED vars PROVE Alone'
  BY <1>5 DEF vars, Alone, NotOwed
<1>q. QED BY <1>s, <1>1, <1>2, <1>3, <1>4, <1>5, ReceiveAlone, SimulateAlone
      DEF SessionStep

\* What finalize has dealt with is answered, and 0 is no intent.
Answered ==
  /\ 0 \notin hist.seen
  /\ \A k \in 1..settled :
       actor.out[k].type \notin {"Admitted", "Completed"} =>
         actor.out[k].id \in hist.answered
  /\ NoIntentForgotten

\* An input that arrives is answered or stays pending.
LEMMA ReceiveAnswered ==
  ASSUME RunInv, Alone, Answered,
         NEW in \in Inputs(IntentIds \cup {0}), ReceiveInput(in)
  PROVE  Answered'
<1> DEFINE p == prepare_server_action_intent(session, actor, in.intent, in.selected)
           i == in.intent.id
           an == hist.answered \cup DOMAIN p.session.recent
           se == hist.seen \cup ({i} \ {0})
<1>t. TypeInv BY DEF RunInv
<1>1. in.intent \in Intents(Ids) BY InputsKnown
<1>2. /\ p.kept \in BOOLEAN
      /\ p.kept => \/ i = 0 /\ p.session.claim = session.claim
                   \/ i # 0 /\ session.claim = 0 /\ p.session.claim = i
      /\ ~p.kept => /\ p.session.claim = session.claim
                    /\ i \in DOMAIN p.session.recent \/ i = session.claim
  BY <1>1, <1>t, PrepareAnswers DEF TypeInv
<1>3. session' = p.session /\ hist' = [hist EXCEPT !.seen = se, !.answered = an]
      /\ UNCHANGED <<actor, settled>>
  BY <1>t DEF ReceiveInput, TypeInv, HistoryType
<1>4. hist'.seen = se /\ hist'.answered = an
  BY <1>3, <1>t DEF TypeInv, HistoryType
<1>h. HIDE DEF p
<1>5. \A j \in se : j \in an \cup {session'.claim}
  BY <1>2, <1>3 DEF Answered, NoIntentForgotten
<1>h2. HIDE DEF an
<1>6. hist.answered \subseteq an BY DEF an
<1>q. QED BY <1>3, <1>4, <1>5, <1>6 DEF Answered, NoIntentForgotten

\* Every step keeps each intent answered or on its way.
LEMMA NextAnswered ==
  ASSUME RunInv, RunInv', Alone, Answered, [Next]_vars
  PROVE  Answered'
<1>s. SessionStep BY NextSessionStep
<1>t. TypeInv /\ Sound(actor) BY DEF RunInv, TypeInv
<1>1. ASSUME SimulateInput \/ SimulateIdle PROVE Answered'
  BY <1>1, <1>t DEF SimulateInput, SimulateIdle, TypeInv, Answered, NoIntentForgotten
<1>2. ASSUME FinalizeOutcome PROVE Answered'
  <2> DEFINE o == actor.out[settled + 1]
             an == hist.answered \cup DOMAIN Settle(session, o).recent
  <2>1. settled + 1 \in DOMAIN actor.out /\ settled \in Nat /\ Len(actor.out) \in Nat
        /\ DOMAIN actor.out = 1..Len(actor.out)
    BY <1>t, <1>2, OutcomeAt DEF FinalizeOutcome, TypeInv
  <2>2. o \in Outcomes BY <2>1, <1>t, OutcomeAt
  <2>3. /\ session' = Settle(session, o) /\ settled' = settled + 1
        /\ actor' = actor /\ hist'.seen = hist.seen /\ hist'.answered = an
    BY <1>2, <1>t DEF FinalizeOutcome, TypeInv, HistoryType
  <2>4. o.type \notin {"Admitted", "Completed"} => o.id \in an
    BY <2>2, <1>t, SettleKnows DEF TypeInv
  <2>5. o.type = "Completed" => o.id \in hist.answered
    BY <2>1 DEF RunInv, Paired, Answered
  <2>6. IF Ends(o) /\ session.claim = o.id THEN session'.claim = 0
        ELSE session'.claim = session.claim
    BY <2>2, <2>3, <1>t, SettleKeeps DEF TypeInv
  <2>7. Ends(o) => o.id \in an
    BY <2>4, <2>5 DEF Ends
  <2>8. hist.answered \subseteq an OBVIOUS
  <2>h. HIDE DEF an
  <2>9. NoIntentForgotten'
    BY <2>3, <2>6, <2>7, <2>8 DEF NoIntentForgotten, Answered
  <2>10. ASSUME NEW k \in 1..settled', actor.out[k].type \notin {"Admitted", "Completed"}
         PROVE  actor.out[k].id \in an
    BY <2>1, <2>3, <2>4, <2>8, <2>10 DEF Answered
  <2>q. QED BY <2>3, <2>9, <2>10 DEF Answered
<1>3. ASSUME NEW batches \in Batches, Flush(batches) PROVE Answered'
  BY <1>3, <1>t DEF Flush, TypeInv, SessionType, HistoryType, Answered, NoIntentForgotten
<1>4. ASSUME Touched(actor, actor'),
             UNCHANGED <<session, inputs, stage, taken, settled, tick, hist>>
      PROVE  Answered'
  BY <1>4 DEF Touched, Answered, NoIntentForgotten
<1>5. ASSUME UNCHANGED vars PROVE Answered'
  BY <1>5 DEF vars, Answered, NoIntentForgotten
<1>q. QED BY <1>s, <1>1, <1>2, <1>3, <1>4, <1>5, ReceiveAnswered DEF SessionStep

\* The action under way is the one the session claims, and every intent the
\* server took in has been answered or holds the claim, for every client and
\* every catalog whose reloads and targeted strikes commit once (a refused
\* commit in mid-action would release the claim of an action that goes on).
THEOREM IntentsAreAnswered ==
  ASSUME SingleEffects
  PROVE  Spec => []IntentsAnswered
<1> DEFINE All == RunInv /\ Alone /\ Answered
<1>1. Init => All
  BY InitRun, InitActorFit DEF Init, Alone, InitHistory, Answered, NoIntentForgotten
<1>2. All /\ [Next]_vars => All' BY NextRun, NextAlone, NextAnswered
<1>3. All => IntentsAnswered
  BY DEF Alone, Answered, IntentsAnswered, ActionIsClaimed
<1>h. HIDE DEF All
<1>q. QED BY <1>1, <1>2, <1>3, PTL DEF Spec

-----------------------------------------------------------------------------
(* The refinement.  The instance brings its own copy of every operator of  *)
(* ActionRuntime; the copies are the operators themselves.                 *)

\* The passes and the disturbances the abstract actor takes are the ones the
\* session runs.
LEMMA SamePasses ==
  /\ \A s, in, found : Actor!WeaponPass(s, in, found) = WeaponPass(s, in, found)
  /\ \A s, found : Actor!IdlePass(s, found) = IdlePass(s, found)
  /\ \A s : Actor!TickOver(s) = TickOver(s)
  /\ \A s : Actor!Staggered(s) = Staggered(s)
  /\ \A s, reason : Actor!Unblocked(s, reason) = Unblocked(s, reason)
  /\ \A s : Actor!HandsTaken(s) = HandsTaken(s)
  /\ \A s : Actor!Killed(s) = Killed(s)
  /\ \A s : Actor!Revived(s) = Revived(s)
  /\ \A w : Actor!InitActor(w) = InitActor(w)
  /\ \A ids : Actor!Inputs(ids) = Inputs(ids)
<1>1. Actor!Bindings = Bindings
  BY DEF Bindings, Actor!Bindings
<1>2. Actor!Malformed = Malformed
  BY DEF Malformed, Actor!Malformed
<1>3. Actor!Arms = Arms
  BY DEF Arms, Actor!Arms
<1>4. Actor!OutcomeBindings = OutcomeBindings
  BY <1>1, <1>2 DEF OutcomeBindings, Actor!OutcomeBindings
<1>5. \A ids : Actor!Intents(ids) = Intents(ids)
  BY <1>4 DEF Intents, Actor!Intents
<1>6. \A ids : Actor!Inputs(ids) = Inputs(ids)
  BY <1>5, <1>3 DEF Inputs, Actor!Inputs
<1>7. \A a, b : Actor!MinOf(a, b) = MinOf(a, b)
  BY DEF MinOf, Actor!MinOf
<1>8. \A n : Actor!Down(n) = Down(n)
  BY DEF Down, Actor!Down
<1>9. \A s : Actor!InProgress(s) = InProgress(s)
  BY DEF InProgress, Actor!InProgress
<1>10. \A weapon, binding :
        Actor!TemplateFor(weapon, binding) =
        TemplateFor(weapon, binding)
  BY DEF TemplateFor, Actor!TemplateFor
<1>11. \A id, binding, count, type, reason :
        Actor!Outcome(id, binding, count, type, reason) =
        Outcome(id, binding, count, type, reason)
  BY <1>7 DEF Outcome, Actor!Outcome
<1>12. \A s, outcome : Actor!push(s, outcome) = push(s, outcome)
  BY DEF push, Actor!push
<1>13. \A s, type, reason :
        Actor!push_outcome(s, type, reason) =
        push_outcome(s, type, reason)
  BY <1>12, <1>11 DEF push_outcome, Actor!push_outcome
<1>14. \A s, intent, reason :
        Actor!push_rejection(s, intent, reason) =
        push_rejection(s, intent, reason)
  BY <1>12, <1>11 DEF push_rejection, Actor!push_rejection
<1>15. \A s : Actor!reset_action(s) = reset_action(s)
  BY DEF reset_action, Actor!reset_action
<1>16. \A s : Actor!release_action_resources(s) = release_action_resources(s)
  BY DEF release_action_resources, Actor!release_action_resources
<1>17. \A s, t : Actor!enter_recovery(s, t) = enter_recovery(s, t)
  BY <1>16, <1>15 DEF enter_recovery, Actor!enter_recovery
<1>18. \A s : Actor!settle_recovery(s) = settle_recovery(s)
  BY <1>15 DEF settle_recovery, Actor!settle_recovery
<1>19. \A s, reason : Actor!EndOutright(s, reason) = EndOutright(s, reason)
  BY <1>15, <1>16, <1>13 DEF EndOutright, Actor!EndOutright
<1>20. \A s : Actor!interrupt_staggered_actions(s) = interrupt_staggered_actions(s)
  BY <1>9, <1>19 DEF interrupt_staggered_actions, Actor!interrupt_staggered_actions
<1>21. \A s :
        Actor!interrupt_status_blocked_actions(s) =
        interrupt_status_blocked_actions(s)
  BY <1>9, <1>19
  DEF interrupt_status_blocked_actions, Actor!interrupt_status_blocked_actions
<1>22. \A s : Actor!interrupt_sheltered_actions(s) = interrupt_sheltered_actions(s)
  BY <1>9, <1>19 DEF interrupt_sheltered_actions, Actor!interrupt_sheltered_actions
<1>23. \A s : Actor!interrupt_actions_for_items(s) = interrupt_actions_for_items(s)
  BY <1>9, <1>17, <1>13, <1>10, <1>19
  DEF interrupt_actions_for_items, Actor!interrupt_actions_for_items
<1>24. \A s : Actor!Interrupts(s) = Interrupts(s)
  BY <1>23, <1>22, <1>21, <1>20 DEF Interrupts, Actor!Interrupts
<1>25. \A s, w : Actor!hold_selected_weapon(s, w) = hold_selected_weapon(s, w)
  BY <1>9 DEF hold_selected_weapon, Actor!hold_selected_weapon
<1>26. \A s, in : Actor!take_continuous_input(s, in) = take_continuous_input(s, in)
  BY DEF take_continuous_input, Actor!take_continuous_input
<1>27. \A s : Actor!action_block_reason(s) = action_block_reason(s)
  BY DEF action_block_reason, Actor!action_block_reason
<1>28. \A s, w :
        Actor!projected_primary_commit_is_blocked(s, w) =
        projected_primary_commit_is_blocked(s, w)
  BY DEF projected_primary_commit_is_blocked, Actor!projected_primary_commit_is_blocked
<1>29. \A s, intent, weapon :
        Actor!AdmissionRefusal(s, intent, weapon) =
        AdmissionRefusal(s, intent, weapon)
  BY <1>2, <1>27, <1>28 DEF AdmissionRefusal, Actor!AdmissionRefusal
<1>30. \A id : Actor!NextGenerated(id) = NextGenerated(id)
  BY DEF NextGenerated, Actor!NextGenerated
<1>31. \A s, intent, weapon : Actor!Start(s, intent, weapon) = Start(s, intent, weapon)
  BY <1>10, <1>30, <1>13, ZenonT(30) DEF Start, Actor!Start
<1>32. \A s, in : Actor!admit_action(s, in) = admit_action(s, in)
  BY <1>18, <1>29, <1>31, <1>14 DEF admit_action, Actor!admit_action
<1>33. \A s, in : Actor!ReadInput(s, in) = ReadInput(s, in)
  BY <1>25, <1>26, <1>32 DEF ReadInput, Actor!ReadInput
<1>34. \A s : Actor!Released(s) = Released(s)
  BY DEF Released, Actor!Released
<1>35. \A s, t : Actor!TimedOut(s, t) = TimedOut(s, t)
  BY DEF TimedOut, Actor!TimedOut
<1>36. \A s, t : Actor!ChargeStop(s, t) = ChargeStop(s, t)
  BY <1>35, <1>34 DEF ChargeStop, Actor!ChargeStop
<1>37. \A s, t : Actor!CancelReason(s, t) = CancelReason(s, t)
  BY <1>34, <1>35 DEF CancelReason, Actor!CancelReason
<1>38. \A s, t : Actor!CanSpend(s, t) = CanSpend(s, t)
  BY DEF CanSpend, Actor!CanSpend
<1>39. \A s, t : Actor!EmitCommit(s, t) = EmitCommit(s, t)
  BY <1>7, <1>17, ZenonT(30) DEF EmitCommit, Actor!EmitCommit
<1>40. \A s : Actor!Still(s) = Still(s)
  BY DEF Still, Actor!Still
<1>41. ASSUME NEW s, NEW t PROVE Actor!ContinueAction(s, t) = ContinueAction(s, t)
  <2> DEFINE reason == CancelReason(s, t)
             a == [s EXCEPT !.cancelAfter = s.cancelAfter \/ reason # "None"]
             cancels == reason # "None" /\ (s.commits > 0 \/ t.cancelBeforeFirstCommit)
  <2>1. ContinueAction(s, t) =
          IF cancels
          THEN Still(enter_recovery(push_outcome(s, "Corrected", reason), t))
          ELSE IF a.wait > 0 THEN Still([a EXCEPT !.phase = "Windup"])
          ELSE IF ~CanSpend(a, t)
          THEN Still(enter_recovery(push_outcome(a, "Corrected", "EffectFailed"), t))
          ELSE EmitCommit(a, t)
    BY DEF ContinueAction
  <2>2. Actor!CancelReason(s, t) = reason BY <1>37
  <2>3. Actor!ContinueAction(s, t) =
          IF cancels
          THEN Actor!Still(Actor!enter_recovery(
                             Actor!push_outcome(s, "Corrected", reason), t))
          ELSE IF a.wait > 0 THEN Actor!Still([a EXCEPT !.phase = "Windup"])
          ELSE IF ~Actor!CanSpend(a, t)
          THEN Actor!Still(Actor!enter_recovery(
                             Actor!push_outcome(a, "Corrected", "EffectFailed"), t))
          ELSE Actor!EmitCommit(a, t)
    BY <2>2, Zenon DEF Actor!ContinueAction
  <2>h. HIDE DEF reason, a, cancels
  <2>4. Actor!CanSpend(a, t) <=> CanSpend(a, t) BY DEF CanSpend, Actor!CanSpend
  <2>q. QED BY <2>1, <2>3, <2>4, <1>40, <1>17, <1>13, <1>39
<1>42. ASSUME NEW s PROVE Actor!advance_action(s) = advance_action(s)
  <2> DEFINE a == [settle_recovery(s) EXCEPT !.advanced = TRUE]
             t == TemplateFor(a.source, a.binding)
             charging == t.mode = "Charge" /\ a.commits = 0
  <2>1. advance_action(s) =
          IF s.advanced THEN Still(s)
          ELSE IF ~InProgress(a) THEN Still(a)
          ELSE IF charging /\ ChargeStop(a, t) # "None"
          THEN Still(EndOutright(a, ChargeStop(a, t)))
          ELSE IF charging /\ ~Released(a)
          THEN Still([a EXCEPT !.phase = "Windup"])
          ELSE ContinueAction(a, t)
    BY DEF advance_action
  <2> DEFINE u == Actor!TemplateFor(a.source, a.binding)
             loading == u.mode = "Charge" /\ a.commits = 0
  <2>2. Actor!settle_recovery(s) = settle_recovery(s) BY <1>18
  <2>3. Actor!advance_action(s) =
          IF s.advanced THEN Actor!Still(s)
          ELSE IF ~Actor!InProgress(a) THEN Actor!Still(a)
          ELSE IF loading /\ Actor!ChargeStop(a, u) # "None"
          THEN Actor!Still(Actor!EndOutright(a, Actor!ChargeStop(a, u)))
          ELSE IF loading /\ ~Actor!Released(a)
          THEN Actor!Still([a EXCEPT !.phase = "Windup"])
          ELSE Actor!ContinueAction(a, u)
    BY <2>2 DEF Actor!advance_action
  <2>5. u = t /\ (loading <=> charging) BY <1>10
  <2>h. HIDE DEF a, t, u, charging, loading
  <2>4. /\ Actor!InProgress(a) <=> InProgress(a)
        /\ Actor!Released(a) <=> Released(a)
    BY DEF InProgress, Actor!InProgress, Released, Actor!Released
  <2>q. QED BY <2>1, <2>3, <2>4, <2>5, <1>40, <1>36, <1>19, <1>41
<1>43. \A s, c, reason : Actor!Refuse(s, c, reason) = Refuse(s, c, reason)
  BY <1>12, <1>11 DEF Refuse, Actor!Refuse
<1>44. \A s, c : Actor!Confirm(s, c) = Confirm(s, c)
  BY <1>12, <1>11 DEF Confirm, Actor!Confirm
<1>45. \A s, c : Actor!CommitReload(s, c) = CommitReload(s, c)
  BY <1>43, <1>44 DEF CommitReload, Actor!CommitReload
<1>46. \A s, c, found : Actor!CommitFire(s, c, found) = CommitFire(s, c, found)
  BY <1>43, <1>44 DEF CommitFire, Actor!CommitFire
<1>47. \A s, c, found : Actor!ApplyCommit(s, c, found) = ApplyCommit(s, c, found)
  BY <1>43, <1>45, <1>46 DEF ApplyCommit, Actor!ApplyCommit
<1>48. \A s, found : Actor!AdvanceAndCommit(s, found) = AdvanceAndCommit(s, found)
  BY <1>42, <1>47 DEF AdvanceAndCommit, Actor!AdvanceAndCommit
<1>49. \A s, in, found : Actor!WeaponPass(s, in, found) = WeaponPass(s, in, found)
  BY <1>48, <1>33, <1>24 DEF WeaponPass, Actor!WeaponPass
<1>50. \A s, found : Actor!IdlePass(s, found) = IdlePass(s, found)
  BY <1>48, <1>24 DEF IdlePass, Actor!IdlePass
<1>51. \A s : Actor!TickOver(s) = TickOver(s)
  BY <1>8, <1>7 DEF TickOver, Actor!TickOver
<1>52. \A s : Actor!Staggered(s) = Staggered(s)
  BY DEF Staggered, Actor!Staggered
<1>53. \A s, reason : Actor!Unblocked(s, reason) = Unblocked(s, reason)
  BY DEF Unblocked, Actor!Unblocked
<1>54. \A s : Actor!HandsTaken(s) = HandsTaken(s)
  BY DEF HandsTaken, Actor!HandsTaken
<1>55. \A s : Actor!Killed(s) = Killed(s)
  BY DEF Killed, Actor!Killed
<1>56. \A s : Actor!Revived(s) = Revived(s)
  BY DEF Revived, Actor!Revived
<1>57. \A w : Actor!InitActor(w) = InitActor(w)
  BY DEF InitActor, Actor!InitActor
<1>q. QED BY <1>49, <1>50, <1>51, <1>52, <1>53, <1>54, <1>55, <1>56, <1>57, <1>6

\* The initial states map to initial states of the actor.
LEMMA InitRefines == Init => Actor!Init
  BY SamePasses DEF Init, InitHistory, Actor!Init

\* Every step of the server is a step of the actor or leaves it alone: what the
\* session adds, the filter before the passes and the results after them,
\* stutters.
LEMMA NextRefines == TypeInv /\ [Next]_vars => [Actor!Next]_(Actor!vars)
<1> SUFFICES ASSUME TypeInv, [Next]_vars PROVE [Actor!Next]_(Actor!vars)
  OBVIOUS
<1> DEFINE at == CASE stage = "poll" -> "between"
                   [] stage = "simulate" -> "inputs"
                   [] OTHER -> "done"
<1>s. /\ stage \in {"poll", "simulate", "finalize"}
      /\ hist \in HistoryType
  BY DEF TypeInv
<1>1. ASSUME NEW in \in Inputs(IntentIds \cup {0}), ReceiveInput(in)
      PROVE  UNCHANGED Actor!vars
  BY <1>1, <1>s DEF ReceiveInput, Actor!vars, HistoryType
<1>2. CASE SimulateInput
  <2>1. PICK found \in BOOLEAN : actor' = WeaponPass(actor, Head(inputs), found)
    BY <1>2 DEF SimulateInput
  <2>2. Head(inputs) \in Actor!Inputs(IntentIds \cup {0})
    BY <1>2, SamePasses DEF SimulateInput, TypeInv
  <2>3. actor' = Actor!WeaponPass(actor, Head(inputs), found) BY <2>1, SamePasses
  <2>4. taken < MaxInputsPerTick
    BY <1>2, SessionAssumption DEF SimulateInput, TypeInv
  <2>5. /\ at \in {"between", "inputs"} /\ at' = "inputs" /\ taken' = taken + 1
        /\ hist' = hist
    BY <1>2 DEF SimulateInput
  <2>6. Actor!SimulateInput(Head(inputs))
    BY <2>3, <2>4, <2>5 DEF Actor!SimulateInput
  <2>q. QED BY <2>2, <2>6 DEF Actor!Next
<1>3. CASE SimulateIdle
  BY <1>3, SamePasses DEF SimulateIdle, Actor!SimulateIdle, Actor!Next
<1>4. CASE FinalizeOutcome
  BY <1>4, <1>s DEF FinalizeOutcome, Actor!vars, HistoryType
<1>5. ASSUME NEW batches \in Batches, Flush(batches) PROVE Actor!Next
  BY <1>5, <1>s, SamePasses DEF Flush, HistoryType, Endings, Actor!Endings, Actor!NextTick,
    Actor!Next
<1>6. CASE Stagger
  BY <1>6, SamePasses DEF Stagger, World, Actor!Disturb, Actor!Next
<1>7. CASE Steady
  BY <1>7, SamePasses DEF Steady, World, Actor!Recover, Actor!Next
<1>8. CASE TakeHands
  BY <1>8, SamePasses DEF TakeHands, World, Actor!TakeHands, Actor!Next
<1>9. CASE Die
  BY <1>9, SamePasses DEF Die, World, Actor!Die, Actor!Next
<1>10. CASE Revive
  BY <1>10, SamePasses DEF Revive, World, Actor!Revive, Actor!Next
<1>11. CASE UNCHANGED vars BY <1>11 DEF vars, Actor!vars
<1>q. QED
  BY <1>1, <1>2, <1>3, <1>4, <1>5, <1>6, <1>7, <1>8, <1>9, <1>10, <1>11
  DEF Next, Server

\* The server's session implements the abstract actor: whatever the filter lets
\* through and however the results are settled, the actor sees a run that
\* WeaponActions allows, so what is proved of the actor holds in the server.
THEOREM ImplementsActor == Spec => RefinesActor
<1>1. Spec => []TypeInv BY InitTypes, NextTypes, PTL DEF Spec
<1>q. QED BY <1>1, InitRefines, NextRefines, PTL DEF Spec, RefinesActor

-----------------------------------------------------------------------------
(* CountsEffects. The actor counts its commits itself, and the history     *)
(* counts those whose outcome the session has read; between the two lie    *)
(* the outcomes of this tick that the session has not read yet.            *)

\* The commits of instance i among the outcomes from + 1 to "to": there is one
\* at most.
Debt(u, from, to, i) ==
  IF \E j \in (from + 1)..to : u[j].id = i /\ u[j].type = "Committed"
  THEN 1 ELSE 0

\* Of the outcomes after "from", each counts the commits that took effect up to
\* it, given those of earlier ticks; and there is one commit at most.
Tallied(u, base, from) ==
  /\ \A k \in (from + 1)..Len(u) :
       u[k].type \in {"Committed", "Corrected"} =>
         u[k].count = MinOf(CountCap, base[u[k].id] + Debt(u, from, k, u[k].id))
  /\ \A j, k \in 1..Len(u) :
       u[j].type = "Committed" /\ u[k].type = "Committed" => j = k

\* The actor's own count is that of its instance: "base" holds the effects of
\* the ticks already told, "from" says how many of this tick's outcomes those
\* include. Ids not yet given have no effects, and a reload in progress still
\* has something to load, so that no commit due to it is refused.
Counted(s, base, from) ==
  /\ Tallied(s.out, base, from)
  /\ \A k \in 1..Len(s.out) : s.out[k].type = "Committed" => s.advanced
  /\ InProgress(s) =>
       /\ s.commits = MinOf(CountCap,
                        base[s.id] + Debt(s.out, from, Len(s.out), s.id))
       /\ s.id < s.nextId
  /\ \A i \in Ids :
       i >= s.nextId => base[i] = 0 /\ Debt(s.out, from, Len(s.out), i) = 0
  /\ s.equipped = Weapons
  /\ InProgress(s) /\ s.binding = "Reload" =>
       s.ammo[s.source] < MagazineSize[s.source] /\ s.reserve[s.source] > 0

\* An action without an instance recovers at once.
LEMMA NoRecovery == [recovery |-> 0].recovery \in Ticks
  BY RuntimeAssumption DEF Ticks

\* A debt is one commit or none.
LEMMA DebtType ==
  ASSUME NEW u, NEW f, NEW n, NEW i
  PROVE  Debt(u, f, n, i) \in {0, 1} /\ Debt(u, f, n, i) \in Nat
  BY DEF Debt

\* A new outcome changes no earlier debt, and owes one if it is a commit.
LEMMA AppendDebt ==
  ASSUME NEW u \in Seq(Outcomes), NEW f \in 0..Len(u), NEW o \in Outcomes, NEW i
  PROVE  LET v == Append(u, o)
         IN /\ \A k \in 0..Len(u) : Debt(v, f, k, i) = Debt(u, f, k, i)
            /\ Debt(v, f, Len(v), i) =
                 IF o.id = i /\ o.type = "Committed" THEN 1
                 ELSE Debt(u, f, Len(u), i)
<1> DEFINE v == Append(u, o)
<1>1. /\ Len(v) = Len(u) + 1 /\ Len(u) \in Nat
      /\ \A k \in 1..Len(u) : v[k] = u[k]
      /\ v[Len(u) + 1] = o
  BY AppendParts
<1>h. HIDE DEF v
<1>2. ASSUME NEW k \in 0..Len(u) PROVE Debt(v, f, k, i) = Debt(u, f, k, i)
  BY <1>1 DEF Debt
<1>3. Debt(v, f, Len(v), i) =
        IF o.id = i /\ o.type = "Committed" THEN 1 ELSE Debt(u, f, Len(u), i)
  BY <1>1 DEF Debt
<1>q. QED BY <1>2, <1>3 DEF v

\* A tally grows by an outcome that counts right.
LEMMA AppendTallied ==
  ASSUME NEW u \in Seq(Outcomes), NEW f \in 0..Len(u), NEW o \in Outcomes,
         NEW base \in [Ids -> Nat], Tallied(u, base, f),
         \/ o.type \notin {"Committed", "Corrected"}
         \/ /\ o.type = "Corrected"
            /\ o.count = MinOf(CountCap, base[o.id] + Debt(u, f, Len(u), o.id))
         \/ /\ o.type = "Committed" /\ o.count = MinOf(CountCap, base[o.id] + 1)
            /\ \A k \in 1..Len(u) : u[k].type # "Committed"
  PROVE  Tallied(Append(u, o), base, f)
<1> DEFINE v == Append(u, o)
<1>1. /\ Len(v) = Len(u) + 1 /\ Len(u) \in Nat
      /\ \A k \in 1..Len(u) : v[k] = u[k]
      /\ v[Len(u) + 1] = o
  BY AppendParts
<1>2. \A i : /\ \A k \in 0..Len(u) : Debt(v, f, k, i) = Debt(u, f, k, i)
             /\ Debt(v, f, Len(v), i) =
                  IF o.id = i /\ o.type = "Committed" THEN 1
                  ELSE Debt(u, f, Len(u), i)
  BY AppendDebt
<1>h. HIDE DEF v
<1>3. ASSUME NEW k \in (f + 1)..Len(v), v[k].type \in {"Committed", "Corrected"}
      PROVE  v[k].count = MinOf(CountCap, base[v[k].id] + Debt(v, f, k, v[k].id))
  BY <1>1, <1>2, <1>3 DEF Tallied
<1>4. ASSUME NEW j \in 1..Len(v), NEW k \in 1..Len(v),
             v[j].type = "Committed", v[k].type = "Committed"
      PROVE  j = k
  BY <1>1, <1>4 DEF Tallied
<1>q. QED BY <1>3, <1>4 DEF Tallied, v

\* Nothing that counts has changed, but for the outcomes.
Steadfast(s, r) ==
  /\ r.nextId = s.nextId /\ r.equipped = s.equipped
  /\ s.advanced => r.advanced
  /\ InProgress(r) =>
       /\ InProgress(s) /\ r.id = s.id /\ r.commits = s.commits
       /\ r.binding = s.binding /\ r.source = s.source
       /\ r.ammo = s.ammo /\ r.reserve = s.reserve

\* Only outcomes are counted: with none told, what was counted still is.
LEMMA QuietCounted ==
  ASSUME NEW s, NEW base, NEW f, Counted(s, base, f), NEW r, Steadfast(s, r),
         r.out = s.out
  PROVE  Counted(r, base, f)
  BY DEF Counted, Steadfast

\* One more outcome that is no commit.
LEMMA ToldCounted ==
  ASSUME NEW base \in [Ids -> Nat], NEW s, Sound(s), Counted(s, base, 0),
         NEW r, Steadfast(s, r), NEW o \in Outcomes, r.out = Append(s.out, o),
         \/ o.type \notin {"Committed", "Corrected"}
         \/ o.type = "Corrected" /\ InProgress(s) /\ o.id = s.id /\ o.count = s.commits
  PROVE  Counted(r, base, 0)
<1> DEFINE u == s.out
           v == Append(u, o)
<1>1. u \in Seq(Outcomes) /\ Len(u) \in Nat /\ 0 \in 0..Len(u) BY OutcomeAt
<1>2. Tallied(u, base, 0) BY DEF Counted
<1>3. Tallied(v, base, 0) BY <1>1, <1>2, AppendTallied DEF Counted
<1>4. /\ Len(v) = Len(u) + 1 /\ \A k \in 1..Len(u) : v[k] = u[k]
      /\ v[Len(u) + 1] = o
  BY <1>1, AppendParts
<1>5. \A i : Debt(v, 0, Len(v), i) = Debt(u, 0, Len(u), i)
  BY <1>1, AppendDebt
<1>h. HIDE DEF u, v
<1>6. ASSUME NEW k \in 1..Len(v), v[k].type = "Committed" PROVE s.advanced
  BY <1>1, <1>4, <1>6 DEF Counted, u
<1>q. QED BY <1>3, <1>5, <1>6 DEF Counted, Steadfast, u, v

-----------------------------------------------------------------------------
(* Ends and interrupts.                                                    *)

\* Ending an action counts for nothing.
LEMMA OverSteady ==
  ASSUME NEW s \in ActorType, NEW t
  PROVE  /\ reset_action(s).equipped = s.equipped
         /\ reset_action(s).advanced = s.advanced
         /\ enter_recovery(s, t).equipped = s.equipped
         /\ enter_recovery(s, t).advanced = s.advanced
  BY DEF enter_recovery, release_action_resources, reset_action, ActorType

\* An action cut short reports the commits it made.
LEMMA CutCounted ==
  ASSUME NEW base \in [Ids -> Nat], NEW s, Sound(s), Counted(s, base, 0),
         InProgress(s), NEW reason \in Reasons, NEW t, t.recovery \in Ticks
  PROVE  /\ Counted(EndOutright(s, reason), base, 0)
         /\ Counted(enter_recovery(push_outcome(s, "Corrected", reason), t), base, 0)
<1> DEFINE o == Outcome(s.id, s.binding, s.commits, "Corrected", reason)
           p == push_outcome(s, "Corrected", reason)
           q == release_action_resources(p)
<1>1. Sound(s) /\ s \in ActorType BY DEF Sound
<1>2. Tells(o, s.id, "Corrected") /\ p = push(s, o) BY <1>1, OutcomeTells
<1>3. s.commits \in Counts /\ CountCap \in Nat BY <1>1, RuntimeAssumption DEF ActorType
<1>4. o.count = s.commits BY <1>3 DEF Outcome, MinOf, Counts
<1>5. Sound(p) /\ p \in ActorType BY <1>1, OutcomeKinds, PushOutcome DEF Sound
<1>6. EndOutright(s, reason) = reset_action(q) BY DEF EndOutright
<1>h. HIDE DEF o
<1>7. /\ p.nextId = s.nextId /\ p.equipped = s.equipped /\ p.advanced = s.advanced
      /\ p.out = Append(s.out, o)
  BY <1>1, <1>2 DEF push, ActorType
<1>h2. HIDE DEF p
<1>8. /\ q.nextId = p.nextId /\ q.equipped = p.equipped /\ q.advanced = p.advanced
      /\ q.out = p.out /\ q.effect = 0
  BY <1>5 DEF release_action_resources, ActorType
<1>9. q \in ActorType BY <1>5, ReleaseSound DEF Sound
<1>h3. HIDE DEF q
<1>10. ASSUME NEW r, ~InProgress(r), r.nextId = p.nextId, r.equipped = p.equipped,
              r.advanced = p.advanced, r.out = p.out
       PROVE  Counted(r, base, 0)
  BY <1>1, <1>2, <1>4, <1>7, <1>10, ToldCounted DEF Steadfast, Tells
<1>11. Over(q, reset_action(q)) BY <1>8, <1>9, ResetOver
<1>12. Over(p, enter_recovery(p, t)) BY <1>5, RecoveryOver
<1>13. Counted(reset_action(q), base, 0)
  BY <1>8, <1>9, <1>10, <1>11, OverSteady DEF Over
<1>14. Counted(enter_recovery(p, t), base, 0)
  BY <1>5, <1>10, <1>12, OverSteady DEF Over
<1>q. QED BY <1>6, <1>13, <1>14 DEF p

\* So does each of the interrupts a tick may find.
LEMMA InterruptsCounted ==
  ASSUME NEW base \in [Ids -> Nat], NEW s, Fit(s), Counted(s, base, 0)
  PROVE  Counted(Interrupts(s), base, 0)
<1> DEFINE Good(r) == Fit(r) /\ Counted(r, base, 0)
           a1 == interrupt_staggered_actions(s)
           a2 == interrupt_status_blocked_actions(a1)
           a3 == interrupt_sheltered_actions(a2)
           a4 == interrupt_actions_for_items(a3)
<1>1. Good(a1)
  <2> DEFINE seen == [s EXCEPT !.stagger = FALSE]
  <2>1. s \in ActorType /\ Sound(s) BY DEF Fit, Sound
  <2>2. seen \in ActorType BY <2>1 DEF ActorType
  <2>3. /\ seen.out = s.out /\ seen.phase = s.phase /\ seen.id = s.id
        /\ seen.source = s.source /\ seen.binding = s.binding
        /\ seen.ammo = s.ammo /\ seen.reloading = s.reloading
        /\ seen.wait = s.wait /\ seen.cancelAfter = s.cancelAfter
        /\ seen.cooldown = s.cooldown /\ seen.effect = s.effect
        /\ seen.nextId = s.nextId /\ seen.reserve = s.reserve
        /\ seen.equipped = s.equipped /\ seen.advanced = s.advanced
        /\ seen.commits = s.commits
    BY <2>1 DEF ActorType
  <2>4. a1 = IF s.stagger /\ InProgress(s) THEN EndOutright(seen, "Staggered") ELSE seen
    BY DEF interrupt_staggered_actions
  <2>h. HIDE DEF seen
  <2>5. Sound(seen) BY <2>1, <2>2, <2>3, SameAction DEF Keeps
  <2>6. Fit(seen) BY <2>3, <2>5, SameFit
  <2>7. Steadfast(s, seen) /\ (InProgress(seen) <=> InProgress(s))
    BY <2>3 DEF Steadfast, InProgress
  <2>8. Counted(seen, base, 0) BY <2>3, <2>7, QuietCounted
  <2>9. Fit(a1) BY StaggerStep DEF QuietOrCut
  <2>10. InProgress(s) => Counted(EndOutright(seen, "Staggered"), base, 0)
    BY <2>5, <2>7, <2>8, CutCounted, ReasonFacts, NoRecovery
  <2>q. QED BY <2>4, <2>8, <2>9, <2>10
<1>2. ASSUME NEW r, Good(r) PROVE Good(interrupt_status_blocked_actions(r))
  BY <1>2, StatusStep, CutCounted, ReasonFacts, NoRecovery DEF QuietOrCut, Fit,
    interrupt_status_blocked_actions
<1>3. ASSUME NEW r, Good(r) PROVE Good(interrupt_sheltered_actions(r))
  BY <1>3, ShelterStep, CutCounted, ReasonFacts, NoRecovery DEF QuietOrCut, Fit,
    interrupt_sheltered_actions
<1>4. ASSUME NEW r, Good(r) PROVE Counted(interrupt_actions_for_items(r), base, 0)
  <2> DEFINE seen == [r EXCEPT !.hands = FALSE]
             t == TemplateFor(r.source, r.binding)
  <2>1. r \in ActorType /\ Sound(r) BY <1>4 DEF Fit, Sound
  <2>2. seen \in ActorType BY <2>1 DEF ActorType
  <2>3. /\ seen.out = r.out /\ seen.phase = r.phase /\ seen.id = r.id
        /\ seen.source = r.source /\ seen.binding = r.binding
        /\ seen.ammo = r.ammo /\ seen.reloading = r.reloading
        /\ seen.wait = r.wait /\ seen.cancelAfter = r.cancelAfter
        /\ seen.cooldown = r.cooldown /\ seen.effect = r.effect
        /\ seen.nextId = r.nextId /\ seen.reserve = r.reserve
        /\ seen.equipped = r.equipped /\ seen.advanced = r.advanced
        /\ seen.commits = r.commits
    BY <2>1 DEF ActorType
  <2>4. interrupt_actions_for_items(r) =
          IF ~(r.hands /\ InProgress(r)) THEN seen
          ELSE IF r.commits > 0
          THEN enter_recovery(push_outcome(seen, "Corrected", "ItemAction"), t)
          ELSE EndOutright(seen, "ItemAction")
    BY DEF interrupt_actions_for_items
  <2>5. InProgress(r) => t.recovery \in Ticks
    BY <2>1, TemplateFacts DEF Sound, Busy, InProgress
  <2>h. HIDE DEF seen, t
  <2>6. Sound(seen) BY <2>1, <2>2, <2>3, SameAction DEF Keeps
  <2>7. Fit(seen) BY <1>4, <2>3, <2>6, SameFit
  <2>8. Steadfast(r, seen) /\ (InProgress(seen) <=> InProgress(r))
    BY <2>3 DEF Steadfast, InProgress
  <2>9. Counted(seen, base, 0) BY <1>4, <2>3, <2>8, QuietCounted
  <2>10. InProgress(r) =>
           /\ Counted(EndOutright(seen, "ItemAction"), base, 0)
           /\ Counted(enter_recovery(push_outcome(seen, "Corrected", "ItemAction"), t),
                      base, 0)
    BY <2>5, <2>6, <2>8, <2>9, CutCounted, ReasonFacts
  <2>q. QED BY <2>4, <2>9, <2>10
<1>5. Interrupts(s) = a4 BY DEF Interrupts
<1>h. HIDE DEF Good
<1>6. Good(a2) BY <1>1, <1>2
<1>7. Good(a3) BY <1>3, <1>6
<1>q. QED BY <1>4, <1>5, <1>7

-----------------------------------------------------------------------------
(* Reading an input.                                                       *)

\* Holding or letting go of the trigger counts for nothing.
LEMMA HoldSteadfast ==
  ASSUME NEW s, Fit(s), NEW w
  PROVE  Steadfast(s, hold_selected_weapon(s, w))
<1> DEFINE r == hold_selected_weapon(s, w)
<1>1. s \in ActorType BY DEF Fit, Sound
<1>2. /\ r.nextId = s.nextId /\ r.equipped = s.equipped /\ r.advanced = s.advanced
      /\ r.phase = s.phase
      /\ InProgress(s) => r = s
  BY <1>1 DEF hold_selected_weapon, ActorType
<1>q. QED BY <1>2 DEF Steadfast, InProgress

\* Nor does a change of the held action.
LEMMA ContinuousSteadfast ==
  ASSUME NEW s, Fit(s), NEW in
  PROVE  Steadfast(s, take_continuous_input(s, in))
<1> DEFINE r == take_continuous_input(s, in)
<1>1. s \in ActorType BY DEF Fit, Sound
<1>2. /\ r.nextId = s.nextId /\ r.equipped = s.equipped /\ r.advanced = s.advanced
      /\ r.phase = s.phase /\ r.id = s.id /\ r.commits = s.commits
      /\ r.binding = s.binding /\ r.source = s.source /\ r.ammo = s.ammo
      /\ r.reserve = s.reserve
  BY <1>1 DEF take_continuous_input, ActorType
<1>q. QED BY <1>2 DEF Steadfast, InProgress

\* Nor does the end of the recovery.
LEMMA SettleSteadfast ==
  ASSUME NEW s, Fit(s)
  PROVE  /\ Steadfast(s, settle_recovery(s))
         /\ settle_recovery(s).ammo = s.ammo /\ settle_recovery(s).reserve = s.reserve
         /\ settle_recovery(s).advanced = s.advanced
<1> DEFINE r == settle_recovery(s)
<1>1. s \in ActorType BY DEF Fit, Sound
<1>2. /\ r.nextId = s.nextId /\ r.equipped = s.equipped /\ r.advanced = s.advanced
      /\ r.ammo = s.ammo /\ r.reserve = s.reserve
      /\ r = s \/ r.phase = "None"
  BY <1>1 DEF settle_recovery, reset_action, ActorType
<1>q. QED BY <1>2 DEF Steadfast, InProgress

\* A refusal counts nothing.
LEMMA RejectionCounted ==
  ASSUME NEW base \in [Ids -> Nat], NEW s, Fit(s), Counted(s, base, 0),
         NEW intent \in Intents(Ids), NEW reason \in Reasons
  PROVE  Counted(push_rejection(s, intent, reason), base, 0)
<1> DEFINE o == Outcome(intent.id, intent.binding, 0, "Rejected", reason)
           r == push(s, o)
<1>1. s \in ActorType /\ Sound(s) BY DEF Fit, Sound
<1>2. intent.id \in Ids /\ intent.binding \in OutcomeBindings BY DEF Intents
<1>3. Tells(o, intent.id, "Rejected")
  <2>1. "Rejected" \in OutcomeTypes /\ 0 \in Nat BY OutcomeKinds
  <2>2. o \in Outcomes /\ o.id = intent.id /\ o.type = "Rejected"
    BY <1>2, <2>1, OutcomeType
  <2> HIDE DEF o
  <2>q. QED BY <2>2 DEF Tells
<1>4. push_rejection(s, intent, reason) = r BY DEF push_rejection
<1>h. HIDE DEF o
<1>5. /\ r.phase = s.phase /\ r.id = s.id /\ r.source = s.source
      /\ r.binding = s.binding /\ r.commits = s.commits /\ r.nextId = s.nextId
      /\ r.ammo = s.ammo /\ r.reserve = s.reserve /\ r.equipped = s.equipped
      /\ r.advanced = s.advanced /\ r.out = Append(s.out, o)
  BY <1>1 DEF push, ActorType
<1>h2. HIDE DEF r
<1>6. Steadfast(s, r) BY <1>5 DEF Steadfast, InProgress
<1>q. QED BY <1>1, <1>3, <1>4, <1>5, <1>6, ToldCounted DEF Tells

\* The outcome of an admission is Admitted, for its own id.
LEMMA AdmittedTells ==
  ASSUME NEW i \in Ids, NEW b \in OutcomeBindings, NEW n \in Nat
  PROVE  Tells(Outcome(i, b, n, "Admitted", "None"), i, "Admitted")
  BY OutcomeType, OutcomeKinds, ReasonFacts DEF Tells

\* A new instance starts from nothing: its id has no effects yet.
LEMMA StartCounted ==
  ASSUME NEW base \in [Ids -> Nat], NEW s, Fit(s), Counted(s, base, 0),
         NEW intent \in Intents(Ids), NEW w, intent.id # IdModulus - 1,
         AdmissionRefusal(s, intent, w) = "None"
  PROVE  Counted(Start(s, intent, w), base, 0)
<1> DEFINE t == TemplateFor(w, intent.binding)
           n == NextGenerated(intent.id)
           phase == IF t.offset = 0 THEN "Active" ELSE "Windup"
           latch == s.reloading \/ intent.binding = "Reload"
           offset == t.offset
           i == intent.id
           a == [s EXCEPT !.nextId = n, !.id = i,
                     !.binding = intent.binding, !.source = w,
                     !.wait = offset, !.rest = 0, !.commits = 0,
                     !.cancelAfter = FALSE, !.silence = 0,
                     !.phase = phase, !.reloading = latch]
           o == Outcome(a.id, a.binding, a.commits, "Admitted", "None")
           r == push(a, o)
           u == s.out
           v == Append(u, o)
<1>1. s \in ActorType /\ Sound(s) BY DEF Fit, Sound
<1>2. /\ s.phase = "None" /\ w \in Weapons /\ intent.binding \in Bindings
      /\ s.nextId <= i
  BY AdmissionFacts
<1>3. i \in Ids /\ s.nextId \in Ids BY <1>1 DEF Intents, ActorType
<1>4. n = i + 1
  <2>1. i \in Nat /\ i + 1 \in 0..(IdModulus - 1)
    BY <1>3, RuntimeAssumption DEF Ids
  <2>2. (i + 1) % IdModulus = i + 1 BY <2>1, RuntimeAssumption
  <2>q. QED BY <2>1, <2>2 DEF NextGenerated
<1>5. intent.binding = "Reload" =>
        s.ammo[w] < MagazineSize[w] /\ s.reserve[w] > 0
  BY <1>1, <1>2, RuntimeAssumption DEF ActorType, PerWeapon, AdmissionRefusal
<1>6. Start(s, intent, w) = r BY DEF Start, push_outcome
<1>7. phase \in {"Windup", "Active"} OBVIOUS
<1>h. HIDE DEF t, n, phase, latch, offset, i, o
<1>8. /\ a.out = s.out /\ a.phase = phase /\ a.id = i /\ a.source = w
      /\ a.binding = intent.binding /\ a.ammo = s.ammo /\ a.commits = 0
      /\ a.reserve = s.reserve /\ a.equipped = s.equipped /\ a.nextId = n
      /\ a.advanced = s.advanced
  BY <1>1 DEF ActorType
<1>9. Tells(o, i, "Admitted")
  <2>1. a.binding \in OutcomeBindings BY <1>2, <1>8, OutcomeKinds
  <2>2. a.commits \in Nat BY <1>8
  <2>3. a.id \in Ids /\ a.id = i BY <1>3, <1>8
  <2>h. HIDE DEF a
  <2>q. QED BY <2>1, <2>2, <2>3, AdmittedTells DEF o
<1>10. DOMAIN a = DOMAIN s BY <1>1
<1>h2. HIDE DEF a
<1>11. /\ r.out = Append(a.out, o) /\ r.phase = a.phase /\ r.id = a.id
       /\ r.source = a.source /\ r.binding = a.binding /\ r.ammo = a.ammo
       /\ r.commits = a.commits /\ r.reserve = a.reserve
       /\ r.equipped = a.equipped /\ r.nextId = a.nextId /\ r.advanced = a.advanced
  BY <1>1, <1>10 DEF push, ActorType
<1>12. /\ r.out = v /\ InProgress(r) /\ r.id = i /\ r.source = w
       /\ r.binding = intent.binding /\ r.ammo = s.ammo /\ r.commits = 0
       /\ r.reserve = s.reserve /\ r.equipped = s.equipped /\ r.nextId = i + 1
       /\ r.advanced = s.advanced
  BY <1>4, <1>7, <1>8, <1>11 DEF InProgress
<1>h3. HIDE DEF r
<1>13. u \in Seq(Outcomes) /\ Len(u) \in Nat /\ 0 \in 0..Len(u) BY <1>1, OutcomeAt
<1>14. Tallied(v, base, 0) BY <1>9, <1>13, AppendTallied DEF Counted, Tells
<1>15. /\ Len(v) = Len(u) + 1 /\ \A k \in 1..Len(u) : v[k] = u[k]
       /\ v[Len(u) + 1] = o
  BY <1>9, <1>13, AppendParts DEF Tells
<1>16. \A j : Debt(v, 0, Len(v), j) = Debt(u, 0, Len(u), j)
  BY <1>9, <1>13, AppendDebt DEF Tells
<1>17. \A j \in Ids : j >= s.nextId => base[j] = 0 /\ Debt(u, 0, Len(u), j) = 0
  BY DEF Counted
<1>18. \A k \in 1..Len(u) : u[k].type = "Committed" => s.advanced
  BY DEF Counted
<1>19. s.equipped = Weapons BY DEF Counted
<1>h4. HIDE DEF u, v
<1>20. ASSUME NEW k \in 1..Len(v), v[k].type = "Committed" PROVE r.advanced
  BY <1>9, <1>12, <1>13, <1>15, <1>18, <1>20 DEF Tells
<1>21. base[i] = 0 /\ Debt(v, 0, Len(v), i) = 0
  BY <1>2, <1>3, <1>16, <1>17
<1>22. r.commits = MinOf(CountCap, base[r.id] + Debt(v, 0, Len(v), r.id))
  BY <1>12, <1>21, RuntimeAssumption DEF MinOf
<1>23. r.id < r.nextId BY <1>3, <1>12, RuntimeAssumption DEF Ids
<1>24. ASSUME NEW j \in Ids, j >= r.nextId
       PROVE  base[j] = 0 /\ Debt(v, 0, Len(v), j) = 0
  <2>1. j >= s.nextId BY <1>2, <1>3, <1>12, <1>24, RuntimeAssumption DEF Ids
  <2>q. QED BY <2>1, <1>16, <1>17
<1>q. QED BY <1>5, <1>6, <1>12, <1>14, <1>19, <1>20, <1>22, <1>23, <1>24 DEF Counted

\* Reading the tick's input, whatever it cancels, refuses or starts.
LEMMA ReadInputCounted ==
  ASSUME NEW base \in [Ids -> Nat], NEW s, Fit(s), Counted(s, base, 0),
         NEW in \in Inputs(Ids), in.intent.id # IdModulus - 1
  PROVE  Counted(ReadInput(s, in), base, 0)
<1> DEFINE c == [s EXCEPT !.selected = in.selected]
           h == hold_selected_weapon(c, in.selected)
           u == take_continuous_input(h, in)
           e == settle_recovery(u)
           a == admit_action(u, in)
           refusal == AdmissionRefusal(e, in.intent, in.selected)
<1>1. s \in ActorType /\ Sound(s) BY DEF Fit, Sound
<1>2. in.selected \in Arms /\ in.intent \in Intents(Ids) BY DEF Inputs
<1>3. c \in ActorType BY <1>1, <1>2 DEF ActorType
<1>4. /\ c.phase = s.phase /\ c.id = s.id /\ c.source = s.source
      /\ c.binding = s.binding /\ c.wait = s.wait
      /\ c.cancelAfter = s.cancelAfter /\ c.cooldown = s.cooldown
      /\ c.effect = s.effect /\ c.nextId = s.nextId
      /\ c.blocks = s.blocks /\ c.out = s.out /\ c.ammo = s.ammo
      /\ c.reloading = s.reloading /\ c.commits = s.commits
      /\ c.reserve = s.reserve /\ c.equipped = s.equipped
      /\ c.advanced = s.advanced
  BY <1>1 DEF ActorType
<1>5. ReadInput(s, in) = take_continuous_input(a, in) BY DEF ReadInput
<1>h1. HIDE DEF c
<1>6. Sound(c) BY <1>1, <1>3, <1>4, SameAction DEF Keeps
<1>7. Rests(s, c) BY <1>4, <1>6, AmmoItself, SameStill
<1>8. Fit(c) /\ c.out = s.out /\ Steadfast(s, c)
  BY <1>4, <1>7 DEF Rests, Quiet, Steadfast, InProgress
<1>9. Fit(h) /\ h.out = c.out /\ Steadfast(c, h)
  BY <1>8, HoldWeaponStill, HoldSteadfast DEF Rests, Quiet
<1>h2. HIDE DEF h
<1>10. Fit(u) /\ u.out = h.out /\ Steadfast(h, u)
  BY <1>9, ContinuousStill, ContinuousSteadfast DEF Rests, Quiet
<1>h3. HIDE DEF u
<1>11. Fit(e) /\ e.out = u.out /\ Steadfast(u, e)
  BY <1>10, SettleStill, SettleSteadfast DEF Rests, Quiet
<1>12. a = IF in.intent.id = 0 THEN u
           ELSE IF refusal = "None" THEN Start(e, in.intent, in.selected)
           ELSE push_rejection(e, in.intent, refusal)
  BY DEF admit_action
<1>13. Fit(a) BY <1>10, AdmitStep DEF InputStep
<1>h4. HIDE DEF e, a
<1>14. Counted(c, base, 0) BY <1>8, QuietCounted
<1>15. Counted(h, base, 0) BY <1>9, <1>14, QuietCounted
<1>16. Counted(u, base, 0) BY <1>10, <1>15, QuietCounted
<1>17. Counted(e, base, 0) BY <1>11, <1>16, QuietCounted
<1>18. refusal \in Reasons BY <1>2, <1>11, RefusalFacts DEF Fit
<1>19. refusal = "None" => Counted(Start(e, in.intent, in.selected), base, 0)
  BY <1>2, <1>11, <1>17, StartCounted
<1>h5. HIDE DEF refusal
<1>20. Counted(push_rejection(e, in.intent, refusal), base, 0)
  BY <1>2, <1>11, <1>17, <1>18, RejectionCounted
<1>21. Counted(a, base, 0) BY <1>12, <1>16, <1>19, <1>20
<1>22. /\ Steadfast(a, take_continuous_input(a, in))
       /\ take_continuous_input(a, in).out = a.out
  BY <1>13, ContinuousStill, ContinuousSteadfast DEF Rests, Quiet
<1>q. QED BY <1>5, <1>21, <1>22, QuietCounted

-----------------------------------------------------------------------------
(* The commit that is due.                                                 *)

\* What a commit c that is due of actor s leaves of the counts, and of what a
\* reload asks for, in the actor m.
Strikes(s, m, c) ==
  /\ c.count = MinOf(CountCap, s.commits + 1)
  /\ m.equipped = s.equipped /\ m.reserve = s.reserve /\ m.advanced = s.advanced
  /\ InProgress(m) => m.commits = c.count

\* Advancing commits nothing and keeps the counts, or hands over a commit.
Advances(s, adv, base) ==
  /\ adv.commits = << >> => Counted(adv.actor, base, 0)
  /\ adv.commits # << >> => Strikes(s, adv.actor, Head(adv.commits))

\* An advance without a commit keeps the count.
LEMMA StillAdvancing ==
  ASSUME NEW s, NEW r, NEW base, Counted(r, base, 0)
  PROVE  Advances(s, Still(r), base)
  BY DEF Still, Advances

\* A commit that is emitted is a strike of the action in progress.
LEMMA EmitStrikes ==
  ASSUME NEW s \in ActorType, NEW t, NEW base
  PROVE  Advances(s, EmitCommit(s, t), base)
<1> DEFINE count == MinOf(CountCap, s.commits + 1)
           done == (t.maxCommits # 0 /\ count >= t.maxCommits) \/ s.cancelAfter
           interval == t.interval
           a == [s EXCEPT !.phase = "Active", !.commits = count, !.wait = interval]
           c == [id |-> s.id, binding |-> s.binding, weapon |-> s.source,
                 count |-> count, completes |-> done]
           r == IF done THEN enter_recovery(a, t) ELSE a
<1>1. EmitCommit(s, t).actor = r /\ EmitCommit(s, t).commits = <<c>>
  BY DEF EmitCommit
<1>2. c.count = count OBVIOUS
<1>h. HIDE DEF count, done, interval
<1>3. /\ a.equipped = s.equipped /\ a.reserve = s.reserve /\ a.advanced = s.advanced
      /\ a.commits = count /\ a.phase = "Active" /\ DOMAIN a = DOMAIN s
  BY DEF ActorType
<1>h2. HIDE DEF a, c
<1>4. LET e == enter_recovery(a, t)
      IN /\ e.equipped = a.equipped /\ e.reserve = a.reserve
         /\ e.advanced = a.advanced /\ e.phase \in {"None", "Recovery"}
  BY <1>3 DEF enter_recovery, release_action_resources, reset_action, ActorType
<1>5. Strikes(s, r, c) BY <1>2, <1>3, <1>4 DEF Strikes, InProgress, count
<1>h3. HIDE DEF r
<1>6. <<c>> # << >> /\ Head(<<c>>) = c OBVIOUS
<1>q. QED BY <1>1, <1>5, <1>6 DEF Advances

\* The action goes on or ends after its commit.
LEMMA ContinueCounted ==
  ASSUME NEW base \in [Ids -> Nat], NEW s, Fit(s), Counted(s, base, 0), InProgress(s)
  PROVE  Advances(s, ContinueAction(s, TemplateFor(s.source, s.binding)), base)
<1> DEFINE t == TemplateFor(s.source, s.binding)
           reason == CancelReason(s, t)
           cancel == s.cancelAfter \/ reason # "None"
           cuts == reason # "None" /\ (s.commits > 0 \/ t.cancelBeforeFirstCommit)
           a == [s EXCEPT !.cancelAfter = cancel]
           w == [a EXCEPT !.phase = "Windup"]
<1>1. s \in ActorType /\ Sound(s) BY DEF Fit, Sound
<1>2. reason \in Reasons BY ReasonFacts DEF CancelReason
<1>3. s.source \in Weapons BY <1>1 DEF Sound, Busy, InProgress
<1>4. cancel \in BOOLEAN OBVIOUS
<1>5. ContinueAction(s, t) =
        IF cuts
        THEN Still(enter_recovery(push_outcome(s, "Corrected", reason), t))
        ELSE IF a.wait > 0 THEN Still(w)
        ELSE IF ~CanSpend(a, t)
        THEN Still(enter_recovery(push_outcome(a, "Corrected", "EffectFailed"), t))
        ELSE EmitCommit(a, t)
  BY DEF ContinueAction
<1>6. t.recovery \in Ticks BY <1>3, TemplateFacts
<1>h. HIDE DEF t, reason, cancel, cuts
<1>7. a \in ActorType BY <1>1, <1>4 DEF ActorType
<1>8. /\ a.out = s.out /\ a.phase = s.phase /\ a.id = s.id
      /\ a.source = s.source /\ a.binding = s.binding
      /\ a.ammo = s.ammo /\ a.reloading = s.reloading
      /\ a.nextId = s.nextId /\ a.commits = s.commits /\ a.reserve = s.reserve
      /\ a.equipped = s.equipped /\ a.advanced = s.advanced
  BY <1>1 DEF ActorType
<1>h2. HIDE DEF a
<1>9. Sound(a) BY <1>1, <1>7, <1>8, SameAction DEF Keeps
<1>10. InProgress(a) /\ Steadfast(s, a) BY <1>8 DEF InProgress, Steadfast
<1>11. Counted(a, base, 0) BY <1>8, <1>10, QuietCounted
<1>12. Counted(enter_recovery(push_outcome(s, "Corrected", reason), t), base, 0)
  BY <1>1, <1>2, <1>6, CutCounted
<1>13. Counted(enter_recovery(push_outcome(a, "Corrected", "EffectFailed"), t), base, 0)
  BY <1>6, <1>9, <1>10, <1>11, CutCounted, ReasonFacts
<1>14. Counted(w, base, 0)
  <2>1. /\ w.out = a.out /\ w.id = a.id
        /\ w.source = a.source /\ w.binding = a.binding /\ w.ammo = a.ammo
        /\ w.nextId = a.nextId /\ w.commits = a.commits /\ w.reserve = a.reserve
        /\ w.equipped = a.equipped /\ w.advanced = a.advanced
    BY <1>7 DEF ActorType
  <2>h. HIDE DEF w
  <2>2. Steadfast(a, w) BY <2>1, <1>10 DEF Steadfast
  <2>q. QED BY <2>1, <2>2, <1>11, QuietCounted
<1>15. Advances(s, EmitCommit(a, t), base)
  BY <1>7, <1>8, EmitStrikes DEF Advances, Strikes
<1>h3. HIDE DEF w
<1>q. QED BY <1>5, <1>12, <1>13, <1>14, <1>15, StillAdvancing DEF t

\* An advance strikes at most once, and tells nothing that counts before.
LEMMA AdvanceCounted ==
  ASSUME NEW base \in [Ids -> Nat], NEW s, Fit(s), Counted(s, base, 0)
  PROVE  LET adv == advance_action(s)
         IN /\ adv.commits = << >> => Counted(adv.actor, base, 0)
            /\ adv.commits # << >> =>
                 /\ ~s.advanced /\ adv.actor.advanced
                 /\ \E a : /\ Strikes(a, adv.actor, Head(adv.commits))
                           /\ a.equipped = s.equipped /\ a.reserve = s.reserve
                           /\ InProgress(s) => a.commits = s.commits
<1> DEFINE adv == advance_action(s)
           q == settle_recovery(s)
           a == [q EXCEPT !.advanced = TRUE]
           t == TemplateFor(a.source, a.binding)
           stop == ChargeStop(a, t)
           w == [a EXCEPT !.phase = "Windup"]
           charging == t.mode = "Charge" /\ a.commits = 0
<1>1. adv =
        IF s.advanced THEN Still(s)
        ELSE IF ~InProgress(a) THEN Still(a)
        ELSE IF charging /\ stop # "None" THEN Still(EndOutright(a, stop))
        ELSE IF charging /\ ~Released(a) THEN Still(w)
        ELSE ContinueAction(a, t)
  BY DEF advance_action
<1>2. Fit(q) /\ q.out = s.out /\ Steadfast(s, q) /\ q.reserve = s.reserve
  BY SettleStill, SettleSteadfast DEF Rests, Quiet
<1>3. InProgress(s) => q = s BY SettleSound DEF Fit
<1>h. HIDE DEF q
<1>4. q \in ActorType /\ Sound(q) BY <1>2 DEF Fit, Sound
<1>5. a \in ActorType BY <1>4 DEF ActorType
<1>6. /\ a.out = q.out /\ a.phase = q.phase /\ a.id = q.id
      /\ a.source = q.source /\ a.binding = q.binding
      /\ a.ammo = q.ammo /\ a.reloading = q.reloading
      /\ a.nextId = q.nextId /\ a.cooldown = q.cooldown
      /\ a.wait = q.wait /\ a.effect = q.effect /\ a.cancelAfter = q.cancelAfter
      /\ a.commits = q.commits /\ a.reserve = q.reserve
      /\ a.equipped = q.equipped /\ a.advanced = TRUE
  BY <1>4 DEF ActorType
<1>h2. HIDE DEF a
<1>7. Sound(a) BY <1>4, <1>5, <1>6, SameAction DEF Keeps
<1>8. Fit(a) BY <1>2, <1>6, <1>7, SameFit
<1>9. Steadfast(q, a) /\ Steadfast(s, q) BY <1>2, <1>6 DEF Steadfast, InProgress
<1>10. Counted(a, base, 0)
  BY <1>2, <1>6, <1>9, QuietCounted
<1>11. stop \in Reasons BY ReasonFacts DEF ChargeStop
<1>12. InProgress(a) => Advances(a, Still(EndOutright(a, stop)), base)
  <2>h. HIDE DEF stop
  <2>q. QED BY <1>7, <1>10, <1>11, CutCounted, NoRecovery, StillAdvancing
<1>13. InProgress(a) => Advances(a, Still(w), base)
  <2>1. /\ w.out = a.out /\ w.id = a.id
        /\ w.source = a.source /\ w.binding = a.binding /\ w.ammo = a.ammo
        /\ w.nextId = a.nextId /\ w.commits = a.commits /\ w.reserve = a.reserve
        /\ w.equipped = a.equipped /\ w.advanced = a.advanced
    BY <1>5 DEF ActorType
  <2>h. HIDE DEF w
  <2>2. InProgress(a) => Steadfast(a, w) BY <2>1 DEF Steadfast
  <2>q. QED BY <2>1, <2>2, <1>10, QuietCounted, StillAdvancing
<1>14. InProgress(a) => Advances(a, ContinueAction(a, t), base)
  BY <1>8, <1>10, ContinueCounted
<1>15. Advances(a, Still(a), base) BY <1>10, StillAdvancing
<1>h3. HIDE DEF t, stop, w, charging, adv
<1>16. CASE s.advanced
  BY <1>1, <1>16 DEF Still, adv
<1>17. CASE ~s.advanced
  <2>1. Advances(a, adv, base) BY <1>1, <1>12, <1>13, <1>14, <1>15, <1>17
  <2>2. a.equipped = s.equipped /\ a.reserve = s.reserve /\ a.advanced
        /\ (InProgress(s) => a.commits = s.commits)
    BY <1>2, <1>3, <1>6 DEF Steadfast
  <2>q. QED BY <2>1, <2>2, <1>17 DEF Advances, Strikes, adv
<1>q. QED BY <1>16, <1>17

-----------------------------------------------------------------------------
(* Commits take effect.                                                    *)

\* A catalog in which the world refuses no commit that is due: no weapon calls
\* down strikes, and a reload is one commit.
NoStrikes == \A w \in Weapons : /\ FireMode[w] # "TargetedStrike"
                                /\ ReloadTemplate[w].maxCommits = 1

\* A commit of actor s that took effect, on the actor f it left.
LEMMA ConfirmCounted ==
  ASSUME NEW base \in [Ids -> Nat], NEW s, Fit(s), Counted(s, base, 0),
         InProgress(s), ~s.advanced, NEW c \in Commits,
         c.id = s.id, c.binding = s.binding, c.count = MinOf(CountCap, s.commits + 1),
         c.binding = "Reload" => c.completes,
         NEW f \in ActorType, f.out = s.out, f.nextId = s.nextId,
         f.equipped = s.equipped, f.advanced,
         c.completes => ~InProgress(f),
         InProgress(f) => f.id = s.id /\ f.commits = c.count /\ f.binding = s.binding
  PROVE  Counted(Confirm(f, c), base, 0)
<1> DEFINE o == Outcome(c.id, c.binding, c.count, "Committed", "None")
           d == Outcome(c.id, c.binding, c.count, "Completed", "None")
           p == push(f, o)
           r == Confirm(f, c)
           u == s.out
           v == Append(u, o)
<1>1. Sound(s) /\ s \in ActorType BY DEF Fit, Sound
<1>2. /\ s.id \in Ids /\ s.nextId \in Ids /\ s.commits \in Nat
      /\ CountCap \in Nat /\ c.count \in Nat /\ base[s.id] \in Nat
  BY <1>1, RuntimeAssumption DEF ActorType, Counts, Commits
<1>3. Tells(o, s.id, "Committed") /\ Tells(d, s.id, "Completed")
  BY CommitOutcome, OutcomeKinds, ReasonFacts DEF Tells
<1>4. o.count = MinOf(CountCap, c.count) BY DEF Outcome
<1>5. u \in Seq(Outcomes) /\ Len(u) \in Nat /\ 0 \in 0..Len(u) BY <1>1, OutcomeAt
<1>6. \A k \in 1..Len(u) : u[k].type # "Committed" BY DEF Counted
<1>7. \A j : Debt(u, 0, Len(u), j) = 0 BY <1>6 DEF Debt
<1>8. s.commits = MinOf(CountCap, base[s.id]) /\ s.id < s.nextId
  BY <1>2, <1>7 DEF Counted
<1>9. c.count = MinOf(CountCap, base[s.id] + 1) /\ o.count = c.count
  BY <1>2, <1>4, <1>8 DEF MinOf
<1>10. r = IF c.completes THEN push(p, d) ELSE p BY DEF Confirm
<1>h. HIDE DEF o, d
<1>11. Tallied(v, base, 0)
  BY <1>3, <1>5, <1>6, <1>9, AppendTallied DEF Counted, Tells
<1>12. v \in Seq(Outcomes) /\ Len(v) = Len(u) + 1 BY <1>3, <1>5, AppendParts DEF Tells
<1>13. \A j : Debt(v, 0, Len(v), j) = IF j = s.id THEN 1 ELSE 0
  BY <1>3, <1>5, <1>7, AppendDebt DEF Tells
<1>14. \A j \in Ids : j >= s.nextId => base[j] = 0 BY DEF Counted
<1>15. s.equipped = Weapons BY DEF Counted
<1>16. /\ p.out = v /\ p.nextId = s.nextId /\ p.equipped = s.equipped /\ p.advanced
       /\ p.phase = f.phase /\ p.id = f.id /\ p.commits = f.commits
       /\ p.binding = f.binding /\ p.source = f.source
       /\ p.ammo = f.ammo /\ p.reserve = f.reserve
  BY DEF push, ActorType
<1>18. DOMAIN p = DOMAIN f BY DEF push
<1>h2. HIDE DEF p, u, v
<1>19. InProgress(p) => /\ ~c.completes /\ p.id = s.id /\ p.commits = c.count
                        /\ p.binding = s.binding
  BY <1>16 DEF InProgress
<1>20. Counted(p, base, 0)
  <2>1. \A j \in Ids : j >= p.nextId => base[j] = 0 /\ Debt(v, 0, Len(v), j) = 0
    BY <1>2, <1>8, <1>13, <1>14, <1>16, RuntimeAssumption DEF Ids
  <2>2. InProgress(p) =>
          /\ p.commits = MinOf(CountCap, base[p.id] + Debt(v, 0, Len(v), p.id))
          /\ p.id < p.nextId
    BY <1>8, <1>9, <1>13, <1>16, <1>19
  <2>3. ~(InProgress(p) /\ p.binding = "Reload") BY <1>19
  <2>q. QED BY <2>1, <2>2, <2>3, <1>11, <1>15, <1>16 DEF Counted
<1>21. CASE ~c.completes BY <1>10, <1>20, <1>21
<1>22. CASE c.completes
  <2>1. r = push(p, d) /\ ~InProgress(p) BY <1>10, <1>19, <1>22
  <2>h. HIDE DEF r
  <2>2. /\ r.out = Append(v, d) /\ r.nextId = p.nextId /\ r.equipped = p.equipped
        /\ r.advanced = p.advanced /\ r.phase = p.phase
    BY <2>1, <1>16, <1>18 DEF push, ActorType
  <2>3. ~InProgress(r) BY <2>1, <2>2 DEF InProgress
  <2>4. Tallied(Append(v, d), base, 0)
    BY <1>3, <1>11, <1>12, <1>5, AppendTallied DEF Tells
  <2>5. \A j : Debt(Append(v, d), 0, Len(Append(v, d)), j) = Debt(v, 0, Len(v), j)
    BY <1>3, <1>12, <1>5, AppendDebt DEF Tells
  <2>6. \A j \in Ids :
          j >= r.nextId => base[j] = 0 /\ Debt(r.out, 0, Len(r.out), j) = 0
    BY <2>2, <2>5, <1>16, <1>20 DEF Counted
  <2>7. r.advanced /\ r.equipped = Weapons BY <2>2, <1>15, <1>16
  <2>8. Tallied(r.out, base, 0) BY <2>2, <2>4
  <2>9. Counted(r, base, 0) BY <2>3, <2>6, <2>7, <2>8 DEF Counted
  <2>q. QED BY <2>9 DEF r
<1>q. QED BY <1>21, <1>22

\* With no strike to refuse and the rounds checked, a commit that is due takes
\* effect.
LEMMA ApplyCounted ==
  ASSUME NoStrikes, NEW base \in [Ids -> Nat], NEW s, Fit(s), Counted(s, base, 0),
         ~s.advanced, NEW m, NEW c, Due(s, m, c), m.advanced,
         m.equipped = s.equipped, m.reserve = s.reserve,
         c.count = MinOf(CountCap, s.commits + 1),
         InProgress(m) => m.commits = c.count, NEW found
  PROVE  Counted(ApplyCommit(m, c, found), base, 0)
<1> DEFINE w == c.weapon
           a == [m EXCEPT !.active = w]
           t == FireTemplate[w]
           mode == FireMode[w]
           spent == IF mode = "LockMissile" /\ ~found THEN 0 ELSE t.cost
           am == [a.ammo EXCEPT ![w] = a.ammo[w] - spent]
           cd == [a.cooldown EXCEPT ![w] = t.interval]
           ef == IF mode = "Beam" THEN BeamLife ELSE a.effect
           f == [a EXCEPT !.ammo = am, !.cooldown = cd, !.effect = ef]
           full == [a.ammo EXCEPT ![w] = MagazineSize[w]]
           less == [a.reserve EXCEPT ![w] = a.reserve[w] - 1]
           g == [a EXCEPT !.reloading = FALSE, !.ammo = full, !.reserve = less]
<1>1. /\ c \in Commits /\ InProgress(s) /\ c.id = s.id /\ c.binding = s.binding
      /\ w = s.source /\ m.out = s.out /\ m.nextId = s.nextId /\ m.ammo = s.ammo
      /\ Sound(m) /\ w \in m.equipped
      /\ c.completes => ~InProgress(m)
      /\ InProgress(m) => m.id = s.id /\ m.binding = s.binding
  BY DEF Due
<1>2. m \in ActorType /\ w \in Weapons /\ w \in Arms /\ c.binding \in Bindings
  BY <1>1 DEF Sound, Commits, Arms
<1>3. c.binding = "Reload" => c.completes
  BY <1>2 DEF Due, NoStrikes, TemplateFor
<1>4. /\ m.ammo \in [Weapons -> Nat] /\ m.reserve \in [Weapons -> Nat]
      /\ m.cooldown \in [Weapons -> Ticks] /\ m.effect \in Ticks
      /\ t.cost \in Nat /\ t.interval \in Ticks /\ BeamLife \in Ticks
      /\ MagazineSize[w] \in Nat
  BY <1>2, RuntimeAssumption, Zeros DEF ActorType, PerWeapon, ActionTemplates
<1>5. /\ a.out = m.out /\ a.phase = m.phase /\ a.id = m.id /\ a.commits = m.commits
      /\ a.binding = m.binding /\ a.nextId = m.nextId /\ a.advanced = m.advanced
      /\ a.equipped = m.equipped /\ a.ammo = m.ammo /\ a.reserve = m.reserve
      /\ a.cooldown = m.cooldown /\ a.effect = m.effect
  BY <1>2 DEF ActorType
<1>6. a \in ActorType BY <1>2 DEF ActorType
<1>7. ApplyCommit(m, c, found) =
        IF c.binding = "Reload" THEN CommitReload(a, c) ELSE CommitFire(a, c, found)
  BY <1>1 DEF ApplyCommit
<1>h. HIDE DEF w, a
<1>8. ASSUME NEW e \in ActorType, e.out = a.out, e.phase = a.phase, e.id = a.id,
             e.commits = a.commits, e.binding = a.binding, e.nextId = a.nextId,
             e.advanced = a.advanced, e.equipped = a.equipped
      PROVE  Counted(Confirm(e, c), base, 0)
  <2>1. InProgress(e) <=> InProgress(m) BY <1>5, <1>8 DEF InProgress
  <2>q. QED BY <2>1, <1>1, <1>3, <1>5, <1>8, ConfirmCounted, ZenonT(40)
<1>9. CASE c.binding = "Reload"
  <2>1. a.ammo[w] < MagazineSize[w] /\ a.reserve[w] > 0
    BY <1>1, <1>5, <1>9 DEF Counted
  <2>2. ~(a.reserve[w] = 0 \/ a.ammo[w] >= MagazineSize[w])
    BY <2>1, <1>2, <1>4, <1>5
  <2>3. CommitReload(a, c) =
          Confirm([[a EXCEPT !.reloading = FALSE] EXCEPT
                     !.ammo[w] = MagazineSize[w], !.reserve[w] = @ - 1], c)
    BY <2>2 DEF CommitReload, w
  <2>4. [[a EXCEPT !.reloading = FALSE] EXCEPT
           !.ammo[w] = MagazineSize[w], !.reserve[w] = @ - 1] = g
    BY <1>6 DEF ActorType
  <2>5. full \in [Weapons -> Nat] /\ less \in [Weapons -> Nat]
    BY <2>1, <1>2, <1>4, <1>5
  <2>h. HIDE DEF full, less
  <2>6. g \in ActorType BY <2>5, <1>6 DEF ActorType, PerWeapon
  <2>7. /\ g.out = a.out /\ g.phase = a.phase /\ g.id = a.id
        /\ g.commits = a.commits /\ g.binding = a.binding /\ g.nextId = a.nextId
        /\ g.advanced = a.advanced /\ g.equipped = a.equipped
    BY <1>6 DEF ActorType
  <2>h2. HIDE DEF g
  <2>q. QED BY <2>3, <2>4, <2>6, <2>7, <1>7, <1>8, <1>9
<1>10. CASE c.binding # "Reload"
  <2>1. c.binding = "PrimaryFire" BY <1>2, <1>10 DEF Bindings
  <2>2. a.ammo[w] >= t.cost BY <2>1, <1>5 DEF Due, TemplateFor, w
  <2>3. mode # "TargetedStrike" BY <1>2 DEF NoStrikes
  <2>4. ~(a.ammo[w] < t.cost \/ (mode = "TargetedStrike" /\ ~found))
    BY <2>2, <2>3, <1>2, <1>4, <1>5
  <2>5. CommitFire(a, c, found) = Confirm(f, c) BY <2>4 DEF CommitFire, w
  <2>6. spent \in Nat /\ spent <= a.ammo[w] BY <2>2, <1>2, <1>4, <1>5
  <2>h. HIDE DEF spent, mode, t
  <2>7. am \in [Weapons -> Nat] /\ cd \in [Weapons -> Ticks] /\ ef \in Ticks
    BY <2>6, <1>2, <1>4, <1>5
  <2>h2. HIDE DEF am, cd, ef
  <2>8. f \in ActorType BY <2>7, <1>6 DEF ActorType, PerWeapon
  <2>9. /\ f.out = a.out /\ f.phase = a.phase /\ f.id = a.id
        /\ f.commits = a.commits /\ f.binding = a.binding /\ f.nextId = a.nextId
        /\ f.advanced = a.advanced /\ f.equipped = a.equipped
    BY <1>6 DEF ActorType
  <2>h3. HIDE DEF f
  <2>q. QED BY <2>5, <2>8, <2>9, <1>7, <1>8, <1>10
<1>q. QED BY <1>9, <1>10

\* An advance and the commits it calls for, together.
LEMMA AdvanceAndCommitCounted ==
  ASSUME NoStrikes, NEW base \in [Ids -> Nat], NEW s, Fit(s), Counted(s, base, 0),
         NEW found
  PROVE  Counted(AdvanceAndCommit(s, found), base, 0)
<1> DEFINE adv == advance_action(s)
<1>1. AdvanceAndCommit(s, found) =
        IF adv.commits = << >> THEN adv.actor
        ELSE ApplyCommit(adv.actor, Head(adv.commits), found)
  BY DEF AdvanceAndCommit
<1>2. /\ adv.commits = << >> => Counted(adv.actor, base, 0)
      /\ adv.commits # << >> =>
           /\ ~s.advanced /\ adv.actor.advanced
           /\ \E a : /\ Strikes(a, adv.actor, Head(adv.commits))
                     /\ a.equipped = s.equipped /\ a.reserve = s.reserve
                     /\ InProgress(s) => a.commits = s.commits
  BY AdvanceCounted
<1>3. AdvanceStep(s, adv) BY AdvanceActionStep
<1>h. HIDE DEF adv
<1>4. ASSUME NEW c \in Commits, adv.commits = <<c>>, Due(s, adv.actor, c)
      PROVE  Counted(AdvanceAndCommit(s, found), base, 0)
  BY <1>1, <1>2, <1>4, ApplyCounted DEF Strikes, Due
<1>q. QED BY <1>1, <1>2, <1>3, <1>4 DEF AdvanceStep

\* A whole pass keeps the counts.
LEMMA PassCounted ==
  ASSUME NoStrikes, NEW base \in [Ids -> Nat], NEW s, Fit(s), Steadied(s),
         Counted(s, base, 0), NEW found
  PROVE  /\ Counted(IdlePass(s, found), base, 0)
         /\ \A in \in Inputs(Ids) : in.intent.id # IdModulus - 1 =>
              Counted(WeaponPass(s, in, found), base, 0)
<1> DEFINE p == Interrupts(s)
<1>1. Fit(p) /\ Counted(p, base, 0)
  BY InterruptsStep, InterruptsCounted DEF QuietOrCut, Steadied
<1>2. IdlePass(s, found) = AdvanceAndCommit(p, found) BY DEF IdlePass
<1>3. \A in : WeaponPass(s, in, found) = AdvanceAndCommit(ReadInput(p, in), found)
  BY DEF WeaponPass
<1>h. HIDE DEF p
<1>4. ASSUME NEW in \in Inputs(Ids), in.intent.id # IdModulus - 1
      PROVE  Fit(ReadInput(p, in)) /\ Counted(ReadInput(p, in), base, 0)
  BY <1>1, <1>4, ReadInputStep, ReadInputCounted DEF InputStep
<1>q. QED BY <1>1, <1>2, <1>3, <1>4, AdvanceAndCommitCounted

-----------------------------------------------------------------------------
(* The session keeps the counts.                                           *)

\* A cached result that is no refusal counts the commits in "base".
Truthful(ses, base) ==
  \A i \in DOMAIN ses.recent :
    ses.recent[i].type # "Rejected" =>
      ses.recent[i].count = MinOf(CountCap, base[i])

\* The cache changes at the result's id alone.
LEMMA QueueTruthful ==
  ASSUME NEW ses \in SessionType, Cached(ses), NEW r \in Results, NEW base,
         \A i \in DOMAIN ses.recent \ {r.id} :
           ses.recent[i].type # "Rejected" =>
             ses.recent[i].count = MinOf(CountCap, base[i]),
         r.type # "Rejected" => r.count = MinOf(CountCap, base[r.id])
  PROVE  Truthful(queue_local_action_result(ses, r), base)
<1> DEFINE a == Remember(ses, r)
           b == [a EXCEPT !.pending = Append(a.pending, r)]
<1>1. a \in SessionType BY RememberKeeps
<1>2. queue_local_action_result(ses, r) \in {a, b}
  BY <1>1 DEF queue_local_action_result, SessionType
<1>3. /\ DOMAIN a.recent \subseteq DOMAIN ses.recent \cup {r.id}
      /\ \A i \in DOMAIN a.recent :
           a.recent[i] = IF i = r.id THEN r ELSE ses.recent[i]
  BY DEF Remember, SessionType
<1>h. HIDE DEF a
<1>4. b.recent = a.recent BY <1>1 DEF SessionType
<1>5. Truthful(a, base)
  BY <1>3 DEF Truthful
<1>h2. HIDE DEF b
<1>6. Truthful(b, base) BY <1>4, <1>5 DEF Truthful
<1>q. QED BY <1>2, <1>5, <1>6

\* The answers given before the tick, repeats and refusals, are true.
LEMMA PrepareTruthful ==
  ASSUME NEW ses \in SessionType, Cached(ses), NEW s, NEW w,
         NEW intent \in Intents(Ids), tick \in 0..MaxTick,
         NEW base, Truthful(ses, base)
  PROVE  Truthful(prepare_server_action_intent(ses, s, intent, w).session, base)
<1> DEFINE i == intent.id
           marked == [ses EXCEPT !.highWater = i]
           taken_ == [marked EXCEPT !.claim = i]
           refusal == SessionRefusal(s, intent, w)
           Good(p) == Truthful(p.session, base)
<1>1. i \in Ids BY DEF Intents
<1>2. marked \in SessionType BY <1>1 DEF SessionType
<1>3. /\ marked.order = ses.order /\ marked.recent = ses.recent
  BY DEF SessionType
<1>4. Cached(marked) BY <1>3 DEF Cached
<1>5. refusal \in Reasons BY ReasonFacts DEF SessionRefusal
<1>6. prepare_server_action_intent(ses, s, intent, w) =
        IF i = 0 THEN [session |-> ses, kept |-> TRUE]
        ELSE IF intent.binding = Malformed THEN Reject(ses, intent, "InvalidActionId")
        ELSE IF i \in DOMAIN ses.recent
        THEN Dropped(queue_local_action_result(ses, ses.recent[i]))
        ELSE IF ses.claim = i THEN Dropped(ses)
        ELSE IF ses.highWater # 0 /\ ~NewerId(i, ses.highWater)
        THEN Reject(ses, intent, "InvalidActionId")
        ELSE IF ses.claim # 0 THEN Reject(marked, intent, "Busy")
        ELSE IF refusal # "None" THEN Reject(marked, intent, refusal)
        ELSE [session |-> taken_, kept |-> TRUE]
  BY DEF prepare_server_action_intent
<1>7. taken_.recent = ses.recent BY DEF SessionType
<1>h. HIDE DEF marked, refusal, taken_
<1>8. ASSUME NEW u \in SessionType, Cached(u), u.recent = ses.recent,
             NEW reason \in Reasons
      PROVE  Good(Reject(u, intent, reason))
  <2> DEFINE r == Result(i, 0, "Rejected", reason)
             q == queue_local_action_result(u, r)
  <2>1. r \in Results BY <1>1, Zeros, ResultIsResult
  <2>2. r.type = "Rejected" BY DEF Result
  <2>h. HIDE DEF r
  <2>3. Truthful(q, base) BY <1>8, <2>1, <2>2, QueueTruthful DEF Truthful
  <2>4. Reject(u, intent, reason) = [session |-> q, kept |-> FALSE]
    BY DEF Reject, Dropped, r
  <2>h2. HIDE DEF q
  <2>q. QED BY <2>3, <2>4
<1>9. ASSUME i \in DOMAIN ses.recent
      PROVE  Good(Dropped(queue_local_action_result(ses, ses.recent[i])))
  <2> DEFINE r == ses.recent[i]
             q == queue_local_action_result(ses, r)
  <2>1. ses.recent \in Caches BY DEF SessionType
  <2>2. r \in Results /\ r.id = i BY <1>9, <2>1 DEF Caches, Cached
  <2>3. r.type # "Rejected" => r.count = MinOf(CountCap, base[i])
    BY <1>9 DEF Truthful
  <2>h. HIDE DEF r
  <2>4. Truthful(q, base) BY <2>2, <2>3, QueueTruthful DEF Truthful
  <2>h2. HIDE DEF q
  <2>q. QED BY <2>4 DEF Dropped, q, r
<1>10. Good(Dropped(ses)) /\ Good([session |-> ses, kept |-> TRUE]) BY DEF Dropped
<1>11. Good([session |-> taken_, kept |-> TRUE]) BY <1>7 DEF Truthful
<1>12. /\ Good(Reject(ses, intent, "InvalidActionId"))
       /\ Good(Reject(marked, intent, "Busy"))
       /\ Good(Reject(marked, intent, refusal))
  BY <1>2, <1>3, <1>4, <1>5, <1>8, ReasonFacts
<1>h2. HIDE DEF Good, i
<1>13. Good(prepare_server_action_intent(ses, s, intent, w))
  BY <1>6, <1>9, <1>10, <1>11, <1>12
<1>q. QED BY <1>13 DEF Good

\* Reading an outcome records a result that is true.
LEMMA SettleTruthful ==
  ASSUME NEW ses \in SessionType, Cached(ses), NEW o \in Outcomes,
         tick \in 0..MaxTick, NEW base,
         \A i \in DOMAIN ses.recent : i # o.id \/ o.type \in {"Admitted", "Completed"} =>
           (ses.recent[i].type # "Rejected" =>
             ses.recent[i].count = MinOf(CountCap, base[i])),
         o.type \in {"Committed", "Corrected"} => o.count = MinOf(CountCap, base[o.id])
  PROVE  Truthful(Settle(ses, o), base)
<1> DEFINE r == Result(o.id, o.count, ResultType(o.type), o.reason)
           told == IF o.type \in {"Admitted", "Completed"} THEN ses
                   ELSE queue_local_action_result(ses, r)
           freed == [told EXCEPT !.claim = 0]
<1>1. /\ o.id \in Ids /\ o.count \in Counts /\ o.reason \in Reasons
      /\ o.type \in OutcomeTypes
  BY DEF Outcomes
<1>2. /\ ResultType(o.type) \in {"Accepted", "Corrected", "Rejected"}
      /\ ResultType(o.type) # "Rejected" => o.type \in {"Committed", "Corrected"}
  BY DEF ResultType
<1>3. r \in Results BY <1>1, <1>2, ResultIsResult
<1>4. r.id = o.id /\ r.count = o.count /\ r.type = ResultType(o.type) BY DEF Result
<1>5. Settle(ses, o) = IF Ends(o) /\ ses.claim = o.id THEN freed ELSE told
  BY DEF Settle
<1>h. HIDE DEF r
<1>6. Truthful(told, base)
  BY <1>2, <1>3, <1>4, QueueTruthful DEF Truthful
<1>7. told \in SessionType BY <1>3, QueueKeeps
<1>h2. HIDE DEF told
<1>8. freed.recent = told.recent BY <1>7 DEF SessionType
<1>h3. HIDE DEF freed
<1>9. Truthful(freed, base) BY <1>6, <1>8 DEF Truthful
<1>q. QED BY <1>5, <1>6, <1>9

\* Settling an outcome moves its commit, if it is one, from the debts to the
\* commits that are settled.
LEMMA SettleCounted ==
  ASSUME NEW base \in [Ids -> Nat], NEW s, Sound(s), NEW f \in 0..Len(s.out),
         f < Len(s.out), Counted(s, base, f)
  PROVE  LET o == s.out[f + 1]
             more == [base EXCEPT ![o.id] = IF o.type = "Committed" THEN @ + 1 ELSE @]
         IN /\ Counted(s, more, f + 1)
            /\ o.type \in {"Committed", "Corrected"} =>
                 o.count = MinOf(CountCap, more[o.id])
<1> DEFINE u == s.out
           o == u[f + 1]
           more == [base EXCEPT ![o.id] = IF o.type = "Committed" THEN @ + 1 ELSE @]
<1>1. /\ u \in Seq(Outcomes) /\ Len(u) \in Nat /\ f + 1 \in 1..Len(u)
      /\ \A k \in 1..Len(u) : u[k] \in Outcomes
  BY OutcomeAt
<1>2. \A k \in 1..Len(u) : u[k].id \in Ids BY <1>1 DEF Outcomes
<1>3. o.id \in Ids BY <1>1, <1>2
<1>4. /\ Tallied(u, base, f)
      /\ \A k \in 1..Len(u) : u[k].type = "Committed" => s.advanced
      /\ InProgress(s) =>
           /\ s.commits = MinOf(CountCap, base[s.id] + Debt(u, f, Len(u), s.id))
           /\ s.id < s.nextId
      /\ \A i \in Ids : i >= s.nextId => base[i] = 0 /\ Debt(u, f, Len(u), i) = 0
  BY DEF Counted
<1>5. InProgress(s) => s.id \in Ids BY DEF Sound, ActorType
<1>h. HIDE DEF u
<1>6. ASSUME NEW n \in (f + 1)..Len(u), NEW i \in Ids
      PROVE  /\ more[i] + Debt(u, f + 1, n, i) = base[i] + Debt(u, f, n, i)
             /\ more[i] \in Nat
  <2>1. (f + 1)..n = {f + 1} \cup ((f + 2)..n) BY <1>1
  <2>2. (f + 1) + 1 = f + 2 BY <1>1
  <2>3. base[i] \in Nat OBVIOUS
  <2>4. CASE o.type = "Committed" /\ o.id = i
    <3>1. more[i] = base[i] + 1 BY <2>4, <1>3
    <3>2. Debt(u, f, n, i) = 1 BY <2>1, <2>4 DEF Debt
    <3>3. \A j \in (f + 2)..n : u[j].type # "Committed"
      BY <1>1, <1>4, <2>4 DEF Tallied
    <3>4. Debt(u, f + 1, n, i) = 0 BY <3>3, <2>2 DEF Debt
    <3>q. QED BY <3>1, <3>2, <3>4, <2>3
  <2>5. CASE ~(o.type = "Committed" /\ o.id = i)
    BY <1>3, <2>1, <2>2, <2>3, <2>5 DEF Debt
  <2>q. QED BY <2>4, <2>5
<1>7. ASSUME o.type \in {"Committed", "Corrected"}
      PROVE  o.count = MinOf(CountCap, more[o.id])
  <2>1. o.count = MinOf(CountCap, base[o.id] + Debt(u, f, f + 1, o.id))
    BY <1>1, <1>4, <1>7 DEF Tallied
  <2>2. f + 1 \in (f + 1)..Len(u) /\ (f + 1 + 1)..(f + 1) = {} BY <1>1
  <2>3. Debt(u, f + 1, f + 1, o.id) = 0 BY <2>2 DEF Debt
  <2>4. more[o.id] + 0 = base[o.id] + Debt(u, f, f + 1, o.id) /\ more[o.id] \in Nat
    BY <2>2, <2>3, <1>3, <1>6
  <2>h. HIDE DEF more, o
  <2>q. QED BY <2>1, <2>4
<1>8. Tallied(u, more, f + 1)
  BY <1>1, <1>2, <1>4, <1>6 DEF Tallied
<1>9. Len(u) \in (f + 1)..Len(u) BY <1>1
<1>10. \A i \in Ids : more[i] + Debt(u, f + 1, Len(u), i)
                      = base[i] + Debt(u, f, Len(u), i) /\ more[i] \in Nat
  BY <1>6, <1>9
<1>h2. HIDE DEF more, o
<1>11. InProgress(s) => s.commits = MinOf(CountCap, more[s.id] + Debt(u, f + 1, Len(u), s.id))
  BY <1>4, <1>5, <1>10
<1>12. ASSUME NEW i \in Ids, i >= s.nextId
       PROVE  more[i] = 0 /\ Debt(u, f + 1, Len(u), i) = 0
  BY <1>4, <1>10, <1>12, DebtType
<1>13. Counted(s, more, f + 1)
  BY <1>4, <1>8, <1>11, <1>12 DEF Counted, u
<1>q. QED BY <1>7, <1>13 DEF more, o, u

\* The next tick starts with every outcome settled.
LEMMA TickCounted ==
  ASSUME NEW base \in [Ids -> Nat], NEW s, Sound(s), Counted(s, base, Len(s.out))
  PROVE  Counted(TickOver(s), base, 0)
<1> DEFINE r == TickOver(s)
           u == s.out
<1>1. s \in ActorType /\ Len(u) \in Nat BY OutcomeAt DEF Sound
<1>2. /\ r.out = << >> /\ r.phase = s.phase /\ r.id = s.id /\ r.commits = s.commits
      /\ r.nextId = s.nextId /\ r.equipped = s.equipped /\ r.ammo = s.ammo
      /\ r.reserve = s.reserve /\ r.binding = s.binding /\ r.source = s.source
  BY <1>1 DEF TickOver, ActorType
<1>h. HIDE DEF r
<1>3. (Len(u) + 1)..Len(u) = {} BY <1>1
<1>4. \A i : Debt(u, Len(u), Len(u), i) = 0 BY <1>3 DEF Debt
<1>5. Len(<< >>) = 0 /\ (0 + 1)..0 = {} /\ 1..0 = {} OBVIOUS
<1>6. \A i : Debt(<< >>, 0, Len(<< >>), i) = 0 BY <1>5 DEF Debt
<1>7. Tallied(<< >>, base, 0) BY <1>5 DEF Tallied
<1>8. InProgress(r) <=> InProgress(s) BY <1>2 DEF InProgress
<1>q. QED BY <1>2, <1>4, <1>5, <1>6, <1>7, <1>8 DEF Counted, r

\* Blocks, life and pending interrupts count for nothing.
LEMMA WorldSteadfast ==
  ASSUME NEW s \in ActorType, NEW reason,
         NEW r \in {Staggered(s), Unblocked(s, reason), HandsTaken(s),
                    Killed(s), Revived(s)}
  PROVE  Steadfast(s, r) /\ r.out = s.out
<1> DEFINE Same(u) ==
             /\ u.nextId = s.nextId /\ u.equipped = s.equipped /\ u.advanced = s.advanced
             /\ u.phase = s.phase /\ u.id = s.id /\ u.commits = s.commits
             /\ u.binding = s.binding /\ u.source = s.source /\ u.ammo = s.ammo
             /\ u.reserve = s.reserve /\ u.out = s.out
<1>s. Same(Staggered(s)) BY DEF Staggered, ActorType
<1>u. Same(Unblocked(s, reason)) BY DEF Unblocked, ActorType
<1>t. Same(HandsTaken(s)) BY DEF HandsTaken, ActorType
<1>k. Same(Killed(s)) BY DEF Killed, ActorType
<1>r. Same(Revived(s)) BY DEF Revived, ActorType
<1>h. HIDE DEF Same
<1>e. \/ r = Staggered(s) \/ r = Unblocked(s, reason) \/ r = HandsTaken(s)
      \/ r = Killed(s) \/ r = Revived(s)
  OBVIOUS
<1>1. Same(r) BY <1>s, <1>u, <1>t, <1>k, <1>r, <1>e
<1>q. QED BY <1>1 DEF Same, Steadfast, InProgress

\* A result that is not a refusal counts the commits of its instance that took
\* effect, however the instance ended and whatever the cache has forgotten, for
\* catalogs in which the world refuses no commit that is due (no targeted
\* strikes, reloads of one commit) and ids short of the last one.
THEOREM CountsAreEffects ==
  ASSUME NoStrikes, ShortIds
  PROVE  Spec => []CountsEffects
<1> DEFINE Recorded == /\ RunInv /\ CountsEffects
                    /\ Counted(actor, hist.commits, settled)
<1>i. \A i \in IntentIds \cup {0} : i \in Ids /\ i # IdModulus - 1
  BY SessionAssumption, Zeros, RuntimeAssumption DEF ShortIds, Ids
<1>c. CountsEffects <=> Truthful(session, hist.commits)
  BY DEF CountsEffects, Truthful
<1>1. Init => Recorded
  <2> SUFFICES ASSUME Init PROVE Recorded
    OBVIOUS
  <2>1. PICK w \in Weapons : actor = InitActor(w) BY DEF Init
  <2>2. /\ actor.out = << >> /\ ~InProgress(actor) /\ actor.equipped = Weapons
        /\ settled = 0 /\ hist.commits = [i \in Ids |-> 0]
    BY <2>1, InitActorFit DEF Init, InitHistory, InitActor
  <2>3. Len(<< >>) = 0 /\ (0 + 1)..0 = {} /\ 1..0 = {} OBVIOUS
  <2>4. Tallied(<< >>, hist.commits, 0) BY <2>3 DEF Tallied
  <2>5. \A i : Debt(<< >>, 0, Len(<< >>), i) = 0 BY <2>3 DEF Debt
  <2>6. Counted(actor, hist.commits, settled)
    BY <2>2, <2>3, <2>4, <2>5 DEF Counted
  <2>7. CountsEffects BY DEF Init, InitSession, CountsEffects
  <2>q. QED BY <2>6, <2>7, InitRun
<1>2. Recorded /\ [Next]_vars => Recorded'
  <2> SUFFICES ASSUME Recorded, [Next]_vars PROVE Recorded'
    OBVIOUS
  <2>f. /\ Fit(actor) /\ Steadied(actor) /\ TypeInv /\ hist \in HistoryType
        /\ Sound(actor) /\ actor \in ActorType /\ hist.commits \in [Ids -> Nat]
        /\ session \in SessionType /\ Cached(session) /\ tick \in 0..MaxTick
    BY DEF RunInv, TypeInv, HistoryType, Sound
  <2>r. RunInv' BY NextRun
  <2>1. ASSUME Counted(actor, hist.commits, settled)', CountsEffects' PROVE Recorded'
    BY <2>1, <2>r
  <2>h. HIDE DEF Recorded
  <2>k. RunInv /\ CountsEffects /\ Counted(actor, hist.commits, settled) BY DEF Recorded
  <2>2. ASSUME NEW in \in Inputs(IntentIds \cup {0}), ReceiveInput(in) PROVE Recorded'
    <3> DEFINE p == prepare_server_action_intent(session, actor, in.intent, in.selected)
    <3>1. in.intent \in Intents(Ids) BY InputsKnown
    <3>2. Truthful(p.session, hist.commits)
      BY <3>1, <2>f, <2>k, <1>c, PrepareTruthful
    <3>3. /\ session' = p.session /\ hist'.commits = hist.commits
          /\ actor' = actor /\ settled' = settled
      BY <2>2, <2>f DEF ReceiveInput, HistoryType
    <3>h. HIDE DEF p
    <3>4. CountsEffects' BY <3>2, <3>3 DEF CountsEffects, Truthful
    <3>5. Counted(actor, hist.commits, settled)' BY <3>3, <2>k
    <3>q. QED BY <3>4, <3>5, <2>1
  <2>3. ASSUME session' = session, hist' = hist, settled' = settled,
               Counted(actor', hist.commits, settled)
        PROVE  Recorded'
    BY <2>1, <2>3, <2>k DEF CountsEffects
  <2>4. CASE SimulateInput
    <3>1. settled = 0 /\ inputs # << >> BY <2>4, <2>f DEF SimulateInput, TypeInv
    <3>2. /\ Head(inputs) \in Inputs(Ids)
          /\ Head(inputs).intent.id \in IntentIds \cup {0}
      BY <3>1, <2>f, InputAt DEF Inputs, Intents
    <3>3. PICK found \in BOOLEAN : actor' = WeaponPass(actor, Head(inputs), found)
      BY <2>4 DEF SimulateInput
    <3>4. Counted(actor', hist.commits, 0)
      BY <3>1, <3>2, <3>3, <2>f, <2>k, <1>i, PassCounted
    <3>q. QED BY <3>1, <3>4, <2>3, <2>4 DEF SimulateInput
  <2>5. CASE SimulateIdle
    BY <2>3, <2>5, <2>f, <2>k, PassCounted DEF SimulateIdle, TypeInv
  <2>6. CASE FinalizeOutcome
    <3> DEFINE o == actor.out[settled + 1]
               base == hist.commits
               more == [base EXCEPT ![o.id] = IF o.type = "Committed" THEN @ + 1 ELSE @]
    <3>1. /\ settled \in 0..Len(actor.out) /\ settled < Len(actor.out)
      BY <2>6, <2>f DEF FinalizeOutcome, TypeInv
    <3>2. o \in Outcomes BY <3>1, <2>f, OutcomeAt
    <3>3. /\ Counted(actor, more, settled + 1)
          /\ o.type \in {"Committed", "Corrected"} => o.count = MinOf(CountCap, more[o.id])
      BY <3>1, <2>f, <2>k, SettleCounted
    <3>4. /\ session' = Settle(session, o) /\ hist'.commits = more
          /\ settled' = settled + 1 /\ actor' = actor
      BY <2>6, <2>f DEF FinalizeOutcome, HistoryType
    <3>5. \A i \in DOMAIN session.recent :
            i # o.id \/ o.type \in {"Admitted", "Completed"} => more[i] = base[i]
      BY <2>f, CacheDomain
    <3>h. HIDE DEF o, more
    <3>6. Truthful(Settle(session, o), more)
      BY <3>2, <3>3, <3>5, <2>f, <2>k, SettleTruthful DEF CountsEffects
    <3>7. CountsEffects' BY <3>4, <3>6 DEF CountsEffects, Truthful
    <3>8. Counted(actor, hist.commits, settled)' BY <3>3, <3>4
    <3>q. QED BY <3>7, <3>8, <2>1
  <2>7. ASSUME NEW batches \in Batches, Flush(batches) PROVE Recorded'
    BY <2>1, <2>7, <2>f, <2>k, TickCounted DEF Flush, SessionType, HistoryType,
      CountsEffects
  <2>8. CASE Stagger \/ Steady \/ TakeHands \/ Die \/ Revive
    <3>1. actor' \in {Staggered(actor), Unblocked(actor, "Staggered"),
                      HandsTaken(actor), Killed(actor), Revived(actor)}
      BY <2>8 DEF Stagger, Steady, TakeHands, Die, Revive, World
    <3>2. session' = session /\ hist' = hist /\ settled' = settled
      BY <2>8 DEF Stagger, Steady, TakeHands, Die, Revive, World
    <3>3. Steadfast(actor, actor') /\ actor'.out = actor.out
      BY <3>1, <2>f, WorldSteadfast
    <3>q. QED BY <3>2, <3>3, <2>3, <2>k, QuietCounted
  <2>9. CASE UNCHANGED vars BY <2>3, <2>9, <2>k DEF vars
  <2>q. QED BY <2>2, <2>4, <2>5, <2>6, <2>7, <2>8, <2>9 DEF Next, Server
<1>3. Recorded => CountsEffects OBVIOUS
<1>h. HIDE DEF Recorded
<1>q. QED BY <1>1, <1>2, <1>3, PTL DEF Spec

-----------------------------------------------------------------------------
(* The host, ListenHost.                                                   *)

\* What travels to the local client.
Mail == Results \cup [type: {"Snapshot"}, tick: 0..MaxTick, action: Ids]

\* A message is a result of instance i, and one that ends it.
Word(m, i) == m.type # "Snapshot" /\ m.id = i
Final(m, i) == Word(m, i) /\ m.type \in {"Rejected", "Corrected"}

\* What the client half has still to read.
Stream == wire \o session.pending

\* An end of i has been handed on or is on its way: e counts the first, st is
\* the stream.
Shut(st, e, i) == e[i] > 0 \/ \E j \in DOMAIN st : Final(st[j], i)

\* The server has nothing to say of i any more but x: ap are the results
\* applied, rec those the server remembers.
Sealed(st, e, ap, rec, i, x) ==
  /\ \A k \in DOMAIN st :
       Word(st[k], i) /\ (e[i] > 0 \/ \E j \in 1..k : Final(st[j], i)) => st[k] = x
  /\ e[i] > 0 => e[i] = 1 /\ i \in DOMAIN ap /\ ap[i] = x
  /\ i \in DOMAIN rec => rec[i] = x

OneEnd(st, e, ap, rec) ==
  \A i \in Ids : Shut(st, e, i) => \E x : Sealed(st, e, ap, rec, i, x)

\* The claimed instance has not ended.
ClaimOpen(st, e, ses) ==
  ses.claim # 0 =>
    /\ ~Shut(st, e, ses.claim)
    /\ ses.claim \in DOMAIN ses.recent => ses.recent[ses.claim].type = "Accepted"

\* A result of the claimed instance that the cache lacks is still to come.
Coming(ses) == IF ses.claim # 0 /\ ses.claim \notin DOMAIN ses.recent THEN 1 ELSE 0

\* The result of i outlasts p more results, and what is claimed came after it.
Slot(ses, i, p) ==
  \E q \in DOMAIN ses.order :
    /\ ses.order[q] = i
    /\ Len(ses.order) - q + p + Coming(ses) <= RecentCapacity
    /\ \A c \in DOMAIN ses.order : ses.claim # 0 /\ ses.order[c] = ses.claim => q <= c

\* An instance the server must not forget while its intent is queued again.
Bound(st, e, ses, i) ==
  Shut(st, e, i) \/ (ses.claim # 0 /\ ses.claim = i /\ i \in DOMAIN ses.recent)

Room(st, e, ses, queue) ==
  \A p \in DOMAIN queue :
    Bound(st, e, ses, queue[p].intent.id) => Slot(ses, queue[p].intent.id, p)

\* The outcomes from position "from" on are of instance c, an end is the last
\* of them, and a commit has been counted.
Orderly(u, from, c) ==
  \A k \in (from + 1)..Len(u) :
    /\ u[k].id = c /\ c # 0
    /\ Ends(u[k]) => k = Len(u)
    /\ u[k].type = "Committed" => u[k].count # 0

\* What the cache says of the claimed instance the client has heard or will.
Voiced(st, ap, ses) ==
  ses.claim # 0 /\ ses.claim \in DOMAIN ses.recent =>
    \/ ses.claim \in DOMAIN ap
    \/ \E k \in DOMAIN st : Word(st[k], ses.claim) /\ st[k].count # 0

\* An entry that has counted commits was told of them.
Noted == \A i \in DOMAIN own.outstanding :
           own.outstanding[i].confirmed # 0 => i \in DOMAIN own.applied

\* Between ticks nothing is half done, and between updates nothing is on the way.
Phased ==
  /\ turn \in {"host", "expire", "ticks", "drain"} /\ left \in Nat
  /\ turn # "ticks" \/ left = 0 =>
       session.pending = << >> /\ inputs = << >> /\ stage = "poll"
  /\ turn \in {"host", "expire"} => wire = << >>
  /\ stage = "finalize" => inputs = << >>

Entries ==
  {o \in [age: Nat, confirmed: Counts, binding: Bindings, weapon: Arms,
          terminal: BOOLEAN, ammo: Nat] :
     o.weapon \in Weapons => o.ammo <= MagazineSize[o.weapon]}
Edges == [intent: [id: IntentIds, binding: Bindings], selected: Arms]

Ledgers == UNION {[D -> Entries] : D \in SUBSET Ids}

OwnType ==
  [pending: Seq(Edges), outstanding: Ledgers,
   applied: Caches, baseline: Int, ends: [Ids -> Nat]]

HostTypes ==
  /\ own \in OwnType /\ wire \in Seq(Mail)
  /\ Len(own.pending) <= MaxPending
  /\ \A j, k \in DOMAIN own.pending :
       own.pending[j].intent.id = own.pending[k].intent.id => j = k

\* What stream st, the client's books e and ap, and the session ses agree on.
Agreed(st, e, ap, ses) ==
  /\ OneEnd(st, e, ap, ses.recent)
  /\ ClaimOpen(st, e, ses) /\ Voiced(st, ap, ses)

HostInv ==
  /\ RunInv /\ Alone /\ HostTypes /\ Phased /\ Noted
  /\ Agreed(Stream, own.ends, own.applied, session)
  /\ Room(Stream, own.ends, session, own.pending)
  /\ Orderly(actor.out, settled, session.claim)

-----------------------------------------------------------------------------
(* The stream.                                                             *)

\* The parts of a sequence one longer, and of one shorter.
LEMMA Longer ==
  ASSUME NEW S, NEW q \in Seq(S), NEW e \in S
  PROVE  /\ Append(q, e) \in Seq(S) /\ Len(q) \in Nat
         /\ DOMAIN q = 1..Len(q) /\ DOMAIN Append(q, e) = 1..(Len(q) + 1)
         /\ Len(Append(q, e)) = Len(q) + 1
         /\ Append(q, e)[Len(q) + 1] = e
         /\ \A k \in 1..Len(q) : Append(q, e)[k] = q[k]
  OBVIOUS

LEMMA Shorter ==
  ASSUME NEW S, NEW q \in Seq(S), q # << >>
  PROVE  /\ Tail(q) \in Seq(S) /\ Len(q) \in Nat \ {0} /\ Head(q) \in S
         /\ DOMAIN q = 1..Len(q) /\ DOMAIN Tail(q) = 1..(Len(q) - 1)
         /\ Len(Tail(q)) = Len(q) - 1 /\ Head(q) = q[1]
         /\ \A k \in 1..(Len(q) - 1) : Tail(q)[k] = q[k + 1]
  OBVIOUS

\* A message more: the ends it brings.
LEMMA ShutLonger ==
  ASSUME NEW st \in Seq(Mail), NEW m \in Mail, NEW e, NEW i
  PROVE  Shut(Append(st, m), e, i) <=> Shut(st, e, i) \/ Final(m, i)
<1> DEFINE v == Append(st, m)
<1>1. /\ Len(st) \in Nat /\ DOMAIN st = 1..Len(st) /\ DOMAIN v = 1..(Len(st) + 1)
      /\ v[Len(st) + 1] = m /\ \A k \in 1..Len(st) : v[k] = st[k]
  BY Longer
<1>h. HIDE DEF v
<1>2. \A k \in DOMAIN v : k \in DOMAIN st \/ k = Len(st) + 1 BY <1>1
<1>3. Len(st) + 1 \in DOMAIN v /\ \A k \in DOMAIN st : k \in DOMAIN v BY <1>1
<1>4. Shut(v, e, i) <=> Shut(st, e, i) \/ Final(m, i)
  BY <1>1, <1>2, <1>3 DEF Shut
<1>q. QED BY <1>4 DEF v

\* A result is queued: of an instance that has ended only the one it ended with.
LEMMA OneEndQueued ==
  ASSUME NEW st \in Seq(Mail), NEW e, NEW ap, NEW rec, OneEnd(st, e, ap, rec),
         NEW r \in Results, NEW rec2,
         r.id \in DOMAIN rec2 => rec2[r.id] = r,
         \A j \in DOMAIN rec2 \ {r.id} : j \in DOMAIN rec /\ rec2[j] = rec[j],
         Shut(st, e, r.id) => r.id \in DOMAIN rec /\ rec[r.id] = r,
         NEW st2, st2 = st \/ st2 = Append(st, r)
  PROVE  OneEnd(st2, e, ap, rec2)
<1> SUFFICES ASSUME NEW i \in Ids, Shut(st2, e, i)
             PROVE  \E x : Sealed(st2, e, ap, rec2, i, x)
  BY DEF OneEnd
<1>r. r \in Mail /\ r.type # "Snapshot" BY DEF Mail, Results
<1>1. ASSUME Shut(st, e, i) PROVE \E x : Sealed(st2, e, ap, rec2, i, x)
  <2>1. PICK x : Sealed(st, e, ap, rec, i, x) BY <1>1 DEF OneEnd
  <2>2. i = r.id => x = r BY <1>1, <2>1 DEF Sealed
  <2>3. i \in DOMAIN rec2 => rec2[i] = x BY <2>1, <2>2 DEF Sealed
  <2>4. CASE st2 = st BY <2>1, <2>3, <2>4 DEF Sealed
  <2>5. CASE st2 = Append(st, r)
    <3>1. /\ Len(st) \in Nat /\ DOMAIN st = 1..Len(st)
          /\ DOMAIN st2 = 1..(Len(st) + 1)
          /\ st2[Len(st) + 1] = r /\ \A k \in 1..Len(st) : st2[k] = st[k]
      BY <1>r, <2>5, Longer
    <3>2. ASSUME NEW k \in DOMAIN st2, Word(st2[k], i),
                 e[i] > 0 \/ \E j \in 1..k : Final(st2[j], i)
          PROVE  st2[k] = x
      BY <2>1, <2>2, <3>1, <3>2 DEF Word, Sealed
    <3>q. QED BY <2>1, <2>3, <3>2 DEF Sealed
  <2>q. QED BY <2>4, <2>5
<1>2. ASSUME ~Shut(st, e, i) PROVE \E x : Sealed(st2, e, ap, rec2, i, x)
  <2>1. st2 = Append(st, r) /\ Final(r, i)
    BY <1>2, <1>r, ShutLonger
  <2>2. i = r.id BY <2>1 DEF Final, Word
  <2>3. /\ Len(st) \in Nat /\ DOMAIN st = 1..Len(st)
        /\ DOMAIN st2 = 1..(Len(st) + 1)
        /\ st2[Len(st) + 1] = r /\ \A k \in 1..Len(st) : st2[k] = st[k]
    BY <1>r, <2>1, Longer
  <2>4. ~(e[i] > 0) /\ \A j \in DOMAIN st : ~Final(st[j], i) BY <1>2 DEF Shut
  <2>5. ASSUME NEW k \in DOMAIN st2, \E j \in 1..k : Final(st2[j], i)
        PROVE  st2[k] = r
    BY <2>3, <2>4, <2>5
  <2>6. Sealed(st2, e, ap, rec2, i, r) BY <2>2, <2>4, <2>5 DEF Sealed
  <2>q. QED BY <2>6
<1>q. QED BY <1>1, <1>2

\* A snapshot joins the stream.
LEMMA OneEndSnapshot ==
  ASSUME NEW st \in Seq(Mail), NEW e, NEW ap, NEW rec, OneEnd(st, e, ap, rec),
         NEW m \in Mail, m.type = "Snapshot"
  PROVE  OneEnd(Append(st, m), e, ap, rec)
<1> DEFINE v == Append(st, m)
<1>1. /\ Len(st) \in Nat /\ DOMAIN st = 1..Len(st) /\ DOMAIN v = 1..(Len(st) + 1)
      /\ v[Len(st) + 1] = m /\ \A k \in 1..Len(st) : v[k] = st[k]
  BY Longer
<1>2. \A i : ~Word(m, i) /\ ~Final(m, i) BY DEF Word, Final
<1>3. \A i : Shut(v, e, i) => Shut(st, e, i) BY <1>2, ShutLonger
<1>h. HIDE DEF v
<1>4. ASSUME NEW i, NEW x, Sealed(st, e, ap, rec, i, x)
      PROVE  Sealed(v, e, ap, rec, i, x)
  BY <1>1, <1>2, <1>4 DEF Sealed
<1>5. OneEnd(v, e, ap, rec) BY <1>3, <1>4 DEF OneEnd
<1>q. QED BY <1>5 DEF v

\* The head of the stream is read and dropped.
LEMMA OneEndDropped ==
  ASSUME NEW st \in Seq(Mail), st # << >>, NEW e, NEW ap, NEW rec
  PROVE  /\ \A i : Shut(Tail(st), e, i) => Shut(st, e, i)
         /\ OneEnd(st, e, ap, rec) => OneEnd(Tail(st), e, ap, rec)
<1> DEFINE v == Tail(st)
<1>1. /\ Len(st) \in Nat \ {0} /\ DOMAIN st = 1..Len(st)
      /\ DOMAIN v = 1..(Len(st) - 1)
      /\ \A k \in 1..(Len(st) - 1) : v[k] = st[k + 1]
  BY Shorter
<1>h. HIDE DEF v
<1>2. \A k \in DOMAIN v : k + 1 \in DOMAIN st /\ v[k] = st[k + 1] BY <1>1
<1>3. \A i : Shut(v, e, i) => Shut(st, e, i) BY <1>2 DEF Shut
<1>4. ASSUME NEW i, NEW x, Sealed(st, e, ap, rec, i, x)
      PROVE  Sealed(v, e, ap, rec, i, x)
  BY <1>1, <1>2, <1>4 DEF Sealed
<1>5. OneEnd(st, e, ap, rec) => OneEnd(v, e, ap, rec)
  BY <1>3, <1>4 DEF OneEnd
<1>q. QED BY <1>3, <1>5 DEF v

\* It is read and applied: then nothing of it was applied before.
LEMMA OneEndTaken ==
  ASSUME NEW st \in Seq(Mail), st # << >>, Head(st) \in Results,
         NEW e \in [Ids -> Nat], NEW ap, NEW rec, OneEnd(st, e, ap, rec),
         Head(st).id \in DOMAIN ap => ap[Head(st).id] # Head(st),
         NEW e2 \in [Ids -> Nat], NEW ap2,
         \A j \in Ids \ {Head(st).id} :
           e2[j] = e[j] /\ (j \in DOMAIN ap => j \in DOMAIN ap2 /\ ap2[j] = ap[j]),
         Head(st).id \in DOMAIN ap2, ap2[Head(st).id] = Head(st),
         e2[Head(st).id] = IF Final(Head(st), Head(st).id)
                           THEN e[Head(st).id] + 1 ELSE e[Head(st).id]
  PROVE  /\ OneEnd(Tail(st), e2, ap2, rec)
         /\ \A i \in Ids : Shut(Tail(st), e2, i) => Shut(st, e, i)
<1> DEFINE v == Tail(st)
           m == Head(st)
           c == m.id
<1>1. /\ Len(st) \in Nat \ {0} /\ DOMAIN st = 1..Len(st)
      /\ DOMAIN v = 1..(Len(st) - 1) /\ m = st[1]
      /\ \A k \in 1..(Len(st) - 1) : v[k] = st[k + 1]
  BY Shorter
<1>2. c \in Ids /\ Word(m, c) BY DEF Results, Word
<1>a. /\ c \in DOMAIN ap => ap[c] # m
      /\ \A j \in Ids \ {c} :
           e2[j] = e[j] /\ (j \in DOMAIN ap => j \in DOMAIN ap2 /\ ap2[j] = ap[j])
      /\ c \in DOMAIN ap2 /\ ap2[c] = m
      /\ e2[c] = IF Final(m, c) THEN e[c] + 1 ELSE e[c]
  OBVIOUS
<1>h. HIDE DEF v, m, c
<1>3. 1 \in DOMAIN st BY <1>1
<1>4. \A k \in DOMAIN v : k + 1 \in DOMAIN st /\ v[k] = st[k + 1] BY <1>1
<1>5. e[c] = 0
  BY <1>1, <1>2, <1>3, <1>a DEF Shut, OneEnd, Sealed
<1>6. \A i \in Ids : Shut(v, e2, i) => Shut(st, e, i)
  BY <1>1, <1>3, <1>4, <1>5, <1>a DEF Shut
<1>7. ASSUME NEW i \in Ids, NEW x, Sealed(st, e, ap, rec, i, x), Shut(v, e2, i)
      PROVE  Sealed(v, e2, ap2, rec, i, x)
  <2>1. ASSUME NEW k \in DOMAIN v, Word(v[k], i),
               e2[i] > 0 \/ \E j \in 1..k : Final(v[j], i)
        PROVE  v[k] = x
    <3>1. k + 1 \in DOMAIN st /\ v[k] = st[k + 1] BY <1>4
    <3>2. ASSUME e2[i] > 0, ~(e[i] > 0) PROVE Final(st[1], i)
      BY <1>1, <1>a, <1>5, <3>2
    <3>3. \A j \in 1..k : j + 1 \in 1..(k + 1) /\ v[j] = st[j + 1] BY <1>1
    <3>4. 1 \in 1..(k + 1) BY <1>1
    <3>5. e[i] > 0 \/ \E j \in 1..(k + 1) : Final(st[j], i)
      BY <2>1, <3>2, <3>3, <3>4
    <3>q. QED BY <1>7, <2>1, <3>1, <3>5 DEF Sealed
  <2>2. e2[i] > 0 => e2[i] = 1 /\ i \in DOMAIN ap2 /\ ap2[i] = x
    BY <1>1, <1>2, <1>3, <1>5, <1>7, <1>a DEF Sealed
  <2>q. QED BY <1>7, <2>1, <2>2 DEF Sealed
<1>8. OneEnd(v, e2, ap2, rec) BY <1>6, <1>7 DEF OneEnd
<1>q. QED BY <1>6, <1>8 DEF v

-----------------------------------------------------------------------------
(* The cache and the queue of intents.                                     *)

\* What queueing result r makes of session a, the claim aside.
Queued(a, b, r) ==
  /\ r.id \in DOMAIN b.recent /\ b.recent[r.id] = r
  /\ \A j \in DOMAIN b.recent \ {r.id} : j \in DOMAIN a.recent /\ b.recent[j] = a.recent[j]
  /\ IF r.id \in DOMAIN a.recent
     THEN b.order = a.order
     ELSE b.order = IF Len(a.order) < RecentCapacity THEN Append(a.order, r.id)
                    ELSE Tail(Append(a.order, r.id))
  /\ \/ /\ b.pending = a.pending
        /\ \E k \in DOMAIN a.pending : SameResult(a.pending[k], r)
     \/ b.pending = Append(a.pending, r)

LEMMA QueueShape ==
  ASSUME NEW ses \in SessionType, Cached(ses), NEW r \in Results
  PROVE  LET q == queue_local_action_result(ses, r)
         IN q \in SessionType /\ Cached(q) /\ q.claim = ses.claim /\ Queued(ses, q, r)
<1> DEFINE a == Remember(ses, r)
           b == [a EXCEPT !.pending = Append(a.pending, r)]
           q == queue_local_action_result(ses, r)
           new == r.id \notin DOMAIN ses.recent
           order == IF new THEN Append(ses.order, r.id) ELSE ses.order
           full == Len(order) > RecentCapacity
           known == (DOMAIN ses.recent \cup {r.id}) \ (IF full THEN {Head(order)} ELSE {})
<1>1. q \in SessionType /\ Cached(q) /\ q.claim = ses.claim BY QueueKeeps
<1>2. a \in SessionType /\ a.pending = ses.pending BY RememberKeeps
<1>3. r.id \in DOMAIN a.recent BY RememberKnows
<1>4. /\ a.order = IF full THEN Tail(order) ELSE order
      /\ a.recent = [i \in known |-> IF i = r.id THEN r ELSE ses.recent[i]]
  BY DEF Remember, SessionType
<1>5. ses.order \in Seq(Ids) /\ r.id \in Ids /\ Len(ses.order) <= RecentCapacity
      /\ RecentCapacity \in Nat
  BY SessionAssumption DEF SessionType, Results, Cached
<1>6. Len(ses.order) \in Nat /\ Len(Append(ses.order, r.id)) = Len(ses.order) + 1
  BY <1>5, Longer
<1>7. IF r.id \in DOMAIN ses.recent
      THEN a.order = ses.order
      ELSE a.order = IF Len(ses.order) < RecentCapacity THEN Append(ses.order, r.id)
                     ELSE Tail(Append(ses.order, r.id))
  <2>1. CASE r.id \in DOMAIN ses.recent BY <1>4, <1>5, <1>6, <2>1
  <2>2. CASE r.id \notin DOMAIN ses.recent
    <3>1. order = Append(ses.order, r.id) BY <2>2
    <3>2. full <=> ~(Len(ses.order) < RecentCapacity) BY <1>5, <1>6, <3>1
    <3>h. HIDE DEF full, order
    <3>q. QED BY <1>4, <2>2, <3>1, <3>2
  <2>q. QED BY <2>1, <2>2
<1>8. /\ a.recent[r.id] = r
      /\ \A j \in DOMAIN a.recent \ {r.id} :
           j \in DOMAIN ses.recent /\ a.recent[j] = ses.recent[j]
  <2>h. HIDE DEF full, order
  <2>q. QED BY <1>3, <1>4
<1>9. q = IF \E k \in DOMAIN a.pending : SameResult(a.pending[k], r) THEN a ELSE b
  BY <1>2 DEF queue_local_action_result, SessionType
<1>h. HIDE DEF a
<1>10. b.recent = a.recent /\ b.order = a.order /\ b.pending = Append(a.pending, r)
  BY <1>2 DEF SessionType
<1>h2. HIDE DEF b, q
<1>11. Queued(ses, q, r) BY <1>2, <1>3, <1>7, <1>8, <1>9, <1>10 DEF Queued
<1>q. QED BY <1>1, <1>11 DEF q

\* The place of an id in the eviction order after a new one joins: d is 1 when
\* the oldest had to leave.
LEMMA OrderMoves ==
  ASSUME NEW a \in SessionType, Cached(a), NEW b \in SessionType, NEW r \in Results,
         Queued(a, b, r), r.id \notin DOMAIN a.recent
  PROVE  \E d \in {0, 1} :
           /\ Len(a.order) \in Nat /\ DOMAIN a.order = 1..Len(a.order)
           /\ DOMAIN b.order = 1..(Len(a.order) + 1 - d)
           /\ Len(b.order) = Len(a.order) + 1 - d
           /\ \A k \in 1..(Len(a.order) - d) : b.order[k] = a.order[k + d]
           /\ b.order[Len(a.order) + 1 - d] = r.id
           /\ d = 1 => Len(a.order) = RecentCapacity
<1> DEFINE L == Len(a.order)
           u == Append(a.order, r.id)
<1>1. a.order \in Seq(Ids) /\ r.id \in Ids /\ L <= RecentCapacity
      /\ RecentCapacity \in Nat \ {0}
  BY SessionAssumption DEF SessionType, Results, Cached
<1>2. /\ u \in Seq(Ids) /\ L \in Nat /\ DOMAIN a.order = 1..L
      /\ DOMAIN u = 1..(L + 1) /\ Len(u) = L + 1
      /\ u[L + 1] = r.id /\ \A k \in 1..L : u[k] = a.order[k]
  BY <1>1, Longer
<1>3. b.order = IF L < RecentCapacity THEN u ELSE Tail(u) BY DEF Queued
<1>h. HIDE DEF u
<1>4. CASE L < RecentCapacity
  BY <1>2, <1>3, <1>4
<1>5. CASE ~(L < RecentCapacity)
  BY <1>1, <1>2, <1>3, <1>5, Shorter
<1>q. QED BY <1>4, <1>5

LEMMA ComingBit == ASSUME NEW ses PROVE Coming(ses) \in {0, 1}
  BY DEF Coming

\* A new result of another instance costs the result of i one place.
LEMMA SlotAfterRefusal ==
  ASSUME NEW a \in SessionType, Cached(a), NEW b \in SessionType, Cached(b),
         NEW r \in Results, Queued(a, b, r), r.id \notin DOMAIN a.recent,
         b.claim = a.claim, r.id # a.claim,
         NEW i, NEW p \in Nat, p >= 2, Slot(a, i, p)
  PROVE  Slot(b, i, p - 1)
<1> DEFINE L == Len(a.order)
<1>1. PICK d \in {0, 1} :
        /\ L \in Nat /\ DOMAIN a.order = 1..L /\ DOMAIN b.order = 1..(L + 1 - d)
        /\ Len(b.order) = L + 1 - d
        /\ \A k \in 1..(L - d) : b.order[k] = a.order[k + d]
        /\ b.order[L + 1 - d] = r.id /\ (d = 1 => L = RecentCapacity)
  BY OrderMoves
<1>2. PICK q \in DOMAIN a.order :
        /\ a.order[q] = i /\ L - q + p + Coming(a) <= RecentCapacity
        /\ \A c \in DOMAIN a.order : a.claim # 0 /\ a.order[c] = a.claim => q <= c
  BY DEF Slot
<1>3. q \in 1..L /\ RecentCapacity \in Nat /\ Coming(a) \in {0, 1}
  BY <1>1, <1>2, SessionAssumption, ComingBit
<1>4. q - d \in 1..(L - d)
  <2>1. PICK y \in {0, 1} : y = Coming(a) BY ComingBit
  <2>2. PICK l \in Nat : l = L BY <1>1
  <2>3. l - q + p + y <= RecentCapacity /\ (d = 1 => l = RecentCapacity)
    BY <1>1, <1>2, <2>1, <2>2
  <2>4. q \in 1..l BY <1>3, <2>2
  <2>5. d = 1 => q >= 2 BY <1>3, <2>3, <2>4
  <2>6. q - d \in 1..(l - d) BY <2>4, <2>5
  <2>q. QED BY <2>2, <2>6
<1>5. q - d \in DOMAIN b.order /\ b.order[q - d] = i
  <2>1. b.order[q - d] = a.order[(q - d) + d] BY <1>1, <1>4
  <2>2. (q - d) + d = q BY <1>3
  <2>3. q - d \in 1..(L + 1 - d) BY <1>1, <1>3, <1>4
  <2>q. QED BY <1>1, <1>2, <2>1, <2>2, <2>3
<1>6. ASSUME a.claim # 0, a.claim \in DOMAIN a.recent PROVE a.claim \in DOMAIN b.recent
  <2>1. PICK c \in DOMAIN a.order : a.order[c] = a.claim BY <1>6 DEF Cached
  <2>2. q <= c /\ c \in 1..L BY <1>1, <1>2, <1>6, <2>1
  <2>3. c - d \in 1..(L - d) /\ (c - d) + d = c BY <1>1, <1>3, <1>4, <2>2
  <2>4. b.order[c - d] = a.claim BY <1>1, <2>1, <2>3
  <2>5. c - d \in DOMAIN b.order BY <1>1, <2>3
  <2>q. QED BY <2>4, <2>5 DEF Cached
<1>7. Coming(b) <= Coming(a) BY <1>6 DEF Coming
<1>8. Len(b.order) - (q - d) + (p - 1) + Coming(b) <= RecentCapacity
  <2>1. PICK x \in {0, 1} : x = Coming(b) BY ComingBit
  <2>2. PICK y \in {0, 1} : y = Coming(a) BY ComingBit
  <2>3. PICK l \in Nat : l = L BY <1>1
  <2>4. PICK m \in Int : m = Len(b.order) /\ m = l + 1 - d
    <3>1. l + 1 - d \in Int OBVIOUS
    <3>2. Len(b.order) = l + 1 - d BY <1>1, <2>3, Zenon
    <3>q. QED BY <3>1, <3>2, Zenon
  <2>5. x <= y BY <1>7, <2>1, <2>2
  <2>6. l - q + p + y <= RecentCapacity BY <1>2, <2>2, <2>3
  <2>7. m - (q - d) + (p - 1) + x <= RecentCapacity
    BY <1>3, <2>4, <2>5, <2>6
  <2>q. QED BY <2>1, <2>4, <2>7, Zenon
<1>9. ASSUME NEW c \in DOMAIN b.order, b.claim # 0, b.order[c] = b.claim
      PROVE  q - d <= c
  <2>1. c \in 1..(L + 1 - d) /\ c # L + 1 - d BY <1>1, <1>9
  <2>2. c \in 1..(L - d) /\ c + d \in 1..L BY <1>1, <2>1
  <2>3. a.order[c + d] = a.claim BY <1>1, <1>9, <2>2
  <2>4. q <= c + d BY <1>1, <1>2, <1>9, <2>2, <2>3
  <2>q. QED BY <1>3, <2>2, <2>4
<1>q. QED BY <1>5, <1>8, <1>9 DEF Slot

\* The first result of the claimed instance was allowed for, and gets a place
\* of its own.
LEMMA SlotAfterOutcome ==
  ASSUME NEW a \in SessionType, Cached(a), NEW b \in SessionType, Cached(b),
         NEW r \in Results, Queued(a, b, r), r.id \notin DOMAIN a.recent,
         a.claim # 0, r.id = a.claim, b.claim \in {a.claim, 0},
         NEW i, NEW p \in Nat, p >= 1
  PROVE  /\ Slot(a, i, p) => Slot(b, i, p)
         /\ p <= RecentCapacity => Slot(b, r.id, p)
<1> DEFINE L == Len(a.order)
<1>1. PICK d \in {0, 1} :
        /\ L \in Nat /\ DOMAIN a.order = 1..L /\ DOMAIN b.order = 1..(L + 1 - d)
        /\ Len(b.order) = L + 1 - d
        /\ \A k \in 1..(L - d) : b.order[k] = a.order[k + d]
        /\ b.order[L + 1 - d] = r.id /\ (d = 1 => L = RecentCapacity)
  BY OrderMoves
<1>2. Coming(a) = 1 /\ Coming(b) = 0 BY DEF Coming, Queued
<1>3. RecentCapacity \in Nat \ {0} BY SessionAssumption
<1>4. ASSUME Slot(a, i, p) PROVE Slot(b, i, p)
  <2>1. PICK q \in DOMAIN a.order :
          a.order[q] = i /\ L - q + p + 1 <= RecentCapacity
    BY <1>2, <1>4 DEF Slot
  <2>2. q \in 1..L /\ q - d \in 1..(L - d) /\ (q - d) + d = q
    <3>1. q \in 1..L BY <1>1
    <3>2. CASE d = 0 BY <3>1, <3>2, <1>1
    <3>3. CASE d = 1
      <4>1. q > 1 BY <1>1, <1>3, <2>1, <3>1, <3>3
      <4>q. QED BY <3>1, <3>3, <4>1, <1>1
    <3>q. QED BY <3>2, <3>3
  <2>3. q - d \in DOMAIN b.order /\ b.order[q - d] = i
    <3>1. b.order[q - d] = a.order[(q - d) + d] BY <1>1, <2>2
    <3>2. q - d \in 1..(L + 1 - d) BY <1>1, <2>2
    <3>q. QED BY <1>1, <2>1, <2>2, <3>1, <3>2
  <2>4. Len(b.order) - (q - d) + p + 0 <= RecentCapacity
    BY <1>1, <1>3, <2>1, <2>2
  <2>5. ASSUME NEW c \in DOMAIN b.order, b.claim # 0, b.order[c] = b.claim
        PROVE  q - d <= c
    <3>1. CASE c = L + 1 - d BY <1>1, <2>2, <3>1
    <3>2. CASE c \in 1..(L - d)
      <4>1. a.order[c + d] = r.id BY <1>1, <2>5, <3>2
      <4>2. c + d \in 1..L BY <1>1, <3>2
      <4>q. QED BY <1>1, <4>1, <4>2 DEF Cached
    <3>q. QED BY <1>1, <3>1, <3>2
  <2>q. QED BY <1>2, <2>3, <2>4, <2>5 DEF Slot
<1>5. ASSUME p <= RecentCapacity PROVE Slot(b, r.id, p)
  <2> DEFINE q == L + 1 - d
  <2>1. q \in DOMAIN b.order /\ b.order[q] = r.id
    BY <1>1, <1>3
  <2>2. Len(b.order) - q + p + 0 <= RecentCapacity BY <1>1, <1>5
  <2>3. ASSUME NEW c \in DOMAIN b.order, b.claim # 0, b.order[c] = b.claim
        PROVE  q <= c
    <3>1. c = q BY <2>1, <2>3 DEF Cached, Distinct
    <3>q. QED BY <1>1, <3>1
  <2>h. HIDE DEF q
  <2>q. QED BY <1>2, <2>1, <2>2, <2>3 DEF Slot
<1>q. QED BY <1>4, <1>5

\* Where the order stands nothing is lost; taking a claim allows for one result.
LEMMA SlotKept ==
  ASSUME NEW a \in SessionType, Cached(a), NEW b \in SessionType, Cached(b),
         b.order = a.order, NEW i, NEW p \in Nat, Slot(a, i, p),
         NEW n \in Nat,
         \/ b.claim \in {a.claim, 0} /\ n <= p
         \/ a.claim = 0 /\ b.claim \notin DOMAIN a.recent /\ n < p
  PROVE  Slot(b, i, n)
<1>1. DOMAIN a.recent = DOMAIN b.recent BY DEF Cached
<1>2. a.order \in Seq(Ids) /\ RecentCapacity \in Nat
  BY SessionAssumption DEF SessionType
<1>3. PICK q \in DOMAIN a.order :
        /\ a.order[q] = i /\ Len(a.order) - q + p + Coming(a) <= RecentCapacity
        /\ \A c \in DOMAIN a.order : a.claim # 0 /\ a.order[c] = a.claim => q <= c
  BY DEF Slot
<1>4. q \in Nat /\ Len(a.order) \in Nat BY <1>2
<1>5. Coming(a) \in {0, 1} /\ Coming(b) \in {0, 1} BY ComingBit
<1>6. CASE b.claim \in {a.claim, 0} /\ n <= p
  <2>1. Coming(b) <= Coming(a) BY <1>1, <1>6 DEF Coming
  <2>2. Len(b.order) - q + n + Coming(b) <= RecentCapacity
    BY <1>2, <1>3, <1>4, <1>5, <1>6, <2>1
  <2>q. QED BY <1>3, <1>6, <2>2 DEF Slot
<1>7. CASE a.claim = 0 /\ b.claim \notin DOMAIN a.recent /\ n < p
  <2>1. Coming(a) = 0 BY <1>7 DEF Coming
  <2>2. Len(b.order) - q + n + Coming(b) <= RecentCapacity
    BY <1>2, <1>3, <1>4, <1>5, <1>7, <2>1
  <2>3. \A c \in DOMAIN b.order : b.order[c] # b.claim BY <1>7 DEF Cached
  <2>q. QED BY <1>3, <2>2, <2>3 DEF Slot
<1>q. QED BY <1>6, <1>7

\* An instance with a place in the cache is in the cache.
LEMMA SlotIsKnown ==
  ASSUME NEW ses, Cached(ses), NEW i, NEW p, Slot(ses, i, p)
  PROVE  i \in DOMAIN ses.recent
  BY DEF Slot, Cached

-----------------------------------------------------------------------------
(* The session's two handlers, seen from the stream.                       *)

SameBooks(a, b) ==
  b.recent = a.recent /\ b.order = a.order /\ b.pending = a.pending

\* What an intent of instance i makes of the session.
LEMMA PrepareShape ==
  ASSUME NEW ses \in SessionType, Cached(ses), NEW s, NEW w,
         NEW intent \in Intents(Ids), intent.binding # Malformed, tick \in 0..MaxTick
  PROVE  LET b == prepare_server_action_intent(ses, s, intent, w).session
             i == intent.id
         IN /\ b \in SessionType /\ Cached(b)
            /\ \/ SameBooks(ses, b) /\ b.claim = ses.claim
               \/ /\ i \in DOMAIN ses.recent /\ b.claim = ses.claim
                  /\ Queued(ses, b, ses.recent[i])
               \/ /\ i # 0 /\ i \notin DOMAIN ses.recent /\ ses.claim # i
                  /\ b.claim = ses.claim
                  /\ \E r \in Results :
                       /\ r.id = i /\ r.type = "Rejected" /\ r.tick = tick
                       /\ Queued(ses, b, r)
               \/ /\ i # 0 /\ i \notin DOMAIN ses.recent /\ ses.claim = 0
                  /\ b.claim = i /\ SameBooks(ses, b)
<1> DEFINE i == intent.id
           marked == [ses EXCEPT !.highWater = i]
           taken_ == [marked EXCEPT !.claim = i]
           refusal == SessionRefusal(s, intent, w)
           Good(b) == \/ SameBooks(ses, b) /\ b.claim = ses.claim
                      \/ /\ i \in DOMAIN ses.recent /\ b.claim = ses.claim
                         /\ Queued(ses, b, ses.recent[i])
                      \/ /\ i # 0 /\ i \notin DOMAIN ses.recent /\ ses.claim # i
                         /\ b.claim = ses.claim
                         /\ \E r \in Results :
                              /\ r.id = i /\ r.type = "Rejected" /\ r.tick = tick
                              /\ Queued(ses, b, r)
                      \/ /\ i # 0 /\ i \notin DOMAIN ses.recent /\ ses.claim = 0
                         /\ b.claim = i /\ SameBooks(ses, b)
           b == prepare_server_action_intent(ses, s, intent, w).session
<1>1. i \in Ids BY DEF Intents
<1>2. b \in SessionType /\ Cached(b) BY PrepareKeeps
<1>3. marked \in SessionType BY <1>1 DEF SessionType
<1>4. marked.claim = ses.claim /\ SameBooks(ses, marked)
  BY DEF SessionType, SameBooks
<1>5. Cached(marked) BY <1>4 DEF Cached, SameBooks
<1>6. refusal \in Reasons BY ReasonFacts DEF SessionRefusal
<1>7. taken_.claim = i /\ SameBooks(ses, taken_) BY <1>1, <1>3 DEF SessionType, SameBooks
<1>8. prepare_server_action_intent(ses, s, intent, w) =
        IF i = 0 THEN [session |-> ses, kept |-> TRUE]
        ELSE IF i \in DOMAIN ses.recent
        THEN Dropped(queue_local_action_result(ses, ses.recent[i]))
        ELSE IF ses.claim = i THEN Dropped(ses)
        ELSE IF ses.highWater # 0 /\ ~NewerId(i, ses.highWater)
        THEN Reject(ses, intent, "InvalidActionId")
        ELSE IF ses.claim # 0 THEN Reject(marked, intent, "Busy")
        ELSE IF refusal # "None" THEN Reject(marked, intent, refusal)
        ELSE [session |-> taken_, kept |-> TRUE]
  BY DEF prepare_server_action_intent
<1>h. HIDE DEF marked, refusal, taken_
<1>9. ASSUME NEW u \in SessionType, Cached(u), u.claim = ses.claim, SameBooks(ses, u),
             NEW reason \in Reasons, i # 0, i \notin DOMAIN ses.recent, ses.claim # i
      PROVE  Good(Reject(u, intent, reason).session)
  <2> DEFINE r == Result(i, 0, "Rejected", reason)
             q == queue_local_action_result(u, r)
  <2>1. r \in Results BY <1>1, Zeros, ResultIsResult
  <2>2. r.id = i /\ r.type = "Rejected" /\ r.tick = tick BY DEF Result
  <2>3. Reject(u, intent, reason).session = q BY DEF Reject, Dropped
  <2>h. HIDE DEF r
  <2>4. q.claim = ses.claim /\ Queued(u, q, r) BY <1>9, <2>1, QueueShape
  <2>h2. HIDE DEF q
  <2>5. Queued(ses, q, r) BY <1>9, <2>4 DEF Queued, SameBooks
  <2>q. QED BY <1>9, <2>1, <2>2, <2>3, <2>4, <2>5
<1>10. ASSUME i \in DOMAIN ses.recent
       PROVE  Good(Dropped(queue_local_action_result(ses, ses.recent[i])).session)
  <2> DEFINE q == queue_local_action_result(ses, ses.recent[i])
  <2>1. ses.recent \in Caches BY DEF SessionType
  <2>2. ses.recent[i] \in Results BY <1>10, <2>1 DEF Caches
  <2>3. q.claim = ses.claim /\ Queued(ses, q, ses.recent[i]) BY <2>2, QueueShape
  <2>h. HIDE DEF q
  <2>4. Dropped(q).session = q BY DEF Dropped
  <2>5. Good(Dropped(q).session) BY <1>10, <2>3, <2>4
  <2>q. QED BY <2>5 DEF q
<1>11. Good(ses) BY DEF SameBooks
<1>12. Dropped(ses).session = ses BY DEF Dropped
<1>13. i # 0 /\ i \notin DOMAIN ses.recent /\ ses.claim = 0 => Good(taken_)
  BY <1>7
<1>14. "InvalidActionId" \in Reasons /\ "Busy" \in Reasons BY ReasonFacts
<1>15. SameBooks(ses, ses) BY DEF SameBooks
<1>16. i # 0 /\ i \notin DOMAIN ses.recent /\ ses.claim # i =>
         /\ Good(Reject(ses, intent, "InvalidActionId").session)
         /\ Good(Reject(marked, intent, "Busy").session)
         /\ Good(Reject(marked, intent, refusal).session)
  BY <1>3, <1>4, <1>5, <1>6, <1>9, <1>14, <1>15
<1>h2. HIDE DEF Good, i
<1>17. Good(b) BY <1>8, <1>10, <1>11, <1>12, <1>13, <1>16
<1>q. QED BY <1>2, <1>17 DEF Good, i

\* What an outcome of the claimed instance makes of it.
LEMMA SettleShape ==
  ASSUME NEW ses \in SessionType, Cached(ses), NEW o \in Outcomes,
         tick \in 0..MaxTick, o.id = ses.claim
  PROVE  LET b == Settle(ses, o)
         IN /\ b \in SessionType /\ Cached(b)
            /\ b.claim = IF Ends(o) THEN 0 ELSE ses.claim
            /\ \/ SameBooks(ses, b)
               \/ /\ o.type \notin {"Admitted", "Completed"}
                  /\ \E r \in Results :
                       /\ r.id = o.id /\ r.count = o.count /\ r.type = ResultType(o.type)
                       /\ r.tick = tick /\ Queued(ses, b, r)
<1> DEFINE r == Result(o.id, o.count, ResultType(o.type), o.reason)
           told == IF o.type \in {"Admitted", "Completed"} THEN ses
                   ELSE queue_local_action_result(ses, r)
           freed == [told EXCEPT !.claim = 0]
           b == Settle(ses, o)
<1>1. o.id \in Ids /\ o.count \in Counts /\ o.reason \in Reasons BY DEF Outcomes
<1>2. ResultType(o.type) \in {"Accepted", "Corrected", "Rejected"} BY DEF ResultType
<1>3. r \in Results BY <1>1, <1>2, ResultIsResult
<1>4. r.id = o.id /\ r.count = o.count /\ r.type = ResultType(o.type) /\ r.tick = tick
  BY DEF Result
<1>5. b = IF Ends(o) THEN freed ELSE told BY DEF Settle
<1>6. b \in SessionType /\ Cached(b) /\ b.claim = IF Ends(o) THEN 0 ELSE ses.claim
  BY SettleKeeps
<1>h. HIDE DEF r
<1>7. /\ told \in SessionType
      /\ \/ told = ses
         \/ o.type \notin {"Admitted", "Completed"} /\ Queued(ses, told, r)
  BY <1>3, QueueShape
<1>h2. HIDE DEF told
<1>8. SameBooks(told, freed) BY <1>7 DEF SessionType, SameBooks
<1>h3. HIDE DEF freed, b
<1>9. SameBooks(told, b) BY <1>5, <1>8 DEF SameBooks
<1>10. CASE told = ses BY <1>6, <1>9, <1>10 DEF b
<1>11. CASE o.type \notin {"Admitted", "Completed"} /\ Queued(ses, told, r)
  BY <1>3, <1>4, <1>6, <1>9, <1>11 DEF Queued, SameBooks, b
<1>q. QED BY <1>7, <1>10, <1>11

\* The stream grows at its end.
LEMMA StreamGrows ==
  ASSUME NEW w \in Seq(Mail), NEW q \in Seq(Results)
  PROVE  /\ w \o q \in Seq(Mail)
         /\ \A r \in Results : w \o Append(q, r) = Append(w \o q, r)
  BY DEF Mail

\* What is queued is in the stream, and the stream follows what is queued.
LEMMA QueuedStream ==
  ASSUME NEW w \in Seq(Mail), NEW a \in SessionType, NEW b \in SessionType,
         NEW r \in Results, Queued(a, b, r)
  PROVE  /\ w \o a.pending \in Seq(Mail)
         /\ \/ w \o b.pending = Append(w \o a.pending, r)
            \/ /\ w \o b.pending = w \o a.pending
               /\ \E k \in DOMAIN (w \o a.pending) :
                    /\ Word((w \o a.pending)[k], r.id)
                    /\ (w \o a.pending)[k].count = r.count
                    /\ (w \o a.pending)[k].tick = r.tick
<1>1. a.pending \in Seq(Results) BY DEF SessionType
<1>2. w \o a.pending \in Seq(Mail) BY <1>1, StreamGrows
<1>3. CASE b.pending = Append(a.pending, r) BY <1>1, <1>2, <1>3, StreamGrows
<1>4. ASSUME b.pending = a.pending,
             NEW k \in DOMAIN a.pending, SameResult(a.pending[k], r)
      PROVE  \E n \in DOMAIN (w \o a.pending) :
               /\ Word((w \o a.pending)[n], r.id)
               /\ (w \o a.pending)[n].count = r.count
               /\ (w \o a.pending)[n].tick = r.tick
  <2> DEFINE x == a.pending[k]
             v == w \o a.pending
  <2>1. x \in Results BY <1>1, <1>4
  <2>2. [x EXCEPT !.reason = r.reason] = r BY <1>4 DEF SameResult
  <2>3. [x EXCEPT !.reason = r.reason].id = x.id /\ [x EXCEPT !.reason = r.reason].count = x.count
        /\ [x EXCEPT !.reason = r.reason].tick = x.tick
    BY <2>1 DEF Results
  <2>4. x.id = r.id /\ x.count = r.count /\ x.tick = r.tick /\ x.type # "Snapshot"
    BY <2>1, <2>2, <2>3 DEF Results
  <2>5. ASSUME NEW S, NEW T, NEW u \in Seq(S), NEW q \in Seq(T), NEW j \in DOMAIN q
        PROVE  Len(u) + j \in DOMAIN (u \o q) /\ (u \o q)[Len(u) + j] = q[j]
    BY <2>5
  <2>6. Len(w) + k \in DOMAIN v /\ v[Len(w) + k] = x BY <1>1, <1>4, <2>5
  <2>h. HIDE DEF x, v
  <2>7. \E n \in DOMAIN v : Word(v[n], r.id) /\ v[n].count = r.count /\ v[n].tick = r.tick
    BY <2>4, <2>6 DEF Word
  <2>q. QED BY <2>7 DEF v
<1>q. QED BY <1>2, <1>3, <1>4 DEF Queued

\* A result is queued that the books agree with: they still agree.
LEMMA QueueStep ==
  ASSUME NEW w \in Seq(Mail), NEW e, NEW ap,
         NEW a \in SessionType, NEW b \in SessionType, NEW r \in Results,
         Queued(a, b, r), b.claim \in {a.claim, 0},
         Agreed(w \o a.pending, e, ap, a),
         Shut(w \o a.pending, e, r.id) => r.id \in DOMAIN a.recent /\ a.recent[r.id] = r,
         b.claim # 0 /\ r.id = b.claim =>
           r.type = "Accepted" /\ (r.id \in DOMAIN a.recent \/ r.count # 0)
  PROVE  /\ Agreed(w \o b.pending, e, ap, b)
         /\ \A i : Shut(w \o b.pending, e, i) =>
                     Shut(w \o a.pending, e, i) \/ Final(r, i)
<1> DEFINE st == w \o a.pending
           st2 == w \o b.pending
<1>1. /\ st \in Seq(Mail)
      /\ \/ st2 = Append(st, r)
         \/ /\ st2 = st
            /\ \E k \in DOMAIN st : Word(st[k], r.id) /\ st[k].count = r.count
  BY QueuedStream
<1>2. /\ Agreed(st, e, ap, a)
      /\ Shut(st, e, r.id) => r.id \in DOMAIN a.recent /\ a.recent[r.id] = r
  OBVIOUS
<1>3. r \in Mail /\ r.type # "Snapshot" BY DEF Mail, Results
<1>h. HIDE DEF st, st2
<1>4. \A i : Shut(st2, e, i) => Shut(st, e, i) \/ Final(r, i)
  BY <1>1, <1>3, ShutLonger
<1>5. OneEnd(st2, e, ap, b.recent)
  <2> DEFINE rec == a.recent
             rec2 == b.recent
  <2>1. st2 = st \/ st2 = Append(st, r) BY <1>1
  <2>2. OneEnd(st, e, ap, rec) BY <1>2 DEF Agreed
  <2>3. /\ r.id \in DOMAIN rec2 => rec2[r.id] = r
        /\ \A j \in DOMAIN rec2 \ {r.id} : j \in DOMAIN rec /\ rec2[j] = rec[j]
    BY DEF Queued
  <2>4. Shut(st, e, r.id) => r.id \in DOMAIN rec /\ rec[r.id] = r BY <1>2
  <2>h. HIDE DEF rec, rec2
  <2>5. OneEnd(st2, e, ap, rec2) BY <1>1, <2>1, <2>2, <2>3, <2>4, OneEndQueued
  <2>q. QED BY <2>5 DEF rec2
<1>6. ClaimOpen(st2, e, b)
  BY <1>2, <1>4 DEF ClaimOpen, Agreed, Final, Word, Queued
<1>7. Voiced(st2, ap, b)
  <2> SUFFICES ASSUME b.claim # 0, b.claim \in DOMAIN b.recent, b.claim \notin DOMAIN ap
               PROVE  \E k \in DOMAIN st2 : Word(st2[k], b.claim) /\ st2[k].count # 0
    BY DEF Voiced
  <2>1. a.claim = b.claim OBVIOUS
  <2>2. ASSUME NEW k \in DOMAIN st, Word(st[k], b.claim), st[k].count # 0
        PROVE  \E n \in DOMAIN st2 : Word(st2[n], b.claim) /\ st2[n].count # 0
    <3>1. CASE st2 = st BY <2>2, <3>1
    <3>2. CASE st2 = Append(st, r)
      BY <1>1, <1>3, <2>2, <3>2, Longer
    <3>q. QED BY <1>1, <3>1, <3>2
  <2>3. CASE b.claim \in DOMAIN a.recent
    BY <1>2, <2>1, <2>2, <2>3 DEF Agreed, Voiced
  <2>4. CASE b.claim \notin DOMAIN a.recent
    BY <1>1, <1>3, <2>2, <2>4, Longer DEF Queued, Word
  <2>q. QED BY <2>3, <2>4
<1>8. Agreed(st2, e, ap, b) BY <1>5, <1>6, <1>7 DEF Agreed
<1>q. QED BY <1>4, <1>8 DEF st, st2

\* An intent that leaves the client's queue for the session.
LEMMA IntentBooks ==
  ASSUME NEW w \in Seq(Mail), NEW e, NEW ap, NEW a \in SessionType, Cached(a),
         NEW queue \in Seq(Edges), queue # << >>,
         \A j, k \in DOMAIN queue : queue[j].intent.id = queue[k].intent.id => j = k,
         Agreed(w \o a.pending, e, ap, a), Room(w \o a.pending, e, a, queue),
         NEW s, NEW weapon, tick \in 0..MaxTick
  PROVE  LET b == prepare_server_action_intent(a, s, Head(queue).intent, weapon).session
         IN /\ Agreed(w \o b.pending, e, ap, b)
            /\ Room(w \o b.pending, e, b, Tail(queue))
<1> DEFINE b == prepare_server_action_intent(a, s, Head(queue).intent, weapon).session
           i0 == Head(queue).intent.id
           st == w \o a.pending
           st2 == w \o b.pending
<1>1. /\ Tail(queue) \in Seq(Edges) /\ Len(queue) \in Nat \ {0} /\ Head(queue) \in Edges
      /\ DOMAIN queue = 1..Len(queue) /\ DOMAIN Tail(queue) = 1..(Len(queue) - 1)
      /\ Head(queue) = queue[1]
      /\ \A k \in 1..(Len(queue) - 1) : Tail(queue)[k] = queue[k + 1]
  BY Shorter
<1>2. Head(queue).intent \in Intents(Ids) /\ Head(queue).intent.binding # Malformed
  BY <1>1, SessionAssumption DEF Edges, Intents, OutcomeBindings, Bindings, Malformed
<1>3. /\ b \in SessionType /\ Cached(b)
      /\ \/ SameBooks(a, b) /\ b.claim = a.claim
         \/ /\ i0 \in DOMAIN a.recent /\ b.claim = a.claim
            /\ Queued(a, b, a.recent[i0])
         \/ /\ i0 # 0 /\ i0 \notin DOMAIN a.recent /\ a.claim # i0
            /\ b.claim = a.claim
            /\ \E r \in Results : r.id = i0 /\ r.type = "Rejected" /\ Queued(a, b, r)
         \/ /\ i0 # 0 /\ i0 \notin DOMAIN a.recent /\ a.claim = 0
            /\ b.claim = i0 /\ SameBooks(a, b)
  BY <1>2, PrepareShape
<1>4. Agreed(st, e, ap, a) /\ Room(st, e, a, queue) OBVIOUS
<1>5. ASSUME NEW p \in DOMAIN Tail(queue)
      PROVE  /\ p \in Nat /\ p >= 1 /\ p + 1 \in DOMAIN queue
             /\ Tail(queue)[p] = queue[p + 1] /\ queue[p + 1].intent.id # i0
  BY <1>1
<1>6. i0 \notin DOMAIN a.recent => ~Shut(st, e, i0)
  BY <1>1, <1>4, SlotIsKnown DEF Room, Bound
<1>st. DEFINE id(p) == Tail(queue)[p].intent.id
<1>7. ASSUME \A p \in DOMAIN Tail(queue) :
               Bound(st2, e, b, id(p)) =>
                 Bound(st, e, a, id(p)) /\ (Slot(a, id(p), p + 1) => Slot(b, id(p), p))
      PROVE  Room(st2, e, b, Tail(queue))
  BY <1>4, <1>5, <1>7 DEF Room
<1>h. HIDE DEF b, i0, st, st2
<1>8. ASSUME SameBooks(a, b), b.claim = a.claim
      PROVE  Agreed(st2, e, ap, b) /\ Room(st2, e, b, Tail(queue))
  <2>1. st2 = st /\ b.recent = a.recent /\ b.order = a.order BY <1>8 DEF st, st2, SameBooks
  <2>2. Agreed(st2, e, ap, b)
    BY <1>4, <1>8, <2>1 DEF Agreed, ClaimOpen, Voiced
  <2>3. \A i : Bound(st2, e, b, i) => Bound(st, e, a, i) BY <1>8, <2>1 DEF Bound
  <2>4. \A p \in DOMAIN Tail(queue) : Slot(a, id(p), p + 1) => Slot(b, id(p), p)
    BY <1>3, <1>5, <1>8, <2>1, SlotKept
  <2>q. QED BY <1>7, <2>2, <2>3, <2>4
<1>9. ASSUME i0 \in DOMAIN a.recent, b.claim = a.claim, Queued(a, b, a.recent[i0])
      PROVE  Agreed(st2, e, ap, b) /\ Room(st2, e, b, Tail(queue))
  <2> DEFINE r == a.recent[i0]
  <2>1. r \in Results /\ r.id = i0
    BY <1>9 DEF SessionType, Caches, Cached
  <2>2. a.claim # 0 /\ r.id = a.claim => r.type = "Accepted"
    BY <1>4, <1>9, <2>1 DEF Agreed, ClaimOpen
  <2>3. Queued(a, b, r) /\ r.id \in DOMAIN a.recent /\ a.recent[r.id] = r
    BY <1>9, <2>1
  <2>h. HIDE DEF r
  <2>4. /\ Agreed(st2, e, ap, b)
        /\ \A i : Shut(st2, e, i) => Shut(st, e, i) \/ Final(r, i)
    BY <1>3, <1>4, <1>9, <2>1, <2>2, <2>3, QueueStep DEF st, st2
  <2>5. ASSUME NEW p \in DOMAIN Tail(queue), Bound(st2, e, b, id(p))
        PROVE  Bound(st, e, a, id(p))
    BY <1>5, <1>9, <2>1, <2>3, <2>4, <2>5 DEF Final, Word, Queued, Bound
  <2>6. b.order = a.order BY <2>3 DEF Queued
  <2>7. \A p \in DOMAIN Tail(queue) : Slot(a, id(p), p + 1) => Slot(b, id(p), p)
    BY <1>3, <1>5, <1>9, <2>6, SlotKept
  <2>q. QED BY <1>7, <2>4, <2>5, <2>7
<1>10. ASSUME i0 \notin DOMAIN a.recent, a.claim # i0, b.claim = a.claim,
              NEW r \in Results, r.id = i0, Queued(a, b, r)
       PROVE  Agreed(st2, e, ap, b) /\ Room(st2, e, b, Tail(queue))
  <2>1. ~Shut(st, e, r.id) BY <1>6, <1>10
  <2>2. /\ Agreed(st2, e, ap, b)
        /\ \A i : Shut(st2, e, i) => Shut(st, e, i) \/ Final(r, i)
    BY <1>3, <1>4, <1>10, <2>1, QueueStep DEF st, st2
  <2>3. ASSUME NEW p \in DOMAIN Tail(queue), Bound(st2, e, b, id(p))
        PROVE  Bound(st, e, a, id(p))
    BY <1>5, <1>10, <2>2, <2>3 DEF Final, Word, Queued, Bound
  <2>4. \A p \in DOMAIN Tail(queue) : Slot(a, id(p), p + 1) => Slot(b, id(p), p)
    BY <1>3, <1>5, <1>10, SlotAfterRefusal
  <2>q. QED BY <1>7, <2>2, <2>3, <2>4
<1>11. ASSUME i0 \notin DOMAIN a.recent, a.claim = 0, b.claim = i0, SameBooks(a, b)
       PROVE  Agreed(st2, e, ap, b) /\ Room(st2, e, b, Tail(queue))
  <2>1. st2 = st /\ b.recent = a.recent /\ b.order = a.order BY <1>11 DEF st, st2, SameBooks
  <2>2. Agreed(st2, e, ap, b)
    BY <1>4, <1>6, <1>11, <2>1 DEF Agreed, ClaimOpen, Voiced
  <2>3. \A p \in DOMAIN Tail(queue) :
          Bound(st2, e, b, id(p)) => Bound(st, e, a, id(p))
    BY <1>5, <1>11, <2>1 DEF Bound
  <2>4. \A p \in DOMAIN Tail(queue) : Slot(a, id(p), p + 1) => Slot(b, id(p), p)
    BY <1>3, <1>5, <1>11, <2>1, SlotKept
  <2>q. QED BY <1>7, <2>2, <2>3, <2>4
<1>12. Agreed(st2, e, ap, b) /\ Room(st2, e, b, Tail(queue))
  BY <1>3, <1>8, <1>9, <1>10, <1>11
<1>q. QED BY <1>12 DEF b, st2

\* An outcome of the claimed instance that finalize settles.
LEMMA OutcomeBooks ==
  ASSUME NEW w \in Seq(Mail), NEW e, NEW ap, NEW a \in SessionType, Cached(a),
         NEW queue \in Seq(Edges), Len(queue) <= RecentCapacity,
         Agreed(w \o a.pending, e, ap, a), Room(w \o a.pending, e, a, queue),
         NEW o \in Outcomes, o.id = a.claim, a.claim # 0,
         o.type = "Committed" => o.count # 0, tick \in 0..MaxTick
  PROVE  LET b == Settle(a, o)
         IN /\ Agreed(w \o b.pending, e, ap, b)
            /\ Room(w \o b.pending, e, b, queue)
<1> DEFINE b == Settle(a, o)
           st == w \o a.pending
           st2 == w \o b.pending
           id(p) == queue[p].intent.id
<1>1. /\ b \in SessionType /\ Cached(b)
      /\ b.claim = IF Ends(o) THEN 0 ELSE a.claim
      /\ \/ SameBooks(a, b)
         \/ /\ o.type \notin {"Admitted", "Completed"}
            /\ \E r \in Results :
                 /\ r.id = o.id /\ r.count = o.count /\ r.type = ResultType(o.type)
                 /\ Queued(a, b, r)
  BY SettleShape
<1>2. b.claim \in {a.claim, 0} BY <1>1
<1>3. Agreed(st, e, ap, a) /\ Room(st, e, a, queue) OBVIOUS
<1>4. ASSUME NEW p \in DOMAIN queue
      PROVE  p \in Nat /\ p >= 1 /\ p <= p /\ p <= RecentCapacity
  BY <1>4, SessionAssumption
<1>h. HIDE DEF b, st, st2
<1>5. ASSUME SameBooks(a, b) PROVE Agreed(st2, e, ap, b) /\ Room(st2, e, b, queue)
  <2>1. st2 = st /\ b.recent = a.recent /\ b.order = a.order BY <1>5 DEF st, st2, SameBooks
  <2>2. Agreed(st2, e, ap, b)
    BY <1>2, <1>3, <2>1 DEF Agreed, ClaimOpen, Voiced
  <2>3. \A i : Bound(st2, e, b, i) => Bound(st, e, a, i) BY <1>2, <2>1 DEF Bound
  <2>4. ASSUME NEW p \in DOMAIN queue, Bound(st2, e, b, id(p)) PROVE Slot(b, id(p), p)
    BY <1>1, <1>2, <1>3, <1>4, <2>1, <2>3, <2>4, SlotKept DEF Room
  <2>q. QED BY <2>2, <2>4 DEF Room
<1>6. ASSUME o.type \notin {"Admitted", "Completed"}, NEW r \in Results,
             r.id = o.id, r.count = o.count, r.type = ResultType(o.type), Queued(a, b, r)
      PROVE  Agreed(st2, e, ap, b) /\ Room(st2, e, b, queue)
  <2>1. ~Shut(st, e, r.id) BY <1>3, <1>6 DEF Agreed, ClaimOpen
  <2>2. b.claim # 0 => o.type = "Committed" BY <1>1, <1>6 DEF Ends, Outcomes, OutcomeTypes
  <2>3. b.claim # 0 => r.type = "Accepted" /\ r.count # 0
    BY <1>6, <2>2 DEF ResultType
  <2>4. /\ Agreed(st2, e, ap, b)
        /\ \A i : Shut(st2, e, i) => Shut(st, e, i) \/ Final(r, i)
    BY <1>1, <1>2, <1>3, <1>6, <2>1, <2>3, QueueStep DEF st, st2
  <2>5. ASSUME NEW p \in DOMAIN queue, Bound(st2, e, b, id(p)) PROVE Slot(b, id(p), p)
    <3>1. p \in Nat /\ p >= 1 /\ p <= p /\ p <= RecentCapacity BY <1>4
    <3>2. Shut(st, e, id(p)) \/ id(p) = r.id
      BY <1>2, <1>6, <2>4, <2>5 DEF Bound, Final, Word
    <3>3. CASE r.id \in DOMAIN a.recent
      BY <1>1, <1>2, <1>3, <1>6, <3>1, <3>2, <3>3, SlotKept DEF Bound, Room, Queued
    <3>4. CASE r.id \notin DOMAIN a.recent
      BY <1>1, <1>2, <1>3, <1>6, <3>1, <3>2, <3>4, SlotAfterOutcome DEF Room, Bound
    <3>q. QED BY <3>3, <3>4
  <2>q. QED BY <2>4, <2>5 DEF Room
<1>7. Agreed(st2, e, ap, b) /\ Room(st2, e, b, queue) BY <1>1, <1>5, <1>6
<1>q. QED BY <1>7 DEF b, st2

-----------------------------------------------------------------------------
(* The actor.                                                              *)

LEMMA NothingOut ==
  ASSUME NEW u, u = << >>, NEW from \in Nat, NEW c
  PROVE  Orderly(u, from, c)
  BY DEF Orderly

LEMMA AppendOrderly ==
  ASSUME NEW u \in Seq(Outcomes), NEW c, c # 0, Orderly(u, 0, c), Open(u, c),
         NEW o \in Outcomes, o.id = c, o.type = "Committed" => o.count # 0
  PROVE  Orderly(Append(u, o), 0, c)
<1> DEFINE v == Append(u, o)
<1>1. /\ Len(u) \in Nat /\ DOMAIN u = 1..Len(u) /\ Len(v) = Len(u) + 1
      /\ v[Len(u) + 1] = o /\ \A k \in 1..Len(u) : v[k] = u[k]
  BY Longer
<1>h. HIDE DEF v
<1>2. \A k \in (0 + 1)..Len(v) : k \in (0 + 1)..Len(u) \/ k = Len(v) BY <1>1
<1>3. \A k \in (0 + 1)..Len(u) : k \in DOMAIN u /\ v[k] = u[k] BY <1>1
<1>4. \A k \in (0 + 1)..Len(u) : u[k].id = c /\ ~Ends(u[k])
  BY <1>3 DEF Orderly, Open
<1>5. v[Len(v)] = o BY <1>1
<1>6. Orderly(v, 0, c) BY <1>2, <1>3, <1>4, <1>5 DEF Orderly
<1>q. QED BY <1>6 DEF v

\* A pass of a session that claims c reports of c only, its end last.
LEMMA PassOrderly ==
  ASSUME SingleEffects, NEW s, Fit(s), NEW i, NEW c,
         InProgress(s) => s.id = c /\ i = 0 /\ Open(s.out, c),
         i # 0 => i = c /\ Open(s.out, c),
         NEW r, PassStep(s, r, i), Orderly(s.out, 0, c)
  PROVE  Orderly(r.out, 0, c)
<1>1. PICK p, q : /\ QuietOrCut(s, p) /\ (Held(p) => ~InProgress(p))
                  /\ InputStep(p, q, i) /\ CommitStep(q, r)
  BY DEF PassStep
<1>2. s.out \in Seq(Outcomes) /\ p.out \in Seq(Outcomes) /\ q.out \in Seq(Outcomes)
  BY <1>1 DEF QuietOrCut, InputStep, Fit, Sound, ActorType
<1>n. Named(s) /\ Named(p) /\ Named(q) BY <1>1 DEF QuietOrCut, InputStep, Fit
<1>3. /\ InProgress(p) => p.id = c /\ i = 0 /\ Open(p.out, c)
      /\ i # 0 => Open(p.out, c) /\ ~InProgress(p)
  BY <1>1 DEF QuietOrCut, Quiet, Cut, SameAct
<1>4. Orderly(p.out, 0, c)
  BY <1>1, <1>2, <1>n, AppendOrderly DEF Quiet, Cut, Tells, Named, QuietOrCut
<1>5. /\ InProgress(q) => q.id = c /\ Open(q.out, c)
      /\ Orderly(q.out, 0, c)
  <2>1. CASE Quiet(p, q) BY <1>3, <1>4, <2>1 DEF Quiet, SameAct
  <2>2. CASE i # 0 /\ TurnedDown(p, q, i)
    BY <1>2, <1>3, <1>4, <2>2, AppendOrderly DEF TurnedDown, Tells, SameAct
  <2>3. CASE i # 0 /\ Begun(p, q, i)
    BY <1>2, <1>3, <1>4, <2>3, AppendOrderly, AppendOpen DEF Begun, Tells, Ends
  <2>q. QED BY <1>1, <2>1, <2>2, <2>3 DEF InputStep
<1>6. CASE Quiet(q, r) BY <1>5, <1>6 DEF Quiet
<1>7. CASE Cut(q, r)
  BY <1>2, <1>5, <1>7, <1>n, AppendOrderly DEF Cut, Tells, Named
<1>8. CASE Struck(q, r)
  BY <1>2, <1>5, <1>8, <1>n, AppendOrderly DEF Struck, Tells, Named
<1>9. CASE Finished(q, r)
  <2>1. PICK o, f : /\ Tells(o, q.id, "Committed") /\ o.count # 0
                    /\ Tells(f, q.id, "Completed")
                    /\ r.out = Append(Append(q.out, o), f)
    BY <1>9 DEF Finished
  <2>2. InProgress(q) /\ q.id # 0 BY <1>n, <1>9 DEF Finished, Named
  <2>3. Orderly(Append(q.out, o), 0, c)
    BY <1>2, <1>5, <2>1, <2>2, AppendOrderly DEF Tells
  <2>4. Open(Append(q.out, o), c)
    BY <1>2, <1>5, <2>1, <2>2, AppendOpen DEF Tells, Ends
  <2>5. Append(q.out, o) \in Seq(Outcomes) BY <1>2, <2>1, Longer DEF Tells
  <2>q. QED BY <1>5, <2>1, <2>2, <2>3, <2>4, <2>5, AppendOrderly DEF Tells
<1>q. QED BY <1>1, <1>6, <1>7, <1>8, <1>9 DEF CommitStep

\* A rollback touches the rounds of one weapon, and stays within its magazine.
LEMMA RollBackKeeps ==
  ASSUME NEW s, Fit(s), NEW o \in Entries
  PROVE  LET r == RollBack(s, o)
         IN /\ Fit(r) /\ r.out = s.out /\ r.phase = s.phase /\ r.id = s.id
            /\ r.blocks = s.blocks /\ r.stagger = s.stagger
<1> DEFINE am == [w \in Weapons |-> IF w = o.weapon /\ w \in s.equipped
                                    THEN o.ammo ELSE s.ammo[w]]
           r == RollBack(s, o)
<1>1. Sound(s) /\ s \in ActorType /\ s.ammo \in [Weapons -> Nat]
  BY DEF Fit, Sound, ActorType, PerWeapon
<1>2. o.ammo \in Nat /\ (o.weapon \in Weapons => o.ammo <= MagazineSize[o.weapon])
  BY DEF Entries
<1>3. am \in PerWeapon(Nat) BY <1>1, <1>2 DEF PerWeapon
<1>4. \A w \in Weapons : am[w] <= MagazineSize[w]
  BY <1>1, <1>2 DEF Sound, Magazines
<1>5. r = [s EXCEPT !.ammo = am] BY <1>1 DEF RollBack, ActorType
<1>h. HIDE DEF am, r
<1>6. r \in ActorType BY <1>1, <1>3, <1>5 DEF ActorType
<1>7. /\ r.ammo = am /\ r.out = s.out /\ r.phase = s.phase /\ r.id = s.id
      /\ r.source = s.source /\ r.binding = s.binding /\ r.reloading = s.reloading
      /\ r.wait = s.wait /\ r.cancelAfter = s.cancelAfter
      /\ r.cooldown = s.cooldown /\ r.effect = s.effect
      /\ r.blocks = s.blocks /\ r.stagger = s.stagger
  BY <1>1, <1>5 DEF ActorType
<1>8. Magazines(r) BY <1>4, <1>7 DEF Magazines
<1>9. Sound(r) BY <1>1, <1>6, <1>7, <1>8, SameActionAmmo DEF Keeps
<1>10. Fit(r) BY <1>7, <1>9, SameFit
<1>q. QED BY <1>7, <1>10 DEF r

\* What the client half does to the world leaves the session's run as it was.
LEMMA ClientRun ==
  ASSUME RunInv, Alone, Orderly(actor.out, settled, session.claim),
         UNCHANGED <<session, inputs, stage, taken, settled, tick, hist>>,
         actor' = actor \/ \E o \in Entries : actor' = RollBack(actor, o)
  PROVE  RunInv' /\ Alone' /\ Orderly(actor'.out, settled', session'.claim)
  BY RollBackKeeps DEF RunInv, Steadied, InProgress, Fit, TypeInv, NotOwed, Alone

-----------------------------------------------------------------------------
(* The steps of an update.                                                 *)

\* The client half's record, read field by field.
LEMMA OwnFields ==
  ASSUME own \in OwnType
  PROVE  /\ own.pending \in Seq(Edges) /\ own.applied \in Caches
         /\ DOMAIN own.outstanding \subseteq Ids
         /\ \A i \in DOMAIN own.outstanding : own.outstanding[i] \in Entries
         /\ own.outstanding = [i \in DOMAIN own.outstanding |-> own.outstanding[i]]
         /\ own.baseline \in Int /\ own.ends \in [Ids -> Nat]
  BY DEF OwnType, Ledgers

\* A map of entries, some fewer, or one more or renewed.
LEMMA LedgerType ==
  ASSUME NEW D, D \subseteq Ids, NEW g, g \in [D -> Entries]
  PROVE  g \in Ledgers
  BY DEF Ledgers

LEMMA FewerEntries ==
  ASSUME NEW f, DOMAIN f \subseteq Ids, \A i \in DOMAIN f : f[i] \in Entries, NEW S
  PROVE  /\ Without(f, S) \in Ledgers
         /\ DOMAIN Without(f, S) \subseteq DOMAIN f
         /\ \A i \in DOMAIN Without(f, S) : Without(f, S)[i] = f[i]
  BY LedgerType DEF Without

LEMMA OneEntryMore ==
  ASSUME NEW f, DOMAIN f \subseteq Ids, \A j \in DOMAIN f : f[j] \in Entries,
         NEW i, i \in Ids, NEW v, v \in Entries
  PROVE  With(f, i, v) \in Ledgers
  BY LedgerType DEF With

\* Where the session, the stream and the client's books stand, they still agree.
LEMMA BooksKept ==
  ASSUME HostInv, UNCHANGED <<session, wire>>, own'.pending = own.pending,
         own'.applied = own.applied, own'.ends = own.ends
  PROVE  /\ Agreed(Stream', own'.ends, own'.applied, session')
         /\ Room(Stream', own'.ends, session', own'.pending)
  BY DEF Stream, HostInv

LEMMA SubmitHost ==
  ASSUME HostInv, NEW intent \in [id: IntentIds, binding: Bindings], NEW w \in Arms,
         submit_player_input(intent, w)
  PROVE  HostInv'
<1> DEFINE edge == [intent |-> intent, selected |-> w]
           i == intent.id
           q == own.pending
<1>1. /\ turn = "host" /\ ~Known(i) /\ Len(q) < MaxPending
      /\ own' = [own EXCEPT !.pending = Append(q, edge)]
      /\ UNCHANGED <<vars, wire, turn, left, fired>>
  BY DEF submit_player_input, HostInv, HostTypes, OwnType
<1>2. own \in OwnType /\ q \in Seq(Edges) BY OwnFields DEF HostInv, HostTypes
<1>3. edge \in Edges /\ i \in Ids BY SessionAssumption DEF Edges
<1>4. /\ own'.pending = Append(q, edge) /\ own'.applied = own.applied
      /\ own'.ends = own.ends /\ own'.outstanding = own.outstanding
  BY <1>1, <1>2 DEF OwnType
<1>5. Append(q, edge) \in Seq(Edges) BY <1>2, <1>3, Longer
<1>6. own' \in OwnType BY <1>1, <1>2, <1>5 DEF OwnType
<1>h. HIDE DEF edge
<1>e. edge.intent.id = i BY DEF edge
<1>7. /\ Len(q) \in Nat /\ DOMAIN q = 1..Len(q) /\ DOMAIN own'.pending = 1..(Len(q) + 1)
      /\ Len(own'.pending) = Len(q) + 1 /\ own'.pending[Len(q) + 1] = edge
      /\ \A k \in 1..Len(q) : own'.pending[k] = q[k]
  BY <1>2, <1>3, <1>4, Longer
<1>8. \A k \in DOMAIN own'.pending :
        (k \in DOMAIN q /\ own'.pending[k] = q[k]) \/ (k = Len(q) + 1 /\ own'.pending[k] = edge)
  BY <1>7
<1>9. \A k \in DOMAIN q : q[k].intent.id # i BY <1>1 DEF Known
<1>10. HostTypes'
  <2>1. Len(own'.pending) <= MaxPending BY <1>1, <1>7, HostAssumption
  <2>2. \A j, k \in DOMAIN own'.pending :
          own'.pending[j].intent.id = own'.pending[k].intent.id => j = k
    BY <1>8, <1>9, <1>e DEF HostInv, HostTypes
  <2>3. wire' \in Seq(Mail) BY <1>1 DEF HostInv, HostTypes
  <2>q. QED BY <1>6, <2>1, <2>2, <2>3 DEF HostTypes
<1>11. Stream' = Stream BY <1>1 DEF Stream, vars
<1>12. Stream = << >> /\ DOMAIN Stream = {}
  BY <1>1 DEF HostInv, Phased, Stream
<1>13. ~Bound(Stream, own.ends, session, i)
  BY <1>1, <1>3, <1>12 DEF Known, HostInv, Agreed, Shut, OneEnd, Sealed, Bound, Voiced
<1>14. /\ Agreed(Stream', own'.ends, own'.applied, session')
       /\ session' = session
  BY <1>1, <1>4, <1>11 DEF HostInv, vars
<1>15. Room(Stream', own'.ends, session', own'.pending)
  BY <1>4, <1>8, <1>11, <1>13, <1>14, <1>e DEF HostInv, Room
<1>16. RunInv' /\ Alone' /\ Phased' /\ Noted'
  BY <1>1, <1>4 DEF HostInv, vars, RunInv, TypeInv, Alone, NotOwed, Phased, Noted
<1>17. Orderly(actor'.out, settled', session'.claim) BY <1>1 DEF HostInv, vars
<1>q. QED BY <1>10, <1>14, <1>15, <1>16, <1>17 DEF HostInv

\* Steps of update() that only move the turn.
LEMMA TurnHost ==
  ASSUME HostInv, UNCHANGED <<vars, own, wire>>, Phased'
  PROVE  HostInv'
  BY BooksKept DEF HostInv, vars, RunInv, TypeInv, Alone, NotOwed, Noted, HostTypes

LEMMA StartHost ==
  ASSUME HostInv, NEW ticks \in 0..TicksPerUpdate, StartUpdate(ticks)
  PROVE  HostInv'
<1> DEFINE f == own.outstanding
           g == [i \in DOMAIN f |->
                   [f[i] EXCEPT !.age = MinOf(ResultTimeout + 1, f[i].age + 1)]]
<1>1. /\ turn = "host" /\ turn' = "expire" /\ left' = ticks
      /\ own' = [own EXCEPT !.outstanding = g]
      /\ UNCHANGED <<vars, wire>>
  BY DEF StartUpdate
<1>2. own \in OwnType /\ DOMAIN f \subseteq Ids /\ \A i \in DOMAIN f : f[i] \in Entries
  BY OwnFields DEF HostInv, HostTypes
<1>3. \A i \in DOMAIN f : g[i] \in Entries /\ g[i].confirmed = f[i].confirmed
  <2> TAKE i \in DOMAIN f
  <2>1. f[i] \in Entries /\ f[i].age \in Nat BY <1>2 DEF Entries
  <2>2. MinOf(ResultTimeout + 1, f[i].age + 1) \in Nat BY <2>1, HostAssumption DEF MinOf
  <2>q. QED BY <2>1, <2>2 DEF Entries
<1>4. g \in [DOMAIN f -> Entries] BY <1>3
<1>h. HIDE DEF g
<1>5. g \in Ledgers BY <1>2, <1>4, LedgerType
<1>6. /\ own' \in OwnType /\ own'.outstanding = g /\ own'.pending = own.pending
      /\ own'.applied = own.applied /\ own'.ends = own.ends
  BY <1>1, <1>2, <1>5 DEF OwnType
<1>7. HostTypes' BY <1>1, <1>6 DEF HostInv, HostTypes
<1>8. DOMAIN g = DOMAIN f BY <1>4
<1>9. Noted' BY <1>3, <1>6, <1>8 DEF HostInv, Noted
<1>10. RunInv' /\ Alone'
  BY <1>1 DEF HostInv, vars, RunInv, TypeInv, Alone, NotOwed
<1>11. left' \in Nat BY <1>1, HostAssumption
<1>12. Phased' BY <1>1, <1>11 DEF HostInv, vars, Phased
<1>13. Orderly(actor'.out, settled', session'.claim) BY <1>1 DEF HostInv, vars
<1>14. UNCHANGED <<session, wire>> BY <1>1 DEF vars
<1>q. QED BY <1>6, <1>7, <1>9, <1>10, <1>12, <1>13, <1>14, BooksKept DEF HostInv

LEMMA ExpireHost ==
  ASSUME HostInv, NEW i \in Ids, Expire(i)
  PROVE  HostInv'
<1> DEFINE f == own.outstanding
           g == Without(f, {i})
<1>1. /\ i \in DOMAIN f /\ turn = "expire" /\ actor' = RollBack(actor, f[i])
      /\ own' = [own EXCEPT !.outstanding = g]
      /\ UNCHANGED <<session, inputs, stage, taken, settled, tick, hist>>
      /\ UNCHANGED <<wire, turn, left>>
  BY DEF Expire, ActorOnly, Overdue, HostInv, HostTypes, OwnType
<1>2. own \in OwnType /\ DOMAIN f \subseteq Ids /\ \A j \in DOMAIN f : f[j] \in Entries
  BY OwnFields DEF HostInv, HostTypes
<1>3. /\ g \in Ledgers
      /\ DOMAIN g \subseteq DOMAIN f /\ \A j \in DOMAIN g : g[j] = f[j]
  BY <1>2, FewerEntries
<1>h. HIDE DEF g
<1>4. /\ own' \in OwnType /\ own'.outstanding = g /\ own'.pending = own.pending
      /\ own'.applied = own.applied /\ own'.ends = own.ends
  BY <1>1, <1>2, <1>3 DEF OwnType
<1>5. HostTypes' BY <1>1, <1>4 DEF HostInv, HostTypes
<1>6. Noted' BY <1>3, <1>4 DEF HostInv, Noted
<1>7. RunInv' /\ Alone' /\ Orderly(actor'.out, settled', session'.claim)
  BY <1>1, <1>2, ClientRun DEF HostInv
<1>8. Phased' BY <1>1 DEF HostInv, Phased
<1>q. QED BY <1>1, <1>4, <1>5, <1>6, <1>7, <1>8, BooksKept DEF HostInv

\* The input of a tick takes the head of the client's queue to the session.
LEMMA EmitHost ==
  ASSUME SingleEffects, HostInv, NEW holdId \in IntentIds \cup {0},
         NEW held \in BOOLEAN, NEW w \in Arms, Emit(holdId, held, w)
  PROVE  HostInv'
<1> DEFINE queue == own.pending
           edge == IF queue = << >> THEN [intent |-> NoIntent, selected |-> w]
                   ELSE Head(queue)
           in == [intent |-> edge.intent, selected |-> edge.selected,
                  holdId |-> holdId, held |-> held]
           i == edge.intent.id
           f == own.outstanding
           entry == Outstanding(edge.intent, edge.selected)
           g == IF i = 0 THEN f ELSE With(f, i, entry)
           rest == IF queue = << >> THEN queue ELSE Tail(queue)
           b == prepare_server_action_intent(session, actor, edge.intent, edge.selected).session
<1>1. /\ turn = "ticks" /\ left # 0 /\ inputs = << >> /\ ReceiveInput(in)
      /\ own' = [own EXCEPT !.pending = rest, !.outstanding = g]
      /\ UNCHANGED <<wire, turn, left>>
  BY DEF Emit, HostInv, Phased
<1>t. /\ own \in OwnType /\ queue \in Seq(Edges) /\ DOMAIN f \subseteq Ids
      /\ \A j \in DOMAIN f : f[j] \in Entries
      /\ f \in Ledgers
  BY OwnFields DEF HostInv, HostTypes, OwnType
<1>2. /\ edge.intent \in [id: IntentIds \cup {0}, binding: Bindings]
      /\ edge.selected \in Arms
  <2>1. CASE queue = << >> BY <2>1 DEF NoIntent, Bindings
  <2>2. CASE queue # << >>
    <3>1. Head(queue) \in Edges BY <1>t, <2>2, Shorter
    <3>q. QED BY <2>2, <3>1 DEF Edges
  <2>q. QED BY <2>1, <2>2
<1>3. in \in Inputs(IntentIds \cup {0})
  BY <1>2 DEF Inputs, Intents, OutcomeBindings
<1>4. [Next]_vars BY <1>1, <1>3 DEF Next
<1>5. RunInv' BY <1>4, NextRun DEF HostInv
<1>6. Alone' BY <1>4, <1>5, NextAlone DEF HostInv
<1>7. session' = b /\ stage = "poll" /\ UNCHANGED <<actor, stage, settled>>
  BY <1>1 DEF ReceiveInput
<1>8. i \in Ids /\ tick \in 0..MaxTick BY <1>2, SessionAssumption, Zeros DEF HostInv, RunInv, TypeInv
<1>9. entry \in Entries /\ (i \in DOMAIN f => entry.confirmed = f[i].confirmed)
      /\ (i \notin DOMAIN f => entry.confirmed = 0)
  <2>1. CASE i \in DOMAIN f
    <3>1. entry = [f[i] EXCEPT !.age = 0] BY <2>1 DEF Outstanding
    <3>2. f[i] \in Entries BY <1>t, <2>1
    <3>h. HIDE DEF entry, f, i
    <3>q. QED BY <2>1, <3>1, <3>2 DEF Entries
  <2>2. CASE i \notin DOMAIN f
    <3> DEFINE n == IF edge.selected \in actor.equipped THEN actor.ammo[edge.selected] ELSE 0
    <3>1. entry = [age |-> 0, confirmed |-> 0, binding |-> edge.intent.binding,
                   weapon |-> edge.selected, terminal |-> FALSE, ammo |-> n]
      BY <2>2 DEF Outstanding
    <3>2. /\ actor.equipped \in SUBSET Weapons /\ actor.ammo \in [Weapons -> Nat]
          /\ \A v \in Weapons : actor.ammo[v] <= MagazineSize[v]
      BY DEF HostInv, RunInv, TypeInv, Sound, ActorType, PerWeapon, Magazines
    <3>3. \A v \in Weapons : MagazineSize[v] \in Nat BY RuntimeAssumption
    <3>4. n \in Nat /\ (edge.selected \in Weapons => n <= MagazineSize[edge.selected])
      BY <3>2, <3>3
    <3>5. 0 \in Counts BY Zeros
    <3>h. HIDE DEF entry, edge, n
    <3>q. QED BY <1>2, <2>2, <3>1, <3>4, <3>5 DEF Entries
  <2>q. QED BY <2>1, <2>2
<1>h. HIDE DEF entry
<1>10. /\ g \in Ledgers
       /\ \A j \in DOMAIN g : g[j].confirmed # 0 => j \in DOMAIN f /\ g[j].confirmed = f[j].confirmed
  <2>1. CASE i = 0 BY <1>t, <2>1
  <2>2. CASE i # 0
    <3>1. g = With(f, i, entry) BY <2>2
    <3>h. HIDE DEF g, f, i
    <3>2. DOMAIN f \subseteq Ids /\ \A j \in DOMAIN f : f[j] \in Entries BY <1>t
    <3>3. i \in Ids BY <1>8
    <3>4. entry \in Entries BY <1>9
    <3>5. g \in Ledgers BY <3>1, <3>2, <3>3, <3>4, OneEntryMore
    <3>6. /\ DOMAIN g = DOMAIN f \cup {i} /\ g[i] = entry
          /\ \A j \in DOMAIN f \ {i} : g[j] = f[j]
      BY <3>1 DEF With
    <3>q. QED BY <1>9, <3>5, <3>6
  <2>q. QED BY <2>1, <2>2
<1>11. rest \in Seq(Edges) /\ Len(rest) <= MaxPending
       /\ \A j, k \in DOMAIN rest : rest[j].intent.id = rest[k].intent.id => j = k
  <2>1. /\ Len(queue) <= MaxPending /\ Len(queue) \in Nat
        /\ \A j, k \in DOMAIN queue : queue[j].intent.id = queue[k].intent.id => j = k
    BY <1>t DEF HostInv, HostTypes
  <2>2. CASE queue = << >> BY <1>t, <2>1, <2>2
  <2>3. CASE queue # << >>
    <3>1. rest = Tail(queue) BY <2>3
    <3>2. /\ Tail(queue) \in Seq(Edges) /\ Len(queue) \in Nat \ {0}
          /\ DOMAIN queue = 1..Len(queue) /\ DOMAIN Tail(queue) = 1..(Len(queue) - 1)
          /\ Len(Tail(queue)) = Len(queue) - 1
          /\ \A k \in 1..(Len(queue) - 1) : Tail(queue)[k] = queue[k + 1]
      BY <1>t, <2>3, Shorter
    <3>h. HIDE DEF queue, rest
    <3>3. Len(rest) <= MaxPending BY <2>1, <3>1, <3>2, HostAssumption
    <3>4. ASSUME NEW j \in DOMAIN rest, NEW k \in DOMAIN rest,
                 rest[j].intent.id = rest[k].intent.id
          PROVE  j = k
      BY <2>1, <3>1, <3>2, <3>4
    <3>q. QED BY <3>1, <3>2, <3>3, <3>4
  <2>q. QED BY <2>2, <2>3
<1>12. /\ Agreed(wire \o b.pending, own.ends, own.applied, b)
       /\ Room(wire \o b.pending, own.ends, b, rest)
  <2>0. /\ session \in SessionType /\ Cached(session) /\ wire \in Seq(Mail)
        /\ Agreed(wire \o session.pending, own.ends, own.applied, session)
        /\ Room(wire \o session.pending, own.ends, session, queue)
    BY DEF HostInv, RunInv, TypeInv, HostTypes, Stream
  <2>1. CASE queue = << >>
    <3>1. i = 0 /\ rest = queue BY <2>1 DEF NoIntent
    <3>2. b = session BY <3>1 DEF prepare_server_action_intent
    <3>h. HIDE DEF b, rest
    <3>q. QED BY <2>0, <3>1, <3>2
  <2>2. CASE queue # << >>
    <3>1. edge = Head(queue) /\ rest = Tail(queue) BY <2>2
    <3>2. \A j, k \in DOMAIN queue : queue[j].intent.id = queue[k].intent.id => j = k
      BY DEF HostInv, HostTypes
    <3>h. HIDE DEF edge, rest, queue
    <3>q. QED BY <1>8, <1>t, <2>0, <2>2, <3>1, <3>2, IntentBooks
  <2>q. QED BY <2>1, <2>2
<1>h2. HIDE DEF g, rest, b, edge, in, i
<1>13. /\ own' \in OwnType /\ own'.pending = rest /\ own'.outstanding = g
       /\ own'.applied = own.applied /\ own'.ends = own.ends
  BY <1>1, <1>t, <1>10, <1>11 DEF OwnType
<1>14. HostTypes' BY <1>1, <1>11, <1>13 DEF HostInv, HostTypes
<1>15. Noted' BY <1>10, <1>13 DEF HostInv, Noted
<1>16. Phased' BY <1>1, <1>7 DEF HostInv, Phased
<1>17. Stream' = wire \o b.pending BY <1>1, <1>7 DEF Stream
<1>18. Orderly(actor'.out, settled', session'.claim)
  BY <1>5, <1>7, NothingOut DEF RunInv, TypeInv
<1>q. QED BY <1>5, <1>6, <1>7, <1>12, <1>13, <1>14, <1>15, <1>16, <1>17, <1>18 DEF HostInv

\* The session's own steps that leave its books and the client alone.
LEMMA ServerHost ==
  ASSUME SingleEffects, HostInv, [Next]_vars, UNCHANGED <<own, wire, session>>,
         Phased', Orderly(actor'.out, settled', session'.claim)
  PROVE  HostInv'
  BY NextRun, NextAlone, BooksKept DEF HostInv, HostTypes, Noted

LEMMA SimulateHost ==
  ASSUME SingleEffects, HostInv, Simulate
  PROVE  HostInv'
<1> DEFINE c == session.claim
<1>1. /\ turn = "ticks" /\ UNCHANGED <<own, wire, turn, left>>
      /\ SimulateInput \/ (stage = "simulate" /\ SimulateIdle)
  BY DEF Simulate
<1>2. [Next]_vars BY <1>1 DEF Next, Server
<1>3. Fit(actor) /\ Steadied(actor) /\ Sound(actor) /\ TypeInv BY DEF HostInv, RunInv, Fit
<1>4. /\ UNCHANGED <<session, settled>> /\ stage # "finalize"
  BY <1>1 DEF SimulateInput, SimulateIdle
<1>5. settled = 0 /\ settled' = 0 BY <1>3, <1>4 DEF TypeInv
<1>6. Orderly(actor.out, 0, c) BY <1>5 DEF HostInv
<1>7. NotOwed(c) <=> Open(actor.out, c) BY <1>3, <1>5, NotOwedIsOpen DEF NotOwed
<1>8. Orderly(actor'.out, 0, c)
  <2>1. CASE SimulateInput
    <3> DEFINE i == Head(inputs).intent.id
    <3>1. PICK found \in BOOLEAN : actor' = WeaponPass(actor, Head(inputs), found)
      BY <2>1 DEF SimulateInput
    <3>2. /\ Head(inputs) \in Inputs(Ids) /\ Head(inputs) = inputs[1]
          /\ 1 \in DOMAIN inputs
      BY <1>3, <2>1, InputAt DEF SimulateInput
    <3>3. PassStep(actor, actor', i) BY <1>3, <3>1, <3>2, WeaponPassSteps
    <3>4. /\ InProgress(actor) => actor.id = c /\ i = 0 /\ Open(actor.out, c)
          /\ i # 0 => i = c /\ Open(actor.out, c)
      BY <1>7, <3>2 DEF HostInv, Alone
    <3>h. HIDE DEF i, c
    <3>q. QED BY <1>3, <1>6, <3>3, <3>4, PassOrderly
  <2>2. CASE SimulateIdle
    <3>1. PICK found \in BOOLEAN : actor' = IdlePass(actor, found)
      BY <2>2 DEF SimulateIdle
    <3>2. PassStep(actor, actor', 0) BY <1>3, <3>1, IdlePassSteps
    <3>3. InProgress(actor) => actor.id = c /\ Open(actor.out, c)
      BY <1>7 DEF HostInv, Alone
    <3>h. HIDE DEF c
    <3>q. QED BY <1>3, <1>6, <3>2, <3>3, PassOrderly
  <2>q. QED BY <1>1, <2>1, <2>2
<1>9. left # 0 BY <1>1 DEF HostInv, Phased, SimulateInput
<1>10. stage' = "finalize" => inputs' = << >> BY <1>1 DEF SimulateInput, SimulateIdle
<1>11. Phased' BY <1>1, <1>9, <1>10 DEF HostInv, Phased
<1>q. QED BY <1>1, <1>2, <1>4, <1>5, <1>8, <1>11, ServerHost

LEMMA DisturbedHost ==
  ASSUME SingleEffects, HostInv, Disturbed
  PROVE  HostInv'
<1>1. /\ turn = "ticks" /\ left > 0 /\ inputs = << >> /\ UNCHANGED hostVars
      /\ Stagger \/ Steady \/ TakeHands \/ Die \/ Revive
  BY DEF Disturbed
<1>2. [Next]_vars BY <1>1 DEF Next
<1>3. stage = "poll" /\ UNCHANGED <<session, inputs, stage, settled>>
  BY <1>1 DEF Stagger, Steady, TakeHands, Die, Revive, World
<1>4. RunInv' BY <1>2, NextRun DEF HostInv
<1>5. Orderly(actor'.out, settled', session'.claim)
  BY <1>3, <1>4, NothingOut DEF RunInv, TypeInv
<1>6. UNCHANGED <<own, wire, turn, left>> BY <1>1 DEF hostVars
<1>7. Phased' BY <1>1, <1>3, <1>6 DEF HostInv, Phased
<1>q. QED BY <1>2, <1>3, <1>5, <1>6, <1>7, ServerHost

LEMMA FinalizeHost ==
  ASSUME SingleEffects, MaxPending <= RecentCapacity, HostInv, Finalize
  PROVE  HostInv'
<1> DEFINE o == actor.out[settled + 1]
           b == Settle(session, o)
<1>1. /\ turn = "ticks" /\ FinalizeOutcome /\ UNCHANGED <<own, wire, turn, left>>
      /\ stage = "finalize" /\ settled < Len(actor.out) /\ session' = b
      /\ settled' = settled + 1 /\ UNCHANGED <<actor, inputs, stage>>
  BY DEF Finalize, FinalizeOutcome, hostVars
<1>2. [Next]_vars BY <1>1 DEF Next, Server
<1>3. RunInv' BY <1>2, NextRun DEF HostInv
<1>4. Alone' BY <1>2, <1>3, NextAlone DEF HostInv
<1>5. settled \in Nat /\ Len(actor.out) \in Nat /\ settled + 1 \in DOMAIN actor.out
      /\ settled + 1 \in (settled + 1)..Len(actor.out) /\ o \in Outcomes
  BY <1>1, OutcomeAt DEF HostInv, RunInv, TypeInv
<1>6. /\ o.id = session.claim /\ session.claim # 0
      /\ Ends(o) => settled + 1 = Len(actor.out)
      /\ o.type = "Committed" => o.count # 0
  BY <1>5 DEF HostInv, Orderly
<1>7. /\ session \in SessionType /\ Cached(session) /\ wire \in Seq(Mail)
      /\ Agreed(wire \o session.pending, own.ends, own.applied, session)
      /\ Room(wire \o session.pending, own.ends, session, own.pending)
      /\ tick \in 0..MaxTick
  BY DEF HostInv, RunInv, TypeInv, HostTypes, Stream
<1>8. own.pending \in Seq(Edges) /\ Len(own.pending) <= RecentCapacity
  BY OwnFields, HostAssumption, SessionAssumption DEF HostInv, HostTypes
<1>9. /\ Agreed(wire \o b.pending, own.ends, own.applied, b)
      /\ Room(wire \o b.pending, own.ends, b, own.pending)
  BY <1>5, <1>6, <1>7, <1>8, OutcomeBooks
<1>10. b.claim = IF Ends(o) THEN 0 ELSE session.claim BY <1>5, <1>6, <1>7, SettleShape
<1>11. Orderly(actor'.out, settled', session'.claim)
  BY <1>1, <1>5, <1>6, <1>10 DEF Orderly, HostInv
<1>h. HIDE DEF o, b
<1>12. Stream' = wire \o b.pending BY <1>1 DEF Stream
<1>13. left # 0 BY <1>1 DEF HostInv, Phased
<1>14. Phased' BY <1>1, <1>13 DEF HostInv, Phased
<1>15. HostTypes' /\ Noted' BY <1>1 DEF HostInv, HostTypes, Noted
<1>q. QED BY <1>1, <1>3, <1>4, <1>9, <1>11, <1>12, <1>14, <1>15 DEF HostInv

\* Enough batches for all that is pending.
LEMMA Ceiling ==
  ASSUME NEW l \in Nat, NEW n \in Nat \ {0}
  PROVE  /\ (l + n - 1) \div n \in Nat
         /\ l <= ((l + n - 1) \div n) * n
<1> DEFINE x == l + n - 1
           d == x \div n
           m == x % n
<1>1. x \in Nat BY SMT
<1>2. d \in Nat /\ m \in 0..(n - 1) /\ x = n * d + m
  <2>h. HIDE DEF x
  <2>q. QED BY <1>1, SMTT(30)
<1>h. HIDE DEF d, m
<1>3. n * d = d * n BY <1>2
<1>4. d * n \in Nat BY <1>2
<1>5. l <= d * n BY <1>2, <1>3, <1>4
<1>q. QED BY <1>2, <1>5 DEF d

\* All that is pending is sent.
LEMMA AllSent ==
  ASSUME session.pending \in Seq(Results)
  PROVE  LET all == (Len(session.pending) + BatchSize - 1) \div BatchSize
         IN all \in Batches /\ Sent(all) = session.pending
<1> DEFINE l == Len(session.pending)
           all == (l + BatchSize - 1) \div BatchSize
<1>1. l \in Nat /\ BatchSize \in Nat \ {0} BY SessionAssumption
<1>2. all \in Nat /\ l <= all * BatchSize BY <1>1, Ceiling
<1>3. all \in Batches BY <1>2 DEF Batches
<1>h. HIDE DEF all
<1>4. all * BatchSize \in Nat BY <1>1, <1>2
<1>5. MinOf(l, all * BatchSize) = l BY <1>2 DEF MinOf
<1>6. Sent(all) = SubSeq(session.pending, 1, l) BY <1>5 DEF Sent
<1>7. SubSeq(session.pending, 1, l) = session.pending
  OBVIOUS
<1>q. QED BY <1>3, <1>6, <1>7 DEF all

\* A snapshot joins the stream, and the books still agree.
LEMMA SnapshotBooks ==
  ASSUME NEW st \in Seq(Mail), NEW e, NEW ap, NEW a, NEW b, NEW queue,
         Agreed(st, e, ap, a), Room(st, e, a, queue),
         b.recent = a.recent, b.order = a.order, b.claim = a.claim,
         NEW st2,
         \/ st2 = st
         \/ \E m \in Mail : m.type = "Snapshot" /\ st2 = Append(st, m)
  PROVE  Agreed(st2, e, ap, b) /\ Room(st2, e, b, queue)
<1>m. PICK m : st2 = st \/ (m \in Mail /\ m.type = "Snapshot" /\ st2 = Append(st, m))
  OBVIOUS
<1>1. st2 = Append(st, m) /\ m.type = "Snapshot" => \A i : ~Final(m, i)
  BY DEF Final, Word
<1>2. \A i : Shut(st2, e, i) => Shut(st, e, i) BY <1>m, <1>1, ShutLonger
<1>3. OneEnd(st2, e, ap, b.recent) BY <1>m, OneEndSnapshot DEF Agreed
<1>4. ClaimOpen(st2, e, b) BY <1>2 DEF Agreed, ClaimOpen
<1>5. \A k \in DOMAIN st : k \in DOMAIN st2 /\ st2[k] = st[k]
  BY <1>m, Longer
<1>6. Voiced(st2, ap, b) BY <1>5 DEF Agreed, Voiced
<1>7. \A i, p : Slot(a, i, p) => Slot(b, i, p) BY DEF Slot, Coming
<1>8. Room(st2, e, b, queue) BY <1>2, <1>7 DEF Room, Bound
<1>q. QED BY <1>3, <1>4, <1>6, <1>8 DEF Agreed

LEMMA EndTickHost ==
  ASSUME SingleEffects, HostInv, NEW snapshot \in BOOLEAN, EndTick(snapshot)
  PROVE  HostInv'
<1> DEFINE all == (Len(session.pending) + BatchSize - 1) \div BatchSize
           tailing == IF snapshot THEN <<Snapshot>> ELSE << >>
<1>1. /\ turn = "ticks" /\ Flush(all) /\ wire' = wire \o Sent(all) \o tailing
      /\ left' = left - 1 /\ UNCHANGED <<own, turn>>
  BY DEF EndTick
<1>2. session \in SessionType /\ session.pending \in Seq(Results)
  BY DEF HostInv, RunInv, TypeInv, SessionType
<1>3. all \in Batches /\ Sent(all) = session.pending BY <1>2, AllSent
<1>h. HIDE DEF all
<1>4. [Next]_vars BY <1>1, <1>3 DEF Next, Server
<1>5. RunInv' BY <1>4, NextRun DEF HostInv
<1>6. Alone' BY <1>4, <1>5, NextAlone DEF HostInv
<1>7. /\ stage = "finalize" /\ stage' = "poll" /\ inputs' = inputs /\ settled' = 0
      /\ session' = [session EXCEPT !.pending = << >>]
  BY <1>1, <1>3 DEF Flush
<1>8. /\ session'.pending = << >> /\ session'.recent = session.recent
      /\ session'.order = session.order /\ session'.claim = session.claim
  BY <1>2, <1>7 DEF SessionType
<1>9. wire \in Seq(Mail) /\ Stream = wire \o session.pending /\ Stream \in Seq(Mail)
  BY <1>2, StreamGrows DEF HostInv, HostTypes, Stream
<1>10. Snapshot \in Mail /\ Snapshot.type = "Snapshot"
  BY DEF HostInv, RunInv, TypeInv, Sound, ActorType, Mail, Snapshot
<1>11. wire' = Stream \o tailing BY <1>1, <1>3, <1>9
<1>12. wire' = Stream \/ wire' = Append(Stream, Snapshot)
  <2>1. ASSUME NEW S, NEW q \in Seq(S), NEW x \in S
        PROVE  q \o << >> = q /\ q \o <<x>> = Append(q, x)
    BY <2>1
  <2>2. Stream \o << >> = Stream /\ Stream \o <<Snapshot>> = Append(Stream, Snapshot)
    BY <1>9, <1>10, <2>1
  <2>q. QED BY <1>11, <2>2
<1>13. wire' \in Seq(Mail)
  <2>1. ASSUME NEW S, NEW q \in Seq(S), NEW x \in S PROVE Append(q, x) \in Seq(S)
    BY <2>1
  <2>2. Append(Stream, Snapshot) \in Seq(Mail) BY <1>9, <1>10, <2>1
  <2>q. QED BY <1>9, <1>12, <2>2
<1>14. Stream' = wire'
  BY <1>8, <1>13 DEF Stream
<1>15. /\ Agreed(Stream', own'.ends, own'.applied, session')
       /\ Room(Stream', own'.ends, session', own'.pending)
  <2>1. /\ Agreed(Stream, own.ends, own.applied, session)
        /\ Room(Stream, own.ends, session, own.pending)
    BY DEF HostInv
  <2>2. \/ Stream' = Stream
        \/ \E m \in Mail : m.type = "Snapshot" /\ Stream' = Append(Stream, m)
    BY <1>10, <1>12, <1>14
  <2>3. own' = own BY <1>1
  <2>h. HIDE DEF tailing
  <2>4. /\ Agreed(Stream', own.ends, own.applied, session')
        /\ Room(Stream', own.ends, session', own.pending)
    BY <1>8, <1>9, <2>1, <2>2, SnapshotBooks
  <2>q. QED BY <2>3, <2>4
<1>16. left # 0 /\ left \in Nat /\ inputs = << >> BY <1>1, <1>7 DEF HostInv, Phased
<1>17. left' \in Nat BY <1>1, <1>16
<1>18. Phased' BY <1>1, <1>7, <1>8, <1>16, <1>17 DEF HostInv, Phased
<1>19. HostTypes' /\ Noted' BY <1>1, <1>13 DEF HostInv, HostTypes, Noted
<1>20. Orderly(actor'.out, settled', session'.claim)
  BY <1>5, <1>7, NothingOut DEF RunInv, TypeInv
<1>q. QED BY <1>5, <1>6, <1>15, <1>18, <1>19, <1>20 DEF HostInv

\* The head of the stream is dropped: its instance has been heard of, or it says
\* nothing.
LEMMA DroppedBooks ==
  ASSUME NEW st \in Seq(Mail), st # << >>, NEW e, NEW ap, NEW ses, NEW queue,
         Agreed(st, e, ap, ses), Room(st, e, ses, queue),
         Word(Head(st), ses.claim) /\ Head(st).count # 0 => ses.claim \in DOMAIN ap
  PROVE  Agreed(Tail(st), e, ap, ses) /\ Room(Tail(st), e, ses, queue)
<1> DEFINE v == Tail(st)
<1>1. /\ Len(st) \in Nat \ {0} /\ DOMAIN st = 1..Len(st)
      /\ DOMAIN v = 1..(Len(st) - 1) /\ Head(st) = st[1]
      /\ \A k \in 1..(Len(st) - 1) : v[k] = st[k + 1]
  BY Shorter
<1>2. /\ \A i : Shut(v, e, i) => Shut(st, e, i)
      /\ OneEnd(v, e, ap, ses.recent)
  BY OneEndDropped DEF Agreed
<1>h. HIDE DEF v
<1>3. ClaimOpen(v, e, ses) BY <1>2 DEF Agreed, ClaimOpen
<1>4. \A k \in DOMAIN st : k = 1 \/ (k - 1 \in DOMAIN v /\ v[k - 1] = st[k]) BY <1>1
<1>5. Voiced(v, ap, ses) BY <1>1, <1>4 DEF Agreed, Voiced
<1>6. Room(v, e, ses, queue) BY <1>2 DEF Room, Bound
<1>7. Agreed(v, e, ap, ses) BY <1>2, <1>3, <1>5 DEF Agreed
<1>q. QED BY <1>6, <1>7 DEF v

\* The head of the stream is a result and is applied.
LEMMA TakenBooks ==
  ASSUME NEW st \in Seq(Mail), st # << >>, NEW r \in Results, r = Head(st),
         NEW e \in [Ids -> Nat], NEW ap, NEW ses \in SessionType,
         NEW queue \in Seq(Edges),
         Agreed(st, e, ap, ses), Room(st, e, ses, queue),
         r.id \in DOMAIN ap => ap[r.id] # r
  PROVE  LET e2 == [e EXCEPT ![r.id] = IF Terminal(r) THEN @ + 1 ELSE @]
             ap2 == With(ap, r.id, r)
         IN /\ e2 \in [Ids -> Nat]
            /\ Agreed(Tail(st), e2, ap2, ses) /\ Room(Tail(st), e2, ses, queue)
<1> DEFINE v == Tail(st)
           e2 == [e EXCEPT ![r.id] = IF Terminal(r) THEN @ + 1 ELSE @]
           ap2 == With(ap, r.id, r)
           rec == ses.recent
<1>1. /\ Len(st) \in Nat \ {0} /\ DOMAIN st = 1..Len(st)
      /\ DOMAIN v = 1..(Len(st) - 1) /\ r = st[1]
      /\ \A k \in 1..(Len(st) - 1) : v[k] = st[k + 1]
  BY Shorter
<1>2. r.id \in Ids BY DEF Results
<1>3. /\ e2 \in [Ids -> Nat]
      /\ e2[r.id] = IF Terminal(r) THEN e[r.id] + 1 ELSE e[r.id]
      /\ \A j \in Ids \ {r.id} : e2[j] = e[j]
  BY <1>2
<1>4. /\ DOMAIN ap2 = DOMAIN ap \cup {r.id} /\ ap2[r.id] = r
      /\ \A j \in DOMAIN ap \ {r.id} : ap2[j] = ap[j]
  BY DEF With
<1>5. Final(r, r.id) <=> Terminal(r) BY DEF Final, Word, Terminal, Results
<1>h. HIDE DEF e2, ap2, rec
<1>6. OneEnd(st, e, ap, rec) BY DEF Agreed, rec
<1>7. /\ OneEnd(v, e2, ap2, rec)
      /\ \A i \in Ids : Shut(v, e2, i) => Shut(st, e, i)
  <2>1. /\ Head(st) \in Results
        /\ Head(st).id \in DOMAIN ap => ap[Head(st).id] # Head(st)
        /\ \A j \in Ids \ {Head(st).id} :
             e2[j] = e[j] /\ (j \in DOMAIN ap => j \in DOMAIN ap2 /\ ap2[j] = ap[j])
        /\ Head(st).id \in DOMAIN ap2 /\ ap2[Head(st).id] = Head(st)
        /\ e2[Head(st).id] = IF Final(Head(st), Head(st).id)
                             THEN e[Head(st).id] + 1 ELSE e[Head(st).id]
    BY <1>3, <1>4, <1>5
  <2>2. e2 \in [Ids -> Nat] BY <1>3
  <2>3. OneEnd(Tail(st), e2, ap2, rec) BY <1>6, <2>1, <2>2, OneEndTaken
  <2>4. ASSUME NEW i \in Ids, Shut(Tail(st), e2, i) PROVE Shut(st, e, i)
    <3>1. \A k \in DOMAIN v : k + 1 \in DOMAIN st /\ v[k] = st[k + 1] BY <1>1
    <3>2. e2[i] > 0 => e[i] > 0 \/ Final(st[1], i) BY <1>1, <1>3, <1>5
    <3>3. 1 \in DOMAIN st BY <1>1
    <3>4. Shut(v, e2, i) BY <2>4
    <3>h. HIDE DEF v
    <3>q. QED BY <3>1, <3>2, <3>3, <3>4 DEF Shut
  <2>q. QED BY <2>3, <2>4
<1>h2. HIDE DEF v
<1>8. ses.claim \in Ids BY DEF SessionType
<1>9. ClaimOpen(v, e2, ses) BY <1>7, <1>8 DEF Agreed, ClaimOpen
<1>10. \A k \in DOMAIN st : k = 1 \/ (k - 1 \in DOMAIN v /\ v[k - 1] = st[k]) BY <1>1
<1>11. Voiced(v, ap2, ses) BY <1>1, <1>4, <1>10 DEF Agreed, Voiced, Word
<1>12. \A p \in DOMAIN queue : queue[p].intent.id \in Ids
  <2>1. \A p \in DOMAIN queue : queue[p] \in Edges OBVIOUS
  <2>2. \A x \in Edges : x.intent.id \in Ids BY SessionAssumption DEF Edges
  <2>q. QED BY <2>1, <2>2
<1>13. Room(v, e2, ses, queue) BY <1>7, <1>12 DEF Room, Bound
<1>14. Agreed(v, e2, ap2, ses) BY <1>7, <1>9, <1>11 DEF Agreed, rec
<1>q. QED BY <1>3, <1>13, <1>14 DEF v, e2, ap2

\* What is read of the wire between two updates is the whole stream.
LEMMA DrainStream ==
  ASSUME HostInv, turn = "drain"
  PROVE  /\ wire \in Seq(Mail) /\ Stream = wire
         /\ \A u \in Seq(Mail) : u \o session.pending = u
  BY DEF HostInv, HostTypes, Phased, Stream

\* One event is read: what is left to show of each of the client's handlers.
LEMMA ReadHost ==
  ASSUME HostInv, turn = "drain", wire # << >>, wire' = Tail(wire),
         UNCHANGED <<turn, left>>,
         UNCHANGED <<session, inputs, stage, taken, settled, tick, hist>>,
         actor' = actor \/ \E o \in Entries : actor' = RollBack(actor, o),
         own' \in OwnType, own'.pending = own.pending, Noted',
         Agreed(Tail(wire), own'.ends, own'.applied, session),
         Room(Tail(wire), own'.ends, session, own.pending)
  PROVE  HostInv'
  BY ClientRun, Shorter, DrainStream DEF HostInv, HostTypes, Stream, Phased

LEMMA SnapshotHost ==
  ASSUME HostInv, turn = "drain", wire # << >>, wire' = Tail(wire),
         UNCHANGED <<turn, left>>, Head(wire).type = "Snapshot",
         handle_client_snapshot(Head(wire))
  PROVE  HostInv'
<1> DEFINE f == own.outstanding
           m == Head(wire)
           g == Without(f, Reconciled(m))
<1>1. /\ own' = own \/ own' = [own EXCEPT !.baseline = m.tick, !.outstanding = g]
      /\ UNCHANGED vars
  BY DEF handle_client_snapshot
<1>2. /\ own \in OwnType /\ DOMAIN f \subseteq Ids
      /\ \A j \in DOMAIN f : f[j] \in Entries
  BY OwnFields DEF HostInv, HostTypes
<1>3. /\ g \in Ledgers
      /\ DOMAIN g \subseteq DOMAIN f /\ \A j \in DOMAIN g : g[j] = f[j]
  BY <1>2, FewerEntries
<1>4. m \in Mail /\ m.tick \in Int
  BY Shorter, SessionAssumption DEF HostInv, HostTypes, Mail, Results
<1>h. HIDE DEF g
<1>5. /\ own' \in OwnType /\ own'.pending = own.pending
      /\ own'.applied = own.applied /\ own'.ends = own.ends
      /\ own'.outstanding = f \/ own'.outstanding = g
  BY <1>1, <1>2, <1>3, <1>4 DEF OwnType
<1>6. Noted' BY <1>3, <1>5 DEF HostInv, Noted
<1>7. /\ Agreed(Tail(wire), own.ends, own.applied, session)
      /\ Room(Tail(wire), own.ends, session, own.pending)
  BY DrainStream, DroppedBooks DEF HostInv, Word
<1>8. UNCHANGED <<session, inputs, stage, taken, settled, tick, hist, actor>>
  BY <1>1 DEF vars
<1>q. QED BY <1>5, <1>6, <1>7, <1>8, ReadHost

LEMMA DropHost ==
  ASSUME HostInv, turn = "drain", wire # << >>, wire' = Tail(wire),
         UNCHANGED <<turn, left>>, NEW r, r = Head(wire), r \in Results,
         Old(r) \/ (r.id \in DOMAIN own.outstanding /\ Behind(r, own.outstanding[r.id])),
         Drop
  PROVE  HostInv'
<1>1. UNCHANGED <<own, session, inputs, stage, taken, settled, tick, hist, actor>>
  BY DEF Drop, vars
<1>2. r.count # 0 => r.id \in DOMAIN own.applied
  BY OwnFields, RuntimeAssumption DEF Old, HostInv, HostTypes, Entries, Results, Counts,
    Behind, Noted
<1>3. /\ Agreed(Tail(wire), own.ends, own.applied, session)
      /\ Room(Tail(wire), own.ends, session, own.pending)
  BY <1>2, DrainStream, DroppedBooks DEF HostInv, Word
<1>4. own' \in OwnType /\ Noted' BY <1>1 DEF HostInv, HostTypes, Noted
<1>q. QED BY <1>1, <1>3, <1>4, ReadHost

LEMMA TakeHost ==
  ASSUME HostInv, turn = "drain", wire # << >>, wire' = Tail(wire),
         UNCHANGED <<turn, left>>, NEW r, r = Head(wire), r \in Results,
         ~Old(r), Take(r)
  PROVE  HostInv'
<1> DEFINE i == r.id
           f == own.outstanding
           o == f[i]
           known == i \in DOMAIN f
           covered == own.baseline >= r.tick
           done == CompletesFinite(r, o) \/ (Terminal(r) /\ covered)
           heard == [o EXCEPT !.age = 0, !.confirmed = r.count,
                              !.terminal = @ \/ Terminal(r)]
           g == IF ~known THEN f ELSE IF done THEN Without(f, {i}) ELSE With(f, i, heard)
           e2 == [own.ends EXCEPT ![i] = IF Terminal(r) THEN @ + 1 ELSE @]
           ap2 == With(own.applied, i, r)
<1>1. own' = [own EXCEPT !.applied = ap2, !.ends = e2, !.outstanding = g]
  BY DEF Take
<1>2. /\ UNCHANGED <<session, inputs, stage, taken, settled, tick, hist>>
      /\ actor' = actor \/ (known /\ actor' = RollBack(actor, o))
  BY DEF Take, ActorOnly
<1>3. /\ own \in OwnType /\ DOMAIN f \subseteq Ids /\ f \in Ledgers
      /\ \A j \in DOMAIN f : f[j] \in Entries
      /\ own.pending \in Seq(Edges) /\ own.applied \in Caches
      /\ own.ends \in [Ids -> Nat]
  BY OwnFields DEF HostInv, HostTypes, OwnType
<1>4. i \in Ids /\ r.count \in Counts /\ r.tick \in Nat /\ r.count \in Nat
  BY RuntimeAssumption, SessionAssumption DEF Results, Counts
<1>5. known => heard \in Entries
  <2> SUFFICES ASSUME known PROVE heard \in Entries
    OBVIOUS
  <2>1. o \in Entries BY <1>3
  <2>h. HIDE DEF o
  <2>q. QED BY <1>4, <2>1 DEF Entries, Terminal
<1>h. HIDE DEF heard
<1>6. g \in Ledgers /\ DOMAIN g \subseteq DOMAIN f
      /\ \A j \in DOMAIN g \ {i} : g[j] = f[j]
  <2>1. CASE ~known BY <1>3, <2>1
  <2>2. CASE known /\ done
    <3>1. g = Without(f, {i}) BY <2>2
    <3>h. HIDE DEF g, f, i, done
    <3>q. QED BY <1>3, <3>1, FewerEntries
  <2>3. CASE known /\ ~done
    <3>1. g = With(f, i, heard) BY <2>3
    <3>2. i \in DOMAIN f /\ heard \in Entries BY <1>5, <2>3
    <3>h. HIDE DEF g, f, i, done
    <3>3. g \in Ledgers BY <1>3, <1>4, <3>1, <3>2, OneEntryMore
    <3>4. DOMAIN g = DOMAIN f /\ \A j \in DOMAIN f \ {i} : g[j] = f[j]
      BY <3>1, <3>2 DEF With
    <3>q. QED BY <3>3, <3>4
  <2>q. QED BY <2>1, <2>2, <2>3
<1>7. /\ ap2 \in Caches /\ DOMAIN ap2 = DOMAIN own.applied \cup {i}
  <2>1. PICK D \in SUBSET Ids : own.applied \in [D -> Results] BY <1>3 DEF Caches
  <2>2. ap2 \in [D \cup {i} -> Results] /\ DOMAIN ap2 = D \cup {i} BY <2>1 DEF With
  <2>3. D \cup {i} \in SUBSET Ids BY <1>4
  <2>h. HIDE DEF ap2, i
  <2>4. ap2 \in Caches BY <2>2, <2>3 DEF Caches
  <2>q. QED BY <2>1, <2>2, <2>4
<1>8. r.id \in DOMAIN own.applied => own.applied[r.id] # r BY <1>4 DEF Old
<1>9. /\ e2 \in [Ids -> Nat]
      /\ Agreed(Tail(wire), e2, ap2, session)
      /\ Room(Tail(wire), e2, session, own.pending)
  <2>1. /\ Agreed(wire, own.ends, own.applied, session)
        /\ Room(wire, own.ends, session, own.pending)
        /\ wire \in Seq(Mail) /\ session \in SessionType
    BY DrainStream DEF HostInv, RunInv, TypeInv
  <2>q. QED BY <1>3, <1>8, <2>1, TakenBooks
<1>h2. HIDE DEF g, e2, ap2
<1>10. /\ own' \in OwnType /\ own'.pending = own.pending /\ own'.outstanding = g
       /\ own'.applied = ap2 /\ own'.ends = e2
  BY <1>1, <1>3, <1>6, <1>7, <1>9 DEF OwnType
<1>11. Noted' BY <1>6, <1>7, <1>10 DEF HostInv, Noted
<1>12. actor' = actor \/ \E x \in Entries : actor' = RollBack(actor, x)
  BY <1>2, <1>3
<1>q. QED BY <1>2, <1>9, <1>10, <1>11, <1>12, ReadHost

LEMMA DrainHost ==
  ASSUME HostInv, Drain
  PROVE  HostInv'
  BY Shorter, SnapshotHost, DropHost, TakeHost DEF Drain, HostInv, HostTypes, Mail,
    handle_client_local_action_result

-----------------------------------------------------------------------------
LEMMA InitHost == HostInit => HostInv
<1> SUFFICES ASSUME HostInit PROVE HostInv
  OBVIOUS
<1>1. /\ Init /\ own = [InitOwner EXCEPT !.baseline = 0]
      /\ wire = << >> /\ turn = "host" /\ left = 0
  BY DEF HostInit
<1>2. /\ own.pending = << >> /\ own.outstanding = << >> /\ own.applied = << >>
      /\ own.baseline = 0 /\ own.ends = [i \in Ids |-> 0]
      /\ own = [pending |-> << >>, outstanding |-> << >>, applied |-> << >>,
                baseline |-> 0, ends |-> [i \in Ids |-> 0]]
  BY <1>1 DEF InitOwner
<1>3. /\ session.pending = << >> /\ session.claim = 0 /\ session.recent = << >>
      /\ inputs = << >> /\ stage = "poll" /\ settled = 0
  BY <1>1 DEF Init, InitSession
<1>4. RunInv /\ ~InProgress(actor) /\ actor.out = << >>
  BY <1>1, InitRun, InitActorFit DEF Init
<1>5. DOMAIN inputs = {} BY <1>3
<1>6. Alone BY <1>4, <1>5 DEF Alone
<1>7. DOMAIN << >> = {} /\ Len(<< >>) = 0 OBVIOUS
<1>8. << >> \in Ledgers /\ << >> \in Caches
  <2>1. << >> \in [{} -> Entries] /\ << >> \in [{} -> Results]
    BY <1>7
  <2>2. {} \in SUBSET Ids OBVIOUS
  <2>q. QED BY <2>1, <2>2 DEF Ledgers, Caches
<1>9. own \in OwnType BY <1>2, <1>8 DEF OwnType
<1>10. HostTypes BY <1>1, <1>2, <1>7, <1>9, HostAssumption DEF HostTypes
<1>11. Phased BY <1>1, <1>3 DEF Phased
<1>12. Noted BY <1>2, <1>7 DEF Noted
<1>13. Stream = << >> BY <1>1, <1>3 DEF Stream
<1>14. \A i \in Ids : ~Shut(Stream, own.ends, i) BY <1>2, <1>7, <1>13 DEF Shut
<1>15. Agreed(Stream, own.ends, own.applied, session)
  BY <1>3, <1>14 DEF Agreed, OneEnd, ClaimOpen, Voiced
<1>16. Room(Stream, own.ends, session, own.pending) BY <1>2, <1>7 DEF Room
<1>17. Orderly(actor.out, settled, session.claim) BY <1>3, <1>4, NothingOut
<1>q. QED BY <1>4, <1>6, <1>10, <1>11, <1>12, <1>15, <1>16, <1>17 DEF HostInv

\* Every step of an update preserves the invariant.
LEMMA NextHost ==
  ASSUME SingleEffects, MaxPending <= RecentCapacity, HostInv, [HostNext]_allVars
  PROVE  HostInv'
<1>1. CASE StartTicks
  BY <1>1, TurnHost DEF StartTicks, HostInv, Phased, vars
<1>2. CASE StopTicks
  BY <1>2, TurnHost DEF StopTicks, HostInv, Phased, vars
<1>3. CASE EndUpdate
  BY <1>3, TurnHost DEF EndUpdate, HostInv, Phased, vars
<1>4. CASE UNCHANGED allVars
  BY <1>4, TurnHost DEF allVars, hostVars, HostInv, Phased, vars
<1>5. ASSUME NEW intent \in [id: IntentIds, binding: Bindings], NEW w \in Arms,
             submit_player_input(intent, w)
      PROVE  HostInv'
  BY <1>5, SubmitHost
<1>6. ASSUME NEW ticks \in 0..TicksPerUpdate, StartUpdate(ticks) PROVE HostInv'
  BY <1>6, StartHost
<1>7. ASSUME NEW i \in Ids, Expire(i) PROVE HostInv' BY <1>7, ExpireHost
<1>8. ASSUME NEW holdId \in IntentIds \cup {0}, NEW held \in BOOLEAN, NEW w \in Arms,
             Emit(holdId, held, w)
      PROVE  HostInv'
  BY <1>8, EmitHost
<1>9. ASSUME NEW snapshot \in BOOLEAN, EndTick(snapshot) PROVE HostInv'
  BY <1>9, EndTickHost
<1>10. CASE Simulate BY <1>10, SimulateHost
<1>11. CASE Finalize BY <1>11, FinalizeHost
<1>12. CASE Disturbed BY <1>12, DisturbedHost
<1>13. CASE Drain BY <1>13, DrainHost
<1>q. QED BY <1>1, <1>2, <1>3, <1>4, <1>5, <1>6, <1>7, <1>8, <1>9, <1>10, <1>11,
             <1>12, <1>13 DEF HostNext

\* The application hears the end of an instance at most once, whatever it
\* submits again, whatever times out or is rolled back and whatever the cache of
\* results forgets: for catalogs whose reloads and targeted strikes commit once,
\* and a cache that holds as many results as the client queues intents
\* (handle_client_local_action_results, queue_local_action_result).
THEOREM EndIsHeardOnce ==
  ASSUME HostCatalog, SingleEffects, MaxPending <= RecentCapacity
  PROVE  HostSpec => []EndHeardOnce
<1>1. HostInit => HostInv BY InitHost
<1>2. HostInv /\ [HostNext]_allVars => HostInv' BY NextHost
<1>3. HostInv => EndHeardOnce
  BY OwnFields DEF EndHeardOnce, HostInv, HostTypes, Agreed, OneEnd, Shut, Sealed
<1>q. QED BY <1>1, <1>2, <1>3, PTL DEF HostSpec

-----------------------------------------------------------------------------
(* The last word.  The results of an instance form one chain: the one       *)
(* applied, those on the way, the one the session remembers.  Each counts   *)
(* no less than the one before and is of a later tick, so the client half   *)
(* drops none it has not got, and when the stream is empty it holds the     *)
(* last.                                                                    *)

\* The stream, of the wire w and what the session ses has queued.
StreamOf(w, ses) == w \o ses.pending

\* b repeats a or comes after it.
Later(a, b) == a = b \/ (a.count <= b.count /\ a.tick < b.tick)

\* The words of i in the stream st, among the results applied, ap, and among
\* those remembered, rec.
Said(st, ap, rec, i) ==
  {st[k] : k \in {n \in DOMAIN st : Word(st[n], i)}}
    \cup {ap[j] : j \in DOMAIN ap \cap {i}} \cup {rec[j] : j \in DOMAIN rec \cap {i}}

\* They are in order, and one with a tick that is remembered is not lost.
Chain(st, ap, rec, i) ==
  /\ \A j, k \in DOMAIN st :
       j < k /\ Word(st[j], i) /\ Word(st[k], i) => Later(st[j], st[k])
  /\ i \in DOMAIN ap => \A k \in DOMAIN st : Word(st[k], i) => Later(ap[i], st[k])
  /\ i \in DOMAIN rec =>
       /\ \A k \in DOMAIN st : Word(st[k], i) => Later(st[k], rec[i])
       /\ i \in DOMAIN ap => Later(ap[i], rec[i])
       /\ rec[i].tick > 0 => \/ \E k \in DOMAIN st : st[k] = rec[i]
                             \/ i \in DOMAIN ap /\ ap[i] = rec[i]
InOrder(st, ap, rec) == \A i \in Ids : Chain(st, ap, rec, i)

\* The client half has heard of i, or will.
Heard(st, ap, i) == i \in DOMAIN ap \/ \E k \in DOMAIN st : Word(st[k], i)

\* An instance heard of is not forgotten while its intent is queued again.
HeardRoom(st, ap, ses, queue) ==
  \A p \in DOMAIN queue :
    Heard(st, ap, queue[p].intent.id) => Slot(ses, queue[p].intent.id, p)

LEMMA LaterTrans ==
  ASSUME NEW a \in Results, NEW b \in Results, NEW c \in Results
  PROVE  /\ Later(a, b) /\ Later(b, c) => Later(a, c)
         /\ Later(a, b) /\ b.tick <= a.tick => a = b
  BY RuntimeAssumption, SessionAssumption DEF Results, Counts, Later

LEMMA LaterNumbers ==
  ASSUME NEW a \in Results
  PROVE  a.count \in Nat /\ a.tick \in Nat /\ Later(a, a) /\ a.type # "Snapshot"
  BY RuntimeAssumption, SessionAssumption DEF Results, Counts, Later

\* In a cache, r is new.
Renews(rec, rec2, r) ==
  /\ r.id \in DOMAIN rec2 => rec2[r.id] = r
  /\ \A j \in DOMAIN rec2 \ {r.id} : j \in DOMAIN rec /\ rec2[j] = rec[j]

\* What is said then was said before, or is r.
SaysMore(st, st2, ap, rec, rec2, r) ==
  \A i : \A m \in Said(st2, ap, rec2, i) :
    m \in Said(st, ap, rec, i) \/ (i = r.id /\ m = r)

\* What words there are when a result is queued, and when the head is read.
LEMMA SaidQueued ==
  ASSUME NEW st \in Seq(Mail), NEW ap, NEW rec, NEW r \in Results, NEW rec2,
         Renews(rec, rec2, r), NEW st2, st2 = st \/ st2 = Append(st, r)
  PROVE  SaysMore(st, st2, ap, rec, rec2, r)
  BY Longer DEF SaysMore, Renews, Said, Word, Mail

LEMMA SaidRead ==
  ASSUME NEW st \in Seq(Mail), st # << >>, NEW ap, NEW rec, NEW ap2,
         \A j \in DOMAIN ap2 :
           \/ j \in DOMAIN ap /\ ap2[j] = ap[j]
           \/ Word(Head(st), j) /\ ap2[j] = Head(st),
         NEW i, NEW m \in Said(Tail(st), ap2, rec, i)
  PROVE  m \in Said(st, ap, rec, i)
<1> DEFINE v == Tail(st)
<1>1. /\ Len(st) \in Nat \ {0} /\ DOMAIN st = 1..Len(st) /\ Head(st) = st[1]
      /\ DOMAIN v = 1..(Len(st) - 1)
      /\ \A k \in 1..(Len(st) - 1) : v[k] = st[k + 1]
  BY Shorter
<1>2. m \in Said(v, ap2, rec, i) OBVIOUS
<1>h. HIDE DEF v
<1>3. \A k \in DOMAIN v : k + 1 \in DOMAIN st /\ v[k] = st[k + 1] BY <1>1
<1>4. 1 \in DOMAIN st BY <1>1
<1>5. \A k \in DOMAIN st : Word(st[k], i) => st[k] \in Said(st, ap, rec, i) BY DEF Said
<1>6. CASE m \in {v[k] : k \in {n \in DOMAIN v : Word(v[n], i)}} BY <1>3, <1>5, <1>6
<1>7. CASE m \in {ap2[j] : j \in DOMAIN ap2 \cap {i}}
  BY <1>1, <1>4, <1>5, <1>7 DEF Said
<1>8. CASE m \in {rec[j] : j \in DOMAIN rec \cap {i}} BY <1>8 DEF Said
<1>q. QED BY <1>2, <1>6, <1>7, <1>8 DEF Said

\* A result is queued that comes after all words of its instance.
LEMMA OrderQueued ==
  ASSUME NEW st \in Seq(Mail), NEW ap, NEW rec, InOrder(st, ap, rec),
         NEW r \in Results, NEW rec2,
         r.id \in DOMAIN rec2, rec2[r.id] = r,
         \A j \in DOMAIN rec2 \ {r.id} : j \in DOMAIN rec /\ rec2[j] = rec[j],
         \A j \in DOMAIN rec : rec[j].id = j,
         \A m \in Said(st, ap, rec, r.id) : Later(m, r),
         NEW st2,
         \/ st2 = Append(st, r)
         \/ st2 = st /\ \E k \in DOMAIN st : Word(st[k], r.id) /\ st[k].tick = r.tick
  PROVE  InOrder(st2, ap, rec2)
<1> SUFFICES ASSUME NEW i \in Ids PROVE Chain(st2, ap, rec2, i)
  BY DEF InOrder
<1>r. r \in Mail /\ r.type # "Snapshot" /\ Later(r, r) /\ r.tick \in Nat
  BY LaterNumbers DEF Mail
<1>c. Chain(st, ap, rec, i) BY DEF InOrder
<1>s. i = r.id => /\ \A k \in DOMAIN st : Word(st[k], i) => Later(st[k], r)
                  /\ i \in DOMAIN ap => Later(ap[i], r)
  BY DEF Said
<1>1. CASE st2 = Append(st, r)
  BY <1>1, <1>c, <1>r, <1>s, Longer DEF Word, Chain
<1>2. CASE st2 = st /\ \E k \in DOMAIN st : Word(st[k], r.id) /\ st[k].tick = r.tick
  BY <1>2, <1>c, <1>r, <1>s, LaterTrans DEF Mail, Word, Chain
<1>q. QED BY <1>1, <1>2

\* The head of the stream is read: a snapshot, or a word dropped that has been
\* applied or has no tick, or a word taken.
LEMMA OrderRead ==
  ASSUME NEW st \in Seq(Mail), st # << >>, NEW ap \in Caches, NEW rec \in Caches,
         \A j \in DOMAIN rec : rec[j].id = j,
         InOrder(st, ap, rec), NEW ap2,
         \/ /\ ap2 = ap
            /\ \/ Head(st).type = "Snapshot" \/ Head(st).tick = 0
               \/ Head(st).id \in DOMAIN ap /\ ap[Head(st).id] = Head(st)
         \/ Head(st) \in Results /\ ap2 = With(ap, Head(st).id, Head(st))
  PROVE  InOrder(Tail(st), ap2, rec)
<1> DEFINE v == Tail(st)
           m == Head(st)
<1>1. /\ Len(st) \in Nat \ {0} /\ DOMAIN st = 1..Len(st) /\ m = st[1] /\ m \in Mail
      /\ DOMAIN v = 1..(Len(st) - 1)
      /\ \A k \in 1..(Len(st) - 1) : v[k] = st[k + 1]
  BY Shorter
<1>2. \/ /\ ap2 = ap
         /\ m.type = "Snapshot" \/ m.tick = 0 \/ (m.id \in DOMAIN ap /\ ap[m.id] = m)
      \/ m \in Results /\ ap2 = With(ap, m.id, m)
  OBVIOUS
<1>st. \A k \in DOMAIN st : st[k] \in Mail OBVIOUS
<1>h. HIDE DEF v, m
<1> SUFFICES ASSUME NEW i \in Ids PROVE Chain(v, ap2, rec, i)
  BY DEF InOrder, v
<1>c. Chain(st, ap, rec, i) BY DEF InOrder
<1>3. \A k \in DOMAIN v : k + 1 \in DOMAIN st /\ v[k] = st[k + 1] /\ 1 < k + 1 BY <1>1
<1>4. 1 \in DOMAIN st BY <1>1
<1>5. \A k \in DOMAIN st : k = 1 \/ (k - 1 \in DOMAIN v /\ v[k - 1] = st[k]) BY <1>1
<1>6. \A j, k \in DOMAIN v : j < k => j + 1 < k + 1 BY <1>1
<1>7. \A j, k \in DOMAIN v :
        j < k /\ Word(v[j], i) /\ Word(v[k], i) => Later(v[j], v[k])
  BY <1>c, <1>3, <1>6 DEF Chain
<1>8. i \in DOMAIN rec => \A k \in DOMAIN v : Word(v[k], i) => Later(v[k], rec[i])
  BY <1>c, <1>3 DEF Chain
<1>9. \A k \in DOMAIN v : Word(v[k], i) /\ Word(m, i) => Later(m, v[k])
  BY <1>c, <1>1, <1>3, <1>4 DEF Chain
<1>10. i \in DOMAIN rec => rec[i] \in Results /\ rec[i].id = i /\ rec[i].type # "Snapshot"
       /\ rec[i].tick \in Nat
  BY LaterNumbers DEF Caches
<1>11. i \in DOMAIN ap => ap[i] \in Results BY DEF Caches
<1>12. CASE /\ ap2 = ap
            /\ m.type = "Snapshot" \/ m.tick = 0 \/ (m.id \in DOMAIN ap /\ ap[m.id] = m)
  <2>1. i \in DOMAIN ap => \A k \in DOMAIN v : Word(v[k], i) => Later(ap[i], v[k])
    BY <1>c, <1>3 DEF Chain
  <2>2. ASSUME i \in DOMAIN rec, rec[i].tick > 0
        PROVE  (\E k \in DOMAIN v : v[k] = rec[i]) \/ (i \in DOMAIN ap /\ ap[i] = rec[i])
    BY <1>1, <1>5, <1>10, <1>12, <1>c, <2>2 DEF Chain
  <2>3. i \in DOMAIN rec /\ i \in DOMAIN ap => Later(ap[i], rec[i]) BY <1>c DEF Chain
  <2>q. QED BY <1>7, <1>8, <1>12, <2>1, <2>2, <2>3 DEF Chain
<1>13. CASE m \in Results /\ ap2 = With(ap, m.id, m)
  <2>1. /\ DOMAIN ap2 = DOMAIN ap \cup {m.id} /\ ap2[m.id] = m
        /\ \A j \in DOMAIN ap \ {m.id} : ap2[j] = ap[j]
    BY <1>13 DEF With
  <2>2. m.type # "Snapshot" BY <1>13, LaterNumbers
  <2>3. CASE i = m.id
    <3>1. Word(m, i) /\ i \in DOMAIN ap2 /\ ap2[i] = m BY <2>1, <2>2, <2>3 DEF Word
    <3>2. i \in DOMAIN rec => Later(m, rec[i]) BY <1>c, <1>1, <1>4, <3>1 DEF Chain
    <3>3. i \in DOMAIN ap => Later(ap[i], m) BY <1>c, <1>1, <1>4, <3>1 DEF Chain
    <3>4. ASSUME i \in DOMAIN rec, rec[i].tick > 0
          PROVE  (\E k \in DOMAIN v : v[k] = rec[i]) \/ m = rec[i]
      <4>1. CASE i \in DOMAIN ap /\ ap[i] = rec[i]
        BY <1>10, <1>13, <3>2, <3>3, <3>4, <4>1, LaterNumbers, LaterTrans DEF Later
      <4>2. ASSUME NEW k \in DOMAIN st, st[k] = rec[i]
            PROVE  (\E n \in DOMAIN v : v[n] = rec[i]) \/ m = rec[i]
        BY <1>1, <1>5, <4>2
      <4>q. QED BY <1>c, <3>4, <4>1, <4>2 DEF Chain
    <3>q. QED BY <1>7, <1>8, <1>9, <3>1, <3>2, <3>4 DEF Chain
  <2>4. CASE i # m.id
    BY <1>1, <1>3, <1>5, <1>7, <1>8, <1>10, <1>c, <2>1, <2>4 DEF Chain
  <2>q. QED BY <2>3, <2>4
<1>q. QED BY <1>2, <1>12, <1>13

\* Nothing more is heard of than was.
LEMMA HeardQueued ==
  ASSUME NEW st \in Seq(Mail), NEW ap, NEW m \in Mail,
         NEW st2, st2 = st \/ st2 = Append(st, m), NEW i, Heard(st2, ap, i)
  PROVE  Heard(st, ap, i) \/ Word(m, i)
  BY Longer DEF Heard

LEMMA HeardRead ==
  ASSUME NEW st \in Seq(Mail), st # << >>, NEW ap, NEW ap2,
         \A j \in DOMAIN ap2 : j \in DOMAIN ap \/ Word(Head(st), j),
         NEW i, Heard(Tail(st), ap2, i)
  PROVE  Heard(st, ap, i)
<1> DEFINE v == Tail(st)
<1>1. /\ DOMAIN st = 1..Len(st) /\ Head(st) = st[1] /\ Len(st) \in Nat \ {0}
      /\ DOMAIN v = 1..(Len(st) - 1) /\ \A k \in 1..(Len(st) - 1) : v[k] = st[k + 1]
  BY Shorter
<1>2. Heard(v, ap2, i) OBVIOUS
<1>h. HIDE DEF v
<1>3. 1 \in DOMAIN st /\ \A k \in DOMAIN v : k + 1 \in DOMAIN st /\ v[k] = st[k + 1]
  BY <1>1
<1>q. QED BY <1>1, <1>2, <1>3 DEF Heard

\* Nothing is said of what is neither heard of nor remembered.
LEMMA SaidIsHeard ==
  ASSUME NEW st, NEW ap, NEW rec, NEW i, NEW m \in Said(st, ap, rec, i)
  PROVE  Heard(st, ap, i) \/ i \in DOMAIN rec
  BY DEF Heard, Said

\* What is said is a result of the instance.
LEMMA SaidResults ==
  ASSUME NEW st \in Seq(Mail), NEW ap \in Caches, NEW rec \in Caches, NEW i,
         NEW m \in Said(st, ap, rec, i)
  PROVE  m \in Results
  BY DEF Caches, Mail, Word, Said

\* A result is queued that comes after all words of its instance.
LEMMA WordQueued ==
  ASSUME NEW w \in Seq(Mail), NEW ap, NEW a \in SessionType, Cached(a),
         NEW b \in SessionType, NEW r \in Results, Queued(a, b, r),
         InOrder(StreamOf(w, a), ap, a.recent),
         \A m \in Said(StreamOf(w, a), ap, a.recent, r.id) : Later(m, r)
  PROVE  /\ InOrder(StreamOf(w, b), ap, b.recent)
         /\ \A i : \A m \in Said(StreamOf(w, b), ap, b.recent, i) :
              m \in Said(StreamOf(w, a), ap, a.recent, i) \/ (i = r.id /\ m = r)
         /\ \A i : Heard(StreamOf(w, b), ap, i) => Heard(StreamOf(w, a), ap, i) \/ i = r.id
<1> DEFINE st == StreamOf(w, a)
           st2 == StreamOf(w, b)
           rec == a.recent
           rec2 == b.recent
<1>1. /\ st \in Seq(Mail)
      /\ \/ st2 = Append(st, r)
         \/ st2 = st /\ \E k \in DOMAIN st : Word(st[k], r.id) /\ st[k].tick = r.tick
  BY QueuedStream DEF StreamOf
<1>2. /\ r.id \in DOMAIN rec2 /\ rec2[r.id] = r
      /\ \A j \in DOMAIN rec2 \ {r.id} : j \in DOMAIN rec /\ rec2[j] = rec[j]
      /\ \A j \in DOMAIN rec : rec[j].id = j
  BY DEF Queued, Cached
<1>3. /\ InOrder(st, ap, rec) /\ \A m \in Said(st, ap, rec, r.id) : Later(m, r)
      /\ r \in Mail
  BY DEF Mail
<1>h. HIDE DEF st, st2, rec, rec2
<1>4. InOrder(st2, ap, rec2) BY <1>1, <1>2, <1>3, OrderQueued
<1>5. \A i : \A m \in Said(st2, ap, rec2, i) :
        m \in Said(st, ap, rec, i) \/ (i = r.id /\ m = r)
  BY <1>1, <1>2, SaidQueued DEF Renews, SaysMore
<1>6. ASSUME NEW i, Heard(st2, ap, i)
      PROVE  Heard(st, ap, i) \/ i = r.id
  BY <1>1, <1>3, <1>6, HeardQueued DEF Word
<1>q. QED BY <1>4, <1>5, <1>6 DEF st, st2, rec, rec2

\* An intent that leaves the client's queue for the session: a refusal is of an
\* instance nothing was said of, and so is a new claim.
LEMMA IntentWords ==
  ASSUME NEW w \in Seq(Mail), NEW ap, NEW a \in SessionType, Cached(a),
         NEW queue \in Seq(Edges), queue # << >>,
         \A j, k \in DOMAIN queue : queue[j].intent.id = queue[k].intent.id => j = k,
         InOrder(StreamOf(w, a), ap, a.recent), HeardRoom(StreamOf(w, a), ap, a, queue),
         NEW s, NEW weapon, tick \in 0..MaxTick
  PROVE  LET i0 == Head(queue).intent.id
             b == prepare_server_action_intent(a, s, Head(queue).intent, weapon).session
         IN /\ InOrder(StreamOf(w, b), ap, b.recent)
            /\ HeardRoom(StreamOf(w, b), ap, b, Tail(queue))
            /\ \A i : \A m \in Said(StreamOf(w, b), ap, b.recent, i) :
                 \/ m \in Said(StreamOf(w, a), ap, a.recent, i)
                 \/ m.tick = tick /\ i # b.claim
            /\ b.claim # a.claim => Said(StreamOf(w, b), ap, b.recent, b.claim) = {}
<1> DEFINE b == prepare_server_action_intent(a, s, Head(queue).intent, weapon).session
           i0 == Head(queue).intent.id
           st == StreamOf(w, a)
           st2 == StreamOf(w, b)
<1>1. /\ Tail(queue) \in Seq(Edges) /\ Len(queue) \in Nat \ {0} /\ Head(queue) \in Edges
      /\ DOMAIN queue = 1..Len(queue) /\ DOMAIN Tail(queue) = 1..(Len(queue) - 1)
      /\ Head(queue) = queue[1]
      /\ \A k \in 1..(Len(queue) - 1) : Tail(queue)[k] = queue[k + 1]
  BY Shorter
<1>2. Head(queue).intent \in Intents(Ids) /\ Head(queue).intent.binding # Malformed
  BY <1>1, SessionAssumption DEF Edges, Intents, OutcomeBindings, Bindings, Malformed
<1>3. /\ b \in SessionType /\ Cached(b)
      /\ \/ SameBooks(a, b) /\ b.claim = a.claim
         \/ /\ i0 \in DOMAIN a.recent /\ b.claim = a.claim
            /\ Queued(a, b, a.recent[i0])
         \/ /\ i0 # 0 /\ i0 \notin DOMAIN a.recent /\ a.claim # i0
            /\ b.claim = a.claim
            /\ \E r \in Results :
                 r.id = i0 /\ r.type = "Rejected" /\ r.tick = tick /\ Queued(a, b, r)
         \/ /\ i0 # 0 /\ i0 \notin DOMAIN a.recent /\ a.claim = 0
            /\ b.claim = i0 /\ SameBooks(a, b)
  BY <1>2, PrepareShape
<1>4. InOrder(st, ap, a.recent) /\ HeardRoom(st, ap, a, queue) OBVIOUS
<1>5. ASSUME NEW p \in DOMAIN Tail(queue)
      PROVE  /\ p \in Nat /\ p + 1 \in Nat /\ p < p + 1 /\ p <= p + 1
             /\ p + 1 >= 2 /\ (p + 1) - 1 = p /\ p + 1 \in DOMAIN queue
             /\ Tail(queue)[p] = queue[p + 1] /\ queue[p + 1].intent.id # i0
  BY <1>1
<1>6. i0 \notin DOMAIN a.recent => Said(st, ap, a.recent, i0) = {}
  <2>1. 1 \in DOMAIN queue /\ i0 = queue[1].intent.id BY <1>1
  <2>2. Heard(st, ap, i0) => Slot(a, i0, 1) BY <1>4, <2>1 DEF HeardRoom
  <2>3. i0 \notin DOMAIN a.recent => ~Heard(st, ap, i0) BY <2>2, SlotIsKnown
  <2>h. HIDE DEF st, i0
  <2>q. QED BY <2>3, SaidIsHeard
<1> DEFINE id(p) == Tail(queue)[p].intent.id
           Good == /\ InOrder(st2, ap, b.recent)
                   /\ \A i : \A m \in Said(st2, ap, b.recent, i) :
                        \/ m \in Said(st, ap, a.recent, i)
                        \/ m.tick = tick /\ i # b.claim
                   /\ b.claim # a.claim => Said(st2, ap, b.recent, b.claim) = {}
<1>7. ASSUME \A p \in DOMAIN Tail(queue) :
               /\ Heard(st2, ap, id(p)) => Heard(st, ap, id(p))
               /\ Slot(a, id(p), p + 1) => Slot(b, id(p), p)
      PROVE  HeardRoom(st2, ap, b, Tail(queue))
  BY <1>4, <1>5, <1>7 DEF HeardRoom
<1>8. \A p \in DOMAIN Tail(queue) : id(p) # i0 BY <1>5
<1>h. HIDE DEF b, i0
<1>w. ASSUME NEW r \in Results, Queued(a, b, r),
             \A m \in Said(st, ap, a.recent, r.id) : Later(m, r)
      PROVE  /\ InOrder(st2, ap, b.recent)
             /\ \A i : \A m \in Said(st2, ap, b.recent, i) :
                  m \in Said(st, ap, a.recent, i) \/ (i = r.id /\ m = r)
             /\ \A i : Heard(st2, ap, i) => Heard(st, ap, i) \/ i = r.id
  <2>1. b \in SessionType /\ InOrder(st, ap, a.recent) BY <1>3, <1>4
  <2>2. Queued(a, b, r) /\ \A m \in Said(st, ap, a.recent, r.id) : Later(m, r) BY <1>w
  <2>q. QED BY <2>1, <2>2, WordQueued, Zenon
<1>h2. HIDE DEF st, st2
<1>9. ASSUME SameBooks(a, b), b.claim = a.claim \/ (a.claim = 0 /\ b.claim = i0),
             b.claim # a.claim => i0 \notin DOMAIN a.recent
      PROVE  Good /\ HeardRoom(st2, ap, b, Tail(queue))
  BY <1>3, <1>4, <1>5, <1>6, <1>7, <1>9, SlotKept DEF st, st2, StreamOf, SameBooks
<1>10. ASSUME i0 \in DOMAIN a.recent, b.claim = a.claim, Queued(a, b, a.recent[i0])
       PROVE  Good /\ HeardRoom(st2, ap, b, Tail(queue))
  <2> DEFINE r == a.recent[i0]
  <2>1. r \in Results /\ r.id = i0
    BY <1>10 DEF SessionType, Caches, Cached
  <2>2. \A m \in Said(st, ap, a.recent, i0) : Later(m, r)
    BY <1>4, <1>10, <2>1, LaterNumbers DEF Results, InOrder, Said, Chain
  <2>3. Queued(a, b, r) /\ r \in Said(st, ap, a.recent, i0) /\ b.order = a.order
    BY <1>10, <2>1 DEF Queued, Said
  <2>h. HIDE DEF r
  <2>4. /\ InOrder(st2, ap, b.recent)
        /\ \A i : \A m \in Said(st2, ap, b.recent, i) :
             m \in Said(st, ap, a.recent, i) \/ (i = r.id /\ m = r)
        /\ \A i : Heard(st2, ap, i) => Heard(st, ap, i) \/ i = r.id
    BY <2>1, <2>2, <2>3, <1>w
  <2>5. Good BY <1>10, <2>1, <2>3, <2>4
  <2>6. ASSUME NEW p \in DOMAIN Tail(queue), Slot(a, id(p), p + 1)
        PROVE  Slot(b, id(p), p)
    BY <1>3, <1>5, <1>10, <2>3, <2>6, SlotKept
  <2>7. \A p \in DOMAIN Tail(queue) : Heard(st2, ap, id(p)) => Heard(st, ap, id(p))
    BY <1>8, <2>1, <2>4
  <2>q. QED BY <1>7, <2>5, <2>6, <2>7
<1>11. ASSUME i0 \notin DOMAIN a.recent, a.claim # i0, b.claim = a.claim,
              NEW r \in Results, r.id = i0, r.tick = tick, Queued(a, b, r)
       PROVE  Good /\ HeardRoom(st2, ap, b, Tail(queue))
  <2>1. \A m \in Said(st, ap, a.recent, r.id) : Later(m, r) BY <1>6, <1>11
  <2>2. /\ InOrder(st2, ap, b.recent)
        /\ \A i : \A m \in Said(st2, ap, b.recent, i) :
             m \in Said(st, ap, a.recent, i) \/ (i = r.id /\ m = r)
        /\ \A i : Heard(st2, ap, i) => Heard(st, ap, i) \/ i = r.id
    BY <1>11, <2>1, <1>w
  <2>3. Good BY <1>11, <2>2
  <2>4. ASSUME NEW p \in DOMAIN Tail(queue), Slot(a, id(p), p + 1)
        PROVE  Slot(b, id(p), p)
    BY <1>3, <1>5, <1>11, <2>4, SlotAfterRefusal
  <2>5. \A p \in DOMAIN Tail(queue) : Heard(st2, ap, id(p)) => Heard(st, ap, id(p))
    BY <1>8, <1>11, <2>2
  <2>q. QED BY <1>7, <2>3, <2>4, <2>5
<1>12. Good /\ HeardRoom(st2, ap, b, Tail(queue)) BY <1>3, <1>9, <1>10, <1>11
<1>q. QED BY <1>12 DEF b, i0, st, st2

\* Only an intent that takes the claim stays in its input.
LEMMA KeptIsNew ==
  ASSUME NEW ses, NEW s, NEW intent, NEW w, intent.id # 0,
         prepare_server_action_intent(ses, s, intent, w).kept
  PROVE  ses.claim = 0
  BY DEF prepare_server_action_intent, Reject, Dropped

\* An outcome of the claimed instance that finalize settles.
LEMMA OutcomeWords ==
  ASSUME NEW w \in Seq(Mail), NEW ap, NEW a \in SessionType, Cached(a),
         NEW queue \in Seq(Edges), Len(queue) <= RecentCapacity,
         InOrder(StreamOf(w, a), ap, a.recent), HeardRoom(StreamOf(w, a), ap, a, queue),
         Voiced(StreamOf(w, a), ap, a),
         NEW o \in Outcomes, o.id = a.claim, a.claim # 0, tick \in 0..MaxTick,
         Spoken(o) => \A m \in Said(StreamOf(w, a), ap, a.recent, a.claim) :
                        m.count <= o.count /\ m.tick < tick
  PROVE  LET b == Settle(a, o)
         IN /\ InOrder(StreamOf(w, b), ap, b.recent)
            /\ HeardRoom(StreamOf(w, b), ap, b, queue)
            /\ \A i : \A m \in Said(StreamOf(w, b), ap, b.recent, i) :
                 \/ m \in Said(StreamOf(w, a), ap, a.recent, i)
                 \/ Spoken(o) /\ m.count = o.count /\ m.tick = tick
            /\ b.claim \in {a.claim, 0}
<1> DEFINE b == Settle(a, o)
           st == StreamOf(w, a)
           st2 == StreamOf(w, b)
           id(p) == queue[p].intent.id
<1>1. /\ b \in SessionType /\ Cached(b) /\ b.claim = IF Ends(o) THEN 0 ELSE a.claim
      /\ \/ SameBooks(a, b)
         \/ /\ o.type \notin {"Admitted", "Completed"}
            /\ \E r \in Results :
                 /\ r.id = o.id /\ r.count = o.count /\ r.type = ResultType(o.type)
                 /\ r.tick = tick /\ Queued(a, b, r)
  BY SettleShape
<1>2. b.claim \in {a.claim, 0} BY <1>1
<1>3. /\ InOrder(st, ap, a.recent) /\ HeardRoom(st, ap, a, queue) /\ Voiced(st, ap, a)
      /\ Spoken(o) => \A m \in Said(st, ap, a.recent, a.claim) :
                        m.count <= o.count /\ m.tick < tick
  OBVIOUS
<1>4. \A p \in DOMAIN queue : p \in Nat /\ p >= 1 /\ p <= p /\ p <= RecentCapacity
  BY SessionAssumption
<1> DEFINE Good == /\ InOrder(st2, ap, b.recent)
                   /\ \A i : \A m \in Said(st2, ap, b.recent, i) :
                        \/ m \in Said(st, ap, a.recent, i)
                        \/ Spoken(o) /\ m.count = o.count /\ m.tick = tick
<1>h. HIDE DEF b
<1>w. ASSUME NEW r \in Results, Queued(a, b, r),
             \A m \in Said(st, ap, a.recent, r.id) : Later(m, r)
      PROVE  /\ InOrder(st2, ap, b.recent)
             /\ \A i : \A m \in Said(st2, ap, b.recent, i) :
                  m \in Said(st, ap, a.recent, i) \/ (i = r.id /\ m = r)
             /\ \A i : Heard(st2, ap, i) => Heard(st, ap, i) \/ i = r.id
  <2>1. b \in SessionType /\ InOrder(st, ap, a.recent) BY <1>1, <1>3
  <2>2. Queued(a, b, r) /\ \A m \in Said(st, ap, a.recent, r.id) : Later(m, r) BY <1>w
  <2>q. QED BY <2>1, <2>2, WordQueued, Zenon
<1>h2. HIDE DEF st, st2
<1>5. ASSUME SameBooks(a, b) PROVE Good /\ HeardRoom(st2, ap, b, queue)
  BY <1>1, <1>2, <1>3, <1>4, <1>5, SlotKept DEF st, st2, StreamOf, SameBooks, HeardRoom
<1>6. ASSUME o.type \notin {"Admitted", "Completed"}, NEW r \in Results, r.id = o.id,
             r.count = o.count, r.tick = tick, Queued(a, b, r)
      PROVE  Good /\ HeardRoom(st2, ap, b, queue)
  <2>1. Spoken(o) BY <1>6 DEF Spoken, Outcomes, OutcomeTypes
  <2>2. \A m \in Said(st, ap, a.recent, r.id) : Later(m, r) BY <1>3, <1>6, <2>1 DEF Later
  <2>3. /\ InOrder(st2, ap, b.recent)
        /\ \A i : \A m \in Said(st2, ap, b.recent, i) :
             m \in Said(st, ap, a.recent, i) \/ (i = r.id /\ m = r)
        /\ \A i : Heard(st2, ap, i) => Heard(st, ap, i) \/ i = r.id
    BY <1>6, <2>2, <1>w
  <2>4. Good BY <1>6, <2>1, <2>3
  <2>5. ASSUME NEW p \in DOMAIN queue, Heard(st2, ap, id(p)) PROVE Slot(b, id(p), p)
    <3>1. Heard(st, ap, id(p)) => Slot(a, id(p), p) BY <1>3 DEF HeardRoom
    <3>2. Heard(st, ap, id(p)) \/ id(p) = r.id BY <2>3, <2>5
    <3>3. CASE r.id \in DOMAIN a.recent
      <4>1. id(p) = r.id => Heard(st, ap, id(p))
        BY <1>3, <1>6, <3>3 DEF Voiced, Heard
      <4>2. b.order = a.order BY <1>6, <3>3 DEF Queued
      <4>3. Slot(a, id(p), p) BY <3>1, <3>2, <4>1
      <4>q. QED BY <1>1, <1>2, <1>4, <4>2, <4>3, SlotKept
    <3>4. CASE r.id \notin DOMAIN a.recent
      BY <1>1, <1>2, <1>4, <1>6, <3>1, <3>2, <3>4, SlotAfterOutcome
    <3>q. QED BY <3>3, <3>4
  <2>q. QED BY <2>4, <2>5 DEF HeardRoom
<1>7. Good /\ HeardRoom(st2, ap, b, queue) BY <1>1, <1>5, <1>6
<1>q. QED BY <1>2, <1>7 DEF b, st, st2

-----------------------------------------------------------------------------
(* What the words have to do with the run.                                 *)

Words(i) == Said(Stream, own.applied, session.recent, i)

\* The spoken outcomes of u after position "from".
Unsaid(u, from) == {k \in (from + 1)..Len(u) : Spoken(u[k])}

\* What was said of the claimed instance counts no more than the action under
\* way and the outcomes not settled, and was said before them.
Fresh ==
  session.claim # 0 =>
    \A m \in Words(session.claim) :
      /\ InProgress(actor) => m.count <= actor.commits
      /\ \A k \in Unsaid(actor.out, settled) : m.count <= actor.out[k].count
      /\ stage # "finalize" \/ Unsaid(actor.out, settled) # {} => m.tick < tick

\* Nothing was said of an instance whose intent is still to be simulated.
Unheard == \A k \in DOMAIN inputs :
             inputs[k].intent.id # 0 => Words(session.claim) = {}

\* A tick speaks at most once, and counts no more than the action under way.
OneWord == \E n \in Nat : Speaks(actor.out, n) /\ (InProgress(actor) => n <= actor.commits)

\* The one input of a tick is simulated before the closing pass, which then has
\* nothing to do.
OneInput ==
  /\ \A j, k \in DOMAIN inputs : j = k
  /\ stage # "poll" => inputs = << >>
  /\ stage = "simulate" =>
       /\ actor.advanced /\ ~actor.stagger /\ ~actor.hands
       /\ InProgress(actor) => ~Held(actor)

RunWords ==
  /\ \A i \in Ids : \A m \in Words(i) : m.tick <= tick
  /\ Fresh /\ Unheard /\ OneWord /\ OneInput

\* An entry has counted what the result applied counts, or nothing.
Confirmed ==
  \A i \in DOMAIN own.outstanding :
    \/ own.outstanding[i].confirmed = 0
    \/ i \in DOMAIN own.applied /\ own.applied[i].count = own.outstanding[i].confirmed

\* The client half's numbers stay within their bounds.
Bounded ==
  /\ \A i \in DOMAIN own.outstanding : own.outstanding[i].age <= ResultTimeout + 1
  /\ own.baseline \in {NoSnapshot} \cup 0..MaxTick
  /\ left \in 0..TicksPerUpdate /\ fired \in [Weapons -> Nat]

WordInv ==
  /\ InOrder(Stream, own.applied, session.recent)
  /\ HeardRoom(Stream, own.applied, session, own.pending)
  /\ RunWords /\ Confirmed /\ Bounded

\* What the client half does to the world leaves what was said in order.
LEMMA ClientWords ==
  ASSUME HostInv, RunWords,
         UNCHANGED <<session, inputs, stage, taken, settled, tick, hist>>,
         actor' = actor \/ \E o \in Entries : actor' = RollBack(actor, o),
         \A i : Words(i)' \subseteq Words(i)
  PROVE  RunWords'
<1>1. actor \in ActorType BY DEF HostInv, RunInv, Fit, Sound
<1>2. /\ actor'.out = actor.out /\ actor'.phase = actor.phase
      /\ actor'.commits = actor.commits /\ actor'.blocks = actor.blocks
      /\ actor'.advanced = actor.advanced /\ actor'.stagger = actor.stagger
      /\ actor'.hands = actor.hands
  BY <1>1 DEF RollBack, ActorType
<1>3. (InProgress(actor') <=> InProgress(actor)) /\ (Held(actor') <=> Held(actor))
  BY <1>2 DEF InProgress, Held
<1>4. \A i \in Ids : \A m \in Words(i)' : m.tick <= tick' BY DEF RunWords
<1>5. Fresh'
  BY <1>2, <1>3 DEF Fresh, RunWords
<1>6. Unheard'
  BY DEF RunWords, Unheard
<1>7. OneWord' BY <1>2, <1>3 DEF RunWords, OneWord
<1>8. OneInput' BY <1>2, <1>3 DEF RunWords, OneInput
<1>q. QED BY <1>4, <1>5, <1>6, <1>7, <1>8 DEF RunWords

\* Steps that leave the stream, the session and the results applied alone.
LEMMA WordsKept ==
  ASSUME UNCHANGED <<session, wire>>, own'.applied = own.applied
  PROVE  /\ \A i : Words(i)' = Words(i)
         /\ InOrder(Stream, own.applied, session.recent) =>
              InOrder(Stream, own.applied, session.recent)'
         /\ \A i : Heard(Stream, own.applied, i)' <=> Heard(Stream, own.applied, i)
         /\ own'.pending = own.pending
            /\ HeardRoom(Stream, own.applied, session, own.pending) =>
                 HeardRoom(Stream, own.applied, session, own.pending)'
  BY DEF Stream, Words

-----------------------------------------------------------------------------
(* The client half's steps.                                                *)

LEMMA SubmitWords ==
  ASSUME HostInv, WordInv, NEW intent \in [id: IntentIds, binding: Bindings],
         NEW w \in Arms, submit_player_input(intent, w)
  PROVE  WordInv'
<1> DEFINE edge == [intent |-> intent, selected |-> w]
           i == intent.id
           q == own.pending
<1>1. /\ turn = "host" /\ ~Known(i)
      /\ own' = [own EXCEPT !.pending = Append(q, edge)]
      /\ UNCHANGED <<vars, wire, left, fired>>
  BY DEF submit_player_input
<1>2. own \in OwnType /\ q \in Seq(Edges) BY OwnFields DEF HostInv, HostTypes
<1>3. edge \in Edges BY SessionAssumption DEF Edges
<1>4. /\ own'.pending = Append(q, edge) /\ own'.applied = own.applied
      /\ own'.outstanding = own.outstanding /\ own'.baseline = own.baseline
  BY <1>1, <1>2 DEF OwnType
<1>e. edge.intent.id = i BY DEF edge
<1>h. HIDE DEF edge
<1>5. UNCHANGED <<session, wire, inputs, stage, taken, settled, tick, hist, actor>>
  BY <1>1 DEF vars
<1>6. /\ DOMAIN q = 1..Len(q) /\ DOMAIN own'.pending = 1..(Len(q) + 1) /\ Len(q) \in Nat
      /\ own'.pending[Len(q) + 1] = edge /\ \A k \in 1..Len(q) : own'.pending[k] = q[k]
  BY <1>2, <1>3, <1>4, Longer
<1>7. \A k \in DOMAIN own'.pending :
        (k \in DOMAIN q /\ own'.pending[k] = q[k]) \/ own'.pending[k] = edge
  BY <1>6
<1>8. ~Heard(Stream, own.applied, i)
  BY <1>1 DEF HostInv, Phased, Stream, Known, Heard
<1>9. \A j : Heard(Stream, own.applied, j)' <=> Heard(Stream, own.applied, j)
  BY <1>4, <1>5, WordsKept
<1>10. HeardRoom(Stream, own.applied, session, own.pending)'
  BY <1>5, <1>7, <1>8, <1>9, <1>e DEF WordInv, HeardRoom
<1>11. InOrder(Stream, own.applied, session.recent)' BY <1>4, <1>5, WordsKept DEF WordInv
<1>12. \A j : Words(j)' \subseteq Words(j) BY <1>4, <1>5, WordsKept
<1>13. RunWords' BY <1>5, <1>12, ClientWords DEF WordInv
<1>14. Confirmed' BY <1>4 DEF WordInv, Confirmed
<1>15. Bounded' BY <1>1, <1>4 DEF WordInv, Bounded
<1>q. QED BY <1>10, <1>11, <1>13, <1>14, <1>15 DEF WordInv

\* Steps of the client half that read nothing and submit nothing.
LEMMA QuietWords ==
  ASSUME HostInv, WordInv, UNCHANGED <<session, wire>>,
         UNCHANGED <<inputs, stage, taken, settled, tick, hist>>,
         actor' = actor \/ \E o \in Entries : actor' = RollBack(actor, o),
         own'.applied = own.applied, own'.pending = own.pending, Confirmed', Bounded'
  PROVE  WordInv'
  BY WordsKept, ClientWords DEF WordInv

LEMMA TurnWords ==
  ASSUME HostInv, WordInv, UNCHANGED <<vars, own, wire, left, fired>>
  PROVE  WordInv'
  BY QuietWords DEF vars, WordInv, Confirmed, Bounded

LEMMA StartWords ==
  ASSUME HostInv, WordInv, NEW ticks \in 0..TicksPerUpdate, StartUpdate(ticks)
  PROVE  WordInv'
<1> DEFINE f == own.outstanding
           g == [i \in DOMAIN f |->
                   [f[i] EXCEPT !.age = MinOf(ResultTimeout + 1, f[i].age + 1)]]
<1>1. /\ left' = ticks /\ own' = [own EXCEPT !.outstanding = g]
      /\ UNCHANGED <<vars, wire, fired>>
  BY DEF StartUpdate
<1>2. own \in OwnType /\ \A i \in DOMAIN f : f[i] \in Entries
  BY OwnFields DEF HostInv, HostTypes
<1>3. \A i \in DOMAIN f : g[i].confirmed = f[i].confirmed /\ g[i].age <= ResultTimeout + 1
  <2> TAKE i \in DOMAIN f
  <2>1. f[i] \in Entries /\ f[i].age \in Nat BY <1>2 DEF Entries
  <2>2. MinOf(ResultTimeout + 1, f[i].age + 1) <= ResultTimeout + 1
    BY <2>1, HostAssumption DEF MinOf
  <2>q. QED BY <2>1, <2>2 DEF Entries
<1>4. DOMAIN g = DOMAIN f OBVIOUS
<1>h. HIDE DEF g
<1>5. /\ own'.outstanding = g /\ own'.pending = own.pending
      /\ own'.applied = own.applied /\ own'.baseline = own.baseline
  BY <1>1, <1>2 DEF OwnType
<1>6. Confirmed' BY <1>3, <1>4, <1>5 DEF WordInv, Confirmed
<1>7. Bounded' BY <1>1, <1>3, <1>4, <1>5 DEF WordInv, Bounded
<1>8. UNCHANGED <<session, inputs, stage, taken, settled, tick, hist, actor>>
  BY <1>1 DEF vars
<1>q. QED BY <1>1, <1>5, <1>6, <1>7, <1>8, QuietWords

LEMMA ExpireWords ==
  ASSUME HostInv, WordInv, NEW i \in Ids, Expire(i)
  PROVE  WordInv'
<1> DEFINE f == own.outstanding
           g == Without(f, {i})
<1>1. /\ i \in DOMAIN f /\ actor' = RollBack(actor, f[i])
      /\ own' = [own EXCEPT !.outstanding = g]
      /\ UNCHANGED <<session, inputs, stage, taken, settled, tick, hist>>
      /\ UNCHANGED <<wire, left, fired>>
  BY DEF Expire, ActorOnly, Overdue
<1>2. own \in OwnType /\ DOMAIN f \subseteq Ids /\ \A j \in DOMAIN f : f[j] \in Entries
  BY OwnFields DEF HostInv, HostTypes
<1>3. DOMAIN g \subseteq DOMAIN f /\ \A j \in DOMAIN g : g[j] = f[j]
  BY <1>2, FewerEntries
<1>h. HIDE DEF g
<1>4. /\ own'.outstanding = g /\ own'.pending = own.pending
      /\ own'.applied = own.applied /\ own'.baseline = own.baseline
  BY <1>1, <1>2 DEF OwnType
<1>5. Confirmed' BY <1>3, <1>4 DEF WordInv, Confirmed
<1>6. Bounded' BY <1>1, <1>3, <1>4 DEF WordInv, Bounded
<1>7. \E o \in Entries : actor' = RollBack(actor, o) BY <1>1, <1>2
<1>q. QED BY <1>1, <1>4, <1>5, <1>6, <1>7, QuietWords

\* One event is read: what is left to show of each of the client's handlers.
LEMMA ReadWords ==
  ASSUME HostInv, WordInv, turn = "drain", wire # << >>, wire' = Tail(wire),
         UNCHANGED <<left, fired>>,
         UNCHANGED <<session, inputs, stage, taken, settled, tick, hist>>,
         actor' = actor \/ \E o \in Entries : actor' = RollBack(actor, o),
         own'.pending = own.pending, Confirmed', Bounded',
         \/ /\ own'.applied = own.applied
            /\ \/ Head(wire).type = "Snapshot" \/ Head(wire).tick = 0
               \/ /\ Head(wire).id \in DOMAIN own.applied
                  /\ own.applied[Head(wire).id] = Head(wire)
         \/ /\ Head(wire) \in Results
            /\ own'.applied = With(own.applied, Head(wire).id, Head(wire))
  PROVE  WordInv'
<1> DEFINE ap == own.applied
           ap2 == own'.applied
           rec == session.recent
<1>1. /\ wire \in Seq(Mail) /\ Stream = wire /\ Tail(wire) \in Seq(Mail)
      /\ Stream' = Tail(wire)
  BY DrainStream, Shorter DEF Stream
<1>2. /\ ap \in Caches /\ rec \in Caches /\ \A j \in DOMAIN rec : rec[j].id = j
  BY OwnFields DEF HostInv, HostTypes, RunInv, TypeInv, SessionType, Cached
<1>3. /\ InOrder(wire, ap, rec) /\ HeardRoom(wire, ap, session, own.pending)
  BY <1>1 DEF WordInv
<1>4. \/ /\ ap2 = ap
         /\ \/ Head(wire).type = "Snapshot" \/ Head(wire).tick = 0
            \/ Head(wire).id \in DOMAIN ap /\ ap[Head(wire).id] = Head(wire)
      \/ Head(wire) \in Results /\ ap2 = With(ap, Head(wire).id, Head(wire))
  OBVIOUS
<1>h. HIDE DEF ap2
<1>5. InOrder(Tail(wire), ap2, rec)
  <2>h. HIDE DEF ap, rec
  <2>q. QED BY <1>1, <1>2, <1>3, <1>4, OrderRead
<1>6. \A j \in DOMAIN ap2 :
        (j \in DOMAIN ap /\ ap2[j] = ap[j]) \/ (Word(Head(wire), j) /\ ap2[j] = Head(wire))
  BY <1>4, LaterNumbers DEF Word, With
<1>7. \A j : Words(j)' \subseteq Words(j)
  <2> SUFFICES ASSUME NEW j, NEW m \in Said(Tail(wire), ap2, rec, j)
               PROVE  m \in Said(wire, ap, rec, j)
    BY <1>1 DEF Words, ap2
  <2>h. HIDE DEF ap, rec
  <2>q. QED BY <1>1, <1>6, SaidRead
<1>8. HeardRoom(Tail(wire), ap2, session, own.pending)
  <2>1. ASSUME NEW j, Heard(Tail(wire), ap2, j) PROVE Heard(wire, ap, j)
    <3>1. \A n \in DOMAIN ap2 : n \in DOMAIN ap \/ Word(Head(wire), n) BY <1>6
    <3>h. HIDE DEF ap
    <3>q. QED BY <1>1, <2>1, <3>1, HeardRead
  <2>q. QED BY <1>3, <2>1 DEF HeardRoom
<1>9. RunWords' BY <1>7, ClientWords DEF WordInv
<1>10. InOrder(Stream, own.applied, session.recent)' BY <1>1, <1>5 DEF ap2
<1>11. HeardRoom(Stream, own.applied, session, own.pending)' BY <1>1, <1>8 DEF ap2
<1>q. QED BY <1>9, <1>10, <1>11 DEF WordInv

LEMMA SnapshotWords ==
  ASSUME HostInv, WordInv, turn = "drain", wire # << >>, wire' = Tail(wire),
         UNCHANGED <<left, fired>>, Head(wire).type = "Snapshot",
         handle_client_snapshot(Head(wire))
  PROVE  WordInv'
<1> DEFINE f == own.outstanding
           m == Head(wire)
           g == Without(f, Reconciled(m))
<1>1. /\ own' = own \/ own' = [own EXCEPT !.baseline = m.tick, !.outstanding = g]
      /\ UNCHANGED vars
  BY DEF handle_client_snapshot
<1>2. /\ own \in OwnType /\ DOMAIN f \subseteq Ids
      /\ \A j \in DOMAIN f : f[j] \in Entries
  BY OwnFields DEF HostInv, HostTypes
<1>3. DOMAIN g \subseteq DOMAIN f /\ \A j \in DOMAIN g : g[j] = f[j]
  BY <1>2, FewerEntries
<1>4. m.tick \in 0..MaxTick
  BY Shorter DEF HostInv, HostTypes, Mail, Results
<1>h. HIDE DEF g
<1>5. /\ own'.pending = own.pending /\ own'.applied = own.applied
      /\ own'.outstanding = f \/ own'.outstanding = g
      /\ own'.baseline = own.baseline \/ own'.baseline = m.tick
  BY <1>1, <1>2 DEF OwnType
<1>6. Confirmed' BY <1>3, <1>5 DEF WordInv, Confirmed
<1>7. Bounded' BY <1>3, <1>4, <1>5 DEF WordInv, Bounded
<1>8. UNCHANGED <<session, inputs, stage, taken, settled, tick, hist, actor>>
  BY <1>1 DEF vars
<1>q. QED BY <1>5, <1>6, <1>7, <1>8, ReadWords

\* The client half drops only a word it has applied, or one without a tick.
LEMMA DropWords ==
  ASSUME HostInv, WordInv, turn = "drain", wire # << >>, wire' = Tail(wire),
         UNCHANGED <<left, fired>>, NEW r, r = Head(wire), r \in Results,
         Old(r) \/ (r.id \in DOMAIN own.outstanding /\ Behind(r, own.outstanding[r.id])),
         Drop
  PROVE  WordInv'
<1> DEFINE i == r.id
           ap == own.applied
<1>1. UNCHANGED <<own, session, inputs, stage, taken, settled, tick, hist, actor>>
  BY DEF Drop, vars
<1>2. i \in Ids /\ r.count \in Nat /\ r.tick \in Nat /\ r.type # "Snapshot"
  BY LaterNumbers DEF Results
<1>3. i \in DOMAIN ap => ap[i].count \in Nat /\ ap[i].tick \in Nat
  BY OwnFields, LaterNumbers DEF HostInv, HostTypes, Caches
<1>4. i \in DOMAIN ap => Later(ap[i], r)
  BY <1>2, DrainStream, Shorter DEF Word, WordInv, InOrder, Chain
<1>5. r.tick = 0 \/ (i \in DOMAIN ap /\ ap[i] = r)
  <2>1. CASE Old(r)
    <3>1. /\ i \in DOMAIN ap
          /\ r.count < ap[i].count \/ (r.count = ap[i].count /\ r.tick <= ap[i].tick)
      BY <2>1 DEF Old
    <3>h. HIDE DEF i, ap
    <3>q. QED BY <1>2, <1>3, <1>4, <3>1 DEF Later
  <2>2. CASE i \in DOMAIN own.outstanding /\ Behind(r, own.outstanding[i])
    <3>1. PICK c : c = own.outstanding[i].confirmed OBVIOUS
    <3>2. r.count < c \/ (r.count = c /\ r.tick = 0) BY <2>2, <3>1 DEF Behind
    <3>3. c = 0 \/ (i \in DOMAIN ap /\ ap[i].count = c)
      BY <2>2, <3>1 DEF WordInv, Confirmed
    <3>h. HIDE DEF i, ap
    <3>q. QED BY <1>2, <1>3, <1>4, <3>2, <3>3 DEF Later
  <2>q. QED BY <2>1, <2>2
<1>6. Confirmed' /\ Bounded' BY <1>1 DEF WordInv, Confirmed, Bounded
<1>q. QED BY <1>1, <1>5, <1>6, ReadWords

LEMMA TakeWords ==
  ASSUME HostInv, WordInv, turn = "drain", wire # << >>, wire' = Tail(wire),
         UNCHANGED <<left, fired>>, NEW r, r = Head(wire), r \in Results, Take(r)
  PROVE  WordInv'
<1> DEFINE i == r.id
           f == own.outstanding
           o == f[i]
           known == i \in DOMAIN f
           covered == own.baseline >= r.tick
           done == CompletesFinite(r, o) \/ (Terminal(r) /\ covered)
           heard == [o EXCEPT !.age = 0, !.confirmed = r.count,
                              !.terminal = @ \/ Terminal(r)]
           g == IF ~known THEN f ELSE IF done THEN Without(f, {i}) ELSE With(f, i, heard)
           e2 == [own.ends EXCEPT ![i] = IF Terminal(r) THEN @ + 1 ELSE @]
           ap2 == With(own.applied, i, r)
<1>1. own' = [own EXCEPT !.applied = ap2, !.ends = e2, !.outstanding = g]
  BY DEF Take
<1>2. /\ UNCHANGED <<session, inputs, stage, taken, settled, tick, hist>>
      /\ actor' = actor \/ (known /\ actor' = RollBack(actor, o))
  BY DEF Take, ActorOnly
<1>3. /\ own \in OwnType /\ DOMAIN f \subseteq Ids /\ \A j \in DOMAIN f : f[j] \in Entries
  BY OwnFields DEF HostInv, HostTypes
<1>4. known => heard.age = 0 /\ heard.confirmed = r.count
  <2> SUFFICES ASSUME known PROVE heard.age = 0 /\ heard.confirmed = r.count
    OBVIOUS
  <2>1. o \in Entries BY <1>3
  <2>h. HIDE DEF o
  <2>q. QED BY <2>1 DEF Entries
<1>5. \A j \in DOMAIN g : \/ j \in DOMAIN f \ {i} /\ g[j] = f[j]
                          \/ j = i /\ g[j] = heard /\ known
  <2>1. CASE ~known BY <2>1
  <2>2. CASE known /\ done
    <3>1. g = Without(f, {i}) BY <2>2
    <3>h. HIDE DEF g, f, i, done, heard
    <3>q. QED BY <3>1 DEF Without
  <2>3. CASE known /\ ~done
    <3>1. g = With(f, i, heard) BY <2>3
    <3>2. i \in DOMAIN f BY <2>3
    <3>h. HIDE DEF g, f, i, done, heard
    <3>3. \A j \in DOMAIN g : (j \in DOMAIN f \ {i} /\ g[j] = f[j]) \/ (j = i /\ g[j] = heard)
      BY <3>1, <3>2 DEF With
    <3>q. QED BY <2>3, <3>3
  <2>q. QED BY <2>1, <2>2, <2>3
<1>6. /\ DOMAIN ap2 = DOMAIN own.applied \cup {i} /\ ap2[i] = r
      /\ \A j \in DOMAIN own.applied \ {i} : ap2[j] = own.applied[j]
  BY DEF With
<1>h. HIDE DEF heard, g, e2, ap2
<1>7. /\ own'.pending = own.pending /\ own'.outstanding = g
      /\ own'.applied = ap2 /\ own'.baseline = own.baseline
  BY <1>1, <1>3 DEF OwnType
<1>8. Confirmed' BY <1>4, <1>5, <1>6, <1>7 DEF WordInv, Confirmed
<1>9. Bounded'
  BY <1>4, <1>5, <1>7, HostAssumption DEF WordInv, Bounded
<1>10. actor' = actor \/ \E x \in Entries : actor' = RollBack(actor, x)
  BY <1>2, <1>3
<1>11. own'.applied = With(own.applied, Head(wire).id, Head(wire)) BY <1>7 DEF ap2
<1>q. QED BY <1>2, <1>7, <1>8, <1>9, <1>10, <1>11, ReadWords

LEMMA DrainWords ==
  ASSUME HostInv, WordInv, Drain
  PROVE  WordInv'
  BY Shorter, SnapshotWords, DropWords, TakeWords DEF Drain, HostInv, HostTypes, Mail,
    handle_client_local_action_result

-----------------------------------------------------------------------------
(* The server's steps.                                                     *)

\* What is said is a result, and its numbers are numbers.
LEMMA WordNumbers ==
  ASSUME HostInv, NEW i, NEW m \in Words(i)
  PROVE  m \in Results /\ m.count \in Nat /\ m.tick \in Nat
  BY OwnFields, StreamGrows, SaidResults, LaterNumbers DEF HostInv, HostTypes, RunInv,
    TypeInv, SessionType, Stream, Words

\* The actor and the outcomes not settled.
LEMMA RunActor ==
  ASSUME HostInv
  PROVE  /\ Fit(actor) /\ Steadied(actor) /\ actor \in ActorType /\ Sound(actor)
         /\ actor.commits \in Nat /\ actor.out \in Seq(Outcomes)
         /\ settled \in Nat /\ Len(actor.out) \in Nat /\ DOMAIN actor.out = 1..Len(actor.out)
         /\ \A k \in Unsaid(actor.out, settled) : k \in DOMAIN actor.out /\ Spoken(actor.out[k])
         /\ stage # "finalize" => settled = 0
         /\ stage = "poll" => actor.out = << >>
         /\ tick \in Nat /\ session.claim \in Ids
         /\ actor.ammo \in [Weapons -> Nat]
<1>1. Fit(actor) /\ Steadied(actor) /\ Sound(actor) /\ TypeInv BY DEF HostInv, RunInv, Fit
<1>2. actor \in ActorType /\ actor.ammo \in [Weapons -> Nat]
  BY <1>1 DEF Sound, ActorType, PerWeapon
<1>3. actor.commits \in Nat /\ actor.out \in Seq(Outcomes) BY <1>2, CommitsAreNat
<1>4. /\ settled \in Nat /\ tick \in Nat /\ session.claim \in Ids
      /\ stage # "finalize" => settled = 0
  BY <1>1, <1>3, SessionAssumption DEF TypeInv, SessionType
<1>5. Len(actor.out) \in Nat /\ DOMAIN actor.out = 1..Len(actor.out) BY <1>3
<1>6. \A k \in Unsaid(actor.out, settled) : k \in DOMAIN actor.out /\ Spoken(actor.out[k])
  BY <1>4, <1>5 DEF Unsaid
<1>q. QED BY <1>1, <1>2, <1>3, <1>4, <1>5, <1>6 DEF HostInv, RunInv

LEMMA DisturbedWords ==
  ASSUME HostInv, WordInv, Disturbed
  PROVE  WordInv'
<1>1. /\ UNCHANGED hostVars
      /\ Stagger \/ Steady \/ TakeHands \/ Die \/ Revive
  BY DEF Disturbed
<1>2. stage = "poll" /\ UNCHANGED <<session, inputs, stage, settled, tick>>
  BY <1>1 DEF Stagger, Steady, TakeHands, Die, Revive, World
<1>3. UNCHANGED <<own, wire, left, fired>> BY <1>1 DEF hostVars
<1>4. /\ actor'.out = actor.out /\ actor'.phase = actor.phase
      /\ actor'.commits = actor.commits
  BY <1>1, RunActor DEF Stagger, Steady, TakeHands, Die, Revive, World, Staggered,
     Unblocked, HandsTaken, Killed, Revived, ActorType
<1>5. InProgress(actor') <=> InProgress(actor) BY <1>4 DEF InProgress
<1>6. /\ InOrder(Stream, own.applied, session.recent)'
      /\ HeardRoom(Stream, own.applied, session, own.pending)'
      /\ \A j : Words(j)' = Words(j)
  BY <1>2, <1>3, WordsKept DEF WordInv
<1>7. Fresh' BY <1>2, <1>4, <1>5, <1>6 DEF WordInv, RunWords, Fresh
<1>8. Unheard'
  BY <1>2, <1>6 DEF WordInv, RunWords, Unheard
<1>9. OneWord' /\ OneInput'
  BY <1>2, <1>4, <1>5 DEF WordInv, RunWords, OneWord, OneInput
<1>10. RunWords' BY <1>2, <1>6, <1>7, <1>8, <1>9 DEF WordInv, RunWords
<1>11. Confirmed' /\ Bounded' BY <1>3 DEF WordInv, Confirmed, Bounded
<1>q. QED BY <1>6, <1>10, <1>11 DEF WordInv

\* The rounds a pass spends are counted.
LEMMA FiredCounts ==
  ASSUME HostInv, HostInv', fired \in [Weapons -> Nat],
         fired' = [w \in Weapons |-> fired[w] + Spent(w)]
  PROVE  fired' \in [Weapons -> Nat]
  BY DEF HostInv, RunInv, Fit, Sound, ActorType, PerWeapon, Spent

\* The pass over the tick's input: what it says counts no less than what was
\* said of the action before.
LEMMA InputWords ==
  ASSUME SingleEffects, HostInv, HostInv', WordInv, SimulateInput, turn = "ticks",
         UNCHANGED <<own, wire, turn, left>>,
         fired' = [w \in Weapons |-> fired[w] + Spent(w)]
  PROVE  WordInv'
<1> DEFINE in == Head(inputs)
           i == in.intent.id
           c == session.claim
<1>1. /\ inputs # << >> /\ inputs' = Tail(inputs) /\ stage' = "simulate"
      /\ UNCHANGED <<session, settled, tick>>
  BY DEF SimulateInput
<1>2. stage = "poll" BY <1>1 DEF WordInv, RunWords, OneInput, SimulateInput
<1>3. PICK found \in BOOLEAN : actor' = WeaponPass(actor, in, found)
  BY DEF SimulateInput
<1>4. /\ Fit(actor) /\ Steadied(actor) /\ actor.out = << >> /\ settled = 0
      /\ actor.commits \in Nat
  BY <1>2, RunActor
<1>5. in \in Inputs(Ids) /\ in = inputs[1] /\ 1 \in DOMAIN inputs
  BY <1>1, InputAt DEF HostInv, RunInv
<1>6. inputs' = << >>
  <2>1. inputs \in Seq(Inputs(IntentIds \cup {0})) BY DEF HostInv, RunInv, TypeInv
  <2>2. ASSUME NEW S, NEW q \in Seq(S), q # << >>, \A j, k \in DOMAIN q : j = k
        PROVE  Tail(q) = << >>
    <3>1. Len(q) \in Nat \ {0} /\ DOMAIN q = 1..Len(q) BY <2>2
    <3>2. 1 \in DOMAIN q /\ Len(q) \in DOMAIN q BY <3>1
    <3>3. Len(q) = 1 BY <2>2, <3>2
    <3>4. Tail(q) \in Seq(S) /\ Len(Tail(q)) = 0 BY <2>2, <3>3
    <3>5. ASSUME NEW u \in Seq(S), Len(u) = 0 PROVE u = << >> BY <3>5
    <3>q. QED BY <3>4, <3>5
  <2>3. \A j, k \in DOMAIN inputs : j = k BY DEF WordInv, RunWords, OneInput
  <2>q. QED BY <1>1, <2>1, <2>2, <2>3
<1>7. InProgress(actor) => i = 0 BY <1>5 DEF HostInv, Alone
<1>8. PassStep(actor, actor', i) BY <1>3, <1>4, <1>5, WeaponPassSteps
<1>9. Says(actor, actor') /\ actor'.advanced /\ ~actor'.stagger /\ ~actor'.hands
  BY <1>3, <1>4, <1>5, <1>7, WeaponPassSays
<1>10. InProgress(actor') => ~Held(actor') BY <1>8, PassUnheld
<1>11. ~InProgress(actor) /\ i = 0 => ~InProgress(actor') /\ actor'.out = << >>
  BY <1>4, <1>7, <1>8, PassClaims
<1>12. /\ InOrder(Stream, own.applied, session.recent)'
       /\ HeardRoom(Stream, own.applied, session, own.pending)'
       /\ \A j : Words(j)' = Words(j)
  BY <1>1, WordsKept DEF WordInv
<1>13. PICK n \in Nat : /\ Speaks(actor'.out, n)
                        /\ InProgress(actor) => actor.commits <= n
                        /\ InProgress(actor') => n <= actor'.commits
  BY <1>9 DEF Says
<1>14. \A k \in Unsaid(actor.out, settled)' : actor'.out[k].count = n
  BY <1>1, <1>4, <1>13, CommitsAreNat DEF HostInv, RunInv, Fit, Sound, Unsaid, Speaks
<1>h. HIDE DEF i, in, c
<1>15. ASSUME c # 0, NEW m \in Words(c)
       PROVE  /\ InProgress(actor') => m.count <= actor'.commits
              /\ \A k \in Unsaid(actor.out, settled)' : m.count <= actor'.out[k].count
              /\ m.tick < tick
  <2>1. /\ InProgress(actor) => m.count <= actor.commits
        /\ m.tick < tick
    BY <1>2, <1>15 DEF WordInv, RunWords, Fresh, c
  <2>2. i = 0
    BY <1>5, <1>15 DEF WordInv, RunWords, Unheard, i, c
  <2>3. CASE InProgress(actor)
    <3>1. m.count \in Nat BY <1>15, WordNumbers
    <3>2. actor.commits <= n /\ m.count <= actor.commits BY <1>13, <2>1, <2>3
    <3>3. m.count <= n BY <1>4, <1>13, <3>1, <3>2
    <3>4. ASSUME InProgress(actor') PROVE m.count <= actor'.commits
      BY <1>13, <3>1, <3>3, <3>4, CommitsAreNat DEF HostInv, RunInv, Fit, Sound
    <3>q. QED BY <1>14, <2>1, <3>3, <3>4
  <2>4. CASE ~InProgress(actor)
    BY <1>1, <1>4, <1>11, <2>1, <2>2, <2>4 DEF Unsaid
  <2>q. QED BY <2>3, <2>4
<1>16. Fresh' BY <1>1, <1>12, <1>15 DEF Fresh, c
<1>17. Unheard' BY <1>6 DEF Unheard
<1>18. OneWord' BY <1>13 DEF OneWord
<1>19. OneInput' BY <1>1, <1>6, <1>9, <1>10 DEF OneInput
<1>20. RunWords' BY <1>1, <1>12, <1>16, <1>17, <1>18, <1>19 DEF WordInv, RunWords
<1>21. Confirmed' /\ Bounded' BY FiredCounts DEF WordInv, Confirmed, Bounded
<1>q. QED BY <1>12, <1>20, <1>21 DEF WordInv

\* The closing pass finds nothing left to do.
LEMMA IdleWords ==
  ASSUME HostInv, HostInv', WordInv, stage = "simulate", SimulateIdle,
         UNCHANGED <<own, wire, turn, left>>,
         fired' = [w \in Weapons |-> fired[w] + Spent(w)]
  PROVE  WordInv'
<1>1. PICK found \in BOOLEAN : actor' = IdlePass(actor, found) BY DEF SimulateIdle
<1>2. /\ inputs = << >> /\ stage' = "finalize"
      /\ UNCHANGED <<session, inputs, settled, tick>>
  BY DEF SimulateIdle
<1>3. /\ actor.advanced /\ ~actor.stagger /\ ~actor.hands
      /\ InProgress(actor) => ~Held(actor)
  BY DEF WordInv, RunWords, OneInput
<1>4. actor' = actor BY <1>1, <1>3, RunActor, IdlePassAfter
<1>5. /\ InOrder(Stream, own.applied, session.recent)'
      /\ HeardRoom(Stream, own.applied, session, own.pending)'
      /\ \A j : Words(j)' = Words(j)
  BY <1>2, WordsKept DEF WordInv
<1>6. Fresh'
  BY <1>2, <1>4, <1>5 DEF WordInv, RunWords, Fresh
<1>7. Unheard'
  BY <1>2, <1>5 DEF WordInv, RunWords, Unheard
<1>8. OneWord' /\ OneInput' BY <1>2, <1>4 DEF WordInv, RunWords, OneWord, OneInput
<1>9. RunWords' BY <1>2, <1>5, <1>6, <1>7, <1>8 DEF WordInv, RunWords
<1>10. fired \in [Weapons -> Nat] BY DEF WordInv, Bounded
<1>11. fired' \in [Weapons -> Nat] BY <1>10, FiredCounts
<1>12. Confirmed' /\ Bounded' BY <1>11 DEF WordInv, Confirmed, Bounded
<1>q. QED BY <1>5, <1>9, <1>12 DEF WordInv

LEMMA SimulateWords ==
  ASSUME SingleEffects, HostInv, HostInv', WordInv, Simulate
  PROVE  WordInv'
  BY InputWords, IdleWords DEF Simulate

\* An input goes out, and the server reads it: the intent it leaves in the input
\* is of an instance nothing has been said of.
LEMMA EmitWords ==
  ASSUME SingleEffects, HostInv, HostInv', WordInv, NEW holdId \in IntentIds \cup {0},
         NEW held \in BOOLEAN, NEW w \in Arms, Emit(holdId, held, w)
  PROVE  WordInv'
<1> DEFINE queue == own.pending
           edge == IF queue = << >> THEN [intent |-> NoIntent, selected |-> w]
                   ELSE Head(queue)
           in == [intent |-> edge.intent, selected |-> edge.selected,
                  holdId |-> holdId, held |-> held]
           i == edge.intent.id
           f == own.outstanding
           entry == Outstanding(edge.intent, edge.selected)
           g == IF i = 0 THEN f ELSE With(f, i, entry)
           rest == IF queue = << >> THEN queue ELSE Tail(queue)
           p == prepare_server_action_intent(session, actor, edge.intent, edge.selected)
           b == p.session
           read == [in EXCEPT !.intent = IF p.kept THEN @ ELSE NoIntent]
<1>1. /\ turn = "ticks" /\ left # 0 /\ inputs = << >> /\ ReceiveInput(in)
      /\ own' = [own EXCEPT !.pending = rest, !.outstanding = g]
      /\ UNCHANGED <<wire, turn, left, fired>>
  BY DEF Emit, HostInv, Phased
<1>2. /\ session' = b /\ stage = "poll" /\ inputs' = Append(<< >>, read)
      /\ UNCHANGED <<actor, stage, settled, tick>>
  BY <1>1 DEF ReceiveInput
<1>3. /\ own \in OwnType /\ queue \in Seq(Edges) /\ DOMAIN f \subseteq Ids
      /\ \A j \in DOMAIN f : f[j] \in Entries
  BY OwnFields DEF HostInv, HostTypes
<1>4. own'.pending = rest /\ own'.outstanding = g /\ own'.applied = own.applied
      /\ own'.baseline = own.baseline
  BY <1>1, <1>3 DEF OwnType
<1>5. /\ session \in SessionType /\ Cached(session) /\ wire \in Seq(Mail)
      /\ tick \in 0..MaxTick
      /\ \A j, k \in DOMAIN queue : queue[j].intent.id = queue[k].intent.id => j = k
  BY DEF HostInv, RunInv, TypeInv, HostTypes
<1>6. Stream = StreamOf(wire, session) /\ Stream' = StreamOf(wire, b)
  BY <1>1, <1>2 DEF Stream, StreamOf
<1>7. /\ InOrder(StreamOf(wire, session), own.applied, session.recent)
      /\ HeardRoom(StreamOf(wire, session), own.applied, session, queue)
  BY <1>6 DEF WordInv
<1>8. /\ InOrder(StreamOf(wire, b), own.applied, b.recent)
      /\ HeardRoom(StreamOf(wire, b), own.applied, b, rest)
      /\ \A j : \A m \in Said(StreamOf(wire, b), own.applied, b.recent, j) :
           \/ m \in Said(StreamOf(wire, session), own.applied, session.recent, j)
           \/ m.tick = tick /\ j # b.claim
      /\ b.claim # session.claim =>
           Said(StreamOf(wire, b), own.applied, b.recent, b.claim) = {}
  <2>1. CASE queue = << >>
    <3>1. i = 0 /\ rest = queue BY <2>1 DEF NoIntent
    <3>2. b = session BY <3>1 DEF prepare_server_action_intent
    <3>h. HIDE DEF b, rest, queue
    <3>q. QED BY <1>7, <3>1, <3>2
  <2>2. CASE queue # << >>
    <3> DEFINE r == prepare_server_action_intent(session, actor, Head(queue).intent,
                                                 Head(queue).selected).session
    <3>1. edge = Head(queue) /\ rest = Tail(queue) BY <2>2
    <3>2. b = r BY <3>1
    <3>3. queue # << >> BY <2>2
    <3>4. queue \in Seq(Edges) BY <1>3
    <3>5. session \in SessionType BY <1>5
    <3>6. Cached(session) BY <1>5
    <3>7. wire \in Seq(Mail) BY <1>5
    <3>8. tick \in 0..MaxTick BY <1>5
    <3>9. \A j, k \in DOMAIN queue : queue[j].intent.id = queue[k].intent.id => j = k
      BY <1>5
    <3>10. InOrder(StreamOf(wire, session), own.applied, session.recent) BY <1>7
    <3>11. HeardRoom(StreamOf(wire, session), own.applied, session, queue) BY <1>7
    <3>h. HIDE DEF edge, rest, queue, b, p
    <3>12. /\ InOrder(StreamOf(wire, r), own.applied, r.recent)
           /\ HeardRoom(StreamOf(wire, r), own.applied, r, Tail(queue))
           /\ \A j : \A m \in Said(StreamOf(wire, r), own.applied, r.recent, j) :
                \/ m \in Said(StreamOf(wire, session), own.applied, session.recent, j)
                \/ m.tick = tick /\ j # r.claim
           /\ r.claim # session.claim =>
                Said(StreamOf(wire, r), own.applied, r.recent, r.claim) = {}
      BY <3>3, <3>4, <3>5, <3>6, <3>7, <3>8, <3>9, <3>10, <3>11, IntentWords, Zenon
    <3>h2. HIDE DEF r
    <3>q. QED BY <3>1, <3>2, <3>12
  <2>q. QED BY <2>1, <2>2
<1>9. /\ i # 0 /\ p.kept => session.claim = 0
      /\ read.intent.id # 0 => i # 0 /\ p.kept
  <2>1. i # 0 /\ p.kept => session.claim = 0 BY KeptIsNew
  <2>2. read.intent = IF p.kept THEN edge.intent ELSE NoIntent OBVIOUS
  <2>3. NoIntent.id = 0 BY DEF NoIntent
  <2>h. HIDE DEF p, read, edge
  <2>q. QED BY <2>1, <2>2, <2>3
<1>10. DOMAIN inputs' = {1} /\ inputs'[1] = read
  <2>1. ASSUME NEW e PROVE DOMAIN Append(<< >>, e) = {1} /\ Append(<< >>, e)[1] = e
    BY <2>1
  <2>h. HIDE DEF read
  <2>q. QED BY <1>2, <2>1
<1>11. i \in DOMAIN f => entry.age = 0 /\ entry.confirmed = f[i].confirmed
  <2> SUFFICES ASSUME i \in DOMAIN f
               PROVE  entry.age = 0 /\ entry.confirmed = f[i].confirmed
    OBVIOUS
  <2>1. entry = [f[i] EXCEPT !.age = 0] BY DEF Outstanding
  <2>2. f[i] \in Entries BY <1>3
  <2>h. HIDE DEF entry, f, i
  <2>q. QED BY <2>1, <2>2 DEF Entries
<1>12. i \notin DOMAIN f => entry.age = 0 /\ entry.confirmed = 0 BY DEF Outstanding
<1>h. HIDE DEF entry, edge, in, i, b, rest, read, p
<1>c. PICK c : c = b.claim OBVIOUS
<1>13. \A j \in DOMAIN g : \/ j \in DOMAIN f /\ g[j] = f[j]
                           \/ /\ g[j].age = 0
                              /\ \/ g[j].confirmed = 0
                                 \/ j \in DOMAIN f /\ g[j].confirmed = f[j].confirmed
  <2>1. CASE i = 0 BY <2>1
  <2>2. CASE i # 0
    <3>1. g = With(f, i, entry) BY <2>2
    <3>h. HIDE DEF g, f
    <3>2. /\ DOMAIN g = DOMAIN f \cup {i} /\ g[i] = entry
          /\ \A j \in DOMAIN f \ {i} : g[j] = f[j]
      BY <3>1 DEF With
    <3>q. QED BY <1>11, <1>12, <3>2
  <2>q. QED BY <2>1, <2>2
<1>h2. HIDE DEF g
<1>14. Confirmed' BY <1>4, <1>13 DEF WordInv, Confirmed
<1>15. Bounded'
  BY <1>1, <1>4, <1>13, HostAssumption DEF WordInv, Bounded
<1>16. \A j : \A m \in Words(j)' : m \in Words(j) \/ (m.tick = tick /\ j # c)
  BY <1>2, <1>4, <1>6, <1>8, <1>c DEF Words
<1>17. c # session.claim => Words(c)' = {}
  BY <1>2, <1>4, <1>6, <1>8, <1>c DEF Words
<1>18. Fresh'
  BY <1>2, <1>16, <1>17, <1>c DEF WordInv, RunWords, Fresh
<1>19. Unheard'
  BY <1>2, <1>9, <1>10, <1>17, <1>c DEF Unheard, HostInv, Alone
<1>20. OneWord' /\ OneInput' BY <1>2, <1>10 DEF WordInv, RunWords, OneWord, OneInput
<1>21. \A j \in Ids : \A m \in Words(j)' : m.tick <= tick'
  BY <1>2, <1>5, <1>16 DEF WordInv, RunWords
<1>22. RunWords' BY <1>18, <1>19, <1>20, <1>21 DEF RunWords
<1>q. QED BY <1>2, <1>4, <1>6, <1>8, <1>14, <1>15, <1>22 DEF WordInv

\* Finalize settles an outcome: what it says counts no less and is later.
LEMMA FinalizeWords ==
  ASSUME MaxPending <= RecentCapacity, HostInv, HostInv', WordInv, Finalize
  PROVE  WordInv'
<1> DEFINE o == actor.out[settled + 1]
           b == Settle(session, o)
<1>1. /\ stage = "finalize" /\ settled < Len(actor.out) /\ session' = b
      /\ settled' = settled + 1 /\ UNCHANGED <<actor, inputs, stage, tick>>
      /\ UNCHANGED <<own, wire, left, fired>>
  BY DEF Finalize, FinalizeOutcome, hostVars
<1>2. settled \in Nat /\ Len(actor.out) \in Nat /\ settled + 1 \in DOMAIN actor.out
      /\ settled + 1 \in (settled + 1)..Len(actor.out) /\ o \in Outcomes
  BY <1>1, OutcomeAt DEF HostInv, RunInv, TypeInv
<1>3. o.id = session.claim /\ session.claim # 0 BY <1>2 DEF HostInv, Orderly
<1>c. PICK c : c = session.claim OBVIOUS
<1>4. Spoken(o) => settled + 1 \in Unsaid(actor.out, settled) BY <1>2 DEF Unsaid
<1>5. Stream = StreamOf(wire, session) /\ Stream' = StreamOf(wire, b)
  BY <1>1 DEF Stream, StreamOf
<1>6. Spoken(o) => \A m \in Words(c) : m.count <= o.count /\ m.tick < tick
  BY <1>1, <1>3, <1>4, <1>c DEF WordInv, RunWords, Fresh
<1>7. /\ InOrder(StreamOf(wire, b), own.applied, b.recent)
      /\ HeardRoom(StreamOf(wire, b), own.applied, b, own.pending)
      /\ \A i : \A m \in Said(StreamOf(wire, b), own.applied, b.recent, i) :
           \/ m \in Said(StreamOf(wire, session), own.applied, session.recent, i)
           \/ Spoken(o) /\ m.count = o.count /\ m.tick = tick
      /\ b.claim \in {session.claim, 0}
  <2>1. session \in SessionType BY DEF HostInv, RunInv, TypeInv
  <2>2. Cached(session) BY DEF HostInv, RunInv, TypeInv
  <2>3. wire \in Seq(Mail) BY DEF HostInv, HostTypes
  <2>4. own.pending \in Seq(Edges) BY OwnFields DEF HostInv, HostTypes
  <2>5. Len(own.pending) <= RecentCapacity
    BY <2>4, HostAssumption, SessionAssumption DEF HostInv, HostTypes
  <2>6. InOrder(StreamOf(wire, session), own.applied, session.recent)
    BY <1>5 DEF WordInv
  <2>7. HeardRoom(StreamOf(wire, session), own.applied, session, own.pending)
    BY <1>5 DEF WordInv
  <2>8. Voiced(StreamOf(wire, session), own.applied, session)
    BY <1>5 DEF HostInv, Agreed
  <2>9. o \in Outcomes BY <1>2
  <2>10. o.id = session.claim BY <1>3
  <2>11. session.claim # 0 BY <1>3
  <2>12. tick \in 0..MaxTick BY DEF HostInv, RunInv, TypeInv
  <2>13. Spoken(o) =>
           \A m \in Said(StreamOf(wire, session), own.applied, session.recent,
                         session.claim) :
             m.count <= o.count /\ m.tick < tick
    BY <1>5, <1>6, <1>c DEF Words
  <2>h. HIDE DEF o
  <2>q. QED BY <2>1, <2>2, <2>3, <2>4, <2>5, <2>6, <2>7, <2>8, <2>9, <2>10, <2>11,
               <2>12, <2>13, OutcomeWords, Zenon
<1>8. Spoken(o) => Unsaid(actor.out, settled + 1) = {}
  <2>1. ASSUME Spoken(o), NEW k, k \in Unsaid(actor.out, settled + 1) PROVE FALSE
    BY <1>2, <2>1, RunActor DEF Unsaid, WordInv, RunWords, OneWord, Speaks
  <2>q. QED BY <2>1
<1>9. Unsaid(actor.out, settled + 1) \subseteq Unsaid(actor.out, settled)
  BY <1>2 DEF Unsaid
<1>10. Spoken(o) /\ InProgress(actor) => o.count <= actor.commits
  BY <1>2 DEF WordInv, RunWords, OneWord, Speaks
<1>h. HIDE DEF o, b
<1>11. \A i : \A m \in Words(i)' :
         \/ m \in Words(i)
         \/ Spoken(o) /\ m.count = o.count /\ m.tick = tick
  BY <1>1, <1>5, <1>7 DEF Words
<1>12. Fresh'
  BY <1>1, <1>3, <1>7, <1>8, <1>9, <1>10, <1>11, <1>c DEF WordInv, RunWords, Fresh
<1>13. inputs = << >> BY <1>1 DEF WordInv, RunWords, OneInput
<1>14. Unheard'
  BY <1>1, <1>13 DEF Unheard
<1>15. OneWord' /\ OneInput' BY <1>1 DEF WordInv, RunWords, OneWord, OneInput
<1>16. \A i \in Ids : \A m \in Words(i)' : m.tick <= tick'
  BY <1>1, <1>11, RunActor DEF WordInv, RunWords
<1>17. RunWords' BY <1>12, <1>14, <1>15, <1>16 DEF RunWords
<1>18. Confirmed' /\ Bounded' BY <1>1 DEF WordInv, Confirmed, Bounded
<1>q. QED BY <1>1, <1>5, <1>7, <1>17, <1>18 DEF WordInv

\* A snapshot joins the stream: no word does.
LEMMA SnapshotJoins ==
  ASSUME NEW st \in Seq(Mail), NEW ap, NEW a, NEW b, NEW queue,
         InOrder(st, ap, a.recent), HeardRoom(st, ap, a, queue),
         b.recent = a.recent, b.order = a.order, b.claim = a.claim,
         NEW st2,
         \/ st2 = st
         \/ \E m \in Mail : m.type = "Snapshot" /\ st2 = Append(st, m)
  PROVE  /\ InOrder(st2, ap, b.recent) /\ HeardRoom(st2, ap, b, queue)
         /\ \A i : Said(st2, ap, b.recent, i) \subseteq Said(st, ap, a.recent, i)
<1>1. /\ \A k \in DOMAIN st2 : \A i : Word(st2[k], i) => k \in DOMAIN st /\ st2[k] = st[k]
      /\ \A k \in DOMAIN st : k \in DOMAIN st2 /\ st2[k] = st[k]
  BY Longer DEF Word
<1>2. ASSUME NEW i \in Ids PROVE Chain(st2, ap, b.recent, i)
  BY <1>1 DEF InOrder, Chain
<1>3. \A i, p : Slot(a, i, p) => Slot(b, i, p) BY DEF Slot, Coming
<1>4. \A i : Heard(st2, ap, i) => Heard(st, ap, i) BY <1>1 DEF Heard
<1>5. HeardRoom(st2, ap, b, queue) BY <1>3, <1>4 DEF HeardRoom
<1>6. ASSUME NEW i, NEW m \in Said(st2, ap, b.recent, i)
      PROVE  m \in Said(st, ap, a.recent, i)
  BY <1>1, <1>6 DEF Said
<1>q. QED BY <1>2, <1>5, <1>6 DEF InOrder

\* The results and the snapshot leave, and the next tick is later.
LEMMA EndTickWords ==
  ASSUME HostInv, HostInv', WordInv, NEW snapshot \in BOOLEAN, EndTick(snapshot)
  PROVE  WordInv'
<1> DEFINE all == (Len(session.pending) + BatchSize - 1) \div BatchSize
           tailing == IF snapshot THEN <<Snapshot>> ELSE << >>
<1>1. /\ turn = "ticks" /\ Flush(all) /\ wire' = wire \o Sent(all) \o tailing
      /\ left' = left - 1 /\ UNCHANGED <<own, fired>>
  BY DEF EndTick
<1>2. session \in SessionType /\ session.pending \in Seq(Results)
  BY DEF HostInv, RunInv, TypeInv, SessionType
<1>3. Sent(all) = session.pending BY <1>2, AllSent
<1>h. HIDE DEF all
<1>4. /\ stage = "finalize" /\ stage' = "poll" /\ inputs' = inputs /\ settled' = 0
      /\ session' = [session EXCEPT !.pending = << >>]
      /\ actor' = TickOver(actor) /\ tick' = tick + 1
  BY <1>1, <1>3 DEF Flush
<1>5. /\ session'.pending = << >> /\ session'.recent = session.recent
      /\ session'.order = session.order /\ session'.claim = session.claim
  BY <1>2, <1>4 DEF SessionType
<1>6. wire \in Seq(Mail) /\ Stream = wire \o session.pending /\ Stream \in Seq(Mail)
  BY <1>2, StreamGrows DEF HostInv, HostTypes, Stream
<1>7. Snapshot \in Mail /\ Snapshot.type = "Snapshot"
  BY DEF HostInv, RunInv, TypeInv, Sound, ActorType, Mail, Snapshot
<1>8. wire' = Stream \o tailing BY <1>1, <1>3, <1>6
<1>9. wire' = Stream \/ wire' = Append(Stream, Snapshot)
  <2>1. ASSUME NEW S, NEW q \in Seq(S), NEW x \in S
        PROVE  q \o << >> = q /\ q \o <<x>> = Append(q, x)
    BY <2>1
  <2>2. Stream \o << >> = Stream /\ Stream \o <<Snapshot>> = Append(Stream, Snapshot)
    BY <1>6, <1>7, <2>1
  <2>q. QED BY <1>8, <2>2
<1>10. Stream' = wire'
  BY <1>5 DEF HostInv, HostTypes, Stream
<1>h2. HIDE DEF tailing
<1>11. /\ InOrder(Stream', own.applied, session'.recent)
       /\ HeardRoom(Stream', own.applied, session', own.pending)
       /\ \A i : Said(Stream', own.applied, session'.recent, i) \subseteq Words(i)
  BY <1>5, <1>6, <1>7, <1>9, <1>10, SnapshotJoins DEF WordInv, Words
<1>12. \A i : Words(i)' \subseteq Words(i) BY <1>1, <1>11 DEF Words
<1>13. /\ actor'.commits = actor.commits /\ actor'.phase = actor.phase
       /\ actor'.out = << >>
  BY <1>4, RunActor DEF TickOver, ActorType
<1>14. InProgress(actor') <=> InProgress(actor) BY <1>13 DEF InProgress
<1>15. tick \in Nat /\ session.claim \in Ids BY RunActor
<1>16. \A i \in Ids : \A m \in Words(i) : m.tick \in Nat /\ m.tick < tick'
  BY <1>4, <1>15, WordNumbers DEF WordInv, RunWords
<1>17. Unsaid(actor.out, settled)' = {}
  BY <1>4, <1>13 DEF Unsaid
<1>18. Fresh'
  BY <1>5, <1>12, <1>13, <1>14, <1>15, <1>16, <1>17 DEF WordInv, RunWords, Fresh
<1>19. inputs = << >> /\ DOMAIN inputs' = {} BY <1>4 DEF WordInv, RunWords, OneInput
<1>20. Unheard' /\ OneInput' BY <1>4, <1>19 DEF Unheard, OneInput
<1>21. OneWord'
  BY <1>13, RunActor DEF Speaks, OneWord
<1>22. \A i \in Ids : \A m \in Words(i)' : m.tick <= tick'
  BY <1>4, <1>12, <1>15, <1>16
<1>23. RunWords' BY <1>18, <1>20, <1>21, <1>22 DEF RunWords
<1>24. left # 0 BY <1>4 DEF HostInv, Phased
<1>25. Confirmed' /\ Bounded' BY <1>1, <1>24, HostAssumption DEF WordInv, Confirmed, Bounded
<1>q. QED BY <1>1, <1>11, <1>23, <1>25 DEF WordInv

-----------------------------------------------------------------------------
(* Every update ends in step.                                              *)

LEMMA InitWords == HostInit => WordInv
<1> SUFFICES ASSUME HostInit PROVE WordInv
  OBVIOUS
<1>1. /\ Init /\ own = [InitOwner EXCEPT !.baseline = 0]
      /\ wire = << >> /\ left = 0 /\ fired = [w \in Weapons |-> 0]
  BY DEF HostInit
<1>2. /\ own.pending = << >> /\ own.outstanding = << >> /\ own.applied = << >>
      /\ own.baseline = 0
  BY <1>1 DEF InitOwner
<1>3. /\ session.pending = << >> /\ session.claim = 0 /\ session.recent = << >>
      /\ inputs = << >> /\ stage = "poll"
  BY <1>1 DEF Init, InitSession
<1>4. ~InProgress(actor) /\ actor.out = << >>
  BY <1>1, InitActorFit DEF Init
<1>5. DOMAIN << >> = {} /\ << >> \o << >> = << >> OBVIOUS
<1>6. Stream = << >> BY <1>1, <1>3, <1>5 DEF Stream
<1>7. InOrder(Stream, own.applied, session.recent)
  BY <1>2, <1>3, <1>5, <1>6 DEF InOrder, Chain
<1>8. HeardRoom(Stream, own.applied, session, own.pending)
  BY <1>2, <1>5 DEF HeardRoom
<1>9. \A i : Words(i) = {} BY <1>2, <1>3, <1>5, <1>6 DEF Words, Said
<1>10. Fresh /\ Unheard BY <1>3, <1>9 DEF Fresh, Unheard
<1>11. OneWord
  BY <1>4, <1>5 DEF Speaks, OneWord
<1>12. OneInput BY <1>3, <1>5 DEF OneInput
<1>13. RunWords BY <1>9, <1>10, <1>11, <1>12 DEF RunWords
<1>14. Confirmed BY <1>2, <1>5 DEF Confirmed
<1>15. Bounded
  BY <1>1, <1>2, <1>5, SessionAssumption, HostAssumption DEF Bounded
<1>q. QED BY <1>7, <1>8, <1>13, <1>14, <1>15 DEF WordInv

\* Every step of an update keeps the words in order.
LEMMA NextWords ==
  ASSUME SingleEffects, MaxPending <= RecentCapacity, HostInv, HostInv', WordInv,
         [HostNext]_allVars
  PROVE  WordInv'
<1>1. CASE StartTicks \/ StopTicks \/ EndUpdate
  BY <1>1, TurnWords DEF StartTicks, StopTicks, EndUpdate
<1>2. CASE UNCHANGED allVars
  BY <1>2, TurnWords DEF allVars, hostVars
<1>3. ASSUME NEW intent \in [id: IntentIds, binding: Bindings], NEW w \in Arms,
             submit_player_input(intent, w)
      PROVE  WordInv'
  BY <1>3, SubmitWords
<1>4. ASSUME NEW ticks \in 0..TicksPerUpdate, StartUpdate(ticks) PROVE WordInv'
  BY <1>4, StartWords
<1>5. ASSUME NEW i \in Ids, Expire(i) PROVE WordInv' BY <1>5, ExpireWords
<1>6. ASSUME NEW holdId \in IntentIds \cup {0}, NEW held \in BOOLEAN, NEW w \in Arms,
             Emit(holdId, held, w)
      PROVE  WordInv'
  BY <1>6, EmitWords
<1>7. ASSUME NEW snapshot \in BOOLEAN, EndTick(snapshot) PROVE WordInv'
  BY <1>7, EndTickWords
<1>8. CASE Simulate BY <1>8, SimulateWords
<1>9. CASE Finalize BY <1>9, FinalizeWords
<1>10. CASE Disturbed BY <1>10, DisturbedWords
<1>11. CASE Drain BY <1>11, DrainWords
<1>q. QED BY <1>1, <1>2, <1>3, <1>4, <1>5, <1>6, <1>7, <1>8, <1>9, <1>10, <1>11
          DEF HostNext

\* The client half's fields have their types.
LEMMA WordTypes ==
  ASSUME HostInv, WordInv
  PROVE  HostTypeOK
<1>1. /\ own.applied \in Caches /\ DOMAIN own.outstanding \subseteq Ids
      /\ \A i \in DOMAIN own.outstanding : own.outstanding[i] \in Entries
      /\ Len(own.pending) <= MaxPending
  BY OwnFields DEF HostInv, HostTypes
<1>2. /\ DOMAIN own.applied \subseteq Ids
      /\ \A i \in DOMAIN own.applied : own.applied[i] \in Results
  BY <1>1 DEF Caches
<1>3. ASSUME NEW i \in DOMAIN own.outstanding
      PROVE  own.outstanding[i] \in OutstandingType
  <2> DEFINE o == own.outstanding[i]
  <2>1. o \in Entries /\ o.age <= ResultTimeout + 1 BY <1>1 DEF WordInv, Bounded
  <2>h. HIDE DEF o
  <2>2. o \in [age: Nat, confirmed: Counts, binding: Bindings, weapon: Arms,
               terminal: BOOLEAN, ammo: Nat]
    BY <2>1 DEF Entries
  <2>3. o.age \in 0..(ResultTimeout + 1) BY <2>1, <2>2, HostAssumption
  <2>4. o \in OutstandingType BY <2>2, <2>3 DEF OutstandingType
  <2>q. QED BY <2>4 DEF o
<1>4. turn \in {"host", "expire", "ticks", "drain"} BY DEF HostInv, Phased
<1>q. QED BY <1>1, <1>2, <1>3, <1>4 DEF HostTypeOK, WordInv, Bounded

\* When an update has ended, the client half holds the server's last word on
\* every instance the server remembers: of what it was sent it dropped no result
\* that says more than the one it has, whatever was submitted again, timed out
\* or was rolled back meanwhile.  For catalogs whose reloads and targeted strikes
\* commit once, and a cache that holds as many results as the client queues
\* intents (handle_client_local_action_results, queue_local_action_result).
THEOREM HostStaysInStep ==
  ASSUME HostCatalog, SingleEffects, MaxPending <= RecentCapacity
  PROVE  HostSpec => []HostInStep
<1>1. HostInit => HostInv /\ WordInv BY InitHost, InitWords
<1>2. HostInv /\ WordInv /\ [HostNext]_allVars => (HostInv /\ WordInv)'
  BY NextHost, NextWords
<1>3. HostInv /\ WordInv => HostInStep
  <2> SUFFICES ASSUME HostInv, WordInv PROVE HostInStep
    OBVIOUS
  <2>1. ASSUME turn = "host", NEW i \in DOMAIN session.recent,
               session.recent[i].tick > 0
        PROVE  i \in DOMAIN own.applied /\ own.applied[i] = session.recent[i]
    BY <2>1 DEF HostInv, Phased, Stream, RunInv, TypeInv, SessionType, Caches, WordInv,
      InOrder, Chain
  <2>q. QED BY <2>1, WordTypes DEF HostInStep
<1>q. QED BY <1>1, <1>2, <1>3, PTL DEF HostSpec
=============================================================================
