----------------------- MODULE EntityReplicationProofs -----------------------
(***************************************************************************)
(* The session's set is the client's, and no alarm is false, for every     *)
(* number of entities, quota, grace and queue length, whatever the         *)
(* connection refuses.                                                     *)
(*                                                                         *)
(* All that is ever said of an entity is about its own queue, so the       *)
(* inductive invariant is one formula per entity, Fit, over the values the *)
(* session, the queue and the client hold for it.  Fit is a constant       *)
(* formula: each thing that can happen to an entity is one lemma about it, *)
(* with no primes, and an action is a choice of one of those per entity.   *)
(***************************************************************************)
EXTENDS EntityReplication, FiniteSetTheorems, WellFoundedInduction, TLAPS

-----------------------------------------------------------------------------
(* The inductive invariant.                                                *)

IsSpawn(m) == m.kind = "spawn"
IsEnding(m) == m.kind = "despawn" /\ m.reason = "Ended"
Covers(tb, t) == \/ tb.reason = "Ended"
                 \/ tb.reason = "OutOfRange" /\ t <= tb.tick

\* WillDraw, of the queue q, what is held and what is deferred.
Draws(P, e, q, h, df) ==
  IF q # <<>>
  THEN q[Len(q)].kind = "batch" \/ (q[Len(q)].kind = "spawn" /\ e \notin P)
  ELSE h = "complete" /\ \A d \in df : d.id # e

\* The session shows e exactly when its client will draw it.
Tracked(P, e, shown, q, h, df) == e \in shown <=> Draws(P, e, q, h, df)

\* Only a projectile is described by a batch.
Batched(P, e, q) == \A k \in 1..Len(q) : q[k].kind = "batch" => e \in P

\* An ending is the last thing said of an entity, and it is said of nothing
\* that lives.
Ends(P, e, w, q, h, tb, df) ==
  /\ \A k \in 1..Len(q) : IsEnding(q[k]) => k = Len(q) /\ w = "gone"
  /\ tb.reason = "Ended" => q = <<>> /\ w = "gone" /\ h = "no"
  /\ \A d \in df : d.id = e => q = <<>> /\ w = "gone" /\ e \in P

\* Whatever snapshot record of e exists, its spawn is under way, the client
\* has e, or a tombstone explains the record.
Explained(e, q, recs, h, tb) ==
  \A x \in recs : x.id = e => \/ \E k \in 1..Len(q) : IsSpawn(q[k])
                              \/ h # "no"
                              \/ Covers(tb, x.tick)

\* A record newer than a despawn under way has its spawn behind that despawn.
Reopened(e, q, recs) ==
  \A k \in 1..Len(q), x \in recs :
    q[k].kind = "despawn" /\ x.id = e /\ x.tick > q[k].tick =>
      \E j \in 1..Len(q) : j > k /\ IsSpawn(q[j])

Fit(P, e, w, shown, q, recs, h, tb, df) ==
  /\ Tracked(P, e, shown, q, h, df)
  /\ Batched(P, e, q)
  /\ Ends(P, e, w, q, h, tb, df)
  /\ Explained(e, q, recs, h, tb)
  /\ Reopened(e, q, recs)

\* What the client is to draw: what its session shows, and what it was left with.
Told == relevant \cup abandoned

AllFit ==
  \A e \in Entities :
    Fit(Projectiles, e, world[e], Told, channel[e], records, held[e],
        tombstone[e], deferred)

\* The buffer holds one entry per tick, made of records that were sent.
BufferFit ==
  /\ IsFiniteSet(buffer)
  /\ \A b, c \in buffer : b.tick = c.tick => b = c
  /\ \A b \in buffer : \A e \in b.ids : [tick |-> b.tick, id |-> e] \in records

SentInPast == \A x \in records : x.tick <= tick

Inv ==
  /\ ReplicationTypeOK
  /\ channel \in [Entities -> Seq(Messages)]
  /\ AllFit
  /\ BufferFit
  /\ SentInPast
  /\ NoFalseAlarm

-----------------------------------------------------------------------------
(* Queues.                                                                 *)

LEMMA AppendFacts ==
  ASSUME NEW S, NEW q \in Seq(S), NEW m \in S
  PROVE  /\ Append(q, m) \in Seq(S) /\ Append(q, m) # <<>>
         /\ Len(Append(q, m)) = Len(q) + 1
         /\ Append(q, m)[Len(q) + 1] = m
         /\ \A k \in 1..Len(q) : Append(q, m)[k] = q[k]
         /\ Len(q) \in Nat
<1>1. Append(q, m) \in Seq(S) /\ Len(Append(q, m)) = Len(q) + 1 OBVIOUS
<1>2. Len(q) \in Nat OBVIOUS
<1>3. Append(q, m) # <<>>
  <2>1. \A s \in Seq(S) : s = <<>> <=> Len(s) = 0 OBVIOUS
  <2>q. QED BY <1>1, <1>2, <2>1
<1>4. Append(q, m)[Len(q) + 1] = m OBVIOUS
<1>5. \A k \in 1..Len(q) : Append(q, m)[k] = q[k] OBVIOUS
<1>q. QED BY <1>1, <1>2, <1>3, <1>4, <1>5

LEMMA TailFacts ==
  ASSUME NEW S, NEW q \in Seq(S), q # <<>>
  PROVE  /\ Tail(q) \in Seq(S) /\ Head(q) \in S /\ Head(q) = q[1]
         /\ Len(q) \in Nat /\ Len(q) >= 1
         /\ Len(Tail(q)) = Len(q) - 1
         /\ \A k \in 1..Len(Tail(q)) : Tail(q)[k] = q[k + 1]
         /\ Tail(q) = <<>> <=> Len(q) = 1
<1>1. Tail(q) \in Seq(S) /\ Head(q) \in S /\ Head(q) = q[1] OBVIOUS
<1>2. Len(q) \in Nat /\ Len(q) >= 1 OBVIOUS
<1>3. Len(Tail(q)) = Len(q) - 1 OBVIOUS
<1>4. \A k \in 1..Len(Tail(q)) : Tail(q)[k] = q[k + 1] OBVIOUS
<1>5. \A s \in Seq(S) : s = <<>> <=> Len(s) = 0 OBVIOUS
<1>6. Tail(q) = <<>> <=> Len(q) = 1 BY <1>1, <1>2, <1>3, <1>5
<1>q. QED BY <1>1, <1>2, <1>3, <1>4, <1>6

LEMMA MessageFacts ==
  ASSUME NEW t \in Ticks
  PROVE  /\ Spawn(t) \in Messages /\ Batch(t) \in Messages
         /\ \A r \in Reasons : Despawn(t, r) \in Messages
BY DEF Spawn, Batch, Despawn, Messages

LEMMA KindFacts ==
  ASSUME NEW m \in Messages
  PROVE  /\ m.kind \in {"spawn", "batch", "despawn"} /\ m.tick \in Ticks
         /\ m.kind = "despawn" => m.reason \in {"OutOfRange", "Ended"}
BY DEF Messages, Reasons

-----------------------------------------------------------------------------
(* What the server does to an entity.                                      *)

\* Whoever is shown has no ending anywhere.
LEMMA ShownLives ==
  ASSUME NEW P, NEW e, NEW w, NEW shown, NEW q \in Seq(Messages), NEW recs,
         NEW h, NEW tb, NEW df,
         Fit(P, e, w, shown, q, recs, h, tb, df), e \in shown
  PROVE  /\ \A k \in 1..Len(q) : ~IsEnding(q[k])
         /\ tb.reason # "Ended"
         /\ \A d \in df : d.id # e
<1>1. Draws(P, e, q, h, df) BY DEF Fit, Tracked
<1>2. ASSUME NEW k \in 1..Len(q), IsEnding(q[k]) PROVE FALSE
  <2>1. k = Len(q) /\ q # <<>> BY <1>2 DEF Fit, Ends
  <2>2. q[Len(q)].kind = "despawn" BY <1>2, <2>1 DEF IsEnding
  <2>q. QED BY <1>1, <2>1, <2>2 DEF Draws
<1>3. tb.reason # "Ended" BY <1>1 DEF Fit, Ends, Draws
<1>4. ASSUME NEW d \in df, d.id = e PROVE FALSE
  <2>1. q = <<>> BY <1>4 DEF Fit, Ends
  <2>q. QED BY <1>1, <1>4, <2>1 DEF Draws
<1>q. QED BY <1>2, <1>3, <1>4

\* What lives has no ending anywhere.
LEMMA LivingHasNoEnd ==
  ASSUME NEW P, NEW e, NEW w, NEW shown, NEW q \in Seq(Messages), NEW recs,
         NEW h, NEW tb, NEW df,
         Fit(P, e, w, shown, q, recs, h, tb, df), w # "gone"
  PROVE  /\ \A k \in 1..Len(q) : ~IsEnding(q[k])
         /\ tb.reason # "Ended"
         /\ \A d \in df : d.id # e
BY DEF Fit, Ends

\* Nothing is said: only whether e is shown, lives or is deferred may be
\* written differently.
LEMMA FitSame ==
  ASSUME NEW P, NEW e, NEW w, NEW shown, NEW q, NEW recs, NEW h, NEW tb, NEW df,
         Fit(P, e, w, shown, q, recs, h, tb, df),
         NEW v, w = "gone" => v = "gone",
         NEW showing, e \in showing <=> e \in shown,
         NEW rest, (\E d \in rest : d.id = e) <=> (\E d \in df : d.id = e),
         NEW more, \A x \in more : x.id = e => x \in recs
  PROVE  Fit(P, e, v, showing, q, more, h, tb, rest)
<1>1. Tracked(P, e, showing, q, h, rest) BY DEF Fit, Tracked, Draws
<1>2. Ends(P, e, v, q, h, tb, rest) BY DEF Fit, Ends
<1>3. Explained(e, q, more, h, tb) BY DEF Fit, Explained
<1>4. Reopened(e, q, more) BY DEF Fit, Reopened
<1>q. QED BY <1>1, <1>2, <1>3, <1>4 DEF Fit

LEMMA FitAside ==
  ASSUME NEW P, NEW e, NEW w, NEW shown, NEW q, NEW recs, NEW h, NEW tb, NEW df,
         Fit(P, e, w, shown, q, recs, h, tb, df),
         NEW showing, e \in showing <=> e \in shown,
         NEW more, \A x \in more : x.id = e => x \in recs
  PROVE  Fit(P, e, w, showing, q, more, h, tb, df)
<1>1. Tracked(P, e, showing, q, h, df) BY DEF Fit, Tracked
<1>3. Explained(e, q, more, h, tb) BY DEF Fit, Explained
<1>4. Reopened(e, q, more) BY DEF Fit, Reopened
<1>q. QED BY <1>1, <1>3, <1>4 DEF Fit

\* Another record of an entity that is shown.
LEMMA FitRecord ==
  ASSUME NEW P, NEW e, NEW w, NEW shown, NEW q \in Seq(Messages), NEW recs,
         NEW h, NEW tb, NEW df,
         Fit(P, e, w, shown, q, recs, h, tb, df), e \in shown, e \notin P
  PROVE  \A more : Fit(P, e, w, shown, q, more, h, tb, df)
<1> TAKE more
<1>1. Draws(P, e, q, h, df) BY DEF Fit, Tracked
<1>2. q # <<>> => Len(q) \in 1..Len(q) /\ IsSpawn(q[Len(q)])
  <2>1. q # <<>> => Len(q) \in 1..Len(q) OBVIOUS
  <2>2. q # <<>> => q[Len(q)].kind # "batch" BY <2>1 DEF Fit, Batched
  <2>q. QED BY <1>1, <2>1, <2>2 DEF Draws, IsSpawn
<1>3. q = <<>> => h # "no" BY <1>1 DEF Draws
<1>4. Explained(e, q, more, h, tb) BY <1>2, <1>3 DEF Explained
<1>5. ASSUME NEW k \in 1..Len(q), q[k].kind = "despawn"
      PROVE  \E j \in 1..Len(q) : j > k /\ IsSpawn(q[j])
  <2>1. q # <<>> /\ Len(q) \in Nat BY <1>5
  <2>2. k # Len(q) BY <1>2, <1>5, <2>1 DEF IsSpawn
  <2>3. Len(q) > k BY <2>1, <2>2
  <2>q. QED BY <1>2, <2>1, <2>3
<1>6. Reopened(e, q, more) BY <1>5 DEF Reopened
<1>q. QED BY <1>4, <1>6 DEF Fit

\* A spawn is sent.
LEMMA FitSpawn ==
  ASSUME NEW P, NEW e, NEW shown, NEW q \in Seq(Messages), NEW recs,
         NEW h, NEW tb, NEW df, NEW w, w # "gone",
         Fit(P, e, w, shown, q, recs, h, tb, df),
         NEW t \in Ticks, NEW showing, e \in showing <=> e \notin P
  PROVE  Fit(P, e, w, showing, Append(q, Spawn(t)), recs, h, tb, df)
<1> DEFINE m == Spawn(t)
           s == Append(q, m)
<1>1. m \in Messages /\ m.kind = "spawn" BY MessageFacts DEF Spawn
<1> HIDE DEF m
<1>2. /\ s # <<>> /\ Len(s) = Len(q) + 1 /\ s[Len(s)] = m /\ Len(q) \in Nat
      /\ \A k \in 1..Len(q) : s[k] = q[k] BY <1>1, AppendFacts
<1>3. \A k \in 1..Len(s) : k # Len(s) => k \in 1..Len(q) /\ s[k] = q[k]
  BY <1>2
<1>4. Len(s) \in 1..Len(s) /\ \A k \in 1..Len(q) : Len(s) > k BY <1>2
<1> HIDE DEF s
<1>5. Tracked(P, e, showing, s, h, df) BY <1>1, <1>2 DEF Tracked, Draws
<1>6. Batched(P, e, s) BY <1>1, <1>2, <1>3 DEF Fit, Batched
<1>7. Ends(P, e, w, s, h, tb, df)
  <2>1. /\ \A k \in 1..Len(q) : ~IsEnding(q[k])
        /\ tb.reason # "Ended"
        /\ \A d \in df : d.id # e BY LivingHasNoEnd
  <2>q. QED BY <1>1, <1>2, <1>3, <2>1 DEF Ends, IsEnding
<1>8. Explained(e, s, recs, h, tb) BY <1>1, <1>2, <1>4 DEF Explained, IsSpawn
<1>9. Reopened(e, s, recs)
  BY <1>1, <1>2, <1>3, <1>4 DEF Reopened, IsSpawn
<1>q. QED BY <1>5, <1>6, <1>7, <1>8, <1>9 DEF Fit, s, m

\* A projectile's batch follows its spawn.
LEMMA FitBatch ==
  ASSUME NEW P, NEW e \in P, NEW shown, NEW q \in Seq(Messages), NEW recs,
         NEW h, NEW tb, NEW df, NEW w, w # "gone",
         Fit(P, e, w, shown, q, recs, h, tb, df),
         NEW t \in Ticks, NEW showing, e \in showing
  PROVE  Fit(P, e, w, showing, Append(q, Batch(t)), recs, h, tb, df)
<1> DEFINE m == Batch(t)
           s == Append(q, m)
<1>1. m \in Messages /\ m.kind = "batch" BY MessageFacts DEF Batch
<1> HIDE DEF m
<1>2. /\ s # <<>> /\ Len(s) = Len(q) + 1 /\ s[Len(s)] = m /\ Len(q) \in Nat
      /\ \A k \in 1..Len(q) : s[k] = q[k] /\ k \in 1..Len(s) BY <1>1, AppendFacts
<1>3. \A k \in 1..Len(s) : k # Len(s) => k \in 1..Len(q) /\ s[k] = q[k]
  BY <1>2
<1> HIDE DEF s
<1>5. Tracked(P, e, showing, s, h, df) BY <1>1, <1>2 DEF Tracked, Draws
<1>6. Batched(P, e, s) BY DEF Batched
<1>7. Ends(P, e, w, s, h, tb, df)
  <2>1. /\ \A k \in 1..Len(q) : ~IsEnding(q[k])
        /\ tb.reason # "Ended"
        /\ \A d \in df : d.id # e BY LivingHasNoEnd
  <2>q. QED BY <1>1, <1>2, <1>3, <2>1 DEF Ends, IsEnding
<1>8. Explained(e, s, recs, h, tb) BY <1>2 DEF Fit, Explained
<1>9. Reopened(e, s, recs)
  <2>1. ASSUME NEW k \in 1..Len(s), NEW x \in recs, s[k].kind = "despawn",
               x.id = e, x.tick > s[k].tick
        PROVE  \E j \in 1..Len(s) : j > k /\ IsSpawn(s[j])
    <3>1. k \in 1..Len(q) /\ s[k] = q[k] BY <1>1, <1>2, <1>3, <2>1
    <3>2. PICK j \in 1..Len(q) : j > k /\ IsSpawn(q[j])
      BY <2>1, <3>1 DEF Fit, Reopened
    <3>q. QED BY <3>2, <1>2
  <2>q. QED BY <2>1 DEF Reopened
<1>q. QED BY <1>5, <1>6, <1>7, <1>8, <1>9 DEF Fit, s, m

\* A despawn is sent: out of range of one who is shown, or the end of one who
\* lived.
LEMMA FitDespawn ==
  ASSUME NEW P, NEW e, NEW shown, NEW q \in Seq(Messages), NEW recs,
         NEW h, NEW tb, NEW df, NEW w,
         Fit(P, e, w, shown, q, recs, h, tb, df),
         NEW t \in Ticks, NEW reason \in Reasons,
         \A x \in recs : x.id = e => x.tick \in Nat /\ x.tick <= t,
         NEW v, NEW showing, e \notin showing,
         \/ reason = "OutOfRange" /\ e \in shown /\ v = w
         \/ reason = "Ended" /\ w # "gone" /\ v = "gone"
  PROVE  Fit(P, e, v, showing, Append(q, Despawn(t, reason)), recs, h, tb, df)
<1> DEFINE m == Despawn(t, reason)
           s == Append(q, m)
<1>1. m \in Messages /\ m.kind = "despawn" /\ m.tick = t /\ m.reason = reason
  BY MessageFacts DEF Despawn
<1> HIDE DEF m
<1>2. /\ s # <<>> /\ Len(s) = Len(q) + 1 /\ s[Len(s)] = m /\ Len(q) \in Nat
      /\ \A k \in 1..Len(q) : s[k] = q[k] /\ k \in 1..Len(s) BY <1>1, AppendFacts
<1>3. \A k \in 1..Len(s) : k # Len(s) => k \in 1..Len(q) /\ s[k] = q[k]
  BY <1>2
<1> HIDE DEF s
<1>4. /\ \A k \in 1..Len(q) : ~IsEnding(q[k])
      /\ tb.reason # "Ended"
      /\ \A d \in df : d.id # e
  BY LivingHasNoEnd, ShownLives
<1>5. Tracked(P, e, showing, s, h, df) BY <1>1, <1>2 DEF Tracked, Draws
<1>6. Batched(P, e, s) BY <1>1, <1>2, <1>3 DEF Fit, Batched
<1>7. Ends(P, e, v, s, h, tb, df)
  BY <1>1, <1>2, <1>3, <1>4 DEF Ends, IsEnding
<1>8. Explained(e, s, recs, h, tb) BY <1>2 DEF Fit, Explained
<1>9. Reopened(e, s, recs)
  <2>1. ASSUME NEW k \in 1..Len(s), NEW x \in recs, s[k].kind = "despawn",
               x.id = e, x.tick > s[k].tick
        PROVE  \E j \in 1..Len(s) : j > k /\ IsSpawn(s[j])
    <3>0. t \in Nat /\ x.tick \in Nat /\ x.tick <= t
      BY <2>1, ReplicationAssumption DEF Ticks
    <3>1. k \in 1..Len(q) /\ s[k] = q[k] BY <1>1, <1>2, <1>3, <2>1, <3>0
    <3>2. PICK j \in 1..Len(q) : j > k /\ IsSpawn(q[j])
      BY <2>1, <3>1 DEF Fit, Reopened
    <3>q. QED BY <3>2, <1>2
  <2>q. QED BY <2>1 DEF Reopened
<1>q. QED BY <1>5, <1>6, <1>7, <1>8, <1>9 DEF Fit, s, m

-----------------------------------------------------------------------------
(* What the client does with an entity.                                    *)

\* What is behind the head of a queue stays as it was.
LEMMA FitTail ==
  ASSUME NEW P, NEW e, NEW w, NEW shown, NEW q \in Seq(Messages), NEW recs,
         NEW h, NEW tb, NEW df, q # <<>>,
         Fit(P, e, w, shown, q, recs, h, tb, df)
  PROVE  /\ Batched(P, e, Tail(q)) /\ Reopened(e, Tail(q), recs)
         /\ \A k \in 1..Len(Tail(q)) :
              IsEnding(Tail(q)[k]) => k = Len(Tail(q)) /\ w = "gone"
         /\ tb.reason # "Ended" /\ \A d \in df : d.id # e
         /\ Tail(q) # <<>> => (e \in shown <=> Draws(P, e, Tail(q), h, df))
         /\ Head(q).kind = "spawn" \/ Head(q).kind = "batch"
              => ~IsEnding(Head(q))
         /\ IsEnding(Head(q)) => Tail(q) = <<>> /\ w = "gone"
<1> DEFINE s == Tail(q)
<1>1. /\ Len(q) \in Nat /\ Len(q) >= 1 /\ Len(s) = Len(q) - 1 /\ Head(q) = q[1]
      /\ \A k \in 1..Len(s) : s[k] = q[k + 1]
      /\ s = <<>> <=> Len(q) = 1
  BY TailFacts
<1> HIDE DEF s
<1>2. \A k \in 1..Len(s) : k + 1 \in 1..Len(q) /\ s[k] = q[k + 1] BY <1>1
<1>3. Batched(P, e, s) BY <1>2 DEF Fit, Batched
<1>4. Reopened(e, s, recs)
  <2>1. ASSUME NEW k \in 1..Len(s), NEW x \in recs, s[k].kind = "despawn",
               x.id = e, x.tick > s[k].tick
        PROVE  \E j \in 1..Len(s) : j > k /\ IsSpawn(s[j])
    <3>1. PICK i \in 1..Len(q) : i > k + 1 /\ IsSpawn(q[i])
      BY <1>2, <2>1 DEF Fit, Reopened
    <3>2. i - 1 \in 1..Len(s) /\ i - 1 > k /\ (i - 1) + 1 = i BY <3>1, <1>1
    <3>3. s[i - 1] = q[i] BY <3>2, <1>1
    <3>q. QED BY <3>1, <3>2, <3>3
  <2>q. QED BY <2>1 DEF Reopened
<1>5. ASSUME NEW k \in 1..Len(s), IsEnding(s[k]) PROVE k = Len(s) /\ w = "gone"
  <2>1. k + 1 = Len(q) /\ w = "gone" BY <1>2, <1>5 DEF Fit, Ends
  <2>q. QED BY <2>1, <1>1
<1>6. tb.reason # "Ended" /\ \A d \in df : d.id # e BY DEF Fit, Ends
<1>7. ASSUME s # <<>> PROVE e \in shown <=> Draws(P, e, s, h, df)
  <2>1. Len(s) \in 1..Len(s) /\ Len(s) + 1 = Len(q) BY <1>1, <1>7
  <2>2. s[Len(s)] = q[Len(q)] BY <1>2, <2>1
  <2>q. QED BY <2>2, <1>7 DEF Fit, Tracked, Draws
<1>8. Head(q).kind = "spawn" \/ Head(q).kind = "batch" => ~IsEnding(Head(q))
  BY DEF IsEnding
<1>9. IsEnding(Head(q)) => s = <<>> /\ w = "gone"
  <2>1. 1 \in 1..Len(q) BY <1>1
  <2>q. QED BY <1>1, <2>1 DEF Fit, Ends
<1>q. QED BY <1>3, <1>4, <1>5, <1>6, <1>7, <1>8, <1>9 DEF s

\* A spawn or a batch is handled.
LEMMA FitShow ==
  ASSUME NEW P, NEW e, NEW w, NEW shown, NEW q \in Seq(Messages), NEW recs,
         NEW h, NEW tb, NEW df, q # <<>>,
         Fit(P, e, w, shown, q, recs, h, tb, df),
         Head(q).kind \in {"spawn", "batch"},
         NEW g, g = IF Head(q).kind = "spawn" /\ e \in P THEN "spawned"
                                                          ELSE "complete",
         NEW ub, ub \in {tb, NoTombstone}
  PROVE  Fit(P, e, w, shown, Tail(q), recs, g, ub, df)
<1> DEFINE s == Tail(q)
<1>1. /\ Batched(P, e, s) /\ Reopened(e, s, recs)
      /\ \A k \in 1..Len(s) : IsEnding(s[k]) => k = Len(s) /\ w = "gone"
      /\ tb.reason # "Ended" /\ \A d \in df : d.id # e
      /\ s # <<>> => (e \in shown <=> Draws(P, e, s, h, df))
  BY FitTail
<1>2. /\ Len(q) \in Nat /\ Head(q) = q[1] /\ (s = <<>> <=> Len(q) = 1)
  BY TailFacts
<1> HIDE DEF s
<1>3. Tracked(P, e, shown, s, g, df)
  <2>1. CASE s # <<>> BY <1>1, <2>1 DEF Tracked, Draws
  <2>2. CASE s = <<>>
    <3>1. q[Len(q)] = Head(q) BY <1>2, <2>2
    <3>2. Draws(P, e, q, h, df) <=> g = "complete"
      BY <3>1 DEF Draws
    <3>q. QED BY <3>2, <1>1, <2>2 DEF Fit, Tracked, Draws
  <2>q. QED BY <2>1, <2>2
<1>4. ub.reason # "Ended" BY <1>1 DEF NoTombstone
<1>5. Ends(P, e, w, s, g, ub, df) BY <1>1, <1>4 DEF Ends
<1>6. Explained(e, s, recs, g, ub) BY DEF Explained
<1>q. QED BY <1>1, <1>3, <1>5, <1>6 DEF Fit, s

\* A despawn is handled.
LEMMA FitForget ==
  ASSUME NEW P, NEW e, NEW w, NEW shown, NEW q \in Seq(Messages), NEW recs,
         NEW h, NEW tb, NEW df, q # <<>>,
         Fit(P, e, w, shown, q, recs, h, tb, df),
         Head(q).kind = "despawn",
         \A x \in recs : x.id = e => x.tick \in Nat
  PROVE  Fit(P, e, w, shown, Tail(q), recs, "no",
             [tick |-> Head(q).tick, reason |-> Head(q).reason], df)
<1> DEFINE s == Tail(q)
           m == Head(q)
           ub == [tick |-> m.tick, reason |-> m.reason]
<1>1. /\ Batched(P, e, s) /\ Reopened(e, s, recs)
      /\ \A k \in 1..Len(s) : IsEnding(s[k]) => k = Len(s) /\ w = "gone"
      /\ tb.reason # "Ended" /\ \A d \in df : d.id # e
      /\ s # <<>> => (e \in shown <=> Draws(P, e, s, h, df))
      /\ IsEnding(m) => s = <<>> /\ w = "gone"
  BY FitTail
<1>2. /\ Len(q) \in Nat /\ m = q[1] /\ (s = <<>> <=> Len(q) = 1) /\ m \in Messages
      /\ Len(q) >= 1 /\ Len(s) = Len(q) - 1
      /\ \A k \in 1..Len(s) : s[k] = q[k + 1]
  BY TailFacts
<1>3. m.tick \in Nat /\ m.reason \in {"OutOfRange", "Ended"}
  BY <1>2, KindFacts, ReplicationAssumption DEF Ticks
<1>t. ub.tick = m.tick /\ ub.reason = m.reason OBVIOUS
<1> HIDE DEF s, m, ub
<1>4. Tracked(P, e, shown, s, "no", df)
  <2>1. CASE s # <<>> BY <1>1, <2>1 DEF Tracked, Draws
  <2>2. CASE s = <<>>
    <3>1. q[Len(q)].kind = "despawn" BY <1>2, <2>2 DEF m
    <3>2. ~Draws(P, e, q, h, df) BY <3>1 DEF Draws
    <3>q. QED BY <3>2, <2>2 DEF Fit, Tracked, Draws
  <2>q. QED BY <2>1, <2>2
<1>5. Ends(P, e, w, s, "no", ub, df)
  <2>1. ub.reason = "Ended" => IsEnding(m) BY <1>t DEF IsEnding, m
  <2>q. QED BY <1>1, <2>1 DEF Ends
<1>6. Explained(e, s, recs, "no", ub)
  <2>1. ASSUME NEW x \in recs, x.id = e, ~Covers(ub, x.tick)
        PROVE  \E k \in 1..Len(s) : IsSpawn(s[k])
    <3>1. x.tick > m.tick BY <2>1, <1>3, <1>t DEF Covers
    <3>2. 1 \in 1..Len(q) /\ q[1].kind = "despawn" BY <1>2 DEF m
    <3>3. PICK j \in 1..Len(q) : j > 1 /\ IsSpawn(q[j])
      BY <2>1, <3>1, <3>2, <1>2 DEF Fit, Reopened
    <3>4. j - 1 \in 1..Len(s) /\ (j - 1) + 1 = j BY <3>3, <1>2
    <3>5. s[j - 1] = q[j] BY <3>4, <1>2
    <3>q. QED BY <3>3, <3>4, <3>5
  <2>q. QED BY <2>1 DEF Explained
<1>q. QED BY <1>1, <1>4, <1>5, <1>6 DEF Fit, s, ub, m

\* The end of a projectile that is still to be drawn waits.
LEMMA FitDefer ==
  ASSUME NEW P, NEW e \in P, NEW w, NEW shown, NEW q \in Seq(Messages), NEW recs,
         NEW h, NEW tb, NEW df, q # <<>>,
         Fit(P, e, w, shown, q, recs, h, tb, df),
         IsEnding(Head(q)), \A x \in recs : x.id # e,
         NEW t
  PROVE  Fit(P, e, w, shown, Tail(q), recs, h, tb,
             df \cup {[id |-> e, tick |-> t]})
<1> DEFINE s == Tail(q)
           more == df \cup {[id |-> e, tick |-> t]}
<1>1. /\ Batched(P, e, s) /\ Reopened(e, s, recs)
      /\ tb.reason # "Ended" /\ s = <<>> /\ w = "gone"
  BY FitTail
<1>2. /\ Len(q) \in Nat /\ Head(q) = q[1] /\ (s = <<>> <=> Len(q) = 1)
      /\ (s = <<>> => Len(s) = 0)
  BY TailFacts
<1>3. \E d \in more : d.id = e
  <2>1. [id |-> e, tick |-> t] \in more /\ [id |-> e, tick |-> t].id = e OBVIOUS
  <2>q. QED BY <2>1
<1> HIDE DEF s, more
<1>4. Tracked(P, e, shown, s, h, more)
  <2>1. q[Len(q)].kind = "despawn" BY <1>1, <1>2 DEF IsEnding
  <2>2. ~Draws(P, e, q, h, df) BY <2>1 DEF Draws
  <2>q. QED BY <2>2, <1>1, <1>3 DEF Fit, Tracked, Draws
<1>5. Ends(P, e, w, s, h, tb, more)
  <2>1. \A k \in 1..Len(s) : FALSE BY <1>1, <1>2
  <2>q. QED BY <1>1, <2>1 DEF Ends
<1>6. Explained(e, s, recs, h, tb) BY DEF Explained
<1>q. QED BY <1>1, <1>4, <1>5, <1>6 DEF Fit, s, more

\* A deferred end falls due.
LEMMA FitDue ==
  ASSUME NEW P, NEW e, NEW w, NEW shown, NEW q \in Seq(Messages), NEW recs,
         NEW h, NEW tb, NEW df,
         Fit(P, e, w, shown, q, recs, h, tb, df),
         \E d \in df : d.id = e, NEW t,
         NEW rest, rest \subseteq df
  PROVE  Fit(P, e, w, shown, q, recs, "no", [tick |-> t, reason |-> "Ended"],
             rest)
<1> DEFINE ub == [tick |-> t, reason |-> "Ended"]
<1>1. q = <<>> /\ w = "gone" /\ e \in P BY DEF Fit, Ends
<1>2. ub.reason = "Ended" OBVIOUS
<1> HIDE DEF ub
<1>3. e \notin shown BY <1>1 DEF Fit, Tracked, Draws
<1>4. Tracked(P, e, shown, q, "no", rest) BY <1>1, <1>3 DEF Tracked, Draws
<1>5. Ends(P, e, w, q, "no", ub, rest) BY <1>1 DEF Fit, Ends
<1>6. Explained(e, q, recs, "no", ub) BY <1>2 DEF Explained, Covers
<1>q. QED BY <1>4, <1>5, <1>6 DEF Fit, ub

-----------------------------------------------------------------------------
(* publish_snapshot: every entity is spawned, despawned or left alone.     *)

LEMMA OffersNewcomers ==
  ASSUME NEW newcomers, NEW offered \in Offers(newcomers)
  PROVE  offered \subseteq newcomers
<1>1. CASE Cardinality(newcomers) <= SpawnQuota BY <1>1 DEF Offers
<1>2. CASE ~(Cardinality(newcomers) <= SpawnQuota) BY <1>2 DEF Offers
<1>q. QED BY <1>1, <1>2

LEMMA ConcatFacts ==
  ASSUME NEW S, NEW q \in Seq(S), NEW a \in S, NEW b \in S
  PROVE  /\ q \o <<>> \o <<>> \o <<>> = q
         /\ q \o <<a>> \o <<>> \o <<>> = Append(q, a)
         /\ q \o <<a>> \o <<b>> \o <<>> = Append(Append(q, a), b)
         /\ q \o <<>> \o <<>> \o <<a>> = Append(q, a)
<1>1. \A s \in Seq(S) : s \o <<>> = s OBVIOUS
<1>2. \A s \in Seq(S), x \in S : s \o <<x>> = Append(s, x) OBVIOUS
<1>3. \A s \in Seq(S), x \in S : Append(s, x) \in Seq(S) OBVIOUS
<1>4. q \o <<>> = q BY <1>1
<1>5. q \o <<a>> = Append(q, a) /\ Append(q, a) \in Seq(S) BY <1>2, <1>3
<1>6. Append(q, a) \o <<>> = Append(q, a) BY <1>1, <1>5
<1>7. /\ Append(q, a) \o <<b>> = Append(Append(q, a), b)
      /\ Append(Append(q, a), b) \in Seq(S) BY <1>2, <1>3, <1>5
<1>8. Append(Append(q, a), b) \o <<>> = Append(Append(q, a), b) BY <1>1, <1>7
<1>q. QED BY <1>4, <1>5, <1>6, <1>7, <1>8

\* left is of what ended and is no longer shown.
Over(w, shown, left) ==
  left \subseteq {e \in Others : w[e] = "gone"} \ shown

\* The entities fit, of the world w, the set told, the queues and the records.
FitsAll(w, told, chan, recs) ==
  \A e \in Entities :
    Fit(Projectiles, e, w[e], told, chan[e], recs, held[e], tombstone[e], deferred)

\* What was in the queues is still there.
Longer(chan, more) ==
  \A e \in Entities : \A i \in 1..Len(chan[e]) :
    i \in 1..Len(more[e]) /\ more[e][i] = chan[e][i]

LEMMA PublishFits ==
  ASSUME NEW w, NEW shown \in SUBSET Entities,
         NEW chan \in [Entities -> Seq(Messages)],
         tick \in Ticks, lost \subseteq Projectiles,
         records \subseteq [tick : Ticks, id : Entities \ Projectiles],
         SentInPast,
         NEW left, Over(w, shown, left),
         FitsAll(w, shown \cup left, chan, records),
         publish_snapshot(w, shown, chan)
  PROVE  /\ relevant' \subseteq Entities /\ lost' \subseteq Projectiles
         /\ channel' \in [Entities -> Seq(Messages)]
         /\ \A e \in Entities : Len(channel'[e]) <= MaxQueued
         /\ records \subseteq records'
         /\ records' \subseteq [tick : Ticks, id : Entities \ Projectiles]
         /\ \A x \in records' : x.tick <= tick
         /\ FitsAll(w, relevant' \cup left, channel', records')
         /\ Over(w, relevant', left) /\ Longer(chan, channel')
<1> DEFINE P == Projectiles
           visible == build_relevant_snapshot(w, shown)
           newcomers == visible \ shown
           leaving == shown \ visible
<1>1. PICK offered \in Offers(newcomers), freed \in SUBSET leaving :
      \E spawned \in SUBSET offered :
      \E batched \in SUBSET (spawned \cap P) :
       /\ relevant' = Announced(visible \cap shown, newcomers,
                                Whole(spawned, batched), leaving \ freed)
       /\ lost' = (lost \ visible) \cup {e \in leaving \cap P : w[e] = "alive"}
       /\ channel' = Queued(chan, spawned, batched, freed)
       /\ \A e \in Entities : Len(channel'[e]) <= MaxQueued
       /\ records' = records \cup [tick : {tick}, id : (visible \cap relevant') \ P]
  BY DEF publish_snapshot
<1>2. PICK spawned \in SUBSET offered, batched \in SUBSET P :
       /\ batched \subseteq spawned
       /\ relevant' = Announced(visible \cap shown, newcomers,
                                Whole(spawned, batched), leaving \ freed)
       /\ lost' = (lost \ visible) \cup {e \in leaving \cap P : w[e] = "alive"}
       /\ channel' = Queued(chan, spawned, batched, freed)
       /\ \A e \in Entities : Len(channel'[e]) <= MaxQueued
       /\ records' = records \cup [tick : {tick}, id : (visible \cap relevant') \ P]
  BY <1>1
<1>3. visible \subseteq Entities /\ \A e \in visible : w[e] = "alive"
  BY DEF build_relevant_snapshot
<1>4. offered \subseteq newcomers /\ batched \subseteq spawned
  BY <1>2, OffersNewcomers
<1>5. relevant' = (visible \cap shown) \cup ((spawned \ P) \cup batched)
                    \cup (leaving \ freed)
  BY <1>2 DEF Announced, Whole
<1> HIDE DEF visible
<1>6. relevant' \subseteq Entities BY <1>3, <1>4, <1>5
<1>l. visible \cap left = {} /\ relevant' \cap left = {}
  <2>1. visible \cap left = {} /\ shown \cap left = {} BY <1>3 DEF Over
  <2>q. QED BY <1>4, <1>5, <2>1
<1>7. lost' \subseteq P BY <1>2
<1>8. records \subseteq records' BY <1>2
<1>9. \A x \in records' :
        \/ x \in records
        \/ x.tick = tick /\ x.id \in (visible \cap relevant') \ P
  <2> DEFINE fresh == (visible \cap relevant') \ P
  <2>1. records' = records \cup [tick : {tick}, id : fresh] BY <1>2
  <2>2. ASSUME NEW x \in records', x \notin records
        PROVE  x.tick = tick /\ x.id \in fresh
    <3>1. x \in [tick : {tick}, id : fresh] BY <2>1, <2>2
    <3> HIDE DEF fresh
    <3>q. QED BY <3>1
  <2>q. QED BY <2>2
<1>10. records' \subseteq [tick : Ticks, id : Entities \ P] BY <1>2, <1>3
<1>11. tick \in Nat /\ \A x \in records : x.tick \in Nat
  BY ReplicationAssumption DEF Ticks
<1>12. \A x \in records' : x.tick <= tick BY <1>9, <1>11 DEF SentInPast
<1>13. \A e \in Entities :
         channel'[e] = chan[e]
           \o (IF e \in spawned THEN <<Spawn(tick)>> ELSE <<>>)
           \o (IF e \in batched THEN <<Batch(tick)>> ELSE <<>>)
           \o (IF e \in freed THEN <<Despawn(tick, "OutOfRange")>> ELSE <<>>)
  BY <1>2 DEF Queued
<1>14. /\ Spawn(tick) \in Messages /\ Batch(tick) \in Messages
       /\ Despawn(tick, "OutOfRange") \in Messages
  BY MessageFacts DEF Reasons
<1>15. ASSUME NEW e \in Entities
       PROVE  /\ channel'[e] \in Seq(Messages)
              /\ Fit(P, e, w[e], relevant' \cup left, channel'[e], records',
                     held[e], tombstone[e], deferred)
              /\ \A i \in 1..Len(chan[e]) :
                   i \in 1..Len(channel'[e]) /\ channel'[e][i] = chan[e][i]
  <2> DEFINE q == chan[e]
             Fits(v, s, recs) == Fit(P, e, w[e], v, s, recs, held[e],
                                     tombstone[e], deferred)
  <2>1. q \in Seq(Messages) /\ Len(q) \in Nat /\ Fits(shown \cup left, q, records)
    <3>1. q \in Seq(Messages) OBVIOUS
    <3>2. Len(q) \in Nat BY <3>1
    <3>3. Fits(shown \cup left, q, records) BY Zenon DEF FitsAll
    <3>q. QED BY <3>1, <3>2, <3>3
  <2>q0. /\ q \o <<>> \o <<>> \o <<>> = q
         /\ q \o <<Spawn(tick)>> \o <<>> \o <<>> = Append(q, Spawn(tick))
         /\ q \o <<Spawn(tick)>> \o <<Batch(tick)>> \o <<>>
              = Append(Append(q, Spawn(tick)), Batch(tick))
         /\ q \o <<>> \o <<>> \o <<Despawn(tick, "OutOfRange")>>
              = Append(q, Despawn(tick, "OutOfRange"))
    BY <1>14, <2>1, ConcatFacts
  <2>q1. channel'[e] = q
             \o (IF e \in spawned THEN <<Spawn(tick)>> ELSE <<>>)
             \o (IF e \in batched THEN <<Batch(tick)>> ELSE <<>>)
             \o (IF e \in freed THEN <<Despawn(tick, "OutOfRange")>> ELSE <<>>)
    BY <1>13
  <2> HIDE DEF q
  <2>2. ASSUME NEW s \in Seq(Messages), channel'[e] = s,
               Fits(relevant' \cup left, s, records)
        PROVE  Fits(relevant' \cup left, s, records')
    <3>1. CASE e \in (visible \cap relevant') \ P
      <4>1. e \in relevant' \cup left /\ e \notin P BY <3>1
      <4>q. QED BY <4>1, <2>2, FitRecord
    <3>2. CASE e \notin (visible \cap relevant') \ P
      <4>1. \A x \in records' : x.id = e => x \in records BY <1>9, <3>2
      <4>2. Fits(relevant' \cup left, s, records) BY <2>2
      <4>q. QED BY <4>1, <4>2, FitAside
    <3>q. QED BY <3>1, <3>2
  <2>3. CASE e \in spawned
    <3>1. e \notin shown /\ w[e] = "alive" /\ e \notin freed
      BY <1>3, <1>4, <2>3
    <3>l. e \notin left BY <3>1 DEF Over
    <3>2. e \in relevant' \cup left <=> e \notin P \/ e \in batched
      BY <1>5, <2>3, <3>1, <3>l
    <3>3. CASE e \notin batched
      <4>1. channel'[e] = Append(q, Spawn(tick)) BY <2>q0, <2>q1, <2>3, <3>1, <3>3
      <4>2. Fits(relevant' \cup left, Append(q, Spawn(tick)), records)
        BY <2>1, <3>1, <3>2, <3>3, FitSpawn
      <4>3. /\ Append(q, Spawn(tick)) \in Seq(Messages)
            /\ \A i \in 1..Len(q) : /\ i \in 1..Len(Append(q, Spawn(tick)))
                                    /\ Append(q, Spawn(tick))[i] = q[i]
        BY <2>1, <1>14, AppendFacts
      <4>q. QED BY <2>2, <4>1, <4>2, <4>3 DEF q
    <3>4. CASE e \in batched
      <4> DEFINE s == Append(q, Spawn(tick))
      <4>1. channel'[e] = Append(s, Batch(tick))
        BY <2>q0, <2>q1, <2>3, <3>1, <3>4
      <4>2. Fits({}, s, records)
        BY <2>1, <3>1, <3>4, FitSpawn
      <4>3. /\ s \in Seq(Messages) /\ Len(s) \in Nat
            /\ \A i \in 1..Len(q) : i \in 1..Len(s) /\ s[i] = q[i]
        BY <2>1, <1>14, AppendFacts
      <4> HIDE DEF s
      <4>4. /\ Append(s, Batch(tick)) \in Seq(Messages)
            /\ \A i \in 1..Len(s) : /\ i \in 1..Len(Append(s, Batch(tick)))
                                    /\ Append(s, Batch(tick))[i] = s[i]
        BY <4>3, <1>14, AppendFacts
      <4>5. e \in P /\ e \in relevant' \cup left BY <3>2, <3>4
      <4>6. Fits(relevant' \cup left, Append(s, Batch(tick)), records)
        BY <4>2, <4>3, <4>5, <3>1, FitBatch
      <4>q. QED BY <2>2, <4>1, <4>3, <4>4, <4>6 DEF q
    <3>q. QED BY <3>3, <3>4
  <2>4. CASE e \in freed
    <3> DEFINE m == Despawn(tick, "OutOfRange")
    <3>1. e \in shown /\ e \notin visible /\ e \notin spawned /\ e \notin batched
      BY <1>4, <2>4
    <3>2. e \notin relevant' \cup left BY <1>5, <2>4, <3>1 DEF Over
    <3>3. channel'[e] = Append(q, m) BY <2>q0, <2>q1, <2>4, <3>1
    <3>4. \A x \in records : x.id = e => x.tick \in Nat /\ x.tick <= tick
      BY <1>11 DEF SentInPast
    <3>5. "OutOfRange" \in Reasons BY DEF Reasons
    <3>6. Fits(relevant' \cup left, Append(q, m), records)
      BY <2>1, <3>1, <3>2, <3>4, <3>5, FitDespawn
    <3>7. /\ Append(q, m) \in Seq(Messages)
          /\ \A i \in 1..Len(q) : /\ i \in 1..Len(Append(q, m))
                                  /\ Append(q, m)[i] = q[i]
      BY <2>1, <1>14, AppendFacts
    <3>q. QED BY <2>2, <3>3, <3>6, <3>7 DEF q
  <2>5. CASE e \notin spawned /\ e \notin freed
    <3>0. e \notin batched BY <1>4, <2>5
    <3>1. channel'[e] = q BY <2>q0, <2>q1, <2>5, <3>0
    <3>2. e \in relevant' \cup left <=> e \in shown \cup left BY <1>5, <2>5, <3>0
    <3>3. \A x \in records : x.id = e => x \in records OBVIOUS
    <3>4. Fits(relevant' \cup left, q, records) BY <2>1, <3>2, <3>3, FitAside
    <3>q. QED BY <2>1, <2>2, <3>1, <3>4 DEF q
  <2>q. QED BY <2>3, <2>4, <2>5
<1>16. channel' \in [Entities -> Seq(Messages)]
  <2>1. channel' = [e \in Entities |-> channel'[e]] BY <1>2 DEF Queued
  <2>q. QED BY <2>1, <1>15
<1>17. FitsAll(w, relevant' \cup left, channel', records')
  BY <1>15, Zenon DEF FitsAll
<1>18. Over(w, relevant', left) BY <1>l DEF Over
<1>19. Longer(chan, channel') BY <1>15 DEF Longer
<1>q. QED BY <1>2, <1>6, <1>7, <1>8, <1>10, <1>12, <1>16, <1>17, <1>18, <1>19

-----------------------------------------------------------------------------
(* The snapshot buffer.                                                    *)

LEMMA LeastNat ==
  ASSUME NEW T \in SUBSET Nat, T # {}
  PROVE  \E n \in T : \A k \in T : n <= k
<1>1. PICK n \in T : \A k \in T : ~(<<k, n>> \in OpToRel(<, Nat))
  BY NatLessThanWellFounded, WFMin
<1>2. \A k \in T : ~(k < n) BY <1>1 DEF OpToRel
<1>q. QED BY <1>2

\* Of a finite set with one element per tick, the ones with fewer than n newer
\* ones are at most n: all but the oldest of them are newer than that one.
LEMMA NewestAreFew ==
  ASSUME NEW M, IsFiniteSet(M), \A b \in M : b.tick \in Nat,
         \A b, c \in M : b.tick = c.tick => b = c,
         NEW n \in Nat \ {0}
  PROVE  LET S == {b \in M : Cardinality({c \in M : c.tick > b.tick}) < n}
         IN  IsFiniteSet(S) /\ Cardinality(S) <= n
<1> DEFINE S == {b \in M : Cardinality({c \in M : c.tick > b.tick}) < n}
<1>1. IsFiniteSet(S) BY FS_Subset
<1>n. n \in Nat /\ n >= 1 OBVIOUS
<1> SUFFICES Cardinality(S) <= n BY <1>1
<1>2. CASE S = {}
  <2>1. Cardinality(S) = 0 BY <1>2, FS_EmptySet
  <2> HIDE DEF S
  <2>q. QED BY <2>1, <1>n
<1>3. CASE S # {}
  <2>1. PICK o \in S : \A b \in S : o.tick <= b.tick
    <3> DEFINE T == {b.tick : b \in S}
    <3>1. T \in SUBSET Nat /\ T # {} BY <1>3
    <3>2. PICK k \in T : \A l \in T : k <= l BY <3>1, LeastNat
    <3>3. PICK b \in S : b.tick = k OBVIOUS
    <3>4. \A c \in S : c.tick \in T OBVIOUS
    <3> HIDE DEF S, T
    <3>q. QED BY <3>2, <3>3, <3>4
  <2> DEFINE N == {c \in M : c.tick > o.tick}
  <2>2. Cardinality(N) < n BY <2>1
  <2>3. IsFiniteSet(N) /\ Cardinality(N) \in Nat BY FS_Subset, FS_CardinalityType
  <2>4. ASSUME NEW b \in S, b # o PROVE b \in N
    <3>1. b \in M /\ o \in M /\ o.tick <= b.tick BY <2>1
    <3>2. b.tick # o.tick BY <2>4, <3>1
    <3>3. b.tick \in Nat /\ o.tick \in Nat BY <3>1
    <3>q. QED BY <3>1, <3>2, <3>3
  <2> HIDE DEF S, N
  <2>5. Cardinality(S \ {o}) <= Cardinality(N)
    <3>1. S \ {o} \in SUBSET N BY <2>4
    <3>q. QED BY <2>3, <3>1, FS_Subset
  <2>6. Cardinality(S \ {o}) = Cardinality(S) - 1 BY <1>1, FS_RemoveElement
  <2>7. Cardinality(S) \in Nat BY <1>1, FS_CardinalityType
  <2>q. QED BY <1>n, <2>2, <2>3, <2>5, <2>6, <2>7
<1>q. QED BY <1>2, <1>3

\* store_client_snapshot keeps the buffer within its size, one entry per tick,
\* made of records that were sent.
LEMMA StoredFits ==
  ASSUME BufferFit, buffer \subseteq [tick : Ticks, ids : SUBSET Actors],
         NEW t \in Ticks, NEW ids \in SUBSET Actors,
         \A e \in ids : [tick |-> t, id |-> e] \in records
  PROVE  LET S == store_client_snapshot(t, ids)
         IN  /\ IsFiniteSet(S) /\ Cardinality(S) <= MaxBuffered
             /\ S \subseteq [tick : Ticks, ids : SUBSET Actors]
             /\ \A b, c \in S : b.tick = c.tick => b = c
             /\ \A b \in S : \A e \in b.ids : [tick |-> b.tick, id |-> e] \in records
<1> DEFINE old == {b \in buffer : b.tick = t}
           all == ids \cup UNION {b.ids : b \in old}
           new == [tick |-> t, ids |-> all]
           M == (buffer \ old) \cup {new}
           S == {b \in M : Cardinality({c \in M : c.tick > b.tick}) < MaxBuffered}
<1>1. S = store_client_snapshot(t, ids) BY DEF store_client_snapshot
<1>2. all \in SUBSET Actors OBVIOUS
<1>3. \A e \in all : [tick |-> t, id |-> e] \in records
  <2>1. ASSUME NEW b \in old, NEW e \in b.ids
        PROVE  [tick |-> t, id |-> e] \in records
    <3>1. b \in buffer /\ b.tick = t OBVIOUS
    <3>q. QED BY <3>1 DEF BufferFit
  <2>q. QED BY <2>1
<1> HIDE DEF all
<1>4. new.tick = t /\ new.ids = all /\ new \in [tick : Ticks, ids : SUBSET Actors]
  BY <1>2
<1> HIDE DEF new
<1>5. IsFiniteSet(M)
  <2>1. IsFiniteSet(buffer \ old) BY FS_Subset DEF BufferFit
  <2>q. QED BY <2>1, FS_AddElement
<1>6. M \subseteq [tick : Ticks, ids : SUBSET Actors] BY <1>4
<1>7. \A b, c \in M : b.tick = c.tick => b = c BY <1>4 DEF BufferFit
<1>8. \A b \in M : \A e \in b.ids : [tick |-> b.tick, id |-> e] \in records
  BY <1>3, <1>4 DEF BufferFit
<1>9. \A b \in M : b.tick \in Nat
  BY <1>6, ReplicationAssumption DEF Ticks
<1>10. MaxBuffered \in Nat \ {0} BY ReplicationAssumption
<1> HIDE DEF M
<1>11. IsFiniteSet(S) /\ Cardinality(S) <= MaxBuffered
  BY <1>5, <1>7, <1>9, <1>10, NewestAreFew
<1>12. S \subseteq M OBVIOUS
<1> HIDE DEF S
<1>q. QED BY <1>1, <1>6, <1>7, <1>8, <1>11, <1>12

-----------------------------------------------------------------------------
(* The steps of the server.                                                *)

LEMMA KindStays ==
  ASSUME kind' = kind
  PROVE  Actors' = Actors /\ Projectiles' = Projectiles
BY DEF Actors, Projectiles

LEMMA EntityFacts ==
  ASSUME ReplicationTypeOK
  PROVE  /\ Actors \subseteq Entities /\ Projectiles \subseteq Entities
         /\ Actors \cap Projectiles = {}
         /\ \A e \in Entities : e \in Actors \/ e \in Projectiles \/ e = Player
         /\ Player \notin Actors /\ Player \notin Projectiles
         /\ tick \in Nat /\ MaxTick \in Nat /\ tick <= MaxTick
BY ReplicationAssumption
   DEF ReplicationTypeOK, Actors, Projectiles, Entities, Ticks

\* The server only adds to the queues and to the records.
LEMMA ServerStep ==
  ASSUME Inv, kind' = kind, UNCHANGED clientVars,
         tick' \in Ticks, tick <= tick',
         world' \in [Entities -> {"unborn", "hidden", "alive", "gone"}],
         band' \in [Entities -> {"near", "edge", "far"}],
         relevant' \subseteq Entities, lost' \subseteq Projectiles,
         abandoned' \subseteq {e \in Others : world'[e] = "gone"} \ relevant',
         channel' \in [Entities -> Seq(Messages)],
         \A e \in Entities : Len(channel'[e]) <= MaxQueued,
         records \subseteq records',
         records' \subseteq [tick : Ticks, id : Entities \ Projectiles],
         \A x \in records' : x.tick <= tick,
         \A e \in Entities :
           Fit(Projectiles, e, world'[e], Told', channel'[e], records',
               held[e], tombstone[e], deferred),
         \A e \in Entities : \A i \in 1..Len(channel[e]) :
           i \in 1..Len(channel'[e]) /\ channel'[e][i] = channel[e][i]
  PROVE  Inv'
<1>1. /\ Actors' = Actors /\ Projectiles' = Projectiles
      /\ held' = held /\ tombstone' = tombstone /\ deferred' = deferred
      /\ renderTick' = renderTick /\ latest' = latest /\ buffer' = buffer
      /\ reported' = reported
  BY KindStays DEF clientVars
<1>2. ReplicationTypeOK' BY <1>1 DEF Inv, ReplicationTypeOK
<1>3. AllFit' BY <1>1 DEF AllFit
<1>4. BufferFit' BY <1>1 DEF Inv, BufferFit
<1>5. SentInPast'
  <2>1. tick \in Nat /\ tick' \in Nat /\ \A x \in records' : x.tick \in Nat
    BY ReplicationAssumption DEF Inv, ReplicationTypeOK, Ticks
  <2>q. QED BY <2>1 DEF SentInPast
<1>6. NoFalseAlarm'
  <2>1. ASSUME NEW e \in reported'
        PROVE  \E i \in 1..Len(channel'[e]) : channel'[e][i].kind = "spawn"
    <3>1. e \in reported /\ e \in Entities
      BY <1>1, EntityFacts DEF Inv, ReplicationTypeOK
    <3>2. PICK i \in 1..Len(channel[e]) : channel[e][i].kind = "spawn"
      BY <3>1 DEF Inv, NoFalseAlarm
    <3>3. i \in 1..Len(channel'[e]) /\ channel'[e][i] = channel[e][i] BY <3>1
    <3>q. QED BY <3>2, <3>3
  <2>q. QED BY <2>1 DEF NoFalseAlarm
<1>q. QED BY <1>2, <1>3, <1>4, <1>5, <1>6 DEF Inv

\* A handler leaves the world w, the set shown and the queues chan behind and
\* publishes.
LEMMA PublishStep ==
  ASSUME Inv, kind' = kind, UNCHANGED clientVars, UNCHANGED band,
         tick' \in Ticks, tick <= tick',
         NEW w \in [Entities -> {"unborn", "hidden", "alive", "gone"}],
         world' = w,
         NEW shown \in SUBSET Entities,
         abandoned' \subseteq {e \in Others : w[e] = "gone"} \ shown,
         NEW chan \in [Entities -> Seq(Messages)],
         \A e \in Entities : \A i \in 1..Len(channel[e]) :
           i \in 1..Len(chan[e]) /\ chan[e][i] = channel[e][i],
         \A e \in Entities :
           Fit(Projectiles, e, w[e], shown \cup abandoned', chan[e], records, held[e],
               tombstone[e], deferred),
         publish_snapshot(w, shown, chan)
  PROVE  Inv'
<1>1. /\ tick \in Ticks /\ lost \subseteq Projectiles
      /\ records \subseteq [tick : Ticks, id : Entities \ Projectiles]
      /\ SentInPast
  BY DEF Inv, ReplicationTypeOK
<1> DEFINE left == abandoned'
<1>l. Over(w, shown, left) BY DEF Over
<1>f. FitsAll(w, shown \cup left, chan, records) BY Zenon DEF FitsAll
<1> HIDE DEF left
<1>2. /\ relevant' \subseteq Entities /\ lost' \subseteq Projectiles
      /\ channel' \in [Entities -> Seq(Messages)]
      /\ \A e \in Entities : Len(channel'[e]) <= MaxQueued
      /\ records \subseteq records'
      /\ records' \subseteq [tick : Ticks, id : Entities \ Projectiles]
      /\ \A x \in records' : x.tick <= tick
      /\ FitsAll(w, relevant' \cup left, channel', records')
      /\ Over(w, relevant', left) /\ Longer(chan, channel')
  BY <1>1, <1>l, <1>f, PublishFits
<1>3. \A e \in Entities : \A i \in 1..Len(channel[e]) :
        i \in 1..Len(channel'[e]) /\ channel'[e][i] = channel[e][i]
  BY <1>2 DEF Longer
<1>4. band' \in [Entities -> {"near", "edge", "far"}] BY DEF Inv, ReplicationTypeOK
<1>5. \A e \in Entities :
        Fit(Projectiles, e, world'[e], Told', channel'[e], records', held[e],
            tombstone[e], deferred)
  BY <1>2, Zenon DEF FitsAll, Told, left
<1>6. abandoned' \subseteq {e \in Others : world'[e] = "gone"} \ relevant'
  BY <1>2 DEF Over, left
<1>q. QED BY <1>2, <1>3, <1>4, <1>5, <1>6, ServerStep

\* Entities may come to life or go before the session has heard of it.
LEMMA WorldMoves ==
  ASSUME Inv, NEW w, \A e \in Entities : world[e] = "gone" => w[e] = "gone"
  PROVE  \A e \in Entities :
           Fit(Projectiles, e, w[e], Told, channel[e], records, held[e],
               tombstone[e], deferred)
<1> TAKE e \in Entities
<1>1. Fit(Projectiles, e, world[e], Told, channel[e], records, held[e],
          tombstone[e], deferred) BY DEF Inv, AllFit
<1>2. world[e] = "gone" => w[e] = "gone" OBVIOUS
<1>3. Ends(Projectiles, e, w[e], channel[e], held[e], tombstone[e], deferred)
  BY <1>1, <1>2 DEF Fit, Ends
<1>q. QED BY <1>1, <1>3 DEF Fit

\* A handler that publishes with the session and the queues as they were.
LEMMA PublishAfter ==
  ASSUME Inv, kind' = kind, UNCHANGED clientVars, UNCHANGED band,
         UNCHANGED abandoned, tick' \in Ticks, tick <= tick',
         NEW w \in [Entities -> {"unborn", "hidden", "alive", "gone"}],
         world' = w,
         \A e \in Entities : world[e] = "gone" => w[e] = "gone",
         publish_snapshot(w, relevant, channel)
  PROVE  Inv'
<1>1. \A e \in Entities :
        Fit(Projectiles, e, w[e], relevant \cup abandoned', channel[e], records,
            held[e], tombstone[e], deferred)
  BY WorldMoves DEF Told
<1>2. /\ relevant \in SUBSET Entities /\ channel \in [Entities -> Seq(Messages)]
      /\ Others \subseteq Entities
      /\ abandoned \subseteq {e \in Others : world[e] = "gone"} \ relevant
  BY DEF Inv, ReplicationTypeOK, Entities
<1>3. abandoned' \subseteq {e \in Others : w[e] = "gone"} \ relevant BY <1>2
<1>4. \A e \in Entities : \A i \in 1..Len(channel[e]) :
        i \in 1..Len(channel[e]) /\ channel[e][i] = channel[e][i]
  OBVIOUS
<1>q. QED BY <1>1, <1>2, <1>3, <1>4, PublishStep

LEMMA SnapshotTickStep == ASSUME Inv, SnapshotTick PROVE Inv'
<1>1. PICK released \in SUBSET {e \in Entities : world[e] = "hidden"} :
        LET w == [e \in Entities |-> IF e \in released THEN "alive" ELSE world[e]]
        IN world' = w /\ publish_snapshot(w, relevant, channel)
  BY DEF SnapshotTick
<1> DEFINE w == [e \in Entities |-> IF e \in released THEN "alive" ELSE world[e]]
<1>2. world' = w /\ publish_snapshot(w, relevant, channel) BY <1>1
<1>3. w \in [Entities -> {"unborn", "hidden", "alive", "gone"}]
  BY DEF Inv, ReplicationTypeOK
<1>4. \A e \in Entities : world[e] = "gone" => w[e] = "gone" OBVIOUS
<1> HIDE DEF w
<1>5. /\ kind' = kind /\ UNCHANGED clientVars /\ UNCHANGED band
      /\ UNCHANGED abandoned /\ tick' \in Ticks /\ tick <= tick'
  BY EntityFacts DEF SnapshotTick, Inv, ReplicationTypeOK, Ticks
<1>q. QED BY <1>2, <1>3, <1>4, <1>5, PublishAfter

LEMMA SnapshotWithinTickStep == ASSUME Inv, SnapshotWithinTick PROVE Inv'
<1>1. /\ kind' = kind /\ UNCHANGED clientVars /\ UNCHANGED band
      /\ UNCHANGED abandoned /\ tick' \in Ticks /\ tick <= tick' /\ world' = world
      /\ publish_snapshot(world, relevant, channel)
      /\ world \in [Entities -> {"unborn", "hidden", "alive", "gone"}]
  BY EntityFacts DEF SnapshotWithinTick, Inv, ReplicationTypeOK, Ticks
<1>q. QED BY <1>1, PublishAfter

\* Nothing is said to anyone.
LEMMA SilentStep ==
  ASSUME Inv, UNCHANGED <<kind, relevant, lost, abandoned, channel, records, clientVars>>,
         tick' \in Ticks, tick <= tick',
         world' \in [Entities -> {"unborn", "hidden", "alive", "gone"}],
         band' \in [Entities -> {"near", "edge", "far"}],
         \A e \in Entities : world[e] = "gone" => world'[e] = "gone"
  PROVE  Inv'
<1>1. \A e \in Entities :
        Fit(Projectiles, e, world'[e], Told', channel'[e], records', held[e],
            tombstone[e], deferred) BY WorldMoves DEF Told
<1>a. abandoned' \subseteq {e \in Others : world'[e] = "gone"} \ relevant'
  BY DEF Inv, ReplicationTypeOK, Entities
<1>2. /\ kind' = kind /\ UNCHANGED clientVars
      /\ relevant' \subseteq Entities /\ lost' \subseteq Projectiles
      /\ channel' \in [Entities -> Seq(Messages)]
      /\ \A e \in Entities : Len(channel'[e]) <= MaxQueued
      /\ records \subseteq records'
      /\ records' \subseteq [tick : Ticks, id : Entities \ Projectiles]
      /\ \A x \in records' : x.tick <= tick
      /\ \A e \in Entities : \A i \in 1..Len(channel[e]) :
           i \in 1..Len(channel'[e]) /\ channel'[e][i] = channel[e][i]
  BY DEF Inv, ReplicationTypeOK, SentInPast
<1>q. QED BY <1>1, <1>2, <1>a, ServerStep

LEMMA QuietSteps ==
  ASSUME Inv, NEW e \in Entities,
         PlainTick \/ SpawnProjectile(e) \/ Move(e)
  PROVE  Inv'
<1>1. /\ world \in [Entities -> {"unborn", "hidden", "alive", "gone"}]
      /\ band \in [Entities -> {"near", "edge", "far"}]
      /\ tick \in Nat /\ MaxTick \in Nat /\ tick <= MaxTick /\ tick \in Ticks
  BY EntityFacts DEF Inv, ReplicationTypeOK
<1>2. UNCHANGED <<kind, relevant, lost, abandoned, channel, records, clientVars>>
  BY DEF PlainTick, SpawnProjectile, Move
<1>3. tick' \in Ticks /\ tick <= tick'
  BY <1>1 DEF PlainTick, SpawnProjectile, Move, Ticks
<1>4. /\ world' \in [Entities -> {"unborn", "hidden", "alive", "gone"}]
      /\ \A f \in Entities : world[f] = "gone" => world'[f] = "gone"
  BY <1>1 DEF PlainTick, SpawnProjectile, Move
<1>5. band' \in [Entities -> {"near", "edge", "far"}]
  BY <1>1 DEF PlainTick, SpawnProjectile, Move
<1>q. QED BY <1>2, <1>3, <1>4, <1>5, SilentStep

LEMMA CreateStep ==
  ASSUME Inv, NEW e \in Entities, create_entity(e)
  PROVE  Inv'
<1> DEFINE w == [world EXCEPT ![e] = IF e \in Actors THEN "hidden" ELSE "alive"]
<1>1. world' = w /\ publish_snapshot(w, relevant, channel) /\ world[e] = "unborn"
  BY DEF create_entity
<1>2. /\ w \in [Entities -> {"unborn", "hidden", "alive", "gone"}]
      /\ \A f \in Entities : world[f] = "gone" => w[f] = "gone"
  BY <1>1 DEF Inv, ReplicationTypeOK
<1> HIDE DEF w
<1>3. /\ kind' = kind /\ UNCHANGED clientVars /\ UNCHANGED band
      /\ UNCHANGED abandoned /\ tick' \in Ticks /\ tick <= tick'
  BY EntityFacts DEF create_entity, Inv, ReplicationTypeOK, Ticks
<1>q. QED BY <1>1, <1>2, <1>3, PublishAfter

LEMMA LeaveStep ==
  ASSUME Inv, NEW e \in Entities, Leave(e)
  PROVE  Inv'
<1> DEFINE w == [world EXCEPT ![e] = "gone"]
<1>1. world' = w /\ publish_snapshot(w, relevant, channel) BY DEF Leave
<1>2. /\ w \in [Entities -> {"unborn", "hidden", "alive", "gone"}]
      /\ \A f \in Entities : world[f] = "gone" => w[f] = "gone"
  BY DEF Inv, ReplicationTypeOK
<1> HIDE DEF w
<1>3. /\ kind' = kind /\ UNCHANGED clientVars /\ UNCHANGED band
      /\ UNCHANGED abandoned /\ tick' \in Ticks /\ tick <= tick'
  BY EntityFacts DEF Leave, Inv, ReplicationTypeOK, Ticks
<1>q. QED BY <1>1, <1>2, <1>3, PublishAfter

\* What a destruction does to the queues and to those left behind, whether the
\* connection takes it or not.
LEMMA EndingFits ==
  ASSUME Inv, NEW e \in Others, world[e] # "gone",
         NEW tracked, relevant \subseteq tracked,
         NEW chan \in Ending(e, e \in tracked)
  PROVE  /\ chan \in [Entities -> Seq(Messages)]
         /\ \A f \in Entities : \A i \in 1..Len(channel[f]) :
              i \in 1..Len(chan[f]) /\ chan[f][i] = channel[f][i]
         /\ \A f \in Entities : f # e => chan[f] = channel[f]
         /\ LeftBehind(e, chan) \subseteq
              {f \in Others : [world EXCEPT ![e] = "gone"][f] = "gone"}
                \ (relevant \ {e})
         /\ \A f \in Entities :
              Fit(Projectiles, f, [world EXCEPT ![e] = "gone"][f],
                  (relevant \ {e}) \cup LeftBehind(e, chan), chan[f], records,
                  held[f], tombstone[f], deferred)
<1> DEFINE m == Despawn(tick, "Ended")
           w == [world EXCEPT ![e] = "gone"]
           told == (relevant \ {e}) \cup LeftBehind(e, chan)
           FitsNow(f, v, s) == Fit(Projectiles, f, v, told, s, records,
                                   held[f], tombstone[f], deferred)
<1>1. /\ channel \in [Entities -> Seq(Messages)] /\ tick \in Ticks /\ tick \in Nat
      /\ world \in [Entities -> {"unborn", "hidden", "alive", "gone"}]
      /\ records \subseteq [tick : Ticks, id : Entities \ Projectiles]
      /\ abandoned \subseteq {f \in Others : world[f] = "gone"} \ relevant
      /\ e \in Entities /\ Others \subseteq Entities
  BY EntityFacts DEF Inv, ReplicationTypeOK, Entities
<1>2. m \in Messages /\ "Ended" \in Reasons BY <1>1, MessageFacts DEF Reasons
<1>3. \A f \in Entities :
        Fit(Projectiles, f, world[f], Told, channel[f], records, held[f],
            tombstone[f], deferred) BY DEF Inv, AllFit
<1>a. e \notin abandoned BY <1>1
<1>t. /\ \A f \in Entities : f # e => (f \in told <=> f \in Told)
      /\ e \in told <=> e \in relevant /\ chan[e] = channel[e]
      /\ e \in Told <=> e \in relevant
  BY <1>a DEF LeftBehind, Told
<1>w. \A f \in Entities : w[f] = IF f = e THEN "gone" ELSE world[f] BY <1>1
<1>l. LeftBehind(e, chan) \subseteq {f \in Others : w[f] = "gone"} \ (relevant \ {e})
  BY <1>1, <1>w DEF LeftBehind
<1> HIDE DEF told, w
<1>4. ASSUME NEW f \in Entities, f # e PROVE FitsNow(f, w[f], channel[f])
  <2>1. w[f] = world[f] /\ (f \in told <=> f \in Told) BY <1>4, <1>t, <1>w
  <2>2. \A x \in records : x.id = f => x \in records OBVIOUS
  <2>q. QED BY <1>3, <2>1, <2>2, FitAside
<1>5. w[e] = "gone" BY <1>1, <1>w
\* Nothing was said: unlooked at, the session had it shown or not.
<1>6. CASE chan = channel
  <2>1. e \in told <=> e \in Told BY <1>6, <1>t
  <2>2. FitsNow(e, "gone", channel[e])
    <3>1. Fit(Projectiles, e, world[e], Told, channel[e], records, held[e],
              tombstone[e], deferred) BY <1>1, <1>3
    <3>2. Ends(Projectiles, e, "gone", channel[e], held[e], tombstone[e], deferred)
      BY <3>1 DEF Fit, Ends
    <3>3. Tracked(Projectiles, e, told, channel[e], held[e], deferred)
      BY <3>1, <2>1 DEF Fit, Tracked
    <3>q. QED BY <3>1, <3>2, <3>3 DEF Fit
  <2>q. QED BY <1>1, <1>4, <1>5, <1>6, <1>l, <2>2 DEF w, told
<1>7. CASE chan = [channel EXCEPT ![e] = Append(@, m)]
  <2>2. /\ Append(channel[e], m) \in Seq(Messages)
        /\ Append(channel[e], m) # channel[e]
        /\ \A i \in 1..Len(channel[e]) :
             /\ i \in 1..Len(Append(channel[e], m))
             /\ Append(channel[e], m)[i] = channel[e][i]
    <3>1. channel[e] \in Seq(Messages) BY <1>1
    <3>2. /\ Append(channel[e], m) \in Seq(Messages) /\ Len(channel[e]) \in Nat
          /\ Len(Append(channel[e], m)) = Len(channel[e]) + 1
          /\ \A i \in 1..Len(channel[e]) : Append(channel[e], m)[i] = channel[e][i]
      BY <3>1, <1>2, AppendFacts
    <3>3. Len(Append(channel[e], m)) # Len(channel[e]) BY <3>2
    <3>q. QED BY <3>2, <3>3
  <2>3. /\ chan \in [Entities -> Seq(Messages)]
        /\ chan[e] = Append(channel[e], m)
        /\ \A f \in Entities : f # e => chan[f] = channel[f]
    BY <1>1, <1>7, <2>2
  <2>4. \A x \in records : x.id = e => x.tick \in Nat /\ x.tick <= tick
    BY <1>1, ReplicationAssumption DEF Inv, SentInPast, Ticks
  <2>5. FitsNow(e, "gone", Append(channel[e], m))
    <3>1. channel[e] \in Seq(Messages) /\ e \notin told BY <1>1, <1>t, <2>2, <2>3
    <3>2. Fit(Projectiles, e, world[e], Told, channel[e], records, held[e],
              tombstone[e], deferred) BY <1>1, <1>3
    <3>q. QED BY <1>1, <1>2, <2>4, <3>1, <3>2, FitDespawn
  <2>6. \A f \in Entities : FitsNow(f, w[f], chan[f])
    BY <1>4, <1>5, <2>3, <2>5
  <2>7. \A f \in Entities : \A i \in 1..Len(channel[f]) :
          i \in 1..Len(chan[f]) /\ chan[f][i] = channel[f][i]
    <3> TAKE f \in Entities
    <3>1. CASE f = e BY <2>2, <2>3, <3>1
    <3>2. CASE f # e BY <2>3, <3>2
    <3>q. QED BY <3>1, <3>2
  <2>q. QED BY <2>3, <2>6, <2>7, <1>l DEF w, told
<1>q. QED BY <1>6, <1>7 DEF Ending

LEMMA DestroyStep ==
  ASSUME Inv, NEW e \in Entities, destroy_entity(e)
  PROVE  Inv'
<1> DEFINE w == [world EXCEPT ![e] = "gone"]
<1>1. PICK chan \in Ending(e, e \in relevant) :
        /\ world' = w /\ abandoned' = LeftBehind(e, chan)
        /\ publish_snapshot(w, relevant \ {e}, chan)
  BY DEF destroy_entity
<1>2. world[e] # "gone" /\ e \in Others BY DEF destroy_entity, Actors
<1>3. /\ chan \in [Entities -> Seq(Messages)]
      /\ \A f \in Entities : \A i \in 1..Len(channel[f]) :
           i \in 1..Len(chan[f]) /\ chan[f][i] = channel[f][i]
      /\ abandoned' \subseteq {f \in Others : w[f] = "gone"} \ (relevant \ {e})
      /\ \A f \in Entities :
           Fit(Projectiles, f, w[f], (relevant \ {e}) \cup abandoned', chan[f],
               records, held[f], tombstone[f], deferred)
  <2>1. relevant \subseteq relevant /\ chan \in Ending(e, e \in relevant) OBVIOUS
  <2>2. /\ chan \in [Entities -> Seq(Messages)]
        /\ \A f \in Entities : \A i \in 1..Len(channel[f]) :
             i \in 1..Len(chan[f]) /\ chan[f][i] = channel[f][i]
        /\ \A f \in Entities : f # e => chan[f] = channel[f]
        /\ LeftBehind(e, chan) \subseteq
             {f \in Others : w[f] = "gone"} \ (relevant \ {e})
        /\ \A f \in Entities :
             Fit(Projectiles, f, w[f], (relevant \ {e}) \cup LeftBehind(e, chan),
                 chan[f], records, held[f], tombstone[f], deferred)
    BY <1>2, <2>1, EndingFits
  <2>3. abandoned' = LeftBehind(e, chan) BY <1>1
  <2>q. QED BY <2>2, <2>3, Zenon
<1>4. w \in [Entities -> {"unborn", "hidden", "alive", "gone"}]
  BY DEF Inv, ReplicationTypeOK
<1> HIDE DEF w
<1>5. /\ kind' = kind /\ UNCHANGED clientVars /\ UNCHANGED band
      /\ tick' \in Ticks /\ tick <= tick'
  BY EntityFacts DEF destroy_entity, Inv, ReplicationTypeOK, Ticks
<1>6. relevant \ {e} \in SUBSET Entities BY DEF Inv, ReplicationTypeOK
<1>q. QED BY <1>1, <1>3, <1>4, <1>5, <1>6, PublishStep

LEMMA FinalizeStep ==
  ASSUME Inv, NEW e \in Entities, finalize_projectile(e)
  PROVE  Inv'
<1> DEFINE w == [world EXCEPT ![e] = "gone"]
<1>1. /\ world' = w /\ channel' \in Ending(e, e \in relevant \cup lost)
      /\ Len(channel'[e]) <= MaxQueued /\ abandoned' = LeftBehind(e, channel')
      /\ relevant' = relevant \ {e} /\ lost' = lost \ {e}
      /\ world[e] # "gone" /\ kind' = kind /\ UNCHANGED clientVars
      /\ tick' = tick /\ band' = band /\ records' = records /\ e \in Others
  BY DEF finalize_projectile, Projectiles
<1>2. relevant \subseteq relevant \cup lost OBVIOUS
<1>3. /\ channel' \in [Entities -> Seq(Messages)]
      /\ \A f \in Entities : \A i \in 1..Len(channel[f]) :
           i \in 1..Len(channel'[f]) /\ channel'[f][i] = channel[f][i]
      /\ \A f \in Entities : f # e => channel'[f] = channel[f]
      /\ abandoned' \subseteq {f \in Others : w[f] = "gone"} \ (relevant \ {e})
      /\ \A f \in Entities :
           Fit(Projectiles, f, w[f], (relevant \ {e}) \cup abandoned', channel'[f],
               records, held[f], tombstone[f], deferred)
  <2> DEFINE chan == channel'
  <2>1. chan \in Ending(e, e \in relevant \cup lost) BY <1>1
  <2> HIDE DEF chan
  <2>2. /\ chan \in [Entities -> Seq(Messages)]
        /\ \A f \in Entities : \A i \in 1..Len(channel[f]) :
             i \in 1..Len(chan[f]) /\ chan[f][i] = channel[f][i]
        /\ \A f \in Entities : f # e => chan[f] = channel[f]
        /\ LeftBehind(e, chan) \subseteq
             {f \in Others : w[f] = "gone"} \ (relevant \ {e})
        /\ \A f \in Entities :
             Fit(Projectiles, f, w[f], (relevant \ {e}) \cup LeftBehind(e, chan),
                 chan[f], records, held[f], tombstone[f], deferred)
    BY <1>1, <1>2, <2>1, EndingFits
  <2>q. QED BY <1>1, <2>2, Zenon DEF chan
<1>4. w \in [Entities -> {"unborn", "hidden", "alive", "gone"}]
  BY DEF Inv, ReplicationTypeOK
<1>5. \A f \in Entities : Len(channel'[f]) <= MaxQueued
  BY <1>1, <1>3 DEF Inv, ReplicationTypeOK
<1> HIDE DEF w
<1>6. /\ tick \in Nat /\ tick' \in Ticks /\ tick <= tick'
      /\ band' \in [Entities -> {"near", "edge", "far"}]
      /\ relevant' \subseteq Entities /\ lost' \subseteq Projectiles
      /\ records \subseteq records'
      /\ records' \subseteq [tick : Ticks, id : Entities \ Projectiles]
      /\ \A x \in records' : x.tick <= tick
  BY <1>1, EntityFacts DEF Inv, ReplicationTypeOK, SentInPast
<1>7. \A f \in Entities :
        Fit(Projectiles, f, world'[f], Told', channel'[f], records', held[f],
            tombstone[f], deferred)
  BY <1>1, <1>3 DEF Told
<1>8. abandoned' \subseteq {f \in Others : world'[f] = "gone"} \ relevant'
  BY <1>1, <1>3
<1>q. QED BY <1>1, <1>3, <1>4, <1>5, <1>6, <1>7, <1>8, ServerStep

-----------------------------------------------------------------------------
(* The steps of the client.                                                *)

Tombstones == [tick : Ticks, reason : Reasons] \cup {NoTombstone}

\* What handling a message, or releasing a deferred end, comes to.
LEMMA ClientStep ==
  ASSUME Inv, UNCHANGED <<serverVars, records, latest, buffer>>,
         renderTick' \in Ticks,
         channel' \in [Entities -> Seq(Messages)],
         \A e \in Entities : Len(channel'[e]) <= MaxQueued,
         held' \in [Entities -> {"no", "spawned", "complete"}],
         tombstone' \in [Entities -> Tombstones],
         deferred' \subseteq [id : Entities, tick : Ticks],
         reported' \subseteq reported,
         \A e \in reported' : channel'[e] = channel[e],
         \A e \in Entities :
           Fit(Projectiles, e, world[e], Told, channel'[e], records, held'[e],
               tombstone'[e], deferred')
  PROVE  Inv'
<1>1. /\ kind' = kind /\ tick' = tick /\ world' = world /\ band' = band
      /\ relevant' = relevant /\ lost' = lost /\ abandoned' = abandoned
      /\ Told' = Told
      /\ records' = records /\ latest' = latest /\ buffer' = buffer
      /\ Actors' = Actors /\ Projectiles' = Projectiles
  BY KindStays DEF serverVars, Told
<1>2. ReplicationTypeOK' BY <1>1 DEF Inv, ReplicationTypeOK, Tombstones
<1>3. AllFit' BY <1>1 DEF AllFit
<1>4. BufferFit' BY <1>1 DEF Inv, BufferFit
<1>5. SentInPast' BY <1>1 DEF Inv, SentInPast
<1>6. NoFalseAlarm' BY DEF Inv, NoFalseAlarm
<1>q. QED BY <1>2, <1>3, <1>4, <1>5, <1>6 DEF Inv

LEMMA ReceiveStep ==
  ASSUME Inv, NEW e \in Entities, Receive(e)
  PROVE  Inv'
<1> DEFINE q == channel[e]
           m == Head(q)
           P == Projectiles
<1>1. /\ q # <<>> /\ channel' = [channel EXCEPT ![e] = Tail(@)]
      /\ \/ m.kind = "spawn" /\ handle_client_spawn(e, m)
         \/ m.kind = "batch" /\ handle_client_projectile_spawn_batch(e)
         \/ m.kind = "despawn" /\ handle_client_despawn(e, m)
      /\ UNCHANGED <<serverVars, records, latest, buffer>>
      /\ renderTick' = renderTick
  BY DEF Receive
<1>2. /\ channel \in [Entities -> Seq(Messages)] /\ q \in Seq(Messages)
      /\ held \in [Entities -> {"no", "spawned", "complete"}]
      /\ tombstone \in [Entities -> Tombstones]
      /\ deferred \subseteq [id : Entities, tick : Ticks]
      /\ renderTick \in Ticks /\ reported \subseteq Actors
      /\ records \subseteq [tick : Ticks, id : Entities \ P]
      /\ \A f \in Entities : Len(channel[f]) <= MaxQueued
  BY DEF Inv, ReplicationTypeOK, Tombstones
<1>3. /\ Tail(q) \in Seq(Messages) /\ m \in Messages /\ Len(q) \in Nat
      /\ Len(Tail(q)) = Len(q) - 1
  BY <1>1, <1>2, TailFacts
<1>4. /\ channel' \in [Entities -> Seq(Messages)] /\ channel'[e] = Tail(q)
      /\ \A f \in Entities : f # e => channel'[f] = channel[f]
  BY <1>1, <1>2, <1>3
<1>5. \A f \in Entities : Len(channel'[f]) <= MaxQueued
  <2> TAKE f \in Entities
  <2>1. CASE f = e
    <3>1. Len(q) <= MaxQueued /\ MaxQueued \in Nat
      BY <1>2, ReplicationAssumption
    <3>q. QED BY <1>3, <1>4, <2>1, <3>1
  <2>2. CASE f # e BY <1>2, <1>4, <2>2
  <2>q. QED BY <2>1, <2>2
<1>6. \A f \in Entities :
        Fit(P, f, world[f], Told, channel[f], records, held[f], tombstone[f],
            deferred) BY DEF Inv, AllFit
<1>7. Fit(P, e, world[e], Told, q, records, held[e], tombstone[e], deferred)
  BY <1>6
<1>8. \A x \in records : x.tick \in Nat /\ x.id \notin P
  BY <1>2, ReplicationAssumption DEF Ticks
<1>9. /\ m.tick \in Ticks /\ m.kind \in {"spawn", "batch", "despawn"}
      /\ m.kind = "despawn" => m.reason \in Reasons
  BY <1>3, KindFacts DEF Reasons
<1>10. NoTombstone \in Tombstones BY DEF Tombstones
<1>11. /\ tombstone[e].reason # "Ended"
       /\ IsEnding(m) => Tail(q) = <<>> /\ world[e] = "gone"
  <2> HIDE DEF q, P
  <2>1. /\ tombstone[e].reason # "Ended"
        /\ IsEnding(Head(q)) => Tail(q) = <<>> /\ world[e] = "gone"
    BY <1>1, <1>2, <1>7, FitTail, ZenonT(30)
  <2>q. QED BY <2>1
<1> HIDE DEF q, m, P
\* What one handler must come to.
<1>12. ASSUME held' \in [Entities -> {"no", "spawned", "complete"}],
              tombstone' \in [Entities -> Tombstones],
              deferred' \subseteq [id : Entities, tick : Ticks],
              reported' \subseteq reported, e \notin reported',
              \A f \in Entities : f # e => /\ held'[f] = held[f]
                                           /\ tombstone'[f] = tombstone[f],
              \A f \in Entities : f # e =>
                (\E d \in deferred' : d.id = f) <=> (\E d \in deferred : d.id = f),
              Fit(P, e, world[e], Told, Tail(q), records, held'[e],
                  tombstone'[e], deferred')
       PROVE  Inv'
  <2>1. \A f \in reported' : channel'[f] = channel[f]
    <3>1. Actors \subseteq Entities BY EntityFacts DEF Inv
    <3>q. QED BY <1>2, <1>4, <1>12, <3>1
  <2>2. ASSUME NEW f \in Entities
        PROVE  Fit(Projectiles, f, world[f], Told, channel'[f], records,
                   held'[f], tombstone'[f], deferred')
    <3>1. CASE f = e BY <1>4, <1>12, <3>1 DEF P
    <3>2. CASE f # e
      <4>1. /\ channel'[f] = channel[f] /\ held'[f] = held[f]
            /\ tombstone'[f] = tombstone[f]
        BY <1>4, <1>12, <3>2
      <4>2. (\E d \in deferred' : d.id = f) <=> (\E d \in deferred : d.id = f)
        BY <1>12, <3>2
      <4>3. Fit(P, f, world[f], Told, channel[f], records, held[f],
                tombstone[f], deferred) BY <1>6
      <4>4. /\ world[f] = "gone" => world[f] = "gone"
            /\ f \in Told <=> f \in Told
            /\ \A x \in records : x.id = f => x \in records
        OBVIOUS
      <4>5. Fit(P, f, world[f], Told, channel[f], records, held[f],
                tombstone[f], deferred') BY <4>2, <4>3, <4>4, FitSame
      <4>q. QED BY <4>1, <4>5 DEF P
    <3>q. QED BY <3>1, <3>2
  <2>3. renderTick' \in Ticks BY <1>1, <1>2
  <2>q. QED BY <1>1, <1>4, <1>5, <1>12, <2>1, <2>2, <2>3, ClientStep
<1>13. CASE m.kind = "spawn"
  <2>1. handle_client_spawn(e, m) BY <1>1, <1>13
  <2>2. LiftsTombstone(e, m.tick)
    <3>1. tombstone[e].reason \in {"none", "OutOfRange"}
      BY <1>2, <1>11 DEF Tombstones, NoTombstone, Reasons
    <3>q. QED BY <3>1 DEF LiftsTombstone
  <2>3. /\ tombstone' = [tombstone EXCEPT ![e] = NoTombstone]
        /\ held' = [held EXCEPT ![e] = IF e \in P THEN "spawned" ELSE "complete"]
        /\ reported' = reported \ {e} /\ deferred' = deferred
    BY <2>1, <2>2 DEF handle_client_spawn, P
  <2>4. Fit(P, e, world[e], Told, Tail(q), records,
            IF e \in P THEN "spawned" ELSE "complete", NoTombstone, deferred)
    <3>1. m.kind \in {"spawn", "batch"} BY <1>13
    <3>q. QED BY <1>1, <1>2, <1>7, <1>13, <3>1, FitShow DEF m
  <2>5. /\ held'[e] = IF e \in P THEN "spawned" ELSE "complete"
        /\ tombstone'[e] = NoTombstone
    BY <1>2, <2>3
  <2>q. QED BY <1>2, <1>10, <1>12, <2>3, <2>4, <2>5
<1>14. CASE m.kind = "batch"
  <2>1. /\ held' = [held EXCEPT ![e] = "complete"] /\ reported' = reported \ {e}
        /\ tombstone' = tombstone /\ deferred' = deferred
    BY <1>1, <1>14 DEF handle_client_projectile_spawn_batch
  <2>2. Fit(P, e, world[e], Told, Tail(q), records, "complete", tombstone[e],
            deferred)
    <3>1. m.kind \in {"spawn", "batch"} /\ m.kind # "spawn" BY <1>14
    <3>q. QED BY <1>1, <1>2, <1>7, <3>1, FitShow DEF m
  <2>3. held'[e] = "complete" BY <1>2, <2>1
  <2>q. QED BY <1>2, <1>12, <2>1, <2>2, <2>3
<1>15. CASE m.kind = "despawn" /\ Defers(e, m)
  <2>1. /\ deferred' = deferred \cup {[id |-> e, tick |-> m.tick]}
        /\ held' = held /\ tombstone' = tombstone /\ reported' = reported
    BY <1>1, <1>15 DEF handle_client_despawn
  <2>2. IsEnding(m) /\ e \in P
    BY <1>9, <1>15 DEF Defers, IsEnding, Reasons, P
  <2>3. Fit(P, e, world[e], Told, Tail(q), records, held[e], tombstone[e],
            deferred \cup {[id |-> e, tick |-> m.tick]})
    <3>1. \A x \in records : x.id # e BY <1>8, <2>2
    <3>q. QED BY <1>1, <1>2, <1>7, <2>2, <3>1, FitDefer DEF m
  <2>4. e \notin reported'
    BY <1>2, <2>1, <2>2, EntityFacts DEF Inv, P
  <2>5. deferred' \subseteq [id : Entities, tick : Ticks] BY <1>2, <1>9, <2>1
  <2>6. \A f \in Entities : f # e =>
          (\E d \in deferred' : d.id = f) <=> (\E d \in deferred : d.id = f)
    BY <2>1
  <2>q. QED BY <1>2, <1>12, <2>1, <2>3, <2>4, <2>5, <2>6
<1>16. CASE m.kind = "despawn" /\ ~Defers(e, m)
  <2> DEFINE d0 == [id |-> e, tick |-> m.tick, reason |-> m.reason]
             ub == [tick |-> m.tick, reason |-> m.reason]
  <2>1. Forget({d0}) /\ deferred' = deferred
    BY <1>1, <1>16 DEF handle_client_despawn
  <2>2. d0.id = e /\ d0.tick = m.tick /\ d0.reason = m.reason OBVIOUS
  <2>3. /\ held' \in [Entities -> {"no", "spawned", "complete"}] /\ held'[e] = "no"
        /\ \A f \in Entities : f # e => held'[f] = held[f]
    BY <1>2, <2>1, <2>2 DEF Forget
  <2>4. (CHOOSE x \in {d0} : x.id = e) = d0 BY <2>2
  <2>5. /\ tombstone' = [f \in Entities |->
                           IF \E d \in {d0} : d.id = f
                           THEN LET d == CHOOSE x \in {d0} : x.id = f
                                IN [tick |-> d.tick, reason |-> d.reason]
                           ELSE tombstone[f]]
        /\ reported' = reported \ {d.id : d \in {d0}}
    BY <2>1 DEF Forget
  <2>6. tombstone'[e] = ub
    <3>1. \E d \in {d0} : d.id = e BY <2>2
    <3> HIDE DEF d0
    <3>q. QED BY <2>2, <2>4, <2>5, <3>1
  <2>7. \A f \in Entities : f # e => tombstone'[f] = tombstone[f]
    BY <2>2, <2>5
  <2>8. tombstone' \in [Entities -> Tombstones]
    <3>1. ub \in Tombstones BY <1>9, <1>16 DEF Tombstones
    <3>2. \A f \in Entities : tombstone'[f] \in Tombstones
      BY <1>2, <2>6, <2>7, <3>1
    <3>3. tombstone' = [f \in Entities |-> tombstone'[f]] BY <2>5
    <3>q. QED BY <3>2, <3>3
  <2>9. reported' \subseteq reported /\ e \notin reported' BY <2>2, <2>5
  <2>10. Fit(P, e, world[e], Told, Tail(q), records, "no", ub, deferred)
    <3>1. \A x \in records : x.id = e => x.tick \in Nat BY <1>8
    <3>q. QED BY <1>1, <1>2, <1>7, <1>16, <3>1, FitForget DEF m
  <2> HIDE DEF d0, ub
  <2>q. QED BY <1>2, <1>12, <2>1, <2>3, <2>6, <2>7, <2>8, <2>9, <2>10
<1>q. QED BY <1>9, <1>13, <1>14, <1>15, <1>16

LEMMA AdvanceRenderStep == ASSUME Inv, AdvanceRender PROVE Inv'
<1> DEFINE P == Projectiles
           due == {d \in deferred : d.tick <= renderTick + 1}
           End(d) == [id |-> d.id, tick |-> d.tick, reason |-> "Ended"]
           ends == {End(d) : d \in due}
<1>1. /\ renderTick' = renderTick + 1 /\ renderTick < tick
      /\ deferred' = deferred \ due /\ Forget(ends)
      /\ UNCHANGED <<serverVars, records, latest, buffer>> /\ channel' = channel
  BY DEF AdvanceRender
<1>2. /\ channel \in [Entities -> Seq(Messages)]
      /\ held \in [Entities -> {"no", "spawned", "complete"}]
      /\ tombstone \in [Entities -> Tombstones]
      /\ deferred \subseteq [id : Entities, tick : Ticks]
      /\ renderTick \in Ticks
      /\ \A f \in Entities : Len(channel[f]) <= MaxQueued
  BY DEF Inv, ReplicationTypeOK, Tombstones
<1>3. renderTick' \in Ticks BY <1>1, <1>2, EntityFacts DEF Inv, Ticks
<1>4. \A f \in Entities : (\E d \in ends : d.id = f) => (\E d \in due : d.id = f)
  <2>1. ASSUME NEW f \in Entities, NEW x \in ends, x.id = f
        PROVE  \E d \in due : d.id = f
    <3>1. PICK d \in due : x = End(d) OBVIOUS
    <3>2. d.id = f BY <2>1, <3>1
    <3>q. QED BY <3>2
  <2>q. QED BY <2>1
<1>e. ASSUME NEW f \in Entities, NEW d \in due, d.id = f
      PROVE  \E x \in ends : x.id = f
  <2>1. End(d) \in ends /\ End(d).id = f BY <1>e
  <2>q. QED BY <2>1
<1>5. \A d \in ends : d.tick \in Ticks /\ d.reason = "Ended" BY <1>2
<1>6. /\ held' = [f \in Entities |-> IF \E d \in ends : d.id = f THEN "no"
                                                                  ELSE held[f]]
      /\ tombstone' = [f \in Entities |->
                         IF \E d \in ends : d.id = f
                         THEN LET d == CHOOSE x \in ends : x.id = f
                              IN [tick |-> d.tick, reason |-> d.reason]
                         ELSE tombstone[f]]
      /\ reported' \subseteq reported
  BY <1>1 DEF Forget
<1>7. deferred' \subseteq deferred /\ due \subseteq deferred BY <1>1
<1> HIDE DEF ends
<1>8. \A f \in Entities :
        Fit(P, f, world[f], Told, channel[f], records, held[f], tombstone[f],
            deferred) BY DEF Inv, AllFit
<1>9. ASSUME NEW f \in Entities
      PROVE  /\ tombstone'[f] \in Tombstones
             /\ Fit(P, f, world[f], Told, channel[f], records, held'[f],
                    tombstone'[f], deferred')
  <2>0. channel[f] \in Seq(Messages) BY <1>2
  <2>1. CASE \E d \in ends : d.id = f
    <3> DEFINE d == CHOOSE x \in ends : x.id = f
    <3>1. d \in ends BY <2>1
    <3>2. tombstone'[f] = [tick |-> d.tick, reason |-> d.reason] /\ held'[f] = "no"
      BY <1>6, <2>1
    <3>3. d.tick \in Ticks /\ d.reason = "Ended" BY <1>5, <3>1
    <3> HIDE DEF d
    <3>4. tombstone'[f] = [tick |-> d.tick, reason |-> "Ended"] BY <3>2, <3>3
    <3>5. tombstone'[f] \in Tombstones BY <3>3, <3>4 DEF Tombstones, Reasons
    <3>6. \E x \in deferred : x.id = f BY <1>4, <1>7, <2>1
    <3>7. Fit(P, f, world[f], Told, channel[f], records, "no",
              [tick |-> d.tick, reason |-> "Ended"], deferred')
      BY <1>7, <1>8, <2>0, <3>6, FitDue
    <3>q. QED BY <3>2, <3>4, <3>5, <3>7
  <2>2. CASE ~\E d \in ends : d.id = f
    <3>1. held'[f] = held[f] /\ tombstone'[f] = tombstone[f] BY <1>6, <2>2
    <3>2. ~\E d \in due : d.id = f BY <1>e, <2>2
    <3>3. (\E d \in deferred' : d.id = f) <=> (\E d \in deferred : d.id = f)
      BY <1>1, <3>2
    <3>4. Fit(P, f, world[f], Told, channel[f], records, held[f],
              tombstone[f], deferred) BY <1>8
    <3>5. /\ world[f] = "gone" => world[f] = "gone"
          /\ f \in Told <=> f \in Told
          /\ \A x \in records : x.id = f => x \in records
      OBVIOUS
    <3>6. Fit(P, f, world[f], Told, channel[f], records, held[f],
              tombstone[f], deferred') BY <3>3, <3>4, <3>5, FitSame
    <3>q. QED BY <1>2, <3>1, <3>6
  <2>q. QED BY <2>1, <2>2
<1>10. held' \in [Entities -> {"no", "spawned", "complete"}] BY <1>2, <1>6
<1>11. tombstone' \in [Entities -> Tombstones]
  <2>1. tombstone' = [f \in Entities |-> tombstone'[f]] BY <1>6
  <2>q. QED BY <2>1, <1>9
<1>12. deferred' \subseteq [id : Entities, tick : Ticks] BY <1>2, <1>7
<1>13. \A f \in Entities :
         Fit(Projectiles, f, world[f], Told, channel'[f], records, held'[f],
             tombstone'[f], deferred')
  BY <1>1, <1>9
<1>14. /\ channel' \in [Entities -> Seq(Messages)]
       /\ \A f \in Entities : Len(channel'[f]) <= MaxQueued
       /\ \A f \in reported' : channel'[f] = channel[f]
  BY <1>1, <1>2
<1> HIDE DEF due
<1>q. QED BY <1>1, <1>3, <1>6, <1>10, <1>11, <1>12, <1>13, <1>14, ClientStep

\* An actor that a stored snapshot shows, and the client has no word of, has its
\* spawn under way.
LEMMA MissingIsUnderWay ==
  ASSUME Inv, NEW e \in Entities, NEW t, [tick |-> t, id |-> e] \in records,
         ~Tombstoned(e, t), held[e] = "no"
  PROVE  \E i \in 1..Len(channel[e]) : channel[e][i].kind = "spawn"
<1> DEFINE x == [tick |-> t, id |-> e]
<1>1. x \in records /\ x.id = e /\ x.tick = t OBVIOUS
<1>2. ~Covers(tombstone[e], x.tick) BY <1>1 DEF Covers, Tombstoned
<1>3. Explained(e, channel[e], records, held[e], tombstone[e])
  BY DEF Inv, AllFit, Fit
<1> HIDE DEF x
<1>q. QED BY <1>1, <1>2, <1>3 DEF Explained, IsSpawn

LEMMA DeliverStep == ASSUME Inv, DeliverSnapshot PROVE Inv'
<1>1. PICK t \in 1..tick :
        \E ids \in SUBSET {x.id : x \in {y \in records : y.tick = t}} :
          handle_client_snapshot(t, ids \cap Actors)
  BY DEF DeliverSnapshot
<1>2. PICK picked \in SUBSET {x.id : x \in {y \in records : y.tick = t}} :
        handle_client_snapshot(t, picked \cap Actors)
  BY <1>1
<1> DEFINE ids == picked \cap Actors
           stored == store_client_snapshot(t, ids)
           stale == {b \in stored : /\ t > b.tick
                                    /\ t - b.tick > MetadataGrace
                                    /\ Missing(b) # {}}
<1>3. /\ UNCHANGED <<serverVars, channel, records, held, tombstone, deferred>>
      /\ renderTick' = renderTick
  BY DEF DeliverSnapshot
<1>4. /\ kind' = kind /\ tick' = tick /\ world' = world /\ band' = band
      /\ relevant' = relevant /\ lost' = lost /\ abandoned' = abandoned
      /\ Told' = Told /\ channel' = channel
      /\ records' = records /\ held' = held /\ tombstone' = tombstone
      /\ deferred' = deferred
      /\ Actors' = Actors /\ Projectiles' = Projectiles
  BY <1>3, KindStays DEF serverVars, Told
<1>5. t \in Ticks BY EntityFacts DEF Inv, Ticks
<1>6. ASSUME NEW e \in ids PROVE [tick |-> t, id |-> e] \in records
  <2>1. PICK x \in records : x.tick = t /\ x.id = e OBVIOUS
  <2>2. x = [tick |-> t, id |-> e] BY <2>1 DEF Inv, ReplicationTypeOK
  <2>q. QED BY <2>2
<1>7. ids \in SUBSET Actors OBVIOUS
<1> HIDE DEF ids
<1>8. /\ IsFiniteSet(stored) /\ Cardinality(stored) <= MaxBuffered
      /\ stored \subseteq [tick : Ticks, ids : SUBSET Actors]
      /\ \A b, c \in stored : b.tick = c.tick => b = c
      /\ \A b \in stored : \A e \in b.ids : [tick |-> b.tick, id |-> e] \in records
  BY <1>5, <1>6, <1>7, StoredFits DEF Inv, ReplicationTypeOK
<1>9. \/ buffer' = stored /\ latest' = latest /\ reported' = reported
      \/ /\ latest' = t /\ buffer' = stored \ stale
         /\ reported' = reported \cup UNION {Missing(b) : b \in stale}
  BY <1>2 DEF handle_client_snapshot, ids
<1> HIDE DEF stored
<1>10. /\ buffer' \subseteq stored
       /\ \A e \in reported' : e \in reported
                                 \/ \E b \in stored : e \in Missing(b)
  BY <1>9
<1>11. latest' \in Ticks BY <1>5, <1>9 DEF Inv, ReplicationTypeOK
<1> HIDE DEF stale
<1>12. IsFiniteSet(buffer') /\ Cardinality(buffer') <= MaxBuffered
  <2>1. /\ IsFiniteSet(buffer') /\ Cardinality(buffer') <= Cardinality(stored)
    BY <1>8, <1>10, FS_Subset
  <2>2. /\ Cardinality(buffer') \in Nat /\ Cardinality(stored) \in Nat
        /\ MaxBuffered \in Nat
    BY <1>8, <2>1, FS_CardinalityType, ReplicationAssumption
  <2>q. QED BY <1>8, <2>1, <2>2
<1>13. BufferFit' BY <1>4, <1>8, <1>10, <1>12 DEF BufferFit
<1>14. ASSUME NEW b \in stored, NEW e \in Missing(b)
       PROVE  /\ e \in Actors
              /\ \E i \in 1..Len(channel[e]) : channel[e][i].kind = "spawn"
  <2>1. e \in b.ids /\ ~Tombstoned(e, b.tick) /\ held[e] = "no" BY DEF Missing
  <2>2. e \in Actors BY <1>8, <2>1
  <2>3. e \in Entities BY <2>2, EntityFacts DEF Inv
  <2>4. [tick |-> b.tick, id |-> e] \in records BY <1>8, <2>1
  <2>q. QED BY <2>1, <2>2, <2>3, <2>4, MissingIsUnderWay
<1>15. NoFalseAlarm' BY <1>4, <1>10, <1>14 DEF Inv, NoFalseAlarm
<1>16. reported' \subseteq Actors BY <1>10, <1>14 DEF Inv, ReplicationTypeOK
<1>17. ReplicationTypeOK'
  BY <1>3, <1>4, <1>8, <1>10, <1>11, <1>12, <1>16 DEF Inv, ReplicationTypeOK
<1>18. AllFit' /\ SentInPast' /\ (channel \in [Entities -> Seq(Messages)])'
  BY <1>4 DEF Inv, AllFit, SentInPast
<1>q. QED BY <1>13, <1>15, <1>17, <1>18 DEF Inv

-----------------------------------------------------------------------------
(* The theorems.                                                           *)

LEMMA InitFits == ReplicationInit => Inv
<1> SUFFICES ASSUME ReplicationInit PROVE Inv OBVIOUS
<1> USE DEF ReplicationInit
<1>1. 0 \in Nat /\ MaxTick \in Nat /\ 0 \in Ticks
  BY ReplicationAssumption DEF Ticks
<1>2. \A e \in Entities : /\ channel[e] = <<>> /\ held[e] = "no"
                          /\ tombstone[e] = NoTombstone
  OBVIOUS
<1>3. \A e \in Entities : channel[e] \in Seq(Messages) /\ Len(channel[e]) = 0
  BY <1>2
<1>4. IsFiniteSet(buffer) /\ Cardinality(buffer) <= MaxBuffered
  BY FS_EmptySet, ReplicationAssumption
<1>5. ReplicationTypeOK
  <2>1. tick \in Ticks BY ReplicationAssumption DEF Ticks
  <2>2. \A e \in Entities : Len(channel[e]) <= MaxQueued
    BY <1>3, ReplicationAssumption
  <2>q. QED BY <1>1, <1>3, <1>4, <2>1, <2>2 DEF ReplicationTypeOK
<1>6. channel \in [Entities -> Seq(Messages)] BY <1>3
<1>7. AllFit
  <2> SUFFICES ASSUME NEW e \in Entities
               PROVE  Fit(Projectiles, e, world[e], Told, channel[e], records,
                          held[e], tombstone[e], deferred)
    BY DEF AllFit
  <2>1. \A k \in 1..Len(channel[e]) : FALSE BY <1>3
  <2>2. tombstone[e].reason = "none" BY <1>2 DEF NoTombstone
  <2>3. Tracked(Projectiles, e, Told, channel[e], held[e], deferred)
    BY <1>2 DEF Tracked, Draws, Told
  <2>4. /\ Batched(Projectiles, e, channel[e])
        /\ Reopened(e, channel[e], records)
    BY <2>1 DEF Batched, Reopened
  <2>5. Ends(Projectiles, e, world[e], channel[e], held[e], tombstone[e], deferred)
    BY <2>1, <2>2 DEF Ends
  <2>6. Explained(e, channel[e], records, held[e], tombstone[e])
    BY DEF Explained
  <2>q. QED BY <2>3, <2>4, <2>5, <2>6 DEF Fit
<1>8. BufferFit /\ SentInPast /\ NoFalseAlarm
  BY <1>4 DEF BufferFit, SentInPast, NoFalseAlarm
<1>q. QED BY <1>5, <1>6, <1>7, <1>8 DEF Inv

LEMMA StutterFits == ASSUME Inv, UNCHANGED replicationVars PROVE Inv'
<1>1. /\ kind' = kind /\ tick' = tick /\ world' = world /\ band' = band
      /\ relevant' = relevant /\ lost' = lost /\ abandoned' = abandoned
      /\ channel' = channel
      /\ records' = records /\ UNCHANGED clientVars
  BY DEF replicationVars, serverVars
<1>2. tick \in Nat /\ tick \in Ticks BY EntityFacts DEF Inv, ReplicationTypeOK
<1>q. QED BY <1>1, <1>2, SilentStep DEF Inv, ReplicationTypeOK

LEMMA InvHolds == ReplicationSpec => []Inv
<1>1. ReplicationInit => Inv BY InitFits
<1>2. Inv /\ [ReplicationNext]_replicationVars => Inv'
  <2> SUFFICES ASSUME Inv, [ReplicationNext]_replicationVars PROVE Inv' OBVIOUS
  <2>1. ASSUME NEW e \in Entities,
               PlainTick \/ SpawnProjectile(e) \/ Move(e)
        PROVE  Inv'
    BY <2>1, QuietSteps
  <2>2. PlainTick => Inv'
    <3>1. Player \in Entities BY DEF Entities
    <3>q. QED BY <2>1, <3>1
  <2>3. SnapshotTick => Inv' BY SnapshotTickStep
  <2>4. SnapshotWithinTick => Inv' BY SnapshotWithinTickStep
  <2>5. AdvanceRender => Inv' BY AdvanceRenderStep
  <2>6. DeliverSnapshot => Inv' BY DeliverStep
  <2>7. UNCHANGED replicationVars => Inv' BY StutterFits
  <2>8. \A e \in Entities : create_entity(e) => Inv' BY CreateStep
  <2>9. \A e \in Entities : Leave(e) => Inv' BY LeaveStep
  <2>10. \A e \in Entities : destroy_entity(e) => Inv' BY DestroyStep
  <2>11. \A e \in Entities : finalize_projectile(e) => Inv' BY FinalizeStep
  <2>12. \A e \in Entities : Receive(e) => Inv' BY ReceiveStep
  <2>q. QED BY <2>1, <2>2, <2>3, <2>4, <2>5, <2>6, <2>7, <2>8, <2>9, <2>10,
               <2>11, <2>12 DEF ReplicationNext
<1>q. QED BY <1>1, <1>2, PTL DEF ReplicationSpec

\* The session counts an entity as announced exactly when the client has, or
\* will have, all it needs to draw it (sync_session_relevance), for any number
\* of entities, any quota, queue and buffer, and whatever the connection
\* refuses - apart from those that ended while they were shown and whose despawn
\* was refused (destroy_entity_with_context): these the client draws for ever.
THEOREM SessionIsClient == ReplicationSpec => []SessionMatchesClient
<1>1. Inv => SessionMatchesClient
  <2> SUFFICES ASSUME Inv, NEW e \in Entities
               PROVE  e \in relevant \cup abandoned <=> WillDraw(e)
    BY DEF Inv, SessionMatchesClient
  <2>1. Tracked(Projectiles, e, Told, channel[e], held[e], deferred)
    BY DEF Inv, AllFit, Fit
  <2>q. QED BY <2>1 DEF Tracked, Draws, WillDraw, Last, Told
<1>q. QED BY <1>1, InvHolds, PTL

\* diagnose_client_snapshot_metadata_waits raises no alarm but for an actor
\* whose spawn is under way, whatever snapshots are lost, repeated or late and
\* whatever the connection refuses.
THEOREM AlarmsAreTrue == ReplicationSpec => []NoFalseAlarm
<1>1. Inv => NoFalseAlarm BY DEF Inv
<1>q. QED BY <1>1, InvHolds, PTL
=============================================================================
