--------------------------- MODULE LimiterProofs ---------------------------
(***************************************************************************)
(* What the rate limiter keeps for any limit, window and number of         *)
(* callers: in memory it is exact, in both directions; over Redis the      *)
(* calls that overlap go over the limit by at most one for every other     *)
(* caller, if none takes longer than the margin of the key's expiry.       *)
(***************************************************************************)
EXTENDS MCGateway, FiniteSetTheorems, TLAPS

Stages == {"idle", "purging", "counting", "adding", "expiring"}
RateType ==
  /\ store \in {"memory", "redis"} /\ now \in 0..MaxTime /\ expires \in Nat
  /\ pc \in [Callers -> Stages] /\ score \in [Callers -> Nat] /\ calls \in [Callers -> Nat]
  /\ IsFiniteSet(hits) /\ IsFiniteSet(admitted)
  /\ \A h \in hits \cup admitted : h.at \in 0..now

(* In memory the hits are the calls let in that are not too old.           *)
MemoryInv ==
  store = "memory" =>
    /\ expires = Rate!Never
    /\ hits \subseteq admitted
    /\ \A h \in admitted : Rate!InWindow(h) => h \in hits

(* Over Redis a call that is under way began at most MaxDelay ago, and the *)
(* key outlives each hit by the margin, unless the call that added the hit *)
(* has still to say so.                                                    *)
Adding == {c \in Callers : pc[c] = "adding"}
Blocked == \E u \in Callers : pc[u] = "expiring" /\ score[u] + 1 = now
ExpiryInv ==
  /\ expires > now
  /\ \A c \in Callers : score[c] <= now /\ (pc[c] # "idle" => now <= score[c] + MaxDelay)
  /\ \A h \in hits :
       \/ expires >= h.at + WindowSeconds + 1
       \/ \E c \in Callers : pc[c] = "expiring" /\ score[c] = h.at
  /\ \A c \in Callers :
       pc[c] \in {"counting", "adding", "expiring"} /\ score[c] = now => expires >= now + 2 \/ Blocked

(* So no hit of the window is forgotten, and of the calls that read an old *)
(* count each is one of the callers.                                       *)
Latest == Rate!Between(now - WindowSeconds + 1, now, admitted)
CountInv ==
  /\ Latest \subseteq hits
  /\ Cardinality(Latest) + Cardinality(Adding) <= MaxRequests + Cardinality(Callers) - 1

RedisInv == store = "redis" => ExpiryInv /\ CountInv
(* No call takes longer than that margin, or there is none to outrun.      *)
Exact == store = "memory" \/ MaxDelay <= 1

RateInv == RateType /\ MemoryInv /\ RedisInv /\ Rate!WithinLimit /\ Rate!RefusedForCause

(* The limiter counts with the Cardinality of its own instance. *)
LEMMA SameCardinality == \A S : Rate!Cardinality(S) = Cardinality(S)
BY DEF Rate!Cardinality, Cardinality

(* A member more adds at most one; a part is no larger than the whole.     *)
LEMMA OneMember ==
  ASSUME NEW S, IsFiniteSet(S), NEW x
  PROVE  /\ IsFiniteSet(S \cup {x}) /\ Cardinality(S) \in Nat /\ Cardinality(S \cup {x}) \in Nat
         /\ Cardinality(S \cup {x}) <= Cardinality(S) + 1
<1>1. IsFiniteSet(S \cup {x}) /\ Cardinality(S \cup {x}) \in {Cardinality(S), Cardinality(S) + 1}
  BY FS_AddElement
<1>2. Cardinality(S) \in Nat
  BY FS_CardinalityType
<1> QED  BY <1>1, <1>2

LEMMA PartOf ==
  ASSUME NEW T, IsFiniteSet(T), NEW S \in SUBSET T
  PROVE  /\ IsFiniteSet(S) /\ Cardinality(S) \in Nat /\ Cardinality(T) \in Nat
         /\ Cardinality(S) <= Cardinality(T)
BY FS_Subset, FS_CardinalityType

LEMMA FiniteParts ==
  ASSUME RateType
  PROVE  /\ IsFiniteSet(Latest) /\ Cardinality(Latest) \in Nat
         /\ IsFiniteSet(Adding) /\ Cardinality(Adding) \in Nat /\ Cardinality(Adding) <= Cardinality(Callers)
         /\ Cardinality(Callers) \in Nat
         /\ IsFiniteSet(Rate!Recent) /\ Cardinality(Rate!Recent) \in Nat
         /\ \A low, high : IsFiniteSet(Rate!Between(low, high, admitted))
<1>1. \A low, high : Rate!Between(low, high, admitted) \subseteq admitted
  BY DEF Rate!Between
<1>2. Adding \subseteq Callers /\ Rate!Recent \subseteq hits
  BY DEF Adding, Rate!Recent
<1> QED  BY <1>1, <1>2, GatewayAssumption, FS_Subset, FS_CardinalityType DEF RateType, Latest

LEMMA InitRate == Rate!Init => RateInv
<1> SUFFICES ASSUME Rate!Init PROVE RateInv
  OBVIOUS
<1> USE GatewayAssumption DEF Rate!Init
<1>1. RateType
  BY FS_EmptySet DEF RateType, Rate!Never, Stages
<1>2. MemoryInv
  BY DEF MemoryInv
<1>3. ExpiryInv
  BY DEF ExpiryInv, Rate!Never
<1>4. CountInv
  <2>1. Latest = {} /\ Adding = {}
    BY DEF Latest, Adding, Rate!Between
  <2> QED  BY <2>1, FS_EmptySet, FS_CardinalityType DEF CountInv
<1>5. Rate!WithinLimit
  <2>1. \A t : Rate!Between(t, t + WindowSeconds, admitted) = {}
    BY DEF Rate!Between
  <2> QED  BY <2>1, FS_EmptySet, SameCardinality DEF Rate!WithinLimit, Rate!Within
<1>6. Rate!RefusedForCause
  BY DEF Rate!RefusedForCause
<1> QED  BY <1>1, <1>2, <1>3, <1>4, <1>5, <1>6 DEF RateInv, RedisInv

-----------------------------------------------------------------------------
(* One step, in memory. *)

LEMMA AllowKeeps ==
  ASSUME RateInv, NEW c \in Callers, Rate!AllowInMemory(c)
  PROVE  RateInv'
<1> USE GatewayAssumption
<1> DEFINE h == Rate!Hit(c, now, calls[c])
<1>0. store = "memory" /\ UNCHANGED <<store, now, expires, pc, score>>
  BY DEF Rate!AllowInMemory
<1>1. h.at = now
  BY DEF Rate!Hit
<1> HIDE DEF h
<1>2. calls' \in [Callers -> Nat]
  BY DEF RateInv, RateType, Rate!AllowInMemory
<1>3. RedisInv'
  BY <1>0 DEF RedisInv
<1>4. CASE hits' = Rate!Recent /\ Rate!Refuse(now) /\ admitted' = admitted /\ Rate!Full(Cardinality(Rate!Recent))
  <2>1. RateType'
    BY <1>0, <1>2, <1>4, FiniteParts DEF RateInv, RateType, Rate!Recent
  <2>2. MemoryInv'
    BY <1>0, <1>4 DEF RateInv, MemoryInv, Rate!Recent, Rate!InWindow
  <2>3. Rate!WithinLimit'
    BY <1>0, <1>4 DEF RateInv, Rate!WithinLimit
  <2>4. Rate!Recent \subseteq Rate!Between(now - WindowSeconds, now, admitted)
    BY <1>0 DEF RateInv, RateType, MemoryInv, Rate!Recent, Rate!InWindow, Rate!Between
  <2>5. Cardinality(Rate!Recent) <= Cardinality(Rate!Between(now - WindowSeconds, now, admitted))
    BY <2>4, FiniteParts, FS_Subset DEF RateInv
  <2>6. Rate!Within(now - WindowSeconds, now, admitted) >= MaxRequests
    <3>1. Cardinality(Rate!Between(now - WindowSeconds, now, admitted)) \in Nat
      BY FiniteParts, PartOf DEF RateInv
    <3> QED  BY <1>4, <2>5, <3>1, FiniteParts, SameCardinality, GatewayAssumption DEF Rate!Within,
        Rate!Full, RateInv
  <2>7. Rate!RefusedForCause'
    BY <1>4, <2>6 DEF Rate!RefusedForCause, Rate!Refuse, Rate!Within
  <2> QED  BY <1>3, <2>1, <2>2, <2>3, <2>7 DEF RateInv
<1>5. CASE /\ hits' = Rate!Recent \cup {h} /\ admitted' = admitted \cup {h} /\ refused' = refused
           /\ ~Rate!Full(Cardinality(Rate!Recent))
  <2>1. RateType'
    <3>1. IsFiniteSet(hits') /\ IsFiniteSet(admitted')
      BY <1>5, FiniteParts, FS_AddElement DEF RateInv, RateType
    <3> QED  BY <1>0, <1>1, <1>2, <1>5, <3>1 DEF RateInv, RateType, Rate!Recent
  <2>2. MemoryInv'
    BY <1>0, <1>1, <1>5 DEF RateInv, MemoryInv, Rate!Recent, Rate!InWindow
  <2>3. ASSUME NEW t \in 0..MaxTime PROVE Rate!Within(t, t + WindowSeconds, admitted') <= MaxRequests
    <3> DEFINE B == Rate!Between(t, t + WindowSeconds, admitted)
               C == Rate!Between(t, t + WindowSeconds, admitted')
    <3>1. CASE t <= now /\ now <= t + WindowSeconds
      <4>1. C \subseteq Rate!Recent \cup {h}
        BY <1>0, <1>1, <1>5, <3>1 DEF RateInv, RateType, MemoryInv, Rate!Recent, Rate!InWindow, Rate!Between
      <4>2. IsFiniteSet(Rate!Recent \cup {h}) /\ Cardinality(Rate!Recent \cup {h}) <= Cardinality(Rate!Recent) + 1
        BY FiniteParts, OneMember DEF RateInv
      <4>3. Cardinality(C) <= Cardinality(Rate!Recent \cup {h})
        BY <4>1, <4>2, FS_Subset
      <4>4. Cardinality(C) \in Nat /\ Cardinality(Rate!Recent \cup {h}) \in Nat
        BY <4>1, <4>2, FS_Subset, FS_CardinalityType
      <4> QED  BY <1>5, <4>2, <4>3, <4>4, FiniteParts, SameCardinality DEF Rate!Within, Rate!Full, RateInv
    <3>2. CASE ~(t <= now /\ now <= t + WindowSeconds)
      <4>1. C = B
        BY <1>1, <1>5, <3>2 DEF Rate!Between
      <4> QED  BY <1>0, <4>1 DEF RateInv, Rate!WithinLimit, Rate!Within
    <3> QED  BY <3>1, <3>2
  <2>4. Rate!WithinLimit'
    BY <2>3 DEF Rate!WithinLimit, Rate!Within, Rate!Between
  <2>5. Rate!RefusedForCause'
    BY <1>0, <1>5 DEF RateInv, Rate!RefusedForCause, Rate!Within, Rate!Between
  <2> QED  BY <1>3, <2>1, <2>2, <2>4, <2>5 DEF RateInv
<1> QED  BY <1>4, <1>5, SameCardinality DEF Rate!AllowInMemory, h

-----------------------------------------------------------------------------
(* One step over Redis, and the clock. *)

(* What a step over Redis leaves alone. *)
LEMMA OverRedis ==
  ASSUME RateInv, store = "redis", store' = store
  PROVE  /\ MemoryInv' /\ Rate!WithinLimit' /\ Rate!RefusedForCause'
         /\ ExpiryInv /\ CountInv
         /\ RateType' /\ ExpiryInv' /\ CountInv' => RateInv'
BY DEF RateInv, MemoryInv, RedisInv, Rate!WithinLimit, Rate!RefusedForCause

(* The callers between their count and their hit are no more than before. *)
LEMMA FewerAdding ==
  ASSUME RateType, Adding' \subseteq Adding
  PROVE  Cardinality(Adding') \in Nat /\ Cardinality(Adding') <= Cardinality(Adding)
BY FiniteParts, FS_Subset, FS_CardinalityType

LEMMA CallKeeps ==
  ASSUME RateInv, NEW c \in Callers, Rate!Call(c)
  PROVE  RateInv'
<1> USE GatewayAssumption
<1>0. store = "redis" /\ store' = store /\ now' = now /\ hits' = hits /\ expires' = expires /\ admitted' = admitted
  BY DEF Rate!Call, Rate!Step
<1>1. pc[c] = "idle" /\ pc' = [pc EXCEPT ![c] = "purging"] /\ score' = [score EXCEPT ![c] = now]
      /\ calls' = [calls EXCEPT ![c] = @ + 1]
  BY DEF Rate!Call, Rate!Step
<1>2. RateType'
  BY <1>0, <1>1 DEF RateInv, RateType, Stages
<1>3. ExpiryInv'
  BY <1>0, <1>1, OverRedis DEF ExpiryInv, Blocked, RateInv, RateType
<1>4. Latest' = Latest /\ Adding' = Adding
  BY <1>0, <1>1 DEF Latest, Adding, Rate!Between, RateInv, RateType
<1> QED  BY <1>0, <1>2, <1>3, <1>4, OverRedis DEF CountInv

LEMMA PurgeKeeps ==
  ASSUME RateInv, NEW c \in Callers, MaxDelay <= 1, Rate!Purge(c)
  PROVE  RateInv'
<1> USE GatewayAssumption
<1>0. store = "redis" /\ store' = store /\ now' = now /\ score' = score /\ calls' = calls /\ admitted' = admitted
  BY DEF Rate!Purge, Rate!Step
<1>1. /\ pc[c] = "purging" /\ pc' = [pc EXCEPT ![c] = "counting"]
      /\ hits' = {h \in hits : h.at > score[c] - WindowSeconds}
      /\ expires' = IF hits' = {} THEN Rate!Never ELSE expires
  BY DEF Rate!Purge, Rate!Step, Rate!NotRemoved
<1>2. ExpiryInv /\ CountInv /\ RateType
  BY <1>0, OverRedis DEF RateInv
<1>3. RateType'
  <2>1. IsFiniteSet(hits')
    BY <1>1, <1>2, FS_Subset DEF RateType
  <2> QED  BY <1>0, <1>1, <1>2, <2>1 DEF RateType, Stages, Rate!Never
<1>4. Latest' = Latest /\ Latest' \subseteq hits'
  BY <1>0, <1>1, <1>2 DEF Latest, Rate!Between, CountInv, ExpiryInv, RateType
<1>5. Adding' \subseteq Adding
  BY <1>0, <1>1, <1>2 DEF Adding, RateType
<1>6. CountInv'
  BY <1>2, <1>4, <1>5, FewerAdding, FiniteParts DEF CountInv
<1>8. Blocked' <=> Blocked
  BY <1>0, <1>1, <1>2 DEF Blocked, RateType
<1>9. ASSUME score[c] = now PROVE expires' >= now + 2 \/ Blocked'
  <2>1. CASE hits' = {}
    BY <1>1, <1>2, <2>1 DEF RateType, Rate!Never
  <2>2. CASE hits' # {}
    <3>1. PICK h \in hits : h.at > now - WindowSeconds
      BY <1>1, <1>9, <2>2
    <3>2. h.at \in Nat /\ h.at <= now /\ expires' = expires /\ expires \in Nat
      BY <1>1, <1>2, <2>2, <3>1 DEF RateType
    <3>3. CASE expires >= h.at + WindowSeconds + 1
      BY <1>2, <3>1, <3>2, <3>3 DEF RateType
    <3>4. ASSUME NEW u \in Callers, pc[u] = "expiring", score[u] = h.at PROVE expires' >= now + 2 \/ Blocked'
      <4>1. now <= score[u] + 1
        BY <1>2, <3>2, <3>4 DEF ExpiryInv, RateType
      <4>2. CASE score[u] = now
        BY <1>2, <1>8, <3>2, <3>4, <4>2 DEF ExpiryInv
      <4>3. CASE score[u] + 1 = now
        BY <1>8, <3>4, <4>3 DEF Blocked
      <4> QED  BY <1>2, <3>2, <3>4, <4>1, <4>2, <4>3 DEF RateType
    <3> QED  BY <1>2, <3>1, <3>3, <3>4 DEF ExpiryInv
  <2> QED  BY <2>1, <2>2
<1>10. ExpiryInv'
  <2>1. expires' > now' /\ \A d \in Callers : score'[d] <= now' /\ (pc'[d] # "idle" => now' <= score'[d] + MaxDelay)
    BY <1>0, <1>1, <1>2 DEF ExpiryInv, RateType, Rate!Never
  <2>2. ASSUME NEW h \in hits'
        PROVE  expires' >= h.at + WindowSeconds + 1 \/ \E d \in Callers : pc'[d] = "expiring" /\ score'[d] = h.at
    BY <1>0, <1>1, <1>2 DEF ExpiryInv, RateType
  <2>3. ASSUME NEW d \in Callers, pc'[d] \in {"counting", "adding", "expiring"}, score'[d] = now'
        PROVE  expires' >= now' + 2 \/ Blocked'
    <3>1. CASE d = c
      BY <1>0, <1>9, <2>3, <3>1
    <3>2. CASE d # c
      <4>1. expires >= now + 2 \/ Blocked
        BY <1>0, <1>1, <1>2, <2>3, <3>2 DEF ExpiryInv, RateType
      <4>2. expires' = expires \/ expires' >= now + 2
        BY <1>1, <1>2 DEF RateType, Rate!Never
      <4> QED  BY <1>0, <1>8, <4>1, <4>2
    <3> QED  BY <3>1, <3>2
  <2> QED  BY <2>1, <2>2, <2>3 DEF ExpiryInv
<1> QED  BY <1>0, <1>3, <1>6, <1>10, OverRedis

LEMMA CountKeeps ==
  ASSUME RateInv, NEW c \in Callers, Rate!Count(c)
  PROVE  RateInv'
<1> USE GatewayAssumption
<1>0. /\ store = "redis" /\ store' = store /\ now' = now /\ score' = score /\ calls' = calls
      /\ hits' = hits /\ expires' = expires /\ admitted' = admitted /\ pc[c] = "counting"
  BY DEF Rate!Count, Rate!Step
<1>2. ExpiryInv /\ CountInv /\ RateType
  BY <1>0, OverRedis DEF RateInv
<1>3. \/ pc' = [pc EXCEPT ![c] = "idle"]
      \/ pc' = [pc EXCEPT ![c] = "adding"] /\ Cardinality(hits) < MaxRequests
  BY <1>2, FS_CardinalityType, SameCardinality DEF Rate!Count, Rate!Step, Rate!Full, RateType
<1>4. RateType'
  BY <1>0, <1>2, <1>3 DEF RateType, Stages
<1>5. ExpiryInv'
  BY <1>0, <1>2, <1>3 DEF ExpiryInv, RateType, Blocked
<1>6. Latest' = Latest /\ Latest' \subseteq hits'
  BY <1>0, <1>2 DEF Latest, Rate!Between, CountInv
<1>7. CASE pc' = [pc EXCEPT ![c] = "idle"]
  <2>1. Adding' \subseteq Adding
    BY <1>2, <1>7 DEF Adding, RateType
  <2> QED  BY <1>0, <1>2, <1>4, <1>5, <1>6, <2>1, FewerAdding, FiniteParts, OverRedis DEF CountInv
<1>8. CASE Cardinality(hits) < MaxRequests
  <2>1. Cardinality(Latest) <= Cardinality(hits) /\ Cardinality(hits) \in Nat
    BY <1>0, <1>2, <1>6, FS_Subset, FS_CardinalityType DEF RateType
  <2>2. Cardinality(Adding') \in Nat /\ Cardinality(Adding') <= Cardinality(Callers)
    BY <1>4, FS_Subset, FS_CardinalityType DEF Adding
  <2> QED  BY <1>0, <1>2, <1>4, <1>5, <1>6, <1>8, <2>1, <2>2, FiniteParts, OverRedis DEF CountInv
<1> QED  BY <1>3, <1>7, <1>8

LEMMA AddKeeps ==
  ASSUME RateInv, NEW c \in Callers, Rate!Add(c)
  PROVE  RateInv'
<1> USE GatewayAssumption
<1> DEFINE h == Rate!Hit(c, score[c], calls[c])
<1>0. /\ store = "redis" /\ store' = store /\ now' = now /\ score' = score /\ calls' = calls
      /\ expires' = expires /\ pc[c] = "adding" /\ pc' = [pc EXCEPT ![c] = "expiring"]
      /\ hits' = hits \cup {h} /\ admitted' = admitted \cup {h}
  BY DEF Rate!Add, Rate!Step
<1>1. h.at = score[c]
  BY DEF Rate!Hit
<1> HIDE DEF h
<1>2. ExpiryInv /\ CountInv /\ RateType
  BY <1>0, OverRedis DEF RateInv
<1>3. RateType'
  <2>1. IsFiniteSet(hits') /\ IsFiniteSet(admitted')
    BY <1>0, <1>2, FS_AddElement DEF RateType
  <2>2. score[c] \in 0..now
    BY <1>2 DEF ExpiryInv, RateType
  <2> QED  BY <1>0, <1>1, <1>2, <2>1, <2>2 DEF RateType, Stages
<1>4. ExpiryInv'
  BY <1>0, <1>1, <1>2 DEF ExpiryInv, RateType, Blocked
<1>5. CountInv'
  <2>1. Latest' \subseteq Latest \cup {h} /\ Latest' \subseteq hits'
    BY <1>0, <1>2 DEF Latest, Rate!Between, CountInv
  <2>2. Cardinality(Latest') \in Nat /\ Cardinality(Latest') <= Cardinality(Latest) + 1
    <3>1. IsFiniteSet(Latest \cup {h}) /\ Cardinality(Latest \cup {h}) <= Cardinality(Latest) + 1
          /\ Cardinality(Latest \cup {h}) \in Nat /\ Cardinality(Latest) \in Nat
      BY <1>2, FiniteParts, OneMember
    <3>2. Cardinality(Latest') \in Nat /\ Cardinality(Latest') <= Cardinality(Latest \cup {h})
      BY <2>1, <3>1, PartOf
    <3> QED  BY <3>1, <3>2
  <2>3. c \in Adding /\ Adding' = Adding \ {c}
    BY <1>0, <1>2 DEF Adding, RateType
  <2>4. Cardinality(Adding') = Cardinality(Adding) - 1
    BY <1>2, <2>3, FiniteParts, FS_RemoveElement
  <2> QED  BY <1>2, <2>1, <2>2, <2>4, FiniteParts DEF CountInv
<1> QED  BY <1>0, <1>3, <1>4, <1>5, OverRedis

LEMMA ExpireKeeps ==
  ASSUME RateInv, NEW c \in Callers, Rate!Expire(c)
  PROVE  RateInv'
<1> USE GatewayAssumption
<1>0. /\ store = "redis" /\ store' = store /\ now' = now /\ score' = score /\ calls' = calls
      /\ hits' = hits /\ admitted' = admitted /\ pc[c] = "expiring" /\ pc' = [pc EXCEPT ![c] = "idle"]
      /\ expires' = IF hits = {} THEN Rate!Never ELSE now + WindowSeconds + 1
  BY DEF Rate!Expire, Rate!Step
<1>2. ExpiryInv /\ CountInv /\ RateType
  BY <1>0, OverRedis DEF RateInv
<1>3. RateType'
  BY <1>0, <1>2 DEF RateType, Stages, Rate!Never
<1>4. expires' >= now + 2 /\ \A h \in hits : expires' >= h.at + WindowSeconds + 1
  BY <1>0, <1>2 DEF RateType, Rate!Never
<1>5. ExpiryInv'
  BY <1>0, <1>2, <1>3, <1>4 DEF ExpiryInv, RateType
<1>6. Latest' = Latest /\ Latest' \subseteq hits' /\ Adding' \subseteq Adding
  BY <1>0, <1>2 DEF Latest, Rate!Between, CountInv, Adding, RateType
<1>7. CountInv'
  BY <1>2, <1>6, FewerAdding, FiniteParts DEF CountInv
<1> QED  BY <1>0, <1>3, <1>5, <1>7, OverRedis

LEMMA TickKeeps ==
  ASSUME RateInv, Exact, Rate!Tick
  PROVE  RateInv'
<1> USE GatewayAssumption
<1>0. /\ store' = store /\ now' = now + 1 /\ now < MaxTime /\ score' = score /\ calls' = calls /\ pc' = pc
      /\ admitted' = admitted /\ refused' = refused
      /\ \A c \in Callers : pc[c] # "idle" => now < score[c] + MaxDelay
  BY DEF Rate!Tick
<1>1. \/ now' >= expires /\ hits' = {} /\ expires' = Rate!Never
      \/ now' < expires /\ hits' = hits /\ expires' = expires
  BY <1>0 DEF Rate!Tick, RateInv, RateType
<1>2. RateType'
  <2>1. IsFiniteSet(hits') /\ (hits' = {} \/ hits' = hits) /\ expires' \in Nat
    <3>1. IsFiniteSet(hits) /\ expires \in Nat
      BY DEF RateInv, RateType
    <3>2. hits' = {} => IsFiniteSet(hits')
      BY FS_EmptySet
    <3> QED  BY <1>1, <3>1, <3>2 DEF Rate!Never
  <2> QED  BY <1>0, <2>1 DEF RateInv, RateType
<1>3. Rate!WithinLimit' /\ Rate!RefusedForCause'
  BY <1>0 DEF RateInv, Rate!WithinLimit, Rate!RefusedForCause
<1>4. CASE store = "redis"
  <2>1. MaxDelay <= 1
    BY <1>4 DEF Exact
  <2>2. ExpiryInv /\ CountInv /\ RateType
    BY <1>4, <1>0, OverRedis DEF RateInv
  <2>3. ~Blocked
    BY <1>0, <2>1, <2>2 DEF Blocked, RateType
  <2>4. ExpiryInv'
    BY <1>0, <1>1, <2>2 DEF ExpiryInv, RateType, Rate!Never
  <2>5. Latest' \subseteq Latest
    BY <1>0, <2>2 DEF Latest, Rate!Between, RateType
  <2>6. Latest' \subseteq hits'
    <3>1. ASSUME NEW a \in Latest', now' >= expires PROVE FALSE
      <4>1. a \in hits /\ a.at \in Nat /\ a.at >= now + 2 - WindowSeconds
        BY <1>0, <2>2, <2>5, <3>1 DEF CountInv, Latest, Rate!Between, RateType
      <4>2. expires < a.at + WindowSeconds + 1
        BY <1>0, <2>2, <3>1, <4>1 DEF RateType
      <4>3. PICK u \in Callers : pc[u] = "expiring" /\ score[u] = a.at
        BY <2>2, <4>1, <4>2 DEF ExpiryInv, RateType
      <4>4. score[u] = now
        BY <1>0, <2>1, <2>2, <4>3 DEF ExpiryInv, RateType
      <4>5. expires >= now + 2
        BY <2>2, <2>3, <4>3, <4>4 DEF ExpiryInv
      <4> QED  BY <1>0, <2>2, <3>1, <4>5 DEF RateType
    <3>2. CASE now' >= expires
      BY <3>1, <3>2
    <3>3. CASE hits' = hits
      BY <2>2, <2>5, <3>3 DEF CountInv
    <3> QED  BY <1>1, <3>2, <3>3
  <2>7. Cardinality(Latest') \in Nat /\ Cardinality(Latest') <= Cardinality(Latest)
    BY <2>2, <2>5, FiniteParts, FS_Subset, FS_CardinalityType
  <2>8. Adding' = Adding
    BY <1>0 DEF Adding
  <2>9. CountInv'
    BY <2>2, <2>6, <2>7, <2>8, FiniteParts DEF CountInv
  <2> QED  BY <1>0, <1>2, <1>4, <2>4, <2>9, OverRedis
<1>5. CASE store = "memory"
  <2>1. hits' = hits
    BY <1>0, <1>1, <1>5 DEF RateInv, RateType, MemoryInv, Rate!Never
  <2>2. MemoryInv'
    BY <1>0, <1>1, <1>5, <2>1 DEF RateInv, RateType, MemoryInv, Rate!Never, Rate!InWindow
  <2> QED  BY <1>0, <1>2, <1>3, <1>5, <2>2 DEF RateInv, RedisInv
<1> QED  BY <1>4, <1>5 DEF RateInv, RateType

(* Every step of the limiter, if no call takes longer than the margin of   *)
(* the expiry.                                                             *)
LEMMA RateStep ==
  ASSUME RateInv, Exact, [Rate!Next]_rateVars
  PROVE  RateInv'
<1>1. CASE Rate!Tick
  BY <1>1, TickKeeps
<1>2. ASSUME NEW c \in Callers, Rate!Allow(c) PROVE RateInv'
  <2>1. CASE Rate!Purge(c)
    <3>1. MaxDelay <= 1
      BY <2>1 DEF Exact, Rate!Purge, Rate!Step
    <3> QED  BY <2>1, <3>1, PurgeKeeps
  <2> QED  BY <1>2, <2>1, AllowKeeps, CallKeeps, CountKeeps, AddKeeps, ExpireKeeps DEF Rate!Allow
<1>3. CASE UNCHANGED rateVars
  BY <1>3 DEF rateVars, RateInv, RateType, MemoryInv, RedisInv, ExpiryInv, CountInv, Blocked, Adding, Latest,
     Rate!Between, Rate!InWindow, Rate!WithinLimit, Rate!RefusedForCause, Rate!Within
<1> QED  BY <1>1, <1>2, <1>3 DEF Rate!Next

LEMMA RateImplies == RateInv => Rate!WithinLimit /\ Rate!RefusedForCause /\ Rate!BoundedOvershoot
<1>1. ASSUME RateInv PROVE Rate!BoundedOvershoot
  <2>1. ASSUME store = "redis"
        PROVE  Rate!Within(now - WindowSeconds + 1, now, admitted) <= MaxRequests + Rate!Cardinality(Callers) - 1
    BY <1>1, <2>1, FiniteParts, SameCardinality, GatewayAssumption
       DEF RateInv, RedisInv, CountInv, Rate!Within, Latest
  <2> QED  BY <2>1 DEF Rate!BoundedOvershoot
<1> QED  BY <1>1 DEF RateInv

LEMMA StoreStays == [Rate!Next]_rateVars => store' = store
BY DEF Rate!Next, Rate!Tick, Rate!Allow, Rate!AllowInMemory, Rate!Call, Rate!Purge, Rate!Count, Rate!Add,
       Rate!Expire, rateVars

(* The inductive invariant of the limiter, where it is exact.              *)
LEMMA RateInvariant == Spec => [](part = "rate" /\ Exact => RateInv)
<1> DEFINE I == part = "rate" /\ Exact => RateInv
<1>1. Init => I
  BY InitRate DEF Init
<1>2. I /\ [Next]_allVars => I'
  <2> SUFFICES ASSUME I, [Next]_allVars, part' = "rate", Exact' PROVE RateInv'
    OBVIOUS
  <2>1. part = "rate" /\ [Rate!Next]_rateVars
    BY DEF Next, allVars
  <2>2. Exact
    BY <2>1, StoreStays DEF Exact
  <2> QED  BY <2>1, <2>2, RateStep
<1> QED  BY <1>1, <1>2, PTL DEF Spec

-----------------------------------------------------------------------------
(* In memory the limiter is exact, whatever the limit, the window and the  *)
(* number of callers: no span of a window's length lets in more than the   *)
(* limit, and nobody is refused without cause (rate_limit.py:72-78).       *)
THEOREM MemoryIsExact == Spec => [](part = "rate" => Rate!WithinLimit /\ Rate!RefusedForCause)
<1>1. (part = "rate" /\ Exact => RateInv) => (part = "rate" => Rate!WithinLimit /\ Rate!RefusedForCause)
  BY DEF Exact, RateInv, Rate!WithinLimit, Rate!RefusedForCause
<1> QED  BY <1>1, RateInvariant, PTL

(* The limiter keeps its limit whatever the order of the calls, over Redis *)
(* too if no call takes longer than the one second by which the key        *)
(* outlives its window (rate_limit.py:72-118).                             *)
THEOREM LimitIsKept ==
  ASSUME MaxDelay <= 1
  PROVE  Spec => []LimitKept
<1>1. (part = "rate" /\ Exact => RateInv) => LimitKept
  BY RateImplies DEF Exact, LimitKept
<1> QED  BY <1>1, RateInvariant, PTL
=============================================================================
