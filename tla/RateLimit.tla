------------------------------ MODULE RateLimit ------------------------------
(***************************************************************************)
(* SlidingWindowRateLimiter (security/rate_limit.py) for one client key:   *)
(* in the memory of one gateway a call is one step; over Redis it is a     *)
(* round trip to purge, one to count and one to add, and the calls of      *)
(* every replica interleave between them.                                  *)
(*                                                                         *)
(* A hit is its time and whose call it was: the members in Redis are       *)
(* unique, and the queue in memory is in the order of the clock.           *)
(*                                                                         *)
(* MaxTime bounds the clock, MaxCalls what a caller asks.  A call over     *)
(* Redis takes at most MaxDelay, in seconds; the expiry of the key leaves  *)
(* one.                                                                    *)
(***************************************************************************)
EXTENDS Integers, FiniteSets

CONSTANTS Callers, MaxRequests, WindowSeconds, MaxTime, MaxCalls, MaxDelay

VARIABLES
  store,      \* "memory" or "redis"
  now,        \* the clock
  hits,       \* what the limiter remembers
  expires,    \* when Redis drops the key
  pc,         \* pc[c]: idle, purging, counting, adding, expiring
  score,      \* score[c]: the time at which c's call began
  calls,      \* calls[c]: what c has asked
  admitted,   \* all the calls that were let in (only the properties read it)
  refused     \* the last refusal: its time and what was let in before (likewise)

vars == <<store, now, hits, expires, pc, score, calls, admitted, refused>>

Never == MaxTime + WindowSeconds + 2

Init ==
  /\ store \in {"memory", "redis"}
  /\ now = 0 /\ hits = {} /\ expires = Never
  /\ pc = [c \in Callers |-> "idle"] /\ score = [c \in Callers |-> 0] /\ calls = [c \in Callers |-> 0]
  /\ admitted = {} /\ refused = {}

(* The key goes when its time has come. *)
Tick ==
  /\ now < MaxTime
  /\ \A c \in Callers : pc[c] # "idle" => now < score[c] + MaxDelay
  /\ now' = now + 1
  /\ IF now' >= expires THEN hits' = {} /\ expires' = Never ELSE UNCHANGED <<hits, expires>>
  /\ UNCHANGED <<store, pc, score, calls, admitted, refused>>

Hit(c, t, n) == [at |-> t, caller |-> c, nth |-> n]

(* The hits of memory before the window are dropped from the left, the     *)
(* oldest first.                                                           *)
InWindow(h) == h.at >= now - WindowSeconds
Recent == {h \in hits : InWindow(h)}

OneMore(n) == n > MaxRequests
Full(n) == n >= MaxRequests

Refuse(t) == refused' = {[at |-> t, before |-> admitted]}

AllowInMemory(c) ==
  /\ store = "memory" /\ calls[c] < MaxCalls
  /\ calls' = [calls EXCEPT ![c] = @ + 1]
  /\ \/ Full(Cardinality(Recent)) /\ hits' = Recent /\ Refuse(now) /\ UNCHANGED admitted
     \/ /\ ~Full(Cardinality(Recent))
        /\ hits' = Recent \cup {Hit(c, now, calls[c])} /\ admitted' = admitted \cup {Hit(c, now, calls[c])}
        /\ UNCHANGED refused
  /\ UNCHANGED <<store, now, expires, pc, score>>

-----------------------------------------------------------------------------
Step(c, from, to) == store = "redis" /\ pc[c] = from /\ pc' = [pc EXCEPT ![c] = to]

Call(c) ==
  /\ calls[c] < MaxCalls /\ Step(c, "idle", "purging")
  /\ calls' = [calls EXCEPT ![c] = @ + 1]
  /\ score' = [score EXCEPT ![c] = now]
  /\ UNCHANGED <<store, now, hits, expires, admitted, refused>>

(* zremrangebyscore takes the hit at the edge of the window too, and Redis *)
(* deletes a set that is empty, its expiry with it.                        *)
NotRemoved(t) == {h \in hits : h.at > t}
Purge(c) ==
  /\ Step(c, "purging", "counting")
  /\ hits' = NotRemoved(score[c] - WindowSeconds)
  /\ expires' = IF hits' = {} THEN Never ELSE expires
  /\ UNCHANGED <<store, now, score, calls, admitted, refused>>

Count(c) ==
  /\ \/ Full(Cardinality(hits)) /\ Step(c, "counting", "idle") /\ Refuse(score[c])
     \/ ~Full(Cardinality(hits)) /\ Step(c, "counting", "adding") /\ UNCHANGED refused
  /\ UNCHANGED <<store, now, hits, expires, score, calls, admitted>>

Add(c) ==
  /\ Step(c, "adding", "expiring")
  /\ hits' = hits \cup {Hit(c, score[c], calls[c])}
  /\ admitted' = admitted \cup {Hit(c, score[c], calls[c])}
  /\ UNCHANGED <<store, now, expires, score, calls, refused>>

Expire(c) ==
  /\ Step(c, "expiring", "idle")
  /\ expires' = IF hits = {} THEN Never ELSE now + WindowSeconds + 1
  /\ UNCHANGED <<store, now, hits, score, calls, admitted, refused>>

Allow(c) == AllowInMemory(c) \/ Call(c) \/ Purge(c) \/ Count(c) \/ Add(c) \/ Expire(c)
Next == Tick \/ \E c \in Callers : Allow(c)
Spec == Init /\ [][Next]_vars

-----------------------------------------------------------------------------
Between(low, high, H) == {h \in H : low <= h.at /\ h.at <= high}
Within(low, high, H) == Cardinality(Between(low, high, H))

(* In memory no span of a window's length ever lets in more than the       *)
(* limit, its two ends included (rate_limit.py:72).                        *)
WithinLimit ==
  store = "memory" => \A t \in 0..MaxTime : Within(t, t + WindowSeconds, admitted) <= MaxRequests

(* Over Redis the count is old when the hit is added: the callers that are *)
(* between the two go over the limit.  At no moment have more calls of the *)
(* last window been let in than the limit and one for every other caller.  *)
(* (A call that takes longer than the margin of the expiry may lose the    *)
(* hits of others with the key.)                                           *)
BoundedOvershoot ==
  store = "redis" =>
    Within(now - WindowSeconds + 1, now, admitted) <= MaxRequests + Cardinality(Callers) - 1

(* In memory nobody is refused without cause: as many calls as the limit   *)
(* were let in within the window that ends at the refused one.             *)
RefusedForCause ==
  store = "memory" =>
    \A r \in refused : Within(r.at - WindowSeconds, r.at, r.before) >= MaxRequests
=============================================================================
