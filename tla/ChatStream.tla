----------------------------- MODULE ChatStream -----------------------------
(***************************************************************************)
(* POST /chat/stream: chat_stream of api/main.py over stream_turn of       *)
(* agents/task_agent.py.  Requests of many clients run at the same time in *)
(* one or more worker processes.  Each streams server-sent events to its   *)
(* client; the turns of one thread share the history the next turn is      *)
(* answered from.                                                          *)
(*                                                                         *)
(* A history holds the requests whose turns it remembers; what they said   *)
(* is left out.  A lock is named after the request that created it.        *)
(***************************************************************************)
EXTENDS Naturals, Sequences, FiniteSets, SequencesExt

CONSTANTS
  Requests,     \* the calls of /chat/stream
  Threads,      \* the keys (subject, thread_id)
  Workers,      \* worker processes
  ThreadCap,    \* _STREAM_HISTORY_MAX_THREADS
  Keep,         \* turns a history keeps: half of _STREAM_MAX_HISTORY_MESSAGES
  MaxRestarts,  \* bound: restarts of worker processes
  ClientsLeave  \* may a client close its connection before the end?

None == "none"

ASSUME ChatStreamAssumption ==
  /\ ClientsLeave \in BOOLEAN
  /\ ThreadCap \in Nat \ {0} /\ Keep \in Nat \ {0}
  /\ MaxRestarts \in Nat
  /\ None \notin Requests \cup Threads \cup Workers
  /\ "redis" \notin Workers

VARIABLES
  shared,    \* is REDIS_URL set?  It is read once, when a process starts
  stage,     \* stage[r]: where the request is
  thread,    \* thread[r]: its history_key
  worker,    \* worker[r]: the process that serves it
  events,    \* events[r]: the kinds of events its client was sent, by first occurrence
  failed,    \* failed[r]: is_error
  history,   \* history[s][t]: the turns store s remembers of thread t
  recency,   \* recency[w]: the keys of the process's OrderedDict, oldest first
  recalled,  \* recalled[r]: the history its turn started from
  table,     \* table[w][t]: the lock _stream_history_locks holds, or None
  lock,      \* lock[r]: the lock the request uses, or None
  ahead,     \* ahead[r]: the requests that were in line for that lock before it
  recorded,  \* recorded[r]: was record_turn started for it (module ChatStore)?
  restarts   \* how many times a process restarted

vars == <<shared, stage, thread, worker, events, failed, history, recency, recalled,
          table, lock, ahead, recorded, restarts>>

turnVars == <<stage, thread, worker, events, failed>>
memoryVars == <<history, recency, recalled>>
lockVars == <<table, lock, ahead>>

Stores == Workers \cup {"redis"}

StoreOf(w) == IF shared THEN "redis" ELSE w

Init ==
  /\ shared \in BOOLEAN
  /\ stage = [r \in Requests |-> "new"]
  /\ thread = [r \in Requests |-> None]
  /\ worker = [r \in Requests |-> None]
  /\ events = [r \in Requests |-> <<>>]
  /\ failed = [r \in Requests |-> FALSE]
  /\ history = [s \in Stores |-> [t \in Threads |-> <<>>]]
  /\ recency = [w \in Workers |-> <<>>]
  /\ recalled = [r \in Requests |-> <<>>]
  /\ table = [w \in Workers |-> [t \in Threads |-> None]]
  /\ lock = [r \in Requests |-> None]
  /\ ahead = [r \in Requests |-> {}]
  /\ recorded = [r \in Requests |-> FALSE]
  /\ restarts = 0

-----------------------------------------------------------------------------
(* A request up to the point where its turn starts *)

Go(r, from, to) == stage[r] = from /\ stage' = [stage EXCEPT ![r] = to]

Send(r, e) == events' = [events EXCEPT ![r] = IF Contains(@, e) THEN @ ELSE Append(@, e)]

(* The request passes authentication and the ownership check, its language *)
(* is detected and announced.                                              *)
Open(r, t, w) ==
  /\ Go(r, "new", "routed")
  /\ thread' = [thread EXCEPT ![r] = t]
  /\ worker' = [worker EXCEPT ![r] = w]
  /\ Send(r, "language")
  /\ UNCHANGED <<failed, memoryVars, lockVars, recorded, restarts>>

(* Low confidence in the language: the clarifying question is the reply.   *)
(* Neither the lock nor the history is touched.                            *)
Clarify(r) ==
  /\ Go(r, "routed", "saved")
  /\ Send(r, "text")
  /\ UNCHANGED <<thread, worker, failed, memoryVars, lockVars, recorded, restarts>>

(* setdefault and the start of "async with": asyncio.Lock serves its       *)
(* waiters in the order they came.                                         *)
LockFor(r) ==
  LET l == table[worker[r]][thread[r]] IN IF l = None THEN r ELSE l

NotEnded == {r \in Requests : stage[r] \notin {"new", "closed"}}

Running == {r \in Requests : stage[r] \notin {"new", "closed", "gone"}}

InLine(l) == {r \in Running : lock[r] = l}

Enqueue(r) ==
  /\ Go(r, "routed", "waiting")
  /\ lock' = [lock EXCEPT ![r] = LockFor(r)]
  /\ table' = [table EXCEPT ![worker[r]][thread[r]] = LockFor(r)]
  /\ ahead' = [ahead EXCEPT ![r] = InLine(LockFor(r))]
  /\ UNCHANGED <<thread, worker, events, failed, memoryVars, recorded, restarts>>

NoWait(r) == TRUE

(* A request leaves the line when it ends, however it ends. *)
HasLock(r) == ahead[r] \cap InLine(lock[r]) = {}

Keys(w) == {t \in Threads : Contains(recency[w], t)}

Place(w, t) == CHOOSE i \in 1..Len(recency[w]) : recency[w][i] = t

(* Thread t becomes the most recent of the dictionary: move_to_end.        *)
Recent(w, t) ==
  Append(IF t \in Keys(w) THEN RemoveAt(recency[w], Place(w, t)) ELSE recency[w], t)

(* _stream_history_get. *)
Recall(r) ==
  /\ Go(r, "waiting", "streaming")
  /\ HasLock(r)
  /\ recalled' = [recalled EXCEPT ![r] = history[StoreOf(worker[r])][thread[r]]]
  /\ recency' = IF ~shared /\ thread[r] \in Keys(worker[r])
                THEN [recency EXCEPT ![worker[r]] = Recent(worker[r], thread[r])]
                ELSE recency
  /\ UNCHANGED <<thread, worker, events, failed, history, lockVars, recorded, restarts>>

-----------------------------------------------------------------------------
(* stream_turn.  Before a chunk was sent it may still change its mind.     *)

Spoken(r) == Contains(events[r], "text")

StreamStep(r) == UNCHANGED <<thread, worker, memoryVars, lockVars, recorded, restarts>>

Speak(r) ==
  /\ stage[r] = "streaming"
  /\ Send(r, "text")
  /\ UNCHANGED <<stage, failed>> /\ StreamStep(r)

(* The provider's stream ends, and what was held back goes out if there is *)
(* any.                                                                    *)
EndStream(r) ==
  /\ Go(r, "streaming", "checking")
  /\ \/ Send(r, "text")
     \/ UNCHANGED events
  /\ UNCHANGED failed /\ StreamStep(r)

(* The system prompt leaks: a fixed refusal goes out, the rest is dropped, *)
(* and no self-check follows.                                              *)
Leak(r) ==
  /\ Go(r, "streaming", "answered")
  /\ Send(r, "text")
  /\ UNCHANGED failed /\ StreamStep(r)

(* The first chunks are in the wrong script or language: one correction is *)
(* asked for.                                                              *)
Violate(r) ==
  /\ ~Spoken(r)
  /\ Go(r, "streaming", "correcting")
  /\ UNCHANGED <<events, failed>> /\ StreamStep(r)

(* The correction arrives, or the providers fail and the apology takes its *)
(* place; the turn does not count as failed then.                          *)
Correct(r) ==
  /\ Go(r, "correcting", "checking")
  /\ \E e \in {"text", "apology"} : Send(r, e)
  /\ UNCHANGED failed /\ StreamStep(r)

(* _ToolCallDetected: the turn is run again by run_turn, which streams     *)
(* nothing and returns an answer or an apology.                            *)
CallTool(r) ==
  /\ ~Spoken(r)
  /\ Go(r, "streaming", "calling")
  /\ UNCHANGED <<events, failed>> /\ StreamStep(r)

RunTurn(r) ==
  /\ Go(r, "calling", "answered")
  /\ \/ Send(r, "text") /\ UNCHANGED failed
     \/ failed' = [failed EXCEPT ![r] = TRUE] /\ UNCHANGED events
  /\ StreamStep(r)

(* Every provider failed, or the one that was streaming did.               *)
LoseProviders(r) ==
  /\ Go(r, "streaming", "answered")
  /\ failed' = [failed EXCEPT ![r] = TRUE]
  /\ UNCHANGED events /\ StreamStep(r)

(* The self-check comments on what was sent; it changes nothing, and its   *)
(* failure is swallowed.                                                   *)
SelfCheck(r) ==
  /\ Go(r, "checking", "answered")
  /\ UNCHANGED <<events, failed>> /\ StreamStep(r)

-----------------------------------------------------------------------------
(* The end of a request *)

Latest(h) == IF Len(h) > Keep THEN SubSeq(h, Len(h) - Keep + 1, Len(h)) ELSE h

Unbounded(r) == Append(recalled[r], r)

Remembered(r) == Latest(Append(recalled[r], r))

Evicted(w, t) ==
  IF Cardinality(Keys(w) \cup {t}) > ThreadCap THEN {Head(Recent(w, t))} ELSE {}

RecordAll(r) == TRUE
RecordSpoken(r) == ~failed[r] /\ Spoken(r)

Recordable(r) == ~failed[r]

StartRecord(r) == recorded' = [recorded EXCEPT ![r] = Recordable(r)]

(* _stream_history_set on the OrderedDict, the release of the lock, the    *)
(* start of record_turn and then the last event: nothing suspends in       *)
(* between.                                                                *)
SaveInMemory(r) ==
  LET w == worker[r]
      t == thread[r]
  IN
  /\ ~shared /\ ~failed[r]
  /\ Go(r, "answered", "closed")
  /\ history' = [history EXCEPT ![w] =
       [u \in Threads |-> IF u \in Evicted(w, t) THEN <<>>
                          ELSE IF u = t THEN Remembered(r) ELSE @[u]]]
  /\ recency' = [recency EXCEPT ![w] =
       IF Evicted(w, t) = {} THEN Recent(w, t) ELSE Tail(Recent(w, t))]
  /\ table' = [table EXCEPT ![w] = [u \in Threads |-> IF u \in Evicted(w, t) THEN None ELSE @[u]]]
  /\ StartRecord(r)
  /\ Send(r, "done")
  /\ UNCHANGED <<thread, worker, failed, recalled, lock, ahead, restarts>>

(* The same in Redis, whose SET is awaited before the rest.                *)
SaveInRedis(r) ==
  /\ shared /\ ~failed[r]
  /\ Go(r, "answered", "saved")
  /\ history' = [history EXCEPT !["redis"][thread[r]] = Remembered(r)]
  /\ UNCHANGED <<thread, worker, events, failed, recency, recalled, lockVars, recorded, restarts>>

(* A failed turn is neither remembered nor recorded.                       *)
Close(r) ==
  /\ Go(r, IF failed[r] THEN "answered" ELSE "saved", "closed")
  /\ StartRecord(r)
  /\ Send(r, IF failed[r] THEN "failed" ELSE "done")
  /\ UNCHANGED <<thread, worker, failed, memoryVars, lockVars, restarts>>

-----------------------------------------------------------------------------
(* What may go wrong around it *)

(* The client goes away, or Redis raises: the generator ends where it is,  *)
(* and its lock is released.                                               *)
Abort(r) ==
  /\ r \in Running
  /\ \/ ClientsLeave
     \/ shared /\ stage[r] = "waiting" /\ HasLock(r)
     \/ shared /\ stage[r] = "answered" /\ ~failed[r]
  /\ stage' = [stage EXCEPT ![r] = "gone"]
  /\ UNCHANGED <<thread, worker, events, failed, memoryVars, lockVars, recorded, restarts>>

(* The hour of a Redis key is over. *)
Expire(t) ==
  /\ shared /\ history["redis"][t] # <<>>
  /\ history' = [history EXCEPT !["redis"][t] = <<>>]
  /\ UNCHANGED <<turnVars, recency, recalled, lockVars, recorded, restarts>>

Served(w) == {r \in Requests : worker[r] = w}

Restart(w) ==
  /\ restarts < MaxRestarts
  /\ restarts' = restarts + 1
  /\ stage' = [r \in Requests |-> IF r \in Served(w) \cap Running THEN "gone" ELSE stage[r]]
  /\ table' = [table EXCEPT ![w] = [t \in Threads |-> None]]
  /\ history' = [history EXCEPT ![w] = [t \in Threads |-> <<>>]]
  /\ recency' = [recency EXCEPT ![w] = <<>>]
  /\ UNCHANGED <<thread, worker, events, failed, recalled, lock, ahead, recorded>>

-----------------------------------------------------------------------------
Begin(r) == \E t \in Threads, w \in Workers : Open(r, t, w)

Answer(r) ==
  \/ Speak(r) \/ EndStream(r) \/ Leak(r) \/ Violate(r) \/ Correct(r)
  \/ CallTool(r) \/ RunTurn(r) \/ LoseProviders(r) \/ SelfCheck(r)

Step(r) ==
  \/ Clarify(r) \/ Enqueue(r) \/ Recall(r) \/ Answer(r)
  \/ SaveInMemory(r) \/ SaveInRedis(r) \/ Close(r)

AnyStep ==
  \/ \E r \in Requests : Begin(r) \/ Step(r) \/ Abort(r)
  \/ \E t \in Threads : Expire(t)
  \/ \E w \in Workers : Restart(w)

Next == AnyStep /\ UNCHANGED shared

Spec == Init /\ [][Next]_vars

-----------------------------------------------------------------------------
(* Properties *)

InTurn == {"streaming", "correcting", "calling", "checking", "answered"}

TypeOK ==
  /\ shared \in BOOLEAN
  /\ stage \in [Requests -> {"new", "routed", "waiting", "saved", "closed", "gone"} \cup InTurn]
  /\ thread \in [Requests -> Threads \cup {None}]
  /\ worker \in [Requests -> Workers \cup {None}]
  /\ events \in [Requests -> Seq({"language", "text", "apology", "done", "failed"})]
  /\ failed \in [Requests -> BOOLEAN]
  /\ history \in [Stores -> [Threads -> Seq(Requests)]]
  /\ recency \in [Workers -> Seq(Threads)]
  /\ recalled \in [Requests -> Seq(Requests)]
  /\ table \in [Workers -> [Threads -> Requests \cup {None}]]
  /\ lock \in [Requests -> Requests \cup {None}]
  /\ ahead \in [Requests -> SUBSET Requests]
  /\ recorded \in [Requests -> BOOLEAN]
  /\ restarts \in Nat

(* "A per-key lock ... serializes same-thread turns" (main.py:141-142):    *)
(* of two requests of one thread in one process, one at most is between    *)
(* reading the history and writing it.                                     *)
OneTurnAtATime ==
  \A r, q \in Requests :
    /\ stage[r] \in InTurn /\ stage[q] \in InTurn
    /\ worker[r] = worker[q] /\ thread[r] = thread[q]
    => r = q

(* What the lines keep while no lock is evicted: everyone in line for a    *)
(* thread uses the lock of the table, and one of any two in a line came    *)
(* first.  The invariant behind OneTurnAtATime (main.py:443-444).          *)
Queued == {r \in Running : lock[r] # None}

LockInv ==
  /\ TypeOK
  /\ \A r \in Requests :
       /\ stage[r] \in {"new", "routed"} => lock[r] = None
       /\ stage[r] \in {"waiting"} \cup InTurn => lock[r] # None
       /\ stage[r] # "new" => thread[r] \in Threads /\ worker[r] \in Workers
       /\ \A q \in ahead[r] : lock[q] # None
  /\ \A r \in Queued :
       /\ table[worker[r]][thread[r]] = lock[r]
       /\ stage[r] # "waiting" => HasLock(r)
  /\ \A r, q \in Queued : r # q /\ lock[r] = lock[q] => r \in ahead[q] \/ q \in ahead[r]

(* The lock of a thread is passed on however its holder ends: in every     *)
(* line there is a live request that holds the lock (main.py:443-488).     *)
LineMoves ==
  \A r \in Requests : stage[r] = "waiting" =>
    \E q \in Requests :
      lock[q] = lock[r] /\ stage[q] \notin {"closed", "gone"} /\ HasLock(q)

(* No turn overwrites another (main.py:136-142): what a process remembers  *)
(* changes as ThreadMemory allows, whatever requests overlap or end early. *)
(* Of the histories in Redis this is not promised: the locks are local to  *)
(* a process (main.py:143-146).                                            *)
Memory == [w \in Workers |-> history[w]]

TM == INSTANCE ThreadMemory WITH Stores <- Workers, Turns <- Requests, memory <- Memory

ImplementsThreadMemory == TM!Spec

InHistory(r) == \E s \in Stores, t \in Threads : Contains(history[s][t], r)

(* A turn that is reported as an error leaves no trace: it "is shown to    *)
(* the user but never persisted", and is not remembered (main.py:468-471,  *)
(* 490-491); and a turn is recorded in the step that sends its "done", so  *)
(* not if its client left before (main.py:492-514).  The apology of a      *)
(* failed correction is not reported as an error: ApologyNotKept.          *)
ErrorsLeaveNoTrace ==
  \A r \in Requests :
    /\ failed[r] => ~InHistory(r) /\ ~recorded[r]
    /\ recorded[r] => Last(events[r]) = "done"

(* "an apology that wasn't really an answer" does not bias the next turn's *)
(* context, and is not persisted (main.py:468-471, task_agent.py:716-720). *)
ApologyNotKept ==
  \A r \in Requests : Contains(events[r], "apology") => ~InHistory(r) /\ ~recorded[r]

(* Without Redis nothing comes between remembering a turn and starting to  *)
(* record it (main.py:479-499): a client that leaves cannot make the agent *)
(* remember a turn its conversation does not show.                         *)
RememberedIsRecorded ==
  ~shared => \A r \in Requests : InHistory(r) => recorded[r]
=============================================================================
