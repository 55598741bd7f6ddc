-------------------------- MODULE ChatStreamProofs --------------------------
(***************************************************************************)
(* The turns of a thread are serialised and its line moves, no turn is     *)
(* lost from a history, one reported as an error leaves no trace and one   *)
(* that is remembered was recorded, for any number of requests, threads    *)
(* and workers, as long as no thread is evicted: with Redis, or with no    *)
(* more threads than _STREAM_HISTORY_MAX_THREADS.                          *)
(***************************************************************************)
EXTENDS ChatStream, TLAPS, FiniteSetTheorems, SequenceTheorems, WellFoundedInduction

(* There is room for every thread in the dictionaries of a process, or     *)
(* Redis keeps the histories and nothing is evicted.                       *)
Roomy == shared \/ (IsFiniteSet(Threads) /\ Cardinality(Threads) <= ThreadCap)

(* Where there is room, nothing is evicted. *)
LEMMA NoEviction ==
  ASSUME Roomy, ~shared, NEW w \in Workers, NEW t \in Threads
  PROVE  Evicted(w, t) = {}
<1>1. Keys(w) \cup {t} \subseteq Threads
  BY DEF Keys
<1>2. Cardinality(Keys(w) \cup {t}) \in Nat /\ Cardinality(Threads) \in Nat
      /\ Cardinality(Keys(w) \cup {t}) <= Cardinality(Threads)
  BY <1>1, FS_Subset, FS_CardinalityType DEF Roomy
<1> QED  BY <1>2, ChatStreamAssumption DEF Roomy, Evicted

LEMMA RecentType ==
  ASSUME recency \in [Workers -> Seq(Threads)], NEW w \in Workers, NEW t \in Threads
  PROVE  Recent(w, t) \in Seq(Threads) /\ Recent(w, t) # <<>>
<1> DEFINE p == Place(w, t)
<1>1. recency[w] \in Seq(Threads)
  OBVIOUS
<1>2. CASE t \in Keys(w)
  <2>1. p \in 1..Len(recency[w])
    BY <1>2 DEF Keys, Contains, Place
  <2> HIDE DEF p
  <2>2. SubSeq(recency[w], 1, p - 1) \in Seq(Threads) /\ SubSeq(recency[w], p + 1, Len(recency[w])) \in Seq(Threads)
    BY <1>1, <2>1
  <2>3. RemoveAt(recency[w], p) \in Seq(Threads)
    BY <2>2 DEF RemoveAt
  <2> QED  BY <1>2, <2>3 DEF Recent, p
<1>3. CASE t \notin Keys(w)
  BY <1>1, <1>3 DEF Recent
<1> QED  BY <1>2, <1>3

LEMMA LatestType ==
  ASSUME NEW h \in Seq(Requests)
  PROVE  Latest(h) \in Seq(Requests)
<1>1. CASE Len(h) > Keep
  <2>1. Len(h) - Keep + 1 \in 1..(Len(h) + 1) /\ Len(h) \in Nat
    BY <1>1, ChatStreamAssumption
  <2> QED  BY <1>1, <2>1 DEF Latest
<1>2. CASE ~(Len(h) > Keep)
  BY <1>2 DEF Latest
<1> QED  BY <1>1, <1>2

LEMMA RememberedType ==
  ASSUME TypeOK, NEW r \in Requests
  PROVE  Remembered(r) \in Seq(Requests)
<1>1. Append(recalled[r], r) \in Seq(Requests)
  BY DEF TypeOK
<1> QED  BY <1>1, LatestType DEF Remembered

(* A request that moves on, or ends, without touching a lock. *)
LEMMA MoveOn ==
  ASSUME LockInv, TypeOK', NEW r \in Requests, NEW to,
         UNCHANGED <<thread, worker, table, lock, ahead>>,
         stage' = [stage EXCEPT ![r] = to],
         to \in {"saved", "closed", "gone"} \cup InTurn,
         r \in Running,
         to \in InTurn => lock[r] # None,
         to \in {"saved"} \cup InTurn /\ lock[r] # None => HasLock(r)
  PROVE  LockInv'
<1> USE DEF LockInv
<1>1. Running' \subseteq Running /\ Queued' \subseteq Queued
  BY DEF Running, Queued, TypeOK
<1>2. \A l : InLine(l)' \subseteq InLine(l)
  BY <1>1 DEF InLine
<1>3. \A q \in Requests : HasLock(q) => HasLock(q)'
  BY <1>2 DEF HasLock
<1>4. \A q \in Requests : q # r => stage'[q] = stage[q]
  BY DEF TypeOK
<1>5. stage'[r] = to /\ stage[r] # "new"
  BY DEF TypeOK, Running
<1>6. \A q \in Queued' : stage'[q] # "waiting" => HasLock(q)'
  <2> TAKE q \in Queued'
  <2>1. q \in Queued /\ q \in Requests
    BY <1>1 DEF Queued, Running
  <2>2. CASE q = r
    <3>1. to \in {"saved"} \cup InTurn /\ lock[r] # None
      BY <2>1, <2>2, <1>5 DEF Queued, Running
    <3> QED  BY <3>1, <2>2, <1>3
  <2>3. CASE q # r
    BY <2>1, <2>3, <1>3, <1>4
  <2> QED  BY <2>2, <2>3
<1>7. \A q \in Requests :
        /\ stage'[q] \in {"new", "routed"} => lock'[q] = None
        /\ stage'[q] \in {"waiting"} \cup InTurn => lock'[q] # None
        /\ stage'[q] # "new" => thread'[q] \in Threads /\ worker'[q] \in Workers
        /\ \A p \in ahead'[q] : lock'[p] # None
  <2> TAKE q \in Requests
  <2>1. CASE q = r
    BY <2>1, <1>5 DEF InTurn
  <2>2. CASE q # r
    BY <2>2, <1>4 DEF InTurn
  <2> QED  BY <2>1, <2>2
<1>8. InTurn' = InTurn
  BY DEF InTurn
<1> QED  BY <1>1, <1>6, <1>7, <1>8

LEMMA EventTypes ==
  ASSUME TypeOK, NEW r \in Requests, NEW e \in {"language", "text", "apology", "done", "failed"}
  PROVE  (IF Contains(events[r], e) THEN events[r] ELSE Append(events[r], e))
         \in Seq({"language", "text", "apology", "done", "failed"})
BY DEF TypeOK

LEMMA OpenStep ==
  ASSUME LockInv, NEW r \in Requests, NEW t \in Threads, NEW w \in Workers, Open(r, t, w), shared' = shared
  PROVE  LockInv'
<1> USE ChatStreamAssumption DEF LockInv
<1>1. TypeOK'
  BY EventTypes DEF Open, Go, Send, TypeOK, memoryVars, lockVars
<1>2. /\ UNCHANGED <<table, lock, ahead>>
      /\ stage[r] = "new" /\ lock[r] = None
      /\ stage'[r] = "routed" /\ thread'[r] = t /\ worker'[r] = w
      /\ \A q \in Requests : q # r => stage'[q] = stage[q] /\ thread'[q] = thread[q] /\ worker'[q] = worker[q]
  BY DEF Open, Go, lockVars, TypeOK
<1>3. Queued' = Queued /\ r \notin Queued
  BY <1>2 DEF Queued, Running
<1>4. \A q \in Requests : HasLock(q) => HasLock(q)'
  <2> TAKE q \in Requests
  <2>1. \A p \in ahead[q] : p # r
    BY <1>2
  <2>2. ahead[q] \cap InLine(lock[q])' \subseteq ahead[q] \cap InLine(lock[q])
    BY <1>2, <2>1 DEF InLine, Running
  <2> QED  BY <1>2, <2>2 DEF HasLock
<1>5. \A q \in Requests :
        /\ stage'[q] \in {"new", "routed"} => lock'[q] = None
        /\ stage'[q] \in {"waiting"} \cup InTurn => lock'[q] # None
        /\ stage'[q] # "new" => thread'[q] \in Threads /\ worker'[q] \in Workers
        /\ \A p \in ahead'[q] : lock'[p] # None
  BY <1>2 DEF InTurn
<1>6. \A q \in Queued' :
        /\ table'[worker'[q]][thread'[q]] = lock'[q]
        /\ stage'[q] # "waiting" => HasLock(q)'
  BY <1>2, <1>3, <1>4 DEF Queued, Running
<1>7. InTurn' = InTurn
  BY DEF InTurn
<1> QED  BY <1>1, <1>2, <1>3, <1>5, <1>6, <1>7

(* A step that leaves the lines and the stages alone. *)
LEMMA Aside ==
  ASSUME LockInv, TypeOK', UNCHANGED <<stage, thread, worker, table, lock, ahead>>
  PROVE  LockInv'
<1>1. Queued' = Queued /\ (\A l : InLine(l)' = InLine(l)) /\ InTurn' = InTurn
  BY DEF Queued, Running, InLine, InTurn
<1>2. \A q \in Requests : HasLock(q)' = HasLock(q)
  BY <1>1 DEF HasLock
<1>3. Queued \subseteq Requests
  BY DEF Queued, Running
<1> QED  BY <1>1, <1>2, <1>3 DEF LockInv

LEMMA EnqueueStep ==
  ASSUME LockInv, NEW r \in Requests, Enqueue(r), shared' = shared
  PROVE  LockInv'
<1> USE ChatStreamAssumption DEF LockInv
<1> DEFINE l == LockFor(r)
           w == worker[r]
           t == thread[r]
<1>1. /\ stage[r] = "routed" /\ lock[r] = None /\ w \in Workers /\ t \in Threads
      /\ UNCHANGED <<thread, worker, events, failed, history, recency, recalled, recorded, restarts>>
  BY DEF Enqueue, Go, memoryVars
<1>2. l \in Requests /\ (table[w][t] # None => l = table[w][t])
  BY <1>1 DEF LockFor, TypeOK
<1>3. /\ stage' = [stage EXCEPT ![r] = "waiting"]
      /\ lock' = [lock EXCEPT ![r] = l]
      /\ table' = [table EXCEPT ![w][t] = l]
      /\ ahead' = [ahead EXCEPT ![r] = InLine(l)]
  BY DEF Enqueue, Go
<1> HIDE DEF l
<1>4. TypeOK'
  BY <1>1, <1>2, <1>3 DEF TypeOK, InLine, Running
<1>5. /\ stage'[r] = "waiting" /\ lock'[r] = l /\ table'[w][t] = l /\ ahead'[r] = InLine(l)
      /\ \A q \in Requests : q # r => stage'[q] = stage[q] /\ lock'[q] = lock[q] /\ ahead'[q] = ahead[q]
      /\ \A v \in Workers, u \in Threads : v # w \/ u # t => table'[v][u] = table[v][u]
  BY <1>1, <1>2, <1>3 DEF TypeOK
<1>6. Queued' = Queued \cup {r} /\ r \notin Queued /\ Queued \subseteq Requests
  BY <1>1, <1>2, <1>5 DEF Queued, Running
<1>7. \A q \in Requests : q # r /\ HasLock(q) => HasLock(q)'
  <2> TAKE q \in Requests
  <2>1. r \notin ahead[q]
    BY <1>1
  <2>2. ahead[q] \subseteq Requests
    BY DEF TypeOK
  <2> QED  BY <1>5, <2>1, <2>2 DEF HasLock, InLine, Running
<1>8. \A q \in Requests :
        /\ stage'[q] \in {"new", "routed"} => lock'[q] = None
        /\ stage'[q] \in {"waiting"} \cup InTurn => lock'[q] # None
        /\ stage'[q] # "new" => thread'[q] \in Threads /\ worker'[q] \in Workers
        /\ \A p \in ahead'[q] : lock'[p] # None
  <2> TAKE q \in Requests
  <2>1. ahead[q] \subseteq Requests /\ \A p \in ahead[q] : p # r
    BY <1>1 DEF TypeOK
  <2>2. CASE q = r
    <3>1. \A p \in InLine(l) : p \in Requests /\ p # r /\ lock[p] # None
      BY <1>1, <1>2 DEF InLine, Running
    <3> QED  BY <2>2, <3>1, <1>1, <1>2, <1>5 DEF InTurn
  <2>3. CASE q # r
    BY <2>1, <2>3, <1>1, <1>5 DEF InTurn
  <2> QED  BY <2>2, <2>3
<1>9. \A q \in Queued' :
        /\ table'[worker'[q]][thread'[q]] = lock'[q]
        /\ stage'[q] # "waiting" => HasLock(q)'
  <2> TAKE q \in Queued'
  <2>1. CASE q = r
    BY <2>1, <1>1, <1>5
  <2>2. CASE q # r
    <3>1. q \in Queued /\ worker[q] \in Workers /\ thread[q] \in Threads /\ lock[q] # None
      BY <2>2, <1>6 DEF Queued, Running
    <3>2. worker[q] = w /\ thread[q] = t => lock[q] = l
      BY <3>1, <1>2
    <3> QED  BY <2>2, <3>1, <3>2, <1>1, <1>5, <1>6, <1>7
  <2> QED  BY <2>1, <2>2
<1>10. \A q, p \in Queued' : q # p /\ lock'[q] = lock'[p] => q \in ahead'[p] \/ p \in ahead'[q]
  <2>1. \A q \in Queued : lock[q] = l => q \in InLine(l)
    BY DEF Queued, InLine
  <2> QED  BY <2>1, <1>5, <1>6
<1>11. InTurn' = InTurn
  BY DEF InTurn
<1> QED  BY <1>4, <1>8, <1>9, <1>10, <1>11

(* Every step inside stream_turn, and the end of a turn. *)
LEMMA TurnStep ==
  ASSUME LockInv, Roomy, shared' = shared, NEW r \in Requests,
         Clarify(r) \/ Recall(r) \/ Answer(r) \/ SaveInRedis(r) \/ Close(r) \/ Abort(r)
  PROVE  LockInv'
<1> USE ChatStreamAssumption
<1>0. TypeOK /\ (stage[r] \in InTurn => HasLock(r) /\ lock[r] # None)
      /\ (stage[r] = "routed" => lock[r] = None)
      /\ (stage[r] \notin {"new", "closed", "gone"} => r \in Running)
      /\ (stage[r] # "new" => thread[r] \in Threads /\ worker[r] \in Workers)
  BY DEF LockInv, Queued, Running, InTurn
<1>1. CASE Clarify(r)
  <2>1. TypeOK'
    BY <1>1, <1>0, EventTypes DEF Clarify, Go, Send, TypeOK, memoryVars, lockVars
  <2> QED  BY <2>1, <1>1, <1>0, MoveOn DEF Clarify, Go, lockVars, InTurn
<1>2. CASE Recall(r)
  <2>1. stage[r] = "waiting" /\ worker[r] \in Workers /\ thread[r] \in Threads /\ lock[r] # None
    BY <1>2, <1>0 DEF Recall, Go, LockInv
  <2>2. Recent(worker[r], thread[r]) \in Seq(Threads)
    BY <2>1, <1>0, RecentType DEF TypeOK
  <2>3. StoreOf(worker[r]) \in Stores
    BY <2>1 DEF StoreOf, Stores
  <2>4. TypeOK'
    BY <1>2, <1>0, <2>1, <2>2, <2>3 DEF Recall, Go, TypeOK, lockVars, InTurn
  <2> QED  BY <2>1, <2>4, <1>2, <1>0, MoveOn DEF Recall, Go, lockVars, InTurn
<1>3. CASE Answer(r)
  <2>1. TypeOK'
    <3> DEFINE Events == {"language", "text", "apology", "done", "failed"}
    <3>1. UNCHANGED <<thread, worker, history, recency, recalled, table, lock, ahead, recorded, restarts>>
      BY <1>3 DEF Answer, Speak, EndStream, Leak, Violate, Correct, CallTool, RunTurn,
           LoseProviders, SelfCheck, StreamStep, memoryVars, lockVars
    <3>2. stage' = stage \/ \E to \in InTurn : stage' = [stage EXCEPT ![r] = to]
      BY <1>3 DEF Answer, Speak, EndStream, Leak, Violate, Correct, CallTool, RunTurn,
           LoseProviders, SelfCheck, Go, InTurn
    <3>3. events' = events \/ \E e \in {"text", "apology"} : events' = [events EXCEPT ![r] = IF Contains(@, e) THEN @ ELSE Append(@, e)]
      BY <1>3 DEF Answer, Speak, EndStream, Leak, Violate, Correct, CallTool, RunTurn,
           LoseProviders, SelfCheck, Send
    <3>4. failed' = failed \/ failed' = [failed EXCEPT ![r] = TRUE]
      BY <1>3 DEF Answer, Speak, EndStream, Leak, Violate, Correct, CallTool, RunTurn,
           LoseProviders, SelfCheck
    <3>5. stage' \in [Requests -> {"new", "routed", "waiting", "saved", "closed", "gone"} \cup InTurn]
      BY <1>0, <3>2 DEF TypeOK, InTurn
    <3>6. events' \in [Requests -> Seq(Events)]
      <4>1. \A e \in {"text", "apology"} :
              (IF Contains(events[r], e) THEN events[r] ELSE Append(events[r], e)) \in Seq(Events)
        BY <1>0, EventTypes
      <4>2. events \in [Requests -> Seq(Events)]
        BY <1>0 DEF TypeOK
      <4> QED  BY <3>3, <4>1, <4>2
    <3>7. InTurn' = InTurn
      BY DEF InTurn
    <3> QED  BY <1>0, <3>1, <3>4, <3>5, <3>6, <3>7 DEF TypeOK
  <2>2. CASE Speak(r)
    BY <2>1, <2>2, Aside DEF Speak, StreamStep, lockVars
  <2>3. CASE ~Speak(r)
    <3>1. PICK to \in InTurn : stage' = [stage EXCEPT ![r] = to]
      BY <1>3, <2>3 DEF Answer, EndStream, Leak, Violate, Correct, CallTool, RunTurn, LoseProviders,
           SelfCheck, Go, InTurn
    <3>2. stage[r] \in InTurn /\ UNCHANGED <<thread, worker, table, lock, ahead>>
      BY <1>3, <2>3 DEF Answer, EndStream, Leak, Violate, Correct, CallTool, RunTurn, LoseProviders,
           SelfCheck, Go, InTurn, StreamStep, lockVars
    <3>3. r \in Running /\ lock[r] # None /\ HasLock(r)
      BY <3>2, <1>0 DEF InTurn
    <3> QED  BY <2>1, <3>1, <3>2, <3>3, MoveOn
  <2> QED  BY <2>2, <2>3
<1>4. CASE SaveInRedis(r)
  <2>1. thread[r] \in Threads /\ Remembered(r) \in Seq(Requests) /\ "redis" \in Stores
    BY <1>4, <1>0, RememberedType DEF SaveInRedis, Go, Stores
  <2>2. TypeOK'
    BY <1>4, <1>0, <2>1 DEF SaveInRedis, Go, TypeOK, lockVars
  <2> QED  BY <2>2, <1>4, <1>0, MoveOn DEF SaveInRedis, Go, lockVars, InTurn
<1>5. CASE Close(r)
  <2>1. TypeOK'
    BY <1>5, <1>0, EventTypes DEF Close, Go, Send, StartRecord, Recordable, TypeOK, memoryVars, lockVars
  <2>2. stage' = [stage EXCEPT ![r] = "closed"] /\ r \in Running
    BY <1>5, <1>0 DEF Close, Go
  <2> QED  BY <2>1, <2>2, <1>5, MoveOn DEF Close, lockVars, InTurn
<1>6. CASE Abort(r)
  <2>1. TypeOK'
    BY <1>6, <1>0 DEF Abort, TypeOK, memoryVars, lockVars
  <2> QED  BY <2>1, <1>6, MoveOn DEF Abort, lockVars, InTurn
<1> QED  BY <1>1, <1>2, <1>3, <1>4, <1>5, <1>6

LEMMA SaveStep ==
  ASSUME LockInv, Roomy, shared' = shared, NEW r \in Requests, SaveInMemory(r)
  PROVE  LockInv'
<1> USE ChatStreamAssumption DEF LockInv
<1> DEFINE w == worker[r]
           t == thread[r]
<1>1. w \in Workers /\ t \in Threads /\ r \in Running /\ stage[r] = "answered"
  BY DEF SaveInMemory, Go, Running
<1>2. Evicted(w, t) = {} /\ Recent(w, t) \in Seq(Threads)
  BY <1>1, NoEviction, RecentType DEF SaveInMemory, TypeOK
<1>3. table' = table
  BY <1>1, <1>2 DEF SaveInMemory, TypeOK
<1>4. Remembered(r) \in Seq(Requests) /\ w \in Stores
  BY <1>1, RememberedType DEF Stores
<1>5. history' \in [Stores -> [Threads -> Seq(Requests)]]
  BY <1>1, <1>2, <1>4 DEF SaveInMemory, TypeOK
<1>6. TypeOK'
  BY <1>1, <1>2, <1>3, <1>5, EventTypes DEF SaveInMemory, Go, Send, StartRecord, Recordable, TypeOK
<1> QED  BY <1>1, <1>3, <1>6, MoveOn DEF SaveInMemory, Go, InTurn

LEMMA RestartStep ==
  ASSUME LockInv, NEW w \in Workers, Restart(w), shared' = shared
  PROVE  LockInv'
<1> USE ChatStreamAssumption DEF LockInv
<1>1. TypeOK'
  <2>1. stage' \in [Requests -> {"new", "routed", "waiting", "saved", "closed", "gone"} \cup InTurn]
    BY DEF Restart, TypeOK
  <2>2. recorded' \in [Requests -> BOOLEAN]
    BY DEF Restart, TypeOK
  <2>3. /\ table' \in [Workers -> [Threads -> Requests \cup {None}]]
        /\ recency' \in [Workers -> Seq(Threads)]
    BY DEF Restart, TypeOK
  <2>4. w \in Stores /\ [t \in Threads |-> <<>>] \in [Threads -> Seq(Requests)]
    BY DEF Stores
  <2>5. history' \in [Stores -> [Threads -> Seq(Requests)]]
    BY <2>4 DEF Restart, TypeOK
  <2>6. InTurn' = InTurn /\ restarts' \in Nat
    BY DEF InTurn, Restart, TypeOK
  <2> QED  BY <2>1, <2>2, <2>3, <2>5, <2>6 DEF Restart, TypeOK
<1>2. /\ UNCHANGED <<thread, worker, lock, ahead>>
      /\ \A q \in Requests : stage'[q] = IF q \in Served(w) \cap Running THEN "gone" ELSE stage[q]
      /\ \A v \in Workers : v # w => table'[v] = table[v]
  BY DEF Restart, TypeOK
<1>3. Running' = Running \ Served(w) /\ Queued' = Queued \ Served(w) /\ Running \subseteq Requests
  BY <1>2 DEF Running, Queued
<1>4. \A q \in Requests : HasLock(q) => HasLock(q)'
  BY <1>2, <1>3 DEF HasLock, InLine
<1>5. \A q \in Queued' : q \in Queued /\ worker[q] # w /\ stage'[q] = stage[q] /\ worker[q] \in Workers
  BY <1>2, <1>3 DEF Served, Queued, Running
<1>6. \A q \in Requests :
        /\ stage'[q] \in {"new", "routed"} => lock'[q] = None
        /\ stage'[q] \in {"waiting"} \cup InTurn => lock'[q] # None
        /\ stage'[q] # "new" => thread'[q] \in Threads /\ worker'[q] \in Workers
        /\ \A p \in ahead'[q] : lock'[p] # None
  BY <1>2 DEF InTurn, Running
<1>7. \A q \in Queued' :
        /\ table'[worker'[q]][thread'[q]] = lock'[q]
        /\ stage'[q] # "waiting" => HasLock(q)'
  BY <1>2, <1>4, <1>5 DEF Queued, Running
<1>8. InTurn' = InTurn
  BY DEF InTurn
<1> QED  BY <1>1, <1>2, <1>3, <1>6, <1>7, <1>8

LEMMA StepLock ==
  ASSUME Roomy, LockInv, [Next]_vars
  PROVE  LockInv'
<1>0. TypeOK /\ shared' = shared
  BY DEF LockInv, Next, vars
<1>1. ASSUME NEW r \in Requests, Begin(r) \/ Step(r) \/ Abort(r) PROVE LockInv'
  <2>1. CASE Begin(r)
    BY <1>0, <2>1, OpenStep DEF Begin
  <2>2. CASE Enqueue(r)
    BY <1>0, <2>2, EnqueueStep
  <2>3. CASE SaveInMemory(r)
    BY <1>0, <2>3, SaveStep
  <2>4. CASE Clarify(r) \/ Recall(r) \/ Answer(r) \/ SaveInRedis(r) \/ Close(r) \/ Abort(r)
    BY <1>0, <2>4, TurnStep
  <2> QED  BY <1>1, <2>1, <2>2, <2>3, <2>4 DEF Step
<1>2. ASSUME NEW t \in Threads, Expire(t) PROVE LockInv'
  <2>1. "redis" \in Stores /\ <<>> \in Seq(Requests)
    BY DEF Stores
  <2>2. TypeOK'
    BY <1>0, <1>2, <2>1 DEF Expire, TypeOK, turnVars, lockVars
  <2> QED  BY <2>2, <1>2, Aside DEF Expire, turnVars, lockVars
<1>3. ASSUME NEW w \in Workers, Restart(w) PROVE LockInv'
  BY <1>0, <1>3, RestartStep
<1>4. CASE UNCHANGED vars
  <2>1. TypeOK'
    BY <1>0, <1>4 DEF TypeOK, vars, InTurn
  <2> QED  BY <2>1, <1>4, Aside DEF vars
<1> QED  BY <1>1, <1>2, <1>3, <1>4 DEF Next, AnyStep

LEMMA StillRoomy == Roomy /\ [Next]_vars => Roomy'
BY DEF Roomy, Next, vars

(* LockInv holds as long as there is room for every thread, and always     *)
(* with Redis.                                                             *)
THEOREM LockInvariant == Spec /\ Roomy => []LockInv
<1>1. Init => LockInv
  BY ChatStreamAssumption DEF Init, LockInv, TypeOK, Queued, Running, InTurn
<1>2. Roomy /\ LockInv /\ [Next]_vars => Roomy' /\ LockInv'
  BY StepLock, StillRoomy
<1> QED  BY <1>1, <1>2, PTL DEF Spec

LEMMA OneHolder == LockInv => OneTurnAtATime
<1> SUFFICES ASSUME LockInv, NEW r \in Requests, NEW q \in Requests,
                    stage[r] \in InTurn, stage[q] \in InTurn,
                    worker[r] = worker[q], thread[r] = thread[q], r # q
             PROVE  FALSE
  BY DEF OneTurnAtATime
<1>1. r \in Queued /\ q \in Queued
  BY DEF LockInv, Queued, Running, InTurn
<1>2. lock[r] = lock[q] /\ HasLock(r) /\ HasLock(q)
  BY <1>1 DEF LockInv, InTurn
<1>3. r \in ahead[q] \/ q \in ahead[r]
  BY <1>1, <1>2 DEF LockInv
<1> QED  BY <1>1, <1>2, <1>3 DEF HasLock, InLine, Queued

(* The turns of a thread are serialised in each process (main.py:443-444). *)
THEOREM Serialized == Spec /\ Roomy => []OneTurnAtATime
BY OneHolder, LockInvariant, PTL

-----------------------------------------------------------------------------
(* Without Redis the histories are a ThreadMemory.                         *)

(* A turn in progress holds the history as it still is, and a history      *)
(* holds turns that are over.                                              *)
Fresh == \A r \in Requests : stage[r] \in InTurn => recalled[r] = history[worker[r]][thread[r]]
Past == \A s \in Stores, t \in Threads :
          \A i \in 1..Len(history[s][t]) : stage[history[s][t][i]] = "closed"

MemoryInv == LockInv /\ Fresh /\ Past

(* A step that changes no history, and the stages of r only, when r is not *)
(* over yet.                                                               *)
LEMMA StillPast ==
  ASSUME MemoryInv, NEW r \in Requests, NEW to, history' = history,
         stage' = [stage EXCEPT ![r] = to], stage[r] # "closed"
  PROVE  Past'
<1>1. \A s \in Stores, t \in Threads : history[s][t] \in Seq(Requests)
  BY DEF MemoryInv, LockInv, TypeOK
<1>2. \A s \in Stores, t \in Threads : \A i \in 1..Len(history[s][t]) :
        history[s][t][i] \in Requests /\ history[s][t][i] # r
  BY <1>1 DEF MemoryInv, Past
<1>3. \A q \in Requests : q # r => stage'[q] = stage[q]
  BY DEF MemoryInv, LockInv, TypeOK
<1> QED  BY <1>2, <1>3 DEF MemoryInv, Past, Stores

LEMMA StillFresh ==
  ASSUME MemoryInv, NEW r \in Requests, NEW to,
         UNCHANGED <<thread, worker, history, recalled>>,
         stage' = [stage EXCEPT ![r] = to], to \in InTurn => stage[r] \in InTurn
  PROVE  Fresh'
<1>1. InTurn' = InTurn
  BY DEF InTurn
<1> QED  BY <1>1 DEF MemoryInv, Fresh, LockInv, TypeOK

LEMMA SaveMemory ==
  ASSUME Roomy, ~shared, MemoryInv, NEW r \in Requests, SaveInMemory(r)
  PROVE  Fresh' /\ Past' /\ \E w \in Workers, t \in Threads : TM!Add(w, t, r)
<1> DEFINE w == worker[r]
           t == thread[r]
           new == Latest(Append(history[w][t], r))
<1>1. /\ w \in Workers /\ t \in Threads /\ w \in Stores /\ stage[r] = "answered"
      /\ history[w][t] \in Seq(Requests) /\ recalled[r] = history[w][t]
  BY DEF SaveInMemory, Go, MemoryInv, LockInv, Fresh, InTurn, TypeOK, Stores
<1>2. Evicted(w, t) = {}
  BY <1>1, NoEviction
<1>3. history' = [history EXCEPT ![w] = [u \in Threads |-> IF u = t THEN new ELSE @[u]]]
  BY <1>1, <1>2 DEF SaveInMemory, Remembered
<1>4. /\ new \in Seq(Requests)
      /\ \A i \in 1..Len(new) : new[i] = r \/ \E j \in 1..Len(history[w][t]) : new[i] = history[w][t][j]
  <2> DEFINE h == history[w][t]
             n == Len(h) + 1
  <2>1. h \in Seq(Requests) /\ n \in Nat \ {0} /\ Keep \in Nat \ {0}
    BY <1>1, ChatStreamAssumption
  <2>2. Append(h, r) \in Seq(Requests) /\ Len(Append(h, r)) = n
        /\ \A i \in 1..n : Append(h, r)[i] = IF i = n THEN r ELSE h[i]
    BY <2>1
  <2> DEFINE a == Append(h, r)
  <2> HIDE DEF h, n, a
  <2>3. CASE n > Keep
    <3>1. n - Keep + 1 \in 1..n
      BY <2>1, <2>3
    <3>2. SubSeq(a, n - Keep + 1, n) \in Seq(Requests) /\ Len(SubSeq(a, n - Keep + 1, n)) = Keep
          /\ \A i \in 1..Keep : SubSeq(a, n - Keep + 1, n)[i] = a[n - Keep + i]
      BY <2>1, <2>2, <3>1, <2>3 DEF a
    <3>3. new = SubSeq(a, n - Keep + 1, n)
      BY <2>2, <2>3 DEF Latest, a, h
    <3>4. \A i \in 1..Keep : n - Keep + i \in 1..n
      BY <2>1, <2>3
    <3>5. \A k \in 1..n : a[k] = r \/ (k \in 1..Len(h) /\ a[k] = h[k])
      BY <2>1, <2>2 DEF a, n
    <3> QED  BY <3>2, <3>3, <3>4, <3>5 DEF h
  <2>4. CASE ~(n > Keep)
    <3>1. new = a
      BY <2>2, <2>4 DEF Latest, a, h
    <3>2. \A k \in 1..n : a[k] = r \/ (k \in 1..Len(h) /\ a[k] = h[k])
      BY <2>1, <2>2 DEF a, n
    <3> QED  BY <2>2, <3>1, <3>2 DEF a, h
  <2> QED  BY <2>3, <2>4
<1>5. /\ stage'[r] = "closed" /\ UNCHANGED <<thread, worker, recalled>>
      /\ \A q \in Requests : q # r => stage'[q] = stage[q]
  BY DEF SaveInMemory, Go, MemoryInv, LockInv, TypeOK
<1> HIDE DEF new
<1>6. Past'
  <2> SUFFICES ASSUME NEW s \in Stores, NEW u \in Threads, NEW i \in 1..Len(history'[s][u])
               PROVE  stage'[history'[s][u][i]] = "closed"
    BY DEF Past, Stores
  <2>1. history \in [Stores -> [Threads -> Seq(Requests)]]
    BY DEF MemoryInv, LockInv, TypeOK
  <2>2. \A q \in Requests : stage[q] = "closed" => stage'[q] = "closed"
    BY <1>1, <1>5
  <2>3. \A j \in 1..Len(history[s][u]) : history[s][u][j] \in Requests /\ stage[history[s][u][j]] = "closed"
    BY <2>1 DEF MemoryInv, Past
  <2>4. CASE s = w /\ u = t
    <3>1. history'[s][u] = new
      BY <2>1, <2>4, <1>1, <1>3
    <3>2. i \in 1..Len(new)
      BY <3>1
    <3>3. new[i] = r \/ \E j \in 1..Len(history[w][t]) : new[i] = history[w][t][j]
      BY <3>2, <1>4
    <3> QED  BY <2>2, <2>3, <2>4, <3>1, <3>3, <1>5
  <2>5. CASE ~(s = w /\ u = t)
    <3>1. history'[s][u] = history[s][u]
      BY <2>1, <2>5, <1>1, <1>3
    <3> QED  BY <3>1, <2>2, <2>3
  <2> QED  BY <2>4, <2>5
<1>7. Fresh'
  <2> SUFFICES ASSUME NEW q \in Requests, stage'[q] \in InTurn
               PROVE  recalled'[q] = history'[worker'[q]][thread'[q]]
    BY DEF Fresh, InTurn
  <2>1. q # r /\ stage[q] \in InTurn
    BY <1>5 DEF InTurn
  <2>2. worker[q] # w \/ thread[q] # t
    BY <2>1, <1>1, OneHolder DEF MemoryInv, OneTurnAtATime, InTurn
  <2>3. worker[q] \in Stores /\ thread[q] \in Threads
    BY <2>1 DEF MemoryInv, LockInv, InTurn, Stores
  <2>4. history'[worker[q]][thread[q]] = history[worker[q]][thread[q]]
    BY <2>2, <2>3, <1>1, <1>3 DEF MemoryInv, LockInv, TypeOK
  <2> QED  BY <2>1, <2>4, <1>5 DEF MemoryInv, Fresh
<1>8. TM!Add(w, t, r)
  <2>0. history \in [Stores -> [Threads -> Seq(Requests)]] /\ Memory[w] = history[w]
    BY <1>1 DEF MemoryInv, LockInv, TypeOK, Memory
  <2>1. \A i \in 1..Len(Memory[w][t]) : Memory[w][t][i] # r
    BY <1>1, <2>0 DEF MemoryInv, Past
  <2>2. new = TM!LatestTurns(Append(history[w][t], r))
    BY DEF new, Latest, TM!LatestTurns
  <2>3. {} \in SUBSET (Threads \ {t})
    OBVIOUS
  <2>4. Memory' = [Memory EXCEPT ![w] =
          [u \in Threads |-> IF u = t THEN TM!LatestTurns(Append(@[t], r))
                             ELSE IF u \in {} THEN <<>> ELSE @[u]]]
    <3>1. \A v \in Workers : history'[v] =
            IF v = w THEN [u \in Threads |-> IF u = t THEN new ELSE history[w][u]] ELSE history[v]
      BY <2>0, <1>1, <1>3 DEF Stores
    <3>2. \A v \in Workers : Memory[v] = history[v]
      BY DEF Memory
    <3>3. Memory' = [v \in Workers |-> history'[v]] /\ Memory = [v \in Workers |-> history[v]]
      BY DEF Memory
    <3>4. [u \in Threads |-> IF u = t THEN new ELSE history[w][u]]
          = [u \in Threads |-> IF u = t THEN TM!LatestTurns(Append(Memory[w][t], r))
                               ELSE IF u \in {} THEN <<>> ELSE Memory[w][u]]
      BY <2>0, <2>2
    <3> QED  BY <1>1, <3>1, <3>3, <3>4
  <2> QED  BY <2>1, <2>3, <2>4 DEF TM!Add
<1> QED  BY <1>1, <1>6, <1>7, <1>8

LEMMA AnswerMemory ==
  ASSUME MemoryInv, NEW r \in Requests, Answer(r)
  PROVE  Fresh' /\ Past' /\ history' = history
<1>1. UNCHANGED <<thread, worker, history, recalled>>
  BY DEF Answer, Speak, EndStream, Leak, Violate, Correct, CallTool, RunTurn,
       LoseProviders, SelfCheck, StreamStep, memoryVars
<1>2. stage[r] \in InTurn
  BY DEF Answer, Speak, EndStream, Leak, Violate, Correct, CallTool, RunTurn,
       LoseProviders, SelfCheck, Go, InTurn
<1>3. \E to \in InTurn : stage' = [stage EXCEPT ![r] = to]
  <2>1. CASE stage' = stage
    BY <1>2, <2>1 DEF MemoryInv, LockInv, TypeOK
  <2>2. CASE stage' # stage
    BY <2>2 DEF Answer, Speak, EndStream, Leak, Violate, Correct, CallTool, RunTurn,
         LoseProviders, SelfCheck, Go, InTurn
  <2> QED  BY <2>1, <2>2
<1>4. stage[r] # "closed"
  BY <1>2 DEF InTurn
<1> QED  BY <1>1, <1>2, <1>3, <1>4, StillPast, StillFresh

LEMMA OtherMemory ==
  ASSUME ~shared, MemoryInv, NEW r \in Requests,
         Begin(r) \/ Clarify(r) \/ Enqueue(r) \/ Recall(r) \/ Close(r) \/ Abort(r)
  PROVE  Fresh' /\ Past' /\ history' = history
<1>1. CASE Begin(r)
  <2>1. PICK t \in Threads, w \in Workers : Open(r, t, w)
    BY <1>1 DEF Begin
  <2>2. stage[r] = "new" /\ stage' = [stage EXCEPT ![r] = "routed"] /\ UNCHANGED <<history, recalled>>
        /\ thread' = [thread EXCEPT ![r] = t] /\ worker' = [worker EXCEPT ![r] = w]
    BY <2>1 DEF Open, Go, memoryVars
  <2>3. Past'
    BY <2>2, StillPast
  <2>4. Fresh'
    BY <2>2 DEF MemoryInv, Fresh, LockInv, TypeOK, InTurn
  <2> QED  BY <2>2, <2>3, <2>4
<1>2. CASE Recall(r)
  <2>1. stage[r] = "waiting" /\ stage' = [stage EXCEPT ![r] = "streaming"]
        /\ UNCHANGED <<thread, worker, history>>
        /\ recalled' = [recalled EXCEPT ![r] = history[worker[r]][thread[r]]]
    BY <1>2 DEF Recall, Go, StoreOf
  <2>2. Past'
    BY <2>1, StillPast
  <2>3. Fresh'
    BY <2>1 DEF MemoryInv, Fresh, LockInv, TypeOK, InTurn
  <2> QED  BY <2>1, <2>2, <2>3
<1>3. CASE Clarify(r) \/ Enqueue(r) \/ Close(r) \/ Abort(r)
  <2>1. UNCHANGED <<thread, worker, history, recalled>> /\ stage[r] # "closed"
        /\ \E to \in {"saved", "waiting", "closed", "gone"} : stage' = [stage EXCEPT ![r] = to]
    BY <1>3 DEF Clarify, Enqueue, Close, Abort, Go, memoryVars, Running
  <2>2. {"saved", "waiting", "closed", "gone"} \cap InTurn = {}
    BY DEF InTurn
  <2> QED  BY <2>1, <2>2, StillPast, StillFresh
<1> QED  BY <1>1, <1>2, <1>3

(* A process that restarts forgets all its threads. *)
LEMMA ForgetAll ==
  ASSUME TypeOK, NEW w \in Workers, Restart(w)
  PROVE  TM!Forget(w, Threads)
<1>1. history' = [history EXCEPT ![w] = [t \in Threads |-> <<>>]] /\ history \in [Stores -> [Threads -> Seq(Requests)]]
  BY DEF Restart, TypeOK
<1>2. \A v \in Workers : history'[v] = IF v = w THEN [t \in Threads |-> <<>>] ELSE history[v]
  BY <1>1 DEF Stores
<1>3. Memory' = [v \in Workers |-> history'[v]] /\ Memory = [v \in Workers |-> history[v]]
  BY DEF Memory
<1>4. [t \in Threads |-> <<>>] = [t \in Threads |-> IF t \in Threads THEN <<>> ELSE Memory[w][t]]
  OBVIOUS
<1> QED  BY <1>2, <1>3, <1>4 DEF TM!Forget

LEMMA AnyForget == ASSUME NEW w \in Workers, TM!Forget(w, Threads) PROVE TM!Next
<1>1. Threads \in SUBSET Threads
  OBVIOUS
<1> QED  BY <1>1 DEF TM!Next

LEMMA RestartMemory ==
  ASSUME MemoryInv, NEW w \in Workers, Restart(w)
  PROVE  Fresh' /\ Past' /\ TM!Forget(w, Threads)
<1>1. /\ UNCHANGED <<thread, worker, recalled>>
      /\ stage' = [q \in Requests |-> IF q \in Served(w) \cap Running THEN "gone" ELSE stage[q]]
      /\ history' = [history EXCEPT ![w] = [t \in Threads |-> <<>>]]
      /\ history \in [Stores -> [Threads -> Seq(Requests)]] /\ w \in Stores
  BY DEF Restart, MemoryInv, LockInv, TypeOK, Stores
<1>2. \A q \in Requests : stage[q] = "closed" => stage'[q] = "closed"
  BY <1>1 DEF Running
<1>3. Past'
  <2> SUFFICES ASSUME NEW s \in Stores, NEW u \in Threads, NEW i \in 1..Len(history'[s][u])
               PROVE  stage'[history'[s][u][i]] = "closed"
    BY DEF Past, Stores
  <2>1. CASE s = w
    BY <1>1, <2>1
  <2>2. CASE s # w
    <3>1. history'[s][u] = history[s][u]
      BY <1>1, <2>2
    <3>2. history[s][u][i] \in Requests /\ stage[history[s][u][i]] = "closed"
      BY <1>1, <3>1 DEF MemoryInv, Past
    <3> QED  BY <1>2, <3>1, <3>2
  <2> QED  BY <2>1, <2>2
<1>4. Fresh'
  <2> SUFFICES ASSUME NEW q \in Requests, stage'[q] \in InTurn
               PROVE  recalled'[q] = history'[worker'[q]][thread'[q]]
    BY DEF Fresh, InTurn
  <2>1. stage'[q] = stage[q] /\ q \notin Served(w)
    BY <1>1 DEF Running, InTurn
  <2>2. worker[q] # w /\ worker[q] \in Stores
    BY <2>1 DEF Served, MemoryInv, LockInv, InTurn, Stores
  <2> QED  BY <1>1, <2>1, <2>2 DEF MemoryInv, Fresh
<1>5. TM!Forget(w, Threads)
  BY ForgetAll DEF MemoryInv, LockInv
<1> QED  BY <1>3, <1>4, <1>5

LEMMA StepMemory ==
  ASSUME Roomy, ~shared, MemoryInv, [Next]_vars
  PROVE  MemoryInv' /\ [TM!Next]_Memory
<1>1. LockInv'
  BY StepLock DEF MemoryInv
<1>2. ASSUME history' = history PROVE Memory' = Memory
  BY <1>2 DEF Memory
<1>3. ASSUME NEW r \in Requests, Begin(r) \/ Step(r) \/ Abort(r)
      PROVE  Fresh' /\ Past' /\ [TM!Next]_Memory
  <2>1. CASE SaveInMemory(r)
    BY <2>1, SaveMemory DEF TM!Next
  <2>2. CASE Answer(r)
    BY <1>2, <2>2, AnswerMemory
  <2>3. CASE Begin(r) \/ Clarify(r) \/ Enqueue(r) \/ Recall(r) \/ Close(r) \/ Abort(r)
    BY <1>2, <2>3, OtherMemory
  <2>4. ~SaveInRedis(r)
    BY DEF SaveInRedis
  <2> QED  BY <1>3, <2>1, <2>2, <2>3, <2>4 DEF Step
<1>4. ASSUME NEW w \in Workers, Restart(w) PROVE Fresh' /\ Past' /\ [TM!Next]_Memory
  <2>1. Fresh' /\ Past' /\ TM!Forget(w, Threads)
    BY <1>4, RestartMemory
  <2> QED  BY <2>1, AnyForget
<1>5. \A t \in Threads : ~Expire(t)
  BY DEF Expire
<1>6. CASE UNCHANGED vars
  <2>1. UNCHANGED <<stage, thread, worker, history, recalled>>
    BY <1>6 DEF vars
  <2>2. Fresh' /\ Past'
    BY <2>1 DEF MemoryInv, Fresh, Past, Stores, InTurn
  <2>3. Memory' = Memory
    BY <1>2, <2>1
  <2> QED  BY <1>1, <2>2, <2>3 DEF MemoryInv
<1> QED  BY <1>1, <1>3, <1>4, <1>5, <1>6 DEF Next, AnyStep, MemoryInv

(* With Redis the processes remember nothing themselves. *)
LEMMA SharedMemory ==
  ASSUME shared, TypeOK, [Next]_vars
  PROVE  [TM!Next]_Memory
<1>1. ASSUME \A w \in Workers : history'[w] = history[w] PROVE Memory' = Memory
  BY <1>1 DEF Memory
<1>2. ASSUME NEW r \in Requests, Begin(r) \/ Step(r) \/ Abort(r) PROVE Memory' = Memory
  <2>1. CASE SaveInRedis(r)
    BY <1>1, <2>1, ChatStreamAssumption DEF SaveInRedis, TypeOK
  <2>2. ~SaveInMemory(r)
    BY DEF SaveInMemory
  <2>3. CASE Begin(r) \/ Clarify(r) \/ Enqueue(r) \/ Recall(r) \/ Close(r) \/ Abort(r)
    BY <1>1, <2>3 DEF Begin, Open, Clarify, Enqueue, Recall, Close, Abort, memoryVars
  <2>4. CASE Answer(r)
    BY <1>1, <2>4 DEF Answer, Speak, EndStream, Leak, Violate, Correct, CallTool, RunTurn,
         LoseProviders, SelfCheck, StreamStep, memoryVars
  <2> QED  BY <1>2, <2>1, <2>2, <2>3, <2>4 DEF Step
<1>3. ASSUME NEW t \in Threads, Expire(t) PROVE Memory' = Memory
  BY <1>1, <1>3, ChatStreamAssumption DEF Expire, TypeOK
<1>4. ASSUME NEW w \in Workers, Restart(w) PROVE TM!Next
  <2>1. TM!Forget(w, Threads)
    BY <1>4, ForgetAll
  <2> QED  BY <2>1, AnyForget
<1>5. CASE UNCHANGED vars
  BY <1>1, <1>5 DEF vars
<1> QED  BY <1>2, <1>3, <1>4, <1>5 DEF Next, AnyStep

(* In a process no turn overwrites another, for any number of requests,    *)
(* threads and workers, as long as no thread is evicted (main.py:136-142). *)
THEOREM MemoryKept == Spec /\ Roomy => ImplementsThreadMemory
<1> DEFINE I == Roomy /\ LockInv /\ (~shared => MemoryInv)
<1>1. Init /\ Roomy => I /\ TM!Init
  <2>1. Init => LockInv
    BY ChatStreamAssumption DEF Init, LockInv, TypeOK, Queued, Running, InTurn
  <2>2. Init => TM!Init
    BY DEF Init, Memory, TM!Init, Stores
  <2> QED  BY <2>1, <2>2 DEF Init, MemoryInv, Fresh, Past, InTurn
<1>2. I /\ [Next]_vars => I' /\ [TM!Next]_Memory
  <2> SUFFICES ASSUME I, [Next]_vars PROVE I' /\ [TM!Next]_Memory
    OBVIOUS
  <2>1. Roomy' /\ LockInv' /\ shared' = shared
    BY StillRoomy, StepLock DEF Next, vars
  <2>2. CASE shared
    BY <2>1, <2>2, SharedMemory DEF LockInv
  <2>3. CASE ~shared
    BY <2>1, <2>3, StepMemory
  <2> QED  BY <2>2, <2>3
<1> HIDE DEF I
<1> QED  BY <1>1, <1>2, PTL DEF Spec, ImplementsThreadMemory, TM!Spec

-----------------------------------------------------------------------------
(* A line moves.                                                           *)

(* Whoever is before someone in a line has the same lock and only those    *)
(* before it that the other has.                                           *)
LineInv ==
  \A r \in Requests :
    /\ r \notin ahead[r]
    /\ \A q \in ahead[r] : lock[q] = lock[r] /\ ahead[q] \cap InLine(lock[q]) \subseteq ahead[r]

(* Lines grow at their end only. *)
LEMMA LinesShrink ==
  ASSUME LockInv, [Next]_vars, \A r \in Requests : ~Enqueue(r)
  PROVE  UNCHANGED <<lock, ahead>> /\ \A l \in Requests : InLine(l)' \subseteq InLine(l)
<1> SUFFICES /\ UNCHANGED <<lock, ahead>>
             /\ \A q \in Requests : lock[q] # None /\ q \in Running' => q \in Running
  BY ChatStreamAssumption DEF InLine, Running
<1>0. TypeOK
  BY DEF LockInv
<1>1. ASSUME NEW r \in Requests, NEW to, stage' = [stage EXCEPT ![r] = to],
             stage[r] \notin {"closed", "gone"}, stage[r] = "new" => lock[r] = None
      PROVE  \A q \in Requests : lock[q] # None /\ q \in Running' => q \in Running
  BY <1>0, <1>1 DEF Running, TypeOK
<1>2. ASSUME NEW r \in Requests, Begin(r) \/ Step(r) \/ Abort(r)
      PROVE  /\ UNCHANGED <<lock, ahead>>
             /\ \A q \in Requests : lock[q] # None /\ q \in Running' => q \in Running
  <2>1. CASE Begin(r) \/ Clarify(r) \/ Recall(r) \/ SaveInMemory(r) \/ SaveInRedis(r) \/ Close(r) \/ Abort(r)
    <3>1. UNCHANGED <<lock, ahead>> /\ \E to : stage' = [stage EXCEPT ![r] = to]
      BY <2>1 DEF Begin, Open, Clarify, Recall, SaveInMemory, SaveInRedis, Close, Abort, Go, lockVars
    <3>2. stage[r] \notin {"closed", "gone"}
      BY <2>1 DEF Begin, Open, Clarify, Recall, SaveInMemory, SaveInRedis, Close, Abort, Go, Running
    <3> QED  BY <1>1, <3>1, <3>2 DEF LockInv
  <2>2. CASE Answer(r)
    <3>1. UNCHANGED <<lock, ahead>> /\ stage[r] \in InTurn
          /\ (stage' = stage \/ \E to : stage' = [stage EXCEPT ![r] = to])
      BY <2>2 DEF Answer, Speak, EndStream, Leak, Violate, Correct, CallTool, RunTurn,
           LoseProviders, SelfCheck, StreamStep, Go, lockVars, InTurn
    <3>2. stage' = stage => Running' = Running
      BY DEF Running
    <3> QED  BY <1>1, <3>1, <3>2 DEF InTurn
  <2> QED  BY <1>2, <2>1, <2>2 DEF Step
<1>3. ASSUME NEW t \in Threads, Expire(t)
      PROVE  UNCHANGED <<lock, ahead>> /\ Running' = Running
  BY <1>3 DEF Expire, lockVars, turnVars, Running
<1>4. ASSUME NEW w \in Workers, Restart(w)
      PROVE  UNCHANGED <<lock, ahead>> /\ Running' \subseteq Running
  BY <1>4 DEF Restart, Running
<1>5. CASE UNCHANGED vars
  BY <1>5 DEF vars, Running
<1> QED  BY <1>2, <1>3, <1>4, <1>5 DEF Next, AnyStep

LEMMA StepLine == LockInv /\ LineInv /\ [Next]_vars => LineInv'
<1> SUFFICES ASSUME LockInv, LineInv, [Next]_vars PROVE LineInv'
  OBVIOUS
<1>0. /\ TypeOK /\ \A r \in Requests : ahead[r] \subseteq Requests /\ \A q \in ahead[r] : lock[q] # None
  BY DEF LockInv, TypeOK
<1>1. CASE \A r \in Requests : ~Enqueue(r)
  <2>1. UNCHANGED <<lock, ahead>> /\ \A l \in Requests : InLine(l)' \subseteq InLine(l)
    BY <1>1, LinesShrink
  <2>2. \A r \in Requests : \A q \in ahead[r] : lock[q] \in Requests
    BY <1>0 DEF TypeOK
  <2> QED  BY <2>1, <2>2 DEF LineInv
<1>2. ASSUME NEW r \in Requests, Enqueue(r) PROVE LineInv'
  <2> DEFINE l == LockFor(r)
  <2>1. /\ stage[r] = "routed" /\ lock[r] = None /\ worker[r] \in Workers /\ thread[r] \in Threads
        /\ stage' = [stage EXCEPT ![r] = "waiting"]
        /\ lock' = [lock EXCEPT ![r] = l] /\ ahead' = [ahead EXCEPT ![r] = InLine(l)]
    BY <1>2 DEF Enqueue, Go, LockInv
  <2>2. l \in Requests
    BY <2>1, <1>0, ChatStreamAssumption DEF LockFor, TypeOK
  <2> HIDE DEF l
  <2>3. /\ lock'[r] = l /\ ahead'[r] = InLine(l)
        /\ \A q \in Requests : q # r => lock'[q] = lock[q] /\ ahead'[q] = ahead[q]
    BY <1>0, <2>1 DEF TypeOK
  <2>4. r \notin InLine(l) /\ InLine(l) \subseteq Requests /\ \A q \in InLine(l) : lock[q] = l
    BY <2>1, <2>2, ChatStreamAssumption DEF InLine, Running
  <2>5. ASSUME NEW q \in Requests PROVE r \notin ahead[q]
    BY <1>0, <2>1
  <2>6. ASSUME NEW q \in Requests, q # r, lock[q] # None
        PROVE  ahead'[q] \cap InLine(lock[q])' \subseteq ahead[q] \cap InLine(lock[q])
    <3>1. lock[q] \in Requests /\ ahead'[q] = ahead[q] /\ lock'[q] = lock[q]
      BY <1>0, <2>3, <2>6 DEF TypeOK
    <3>2. InLine(lock[q])' \subseteq InLine(lock[q]) \cup {r}
      BY <1>0, <2>1, <3>1 DEF InLine, Running, TypeOK
    <3> QED  BY <2>5, <3>1, <3>2
  <2>7. ASSUME NEW q \in InLine(l)
        PROVE  lock'[q] = lock'[r] /\ ahead'[q] \cap InLine(lock[q])' \subseteq ahead'[r]
    <3>1. q \in Requests /\ q # r /\ lock[q] = l /\ l # None
      BY <2>2, <2>4, ChatStreamAssumption
    <3> QED  BY <2>3, <2>6, <3>1
  <2>8. ASSUME NEW p \in Requests, p # r, NEW q \in ahead[p]
        PROVE  lock'[q] = lock'[p] /\ ahead'[q] \cap InLine(lock[q])' \subseteq ahead'[p]
    <3>1. q \in Requests /\ q # r /\ lock[q] # None
      BY <1>0, <2>5, <2>8
    <3>2. lock[q] = lock[p] /\ ahead[q] \cap InLine(lock[q]) \subseteq ahead[p]
      BY <2>8 DEF LineInv
    <3> QED  BY <2>3, <2>6, <2>8, <3>1, <3>2
  <2>9. ASSUME NEW p \in Requests
         PROVE  /\ p \notin ahead'[p]
                /\ \A q \in ahead'[p] : lock'[q] = lock'[p] /\ ahead'[q] \cap InLine(lock[q])' \subseteq ahead'[p]
    <3>1. CASE p = r
      BY <2>3, <2>4, <2>7, <3>1
    <3>2. CASE p # r
      BY <2>3, <2>8, <3>2 DEF LineInv
    <3> QED  BY <3>1, <3>2
  <2> QED  BY <2>9 DEF LineInv
<1> QED  BY <1>1, <1>2

(* A set of numbers has a least one. *)
LEMMA Least ==
  ASSUME NEW T \in SUBSET Nat, T # {}
  PROVE  \E x \in T : \A y \in T : x <= y
<1> DEFINE R == {ss \in Nat \X Nat : ss[1] < ss[2]}
<1>1. IsWellFoundedOn(R, Nat)
  BY NatLessThanWellFounded DEF OpToRel
<1>2. ASSUME NEW x \in Nat, NEW y \in Nat, y < x PROVE <<y, x>> \in R
  BY <1>2
<1> HIDE DEF R
<1>3. PICK x \in T : \A y \in T : ~(<<y, x>> \in R)
  BY <1>1, WFMin
<1>4. ASSUME NEW y \in T PROVE x <= y
  <2>1. x \in Nat /\ y \in Nat
    OBVIOUS
  <2>2. ~(y < x)
    BY <1>2, <1>3, <2>1, Zenon
  <2> QED  BY <2>1, <2>2
<1> QED  BY <1>4

(* The request with the fewest before it has the lock. *)
LEMMA SomeoneHolds ==
  ASSUME LockInv, LineInv, IsFiniteSet(Requests), NEW r \in Requests, stage[r] = "waiting"
  PROVE  \E q \in Requests : lock[q] = lock[r] /\ stage[q] \notin {"closed", "gone"} /\ HasLock(q)
<1> DEFINE L == InLine(lock[r])
           Before(q) == ahead[q] \cap L
           Sizes == {Cardinality(Before(q)) : q \in L}
<1>1. r \in L /\ L \subseteq Requests
  BY DEF InLine, Running
<1>2. \A q \in L : Before(q) \in SUBSET Requests /\ IsFiniteSet(Before(q)) /\ Cardinality(Before(q)) \in Nat
  BY <1>1, FS_Subset, FS_CardinalityType
<1>3. PICK n \in Sizes : \A m \in Sizes : n <= m
  <2>1. Sizes \in SUBSET Nat /\ Sizes # {}
    BY <1>1, <1>2
  <2> QED  BY <2>1, Least
<1>4. PICK q \in L : n = Cardinality(Before(q))
  OBVIOUS
<1>5. ASSUME NEW p \in Before(q) PROVE FALSE
  <2>1. p \in L /\ p \in ahead[q] /\ lock[p] = lock[r] /\ p \in Requests /\ q \in Requests
    BY <1>1, <1>5 DEF InLine
  <2>2. Before(p) \subseteq Before(q) /\ p \notin Before(p)
    BY <2>1 DEF LineInv
  <2>3. Cardinality(Before(p)) <= Cardinality(Before(q)) /\ Cardinality(Before(p)) # Cardinality(Before(q))
    BY <1>2, <1>5, <2>2, FS_Subset
  <2>4. Cardinality(Before(q)) <= Cardinality(Before(p))
    BY <1>3, <1>4, <2>1
  <2>5. Cardinality(Before(p)) \in Nat /\ Cardinality(Before(q)) \in Nat
    BY <1>2, <2>1
  <2> QED  BY <2>3, <2>4, <2>5
<1>6. q \in Requests /\ lock[q] = lock[r] /\ stage[q] \notin {"closed", "gone"}
  BY <1>1 DEF InLine, Running
<1>7. HasLock(q)
  BY <1>5, <1>6 DEF HasLock
<1> QED  BY <1>6, <1>7

(* No line of requests is ever stuck, however its members end: among any   *)
(* finite number of them one holds the lock (main.py:443-488).             *)
THEOREM LinesMove == Spec /\ Roomy /\ IsFiniteSet(Requests) => []LineMoves
<1>1. Init => LineInv
  BY DEF Init, LineInv
<1> SUFFICES ASSUME IsFiniteSet(Requests) PROVE Spec /\ Roomy => []LineMoves
  OBVIOUS
<1>2. LockInv /\ LineInv => LineMoves
  BY SomeoneHolds DEF LineMoves
<1> QED  BY <1>1, <1>2, StepLine, LockInvariant, PTL DEF Spec

-----------------------------------------------------------------------------
(* What is remembered and recorded.                                        *)

(* A turn that is remembered has succeeded and, without Redis, is being    *)
(* recorded.                                                               *)
Kept(q) ==
  /\ stage[q] \in {"saved", "closed", "gone"} /\ ~failed[q]
  /\ ~shared => recorded[q]

Keepers == {q \in Requests : Kept(q)}

TraceInv ==
  /\ \A s \in Stores, t \in Threads : \A i \in 1..Len(history[s][t]) : history[s][t][i] \in Keepers
  /\ \A r \in Requests : \A i \in 1..Len(recalled[r]) : recalled[r][i] \in Keepers
  /\ \A r \in Requests :
       /\ recorded[r] => stage[r] = "closed" /\ ~failed[r] /\ Last(events[r]) = "done"
       /\ \A i \in 1..Len(events[r]) : events[r][i] = "done" => stage[r] = "closed"

(* Shortening a history adds nothing to it. *)
LEMMA LatestTurns ==
  ASSUME NEW h \in Seq(Requests)
  PROVE  \A i \in 1..Len(Latest(h)) : \E k \in 1..Len(h) : Latest(h)[i] = h[k]
<1>1. Len(h) \in Nat /\ Keep \in Nat /\ Keep >= 1
  BY LenProperties, ChatStreamAssumption
<1>2. CASE Len(h) > Keep
  <2> DEFINE m == Len(h) - Keep + 1
  <2>1. m \in 1..Len(h) /\ m \in Nat
    BY <1>1, <1>2
  <2>2. Latest(h) = SubSeq(h, m, Len(h))
    BY <1>2 DEF Latest
  <2> HIDE DEF m
  <2>3. \A i \in m..Len(h) : h[i] \in Requests
    BY <2>1, ElementOfSeq
  <2>4. /\ Len(Latest(h)) = Len(h) - m + 1
        /\ \A i \in 1..(Len(h) - m + 1) : Latest(h)[i] = h[m + i - 1]
    BY <1>1, <2>1, <2>2, <2>3, SubSeqProperties
  <2>5. \A i \in 1..(Len(h) - m + 1) : m + i - 1 \in 1..Len(h)
    BY <1>1, <2>1
  <2> QED  BY <2>4, <2>5
<1>3. CASE ~(Len(h) > Keep)
  BY <1>3 DEF Latest
<1> QED  BY <1>2, <1>3

(* What a turn will be remembered with: the turns it recalled, and itself. *)
LEMMA RememberedTurns ==
  ASSUME TypeOK, NEW r \in Requests
  PROVE  \A i \in 1..Len(Remembered(r)) :
           Remembered(r)[i] = r \/ \E j \in 1..Len(recalled[r]) : Remembered(r)[i] = recalled[r][j]
<1> DEFINE h == Append(recalled[r], r)
<1>1. /\ recalled[r] \in Seq(Requests) /\ Len(recalled[r]) \in Nat
      /\ h \in Seq(Requests) /\ Len(h) = Len(recalled[r]) + 1
      /\ \A i \in 1..Len(h) : h[i] = IF i <= Len(recalled[r]) THEN recalled[r][i] ELSE r
  BY DEF TypeOK
<1> HIDE DEF h
<1>2. \A i \in 1..Len(h) : h[i] = r \/ \E j \in 1..Len(recalled[r]) : h[i] = recalled[r][j]
  BY <1>1
<1>3. \A i \in 1..Len(Latest(h)) : \E k \in 1..Len(h) : Latest(h)[i] = h[k]
  BY <1>1, LatestTurns
<1> QED  BY <1>2, <1>3 DEF Remembered, h

(* A turn that is kept stays kept. *)
LEMMA StaysKept ==
  ASSUME LockInv, TraceInv, [Next]_vars, NEW q \in Requests, Kept(q)
  PROVE  Kept(q)'
<1>0. TypeOK /\ shared' = shared
  BY DEF LockInv, Next, vars
<1>1. ASSUME NEW r \in Requests, Begin(r) \/ Step(r) \/ Abort(r) PROVE Kept(q)'
  <2>1. CASE r # q
    <3>1. stage'[q] = stage[q] /\ failed'[q] = failed[q] /\ recorded'[q] = recorded[q]
      BY <1>0, <1>1, <2>1 DEF Begin, Open, Step, Clarify, Enqueue, Recall, Answer, Speak, EndStream, Leak,
         Violate, Correct, CallTool, RunTurn, LoseProviders, SelfCheck, StreamStep, SaveInMemory,
         SaveInRedis, Close, Abort, Go, StartRecord, TypeOK
    <3> QED  BY <1>0, <3>1 DEF Kept
  <2>2. CASE r = q
    <3>1. (Close(r) /\ stage[r] = "saved") \/ Abort(r)
      BY <1>1, <2>2 DEF Kept, Begin, Open, Step, Clarify, Enqueue, Recall, Answer, Speak, EndStream, Leak,
         Violate, Correct, CallTool, RunTurn, LoseProviders, SelfCheck, SaveInMemory,
         SaveInRedis, Close, Go
    <3>2. CASE Close(r)
      BY <1>0, <2>2, <3>2 DEF Kept, Close, Go, StartRecord, Recordable, TypeOK
    <3>3. CASE Abort(r)
      BY <1>0, <2>2, <3>3 DEF Kept, Abort, TypeOK
    <3> QED  BY <3>1, <3>2, <3>3
  <2> QED  BY <2>1, <2>2
<1>2. ASSUME NEW t \in Threads, Expire(t) PROVE Kept(q)'
  BY <1>0, <1>2 DEF Expire, turnVars, Kept
<1>3. ASSUME NEW w \in Workers, Restart(w) PROVE Kept(q)'
  BY <1>0, <1>3 DEF Restart, Kept
<1>4. CASE UNCHANGED vars
  BY <1>4 DEF vars, Kept
<1> QED  BY <1>1, <1>2, <1>3, <1>4 DEF Next, AnyStep

LEMMA InitTrace == Init => TraceInv
BY DEF Init, TraceInv, Stores

LEMMA LastEvent ==
  ASSUME TypeOK, NEW r \in Requests, \A i \in 1..Len(events[r]) : events[r][i] # "done", Send(r, "done")
  PROVE  Last(events'[r]) = "done"
<1>1. ~Contains(events[r], "done")
  BY DEF Contains
<1>2. events'[r] = Append(events[r], "done")
  BY <1>1 DEF Send, TypeOK
<1>3. events[r] \in Seq({"language", "text", "apology", "done", "failed"})
  BY DEF TypeOK
<1> QED  BY <1>2, <1>3 DEF Last

(* What the client of r was sent, and whether r is recorded. *)
Told(r) ==
  /\ recorded[r] => stage[r] = "closed" /\ ~failed[r] /\ Last(events[r]) = "done"
  /\ \A i \in 1..Len(events[r]) : events[r][i] = "done" => stage[r] = "closed"

(* An event that is not the last leaves r unfinished. *)
LEMMA SendTold ==
  ASSUME TypeOK, NEW r \in Requests, Told(r), stage[r] # "closed",
         NEW e \in {"language", "text", "apology"},
         Send(r, e) \/ UNCHANGED events, UNCHANGED recorded
  PROVE  Told(r)'
<1>1. ~recorded'[r]
  BY DEF Told
<1>2. \A i \in 1..Len(events'[r]) : events'[r][i] # "done"
  <2>1. events[r] \in Seq({"language", "text", "apology", "done", "failed"}) /\ e # "done"
        /\ \A i \in 1..Len(events[r]) : events[r][i] # "done"
    BY DEF TypeOK, Told
  <2>2. events'[r] = events[r] \/ events'[r] = Append(events[r], e)
    BY DEF Send, TypeOK
  <2>3. CASE events'[r] = Append(events[r], e)
    BY <2>1, <2>3
  <2> QED  BY <2>1, <2>2, <2>3
<1> QED  BY <1>1, <1>2 DEF Told

LEMMA StepTold ==
  ASSUME LockInv, TraceInv, NEW r \in Requests, Begin(r) \/ Step(r) \/ Abort(r)
  PROVE  Told(r)'
<1>0. TypeOK /\ Told(r)
  BY DEF LockInv, TraceInv, Told
<1>1. CASE SaveInMemory(r) \/ (Close(r) /\ ~failed[r])
  <2>1. stage'[r] = "closed" /\ UNCHANGED failed /\ ~failed[r] /\ Send(r, "done")
    BY <1>0, <1>1 DEF SaveInMemory, Close, Go, TypeOK
  <2>2. \A i \in 1..Len(events[r]) : events[r][i] # "done"
    BY <1>0, <1>1 DEF SaveInMemory, Close, Go, Told
  <2>3. Last(events'[r]) = "done"
    BY <1>0, <2>1, <2>2, LastEvent
  <2> QED  BY <2>1, <2>3 DEF Told
<1>2. CASE Close(r) /\ failed[r]
  <2>1. stage'[r] = "closed" /\ ~recorded'[r]
    BY <1>0, <1>2 DEF Close, Go, StartRecord, Recordable, TypeOK
  <2> QED  BY <2>1 DEF Told
<1>3. CASE Enqueue(r) \/ Recall(r) \/ SaveInRedis(r) \/ Abort(r)
  <2>1. stage[r] # "closed" /\ UNCHANGED <<events, failed, recorded>>
    BY <1>3 DEF Enqueue, Recall, SaveInRedis, Abort, Go, Running
  <2> QED  BY <1>0, <2>1, SendTold
<1>4. CASE Begin(r) \/ Clarify(r) \/ Answer(r)
  <2>1. /\ stage[r] # "closed" /\ UNCHANGED recorded
        /\ \E e \in {"language", "text", "apology"} : Send(r, e) \/ UNCHANGED events
    BY <1>4 DEF Begin, Open, Clarify, Answer, Speak, EndStream, Leak, Violate, Correct, CallTool,
       RunTurn, LoseProviders, SelfCheck, StreamStep, Go
  <2> QED  BY <1>0, <2>1, SendTold
<1> QED  BY <1>1, <1>2, <1>3, <1>4 DEF Step

(* What the others were told does not change. *)
LEMMA OthersTold ==
  ASSUME LockInv, TraceInv, NEW r \in Requests, Begin(r) \/ Step(r) \/ Abort(r),
         NEW q \in Requests, q # r
  PROVE  Told(q)'
<1>1. UNCHANGED <<stage[q], failed[q], recorded[q], events[q]>>
  BY DEF LockInv, Begin, Open, Step, Clarify, Enqueue, Recall, Answer, Speak, EndStream, Leak,
     Violate, Correct, CallTool, RunTurn, LoseProviders, SelfCheck, StreamStep, SaveInMemory,
     SaveInRedis, Close, Abort, Go, Send, StartRecord, TypeOK
<1>2. Told(q)
  BY DEF TraceInv, Told
<1> QED  BY <1>1, <1>2 DEF Told

LEMMA KeepersStay == LockInv /\ TraceInv /\ [Next]_vars => Keepers \subseteq Keepers'
BY StaysKept DEF Keepers

(* A turn that is saved is kept, and so are those it recalled. *)
LEMMA SavedKept ==
  ASSUME LockInv, TraceInv, [Next]_vars, NEW r \in Requests, SaveInMemory(r) \/ SaveInRedis(r)
  PROVE  \A i \in 1..Len(Remembered(r)) : Remembered(r)[i] \in Keepers'
<1>0. TypeOK /\ shared' = shared
  BY DEF LockInv, Next, vars
<1>1. r \in Keepers'
  BY <1>0 DEF SaveInMemory, SaveInRedis, Go, StartRecord, Recordable, Keepers, Kept, TypeOK
<1>2. \A j \in 1..Len(recalled[r]) : recalled[r][j] \in Keepers'
  BY KeepersStay DEF TraceInv
<1> QED  BY <1>0, <1>1, <1>2, RememberedTurns

(* The histories after a step hold what they held, or what was saved. *)
LEMMA StepHistory ==
  ASSUME Roomy, LockInv, TraceInv, [Next]_vars, NEW s \in Stores, NEW t \in Threads
  PROVE  \A i \in 1..Len(history'[s][t]) : history'[s][t][i] \in Keepers'
<1>0. TypeOK /\ \A i \in 1..Len(history[s][t]) : history[s][t][i] \in Keepers'
  BY KeepersStay DEF TraceInv, LockInv
<1>1. CASE history'[s][t] = history[s][t] \/ history'[s][t] = <<>>
  BY <1>0, <1>1
<1>2. ASSUME NEW r \in Requests, SaveInMemory(r) \/ SaveInRedis(r),
             history'[s][t] = Remembered(r)
      PROVE  \A i \in 1..Len(history'[s][t]) : history'[s][t][i] \in Keepers'
  BY <1>2, SavedKept
<1>3. ASSUME NEW r \in Requests, SaveInMemory(r)
      PROVE  history'[s][t] \in {history[s][t], <<>>, Remembered(r)}
  BY <1>0, <1>3 DEF SaveInMemory, TypeOK
<1>4. ASSUME NEW r \in Requests, SaveInRedis(r)
      PROVE  history'[s][t] \in {history[s][t], Remembered(r)}
  BY <1>0, <1>4 DEF SaveInRedis, TypeOK
<1>5. ASSUME NEW r \in Requests, Begin(r) \/ Step(r) \/ Abort(r), ~SaveInMemory(r), ~SaveInRedis(r)
      PROVE  history' = history
  BY <1>5 DEF Begin, Open, Step, Clarify, Enqueue, Recall, Answer, Speak, EndStream, Leak, Violate,
     Correct, CallTool, RunTurn, LoseProviders, SelfCheck, StreamStep, Close, Abort, memoryVars
<1>6. ASSUME NEW u \in Threads, Expire(u) PROVE history'[s][t] \in {history[s][t], <<>>}
  BY <1>0, <1>6 DEF Expire, TypeOK
<1>7. ASSUME NEW w \in Workers, Restart(w) PROVE history'[s][t] \in {history[s][t], <<>>}
  BY <1>0, <1>7 DEF Restart, TypeOK
<1> QED  BY <1>1, <1>2, <1>3, <1>4, <1>5, <1>6, <1>7 DEF Next, AnyStep, vars

LEMMA StepRecalled ==
  ASSUME LockInv, TraceInv, [Next]_vars, NEW r \in Requests
  PROVE  \A i \in 1..Len(recalled'[r]) : recalled'[r][i] \in Keepers'
<1>0. TypeOK /\ \A i \in 1..Len(recalled[r]) : recalled[r][i] \in Keepers'
  BY KeepersStay DEF TraceInv, LockInv
<1>1. CASE Recall(r)
  <2>1. StoreOf(worker[r]) \in Stores /\ thread[r] \in Threads
    BY <1>1 DEF Recall, Go, LockInv, StoreOf, Stores
  <2>2. recalled'[r] = history[StoreOf(worker[r])][thread[r]]
    BY <1>0, <1>1 DEF Recall, TypeOK
  <2> QED  BY <2>1, <2>2, KeepersStay DEF TraceInv
<1>2. ASSUME ~Recall(r) PROVE recalled'[r] = recalled[r]
  BY <1>0, <1>2 DEF Next, AnyStep, vars, Begin, Open, Step, Clarify, Enqueue, Recall, Answer, Speak,
     EndStream, Leak, Violate, Correct, CallTool, RunTurn, LoseProviders, SelfCheck, StreamStep,
     SaveInMemory, SaveInRedis, Close, Abort, Expire, Restart, memoryVars, turnVars, TypeOK
<1> QED  BY <1>0, <1>1, <1>2

LEMMA StepTrace == Roomy /\ LockInv /\ TraceInv /\ [Next]_vars => TraceInv'
<1> SUFFICES ASSUME Roomy, LockInv, TraceInv, [Next]_vars PROVE TraceInv'
  OBVIOUS
<1>0. TypeOK
  BY DEF LockInv
<1>1. \A q \in Requests : Told(q)
  BY DEF TraceInv, Told
<1>2. \A q \in Requests : Told(q)'
  <2>1. ASSUME NEW r \in Requests, Begin(r) \/ Step(r) \/ Abort(r) PROVE \A q \in Requests : Told(q)'
    BY <2>1, StepTold, OthersTold
  <2>2. ASSUME NEW t \in Threads, Expire(t) PROVE \A q \in Requests : Told(q)'
    BY <1>1, <2>2 DEF Expire, turnVars, Told
  <2>3. ASSUME NEW w \in Workers, Restart(w) PROVE \A q \in Requests : Told(q)'
    <3>1. UNCHANGED <<events, failed, recorded>>
          /\ \A q \in Requests : stage[q] = "closed" => stage'[q] = "closed"
      BY <1>0, <2>3 DEF Restart, Running, TypeOK
    <3> QED  BY <1>1, <3>1 DEF Told
  <2>4. CASE UNCHANGED vars
    BY <1>1, <2>4 DEF vars, Told
  <2> QED  BY <2>1, <2>2, <2>3, <2>4 DEF Next, AnyStep
<1>3. Stores' = Stores
  BY DEF Stores
<1> QED  BY <1>2, <1>3, StepHistory, StepRecalled DEF TraceInv, Told

LEMMA InHistoryIsKept ==
  ASSUME TraceInv, NEW r \in Requests, InHistory(r)
  PROVE  Kept(r)
BY DEF TraceInv, InHistory, Contains, Keepers

(* A turn that is reported as an error leaves nothing behind, and what is  *)
(* recorded was sent its "done" in the same step (main.py:468-514).  The   *)
(* apology of a failed correction is not reported as an error.             *)
THEOREM NoTraceOfErrors == Spec /\ Roomy => []ErrorsLeaveNoTrace
<1>1. TraceInv => ErrorsLeaveNoTrace
  BY InHistoryIsKept DEF ErrorsLeaveNoTrace, Kept, TraceInv
<1> QED  BY <1>1, InitTrace, StepTrace, StillRoomy, LockInvariant, PTL DEF Spec

(* What a process without Redis remembers is being recorded, however its   *)
(* clients leave (main.py:479-499).                                        *)
THEOREM MemoryIsRecorded == Spec /\ Roomy => []RememberedIsRecorded
<1>1. TraceInv => RememberedIsRecorded
  BY InHistoryIsKept DEF RememberedIsRecorded, Kept
<1> QED  BY <1>1, InitTrace, StepTrace, StillRoomy, LockInvariant, PTL DEF Spec
=============================================================================
