---------------------------- MODULE ThreadMemory ----------------------------
(***************************************************************************)
(* What the agent remembers of a thread, as its users expect it: finished  *)
(* turns are added one at a time, each at the end and each once; only old  *)
(* turns fall off, and a store may lose whole threads.  No turn wipes out  *)
(* another.                                                                *)
(***************************************************************************)
EXTENDS Naturals, Sequences, FiniteSets

CONSTANTS Stores, Threads, Turns, Keep

VARIABLE memory      \* memory[s][t]: the turns store s remembers of thread t

LatestTurns(h) == IF Len(h) > Keep THEN SubSeq(h, Len(h) - Keep + 1, Len(h)) ELSE h

Init == memory = [s \in Stores |-> [t \in Threads |-> <<>>]]

(* A turn is added, and other threads of the store may be forgotten.       *)
Add(s, t, r) ==
  /\ \A i \in 1..Len(memory[s][t]) : memory[s][t][i] # r
  /\ \E lost \in SUBSET (Threads \ {t}) :
       memory' = [memory EXCEPT ![s] =
         [u \in Threads |-> IF u = t THEN LatestTurns(Append(@[t], r))
                            ELSE IF u \in lost THEN <<>> ELSE @[u]]]

Forget(s, lost) ==
  memory' = [memory EXCEPT ![s] = [t \in Threads |-> IF t \in lost THEN <<>> ELSE @[t]]]

Next ==
  \E s \in Stores :
    \/ \E lost \in SUBSET Threads : Forget(s, lost)
    \/ \E t \in Threads, r \in Turns : Add(s, t, r)

Spec == Init /\ [][Next]_memory
=============================================================================
