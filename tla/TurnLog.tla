------------------------------- MODULE TurnLog -------------------------------
(***************************************************************************)
(* What a user's saved conversations promise: a turn that was answered in  *)
(* a conversation is added to it whole and at most once, and a deleted     *)
(* conversation is gone with all its turns.                                *)
(***************************************************************************)
CONSTANTS Conversations, Turns

VARIABLES
  open,     \* the conversations that exist
  log       \* log[c]: the turns saved in c

tlvars == <<open, log>>

Init ==
  /\ open = {}
  /\ log = [c \in Conversations |-> {}]

Create(c) ==
  /\ open' = open \cup {c}
  /\ UNCHANGED log

Save(c, t) ==
  /\ c \in open
  /\ \A d \in Conversations : t \notin log[d]
  /\ log' = [log EXCEPT ![c] = @ \cup {t}]
  /\ UNCHANGED open

Delete(c) ==
  /\ open' = open \ {c}
  /\ log' = [log EXCEPT ![c] = {}]

Next ==
  \E c \in Conversations : Create(c) \/ Delete(c) \/ \E t \in Turns : Save(c, t)

Spec == Init /\ [][Next]_tlvars
=============================================================================
