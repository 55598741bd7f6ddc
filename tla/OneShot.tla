------------------------------- MODULE OneShot -------------------------------
(***************************************************************************)
(* What a confirmation token promises: it is issued for one action, it     *)
(* authorises that action at most once, and it may be lost before that.    *)
(***************************************************************************)
EXTENDS Naturals

CONSTANTS Tokens, Actions

VARIABLES
  scope,    \* scope[k]: the action token k was issued for, or "none"
  uses,     \* uses[k]: how many times k authorised an action
  lost      \* the tokens that can no longer be used, spent or not

osvars == <<scope, uses, lost>>

Init ==
  /\ scope = [k \in Tokens |-> "none"]
  /\ uses = [k \in Tokens |-> 0]
  /\ lost = {}

Issue(k, a) ==
  /\ scope[k] = "none"
  /\ scope' = [scope EXCEPT ![k] = a]
  /\ UNCHANGED <<uses, lost>>

Use(k, a) ==
  /\ scope[k] = a /\ uses[k] = 0 /\ k \notin lost
  /\ uses' = [uses EXCEPT ![k] = 1]
  /\ lost' = lost \cup {k}
  /\ UNCHANGED scope

Lose(K) ==
  /\ lost' = lost \cup K
  /\ UNCHANGED <<scope, uses>>

Next ==
  \/ \E k \in Tokens, a \in Actions : Issue(k, a) \/ Use(k, a)
  \/ \E K \in SUBSET Tokens : Lose(K)

Spec == Init /\ [][Next]_osvars
=============================================================================
