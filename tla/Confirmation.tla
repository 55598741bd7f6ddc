---------------------------- MODULE Confirmation ----------------------------
(***************************************************************************)
(* ConfirmationGate of security/confirmation.py: request_confirmation and  *)
(* consume, called by the turns of any number of conversations.  Without   *)
(* REDIS_URL the tokens are in a dictionary of the process and consume     *)
(* never suspends; with it they are keys of a shared Redis, and consume    *)
(* awaits a GET and then a DELETE.                                         *)
(*                                                                         *)
(* An action stands for a tool name with its arguments, which the gate     *)
(* compares by name and hash.  Tokens are never drawn twice                *)
(* (secrets.token_urlsafe).                                                *)
(***************************************************************************)
EXTENDS Naturals, FiniteSets

CONSTANTS
  Tokens,    \* the tokens that may be drawn
  Actions,   \* tool calls that need a confirmation
  Callers    \* turns that call the gate at the same time

ASSUME ConfirmationAssumption == "none" \notin Actions

VARIABLES
  shared,   \* is REDIS_URL set?  It is read once, when the process starts
  entry,    \* entry[k]: what is stored under token k: "absent", "fresh" or "expired"
  scope,    \* scope[k]: the action stored with k when it was issued, or "none"
  pc,       \* pc[c]: where caller c is
  asked,    \* asked[c]: the token and the action of c's call of consume
  late,     \* late[c]: had that token been used when c's call began?
  uses      \* uses[k]: how many calls consume(k) returned True

vars == <<shared, entry, scope, pc, asked, late, uses>>

Init ==
  /\ shared \in BOOLEAN
  /\ entry = [k \in Tokens |-> "absent"]
  /\ scope = [k \in Tokens |-> "none"]
  /\ pc = [c \in Callers |-> "idle"]
  /\ asked = [c \in Callers |-> <<"none", "none">>]
  /\ late = [c \in Callers |-> FALSE]
  /\ uses = [k \in Tokens |-> 0]

(* _evict_expired: only the dictionary needs it, Redis has its own TTL.    *)
Evicted == IF shared THEN entry ELSE [k \in Tokens |-> IF entry[k] = "expired" THEN "absent" ELSE entry[k]]

Request(k, a) ==
  /\ scope[k] = "none"
  /\ scope' = [scope EXCEPT ![k] = a]
  /\ entry' = [Evicted EXCEPT ![k] = "fresh"]
  /\ UNCHANGED <<pc, asked, late, uses>>

(* consume(k, a) begins; a caller may hold any token that was issued, and  *)
(* ask for any action with it.                                             *)
Ask(c, k, a) ==
  /\ pc[c] = "idle"
  /\ scope[k] # "none"
  /\ asked' = [asked EXCEPT ![c] = <<k, a>>]
  /\ late' = [late EXCEPT ![c] = uses[k] > 0]
  /\ pc' = [pc EXCEPT ![c] = "asking"]
  /\ UNCHANGED <<entry, scope, uses>>

Token(c) == asked[c][1]

MatchesStale(c) == entry[Token(c)] # "absent" /\ scope[Token(c)] = asked[c][2]
Matches(c) == entry[Token(c)] = "fresh" /\ scope[Token(c)] = asked[c][2]

Keep(k) == UNCHANGED entry
Drop(k) == entry' = [entry EXCEPT ![k] = "absent"]

(* A refusal removes nothing but an expired entry. *)
Refuse(c) == IF entry[Token(c)] = "expired" THEN Drop(Token(c)) ELSE UNCHANGED entry

(* The dictionary: lookup, comparison and deletion in one step. *)
ConsumeInMemory(c) ==
  /\ ~shared /\ pc[c] = "asking"
  /\ \/ /\ Matches(c)
        /\ Drop(Token(c))
        /\ uses' = [uses EXCEPT ![Token(c)] = @ + 1]
        /\ pc' = [pc EXCEPT ![c] = "granted"]
     \/ /\ ~Matches(c)
        /\ Refuse(c)
        /\ pc' = [pc EXCEPT ![c] = "refused"]
        /\ UNCHANGED uses
  /\ UNCHANGED <<scope, asked, late>>

(* Redis: GET and the comparison, and later DELETE. *)
Get(k) == UNCHANGED entry

GetKey(c) ==
  /\ shared /\ pc[c] = "asking"
  /\ Get(Token(c))
  /\ pc' = [pc EXCEPT ![c] = IF Matches(c) THEN "deleting" ELSE "refused"]
  /\ UNCHANGED <<scope, asked, late, uses>>

DeleteKey(c) ==
  /\ pc[c] = "deleting"
  /\ Drop(Token(c))
  /\ uses' = [uses EXCEPT ![Token(c)] = @ + 1]
  /\ pc' = [pc EXCEPT ![c] = "granted"]
  /\ UNCHANGED <<scope, asked, late>>

Return(c) ==
  /\ pc[c] \in {"granted", "refused"}
  /\ pc' = [pc EXCEPT ![c] = "idle"]
  /\ UNCHANGED <<entry, scope, asked, late, uses>>

(* Five minutes pass. *)
Expire(k) ==
  /\ entry[k] = "fresh"
  /\ entry' = [entry EXCEPT ![k] = IF shared THEN "absent" ELSE "expired"]
  /\ UNCHANGED <<scope, pc, asked, late, uses>>

(* The process restarts: its calls are gone, and so is the dictionary.     *)
Restart ==
  /\ pc' = [c \in Callers |-> "idle"]
  /\ entry' = IF shared THEN entry ELSE [k \in Tokens |-> "absent"]
  /\ UNCHANGED <<scope, asked, late, uses>>

Step ==
  \/ \E k \in Tokens, a \in Actions : Request(k, a) \/ \E c \in Callers : Ask(c, k, a)
  \/ \E c \in Callers : ConsumeInMemory(c) \/ GetKey(c) \/ DeleteKey(c) \/ Return(c)
  \/ \E k \in Tokens : Expire(k)
  \/ Restart

Next == Step /\ UNCHANGED shared

Spec == Init /\ [][Next]_vars

-----------------------------------------------------------------------------
(* Properties *)

TypeOK ==
  /\ shared \in BOOLEAN
  /\ entry \in [Tokens -> {"absent", "fresh", "expired"}]
  /\ scope \in [Tokens -> Actions \cup {"none"}]
  /\ pc \in [Callers -> {"idle", "asking", "deleting", "granted", "refused"}]
  /\ asked \in [Callers -> (Tokens \X Actions) \cup {<<"none", "none">>}]
  /\ late \in [Callers -> BOOLEAN]
  /\ uses \in [Tokens -> Nat]

(* "A token can't be replayed for a different action (even the same tool   *)
(* with different args)" (confirmation.py:6-8): a call that returns True   *)
(* asked for the action the token was issued for.                          *)
ScopedUse ==
  \A c \in Callers : pc[c] = "granted" => scope[Token(c)] = asked[c][2]

(* A call that begins after a token was used is refused, even when calls   *)
(* overlap on other tokens or expire (confirmation.py:89-93).              *)
NoReplay ==
  \A c \in Callers : pc[c] = "granted" => ~late[c]

(* "issues a single-use token ... once consumed it's gone"                 *)
(* (confirmation.py:6-8).                                                  *)
SingleUse == \A k \in Tokens : uses[k] <= 1

(* The gate of one process implements OneShot: a token is lost once it is  *)
(* no longer fresh in the dictionary.  Of a gate over Redis only SingleUse *)
(* could be said, and it does not hold.  And a refusal spends no token of  *)
(* either, so that one that came with another action still works for its   *)
(* own (confirmation.py:99-105, 109-118).                                  *)
Gone == {k \in Tokens : ~shared /\ scope[k] # "none" /\ entry[k] # "fresh"}

OS == INSTANCE OneShot WITH
        scope <- [k \in Tokens |-> IF shared THEN "none" ELSE scope[k]],
        uses <- [k \in Tokens |-> IF shared THEN 0 ELSE uses[k]],
        lost <- Gone

RefusalSpendsNothing ==
  \A c \in Callers : pc[c] = "asking" /\ pc'[c] = "refused" =>
    \A k \in Tokens : entry[k] = "fresh" => entry'[k] = "fresh"

ImplementsOneShot == OS!Spec /\ [][RefusalSpendsNothing]_vars

(* What the dictionary and its callers keep: the invariant behind the      *)
(* theorems of BackendProofs.                                              *)
GateInv ==
  /\ TypeOK
  /\ \A k \in Tokens :
       /\ entry[k] # "absent" \/ uses[k] > 0 => scope[k] # "none"
       /\ uses[k] > 0 => entry[k] = "absent"
  /\ \A c \in Callers :
       /\ pc[c] # "idle" => asked[c] \in Tokens \X Actions /\ scope[Token(c)] # "none"
       /\ pc[c] \in {"deleting", "granted"} => scope[Token(c)] = asked[c][2] /\ ~late[c]
       /\ pc[c] = "deleting" => shared
       /\ pc[c] # "idle" /\ late[c] => uses[Token(c)] > 0
=============================================================================
