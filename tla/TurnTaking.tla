----------------------------- MODULE TurnTaking -----------------------------
(***************************************************************************)
(* What a speech-to-speech session promises its client, without saying how *)
(* the gateway keeps the promise: the conversation is a sequence of turns, *)
(* one open at a time, each ending exactly once.  A turn that was cut off  *)
(* says nothing more, and only a turn that ran to its end is announced as  *)
(* complete.  Converse is shown to implement this module.                  *)
(***************************************************************************)
EXTENDS Naturals

CONSTANT Turns   \* the turns a session may hold, numbered in the order of their utterances

VARIABLES
  status,   \* status[t]: how far turn t got
  last      \* last[t]: the last message about turn t that the client received

ttvars == <<status, last>>

Said    == {"error", "assistant_text", "audio", "text_only_fallback"}

Init ==
  /\ status = [t \in Turns |-> "unheard"]
  /\ last = [t \in Turns |-> "nothing"]

Receives(t, m) == last' = [last EXCEPT ![t] = m]

(* A turn opens only when no other is open and none of its successors was. *)
Open(t) ==
  /\ \A s \in Turns : status[s] # "open" /\ (s >= t => status[s] = "unheard")
  /\ status' = [status EXCEPT ![t] = "open"]
  /\ Receives(t, "transcript_final") \/ UNCHANGED last

(* Only an open turn says anything, and it speaks only what it has shown. *)
Say(t, m) ==
  /\ status[t] = "open"
  /\ m \in {"audio", "text_only_fallback"} => last[t] \in {"assistant_text", "audio"}
  /\ Receives(t, m)
  /\ UNCHANGED status

Close(t, how) ==
  /\ status[t] = "open"
  /\ status' = [status EXCEPT ![t] = how]
  /\ UNCHANGED last

Announce(t) ==
  /\ \/ status[t] = "completed" /\ Receives(t, "turn_complete")
     \/ status[t] = "cut" /\ Receives(t, "barge_in_detected")
  /\ UNCHANGED status

Next ==
  \E t \in Turns :
    \/ Open(t)
    \/ \E m \in Said : Say(t, m)
    \/ \E how \in {"completed", "cut"} : Close(t, how)
    \/ Announce(t)

Spec == Init /\ [][Next]_ttvars
=============================================================================
