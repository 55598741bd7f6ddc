------------------------------ MODULE MCSpeech ------------------------------
(***************************************************************************)
(* Model checking of the speech gateway: a session of /ws/converse, and    *)
(* the endpoints of MCGateway.  They share no variable, so that one run    *)
(* explores them one at a time: served says which, and the others stay as  *)
(* they begin.  Events and the queue of a session are the bounds; a        *)
(* session that has not closed never gets stuck, the others may stop.      *)
(***************************************************************************)
EXTENDS MCGateway, Converse

VARIABLE served

speechVars == <<served, allVars, vars>>

SpeechInit ==
  /\ Init /\ ConverseInit
  /\ served \in {"converse", "others"}
  /\ served = "converse" => part = "stt"

SpeechNext ==
  /\ UNCHANGED served
  /\ \/ served = "converse" /\ ConverseNext /\ UNCHANGED allVars
     \/ served = "others" /\ (Next \/ UNCHANGED allVars) /\ UNCHANGED vars

(* The fairness of ConverseFairSpec and of MCGateway.                      *)
SpeechGoesOn ==
  /\ UNCHANGED served
  /\ \/ served = "converse" /\ TasksGoOn /\ UNCHANGED allVars
     \/ served = "others" /\ GoesOn /\ UNCHANGED vars

SpeechSpec == SpeechInit /\ [][SpeechNext]_speechVars /\ WF_speechVars(SpeechGoesOn)
=============================================================================
