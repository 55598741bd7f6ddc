------------------------------- MODULE MCChat -------------------------------
(***************************************************************************)
(* Model checking of both ends of a chat: the graph behind POST /chat, and *)
(* the frontend, which is the hook of the voice session and the list of    *)
(* conversations around it.  The inputs and turns of the user, the retries *)
(* of a dead microphone, the conversations and the handlers that wait at a *)
(* time are the bounds of the frontend.  Its two halves meet where a       *)
(* switch resets the hook, which VoiceSession has as Reset; they and the   *)
(* graph share no variable, so that one run explores them one at a time:   *)
(* part says which.                                                        *)
(***************************************************************************)
EXTENDS MCChatGraph, VoiceSession, ConversationList

VARIABLE part

allVars == <<part, chatVars, vars, listVars>>

(* The other parts stay in one state in which they may begin.              *)
ChatInit ==
  /\ GraphInit /\ Init /\ ListInit
  /\ part \in {"graph", "voice", "chats"}
  /\ part # "graph" => calm /\ conversation = "owned"
  /\ part # "voice" => swift
  /\ part # "chats" => inDb = {} /\ saves /\ patient

ChatNext ==
  /\ UNCHANGED part
  /\ \/ part = "graph" /\ GraphNext /\ UNCHANGED <<vars, listVars>>
     \/ part = "voice" /\ Next /\ UNCHANGED <<chatVars, listVars>>
     \/ part = "chats" /\ ListNext /\ UNCHANGED <<chatVars, vars>>

(* The fairness of GraphSpec and of FairSpec: what is under way goes on.   *)
ChatGoesOn ==
  /\ UNCHANGED part
  /\ \/ part = "graph" /\ GraphGoesOn /\ UNCHANGED <<vars, listVars>>
     \/ part = "voice" /\ VoiceGoesOn /\ UNCHANGED <<chatVars, listVars>>

ChatSpec == ChatInit /\ [][ChatNext]_allVars /\ WF_allVars(ChatGoesOn)
=============================================================================
