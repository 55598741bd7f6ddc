------------------------------ MODULE MCBackend ------------------------------
(***************************************************************************)
(* Model checking of the confirmation gate, of the turns that use it, of   *)
(* the store their answers are recorded in, and of the router that every   *)
(* call of a model goes through.  Confirmation and TaskTurn meet in        *)
(* OneShot, which the one implements and the other uses; no two of the     *)
(* four share a variable, so that one run explores them one at a time:     *)
(* part says which, and the others stay as they begin.                     *)
(***************************************************************************)
EXTENDS Confirmation, TaskTurn, ChatStore, Router, TLC

CONSTANTS grok, claude, gemini

(* One provider of each adapter. *)
AdapterOf == (grok :> "openai") @@ (claude :> "claude") @@ (gemini :> "gemini")
SomeOrders == {<<>>, <<claude, gemini, grok>>}

VARIABLE part

allVars == <<part, vars, turnVars, storeVars, routerVars>>

(* The parts that stay do so in one state in which they may begin. *)
BackendInit ==
  /\ part \in {"gate", "turns", "store", "router"}
  /\ Init /\ TurnInit /\ StoreInit /\ RouterInit
  /\ part # "gate" => shared
  /\ part # "turns" => \A k \in Grants : issuedFor[k] = "none"
  /\ part # "router" => order = <<>>

BackendNext ==
  /\ UNCHANGED part
  /\ \/ part = "gate" /\ Next /\ UNCHANGED <<turnVars, storeVars, routerVars>>
     \/ part = "turns" /\ TurnNext /\ UNCHANGED <<vars, storeVars, routerVars>>
     \/ part = "store" /\ StoreNext /\ UNCHANGED <<vars, turnVars, routerVars>>
     \/ part = "router" /\ RouterNext /\ UNCHANGED <<vars, turnVars, storeVars>>

(* The fairness of TurnFairSpec, of StoreFairSpec and of RouterSpec, as    *)
(* one condition because part never changes: what is under way goes on.    *)
GoesOn ==
  /\ UNCHANGED part
  /\ \/ part = "turns" /\ (\E t \in Turns : TurnStep(t)) /\ UNCHANGED <<vars, storeVars, routerVars>>
     \/ part = "store" /\ (\E t \in Answered : Advance(t)) /\ UNCHANGED <<vars, turnVars, routerVars>>
     \/ part = "router" /\ (\E c \in LLMCalls : Ends(c)) /\ UNCHANGED <<vars, turnVars, storeVars>>

BackendSpec == BackendInit /\ [][BackendNext]_allVars /\ WF_allVars(GoesOn)
=============================================================================
