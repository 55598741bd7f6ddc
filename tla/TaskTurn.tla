------------------------------ MODULE TaskTurn ------------------------------
(***************************************************************************)
(* run_turn of agents/task_agent.py, the bounded reasoning loop, for the   *)
(* turns of the users of one backend process, with the confirmation gate   *)
(* they share.  The model of the gate is OneShot, which the gate in memory *)
(* implements (BackendProofs).                                             *)
(*                                                                         *)
(* A call stands for a tool with its arguments.  What the models answer is *)
(* arbitrary: a batch of calls, a draft, or a failure of every provider;   *)
(* drafts and what the reviewer says of them are left out.                 *)
(* MaxBatch bounds the calls of one answer.                                *)
(***************************************************************************)
EXTENDS Integers, Sequences, FiniteSets

CONSTANTS
  Turns,          \* the turns
  Calls,          \* the calls a model may ask for
  Known,          \* those whose tool exists
  Gated,          \* those whose tool is in write_scope_tools
  Voice,          \* session.mode.is_voice
  Grants,         \* the confirmation tokens that may be issued
  MaxToolCalls,   \* max_tool_calls
  MaxBatch

ASSUME TaskTurnAssumption ==
  /\ Known \subseteq Calls /\ Gated \subseteq Known
  /\ Voice \in BOOLEAN
  /\ MaxToolCalls \in Nat /\ MaxBatch \in Nat \ {0}
  /\ "none" \notin Gated \cup Grants
  /\ IsFiniteSet(Grants) /\ IsFiniteSet(Turns)
  /\ Cardinality(Grants) > Cardinality(Turns)   \* a token for every turn that asks

VARIABLES
  stage,    \* stage[t]: where turn t is suspended
  given,    \* given[t]: its confirmation_token, or "none"
  count,    \* count[t]: tool_call_count
  batch,    \* batch[t]: the calls of the last answer that are still to be made
  result,   \* result[t]: the TurnResult returned
  cancel,   \* cancel[t]: has the turn's CancellationToken fired?
  ran,      \* ran[c]: how many times the tool of the gated call c was started
  issuedFor, spent, lost   \* the confirmation gate

gateVars == <<issuedFor, spent, lost>>
locals == <<given, count, batch>>
turnVars == <<stage, locals, ran, result, cancel, gateVars>>

Gate == INSTANCE OneShot WITH Tokens <- Grants, Actions <- Gated, scope <- issuedFor, uses <- spent

Batches == UNION {[1..n -> Calls] : n \in 1..MaxBatch}

(* A turn that is over may have left a token, which any turn may come with.*)
TurnInit ==
  /\ stage = [t \in Turns |-> "idle"]
  /\ given = [t \in Turns |-> "none"]
  /\ count = [t \in Turns |-> 0]
  /\ batch = [t \in Turns |-> <<>>]
  /\ result = [t \in Turns |-> "none"]
  /\ cancel = [t \in Turns |-> FALSE]
  /\ ran = [c \in Gated |-> 0]
  /\ LET old == CHOOSE k \in Grants : TRUE
     IN \E c \in Gated \cup {"none"} :
          issuedFor = [k \in Grants |-> IF k = old THEN c ELSE "none"]
  /\ spent = [k \in Grants |-> 0]
  /\ lost = {}

Goto(t, at) == stage' = [stage EXCEPT ![t] = at] /\ UNCHANGED <<result, cancel>>
Moves(t, at) == Goto(t, at) /\ UNCHANGED locals

(* What was local to the turn is gone. *)
Returns(t, what) ==
  /\ stage' = [stage EXCEPT ![t] = "done"]
  /\ result' = [result EXCEPT ![t] = what]
  /\ given' = [given EXCEPT ![t] = "none"]
  /\ count' = [count EXCEPT ![t] = 0]
  /\ batch' = [batch EXCEPT ![t] = <<>>]
  /\ cancel' = [cancel EXCEPT ![t] = FALSE]

-----------------------------------------------------------------------------
(* A turn comes with any token that was issued, or none.  A retrieval that *)
(* the code forces counts as a tool call.                                  *)
Begin(t) ==
  /\ stage[t] = "idle"
  /\ \E k \in {"none"} \cup {j \in Grants : issuedFor[j] # "none"} : given' = [given EXCEPT ![t] = k]
  /\ \E forced \in {0, 1} : count' = [count EXCEPT ![t] = forced]
  /\ Goto(t, "llm")
  /\ UNCHANGED <<batch, ran, gateVars>>

Cancel(t) ==
  /\ stage[t] \notin {"idle", "done"} /\ ~cancel[t]
  /\ cancel' = [cancel EXCEPT ![t] = TRUE]
  /\ UNCHANGED <<stage, locals, ran, result, gateVars>>

(* cancellation_token.check(), and then the next call of a model.          *)
AsksModel(t, at) == IF cancel[t] THEN Returns(t, "cancelled") ELSE Moves(t, at)

(* token.run() aborts a call of a model that is in flight; one that has    *)
(* just been answered is not aborted.                                      *)
Aborted(t) ==
  /\ stage[t] \in {"llm", "judge", "correct", "rejudge"}
  /\ cancel[t]
  /\ Returns(t, "cancelled")
  /\ UNCHANGED <<ran, gateVars>>

ProvidersFail(t) ==
  /\ stage[t] = "llm"
  /\ Returns(t, "apology")
  /\ UNCHANGED <<ran, gateVars>>

AsksForTools(t) ==
  /\ stage[t] = "llm"
  /\ \E b \in Batches : batch' = [batch EXCEPT ![t] = b]
  /\ Goto(t, "dispatch")
  /\ UNCHANGED <<given, count, ran, gateVars>>

(* A draft goes to the reviewer, or, written in the wrong script or        *)
(* language, straight to the correction.                                   *)
Drafts(t) ==
  /\ stage[t] = "llm"
  /\ AsksModel(t, "judge") \/ AsksModel(t, "correct")
  /\ UNCHANGED <<ran, gateVars>>

-----------------------------------------------------------------------------
(* The calls of a batch, one after the other *)

Call(t) == Head(batch[t])

DispatchingOneMore(t) == stage[t] = "dispatch" /\ count[t] <= MaxToolCalls
Dispatching(t) == stage[t] = "dispatch" /\ count[t] < MaxToolCalls

NeedsConfirmation(t) == Call(t) \in Gated /\ Voice

(* confirmation_gate.consume(): a stored token of this very call. *)
Confirmed(t) ==
  LET k == given[t] IN k # "none" /\ issuedFor[k] = Call(t) /\ spent[k] = 0 /\ k \notin lost

Glance(t) == UNCHANGED gateVars
Spend(t) == Gate!Use(given[t], Call(t))

OverBudget(t) ==
  /\ stage[t] = "dispatch" /\ count[t] >= MaxToolCalls
  /\ Returns(t, "clarify")
  /\ UNCHANGED <<ran, gateVars>>

(* secrets.token_urlsafe: which of the unused tokens makes no difference.  *)
NewToken == CHOOSE k \in Grants : issuedFor[k] = "none"

(* A gated call without its confirmation ends the turn with a new token;   *)
(* the rest of the batch is not made.                                      *)
AsksToConfirm(t) ==
  /\ Dispatching(t) /\ NeedsConfirmation(t) /\ ~Confirmed(t)
  /\ Gate!Issue(NewToken, Call(t))
  /\ Returns(t, "confirm")
  /\ UNCHANGED ran

StartsTool(t) ==
  /\ Dispatching(t) /\ Call(t) \in Known
  /\ \/ ~NeedsConfirmation(t) /\ UNCHANGED gateVars
     \/ NeedsConfirmation(t) /\ Confirmed(t) /\ Spend(t)
  /\ count' = [count EXCEPT ![t] = @ + 1]
  /\ ran' = IF Call(t) \in Gated THEN [ran EXCEPT ![Call(t)] = @ + 1] ELSE ran
  /\ Goto(t, "tool")
  /\ UNCHANGED <<given, batch>>

(* A batch goes on to its next call; the token is checked at its end.      *)
(* n is the number of calls so far.                                        *)
NextCall(t, n) ==
  \/ /\ Len(batch[t]) > 1 \/ ~cancel[t]
     /\ Goto(t, IF Len(batch[t]) > 1 THEN "dispatch" ELSE "llm")
     /\ batch' = [batch EXCEPT ![t] = Tail(@)]
     /\ count' = [count EXCEPT ![t] = n]
     /\ UNCHANGED given
  \/ /\ Len(batch[t]) = 1 /\ cancel[t]
     /\ Returns(t, "cancelled")

(* A call of a tool that does not exist counts and is answered at once. *)
Uncounted(t) == count[t]
Counted(t) == count[t] + 1

UnknownTool(t) ==
  /\ Dispatching(t) /\ Call(t) \notin Known
  /\ NextCall(t, Counted(t))
  /\ UNCHANGED <<ran, gateVars>>

(* A tool that raises is reported to the model like one that answers. *)
ToolReturns(t) ==
  /\ stage[t] = "tool"
  /\ NextCall(t, count[t])
  /\ UNCHANGED <<ran, gateVars>>

-----------------------------------------------------------------------------
(* The self-check and its one correction *)

(* A review that could not be made counts as passed. *)
Judges(t) ==
  /\ stage[t] = "judge"
  /\ Returns(t, "answer") \/ AsksModel(t, "correct")
  /\ UNCHANGED <<ran, gateVars>>

Corrects(t) ==
  /\ stage[t] = "correct"
  /\ AsksModel(t, "rejudge")
  /\ UNCHANGED <<ran, gateVars>>

(* The turn returns the corrected draft, whatever its review says. *)
Rejudges(t) ==
  /\ stage[t] = "rejudge"
  /\ Returns(t, "answer")
  /\ UNCHANGED <<ran, gateVars>>

(* No provider answers the correction: the turn returns the first draft.   *)
KeepsDraft(t) ==
  /\ stage[t] = "correct"
  /\ Returns(t, "answer")
  /\ UNCHANGED <<ran, gateVars>>

-----------------------------------------------------------------------------
(* A token expires, or the process that holds it restarts. *)
TokensLost(K) ==
  /\ K # {} /\ \A k \in K : issuedFor[k] # "none" /\ k \notin lost
  /\ Gate!Lose(K)
  /\ UNCHANGED <<stage, locals, ran, result, cancel>>

TurnStep(t) ==
  \/ Aborted(t) \/ ProvidersFail(t) \/ AsksForTools(t) \/ Drafts(t)
  \/ OverBudget(t) \/ AsksToConfirm(t) \/ StartsTool(t) \/ UnknownTool(t) \/ ToolReturns(t)
  \/ Judges(t) \/ Corrects(t) \/ Rejudges(t) \/ KeepsDraft(t)

TurnNext ==
  \/ \E t \in Turns : Begin(t) \/ Cancel(t) \/ TurnStep(t)
  \/ \E k \in Grants : TokensLost({k})

TurnSpec == TurnInit /\ [][TurnNext]_turnVars

(* Every await of a turn returns: calls of models and tools have timeouts. *)
TurnFairSpec == TurnSpec /\ \A t \in Turns : WF_turnVars(TurnStep(t))

-----------------------------------------------------------------------------
(* Properties *)

TurnTypeOK ==
  /\ stage \in [Turns -> {"idle", "llm", "dispatch", "tool", "judge", "correct", "rejudge", "done"}]
  /\ given \in [Turns -> Grants \cup {"none"}]
  /\ count \in [Turns -> Nat]
  /\ batch \in [Turns -> Seq(Calls)]
  /\ result \in [Turns -> {"none", "answer", "apology", "clarify", "confirm", "cancelled"}]
  /\ cancel \in [Turns -> BOOLEAN]
  /\ ran \in [Gated -> Nat]
  /\ issuedFor \in [Grants -> Gated \cup {"none"}]
  /\ spent \in [Grants -> Nat] /\ lost \subseteq Grants

(* A write-scope tool runs in a voice turn once for every confirmation of  *)
(* that very call, never without one, and no confirmation is spent for     *)
(* nothing, however turns with the same token overlap                      *)
(* (task_agent.py:887-893, 985-1028).                                      *)
ConfirmedRuns ==
  Voice => \A c \in Gated : ran[c] = Cardinality({k \in Grants : issuedFor[k] = c /\ spent[k] = 1})

(* "exceeding it stops the loop and returns a clarifying question instead  *)
(* of making another tool call": a turn that the model keeps calling tools *)
(* in makes no more calls than the budget, over all its batches, and a     *)
(* forced retrieval takes its share (task_agent.py:868-870, 905-908).      *)
BudgetKept == \A t \in Turns : count[t] <= MaxToolCalls \/ count[t] = 1

(* Every turn returns, whatever the models ask for and the tools do (each  *)
(* turn begins once, so that in the end none is under way).                *)
TurnReturns == <>[](\A t \in Turns : stage[t] \in {"idle", "done"})
=============================================================================
