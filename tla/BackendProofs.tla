---------------------------- MODULE BackendProofs ----------------------------
(***************************************************************************)
(* What the gate, the turns that use it and the store of their answers     *)
(* guarantee for any number of tokens, calls, turns and conversations:     *)
(*                                                                         *)
(* - a token authorises only its own action and never a call that began    *)
(*   after it was used, and the gate that keeps its tokens in a dictionary *)
(*   implements OneShot;                                                   *)
(* - no turn makes more calls than its budget, and in a voice turn every   *)
(*   run of a write-scope tool has a confirmation of its own;              *)
(* - saved turns are whole, saved once and gone with their conversation,   *)
(*   whatever connections break.                                           *)
(***************************************************************************)
EXTENDS Confirmation, TaskTurn, ChatStore, FiniteSetTheorems, SequenceTheorems, TLAPS

-----------------------------------------------------------------------------
(* The confirmation gate.                                                  *)

(* Every step preserves GateInv. *)
LEMMA StepGate == GateInv /\ [Next]_vars => GateInv'
<1> SUFFICES ASSUME GateInv, [Next]_vars PROVE GateInv'
  OBVIOUS
<1> USE ConfirmationAssumption DEF GateInv, TypeOK, Token
<1>0. shared' = shared
  BY DEF Next, vars
<1> USE <1>0
<1>1. ASSUME NEW k \in Tokens, NEW a \in Actions, Request(k, a) PROVE GateInv'
  <2>1. /\ entry' \in [Tokens -> {"absent", "fresh", "expired"}]
        /\ entry'[k] = "fresh" /\ scope[k] = "none" /\ scope' = [scope EXCEPT ![k] = a]
        /\ \A j \in Tokens : j # k => entry'[j] \in {entry[j], "absent"}
    BY <1>1 DEF Request, Evicted
  <2>2. UNCHANGED <<pc, asked, late, uses>>
    BY <1>1 DEF Request
  <2>3. TypeOK'
    BY <2>1, <2>2
  <2>4. \A c \in Callers : pc[c] # "idle" => asked[c][1] # k
    BY <2>1
  <2> QED  BY <2>1, <2>2, <2>3, <2>4
<1>2. ASSUME NEW k \in Tokens, NEW a \in Actions, NEW c \in Callers, Ask(c, k, a) PROVE GateInv'
  <2>1. /\ asked' = [asked EXCEPT ![c] = <<k, a>>] /\ late' = [late EXCEPT ![c] = uses[k] > 0]
        /\ pc' = [pc EXCEPT ![c] = "asking"] /\ scope[k] # "none"
        /\ UNCHANGED <<entry, scope, uses>>
    BY <1>2 DEF Ask
  <2>2. <<k, a>> \in Tokens \X Actions /\ <<k, a>>[1] = k
    OBVIOUS
  <2>3. TypeOK'
    BY <2>1, <2>2
  <2>4. ASSUME NEW d \in Callers, d # c
        PROVE  asked'[d] = asked[d] /\ late'[d] = late[d] /\ pc'[d] = pc[d]
    BY <2>1, <2>4
  <2>5. asked'[c] = <<k, a>> /\ late'[c] = (uses[k] > 0) /\ pc'[c] = "asking"
    BY <2>1
  <2>6. ASSUME NEW d \in Callers
        PROVE  /\ pc'[d] # "idle" => asked'[d] \in Tokens \X Actions /\ scope'[asked'[d][1]] # "none"
               /\ pc'[d] \in {"deleting", "granted"} => scope'[asked'[d][1]] = asked'[d][2] /\ ~late'[d]
               /\ pc'[d] = "deleting" => shared'
               /\ pc'[d] # "idle" /\ late'[d] => uses'[asked'[d][1]] > 0
    <3>1. CASE d = c
      BY <2>1, <2>2, <2>5, <3>1
    <3>2. CASE d # c
      BY <2>1, <2>4, <3>2
    <3> QED  BY <3>1, <3>2
  <2> QED  BY <2>1, <2>3, <2>6
<1>3. ASSUME NEW c \in Callers, ConsumeInMemory(c) \/ GetKey(c) \/ DeleteKey(c) \/ Return(c) PROVE GateInv'
  <2>1. CASE ConsumeInMemory(c)
    <3>1. asked[c][1] \in Tokens /\ asked[c][2] \in Actions
      BY <2>1 DEF ConsumeInMemory
    <3> QED  BY <2>1, <3>1 DEF ConsumeInMemory, Matches, Drop, Refuse
  <2>2. CASE GetKey(c)
    <3>1. asked[c][1] \in Tokens /\ asked[c][2] \in Actions
      BY <2>2 DEF GetKey
    <3> QED  BY <2>2, <3>1 DEF GetKey, Matches, Get
  <2>3. CASE DeleteKey(c)
    <3>1. asked[c][1] \in Tokens /\ asked[c][2] \in Actions
      BY <2>3 DEF DeleteKey
    <3> QED  BY <2>3, <3>1 DEF DeleteKey, Drop
  <2>4. CASE Return(c)
    BY <2>4 DEF Return
  <2> QED  BY <1>3, <2>1, <2>2, <2>3, <2>4
<1>4. ASSUME NEW k \in Tokens, Expire(k) PROVE GateInv'
  BY <1>4 DEF Expire
<1>5. ASSUME Restart PROVE GateInv'
  BY <1>5 DEF Restart
<1>6. ASSUME UNCHANGED vars PROVE GateInv'
  BY <1>6 DEF vars
<1> QED  BY <1>1, <1>2, <1>3, <1>4, <1>5, <1>6 DEF Next, Step

(* GateInv holds of every gate, in memory or in Redis. *)
THEOREM GateInvariant == Spec => []GateInv
<1>1. Init => GateInv
  BY ConfirmationAssumption DEF Init, GateInv, TypeOK, Token
<1> QED  BY <1>1, StepGate, PTL DEF Spec

(* A call that returns True asked for the action its token was issued for  *)
(* (confirmation.py:104, 117).                                             *)
THEOREM Scoped == Spec => []ScopedUse
<1>1. GateInv => ScopedUse
  BY DEF GateInv, ScopedUse
<1> QED  BY <1>1, GateInvariant, PTL

(* A call that begins after its token was used returns False, also when    *)
(* GET and DELETE of other calls are interleaved (confirmation.py:99-120). *)
THEOREM Replay == Spec => []NoReplay
<1>1. GateInv => NoReplay
  BY DEF GateInv, NoReplay
<1> QED  BY <1>1, GateInvariant, PTL

(* The gate in memory implements OneShot: a token is used at most once and *)
(* never after it was lost (confirmation.py:6-8, 109-120); and a refusal   *)
(* spends no token, in memory and over Redis.                              *)
THEOREM MemoryIsOneShot == Spec => ImplementsOneShot
<1> DEFINE S == [k \in Tokens |-> IF shared THEN "none" ELSE scope[k]]
           U == [k \in Tokens |-> IF shared THEN 0 ELSE uses[k]]
           Next0 == \/ \E k \in Tokens, a \in Actions :
                         /\ S[k] = "none" /\ S' = [S EXCEPT ![k] = a] /\ UNCHANGED <<U, Gone>>
                    \/ \E k \in Tokens, a \in Actions :
                         /\ S[k] = a /\ U[k] = 0 /\ k \notin Gone
                         /\ U' = [U EXCEPT ![k] = 1] /\ Gone' = Gone \cup {k} /\ UNCHANGED S
                    \/ \E K \in SUBSET Tokens : Gone' = Gone \cup K /\ UNCHANGED <<S, U>>
                    \/ UNCHANGED <<S, U, Gone>>
<1>1. Init => OS!Init
  BY DEF Init, OS!Init, Gone
<1>2. GateInv /\ [Next]_vars => Next0
  <2> SUFFICES ASSUME GateInv, [Next]_vars PROVE Next0
    OBVIOUS
  <2> USE DEF GateInv, TypeOK, Token
  <2>0. shared' = shared
    BY DEF Next, vars
  <2>1. ASSUME NEW k \in Tokens, NEW a \in Actions, ~shared, Request(k, a) PROVE Next0
    <3>1. /\ scope[k] = "none" /\ scope' = [scope EXCEPT ![k] = a] /\ uses' = uses
          /\ entry'[k] = "fresh"
          /\ \A j \in Tokens : j # k => (entry'[j] = "fresh" <=> entry[j] = "fresh")
      BY <2>1 DEF Request, Evicted
    <3>2. Gone' = Gone
      BY <2>0, <3>1 DEF Gone
    <3>3. S[k] = "none" /\ S' = [S EXCEPT ![k] = a] /\ U' = U
      BY <2>0, <2>1, <3>1
    <3> QED  BY <3>2, <3>3
  <2>2. ASSUME NEW c \in Callers, ~shared, ConsumeInMemory(c) PROVE Next0
    <3> DEFINE k == asked[c][1]
               a == asked[c][2]
    <3>1. k \in Tokens /\ a \in Actions /\ UNCHANGED scope
      BY <2>2 DEF ConsumeInMemory
    <3>2. S' = S
      BY <2>0, <3>1
    <3>3. CASE Matches(c)
      <4>1. /\ entry[k] = "fresh" /\ scope[k] = a /\ uses[k] = 0 /\ k \notin Gone
            /\ entry' = [entry EXCEPT ![k] = "absent"] /\ uses' = [uses EXCEPT ![k] = 1]
        BY <2>2, <3>1, <3>3 DEF ConsumeInMemory, Matches, Drop, Gone
      <4>2. Gone' = Gone \cup {k}
        BY <2>0, <2>2, <3>1, <4>1, ConfirmationAssumption DEF Gone
      <4>3. S[k] = a /\ U[k] = 0 /\ U' = [U EXCEPT ![k] = 1]
        BY <2>0, <2>2, <3>1, <4>1
      <4> HIDE DEF S, U
      <4> QED  BY <3>1, <3>2, <4>1, <4>2, <4>3
    <3>4. CASE ~Matches(c)
      <4>1. uses' = uses /\ \A j \in Tokens : entry'[j] = "fresh" <=> entry[j] = "fresh"
        BY <2>2, <3>1, <3>4 DEF ConsumeInMemory, Refuse, Drop
      <4>2. U' = U /\ Gone' = Gone
        BY <2>0, <3>1, <4>1 DEF Gone
      <4> QED  BY <3>2, <4>2
    <3> QED  BY <3>3, <3>4
  <2>3. ASSUME NEW k \in Tokens, ~shared, Expire(k) PROVE Next0
    <3>1. Gone' = Gone \cup {k} /\ UNCHANGED <<scope, uses>>
      BY <2>0, <2>3 DEF Expire, Gone
    <3>2. {k} \in SUBSET Tokens /\ UNCHANGED <<S, U>>
      BY <2>0, <3>1
    <3> HIDE DEF S, U
    <3> QED  BY <3>1, <3>2
  <2>4. ASSUME ~shared, Restart PROVE Next0
    <3>1. Gone' = Gone \cup Gone' /\ Gone' \in SUBSET Tokens /\ UNCHANGED <<scope, uses>>
      BY <2>0, <2>4 DEF Restart, Gone
    <3>2. UNCHANGED <<S, U>>
      BY <2>0, <3>1
    <3> HIDE DEF S, U
    <3> QED  BY <3>1, <3>2
  <2>5. ASSUME \/ \E k \in Tokens, a \in Actions, c \in Callers : Ask(c, k, a)
               \/ \E c \in Callers : GetKey(c) \/ DeleteKey(c) \/ Return(c)
               \/ UNCHANGED vars,
               ~shared
        PROVE Next0
    <3>1. UNCHANGED <<scope, uses, entry>>
      BY <2>5 DEF Ask, GetKey, Get, DeleteKey, Return, vars
    <3>2. UNCHANGED <<S, U, Gone>>
      BY <2>0, <3>1 DEF Gone
    <3> QED  BY <3>2
  <2>6. CASE shared
    <3>1. Gone = {} /\ Gone' = {}
      BY <2>0, <2>6 DEF Gone
    <3>2. S' = S /\ U' = U
      BY <2>0, <2>6
    <3> QED  BY <3>1, <3>2
  <2>7. CASE ~shared
    BY <2>1, <2>2, <2>3, <2>4, <2>5, <2>7 DEF Next, Step
  <2> QED  BY <2>6, <2>7
<1>3. Next0 => [OS!Next]_OS!osvars
  BY DEF OS!Next, OS!Issue, OS!Use, OS!Lose, OS!osvars
<1>4. GateInv /\ [Next]_vars => [RefusalSpendsNothing]_vars
  <2> SUFFICES ASSUME GateInv, Step, NEW c \in Callers, pc[c] = "asking", pc'[c] = "refused",
                      NEW k \in Tokens, entry[k] = "fresh"
               PROVE  entry'[k] = "fresh"
    BY DEF Next, RefusalSpendsNothing
  <2> USE DEF GateInv, TypeOK, Token
  <2>1. ASSUME NEW j \in Tokens, NEW a \in Actions, Request(j, a) PROVE entry'[k] = "fresh"
    BY <2>1 DEF Request, Evicted
  <2>2. ASSUME NEW d \in Callers, ConsumeInMemory(d) PROVE entry'[k] = "fresh"
    <3>1. c = d /\ ~Matches(d)
      BY <2>2 DEF ConsumeInMemory
    <3>2. Refuse(d)
      BY <2>2, <3>1 DEF ConsumeInMemory
    <3> QED  BY <3>2 DEF Refuse, Drop
  <2>3. ASSUME NEW d \in Callers, DeleteKey(d) PROVE FALSE
    BY <2>3 DEF DeleteKey
  <2>4. ASSUME NEW j \in Tokens, Expire(j) PROVE FALSE
    BY <2>4 DEF Expire
  <2>5. ASSUME Restart PROVE FALSE
    BY <2>5 DEF Restart
  <2>6. ASSUME \/ \E j \in Tokens, a \in Actions, d \in Callers : Ask(d, j, a)
               \/ \E d \in Callers : GetKey(d) \/ Return(d)
        PROVE  entry'[k] = "fresh"
    BY <2>6 DEF Ask, GetKey, Get, Return
  <2> QED  BY <2>1, <2>2, <2>3, <2>4, <2>5, <2>6 DEF Step
<1> HIDE DEF Next0, RefusalSpendsNothing
<1> QED  BY <1>1, <1>2, <1>3, <1>4, GateInvariant, PTL DEF Spec, ImplementsOneShot, OS!Spec

-----------------------------------------------------------------------------
(* The turns.                                                              *)

(* A batch that is being worked on has a call left, and a token has been   *)
(* used once at most and not before it was issued.                         *)
CallsLeft == \A t \in Turns : stage[t] \in {"dispatch", "tool"} => batch[t] # <<>>
SpentOnce ==
  \A k \in Grants : spent[k] \in {0, 1} /\ (issuedFor[k] = "none" => spent[k] = 0)

TurnInv == TurnTypeOK /\ CallsLeft /\ SpentOnce /\ BudgetKept /\ ConfirmedRuns

(* The tokens a call of the gated tool c was confirmed with. *)
SpentOn(c) == {k \in Grants : issuedFor[k] = c /\ spent[k] = 1}

(* What one turn does to its own variables keeps their types, its batch    *)
(* and its budget: the part of the invariant that speaks of single turns.  *)
Local ==
  /\ stage \in [Turns -> {"idle", "llm", "dispatch", "tool", "judge", "correct", "rejudge", "done"}]
  /\ given \in [Turns -> Grants \cup {"none"}]
  /\ count \in [Turns -> Nat]
  /\ batch \in [Turns -> Seq(Calls)]
  /\ result \in [Turns -> {"none", "answer", "apology", "clarify", "confirm", "cancelled"}]
  /\ cancel \in [Turns -> BOOLEAN]
  /\ CallsLeft /\ BudgetKept

(* The part that speaks of the gate and of the tools that ran. *)
Shared ==
  /\ ran \in [Gated -> Nat]
  /\ issuedFor \in [Grants -> Gated \cup {"none"}]
  /\ spent \in [Grants -> Nat] /\ lost \subseteq Grants
  /\ SpentOnce /\ ConfirmedRuns

LEMMA InvParts == TurnInv <=> Local /\ Shared
BY DEF TurnInv, Local, Shared, TurnTypeOK

(* A batch the model asks for is a sequence of calls that is not empty. *)
LEMMA BatchesAreSequences == \A b \in Batches : b \in Seq(Calls) /\ b # <<>>
<1> SUFFICES ASSUME NEW n \in 1..MaxBatch, NEW b \in [1..n -> Calls]
             PROVE  b \in Seq(Calls) /\ b # <<>>
  BY DEF Batches
<1>0. MaxBatch \in Nat /\ n \in Nat /\ n >= 1
  BY TaskTurnAssumption
<1>1. b \in Seq(Calls)
  BY <1>0
<1>2. Len(b) = n
  BY <1>0, <1>1, LenProperties
<1> QED  BY <1>0, <1>1, <1>2, EmptySeq

(* What is left of a longer sequence is not empty. *)
LEMMA TailOfLonger ==
  ASSUME NEW S, NEW s \in Seq(S), Len(s) > 1
  PROVE  Tail(s) # <<>>
<1>1. s # <<>> /\ Len(s) \in Nat
  BY EmptySeq, LenProperties
<1>2. Tail(s) \in Seq(S) /\ Len(Tail(s)) = Len(s) - 1
  BY <1>1, HeadTailProperties
<1>3. \A n \in Nat : n > 1 => n - 1 # 0
  OBVIOUS
<1>4. Len(<<>>) = 0
  BY EmptySeq, Zenon
<1> QED  BY <1>1, <1>2, <1>3, <1>4, Zenon

-----------------------------------------------------------------------------
(* Single turns *)

(* A turn that returns has nothing left. *)
LEMMA ReturnsLocal ==
  ASSUME Local, NEW t \in Turns,
         NEW what \in {"answer", "apology", "clarify", "confirm", "cancelled"},
         Returns(t, what)
  PROVE  Local'
<1> USE DEF Local, Returns
<1>1. <<>> \in Seq(Calls)
  OBVIOUS
<1>2. CallsLeft'
  BY DEF CallsLeft
<1>3. BudgetKept'
  BY TaskTurnAssumption DEF BudgetKept
<1> QED  BY <1>1, <1>2, <1>3

(* A turn that goes on to ask a model keeps its batch and its count. *)
LEMMA MovesLocal ==
  ASSUME Local, NEW t \in Turns, NEW at \in {"llm", "judge", "correct", "rejudge"},
         AsksModel(t, at)
  PROVE  Local'
<1>1. CASE Returns(t, "cancelled")
  BY <1>1, ReturnsLocal
<1>2. CASE Moves(t, at)
  BY <1>2 DEF Local, Moves, Goto, locals, CallsLeft, BudgetKept
<1> QED  BY <1>1, <1>2 DEF AsksModel

(* A turn that goes on with its batch keeps to its budget if the number of *)
(* calls so far does.                                                      *)
LEMMA NextCallLocal ==
  ASSUME Local, NEW t \in Turns, stage[t] \in {"dispatch", "tool"},
         NEW n \in Nat, n <= MaxToolCalls \/ n = 1, NextCall(t, n)
  PROVE  Local'
<1>1. CASE Returns(t, "cancelled")
  BY <1>1, ReturnsLocal
<1>2. CASE /\ Goto(t, IF Len(batch[t]) > 1 THEN "dispatch" ELSE "llm")
           /\ batch' = [batch EXCEPT ![t] = Tail(@)]
           /\ count' = [count EXCEPT ![t] = n]
           /\ UNCHANGED given
  <2>1. batch[t] \in Seq(Calls) /\ batch[t] # <<>>
    BY DEF Local, CallsLeft
  <2>2. Tail(batch[t]) \in Seq(Calls)
    BY <2>1, HeadTailProperties
  <2>3. Len(batch[t]) > 1 => Tail(batch[t]) # <<>>
    BY <2>1, TailOfLonger
  <2> QED  BY <1>2, <2>2, <2>3 DEF Local, Goto, CallsLeft, BudgetKept
<1> QED  BY <1>1, <1>2 DEF NextCall

LEMMA StepLocal == Local /\ [TurnNext]_turnVars => Local'
<1> SUFFICES ASSUME Local, [TurnNext]_turnVars PROVE Local'
  OBVIOUS
<1>1. ASSUME NEW t \in Turns, Begin(t) PROVE Local'
  <2>1. PICK k \in Grants \cup {"none"} : given' = [given EXCEPT ![t] = k]
    BY <1>1 DEF Begin
  <2>2. PICK forced \in {0, 1} : count' = [count EXCEPT ![t] = forced]
    BY <1>1 DEF Begin
  <2>3. stage' = [stage EXCEPT ![t] = "llm"] /\ UNCHANGED <<batch, result, cancel>>
    BY <1>1 DEF Begin, Goto
  <2>4. CallsLeft'
    BY <2>3 DEF Local, CallsLeft
  <2>5. forced <= MaxToolCalls \/ forced = 1
    BY TaskTurnAssumption
  <2>6. BudgetKept'
    BY <2>2, <2>5 DEF Local, BudgetKept
  <2> QED  BY <2>1, <2>2, <2>3, <2>4, <2>6 DEF Local
<1>2. ASSUME NEW t \in Turns, Cancel(t) PROVE Local'
  BY <1>2 DEF Cancel, locals, Local, CallsLeft, BudgetKept
<1>3. ASSUME NEW t \in Turns, TurnStep(t) PROVE Local'
  <2>1. CASE Aborted(t) \/ ProvidersFail(t) \/ OverBudget(t) \/ AsksToConfirm(t)
             \/ Rejudges(t) \/ KeepsDraft(t)
    BY <2>1, ReturnsLocal
       DEF Aborted, ProvidersFail, OverBudget, AsksToConfirm, Rejudges, KeepsDraft
  <2>2. CASE AsksForTools(t)
    BY <2>2, BatchesAreSequences DEF AsksForTools, Goto, Local, CallsLeft, BudgetKept
  <2>3. CASE Drafts(t) \/ Corrects(t)
    BY <2>3, MovesLocal DEF Drafts, Corrects
  <2>4. CASE StartsTool(t)
    <3>1. count[t] \in Nat /\ count[t] + 1 <= MaxToolCalls /\ stage[t] = "dispatch"
      BY <2>4, TaskTurnAssumption DEF StartsTool, Dispatching, Local
    <3>2. /\ count' = [count EXCEPT ![t] = @ + 1] /\ stage' = [stage EXCEPT ![t] = "tool"]
          /\ UNCHANGED <<given, batch, result, cancel>>
      BY <2>4 DEF StartsTool, Goto
    <3> QED  BY <3>1, <3>2 DEF Local, CallsLeft, BudgetKept
  <2>5. CASE UnknownTool(t)
    <3>1. count[t] + 1 \in Nat /\ count[t] + 1 <= MaxToolCalls /\ stage[t] = "dispatch"
      BY <2>5, TaskTurnAssumption DEF UnknownTool, Dispatching, Local
    <3> QED  BY <2>5, <3>1, NextCallLocal DEF UnknownTool, Counted
  <2>6. CASE ToolReturns(t)
    <3>1. count[t] \in Nat /\ (count[t] <= MaxToolCalls \/ count[t] = 1)
      BY DEF Local, BudgetKept
    <3> QED  BY <2>6, <3>1, NextCallLocal DEF ToolReturns
  <2>7. CASE Judges(t)
    BY <2>7, ReturnsLocal, MovesLocal DEF Judges
  <2> QED  BY <1>3, <2>1, <2>2, <2>3, <2>4, <2>5, <2>6, <2>7 DEF TurnStep
<1>4. ASSUME NEW k \in Grants, TokensLost({k}) PROVE Local'
  BY <1>4 DEF TokensLost, locals, Local, CallsLeft, BudgetKept
<1>5. CASE UNCHANGED turnVars
  BY <1>5 DEF turnVars, locals, Local, CallsLeft, BudgetKept
<1> QED  BY <1>1, <1>2, <1>3, <1>4, <1>5 DEF TurnNext

-----------------------------------------------------------------------------
(* The gate and the tools *)

(* A new token was used by nobody. *)
LEMMA IssueShared ==
  ASSUME Shared, NEW k, NEW c \in Gated, Gate!Issue(k, c), k \in Grants, UNCHANGED ran
  PROVE  Shared'
<1>1. c # "none"
  BY TaskTurnAssumption
<1>2. spent[k] = 0 /\ issuedFor' = [issuedFor EXCEPT ![k] = c] /\ UNCHANGED <<spent, lost>>
  BY DEF Gate!Issue, Shared, SpentOnce
<1>3. SpentOnce'
  BY <1>1, <1>2 DEF Shared, SpentOnce
<1>4. \A d \in Gated : SpentOn(d)' = SpentOn(d)
  BY <1>2 DEF SpentOn, Shared
<1>5. ConfirmedRuns'
  BY <1>4 DEF ConfirmedRuns, SpentOn, Shared
<1> QED  BY <1>2, <1>3, <1>5 DEF Shared

(* A confirmed run spends one more token. *)
LEMMA UseShared ==
  ASSUME Shared, NEW k \in Grants, NEW c \in Gated, Gate!Use(k, c),
         ran' = [ran EXCEPT ![c] = @ + 1]
  PROVE  Shared'
<1>1. c # "none"
  BY TaskTurnAssumption
<1>2. /\ issuedFor[k] = c /\ spent[k] = 0 /\ spent' = [spent EXCEPT ![k] = 1]
      /\ lost' = lost \cup {k} /\ UNCHANGED issuedFor
  BY DEF Gate!Use
<1>3. SpentOnce'
  BY <1>1, <1>2 DEF Shared, SpentOnce
<1>4. \A d \in Gated : d # c => SpentOn(d)' = SpentOn(d)
  BY <1>2 DEF SpentOn, Shared
<1>5. SpentOn(c)' = SpentOn(c) \cup {k} /\ k \notin SpentOn(c)
  BY <1>2 DEF SpentOn, Shared
<1>6. IsFiniteSet(SpentOn(c))
  BY TaskTurnAssumption, FS_Subset DEF SpentOn
<1>7. Cardinality(SpentOn(c)') = Cardinality(SpentOn(c)) + 1
  BY <1>5, <1>6, FS_AddElement
<1>8. ran'[c] = ran[c] + 1 /\ \A d \in Gated : d # c => ran'[d] = ran[d]
  BY DEF Shared
<1>9. ConfirmedRuns'
  <2> SUFFICES ASSUME Voice, NEW d \in Gated PROVE ran'[d] = Cardinality(SpentOn(d)')
    BY DEF ConfirmedRuns, SpentOn
  <2>1. ran[d] = Cardinality(SpentOn(d))
    BY DEF Shared, ConfirmedRuns, SpentOn
  <2>2. CASE d = c
    BY <2>1, <2>2, <1>7, <1>8
  <2>3. CASE d # c
    BY <2>1, <2>3, <1>4, <1>8
  <2> QED  BY <2>2, <2>3
<1>10. ran' \in [Gated -> Nat] /\ spent' \in [Grants -> Nat]
  BY <1>2 DEF Shared
<1> QED  BY <1>2, <1>3, <1>9, <1>10 DEF Shared

(* Without the gate only tools that need no confirmation run, and all of   *)
(* them in text.                                                           *)
LEMMA UnconfirmedShared ==
  ASSUME Shared, NEW t \in Turns, ~NeedsConfirmation(t), UNCHANGED gateVars,
         ran' = IF Call(t) \in Gated THEN [ran EXCEPT ![Call(t)] = @ + 1] ELSE ran
  PROVE  Shared'
<1>1. Voice => UNCHANGED ran
  BY DEF NeedsConfirmation
<1>2. ran' \in [Gated -> Nat]
  BY DEF Shared
<1> QED  BY <1>1, <1>2 DEF Shared, gateVars, SpentOnce, ConfirmedRuns

(* Every step keeps what the gate and the tools agree on. *)
LEMMA StepShared == Local /\ Shared /\ [TurnNext]_turnVars => Shared'
<1> SUFFICES ASSUME Local, Shared, [TurnNext]_turnVars PROVE Shared'
  OBVIOUS
<1>0. ASSUME UNCHANGED <<ran, gateVars>> PROVE Shared'
  BY <1>0 DEF Shared, gateVars, SpentOnce, ConfirmedRuns
<1>1. ASSUME NEW t \in Turns, Begin(t) \/ Cancel(t) PROVE Shared'
  BY <1>0, <1>1 DEF Begin, Cancel
<1>2. ASSUME NEW t \in Turns, TurnStep(t) PROVE Shared'
  <2>1. CASE Aborted(t) \/ ProvidersFail(t) \/ AsksForTools(t) \/ Drafts(t) \/ OverBudget(t)
             \/ UnknownTool(t) \/ ToolReturns(t) \/ Judges(t) \/ Corrects(t) \/ Rejudges(t)
             \/ KeepsDraft(t)
    BY <1>0, <2>1 DEF Aborted, ProvidersFail, AsksForTools, Drafts, OverBudget, UnknownTool,
       ToolReturns, Judges, Corrects, Rejudges, KeepsDraft
  <2>2. CASE AsksToConfirm(t)
    <3>1. Call(t) \in Gated /\ Gate!Issue(NewToken, Call(t)) /\ UNCHANGED ran
      BY <2>2 DEF AsksToConfirm, NeedsConfirmation
    <3>2. CASE NewToken \in Grants
      BY <3>1, <3>2, IssueShared
    <3>3. CASE NewToken \notin Grants
      <4>1. UNCHANGED <<issuedFor, spent, lost>>
        BY <3>1, <3>3 DEF Gate!Issue, Shared
      <4> QED  BY <1>0, <3>1, <4>1 DEF gateVars
    <3> QED  BY <3>2, <3>3
  <2>3. CASE StartsTool(t)
    <3>1. CASE ~NeedsConfirmation(t) /\ UNCHANGED gateVars
      BY <2>3, <3>1, UnconfirmedShared DEF StartsTool
    <3>2. CASE NeedsConfirmation(t) /\ Confirmed(t) /\ Spend(t)
      <4>1. given[t] \in Grants /\ Call(t) \in Gated
        BY <3>2 DEF Confirmed, NeedsConfirmation, Local
      <4>2. Gate!Use(given[t], Call(t)) /\ ran' = [ran EXCEPT ![Call(t)] = @ + 1]
        BY <2>3, <3>2, <4>1 DEF StartsTool, Spend
      <4> QED  BY <4>1, <4>2, UseShared
    <3> QED  BY <2>3, <3>1, <3>2 DEF StartsTool
  <2> QED  BY <1>2, <2>1, <2>2, <2>3 DEF TurnStep
<1>3. ASSUME NEW k \in Grants, TokensLost({k}) PROVE Shared'
  <2>1. lost' = lost \cup {k} /\ UNCHANGED <<ran, issuedFor, spent>>
    BY <1>3 DEF TokensLost, Gate!Lose
  <2> QED  BY <2>1 DEF Shared, SpentOnce, ConfirmedRuns
<1>4. CASE UNCHANGED turnVars
  BY <1>0, <1>4 DEF turnVars
<1> QED  BY <1>1, <1>2, <1>3, <1>4 DEF TurnNext

-----------------------------------------------------------------------------
(* A process begins with turns that have done nothing. *)
LEMMA InitInv == TurnInit => TurnInv
<1> SUFFICES ASSUME TurnInit PROVE TurnInv
  OBVIOUS
<1> USE TaskTurnAssumption
<1>1. Local
  BY DEF TurnInit, Local, CallsLeft, BudgetKept
<1>2. issuedFor \in [Grants -> Gated \cup {"none"}]
  BY DEF TurnInit
<1>3. \A c \in Gated : SpentOn(c) = {}
  BY DEF TurnInit, SpentOn
<1>4. ConfirmedRuns
  BY <1>3, FS_EmptySet DEF TurnInit, ConfirmedRuns, SpentOn
<1>5. Shared
  BY <1>2, <1>4 DEF TurnInit, Shared, SpentOnce
<1> QED  BY <1>1, <1>5, InvParts

(* The inductive invariant of the loop: the type of its state, the batch   *)
(* that a turn still works on, and what tokens were spent on.              *)
THEOREM TurnInvariant == TurnSpec => []TurnInv
<1>1. TurnInv /\ [TurnNext]_turnVars => TurnInv'
  <2> SUFFICES ASSUME TurnInv, [TurnNext]_turnVars PROVE TurnInv'
    OBVIOUS
  <2>1. Local /\ Shared
    BY InvParts
  <2>2. Local' /\ Shared'
    BY <2>1, StepLocal, StepShared
  <2> QED  BY <2>2 DEF TurnInv, Local, Shared, TurnTypeOK
<1> QED  BY <1>1, InitInv, PTL DEF TurnSpec

(* No turn makes more calls of tools than max_tool_calls, one forced       *)
(* retrieval aside (task_agent.py:868-870).                                *)
THEOREM BudgetIsKept == TurnSpec => []BudgetKept
BY TurnInvariant, PTL DEF TurnInv

(* In a voice turn every run of a write-scope tool has a token of its own  *)
(* that was issued for that very call (task_agent.py:985-1028).            *)
THEOREM RunsAreConfirmed == TurnSpec => []ConfirmedRuns
BY TurnInvariant, PTL DEF TurnInv

-----------------------------------------------------------------------------
(* The store.                                                              *)

Fields == {"new", "trying", "begun", "asked", "both", "saved", "logged", "died"}

(* A step that changes no row and moves one turn along. *)
LEMMA MoveTurn ==
  ASSUME StoreInv, NEW t \in Answered, NEW to \in Fields, StoreTypeOK',
         UNCHANGED <<existing, deleted, rows, conv>>, task' = [task EXCEPT ![t] = to],
         task[t] # "new", to # "new",
         to = "asked" => conv[t] \in existing /\ Writers(conv[t]) = {},
         to = "both" => task[t] = "asked" /\ ~IdTaken(t)
  PROVE  StoreInv'
<1> USE DEF StoreInv
<1>1. \A u \in Answered : u # t => task'[u] = task[u]
  BY DEF StoreTypeOK
<1>2. task'[t] = to
  BY DEF StoreTypeOK
<1>3. \A u \in Answered : IdTaken(u)' = IdTaken(u)
  BY DEF IdTaken
<1>4. WholeTurns' /\ NoOrphans'
  BY DEF WholeTurns, NoOrphans
<1>5. \A u \in Answered :
        /\ task'[u] = "new" => \A m \in rows' : m.turn # u
        /\ task'[u] \notin {"new"} => conv'[u] \in Conversations
        /\ task'[u] \in {"asked", "both"} => conv'[u] \in existing'
        /\ task'[u] = "both" => ~IdTaken(u)'
  <2> TAKE u \in Answered
  <2>1. CASE u = t
    BY <2>1, <1>2, <1>3
  <2>2. CASE u # t
    BY <2>2, <1>1, <1>3
  <2> QED  BY <2>1, <2>2
<1>6. \A u, v \in Answered : u # v /\ u \in Writers(conv[v])' /\ v \in Writers(conv[u])' => FALSE
  BY <1>1, <1>2 DEF Writers
<1> QED  BY <1>4, <1>5, <1>6

LEMMA CreateStep ==
  ASSUME StoreInv, NEW c \in Conversations, CreateConversation(c)
  PROVE  StoreInv'
<1> USE DEF StoreInv
<1>1. UNCHANGED <<deleted, rows, task, conv, attempt, deaths>> /\ existing' = existing \cup {c}
      /\ c \notin deleted
  BY DEF CreateConversation, callVars
<1>2. StoreTypeOK'
  BY <1>1 DEF CreateConversation, StoreTypeOK
<1>3. WholeTurns' /\ NoOrphans'
  BY <1>1 DEF WholeTurns, NoOrphans
<1>4. \A u \in Answered : IdTaken(u)' = IdTaken(u)
  BY <1>1 DEF IdTaken
<1>5. \A d : Writers(d)' = Writers(d)
  BY <1>1 DEF Writers
<1> QED  BY <1>1, <1>2, <1>3, <1>4, <1>5

LEMMA DeleteStep ==
  ASSUME StoreInv, NEW c \in Conversations, DeleteConversation(c)
  PROVE  StoreInv'
<1> USE DEF StoreInv
<1>1. /\ UNCHANGED <<task, conv, attempt, deaths>> /\ Writers(c) = {}
      /\ existing' = existing \ {c} /\ deleted' = deleted \cup {c}
      /\ rows' = {m \in rows : m.conv # c}
  BY DEF DeleteConversation, callVars, Others
<1>2. StoreTypeOK'
  BY <1>1 DEF StoreTypeOK
<1>3. WholeTurns'
  BY <1>1 DEF WholeTurns
<1>4. NoOrphans'
  BY <1>1 DEF NoOrphans
<1>5. \A u \in Answered : IdTaken(u)' => IdTaken(u)
  BY <1>1 DEF IdTaken
<1>6. \A d : Writers(d)' = Writers(d)
  BY <1>1 DEF Writers
<1>7. \A u \in Answered : task[u] \in {"asked", "both"} => conv[u] \in existing'
  BY <1>1 DEF Writers
<1> QED  BY <1>1, <1>2, <1>3, <1>4, <1>5, <1>6, <1>7

(* The rows of a turn, once its transaction commits. *)
LEMMA ApplyStep ==
  ASSUME StoreInv, NEW t \in Answered, task[t] = "both", Apply(t), NEW to \in Fields,
         to \notin {"new", "asked", "both"}, task' = [task EXCEPT ![t] = to],
         UNCHANGED <<existing, deleted, conv, attempt, deaths>>
  PROVE  StoreInv'
<1> USE DEF StoreInv
<1>1. conv[t] \in Conversations /\ conv[t] \in existing /\ ~IdTaken(t)
  OBVIOUS
<1> DEFINE q == UserRow(t)
           a == AssistantRow(t)
<1>2. /\ q \in Messages /\ q.role = "user" /\ q.turn = t /\ q.conv = conv[t]
      /\ a \in Messages /\ a.role = "assistant" /\ a.turn = t /\ a.conv = conv[t]
  BY <1>1 DEF UserRow, AssistantRow, Messages, StoreTypeOK
<1>3. rows' = rows \cup {q, a}
  BY DEF Apply, Written
<1> HIDE DEF q, a
<1>4. \A m \in rows : m.turn # t
  <2> SUFFICES ASSUME NEW m \in rows, m.turn = t PROVE FALSE
    OBVIOUS
  <2>1. PICK n \in rows : n.turn = t /\ n.role # m.role
    BY DEF WholeTurns
  <2>2. m.role \in {"user", "assistant"} /\ n.role \in {"user", "assistant"}
    BY DEF StoreTypeOK, Messages
  <2> QED  BY <1>1, <2>1, <2>2 DEF IdTaken
<1>5. StoreTypeOK'
  BY <1>1, <1>2, <1>3 DEF Apply, StoreTypeOK, Fields
<1>6. WholeTurns'
  BY <1>2, <1>3, <1>4 DEF WholeTurns
<1>7. NoOrphans'
  BY <1>1, <1>2, <1>3 DEF NoOrphans
<1>8. \A u \in Answered : u # t => task'[u] = task[u] /\ IdTaken(u)' = IdTaken(u)
  BY <1>2, <1>3 DEF StoreTypeOK, IdTaken
<1>9. task'[t] = to
  BY DEF StoreTypeOK
<1>10. \A u \in Answered :
        /\ task'[u] = "new" => \A m \in rows' : m.turn # u
        /\ task'[u] \notin {"new"} => conv'[u] \in Conversations
        /\ task'[u] \in {"asked", "both"} => conv'[u] \in existing'
        /\ task'[u] = "both" => ~IdTaken(u)'
  <2> TAKE u \in Answered
  <2>1. CASE u = t
    BY <2>1, <1>1, <1>9
  <2>2. CASE u # t
    BY <2>2, <1>2, <1>3, <1>8
  <2> QED  BY <2>1, <2>2
<1>11. \A u, v \in Answered : u # v /\ u \in Writers(conv[v])' /\ v \in Writers(conv[u])' => FALSE
  BY <1>8, <1>9 DEF Writers
<1> QED  BY <1>5, <1>6, <1>7, <1>10, <1>11

LEMMA AnswerStep ==
  ASSUME StoreInv, NEW t \in Answered, NEW c \in Conversations, Answer(t, c)
  PROVE  StoreInv'
<1> USE DEF StoreInv
<1>1. /\ UNCHANGED <<existing, deleted, rows, attempt, deaths>>
      /\ task[t] = "new" /\ task'[t] = "trying" /\ conv'[t] = c
      /\ \A u \in Answered : u # t => task'[u] = task[u] /\ conv'[u] = conv[u]
  BY DEF Answer, Go, tableVars, StoreTypeOK
<1>2. StoreTypeOK'
  BY <1>1 DEF Answer, Go, StoreTypeOK
<1>3. WholeTurns' /\ NoOrphans'
  BY <1>1 DEF WholeTurns, NoOrphans
<1>4. \A u \in Answered : IdTaken(u)' = IdTaken(u)
  BY <1>1 DEF IdTaken
<1>5. \A d : Writers(d)' = Writers(d)
  BY <1>1 DEF Writers
<1>6. \A u, v \in Answered : u # v /\ u \in Writers(conv[v])' /\ v \in Writers(conv[u])' => FALSE
  BY <1>1 DEF Writers
<1> QED  BY <1>1, <1>2, <1>3, <1>4, <1>6

LEMMA AttemptStep ==
  ASSUME StoreInv, NEW t \in Answered, Attempt(t)
  PROVE  StoreInv'
<1>1. StoreTypeOK /\ task[t] # "none"
  BY DEF StoreInv, StoreTypeOK
<1>2. CASE BeginAttempt(t)
  <2>1. StoreTypeOK'
    BY <1>1, <1>2 DEF BeginAttempt, Go, StoreTypeOK, tableVars
  <2> QED  BY <2>1, <1>2, MoveTurn DEF BeginAttempt, Go, tableVars, Fields
<1>3. CASE InsertUser(t)
  <2>1. StoreTypeOK'
    BY <1>1, <1>3 DEF InsertUser, Go, StoreTypeOK, tableVars
  <2> QED  BY <2>1, <1>3, MoveTurn DEF InsertUser, Go, tableVars, Fields
<1>4. CASE InsertAssistant(t)
  <2>1. StoreTypeOK'
    BY <1>1, <1>4 DEF InsertAssistant, Go, StoreTypeOK, tableVars
  <2> QED  BY <2>1, <1>4, MoveTurn DEF InsertAssistant, Go, tableVars, Fields
<1>5. CASE Commit(t)
  BY <1>5, ApplyStep DEF Commit, Go, Fields
<1>6. CASE Fail(t)
  <2>1. StoreTypeOK'
    BY <1>1, <1>6 DEF Fail, GiveUp, StoreTypeOK, tableVars
  <2> QED  BY <2>1, <1>6, MoveTurn DEF Fail, GiveUp, tableVars, Fields
<1>7. CASE CommitUnheard(t)
  BY <1>7, ApplyStep DEF CommitUnheard, GiveUp, Fields
<1> QED  BY <1>2, <1>3, <1>4, <1>5, <1>6, <1>7 DEF Attempt

LEMMA DieStep ==
  ASSUME StoreInv, Die
  PROVE  StoreInv'
<1> USE DEF StoreInv
<1>1. /\ UNCHANGED <<existing, deleted, rows, conv, attempt>>
      /\ \A u \in Answered : task'[u] \in {task[u], "died"} /\ (task'[u] = "new" => task[u] = "new")
                          /\ (task[u] = "new" => task'[u] = "new")
  BY DEF Die, tableVars, StoreTypeOK
<1>2. StoreTypeOK'
  BY <1>1 DEF Die, StoreTypeOK
<1>3. WholeTurns' /\ NoOrphans'
  BY <1>1 DEF WholeTurns, NoOrphans
<1>4. \A u \in Answered : IdTaken(u)' = IdTaken(u)
  BY <1>1 DEF IdTaken
<1>5. \A d : Writers(d)' \subseteq Writers(d)
  BY <1>1 DEF Writers
<1>6. \A u \in Answered :
        /\ task'[u] = "new" => \A m \in rows' : m.turn # u
        /\ task'[u] \notin {"new"} => conv'[u] \in Conversations
        /\ task'[u] \in {"asked", "both"} => conv'[u] \in existing'
        /\ task'[u] = "both" => ~IdTaken(u)'
  BY <1>1, <1>4
<1> QED  BY <1>1, <1>2, <1>3, <1>5, <1>6

LEMMA StepStore == StoreInv /\ [StoreNext]_storeVars => StoreInv'
<1> SUFFICES ASSUME StoreInv, [StoreNext]_storeVars PROVE StoreInv'
  OBVIOUS
<1>1. CASE UNCHANGED storeVars
  <2>1. UNCHANGED <<existing, deleted, rows, task, conv, attempt, deaths>>
    BY <1>1 DEF storeVars
  <2>2. StoreTypeOK' /\ WholeTurns' /\ NoOrphans' /\ (\A u \in Answered : IdTaken(u)' = IdTaken(u))
        /\ (\A d : Writers(d)' = Writers(d))
    BY <2>1 DEF StoreInv, StoreTypeOK, WholeTurns, NoOrphans, IdTaken, Writers
  <2> QED  BY <2>1, <2>2 DEF StoreInv
<1> QED  BY <1>1, CreateStep, DeleteStep, AnswerStep, AttemptStep, DieStep DEF StoreNext

(* StoreInv holds whatever fails, is retried, deleted or dies. *)
THEOREM StoreInvariant == StoreSpec => []StoreInv
<1>1. StoreInit => StoreInv
  BY ChatStoreAssumption DEF StoreInit, StoreInv, StoreTypeOK, WholeTurns, NoOrphans, Writers, IdTaken
<1> QED  BY <1>1, StepStore, PTL DEF StoreSpec

(* A turn is saved with both its sides or not at all, and once, whatever   *)
(* breaks and is retried (chat_store.py:219-247).                          *)
THEOREM SavedWhole == StoreSpec => []WholeTurns
<1>1. StoreInv => WholeTurns
  BY DEF StoreInv
<1> QED  BY <1>1, StoreInvariant, PTL

(* No message outlives its conversation (chat_store.py:75-92).             *)
THEOREM NoneLeft == StoreSpec => []NoOrphans
<1>1. StoreInv => NoOrphans
  BY DEF StoreInv
<1> QED  BY <1>1, StoreInvariant, PTL

LEMMA SavedType == SavedTurns \in [Conversations -> SUBSET Answered]
BY DEF SavedTurns

(* A commit saves its turn, in the sense of TurnLog. *)
LEMMA ApplySaves ==
  ASSUME StoreInv, NEW t \in Answered, task[t] = "both", Apply(t), existing' = existing, conv' = conv
  PROVE  TL!Save(conv[t], t) /\ conv[t] \in Conversations
<1>1. conv[t] \in Conversations /\ conv[t] \in existing /\ ~IdTaken(t)
  BY DEF StoreInv
<1>2. \A m \in rows : m.turn # t
  <2> SUFFICES ASSUME NEW m \in rows, m.turn = t PROVE FALSE
    OBVIOUS
  <2>1. PICK n \in rows : n.turn = t /\ n.role # m.role
    BY DEF StoreInv, WholeTurns
  <2>2. m.role \in {"user", "assistant"} /\ n.role \in {"user", "assistant"}
    BY DEF StoreInv, StoreTypeOK, Messages
  <2> QED  BY <1>1, <2>1, <2>2 DEF IdTaken
<1>3. \A d \in Conversations : t \notin SavedTurns[d]
  BY <1>2 DEF SavedTurns
<1> DEFINE q == UserRow(t)
           a == AssistantRow(t)
<1>4. q.turn = t /\ q.conv = conv[t] /\ a.turn = t /\ a.conv = conv[t]
  BY DEF UserRow, AssistantRow
<1>5. rows' = rows \cup {q, a}
  BY DEF Apply, Written
<1> HIDE DEF q, a
<1>6. \A d \in Conversations : SavedTurns'[d] = IF d = conv[t] THEN SavedTurns[d] \cup {t} ELSE SavedTurns[d]
  BY <1>4, <1>5 DEF SavedTurns
<1>7. SavedTurns' = [d \in Conversations |-> SavedTurns'[d]]
  BY DEF SavedTurns
<1>8. SavedTurns' = [SavedTurns EXCEPT ![conv[t]] = @ \cup {t}]
  BY <1>1, <1>6, <1>7, SavedType
<1> QED  BY <1>1, <1>3, <1>8 DEF TL!Save

LEMMA DeleteDeletes ==
  ASSUME StoreInv, NEW c \in Conversations, DeleteConversation(c)
  PROVE  TL!Delete(c)
<1>1. existing' = existing \ {c} /\ rows' = {m \in rows : m.conv # c}
  BY DEF DeleteConversation, Others
<1>2. \A d \in Conversations : SavedTurns'[d] = IF d = c THEN {} ELSE SavedTurns[d]
  BY <1>1 DEF SavedTurns
<1>3. SavedTurns' = [d \in Conversations |-> SavedTurns'[d]]
  BY DEF SavedTurns
<1>4. SavedTurns' = [SavedTurns EXCEPT ![c] = {}]
  BY <1>2, <1>3, SavedType
<1> QED  BY <1>1, <1>4 DEF TL!Delete

(* What users see of their saved conversations is a TurnLog, for any       *)
(* number of turns, conversations and attempts (chat_store.py:75-247).     *)
THEOREM StoreIsTurnLog == StoreSpec => ImplementsTurnLog
<1>1. StoreInit => TL!Init
  BY DEF StoreInit, TL!Init, SavedTurns
<1>2. StoreInv /\ [StoreNext]_storeVars => [TL!Next]_TL!tlvars
  <2> SUFFICES ASSUME StoreInv, [StoreNext]_storeVars PROVE TL!Next \/ UNCHANGED <<existing, SavedTurns>>
    BY DEF TL!tlvars
  <2>1. ASSUME UNCHANGED <<existing, rows>> PROVE UNCHANGED <<existing, SavedTurns>>
    BY <2>1 DEF SavedTurns
  <2>2. ASSUME NEW c \in Conversations, CreateConversation(c) PROVE TL!Next
    <3>1. existing' = existing \cup {c} /\ SavedTurns' = SavedTurns
      BY <2>2 DEF CreateConversation, SavedTurns
    <3> QED  BY <3>1 DEF TL!Next, TL!Create
  <2>3. ASSUME NEW c \in Conversations, DeleteConversation(c) PROVE TL!Next
    BY <2>3, DeleteDeletes DEF TL!Next
  <2>4. ASSUME NEW t \in Answered, Commit(t) \/ CommitUnheard(t) PROVE TL!Next
    <3>1. task[t] = "both" /\ Apply(t) /\ existing' = existing /\ conv' = conv
      BY <2>4 DEF Commit, CommitUnheard, Go
    <3> QED  BY <3>1, ApplySaves DEF TL!Next
  <2>5. ASSUME NEW t \in Answered, BeginAttempt(t) \/ InsertUser(t) \/ InsertAssistant(t) \/ Fail(t)
        PROVE  UNCHANGED <<existing, rows>>
    BY <2>5 DEF BeginAttempt, InsertUser, InsertAssistant, Fail, tableVars
  <2>6. ASSUME NEW t \in Answered, NEW c \in Conversations, Answer(t, c) PROVE UNCHANGED <<existing, rows>>
    BY <2>6 DEF Answer, tableVars
  <2>7. ASSUME Die \/ UNCHANGED storeVars PROVE UNCHANGED <<existing, rows>>
    BY <2>7 DEF Die, storeVars, tableVars
  <2> QED  BY <2>1, <2>2, <2>3, <2>4, <2>5, <2>6, <2>7 DEF StoreNext, Attempt
<1> QED  BY <1>1, <1>2, StoreInvariant, PTL DEF StoreSpec, ImplementsTurnLog, TL!Spec
=============================================================================
