--------------------------- MODULE ConverseProofs ---------------------------
(***************************************************************************)
(* The safety of a /ws/converse session for every bound on its events:     *)
(* Inv of Converse is inductive, and from it follow the type invariant,    *)
(* the quiet of a LISTENING session, the clean close, and the refinement   *)
(* of TurnTaking.                                                          *)
(***************************************************************************)
EXTENDS Converse, TLAPS

(* Taking the head of the event queue. *)
LEMMA TakeHead ==
  ASSUME TypeOK, queue # <<>>
  PROVE  /\ Tail(queue) \in Seq(Event)
         /\ Len(Tail(queue)) = Len(queue) - 1
         /\ \A i \in 1..Len(Tail(queue)) : Tail(queue)[i] = queue[i+1]
         /\ Head(queue) = queue[1] /\ Head(queue) \in Event
         /\ 1 \in 1..Len(queue)
  BY DEF TypeOK

LEMMA QueueTyped ==
  ASSUME TypeOK
  PROVE  /\ Len(queue) \in Nat
         /\ \A i \in 1..Len(queue) : queue[i] \in Event /\ queue[i].n \in Refs /\ queue[i].n \in Nat
<1>1. \A i \in 1..Len(queue) : queue[i] \in Event
  BY DEF TypeOK
<1>2. \A x \in Event : x.n \in Refs
  BY DEF Event
<1>3. Refs \subseteq Nat
  BY ConverseAssumption DEF Refs, Turns, NoTurn
<1>4. Len(queue) \in Nat
  BY DEF TypeOK
<1> QED  BY <1>1, <1>2, <1>3, <1>4

(* What task.cancel() leaves of the three task states. *)
LEMMA CancelTurnType ==
  ASSUME TypeOK, NEW t \in Refs, CancelTurn(t)
  PROVE  /\ mustCancel' \in [Turns -> BOOLEAN]
         /\ think' \in [Turns -> Running \cup Settled \cup {"none"}]
         /\ speak' \in [Turns -> Running \cup Settled \cup {"none"}]
<1>1. CASE IsLive(t)
  <2>1. t \in Turns  BY <1>1 DEF IsLive, Refs
  <2> QED  BY <1>1, <2>1 DEF TypeOK, CancelTurn, Running
<1>2. CASE ~IsLive(t)
  BY <1>2 DEF TypeOK, CancelTurn
<1> QED  BY <1>1, <1>2

LEMMA InitInv == ConverseInit => Inv
  BY ConverseAssumption
  DEF ConverseInit, Inv, TypeOK, OwnerInv, TaskInv, BargeInv, QueueInv, WireInv, StopInv, Turns, Refs, NoTurn,
      Phases, OrchAt, Barging, Closing, Live, Owning, Over, Running, Settled, Replies, Event, Message

(* Every step preserves Inv.  The steps of a turn only need the states a   *)
(* turn can be in; the queue needs its facts spelled out.                  *)
LEMMA StepInv == Inv /\ [ConverseNext]_vars => Inv'
<1> SUFFICES ASSUME Inv, [ConverseNext]_vars PROVE Inv'
  OBVIOUS
<1> USE ConverseAssumption
    DEF Inv, Turns, Refs, NoTurn, Live, Owning, Over, Running, Settled, Replies, Barging, Closing,
        IsLive, Thinks, Speaks, Joined, Claim, Unregister, Finish, Adopt, ForgetToken, EndMarker,
        duplexVars, regVars, tokenVars, turnVars, turnsVars, queueVars
<1>1. ASSUME NEW k \in Kinds, Emit(k) PROVE Inv'
  <2> DEFINE e == [kind |-> k, n |-> arrived + 1]
  <2>1. e \in Event
    BY <1>1 DEF Emit, TypeOK, Event
  <2>2. /\ queue' \in Seq(Event)
        /\ Len(queue') = Len(queue) + 1 /\ Len(queue) \in Nat
        /\ \A i \in 1..Len(queue) : queue'[i] = queue[i]
        /\ queue'[Len(queue) + 1] = e
    BY <1>1, <2>1 DEF Emit, TypeOK
  <2>3. TypeOK'
    BY <1>1, <2>2 DEF Emit, TypeOK
  <2>4. /\ turnTask \in Nat /\ arrived \in Nat
        /\ \A i \in 1..Len(queue) : queue[i].n \in Nat
    BY QueueTyped DEF TypeOK
  <2>5. QueueInv'
    <3>1. ASSUME NEW i \in 1..Len(queue')
          PROVE  /\ queue'[i].kind = "final" => queue'[i].n # NoTurn
                 /\ queue'[i].n # NoTurn => queue'[i].n > turnTask /\ queue'[i].n <= arrived + 1
      <4>1. CASE i \in 1..Len(queue)
        BY <2>2, <2>4, <4>1 DEF QueueInv
      <4>2. CASE i = Len(queue) + 1
        BY <2>2, <2>4, <4>2 DEF QueueInv
      <4> QED  BY <2>2, <4>1, <4>2
    <3>2. ASSUME NEW i \in 1..Len(queue'), NEW j \in 1..Len(queue'),
                 i < j, queue'[i].n # NoTurn, queue'[j].n # NoTurn
          PROVE  queue'[i].n < queue'[j].n
      <4>1. i \in 1..Len(queue)
        BY <2>2, <3>2
      <4>2. CASE j \in 1..Len(queue)
        BY <2>2, <3>2, <4>1, <4>2 DEF QueueInv
      <4>3. CASE j = Len(queue) + 1
        BY <2>2, <2>4, <3>2, <4>1, <4>3 DEF QueueInv
      <4> QED  BY <2>2, <4>2, <4>3
    <3>3. orch = "sendFinal" => queue' # <<>> /\ Head(queue').kind = "final"
      <4>1. ASSUME orch = "sendFinal" PROVE 1 \in 1..Len(queue) /\ queue[1].kind = "final"
        BY <4>1, TakeHead DEF QueueInv
      <4>2. queue' # <<>> /\ Head(queue') = queue'[1]
        BY <2>2
      <4> QED  BY <2>2, <4>1, <4>2
    <3>4. QueueInv!1' /\ QueueInv!2'
      BY <1>1, <2>4 DEF Emit, QueueInv
    <3> QED  BY <1>1, <3>1, <3>2, <3>3, <3>4 DEF Emit, QueueInv
  <2> QED  BY <1>1, <2>3, <2>5 DEF Emit, OwnerInv, TaskInv, BargeInv, WireInv, StopInv
<1>2. ASSUME PumpEnds PROVE Inv'
  <2> DEFINE ended == [kind |-> "ended", n |-> NoTurn]
             failed == [kind |-> "error", n |-> NoTurn]
  <2>1. ended \in Event /\ failed \in Event
    BY DEF Event
  <2>2. \/ queue' = queue \o <<>> \o <<ended>>
        \/ queue' = queue \o <<failed>> \o <<ended>>
    BY <1>2 DEF PumpEnds
  <2>3. /\ queue' \in Seq(Event)
        /\ Len(queue') \in Nat /\ Len(queue) \in Nat /\ Len(queue') > Len(queue)
        /\ \A i \in 1..Len(queue) : queue'[i] = queue[i]
        /\ \A i \in 1..Len(queue') : i > Len(queue) => queue'[i] \in {ended, failed}
    <3>1. CASE queue' = queue \o <<>> \o <<ended>>
      BY <2>1, <3>1 DEF TypeOK
    <3>2. CASE queue' = queue \o <<failed>> \o <<ended>>
      BY <2>1, <3>2 DEF TypeOK
    <3> QED  BY <2>2, <3>1, <3>2
  <2>4. TypeOK'
    BY <1>2, <2>3 DEF PumpEnds, TypeOK
  <2>5. QueueInv'
    <3>1. \A i \in 1..Len(queue') :
            /\ queue'[i].kind = "final" \/ queue'[i].n # NoTurn => i \in 1..Len(queue)
      BY <2>3
    <3>2. queue # <<>> => queue' # <<>> /\ Head(queue') = Head(queue)
      BY <2>3 DEF TypeOK
    <3> QED  BY <1>2, <2>3, <3>1, <3>2 DEF PumpEnds, TypeOK, QueueInv
  <2> QED  BY <1>2, <2>4, <2>5 DEF PumpEnds, OwnerInv, TaskInv, BargeInv, WireInv, StopInv
<1>3. ASSUME SpeechStart PROVE Inv'
  <2>1. queue # <<>> /\ regTurn \in Refs
    BY <1>3 DEF SpeechStart, Getting, TypeOK
  <2>2. TypeOK'
    <3>1. CASE phase = "LISTENING"
      BY <1>3, <2>1, <3>1, TakeHead DEF SpeechStart, TypeOK, Phases
    <3>2. CASE phase # "LISTENING"
      BY <1>3, <2>1, <3>2, TakeHead, CancelTurnType DEF SpeechStart, TypeOK, Phases, OrchAt
    <3> QED  BY <3>1, <3>2
  <2>3. OwnerInv'
    BY <1>3 DEF SpeechStart, CancelTurn, Getting, TypeOK, OwnerInv
  <2>5. TaskInv' /\ WireInv'
    BY <1>3 DEF SpeechStart, CancelTurn, Getting, TypeOK, OwnerInv, TaskInv, WireInv
  <2>6. BargeInv' /\ StopInv'
    BY <1>3 DEF SpeechStart, Getting, TypeOK, OwnerInv, BargeInv, StopInv
  <2>4. QueueInv'
    <3>1. /\ queue' = Tail(queue) /\ UNCHANGED <<turnTask, arrived, turn>>
          /\ orch' # "sendFinal"
      BY <1>3 DEF SpeechStart, Getting
    <3>2. ASSUME NEW i \in 1..Len(Tail(queue))
          PROVE  i + 1 \in 1..Len(queue) /\ Tail(queue)[i] = queue[i+1] /\ i \in Nat
      BY <2>1, TakeHead, QueueTyped
    <3> QED  BY <3>1, <3>2 DEF QueueInv
  <2> QED  BY <2>2, <2>3, <2>4, <2>5, <2>6
<1>4. ASSUME StartTurn PROVE Inv'
  <2> DEFINE t == Head(queue).n
  <2>1. /\ queue # <<>> /\ t \in Turns /\ t > turnTask /\ t <= arrived
        /\ \A i \in 1..Len(Tail(queue)) : Tail(queue)[i].n # NoTurn => Tail(queue)[i].n > t
    <3>1. queue # <<>> /\ queue[1].kind = "final" /\ Head(queue) = queue[1] /\ 1 \in 1..Len(queue)
      BY <1>4, TakeHead DEF StartTurn, QueueInv
    <3>2. t # NoTurn /\ t > turnTask /\ t <= arrived /\ t \in Refs
      BY <3>1, QueueTyped DEF QueueInv
    <3>3. ASSUME NEW i \in 1..Len(Tail(queue)), Tail(queue)[i].n # NoTurn
          PROVE  Tail(queue)[i].n > t
      <4>1. i + 1 \in 1..Len(queue) /\ Tail(queue)[i] = queue[i+1] /\ 1 < i + 1
        BY <3>1, TakeHead, QueueTyped
      <4>2. queue[1].n < queue[i+1].n
        BY <3>1, <3>2, <3>3, <4>1 DEF QueueInv
      <4> QED  BY <3>1, <4>1, <4>2, QueueTyped
    <3> QED  BY <3>1, <3>2, <3>3
  <2>2. turn[t] = "none" /\ mustCancel[t] = FALSE /\ phase = "LISTENING"
    BY <1>4, <2>1 DEF StartTurn, TypeOK, OwnerInv, QueueInv, BargeInv
  <2>3. \A s \in Turns : turn[s] \notin Owning /\ ~mustCancel[s]
    BY <1>4, <2>2 DEF StartTurn, TypeOK, OwnerInv
  <2>4. TypeOK'
    BY <1>4, <2>1, TakeHead DEF StartTurn, OnWire, TypeOK, Phases, OrchAt, Message
  <2>5. OwnerInv' /\ TaskInv' /\ BargeInv' /\ StopInv' /\ WireInv'
    BY <1>4, <2>1, <2>2, <2>3 DEF StartTurn, OnWire, TypeOK, OwnerInv, TaskInv, BargeInv, WireInv, StopInv
  <2>6. QueueInv'
    BY <1>4, <2>1, TakeHead, QueueTyped DEF StartTurn, TypeOK, QueueInv
  <2> QED  BY <2>4, <2>5, <2>6
<1>5. ASSUME CloseTurn PROVE Inv'
  <2>1. TypeOK'
    BY <1>5, CancelTurnType DEF CloseTurn, TypeOK, OrchAt
  <2>2. OwnerInv' /\ TaskInv' /\ BargeInv' /\ QueueInv' /\ WireInv' /\ StopInv'
    BY <1>5 DEF CloseTurn, CancelTurn, TypeOK, OwnerInv, TaskInv, BargeInv, QueueInv, WireInv, StopInv
  <2> QED  BY <2>1, <2>2
<1> USE DEF TypeOK, OwnerInv, TaskInv, BargeInv, QueueInv, WireInv, StopInv, Phases, OrchAt, Message
<1>6. ASSUME PumpCancelled PROVE Inv'
  BY <1>6 DEF PumpCancelled
<1>7. ASSUME Disconnect PROVE Inv'
  BY <1>7 DEF Disconnect
<1>8. ASSUME OrchEnded PROVE Inv'
  BY <1>8 DEF OrchEnded, Getting, LeaveLoop
<1>9. ASSUME BargeThink PROVE Inv'
  BY <1>9 DEF BargeThink
<1>10. ASSUME BargeSpeak PROVE Inv'
  BY <1>10 DEF BargeSpeak
<1>11. ASSUME BargeDone PROVE Inv'
  BY <1>11 DEF BargeDone
<1>12. ASSUME SendBarge PROVE Inv'
  BY <1>12 DEF SendBarge, OnWire
<1>13. ASSUME DropEvent PROVE Inv'
  BY <1>13 DEF DropEvent, Getting
<1>14. ASSUME BeginNote PROVE Inv'
  BY <1>14 DEF BeginNote, Getting
<1>15. ASSUME SendNote PROVE Inv'
  BY <1>15 DEF SendNote
<1>16. ASSUME BeginFinal PROVE Inv'
  BY <1>16 DEF BeginFinal, Getting
<1>17. ASSUME OrchSendFails PROVE Inv'
  BY <1>17 DEF OrchSendFails, LeaveLoop
<1>18. ASSUME CloseSocket PROVE Inv'
  BY <1>18 DEF CloseSocket
<1>19. ASSUME NEW t \in Turns, TurnCancelled(t) PROVE Inv'
  BY <1>19 DEF TurnCancelled, RunTurnFrame
<1>20. ASSUME NEW t \in Turns, StartThinking(t) PROVE Inv'
  BY <1>20 DEF StartThinking, RunTurnFrame
<1>21. ASSUME NEW t \in Turns, ThinkReturned(t) PROVE Inv'
  <2>1. TypeOK' /\ TaskInv' /\ WireInv'
    BY <1>21 DEF ThinkReturned, RunTurnFrame
  <2>2. OwnerInv' /\ BargeInv' /\ QueueInv' /\ StopInv'
    BY <1>21 DEF ThinkReturned, RunTurnFrame
  <2> QED
    BY <2>1, <2>2
<1>22. ASSUME NEW t \in Turns, ThinkFailed(t) PROVE Inv'
  BY <1>22 DEF ThinkFailed, RunTurnFrame
<1>23. ASSUME NEW t \in Turns, TurnDies(t) PROVE Inv'
  <2>1. TypeOK' /\ TaskInv' /\ WireInv'
    BY <1>23 DEF TurnDies, RunTurnFrame
  <2>2. OwnerInv' /\ BargeInv' /\ QueueInv' /\ StopInv'
    BY <1>23 DEF TurnDies, RunTurnFrame
  <2> QED
    BY <2>1, <2>2
<1>24. ASSUME NEW t \in Turns, TurnWrites(t) PROVE Inv'
  BY <1>24 DEF TurnWrites, RunTurnFrame, OnWire, SendOf, Sending
<1>25. ASSUME NEW t \in Turns, TurnSendFails(t) PROVE Inv'
  <2>1. TypeOK' /\ TaskInv' /\ WireInv'
    BY <1>25 DEF TurnSendFails, RunTurnFrame, Sending
  <2>2. OwnerInv' /\ BargeInv' /\ QueueInv' /\ StopInv'
    BY <1>25 DEF TurnSendFails, RunTurnFrame, Sending
  <2> QED
    BY <2>1, <2>2
<1>26. ASSUME NEW t \in Turns, ErrorSent(t) PROVE Inv'
  BY <1>26 DEF ErrorSent, RunTurnFrame, Delivered
<1>27. ASSUME NEW t \in Turns, StartSpeaking(t) PROVE Inv'
  <2>1. TypeOK' /\ OwnerInv'
    BY <1>27 DEF StartSpeaking, RunTurnFrame, Delivered
  <2>2. TaskInv' /\ WireInv'
    BY <1>27 DEF StartSpeaking, RunTurnFrame, Delivered
  <2>3. BargeInv' /\ StopInv'
    BY <1>27 DEF StartSpeaking, RunTurnFrame, Delivered
  <2>4. QueueInv'
    BY <1>27 DEF StartSpeaking, RunTurnFrame, Delivered
  <2> QED
    BY <2>1, <2>2, <2>3, <2>4
<1>28. ASSUME NEW t \in Turns, FinishTurn(t) PROVE Inv'
  <2>1. TypeOK' /\ TaskInv' /\ WireInv'
    BY <1>28 DEF FinishTurn, RunTurnFrame
  <2>2. OwnerInv' /\ BargeInv' /\ QueueInv' /\ StopInv'
    BY <1>28 DEF FinishTurn, RunTurnFrame
  <2> QED
    BY <2>1, <2>2
<1>29. ASSUME NEW t \in Turns, TurnCompleteSent(t) PROVE Inv'
  BY <1>29 DEF TurnCompleteSent, RunTurnFrame, Delivered
<1>30. ASSUME NEW t \in Turns, ThinkStarts(t) PROVE Inv'
  BY <1>30 DEF ThinkStarts, ThinkFrame
<1>31. ASSUME NEW t \in Turns, ThinkEnds(t) PROVE Inv'
  <2>1. TypeOK' /\ TaskInv' /\ WireInv'
    BY <1>31 DEF ThinkEnds, ThinkFrame
  <2>2. OwnerInv' /\ BargeInv' /\ QueueInv' /\ StopInv'
    BY <1>31 DEF ThinkEnds, ThinkFrame
  <2> QED
    BY <2>1, <2>2
<1>32. ASSUME NEW t \in Turns, SpeakAudio(t) PROVE Inv'
  BY <1>32 DEF SpeakAudio, SpeakFrame, OnWire
<1>33. ASSUME NEW t \in Turns, SpeakEnds(t) PROVE Inv'
  <2>1. /\ turn[t] = "speaking"
        /\ \E how \in {"ok", "raised", "cancelled"} :
             /\ speak' = [speak EXCEPT ![t] = how]
             /\ how = "cancelled" => mustCancel[t]
        /\ last' = last \/ last' = [last EXCEPT ![t] = "text_only_fallback"]
    BY <1>33 DEF SpeakEnds, OnWire
  <2>2. /\ UNCHANGED <<phase, regTurn, regThink, regSpeak, orch, queue, arrived, sttPump, turnTask>>
        /\ UNCHANGED <<turn, mustCancel, think, pending, forwarded, peer>>
    BY <1>33 DEF SpeakEnds, SpeakFrame
  <2>3. TypeOK'
    BY <2>1, <2>2
  <2>4. TaskInv' /\ WireInv'
    BY <2>1, <2>2
  <2>5. OwnerInv' /\ BargeInv' /\ QueueInv' /\ StopInv'
    BY <2>2
  <2> QED  BY <2>3, <2>4, <2>5
<1>34. ASSUME Terminated \/ UNCHANGED vars PROVE Inv'
  <2>1. /\ UNCHANGED <<phase, regTurn, regThink, regSpeak, orch, queue, arrived, sttPump, turnTask>>
        /\ UNCHANGED <<turn, mustCancel, think, speak, pending, forwarded, peer, last>>
    BY <1>34 DEF Terminated, vars
  <2> QED  BY <2>1
<1> HIDE DEF TypeOK, OwnerInv, TaskInv, BargeInv, QueueInv, WireInv, StopInv, Phases, OrchAt, Message,
             Inv, Turns, NoTurn
<1> QED
  <2>1. CASE Orchestrator
    BY <2>1, <1>3, <1>4, <1>5, <1>8, <1>9, <1>10, <1>11, <1>12, <1>13, <1>14, <1>15, <1>16, <1>17, <1>18
    DEF Orchestrator
  <2>2. ASSUME NEW t \in Turns, RunTurn(t) PROVE Inv'
    BY <2>2, <1>19, <1>20, <1>21, <1>22, <1>23, <1>24, <1>25, <1>26, <1>27, <1>28, <1>29 DEF RunTurn
  <2> QED  BY <2>1, <2>2, <1>1, <1>2, <1>6, <1>7, <1>30, <1>31, <1>32, <1>33, <1>34 DEF ConverseNext

-----------------------------------------------------------------------------
(* Inv holds of every session, whatever the bounds: the type invariant and *)
(* the five relations between the orchestrator, the turns, the tasks and   *)
(* the queue of main.py:520-742 and duplex_session.py.                     *)
THEOREM Invariant == ConverseSpec => []Inv
  BY InitInv, StepInv, PTL DEF ConverseSpec

(* Every variable of a session keeps its type.                             *)
THEOREM TypeCorrect == ConverseSpec => []TypeOK
<1>1. Inv => TypeOK
  BY DEF Inv
<1> QED  BY Invariant, <1>1, PTL

(* A LISTENING session has nothing thinking or speaking, whenever the      *)
(* user speaks (duplex_session.py:30-46).                                  *)
THEOREM Quiet == ConverseSpec => []ListeningIsQuiet
<1>1. Inv => ListeningIsQuiet
  <2> SUFFICES ASSUME Inv, phase = "LISTENING", orch # "bargeTurn", NEW t \in Turns
               PROVE  turn[t] \notin Owning /\ ~Thinks(t) /\ ~Speaks(t)
    BY DEF ListeningIsQuiet
  <2>1. turn[t] \notin Owning
    BY DEF Inv, OwnerInv
  <2>2. turn[t] \notin {"thinking", "speaking"}
    BY <2>1 DEF Owning
  <2> QED  BY <2>1, <2>2 DEF Inv, TaskInv, Thinks, Speaks
<1> QED  BY Invariant, <1>1, PTL

(* After the close nothing listens, thinks or speaks, and no turn is left  *)
(* but one before the last in its closing send (main.py:666, 719-742).     *)
THEOREM CleanClose == ConverseSpec => []CloseLeavesNoWork
<1>1. Inv => CloseLeavesNoWork
  <2> SUFFICES ASSUME Inv, orch = "closed"
               PROVE  CloseLeavesNoWork
    BY DEF CloseLeavesNoWork
  <2>1. sttPump = "over" /\ \A t \in Turns : turn[t] \notin Owning
    BY DEF Inv, OwnerInv, StopInv
  <2>2. ASSUME NEW t \in Turns PROVE ~Thinks(t) /\ ~Speaks(t)
    BY <2>1 DEF Inv, TaskInv, Thinks, Speaks, Owning
  <2>3. ASSUME NEW t \in Turns, turn[t] \in Live PROVE turn[t] = "sendComplete" /\ t < turnTask
    <3>1. turn[t] = "sendComplete"
      BY <2>1, <2>3 DEF Live
    <3>2. t # turnTask
      BY <2>3 DEF Inv, StopInv, IsLive, Turns, NoTurn
    <3>3. ~(t > turnTask) /\ t \in Nat /\ turnTask \in Nat
      BY <2>3, ConverseAssumption DEF Inv, TypeOK, QueueInv, Turns, Refs, NoTurn, Live, Owning
    <3> QED  BY <3>1, <3>2, <3>3
  <2> QED  BY <2>1, <2>2, <2>3 DEF CloseLeavesNoWork
<1> QED  BY Invariant, <1>1, PTL

-----------------------------------------------------------------------------
(* The refinement of TurnTaking. *)

LEMMA StatusMoves ==
  ASSUME TypeOK, NEW t \in Turns, NEW at \in Live \cup Over \cup {"none"},
         turn' = [turn EXCEPT ![t] = at]
  PROVE  TurnStatus' = [TurnStatus EXCEPT ![t] = StatusOf(at)]
  BY DEF TypeOK, TurnStatus

LEMMA StatusSame ==
  ASSUME NEW t \in Turns
  PROVE  [TurnStatus EXCEPT ![t] = TurnStatus[t]] = TurnStatus
  BY DEF TurnStatus

(* Every step of a session is a step of TurnTaking, or changes nothing     *)
(* that TurnTaking speaks of.                                              *)
LEMMA StepRefines == Inv /\ [ConverseNext]_vars => [TT!Next]_TT!ttvars
<1> SUFFICES ASSUME Inv, [ConverseNext]_vars PROVE TT!Next \/ UNCHANGED <<TurnStatus, last>>
  BY DEF TT!ttvars
<1> USE DEF Live, Owning, Over, StatusOf, Claim
<1>a. TypeOK
  BY DEF Inv
<1>1. ASSUME UNCHANGED <<turn, last>> PROVE UNCHANGED <<TurnStatus, last>>
  BY <1>1 DEF TurnStatus
<1>2. ASSUME NEW t \in Turns, NEW how \in {"completed", "cancelled", "failed", "sendComplete"},
             turn[t] \in Owning, turn' = [turn EXCEPT ![t] = how], UNCHANGED last
      PROVE  TT!Next
  <2>1. TurnStatus[t] = "open" /\ StatusOf(how) \in {"completed", "cut"}
    BY <1>2 DEF TurnStatus
  <2>2. TT!Close(t, StatusOf(how))
    BY <1>a, <1>2, <2>1, StatusMoves DEF TT!Close
  <2> QED  BY <2>1, <2>2 DEF TT!Next
<1>3. ASSUME NEW t \in Turns, NEW at \in Owning, turn[t] \in Owning,
             turn' = [turn EXCEPT ![t] = at], UNCHANGED last
      PROVE  UNCHANGED <<TurnStatus, last>>
  <2>1. TurnStatus[t] = StatusOf(at)
    BY <1>3 DEF TurnStatus
  <2>2. TurnStatus' = [TurnStatus EXCEPT ![t] = StatusOf(at)]
    BY <1>a, <1>3, StatusMoves
  <2> HIDE DEF StatusOf
  <2> QED  BY <1>3, <2>1, <2>2, StatusSame
<1>4. ASSUME NEW t \in Turns, NEW m \in {"error", "assistant_text", "audio", "text_only_fallback"},
             turn[t] \in Owning, OnWire(t, m), UNCHANGED turn,
             m \in {"audio", "text_only_fallback"} =>
               last[t] \in {"assistant_text", "audio"} \/ peer = "gone"
      PROVE  TT!Next \/ UNCHANGED <<TurnStatus, last>>
  <2>1. TurnStatus[t] = "open" /\ UNCHANGED TurnStatus
    BY <1>4 DEF TurnStatus
  <2>2. CASE peer = "connected"
    <3>1. TT!Say(t, m)
      BY <1>4, <2>1, <2>2 DEF TT!Say, TT!Receives, OnWire
    <3> QED  BY <3>1 DEF TT!Next, TT!Said
  <2>3. CASE peer # "connected"
    BY <1>4, <2>1, <2>3 DEF OnWire
  <2> QED  BY <2>2, <2>3
<1>5. ASSUME SendBarge PROVE TT!Next \/ UNCHANGED <<TurnStatus, last>>
  <2>1. turnTask \in Turns /\ turn[turnTask] \in {"cancelled", "failed"}
    BY <1>5 DEF SendBarge, Inv, TypeOK, OwnerInv, BargeInv, Refs
  <2>2. TurnStatus[turnTask] = "cut" /\ UNCHANGED TurnStatus
    BY <1>5, <2>1 DEF SendBarge, turnVars, TurnStatus
  <2>3. last' = last \/ TT!Announce(turnTask)
    BY <1>5, <2>2 DEF SendBarge, OnWire, TT!Announce, TT!Receives
  <2> QED  BY <2>1, <2>2, <2>3 DEF TT!Next
<1>6. ASSUME StartTurn PROVE TT!Next
  <2> DEFINE t == Head(queue).n
  <2>1. t \in Turns /\ t > turnTask
    <3>1. /\ queue # <<>> /\ queue[1].kind = "final" /\ Head(queue) = queue[1]
          /\ 1 \in 1..Len(queue)
      BY <1>6, <1>a, TakeHead DEF StartTurn, Inv, QueueInv
    <3> QED  BY <1>a, <3>1, QueueTyped DEF Inv, QueueInv, Refs
  <2>2. \A s \in Turns : turn[s] \notin Owning /\ (s >= t => turn[s] = "none")
    <3>1. Turns \subseteq Nat /\ turnTask \in Nat
      BY <1>a, ConverseAssumption DEF Turns, TypeOK, Refs, NoTurn
    <3>2. \A s \in Turns : s >= t => turn[s] = "none"
      <4>1. \A s \in Turns : s > turnTask => turn[s] = "none"
        BY DEF Inv, QueueInv
      <4>2. \A s \in Turns : s >= t => s > turnTask
        <5> HIDE DEF t
        <5> QED  BY <2>1, <3>1
      <4> QED  BY <4>1, <4>2
    <3> QED  BY <1>6, <3>2 DEF StartTurn, Inv, OwnerInv
  <2>3. \A s \in Turns : TurnStatus[s] # "open" /\ (s >= t => TurnStatus[s] = "unheard")
    BY <1>a, <2>2 DEF TurnStatus, TypeOK
  <2>4. TurnStatus' = [TurnStatus EXCEPT ![t] = "open"]
    BY <1>6, <1>a, <2>1, StatusMoves DEF StartTurn
  <2>5. last' = last \/ TT!Receives(t, "transcript_final")
    BY <1>6 DEF StartTurn, OnWire, TT!Receives
  <2>6. TT!Open(t)
    BY <2>3, <2>4, <2>5 DEF TT!Open
  <2> QED  BY <2>1, <2>6 DEF TT!Next
<1>7. ASSUME Orchestrator, ~SendBarge, ~StartTurn PROVE UNCHANGED <<turn, last>>
  BY <1>7 DEF Orchestrator, OrchEnded, SpeechStart, BargeThink, BargeSpeak, BargeDone, DropEvent, BeginNote,
     SendNote, BeginFinal, OrchSendFails, CloseTurn, CloseSocket, turnsVars, turnVars
<1>8. ASSUME NEW t \in Turns, RunTurn(t) PROVE TT!Next \/ UNCHANGED <<TurnStatus, last>>
  <2>1. CASE StartThinking(t) \/ ThinkReturned(t) \/ ThinkFailed(t) \/ ErrorSent(t) \/ StartSpeaking(t)
    BY <1>3, <2>1 DEF StartThinking, ThinkReturned, ThinkFailed, ErrorSent, StartSpeaking
  <2>2. CASE TurnDies(t) \/ FinishTurn(t)
    BY <1>2, <2>2 DEF TurnDies, FinishTurn
  <2>3. CASE TurnCancelled(t) \/ TurnSendFails(t) \/ TurnCompleteSent(t)
    <3>1. CASE turn[t] = "sendComplete"
      <4>1. turn' = [turn EXCEPT ![t] = "completed"] /\ last' = last
        BY <2>3, <3>1 DEF TurnCancelled, TurnSendFails, TurnCompleteSent
      <4>2. TurnStatus[t] = StatusOf("completed")
        BY <3>1 DEF TurnStatus
      <4>3. TurnStatus' = [TurnStatus EXCEPT ![t] = StatusOf("completed")]
        BY <1>a, <4>1, StatusMoves
      <4> HIDE DEF StatusOf
      <4> QED  BY <4>1, <4>2, <4>3, StatusSame
    <3>2. CASE turn[t] # "sendComplete"
      <4>1. /\ turn[t] \in Owning /\ last' = last
            /\ \E how \in {"cancelled", "failed"} : turn' = [turn EXCEPT ![t] = how]
        BY <2>3, <3>2 DEF TurnCancelled, TurnSendFails, TurnCompleteSent, Sending
      <4> QED  BY <1>2, <4>1
    <3> QED  BY <3>1, <3>2
  <2>4. CASE TurnWrites(t)
    <3>1. turn[t] \in Sending /\ UNCHANGED turn /\ OnWire(t, SendOf(turn[t]))
      BY <2>4 DEF TurnWrites, turnVars
    <3>2. CASE turn[t] = "sendComplete"
      <4>1. TurnStatus[t] = "completed" /\ UNCHANGED TurnStatus
        BY <3>1, <3>2 DEF TurnStatus
      <4>2. last' = last \/ TT!Announce(t)
        BY <3>1, <3>2, <4>1 DEF SendOf, OnWire, TT!Announce, TT!Receives
      <4> QED  BY <4>1, <4>2 DEF TT!Next
    <3>3. CASE turn[t] # "sendComplete"
      BY <1>4, <3>1, <3>3 DEF Sending, SendOf
    <3> QED  BY <3>2, <3>3
  <2> QED  BY <1>8, <2>1, <2>2, <2>3, <2>4 DEF RunTurn
<1>9. ASSUME NEW t \in Turns, SpeakAudio(t) \/ SpeakEnds(t)
      PROVE  TT!Next \/ UNCHANGED <<TurnStatus, last>>
  <2>1. turn[t] = "speaking" /\ UNCHANGED turn
    BY <1>9 DEF SpeakAudio, SpeakEnds, SpeakFrame, Inv, TaskInv, Running
  <2>2. \/ UNCHANGED last
        \/ speak[t] = "live" /\ (OnWire(t, "audio") \/ OnWire(t, "text_only_fallback"))
    BY <1>9 DEF SpeakAudio, SpeakEnds
  <2>3. speak[t] = "live" => last[t] \in {"assistant_text", "audio"} \/ peer = "gone"
    BY DEF Inv, WireInv
  <2> QED  BY <1>1, <1>4, <2>1, <2>2, <2>3
<1>10. ASSUME NEW t \in Turns, ThinkStarts(t) \/ ThinkEnds(t) PROVE UNCHANGED <<turn, last>>
  BY <1>10 DEF ThinkStarts, ThinkEnds, ThinkFrame
<1>11. ASSUME \/ \E k \in Kinds : Emit(k)
              \/ PumpEnds \/ PumpCancelled \/ Disconnect \/ Terminated \/ UNCHANGED vars
       PROVE  UNCHANGED <<turn, last>>
  BY <1>11 DEF Emit, PumpEnds, PumpCancelled, Disconnect, Terminated, vars, turnsVars, turnVars
<1> QED  BY <1>1, <1>5, <1>6, <1>7, <1>8, <1>9, <1>10, <1>11 DEF ConverseNext

(* A session is a conversation of turns, one at a time, and a turn that    *)
(* was cut off stays silent (SAD.md:124, main.py:613-668).                 *)
THEOREM Refinement == ConverseSpec => ImplementsTurnTaking
<1>1. ConverseInit => TT!Init
  <2> SUFFICES ASSUME ConverseInit PROVE TurnStatus = [t \in Turns |-> "unheard"]
    BY DEF ConverseInit, TT!Init
  <2>1. \A t \in Turns : StatusOf(turn[t]) = "unheard"
    BY DEF ConverseInit, StatusOf, Owning
  <2> QED  BY <2>1 DEF TurnStatus
<1> QED  BY <1>1, Invariant, StepRefines, PTL DEF ConverseSpec, ImplementsTurnTaking, TT!Spec

-----------------------------------------------------------------------------
(* The confirmation token. *)

LEMMA StepToken == Inv /\ TokenInv /\ [ConverseNext]_vars => TokenInv'
<1> SUFFICES ASSUME Inv, TokenInv, [ConverseNext]_vars PROVE TokenInv'
  OBVIOUS
<1>a. /\ TypeOK /\ Turns \subseteq Nat /\ Refs = Turns \cup {0} /\ NoTurn = 0 /\ NoTurn \notin Turns
      /\ pending \in Refs /\ turnTask \in Refs
  BY ConverseAssumption DEF Inv, TypeOK, Refs, Turns, NoTurn
<1>b. \A t \in Turns : turn[t] \in Owning => t = turnTask
  BY DEF Inv, OwnerInv
<1>c. \A t \in Turns : think[t] \in Running => turn[t] = "thinking"
  BY DEF Inv, TaskInv
<1> USE DEF Owning, Live, Over, Running, Answer, Claim
<1>1. ASSUME UNCHANGED <<turn, turnTask, last, pending, forwarded>>,
             \A t \in Turns : think[t] \in Running /\ think'[t] # think[t] => think'[t] = "cancelling"
      PROVE TokenInv'
  BY <1>1 DEF TokenInv
<1>2. ASSUME SpeechStart \/ CloseTurn \/ BargeThink PROVE TokenInv'
  <2>1. /\ UNCHANGED <<turn, turnTask, last, pending, forwarded>>
        /\ \/ UNCHANGED think
           \/ \E t \in Refs : think' = [think EXCEPT ![t] = "cancelling"]
    BY <1>2, <1>a DEF SpeechStart, CloseTurn, BargeThink, CancelTurn, IsLive, Thinks, Inv, TypeOK, tokenVars
  <2> QED  BY <1>1, <1>a, <2>1 DEF TypeOK
<1>3. ASSUME SendBarge PROVE TokenInv'
  <2>1. /\ UNCHANGED <<turn, turnTask, think, pending, forwarded>>
        /\ last' = last \/ last' = [last EXCEPT ![turnTask] = "barge_in_detected"]
    BY <1>3 DEF SendBarge, OnWire, turnVars, tokenVars
  <2> QED  BY <1>a, <2>1 DEF TokenInv, TypeOK
<1>4. ASSUME StartTurn PROVE TokenInv'
  <2> DEFINE t == Head(queue).n
  <2>1. t \in Turns /\ t > turnTask
    <3>1. /\ queue # <<>> /\ queue[1].kind = "final" /\ Head(queue) = queue[1]
          /\ 1 \in 1..Len(queue)
      BY <1>4, <1>a, TakeHead DEF StartTurn, Inv, QueueInv
    <3> QED  BY <1>a, <3>1, QueueTyped DEF Inv, QueueInv
  <2>2. /\ turn' = [turn EXCEPT ![t] = "created"] /\ turnTask' = t
        /\ UNCHANGED <<think, pending, forwarded>>
        /\ last' = last \/ last' = [last EXCEPT ![t] = "transcript_final"]
    BY <1>4 DEF StartTurn, OnWire, tokenVars
  <2>3. turn[t] = "none"
    BY <2>1 DEF Inv, QueueInv
  <2> HIDE DEF t
  <2> QED  BY <1>a, <2>1, <2>2, <2>3 DEF TokenInv, TypeOK
<1>5. ASSUME Orchestrator, ~SpeechStart, ~CloseTurn, ~BargeThink, ~SendBarge, ~StartTurn PROVE TokenInv'
  <2>1. UNCHANGED <<turn, turnTask, last, pending, forwarded, think>>
    BY <1>5 DEF Orchestrator, OrchEnded, BargeSpeak, BargeDone, DropEvent, BeginNote, SendNote, BeginFinal,
       OrchSendFails, CloseSocket, turnsVars, turnVars, tokenVars
  <2> QED  BY <1>1, <2>1
<1>6. ASSUME NEW t \in Turns, RunTurn(t) PROVE TokenInv'
  <2>0. UNCHANGED <<turnTask, forwarded>>
    BY <1>6 DEF RunTurn, TurnCancelled, StartThinking, ThinkReturned, ThinkFailed, TurnDies, TurnWrites,
       TurnSendFails, ErrorSent, StartSpeaking, FinishTurn, TurnCompleteSent, RunTurnFrame
  <2>1. CASE ThinkReturned(t) \/ ErrorSent(t)
    <3>1. /\ turn[t] \in Owning \ {"sendText"} /\ turn' = [turn EXCEPT ![t] = "sendText"]
          /\ pending' \in {t, NoTurn} /\ last' = last
      BY <2>1 DEF ThinkReturned, ErrorSent, Adopt, ForgetToken
    <3>2. t = turnTask /\ \A s \in Turns : s > t => turn[s] = "none"
      BY <1>b, <3>1 DEF Inv, QueueInv
    <3>3. \A s \in Turns : s # t => think[s] \notin Running
      BY <1>b, <1>c, <3>2
    <3>4. \A s \in Turns : think[s] \notin {"live", "cancelling"}
      BY <2>1, <3>3, <1>c DEF ThinkReturned, ErrorSent, Replies
    <3>5. forwarded = NoTurn
      BY <3>4 DEF TokenInv
    <3>6. \A s \in Turns : turn'[s] \in {"none", "created", "thinking", "sendError"} => s # t
      BY <1>a, <3>1 DEF TypeOK
    <3> QED
      BY <1>a, <1>b, <2>0, <3>1, <3>2, <3>5, <3>6 DEF TokenInv, TypeOK
  <2>2. CASE TurnWrites(t)
    <3>1. /\ UNCHANGED <<turn, think, pending>> /\ turn[t] \in Sending
          /\ last' = last \/ last' = [last EXCEPT ![t] = SendOf(turn[t])]
      BY <2>2 DEF TurnWrites, OnWire, turnVars
    <3>2. turn[t] = "sendError" => SendOf(turn[t]) \notin Answer
      BY DEF SendOf
    <3> QED
      BY <1>a, <2>0, <3>1, <3>2 DEF TokenInv, TypeOK, Sending
  <2>3. CASE \/ TurnCancelled(t) \/ ThinkFailed(t) \/ TurnDies(t) \/ TurnSendFails(t) \/ StartThinking(t)
             \/ StartSpeaking(t) \/ FinishTurn(t) \/ TurnCompleteSent(t)
    <3>1. /\ UNCHANGED <<last, pending>>
          /\ \E how \in {"cancelled", "failed", "completed", "thinking", "sendError", "speaking", "sendComplete"} :
               /\ turn' = [turn EXCEPT ![t] = how]
               /\ how \in {"thinking", "sendError"} => turn[t] \in {"created", "thinking"}
               /\ how \in {"speaking", "sendComplete"} => turn[t] \in {"sendText", "speaking"}
      BY <2>3 DEF TurnCancelled, ThinkFailed, TurnDies, TurnSendFails, StartThinking, StartSpeaking,
         FinishTurn, TurnCompleteSent
    <3>2. \A s \in Turns : think[s] \in Running => think'[s] = think[s]
      BY <2>3, <1>a, <1>b, <1>c DEF TurnCancelled, ThinkFailed, TurnDies, TurnSendFails, StartThinking,
         StartSpeaking, FinishTurn, TurnCompleteSent, TypeOK
    <3> QED  BY <1>a, <2>0, <3>1, <3>2 DEF TokenInv, TypeOK
  <2> QED  BY <1>6, <2>1, <2>2, <2>3 DEF RunTurn
<1>7. ASSUME NEW t \in Turns, ThinkStarts(t) \/ ThinkEnds(t) PROVE TokenInv'
  <2>1. /\ UNCHANGED <<turn, turnTask, last, pending>>
        /\ \/ think' = [think EXCEPT ![t] = "live"] /\ forwarded' = pending
           \/ forwarded' = NoTurn
    BY <1>7 DEF ThinkStarts, ThinkEnds, ThinkFrame
  <2>2. think' = [think EXCEPT ![t] = "live"] => think'[t] \in {"live", "cancelling"}
    BY DEF Inv, TypeOK
  <2> QED  BY <1>a, <2>1, <2>2 DEF TokenInv
<1>8. ASSUME NEW t \in Turns, SpeakAudio(t) \/ SpeakEnds(t) PROVE TokenInv'
  <2>1. /\ UNCHANGED <<turn, turnTask, think, pending, forwarded>>
        /\ last' = last \/ \E m \in Answer : last' = [last EXCEPT ![t] = m]
    BY <1>8 DEF SpeakAudio, SpeakEnds, SpeakFrame, OnWire, tokenVars
  <2>2. turn[t] = "speaking"
    BY <1>8 DEF SpeakAudio, SpeakEnds, Inv, TaskInv
  <2> QED  BY <1>a, <2>1, <2>2 DEF TokenInv, TypeOK
<1>9. ASSUME \/ \E k \in Kinds : Emit(k)
             \/ PumpEnds \/ PumpCancelled \/ Disconnect \/ Terminated \/ UNCHANGED vars
      PROVE  TokenInv'
  <2>1. UNCHANGED <<turn, turnTask, last, pending, forwarded, think>>
    BY <1>9 DEF Emit, PumpEnds, PumpCancelled, Disconnect, Terminated, vars, turnsVars, turnVars, tokenVars
  <2> QED  BY <1>1, <2>1
<1> QED  BY <1>2, <1>3, <1>4, <1>5, <1>6, <1>7, <1>8, <1>9 DEF ConverseNext

(* The token that leaves the gateway came with the answer adopted last,    *)
(* however turns are interrupted; it may leave more than once              *)
(* (main.py:521-524, 580-590).                                             *)
THEOREM TokenOrder == ConverseSpec => []TokenFromLastAnswer
<1>1. ConverseInit => TokenInv
  BY ConverseAssumption DEF ConverseInit, TokenInv, Turns, NoTurn, Answer
<1>2. Inv /\ TokenInv => TokenFromLastAnswer
  <2> SUFFICES ASSUME Inv, TokenInv, forwarded # NoTurn, NEW t \in Turns
               PROVE  /\ think[t] \in {"live", "cancelling"} => forwarded < t
                      /\ t > forwarded => last[t] \notin Answer
    BY DEF TokenFromLastAnswer
  <2>1. forwarded = pending /\ forwarded \in Nat /\ t \in Nat
    BY ConverseAssumption DEF Inv, TypeOK, TokenInv, Refs, Turns, NoTurn
  <2>2. think[t] \in {"live", "cancelling"} => turn[t] = "thinking"
    BY DEF Inv, TaskInv, Running
  <2> QED  BY <2>1, <2>2 DEF TokenInv
<1> QED  BY Invariant, StepToken, <1>1, <1>2, PTL DEF ConverseSpec

-----------------------------------------------------------------------------
(* What the think and speak tasks of a turn have come to when it is not    *)
(* the one they are awaited by, and where a turn that was cut off without  *)
(* the phase knowing leaves the session: on its way out.                   *)
StageInv ==
  \A t \in Turns :
    /\ turn[t] \in {"none", "created", "thinking"} => speak[t] = "none"
    /\ turn[t] \in {"sendError", "sendText", "speaking"} => think[t] = "consumed"
CutInv ==
  turnTask # NoTurn /\ phase # "LISTENING" /\ turn[turnTask] = "cancelled" =>
    orch \in {"awaitTurn", "closed"}

LEMMA StepStage == Inv /\ StageInv /\ [ConverseNext]_vars => StageInv'
<1> SUFFICES ASSUME Inv, StageInv, [ConverseNext]_vars PROVE StageInv'
  OBVIOUS
<1>a. /\ TypeOK /\ Refs = Turns \cup {0} /\ NoTurn = 0 /\ NoTurn \notin Turns /\ regThink \in Refs /\ regSpeak \in Refs
      /\ turnTask \in Refs
  BY ConverseAssumption DEF Inv, TypeOK, Refs, Turns, NoTurn
<1>b. \A t \in Turns : /\ think[t] \in Running => turn[t] = "thinking"
                       /\ speak[t] \in Running => turn[t] = "speaking"
  BY DEF Inv, TaskInv
<1> USE DEF Running
<1>1. ASSUME UNCHANGED turn,
             \A t \in Turns : think'[t] = think[t] \/ turn[t] = "thinking",
             \A t \in Turns : speak'[t] = speak[t] \/ turn[t] = "speaking"
      PROVE  StageInv'
  BY <1>1 DEF StageInv
<1>2. ASSUME NEW t \in Refs, CancelTurn(t), UNCHANGED turn PROVE StageInv'
  <2>1. /\ \A s \in Turns : think'[s] = think[s] \/ turn[s] = "thinking"
        /\ \A s \in Turns : speak'[s] = speak[s] \/ turn[s] = "speaking"
    BY <1>2, <1>a DEF CancelTurn, IsLive, TypeOK
  <2> QED  BY <1>1, <1>2, <2>1
<1>3. ASSUME SpeechStart PROVE StageInv'
  BY <1>1, <1>2, <1>3, <1>a DEF SpeechStart, Inv, TypeOK
<1>4. ASSUME CloseTurn PROVE StageInv'
  BY <1>2, <1>4, <1>a DEF CloseTurn
<1>5. ASSUME BargeThink \/ BargeSpeak PROVE StageInv'
  <2>1. /\ UNCHANGED turn
        /\ \A s \in Turns : think'[s] = think[s] \/ turn[s] = "thinking"
        /\ \A s \in Turns : speak'[s] = speak[s] \/ turn[s] = "speaking"
    BY <1>5, <1>a, <1>b DEF BargeThink, BargeSpeak, Thinks, Speaks, TypeOK
  <2> QED  BY <1>1, <2>1
<1>6. ASSUME StartTurn PROVE StageInv'
  <2> DEFINE t == Head(queue).n
  <2>1. t \in Turns /\ turn[t] = "none"
    <3>1. /\ queue # <<>> /\ queue[1].kind = "final" /\ Head(queue) = queue[1]
          /\ 1 \in 1..Len(queue)
      BY <1>6, <1>a, TakeHead DEF StartTurn, Inv, QueueInv
    <3>2. t \in Turns /\ t > turnTask
      BY <1>a, <3>1, QueueTyped DEF Inv, QueueInv
    <3> QED  BY <3>2 DEF Inv, QueueInv
  <2>2. turn' = [turn EXCEPT ![t] = "created"] /\ UNCHANGED <<think, speak>>
    BY <1>6 DEF StartTurn
  <2> HIDE DEF t
  <2> QED  BY <1>a, <2>1, <2>2 DEF StageInv, TypeOK
<1>7. ASSUME NEW t \in Turns, RunTurn(t) PROVE StageInv'
  <2>1. CASE StartThinking(t)
    BY <1>a, <2>1 DEF StartThinking, StageInv, TypeOK
  <2>2. CASE ThinkReturned(t) \/ ThinkFailed(t)
    BY <1>a, <2>2 DEF ThinkReturned, ThinkFailed, StageInv, TypeOK
  <2>3. CASE StartSpeaking(t) \/ ErrorSent(t)
    BY <1>a, <2>3 DEF StartSpeaking, ErrorSent, StageInv, TypeOK
  <2>4. CASE \/ TurnCancelled(t) \/ TurnDies(t) \/ TurnSendFails(t) \/ FinishTurn(t) \/ TurnCompleteSent(t)
    <3>1. /\ \E how \in {"cancelled", "failed", "completed", "sendComplete"} : turn' = [turn EXCEPT ![t] = how]
          /\ UNCHANGED think /\ \A s \in Turns : s # t => speak'[s] = speak[s]
      BY <1>a, <2>4 DEF TurnCancelled, TurnDies, TurnSendFails, FinishTurn, TurnCompleteSent, TypeOK
    <3> QED  BY <1>a, <3>1 DEF StageInv, TypeOK
  <2>5. CASE TurnWrites(t)
    BY <2>5 DEF TurnWrites, turnVars, StageInv
  <2> QED  BY <1>7, <2>1, <2>2, <2>3, <2>4, <2>5 DEF RunTurn
<1>8. ASSUME NEW t \in Turns, ThinkStarts(t) \/ ThinkEnds(t) \/ SpeakAudio(t) \/ SpeakEnds(t) PROVE StageInv'
  <2>1. /\ UNCHANGED turn
        /\ \A s \in Turns : think'[s] = think[s] \/ turn[s] = "thinking"
        /\ \A s \in Turns : speak'[s] = speak[s] \/ turn[s] = "speaking"
    BY <1>8, <1>a, <1>b DEF ThinkStarts, ThinkEnds, ThinkFrame, SpeakAudio, SpeakEnds, SpeakFrame, TypeOK
  <2> QED  BY <1>1, <2>1
<1>9. ASSUME \/ \E k \in Kinds : Emit(k)
             \/ PumpEnds \/ PumpCancelled \/ Disconnect \/ Terminated \/ UNCHANGED vars
             \/ OrchEnded \/ BargeDone \/ SendBarge \/ DropEvent \/ BeginNote \/ SendNote \/ BeginFinal
             \/ OrchSendFails \/ CloseSocket
      PROVE  StageInv'
  <2>1. UNCHANGED <<turn, think, speak>>
    BY <1>9 DEF Emit, PumpEnds, PumpCancelled, Disconnect, Terminated, vars, turnsVars, turnVars,
       OrchEnded, BargeDone, SendBarge, DropEvent, BeginNote, SendNote, BeginFinal, OrchSendFails, CloseSocket
  <2> QED  BY <1>1, <2>1
<1> QED  BY <1>3, <1>4, <1>5, <1>6, <1>7, <1>8, <1>9 DEF ConverseNext, Orchestrator

LEMMA StepCut == Inv /\ StageInv /\ CutInv /\ [ConverseNext]_vars => CutInv'
<1> SUFFICES ASSUME Inv, StageInv, CutInv, [ConverseNext]_vars PROVE CutInv'
  OBVIOUS
<1>a. /\ TypeOK /\ Refs = Turns \cup {0} /\ NoTurn = 0 /\ NoTurn \notin Turns /\ turnTask \in Refs
  BY ConverseAssumption DEF Inv, TypeOK, Refs, Turns, NoTurn
<1>b. \A t \in Turns : turn[t] \in Owning => t = turnTask
  BY DEF Inv, OwnerInv
<1>1. ASSUME UNCHANGED <<phase, turn, turnTask>>, orch \in {"awaitTurn", "closed"} => orch' \in {"awaitTurn", "closed"}
      PROVE  CutInv'
  BY <1>1 DEF CutInv
<1>2. ASSUME SpeechStart PROVE CutInv'
  BY <1>2 DEF SpeechStart, CutInv
<1>3. ASSUME StartTurn PROVE CutInv'
  <2> DEFINE t == Head(queue).n
  <2>1. t \in Turns
    <3>1. /\ queue # <<>> /\ queue[1].kind = "final" /\ Head(queue) = queue[1]
          /\ 1 \in 1..Len(queue)
      BY <1>3, <1>a, TakeHead DEF StartTurn, Inv, QueueInv
    <3> QED  BY <1>a, <3>1, QueueTyped DEF Inv, QueueInv
  <2>2. turn' = [turn EXCEPT ![t] = "created"] /\ turnTask' = t
    BY <1>3 DEF StartTurn, Claim
  <2> HIDE DEF t
  <2> QED  BY <1>a, <2>1, <2>2 DEF CutInv, TypeOK
<1>4. ASSUME NEW t \in Turns, RunTurn(t) PROVE CutInv'
  <2>0. UNCHANGED <<turnTask, orch>>
    BY <1>4 DEF RunTurn, TurnCancelled, StartThinking, ThinkReturned, ThinkFailed, TurnDies, TurnWrites,
       TurnSendFails, ErrorSent, StartSpeaking, FinishTurn, TurnCompleteSent, RunTurnFrame
  <2>1. CASE TurnCancelled(t)
    <3>1. t = turnTask /\ orch \in {"bargeTurn", "awaitTurn"} /\ phase' = phase
      BY <2>1 DEF TurnCancelled, duplexVars, Inv, OwnerInv
    <3>2. orch = "bargeTurn" => phase = "LISTENING"
      BY DEF Inv, BargeInv, Barging
    <3> QED  BY <2>0, <3>1, <3>2 DEF CutInv
  <2>2. CASE TurnDies(t)
    <3>1. turn[t] = "thinking" => speak[t] # "cancelled" /\ think[t] # "cancelled"
      BY <2>2 DEF TurnDies, StageInv, Inv, TaskInv
    <3>2. turn[t] = "speaking" => think[t] # "cancelled" /\ speak[t] # "cancelled"
      BY <2>2 DEF TurnDies, StageInv, Inv, TaskInv
    <3>3. turn' = [turn EXCEPT ![t] = "failed"] /\ phase' = phase
      BY <2>2, <3>1, <3>2 DEF TurnDies, duplexVars
    <3> QED  BY <1>a, <2>0, <3>3 DEF CutInv, TypeOK
  <2>3. CASE StartThinking(t) \/ StartSpeaking(t)
    <3>1. /\ t = turnTask
          /\ \E at \in {"thinking", "speaking"} : turn' = [turn EXCEPT ![t] = at]
      BY <1>b, <2>3 DEF StartThinking, StartSpeaking, Owning
    <3> QED  BY <1>a, <2>0, <3>1 DEF CutInv, TypeOK
  <2>4. CASE FinishTurn(t)
    BY <2>4 DEF FinishTurn, Finish, CutInv
  <2>5. CASE ThinkReturned(t) \/ ThinkFailed(t) \/ TurnSendFails(t) \/ ErrorSent(t) \/ TurnCompleteSent(t)
    <3>1. /\ phase' = phase
          /\ \E at \in {"sendText", "sendError", "failed", "completed"} : turn' = [turn EXCEPT ![t] = at]
      BY <2>5 DEF ThinkReturned, ThinkFailed, TurnSendFails, ErrorSent, TurnCompleteSent, duplexVars
    <3> QED  BY <1>a, <2>0, <3>1 DEF CutInv, TypeOK
  <2>6. CASE TurnWrites(t)
    BY <2>0, <2>6, <1>1 DEF TurnWrites, turnVars, duplexVars
  <2> QED  BY <1>4, <2>1, <2>2, <2>3, <2>4, <2>5, <2>6 DEF RunTurn
<1>5. ASSUME \/ OrchEnded \/ BargeThink \/ BargeSpeak \/ BargeDone \/ SendBarge \/ DropEvent \/ BeginNote
             \/ SendNote \/ BeginFinal \/ OrchSendFails \/ CloseTurn \/ CloseSocket
      PROVE  CutInv'
  <2>1. UNCHANGED <<phase, turn, turnTask>>
    BY <1>5 DEF OrchEnded, BargeThink, BargeSpeak, BargeDone, SendBarge, DropEvent, BeginNote, SendNote,
       BeginFinal, OrchSendFails, CloseTurn, CloseSocket, duplexVars, turnsVars, turnVars
  <2>2. orch \in {"awaitTurn", "closed"} => orch' \in {"awaitTurn", "closed"}
    BY <1>5 DEF OrchEnded, BargeThink, BargeSpeak, BargeDone, SendBarge, DropEvent, BeginNote, SendNote,
       BeginFinal, OrchSendFails, CloseTurn, CloseSocket, Getting
  <2> QED  BY <1>1, <2>1, <2>2
<1>6. ASSUME \/ \E k \in Kinds : Emit(k)
             \/ \E t \in Turns : ThinkStarts(t) \/ ThinkEnds(t) \/ SpeakAudio(t) \/ SpeakEnds(t)
             \/ PumpEnds \/ PumpCancelled \/ Disconnect \/ Terminated \/ UNCHANGED vars
      PROVE  CutInv'
  <2>1. UNCHANGED <<phase, turn, turnTask, orch>>
    BY <1>6 DEF Emit, ThinkStarts, ThinkEnds, ThinkFrame, SpeakAudio, SpeakEnds, SpeakFrame, PumpEnds,
       PumpCancelled, Disconnect, Terminated, vars, duplexVars, turnsVars, turnVars
  <2> QED  BY <1>1, <2>1
<1> QED  BY <1>2, <1>3, <1>4, <1>5, <1>6 DEF ConverseNext, Orchestrator

(* A step that takes a final transcript from the queue without starting a  *)
(* turn finds one that owns the session, or one that died of an exception  *)
(* (main.py:613-666).                                                      *)
LEMMA DropStep ==
  ASSUME Inv, CutInv, [ConverseNext]_vars, Getting("final"), Len(queue') < Len(queue), peer = "connected"
  PROVE  \E t \in Turns : turn[t] \in Owning \/ (t = turnTask /\ turn[t] = "failed")
<1>0. orch = "get" /\ queue # <<>> /\ Head(queue).kind = "final" /\ queue \in Seq(Event) /\ Len(queue) \in Nat
  BY DEF Getting, Inv, TypeOK
<1>1. queue' # queue
  BY <1>0
<1>2. ~\E k \in Kinds : Emit(k)
  <2> SUFFICES ASSUME NEW k \in Kinds, Emit(k) PROVE FALSE
    OBVIOUS
  <2>1. [kind |-> k, n |-> arrived + 1] \in Event
    BY DEF Emit, Inv, TypeOK, Event
  <2> DEFINE e == [kind |-> k, n |-> arrived + 1]
  <2>2. queue' = Append(queue, e) /\ e \in Event
    BY <2>1 DEF Emit
  <2> HIDE DEF e
  <2>3. Len(queue') = Len(queue) + 1
    BY <1>0, <2>2
  <2> QED  BY <1>0, <2>3
<1>3. ~PumpEnds
  <2> SUFFICES ASSUME PumpEnds PROVE FALSE
    OBVIOUS
  <2>1. PICK failure \in {<<>>, <<[kind |-> "error", n |-> NoTurn]>>} : queue' = queue \o failure \o EndMarker
    BY DEF PumpEnds
  <2>2. Len(queue') >= Len(queue)
    <3>1. CASE failure = <<>>
      BY <1>0, <2>1, <3>1 DEF EndMarker
    <3>2. CASE failure = <<[kind |-> "error", n |-> NoTurn]>>
      BY <1>0, <2>1, <3>2 DEF EndMarker
    <3> QED  BY <3>1, <3>2
  <2> QED  BY <1>0, <2>2
<1>4. DropEvent
  <2>1. Orchestrator
    BY <1>1, <1>2, <1>3 DEF ConverseNext, PumpCancelled, Disconnect, RunTurn, TurnCancelled, StartThinking, ThinkReturned,
       ThinkFailed, TurnDies, TurnWrites, TurnSendFails, ErrorSent, StartSpeaking, FinishTurn, TurnCompleteSent,
       RunTurnFrame, ThinkStarts, ThinkEnds, ThinkFrame, SpeakAudio, SpeakEnds, SpeakFrame, Terminated, queueVars, vars
  <2> QED  BY <1>0, <1>1, <2>1 DEF Orchestrator, OrchEnded, SpeechStart, BargeThink, BargeSpeak, BargeDone,
              SendBarge, BeginNote, SendNote, BeginFinal, StartTurn, OrchSendFails, CloseTurn, CloseSocket,
              Getting, queueVars
<1>5. phase # "LISTENING"
  BY <1>0, <1>4 DEF DropEvent, Getting
<1>6. turnTask # NoTurn /\ turn[turnTask] \in Owning \cup {"cancelled", "failed"}
  BY <1>5 DEF Inv, BargeInv
<1>7. turnTask \in Turns
  BY <1>6 DEF Inv, TypeOK, Refs
<1>8. turn[turnTask] # "cancelled"
  BY <1>0, <1>5, <1>6 DEF CutInv
<1> QED  BY <1>6, <1>7, <1>8

(* However turns, barge-ins and failures interleave, a final transcript is *)
(* passed over only by a session that has something else to do, or whose   *)
(* turn died of an exception that run_turn does not catch.                 *)
THEOREM OnlyBusySessionsDrop == ConverseSpec => DroppedOnlyWhileBusy
<1>1. ConverseInit => StageInv /\ CutInv
  BY DEF ConverseInit, StageInv, CutInv, Turns, NoTurn
<1>2. Inv /\ CutInv /\ [ConverseNext]_vars =>
        [Getting("final") /\ Len(queue') < Len(queue) /\ peer = "connected"
           => \E t \in Turns : turn[t] \in Owning \/ (t = turnTask /\ turn[t] = "failed")]_vars
  BY DropStep
<1> QED  BY Invariant, StepStage, StepCut, <1>1, <1>2, PTL DEF ConverseSpec, DroppedOnlyWhileBusy
=============================================================================
