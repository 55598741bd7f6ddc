------------------------------ MODULE Converse ------------------------------
(***************************************************************************)
(* One /ws/converse session of the speech gateway: the orchestrator loop   *)
(* of speech_gateway/main.py, the stt_pump task that feeds its queue, the  *)
(* turn, think and speak tasks it starts, and the DuplexSession that       *)
(* decides what a barge-in cancels.                                        *)
(*                                                                         *)
(* The tasks run on one asyncio event loop: a step runs from one await to  *)
(* the next without interruption, and any task that is ready may be the    *)
(* next to run.  task.cancel() does not stop a task; it makes the await    *)
(* the task is suspended in raise CancelledError when the task next runs,  *)
(* and reaches first into the task being awaited.                          *)
(*                                                                         *)
(* Every event of the STT stream has the number of its arrival, and a turn *)
(* has the number of the final transcript that started it.  MaxEvents and  *)
(* MaxQueue are the bounds: on the events of a session and on those that   *)
(* wait for the orchestrator.                                              *)
(***************************************************************************)
EXTENDS Naturals, Sequences

CONSTANTS
  MaxEvents,            \* how many events the STT stream yields at most
  MaxQueue,             \* how many events may wait in the queue (the code sets no limit)
  Kinds,                \* the kinds of events it yields
  BackendMayMisbehave   \* may a /chat answer make think() raise anything but BackendChatError?

ASSUME ConverseAssumption ==
  /\ MaxEvents \in Nat /\ MaxQueue \in Nat
  /\ Kinds \subseteq {"speech_start", "final", "final_low", "error", "other"}
  /\ BackendMayMisbehave \in BOOLEAN

Turns  == 1..MaxEvents
NoTurn == 0
Refs   == Turns \cup {NoTurn}

VARIABLES
  phase,        \* duplex.state.phase
  regTurn,      \* duplex._turn_task
  regThink,     \* duplex._task_agent_task, named by its turn
  regSpeak,     \* duplex._tts_task, named by its turn
  orch,         \* where the orchestrator (converse_ws itself) is suspended
  queue,        \* event_queue
  arrived,      \* events the STT stream has yielded
  sttPump,      \* the stt_pump task
  turnTask,     \* converse_ws's own turn_task: the turn started last
  turn,         \* turn[t]: where run_turn of turn t is suspended
  mustCancel,   \* mustCancel[t]: turn t's task was cancelled and has not run since
  think,        \* think[t]: turn t's think task
  speak,        \* speak[t]: turn t's speak task
  pending,      \* pending_confirmation_token, named by the turn whose reply carried it
  forwarded,    \* the token in the /chat request that is in flight
  peer,         \* is the client still connected?
  last          \* last[t]: the last message about turn t put on the wire

regVars    == <<regTurn, regThink, regSpeak>>
duplexVars == <<phase, regVars>>
tokenVars  == <<pending, forwarded>>
turnVars   == <<turn, mustCancel, think, speak>>
turnsVars  == <<turnVars, tokenVars, last>>   \* everything only the tasks of a turn change
queueVars  == <<queue, arrived, sttPump>>
vars == <<duplexVars, orch, queueVars, turnTask, turnVars, tokenVars, peer, last>>

Message ==
  {"nothing", "transcript_final", "error", "assistant_text", "audio", "text_only_fallback",
   "turn_complete", "barge_in_detected"}

Event  == [kind : Kinds \cup {"error", "ended"}, n : Refs]
Phases == {"LISTENING", "THINKING", "SPEAKING"}

(* A turn owns the session from its creation until finish_turn. *)
Owning == {"created", "thinking", "sendError", "sendText", "speaking"}
Over   == {"completed", "cancelled", "failed"}
Live   == Owning \cup {"sendComplete"}

Running == {"ready", "live", "cancelling"}         \* a think or speak task that is not done
Replies == {"plain", "confirm"}                    \* /chat answered; "confirm" asks for a confirmation
Settled == Replies \cup {"ok", "error", "raised", "cancelled", "consumed"}  \* ... and one that is done

Barging  == {"bargeTurn", "bargeThink", "bargeSpeak"}
Closing  == {"awaitStt", "awaitTurn", "closed"}
OrchAt   == {"get", "sendNote", "sendFinal", "sendBarge"} \cup Barging \cup Closing

IsLive(t)     == t # NoTurn /\ turn[t] \in Live
Thinks(t)     == t # NoTurn /\ think[t] \in Running
Speaks(t)     == t # NoTurn /\ speak[t] \in Running

ConverseInit ==
  /\ phase = "LISTENING"
  /\ regTurn = NoTurn /\ regThink = NoTurn /\ regSpeak = NoTurn
  /\ orch = "get"
  /\ queue = <<>> /\ arrived = 0 /\ sttPump = "streaming"
  /\ turnTask = NoTurn
  /\ turn = [t \in Turns |-> "none"]
  /\ mustCancel = [t \in Turns |-> FALSE]
  /\ think = [t \in Turns |-> "none"]
  /\ speak = [t \in Turns |-> "none"]
  /\ pending = NoTurn /\ forwarded = NoTurn
  /\ peer = "connected"
  /\ last = [t \in Turns |-> "nothing"]

-----------------------------------------------------------------------------
(* The wire.  A send puts its message on the wire while the client is      *)
(* there; afterwards it raises or is lost.                                 *)

OnWire(t, m) ==
  last' = IF peer = "connected" THEN [last EXCEPT ![t] = m] ELSE last

(* A send returns once its message is written, or lost with the client.    *)
NeverAwaited(t, m) == TRUE
Delivered(t, m) == last[t] = m \/ peer = "gone"

Disconnect ==
  /\ peer = "connected"
  /\ peer' = "gone"
  /\ UNCHANGED <<duplexVars, orch, queueVars, turnTask, turnsVars>>

-----------------------------------------------------------------------------
(* task.cancel() on turn t, or on a think or speak task by itself. *)

CancelTurn(t) ==
  IF IsLive(t)
    THEN /\ mustCancel' = [mustCancel EXCEPT ![t] = TRUE]
         /\ think' = [think EXCEPT ![t] =
                        IF turn[t] = "thinking" /\ @ \in Running THEN "cancelling" ELSE @]
         /\ speak' = [speak EXCEPT ![t] =
                        IF turn[t] = "speaking" /\ @ \in Running THEN "cancelling" ELSE @]
    ELSE UNCHANGED <<mustCancel, think, speak>>

(* ... and the await that follows it in _cancel_and_await. *)
JoinsNothing(t) == TRUE
Joined(t) == ~IsLive(t)

(* DuplexSession: the phase flip and register_turn_task as one step,       *)
(* clearing what was registered, and finish_turn.                          *)
ClaimUnregistered(t) == phase' = "THINKING" /\ turnTask' = t /\ UNCHANGED regTurn
ClaimLate(t) == UNCHANGED phase /\ turnTask' = t /\ regTurn' = t
Claim(t) == phase' = "THINKING" /\ turnTask' = t /\ regTurn' = t

UnregisterTasks == UNCHANGED regTurn /\ regThink' = NoTurn /\ regSpeak' = NoTurn
Unregister == regTurn' = NoTurn /\ regThink' = NoTurn /\ regSpeak' = NoTurn

FinishIdle == Unregister /\ phase' = "IDLE"
FinishSpeaking == Unregister /\ UNCHANGED phase
Finish == Unregister /\ phase' = "LISTENING"

-----------------------------------------------------------------------------
(* stt_pump *)

Emit(k) ==
  /\ sttPump = "streaming"
  /\ arrived < MaxEvents /\ Len(queue) < MaxQueue
  /\ arrived' = arrived + 1
  /\ queue' = Append(queue, [kind |-> k, n |-> arrived + 1])
  /\ UNCHANGED <<duplexVars, orch, sttPump, turnTask, peer, turnsVars>>

(* The marker that ends the orchestrator's loop. *)
NoMarker == <<>>
EndMarker == <<[kind |-> "ended", n |-> NoTurn]>>

(* The stream ends (client gone or idle, audio over) or raises.  The puts  *)
(* that follow never suspend: the queue is unbounded.                      *)
PumpEnds ==
  /\ sttPump = "streaming"
  /\ sttPump' = "over"
  /\ \E failure \in {<<>>, <<[kind |-> "error", n |-> NoTurn]>>} :
       queue' = queue \o failure \o EndMarker
  /\ UNCHANGED <<duplexVars, orch, arrived, turnTask, peer, turnsVars>>

PumpCancelled ==
  /\ sttPump = "cancelling"
  /\ sttPump' = "over"
  /\ UNCHANGED <<duplexVars, orch, queue, arrived, turnTask, peer, turnsVars>>

-----------------------------------------------------------------------------
(* The orchestrator loop *)

Getting(k) == orch = "get" /\ queue # <<>> /\ Head(queue).kind = k

(* Leaving the loop runs the finally block, which cancels stt_pump first. *)
LeaveLoop ==
  /\ orch' = "awaitStt"
  /\ sttPump' = IF sttPump = "streaming" THEN "cancelling" ELSE sttPump

OrchEnded ==
  /\ Getting("ended")
  /\ queue' = Tail(queue)
  /\ LeaveLoop
  /\ UNCHANGED <<duplexVars, arrived, turnTask, peer, turnsVars>>

(* handle_vad_speech_start up to its first await: barge_in() re-enters     *)
(* LISTENING whatever the phase was; an idle session has nothing to do.    *)
SpeechStart ==
  /\ Getting("speech_start")
  /\ queue' = Tail(queue)
  /\ phase' = "LISTENING"
  /\ IF phase = "LISTENING"
       THEN UNCHANGED <<orch, mustCancel, think, speak>>
       ELSE orch' = "bargeTurn" /\ CancelTurn(regTurn)
  /\ UNCHANGED <<regVars, arrived, sttPump, turnTask, turn, tokenVars, peer, last>>

BargeThink ==
  /\ orch = "bargeTurn"
  /\ Joined(regTurn)
  /\ orch' = "bargeThink"
  /\ think' = IF Thinks(regThink) THEN [think EXCEPT ![regThink] = "cancelling"] ELSE think
  /\ UNCHANGED <<duplexVars, queueVars, turnTask, turn, mustCancel, speak, tokenVars, peer, last>>

BargeSpeak ==
  /\ orch = "bargeThink"
  /\ ~Thinks(regThink)
  /\ orch' = "bargeSpeak"
  /\ speak' = IF Speaks(regSpeak) THEN [speak EXCEPT ![regSpeak] = "cancelling"] ELSE speak
  /\ UNCHANGED <<duplexVars, queueVars, turnTask, turn, mustCancel, think, tokenVars, peer, last>>

BargeDone ==
  /\ orch = "bargeSpeak"
  /\ ~Speaks(regSpeak)
  /\ orch' = "sendBarge"
  /\ Unregister
  /\ UNCHANGED <<phase, queueVars, turnTask, peer, turnsVars>>

SendBarge ==
  /\ orch = "sendBarge"
  /\ orch' = "get"
  /\ OnWire(turnTask, "barge_in_detected")
  /\ UNCHANGED <<duplexVars, queueVars, turnTask, turnVars, tokenVars, peer>>

(* Partial transcripts and other signals, and a final transcript that      *)
(* arrives while the session is not LISTENING, are dropped.                *)
DropEvent ==
  /\ \/ Getting("other")
     \/ Getting("final") /\ phase # "LISTENING"
     \/ Getting("final_low") /\ phase # "LISTENING"
  /\ queue' = Tail(queue)
  /\ UNCHANGED <<duplexVars, orch, arrived, sttPump, turnTask, peer, turnsVars>>

(* An error event is passed on, a low-confidence final is answered with    *)
(* "clarify"; neither touches a turn.                                      *)
BeginNote ==
  /\ Getting("error") \/ (Getting("final_low") /\ phase = "LISTENING")
  /\ queue' = Tail(queue)
  /\ orch' = "sendNote"
  /\ UNCHANGED <<duplexVars, arrived, sttPump, turnTask, peer, turnsVars>>

SendNote ==
  /\ orch = "sendNote"
  /\ orch' = "get"
  /\ UNCHANGED <<duplexVars, queueVars, turnTask, peer, turnsVars>>

(* The event stays at the head of the queue while transcript_final is      *)
(* being sent: only the orchestrator takes events, so nothing overtakes it.*)
BeginFinal ==
  /\ Getting("final")
  /\ phase = "LISTENING"
  /\ orch' = "sendFinal"
  /\ UNCHANGED <<duplexVars, queueVars, turnTask, peer, turnsVars>>

(* transcript_final is sent; the phase flips, the turn task is created and *)
(* registered before the orchestrator suspends again.                      *)
StartTurn ==
  /\ orch = "sendFinal"
  /\ LET t == Head(queue).n IN
       /\ OnWire(t, "transcript_final")
       /\ turn' = [turn EXCEPT ![t] = "created"]
       /\ Claim(t)
  /\ queue' = Tail(queue)
  /\ orch' = "get"
  /\ UNCHANGED <<regThink, regSpeak, arrived, sttPump, mustCancel, think, speak, tokenVars, peer>>

(* A send of the orchestrator raises. *)
OrchSendFails ==
  /\ orch \in {"sendNote", "sendFinal", "sendBarge"}
  /\ peer = "gone"
  /\ LeaveLoop
  /\ UNCHANGED <<duplexVars, queue, arrived, turnTask, peer, turnsVars>>

(* The finally block, once stt_pump is over: cancel and await turn_task. *)
CloseTurn ==
  /\ orch = "awaitStt"
  /\ sttPump = "over"
  /\ orch' = "awaitTurn"
  /\ CancelTurn(turnTask)
  /\ UNCHANGED <<duplexVars, queueVars, turnTask, turn, tokenVars, peer, last>>

CloseSocket ==
  /\ orch = "awaitTurn"
  /\ Joined(turnTask)
  /\ orch' = "closed"
  /\ peer' = "gone"
  /\ UNCHANGED <<duplexVars, queueVars, turnTask, turnsVars>>

Orchestrator ==
  \/ OrchEnded \/ SpeechStart \/ BargeThink \/ BargeSpeak \/ BargeDone \/ SendBarge
  \/ DropEvent \/ BeginNote \/ SendNote \/ BeginFinal \/ StartTurn \/ OrchSendFails
  \/ CloseTurn \/ CloseSocket

-----------------------------------------------------------------------------
(* run_turn *)

RunTurnFrame ==
  UNCHANGED <<orch, queueVars, turnTask, forwarded, peer>>

(* A cancelled task runs: CancelledError is raised at its await.  A task   *)
(* that is awaiting think or speak runs only once that task is done.       *)
TurnCancelled(t) ==
  /\ mustCancel[t] /\ turn[t] \in Live
  /\ ~Thinks(t) /\ ~Speaks(t)
  /\ mustCancel' = [mustCancel EXCEPT ![t] = FALSE]
  /\ turn' = [turn EXCEPT ![t] = IF @ = "sendComplete" THEN "completed" ELSE "cancelled"]
  /\ UNCHANGED <<duplexVars, think, speak, pending, last>>
  /\ RunTurnFrame

StartThinking(t) ==
  /\ turn[t] = "created" /\ ~mustCancel[t]
  /\ turn' = [turn EXCEPT ![t] = "thinking"]
  /\ think' = [think EXCEPT ![t] = "ready"]
  /\ phase' = "THINKING"
  /\ regThink' = t
  /\ UNCHANGED <<regTurn, regSpeak, mustCancel, speak, pending, last>>
  /\ RunTurnFrame

(* The reply is adopted, its token with it: none, most of the time. *)
AdoptNew(t) == pending' = IF think[t] = "confirm" THEN t ELSE pending
Adopt(t) == pending' = IF think[t] = "confirm" THEN t ELSE NoTurn

ThinkReturned(t) ==
  /\ turn[t] = "thinking" /\ ~mustCancel[t] /\ think[t] \in Replies
  /\ turn' = [turn EXCEPT ![t] = "sendText"]
  /\ think' = [think EXCEPT ![t] = "consumed"]
  /\ Adopt(t)
  /\ UNCHANGED <<duplexVars, mustCancel, speak, last>>
  /\ RunTurnFrame

ThinkFailed(t) ==
  /\ turn[t] = "thinking" /\ ~mustCancel[t] /\ think[t] = "error"
  /\ turn' = [turn EXCEPT ![t] = "sendError"]
  /\ think' = [think EXCEPT ![t] = "consumed"]
  /\ UNCHANGED <<duplexVars, mustCancel, speak, pending, last>>
  /\ RunTurnFrame

(* Any other exception of the awaited task ends the turn's task. *)
TurnDies(t) ==
  /\ ~mustCancel[t]
  /\ \/ turn[t] = "thinking" /\ think[t] \in {"raised", "cancelled"}
     \/ turn[t] = "speaking" /\ speak[t] \in {"raised", "cancelled"}
  /\ turn' = [turn EXCEPT ![t] = IF "cancelled" \in {think[t], speak[t]} THEN "cancelled" ELSE "failed"]
  /\ UNCHANGED <<duplexVars, mustCancel, think, speak, pending, last>>
  /\ RunTurnFrame

SendOf(at) == CASE at = "sendError" -> "error"
                [] at = "sendText" -> "assistant_text"
                [] at = "sendComplete" -> "turn_complete"

Sending == {"sendError", "sendText", "sendComplete"}

(* A send of run_turn writes its message and then may stay suspended. *)
TurnWrites(t) ==
  /\ turn[t] \in Sending
  /\ peer = "connected" /\ SendOf(turn[t]) # last[t]
  /\ OnWire(t, SendOf(turn[t]))
  /\ UNCHANGED <<duplexVars, turnVars, pending>>
  /\ RunTurnFrame

TurnSendFails(t) ==
  /\ turn[t] \in Sending /\ ~mustCancel[t]
  /\ peer = "gone"
  /\ turn' = [turn EXCEPT ![t] = IF @ = "sendComplete" THEN "completed" ELSE "failed"]
  /\ UNCHANGED <<duplexVars, mustCancel, think, speak, pending, last>>
  /\ RunTurnFrame

(* The apology replaces the reply: it carries no token. *)
ForgetToken == pending' = NoTurn

ErrorSent(t) ==
  /\ turn[t] = "sendError" /\ ~mustCancel[t]
  /\ Delivered(t, "error")
  /\ turn' = [turn EXCEPT ![t] = "sendText"]
  /\ ForgetToken
  /\ UNCHANGED <<duplexVars, mustCancel, think, speak, last>>
  /\ RunTurnFrame

StartSpeaking(t) ==
  /\ turn[t] = "sendText" /\ ~mustCancel[t]
  /\ Delivered(t, "assistant_text")
  /\ turn' = [turn EXCEPT ![t] = "speaking"]
  /\ speak' = [speak EXCEPT ![t] = "live"]
  /\ phase' = "SPEAKING"
  /\ regSpeak' = t
  /\ UNCHANGED <<regTurn, regThink, mustCancel, think, pending, last>>
  /\ RunTurnFrame

FinishTurn(t) ==
  /\ turn[t] = "speaking" /\ ~mustCancel[t] /\ speak[t] = "ok"
  /\ turn' = [turn EXCEPT ![t] = "sendComplete"]
  /\ speak' = [speak EXCEPT ![t] = "consumed"]
  /\ Finish
  /\ UNCHANGED <<mustCancel, think, pending, last>>
  /\ RunTurnFrame

TurnCompleteSent(t) ==
  /\ turn[t] = "sendComplete" /\ ~mustCancel[t]
  /\ Delivered(t, "turn_complete")
  /\ turn' = [turn EXCEPT ![t] = "completed"]
  /\ UNCHANGED <<duplexVars, mustCancel, think, speak, pending, last>>
  /\ RunTurnFrame

RunTurn(t) ==
  \/ TurnCancelled(t) \/ StartThinking(t) \/ ThinkReturned(t) \/ ThinkFailed(t) \/ TurnDies(t)
  \/ TurnWrites(t) \/ TurnSendFails(t) \/ ErrorSent(t) \/ StartSpeaking(t) \/ FinishTurn(t)
  \/ TurnCompleteSent(t)

-----------------------------------------------------------------------------
(* think: the token is read when the task first runs. *)

ThinkFrame ==
  UNCHANGED <<duplexVars, orch, queueVars, turnTask, turn, mustCancel, speak, pending, peer, last>>

ThinkStarts(t) ==
  /\ think[t] = "ready"
  /\ think' = [think EXCEPT ![t] = "live"]
  /\ forwarded' = pending
  /\ ThinkFrame

ThinkEnds(t) ==
  /\ \/ /\ think[t] = "live"
        /\ \E how \in Replies \cup {"error"} \cup (IF BackendMayMisbehave THEN {"raised"} ELSE {}) :
             think' = [think EXCEPT ![t] = how]
     \/ /\ think[t] = "cancelling"
        /\ think' = [think EXCEPT ![t] = "cancelled"]
  /\ forwarded' = NoTurn
  /\ ThinkFrame

-----------------------------------------------------------------------------
(* speak: the TTS retry policy turns every TTS failure into a text-only    *)
(* notice, so speak raises only when a send to the client does.            *)

SpeakFrame ==
  UNCHANGED <<duplexVars, orch, queueVars, turnTask, turn, mustCancel, think, tokenVars, peer>>

SpeakAudio(t) ==
  /\ speak[t] = "live"
  /\ OnWire(t, "audio")
  /\ UNCHANGED speak
  /\ SpeakFrame

SpeakEnds(t) ==
  /\ SpeakFrame
  /\ \/ /\ speak[t] = "live"
        /\ speak' = [speak EXCEPT ![t] = "ok"]
        /\ UNCHANGED last \/ OnWire(t, "text_only_fallback")
     \/ /\ speak[t] = "live" /\ peer = "gone"
        /\ speak' = [speak EXCEPT ![t] = "raised"]
        /\ UNCHANGED last
     \/ /\ speak[t] = "cancelling"
        /\ speak' = [speak EXCEPT ![t] = "cancelled"]
        /\ UNCHANGED last

-----------------------------------------------------------------------------
(* A session that has closed its socket and whose tasks are over stops. *)
Terminated ==
  /\ orch = "closed"
  /\ \A t \in Turns : turn[t] \notin Live
  /\ UNCHANGED vars

ConverseNext ==
  \/ \E k \in Kinds : Emit(k)
  \/ PumpEnds \/ PumpCancelled
  \/ Disconnect
  \/ Orchestrator
  \/ \E t \in Turns : \/ RunTurn(t)
                      \/ ThinkStarts(t) \/ ThinkEnds(t)
                      \/ SpeakAudio(t) \/ SpeakEnds(t)
  \/ Terminated

ConverseSpec == ConverseInit /\ [][ConverseNext]_vars

(* The event loop goes on as long as a task is ready; /chat calls have a   *)
(* timeout and two attempts, a synthesis has two attempts of finite audio; *)
(* the STT stream ends once the client is gone or the pump is cancelled.   *)
(* Nothing makes the user speak or stay.                                   *)
TasksGoOn ==
  \/ Orchestrator \/ PumpCancelled \/ (peer = "gone" /\ PumpEnds)
  \/ \E t \in Turns : RunTurn(t) \/ ThinkStarts(t) \/ ThinkEnds(t) \/ SpeakEnds(t)

ConverseFairSpec == ConverseSpec /\ WF_vars(TasksGoOn)

-----------------------------------------------------------------------------
(* Properties *)

TypeOK ==
  /\ phase \in Phases
  /\ regTurn \in Refs /\ regThink \in Refs /\ regSpeak \in Refs
  /\ orch \in OrchAt
  /\ queue \in Seq(Event)
  /\ arrived \in 0..MaxEvents
  /\ sttPump \in {"streaming", "cancelling", "over"}
  /\ turnTask \in Refs
  /\ turn \in [Turns -> Live \cup Over \cup {"none"}]
  /\ mustCancel \in [Turns -> BOOLEAN]
  /\ think \in [Turns -> Running \cup Settled \cup {"none"}]
  /\ speak \in [Turns -> Running \cup Settled \cup {"none"}]
  /\ pending \in Refs /\ forwarded \in Refs
  /\ peer \in {"connected", "gone"}
  /\ last \in [Turns -> Message]

(* What keeps the tasks of a session together, step by step: the invariant *)
(* behind the theorems of ConverseProofs.                                  *)

(* The owner is the turn started last and the one DuplexSession would      *)
(* cancel, and a cancellation is waited for where it was asked for.        *)
OwnerInv ==
  /\ regTurn # NoTurn => regTurn = turnTask /\ turn[regTurn] \in Owning \cup {"cancelled", "failed"}
  /\ \A t \in Turns :
       /\ turn[t] \in Owning =>
            /\ t = turnTask /\ t = regTurn
            /\ orch \in {"get", "sendNote", "awaitStt", "bargeTurn", "awaitTurn"}
            /\ orch # "bargeTurn" => phase # "LISTENING"
            /\ orch \in {"bargeTurn", "awaitTurn"} => mustCancel[t]
       /\ mustCancel[t] =>
            t = turnTask /\ turn[t] \in Live /\ orch \in {"bargeTurn", "awaitTurn"}

(* A think or speak task runs only under a turn that is awaiting it.       *)
TaskInv ==
  \A t \in Turns :
    /\ think[t] \in Running => turn[t] = "thinking"
    /\ speak[t] \in Running => turn[t] = "speaking"
    /\ turn[t] = "thinking" /\ think[t] \in {"cancelling", "cancelled"} => mustCancel[t]
    /\ turn[t] = "speaking" /\ speak[t] \in {"cancelling", "cancelled"} => mustCancel[t]

(* What a phase other than LISTENING, or a barge-in, says about the turn.  *)
BargeInv ==
  /\ phase # "LISTENING" \/ orch \in Barging \cup {"sendBarge"} =>
       turnTask # NoTurn /\ turn[turnTask] \in Owning \cup {"cancelled", "failed"}
  /\ orch \in Barging \cup {"sendBarge", "sendFinal"} => phase = "LISTENING"

(* The turns still to come wait in the queue in the order of arrival.      *)
QueueInv ==
  /\ turnTask <= arrived
  /\ \A t \in Turns : t > turnTask => turn[t] = "none"
  /\ \A i \in 1..Len(queue) :
       /\ queue[i].kind = "final" => queue[i].n # NoTurn
       /\ queue[i].n # NoTurn => queue[i].n > turnTask /\ queue[i].n <= arrived
       /\ \A j \in 1..Len(queue) :
            i < j /\ queue[i].n # NoTurn /\ queue[j].n # NoTurn => queue[i].n < queue[j].n
  /\ orch = "sendFinal" => queue # <<>> /\ Head(queue).kind = "final"

WireInv ==
  \A t \in Turns : speak[t] = "live" => last[t] \in {"assistant_text", "audio"} \/ peer = "gone"

StopInv ==
  /\ orch = "awaitStt" => sttPump # "streaming"
  /\ orch \in {"awaitTurn", "closed"} => sttPump = "over"
  /\ orch = "closed" => ~IsLive(turnTask)

Inv == TypeOK /\ OwnerInv /\ TaskInv /\ BargeInv /\ QueueInv /\ WireInv /\ StopInv

(* The token that is kept came with the answer adopted last, and is the    *)
(* one in flight: the invariant behind TokenFromLastAnswer.                *)
Answer == {"assistant_text", "audio", "text_only_fallback", "turn_complete"}

TokenInv ==
  /\ pending <= turnTask
  /\ \A t \in Turns :
       /\ turn[t] \in {"created", "thinking", "sendError"} => pending < t
       /\ turn[t] \in {"none", "created", "thinking", "sendError"} => last[t] \notin Answer
       /\ last[t] \in Answer \/ turn[t] \in {"sendText", "speaking", "sendComplete"} =>
            pending = NoTurn \/ pending >= t
  /\ forwarded # NoTurn =>
       /\ forwarded = pending
       /\ \E t \in Turns : think[t] \in {"live", "cancelling"}

(* While the session is LISTENING and no barge-in is still cancelling,     *)
(* nothing of any turn is thinking or speaking: the gap closed by          *)
(* registering the turn task with the phase flip (duplex_session.py:30-46, *)
(* main.py:697-715).                                                       *)
ListeningIsQuiet ==
  phase = "LISTENING" /\ orch # "bargeTurn" =>
    \A t \in Turns : turn[t] \notin Owning /\ ~Thinks(t) /\ ~Speaks(t)

(* The confirmation token that goes out came with the answer adopted last: *)
(* no later answer reached the client in between (main.py:521-524).  Not   *)
(* that it goes out once: turns that are interrupted or die before their   *)
(* own answer leave it pending, and the turn after them sends it again, so *)
(* it need not be "whatever the PREVIOUS turn's" was                       *)
(* (backend_client.py:76-77).                                              *)
TokenFromLastAnswer ==
  forwarded # NoTurn =>
    \A t \in Turns :
      /\ think[t] \in {"live", "cancelling"} => forwarded < t
      /\ t > forwarded => last[t] \notin Answer

(* When converse_ws closes the socket, it listens no more and no task of   *)
(* it thinks or speaks.  The only turn that may not be over is one before  *)
(* the last, in its closing send, which nobody waits for                   *)
(* (main.py:666, 719-729).                                                 *)
CloseLeavesNoWork ==
  orch = "closed" =>
    /\ sttPump = "over"
    /\ \A t \in Turns :
         /\ ~Thinks(t) /\ ~Speaks(t)
         /\ turn[t] \in Live => turn[t] = "sendComplete" /\ t < turnTask

(* A final transcript is ignored only while a turn owns the session, or    *)
(* after a turn task that died of an exception, which leaves the phase as  *)
(* it was (main.py:613-666, 688-689): short of that, a user is never       *)
(* unheard in a session with nothing to do.                                *)
DroppedOnlyWhileBusy ==
  [][ Getting("final") /\ Len(queue') < Len(queue) /\ peer = "connected"
        => \E t \in Turns : turn[t] \in Owning \/ (t = turnTask /\ turn[t] = "failed") ]_vars

(* The session implements TurnTaking: one turn at a time, in the order of  *)
(* the utterances, and a turn that was cut off stays silent.               *)
StatusOf(at) == CASE at = "none" -> "unheard"
                  [] at \in Owning -> "open"
                  [] at \in {"sendComplete", "completed"} -> "completed"
                  [] at \in {"cancelled", "failed"} -> "cut"

TurnStatus == [t \in Turns |-> StatusOf(turn[t])]

TT == INSTANCE TurnTaking WITH status <- TurnStatus

ImplementsTurnTaking == TT!Spec

Told(t, how) == last[t] \in how \/ peer = "gone" \/ orch \in Closing

(* Every turn the session starts is completed or interrupted and the       *)
(* client is told, while the session lasts, or its task dies of an         *)
(* exception that run_turn does not catch (main.py:618-666).  A turn       *)
(* starts once, so that in the end none is left.                           *)
EveryTurnConcludes ==
  <>[](\A t \in Turns :
         turn[t] \in {"none", "failed"} \/ Told(t, {"turn_complete", "barge_in_detected"}))

(* A session whose client is gone ends, with everything it started.        *)
SessionEnds ==
  <>[](peer = "gone" => orch = "closed" /\ \A t \in Turns : turn[t] \notin Live)
=============================================================================
