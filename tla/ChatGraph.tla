------------------------------ MODULE ChatGraph ------------------------------
(***************************************************************************)
(* POST /chat (api/main.py) over the conversation graph of                 *)
(* supervisor/graph.py, as its caller uses it: the gateway relays one      *)
(* utterance at a time (speech_gateway/backend_client.py), asks again when *)
(* an answer is lost, and goes on to the next utterance when the user      *)
(* interrupts.  What it gave up runs on in the backend, so that the calls  *)
(* of one thread overlap; /chat takes no lock.                             *)
(*                                                                         *)
(* A call is an utterance and an attempt, and stands for the turn it       *)
(* leaves in the history.  The graph library loads the thread's latest     *)
(* checkpoint when a call starts, and saves the state of the call as the   *)
(* latest after each node.                                                 *)
(***************************************************************************)
EXTENDS Naturals, Sequences, FiniteSets, SequencesExt

CONSTANTS
  MaxUtterances,   \* bound: what the user says
  MaxCalls,        \* bound: the calls of all utterances
  Settings,        \* the pairs <<calm, conversation>> to explore
  Keep,            \* turns a history keeps: half of _MAX_HISTORY_MESSAGES
  MaxRestarts      \* bound: restarts of the backend

ASSUME ChatGraphAssumption ==
  /\ MaxUtterances \in Nat /\ MaxCalls \in Nat /\ MaxRestarts \in Nat
  /\ Settings \subseteq BOOLEAN \X {"off", "owned", "foreign"}
  /\ Keep \in Nat \ {0}

MaxAttempts == 2   \* _MAX_ATTEMPTS
Calls == (1..MaxUtterances) \X (1..MaxAttempts)

VARIABLES
  calm,            \* no answer is lost: no time-out, interruption or failure of the table
  conversation,    \* "off" (no persistence), "owned" by the caller or "foreign"
  asked,           \* the utterance the gateway asks about
  think,           \* think(): "idle", "waiting", "pausing"
  attempt,
  lostAnswer,      \* the utterances that were asked again after a call that may have been answered
  stage,           \* stage[k] of the graph: none, sent, detecting, clarifying, think, ended, dead
  channels,        \* channels[k]: the state the call works on
  result,          \* result[k]: "none", or what its graph ended with
  reply,           \* reply[k]: what the endpoint answered
  recorded,        \* the calls whose record_turn was started (module ChatStore)
  checkpoint,      \* the latest checkpoint of the thread
  safe,            \* the turns that no other call of the thread overlapped
  restarts

callerVars == <<asked, think, attempt, lostAnswer>>
graphVars == <<stage, channels, result, checkpoint, safe>>
endpointVars == <<reply, recorded>>
chatVars == <<calm, conversation, callerVars, graphVars, endpointVars, restarts>>

NoReply == [status |-> 0, says |-> "none", error |-> FALSE]
Fresh == [history |-> <<>>, error |-> FALSE]

GraphInit ==
  /\ \E s \in Settings : calm = s[1] /\ conversation = s[2]
  /\ asked = 0 /\ think = "idle" /\ attempt = 0 /\ lostAnswer = {}
  /\ stage = [k \in Calls |-> "none"]
  /\ channels = [k \in Calls |-> Fresh]
  /\ result = [k \in Calls |-> "none"]
  /\ reply = [k \in Calls |-> NoReply]
  /\ recorded = {} /\ checkpoint = Fresh /\ safe = {} /\ restarts = 0

Current == <<asked, attempt>>

-----------------------------------------------------------------------------
(* The gateway: call_backend_chat *)

Post(k) == stage' = [stage EXCEPT ![k] = "sent"]

Ask ==
  /\ think = "idle" /\ asked < MaxUtterances
  /\ Cardinality({k \in Calls : stage[k] # "none"}) + MaxAttempts <= MaxCalls
  /\ asked' = asked + 1 /\ attempt' = 1 /\ think' = "waiting"
  /\ Post(<<asked + 1, 1>>)
  /\ UNCHANGED <<calm, conversation, lostAnswer, channels, result, checkpoint, safe, endpointVars, restarts>>

(* A failed attempt is made again once, after a pause. *)
TryAgain == think' = IF attempt < MaxAttempts THEN "pausing" ELSE "idle"

StatusRetriable(status) == status \in {429, 500}
AnyStatus(status) == status # 200
Retried(status) == StatusRetriable(status)

GetReply ==
  /\ think = "waiting" /\ reply[Current] # NoReply
  /\ IF Retried(reply[Current].status) THEN TryAgain ELSE think' = "idle"
  /\ UNCHANGED <<calm, conversation, asked, attempt, lostAnswer, graphVars, endpointVars, restarts>>

(* A time-out or a broken connection; the backend knows nothing of it.     *)
NoTimeOut == FALSE
AnswerLost == ~calm \/ stage[Current] = "dead"
LoseAnswer ==
  /\ think = "waiting" /\ AnswerLost
  /\ TryAgain
  /\ lostAnswer' = lostAnswer \cup {asked}
  /\ UNCHANGED <<calm, conversation, asked, attempt, graphVars, endpointVars, restarts>>

Retry ==
  /\ think = "pausing"
  /\ attempt' = attempt + 1 /\ think' = "waiting"
  /\ Post(<<asked, attempt + 1>>)
  /\ UNCHANGED <<calm, conversation, asked, lostAnswer, channels, result, checkpoint, safe, endpointVars, restarts>>

(* The user barges in: think() is cancelled. *)
Interrupt ==
  /\ ~calm /\ think \in {"waiting", "pausing"}
  /\ think' = "idle"
  /\ UNCHANGED <<calm, conversation, asked, attempt, lostAnswer, graphVars, endpointVars, restarts>>

-----------------------------------------------------------------------------
(* The graph *)

InGraph(k) == stage[k] \in {"detecting", "clarifying", "thinking"}
OtherCalls(k) == {j \in Calls \ {k} : InGraph(j)}

(* graph.ainvoke loads the state of the thread and saves the new message   *)
(* with it.                                                                *)
Loaded == checkpoint
Start(k) ==
  /\ stage[k] = "sent"
  /\ stage' = [stage EXCEPT ![k] = "detecting"]
  /\ channels' = [channels EXCEPT ![k] = Loaded]
  /\ checkpoint' = Loaded
  /\ safe' = IF OtherCalls(k) = {} THEN safe \cup {k} ELSE safe \ OtherCalls(k)
  /\ UNCHANGED <<calm, conversation, callerVars, result, endpointVars, restarts>>

(* A node ends: its update is saved with all that the call has loaded.     *)
Save(k, state) ==
  /\ channels' = [channels EXCEPT ![k] = state]
  /\ checkpoint' = state

(* language_agent_node and route_after_language *)
Detect(k) ==
  /\ stage[k] = "detecting"
  /\ \E next \in {"clarifying", "thinking"} : stage' = [stage EXCEPT ![k] = next]
  /\ Save(k, channels[k])
  /\ UNCHANGED <<calm, conversation, callerVars, result, safe, endpointVars, restarts>>

NodeEnds(k, how) ==
  /\ stage' = [stage EXCEPT ![k] = "ended"]
  /\ result' = [result EXCEPT ![k] = how]
  /\ UNCHANGED <<calm, conversation, callerVars, safe, endpointVars, restarts>>

(* clarify_node updates neither history nor error. *)
Clarify(k) ==
  /\ stage[k] = "clarifying"
  /\ NodeEnds(k, "question")
  /\ Save(k, channels[k])

LatestTurns(h) == IF Len(h) > Keep THEN SubSeq(h, Len(h) - Keep + 1, Len(h)) ELSE h
RememberAtFront(h, k, how) == IF how = "apology" THEN h ELSE LatestTurns(<<k>> \o h)
Remember(h, k, how) == IF how = "apology" THEN h ELSE LatestTurns(Append(h, k))

(* task_agent_node: run_turn answers or apologises, or raises what nobody  *)
(* catches.                                                                *)
Think(k) ==
  /\ stage[k] = "thinking"
  /\ \/ \E how \in {"answer", "apology"} :
          /\ NodeEnds(k, how)
          /\ Save(k, [history |-> Remember(channels[k].history, k, how), error |-> how = "apology"])
     \/ NodeEnds(k, "raised") /\ UNCHANGED <<channels, checkpoint>>

-----------------------------------------------------------------------------
(* _chat_impl around it *)

Persisting == conversation # "off"

Answered(k, status, says, error) == reply' = [reply EXCEPT ![k] = [status |-> status, says |-> says, error |-> error]]

EveryTurn(k) == Persisting
Recorded(k) == Persisting /\ ~channels[k].error

(* get_conversation runs along with the graph; if it raises, that is the   *)
(* answer while the graph goes on.                                         *)
Respond(k) ==
  /\ reply[k] = NoReply /\ stage[k] # "dead"
  /\ \/ /\ Persisting /\ ~calm /\ (InGraph(k) \/ stage[k] = "ended")
        /\ Answered(k, 500, "none", FALSE) /\ UNCHANGED <<recorded, channels>>
     \/ /\ stage[k] = "ended"
        /\ CASE result[k] = "raised" -> Answered(k, 500, "none", FALSE)
             [] result[k] # "raised" /\ conversation = "foreign" -> Answered(k, 404, "none", FALSE)
             [] OTHER -> Answered(k, 200, result[k], channels[k].error)
        /\ recorded' = recorded \cup {j \in {k} : result[k] # "raised" /\ conversation # "foreign" /\ Recorded(k)}
        /\ channels' = [channels EXCEPT ![k] = Fresh]
  /\ UNCHANGED <<calm, conversation, callerVars, stage, result, checkpoint, safe, restarts>>

(* Checkpoints and calls are in the memory of the process.                 *)
Restart ==
  /\ restarts < MaxRestarts
  /\ restarts' = restarts + 1
  /\ stage' = [k \in Calls |-> IF stage[k] # "none" /\ reply[k] = NoReply THEN "dead" ELSE stage[k]]
  /\ checkpoint' = Fresh /\ safe' = {}
  /\ channels' = [k \in Calls |-> Fresh]
  /\ UNCHANGED <<calm, conversation, callerVars, result, endpointVars>>

-----------------------------------------------------------------------------
Caller == Ask \/ GetReply \/ LoseAnswer \/ Retry
Graph(k) == Start(k) \/ Detect(k) \/ Clarify(k) \/ Think(k)
GraphNext == Caller \/ Interrupt \/ Restart \/ \E k \in Calls : Graph(k) \/ Respond(k)

(* Requests have time-outs and the task of the call that is waited for     *)
(* runs.                                                                   *)
GraphGoesOn ==
  /\ think # "idle"
  /\ GetReply \/ LoseAnswer \/ Retry \/ Graph(Current) \/ Respond(Current)
GraphSpec == GraphInit /\ [][GraphNext]_chatVars /\ WF_chatVars(GraphGoesOn)

-----------------------------------------------------------------------------
TurnsOf(h) == {h[i] : i \in DOMAIN h}

GraphTypeOK ==
  /\ asked \in 0..MaxUtterances /\ attempt \in 0..MaxAttempts /\ think \in {"idle", "waiting", "pausing"}
  /\ \A k \in Calls :
       /\ stage[k] \in {"none", "sent", "detecting", "clarifying", "thinking", "ended", "dead"}
       /\ result[k] \in {"none", "question", "answer", "apology", "raised"}
  /\ Len(checkpoint.history) <= Keep /\ recorded \subseteq Calls

(* What the model is shown of the conversation is real: no apology, no     *)
(* question and no turn that broke is in it, and none twice                *)
(* (graph.py:121), whatever calls overlap.                                 *)
RememberedWereAnswers ==
  /\ \A k \in TurnsOf(checkpoint.history) : result[k] = "answer"
  /\ IsInjective(checkpoint.history)

(* What is recorded is what the caller was answered, without a failure, in *)
(* a conversation of its own.                                              *)
RecordedWereAnswers ==
  \A k \in recorded :
    conversation = "owned" /\ reply[k].status = 200 /\ reply[k].says \in {"answer", "question"}

(* A turn is lost to another call only if the two overlapped: the later    *)
(* save has a history without it.  A turn that ran alone stays until it is *)
(* old.                                                                    *)
LostOnlyByOverlap ==
  \A k \in safe : result[k] = "answer" =>
    k \in TurnsOf(checkpoint.history) \/ Len(checkpoint.history) = Keep

(* The two attempts at an utterance both stay only if the first answer was *)
(* lost on the way, or its failure was the table's.                        *)
TwiceOnlyIfLost ==
  \A u \in 1..MaxUtterances :
    /\ \/ {<<u, 1>>, <<u, 2>>} \subseteq TurnsOf(checkpoint.history)
       \/ {<<u, 1>>, <<u, 2>>} \subseteq recorded
    => u \in lostAnswer \/ (reply[<<u, 1>>].status = 500 /\ result[<<u, 1>>] # "raised")

(* The history a caller is answered from and the history on record hold    *)
(* real answers only.                                                      *)
OnlyAnswersKept == GraphTypeOK /\ RememberedWereAnswers /\ RecordedWereAnswers

(* A turn is neither lost nor kept twice but for those causes.             *)
KeptOnce == LostOnlyByOverlap /\ TwiceOnlyIfLost

(* While no answer is lost the checkpoint is the memory that callers       *)
(* expect (ThreadMemory): one turn after the other, each at the end.       *)
Memory == INSTANCE ThreadMemory WITH
  Stores <- {"graph"}, Threads <- {"thread"}, Turns <- Calls,
  memory <- [s \in {"graph"} |-> [t \in {"thread"} |-> IF calm THEN checkpoint.history ELSE <<>>]]
ImplementsThreadMemory == Memory!Spec

(* No utterance waits for ever, whatever the backend does: the gateway is  *)
(* ready for the next one again and again.                                 *)
EveryAskEnds == []<>(think = "idle")

(* `error` says that the response is the apology and not a real answer     *)
(* (main.py:257).                                                          *)
ErrorIsApology == \A k \in Calls : reply[k].status = 200 => (reply[k].error <=> reply[k].says = "apology")
=============================================================================
