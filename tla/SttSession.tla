----------------------------- MODULE SttSession -----------------------------
(***************************************************************************)
(* One connection of /ws/stt (speech_gateway/main.py): frames of a         *)
(* microphone go to the speech service, its events come back.  A stream    *)
(* that breaks is opened again after a growing pause on the same source of *)
(* audio; when the pauses are used up, the audio that was kept is          *)
(* transcribed in one request.                                             *)
(*                                                                         *)
(* A frame is its number, and a transcript is of the frames from one to    *)
(* another; it may be doubtful.  Time is counted in quarters of a second.  *)
(* MaxFrames bounds what the client says, MaxChatter the events of a       *)
(* socket that are no transcript.                                          *)
(***************************************************************************)
EXTENDS Integers, Sequences

CONSTANTS
  MaxFrames,
  MaxChatter,
  BufferFrames,   \* _STT_AUDIO_BUFFER_FRAMES
  MaxBackoff      \* _STT_BACKOFF_MAX_SECONDS, in quarters of a second

VARIABLES
  client,     \* "here" or "gone"
  spoken,     \* frames that reached the gateway
  gen,        \* client_audio: "alive", or why it is finished
  taken,      \* frames it has taken from the client
  held,       \* audio_buffer
  delay, elapsed, attempt,   \* of stt_stream_with_backoff_then_rest; attempt counts
  stage,      \* new, connecting, streaming, failed, pausing, rest, closed
  pump,       \* _pump_audio of the current stream: none, pulling, sending, done
  loop,       \* stream(): off, racing, unwinding (recv_task), again (between waits), bounded
  recvs,      \* calls of ws.recv() in flight on the socket
  conn,       \* the socket to the service: none, open, clean, lost
  got,        \* frames received on it that are in no transcript yet
  chatter,    \* events on it that are no transcript
  wire,       \* its events on the way
  answers,    \* the transcripts the client was sent, or asked about
  via         \* how the transcription ended: "none", "stream", "rest", "error", "left"

clientVars == <<client, spoken>>
sourceVars == <<gen, taken, held>>
policyVars == <<delay, elapsed, attempt, stage, via>>
streamVars == <<pump, loop, recvs>>
serviceVars == <<conn, got, chatter, wire>>
vars == <<clientVars, sourceVars, policyVars, streamVars, serviceVars, answers>>

Init ==
  /\ client = "here" /\ spoken = 0
  /\ gen = "alive" /\ taken = 0 /\ held = <<>>
  /\ delay = 1 /\ elapsed = 0 /\ attempt = 0 /\ stage = "new" /\ via = "none"
  /\ pump = "none" /\ loop = "off" /\ recvs = 0
  /\ conn = "none" /\ got = <<>> /\ chatter = 0 /\ wire = <<>>
  /\ answers = <<>>

-----------------------------------------------------------------------------
(* The client.  A frame that is malformed is answered at once and dropped, *)
(* so only good ones are counted.                                          *)

Talk ==
  /\ stage \notin {"new", "closed"} /\ client = "here" /\ spoken < MaxFrames
  /\ spoken' = spoken + 1
  /\ UNCHANGED <<client, sourceVars, policyVars, streamVars, serviceVars, answers>>

Leave ==
  /\ stage \notin {"new", "closed"} /\ client = "here"
  /\ client' = "gone"
  /\ UNCHANGED <<spoken, sourceVars, policyVars, streamVars, serviceVars, answers>>

-----------------------------------------------------------------------------
(* The policy: stt_stream_with_backoff_then_rest *)

(* The rate limiter or a bad configuration refuses, or the loop begins. *)
Open ==
  /\ stage = "new"
  /\ \/ stage' = "closed" /\ UNCHANGED attempt
     \/ stage' = "connecting" /\ attempt' = 1
  /\ UNCHANGED <<clientVars, sourceVars, delay, elapsed, via, streamVars, serviceVars, answers>>

Connect ==
  /\ stage = "connecting"
  /\ \/ /\ stage' = "streaming" /\ conn' = "open" /\ pump' = "pulling" /\ loop' = "racing" /\ recvs' = 1
     \/ /\ stage' = "failed" /\ conn' = "none" /\ UNCHANGED <<pump, loop, recvs>>
  /\ got' = <<>> /\ chatter' = 0 /\ wire' = <<>>
  /\ UNCHANGED <<clientVars, sourceVars, delay, elapsed, attempt, via, answers>>

Least(a, b) == IF a < b THEN a ELSE b
Doubled == 2 * delay
NextDelay == Least(Doubled, MaxBackoff - (elapsed + delay))
GivesUp == elapsed + delay >= MaxBackoff

(* The failed stream is left: its pump is cancelled, and the cancellation  *)
(* ends the generator it waits for.  The sleep that follows lets it.       *)
Fail ==
  /\ stage = "failed"
  /\ gen' = IF pump = "pulling" /\ gen = "alive" THEN "killed" ELSE gen
  /\ pump' = "none"
  /\ \/ GivesUp /\ stage' = "rest" /\ UNCHANGED <<delay, elapsed>>
     \/ /\ ~GivesUp
        /\ stage' = "pausing"
        /\ elapsed' = elapsed + delay
        /\ delay' = NextDelay
  /\ loop' = "off" /\ recvs' = 0
  /\ UNCHANGED <<clientVars, taken, held, attempt, via, serviceVars, answers>>

Retry ==
  /\ stage = "pausing"
  /\ \/ elapsed < MaxBackoff /\ stage' = "connecting" /\ attempt' = attempt + 1
     \/ elapsed >= MaxBackoff /\ stage' = "rest" /\ UNCHANGED attempt
  /\ UNCHANGED <<clientVars, sourceVars, delay, elapsed, via, streamVars, serviceVars, answers>>

(* What the client is sent: a doubtful or empty transcript becomes a       *)
(* question.                                                               *)
SendEvent(e) ==
  answers' = Append(answers, [frames |-> e.frames, as |-> IF e.kind = "doubtful" THEN "question" ELSE "final"])

Close(how) == stage' = "closed" /\ via' = how

(* transcribe_rest of the buffer; its failure is an error for the client.  *)
Rest ==
  /\ stage = "rest"
  /\ IF client = "gone" THEN Close("left") /\ UNCHANGED answers
     ELSE \/ \E k \in {"final", "doubtful"} : SendEvent([kind |-> k, frames |-> held]) /\ Close("rest")
          \/ Close("error") /\ UNCHANGED answers
  /\ UNCHANGED <<clientVars, sourceVars, delay, elapsed, attempt, streamVars, serviceVars>>

-----------------------------------------------------------------------------
(* client_audio and _pump_audio *)

(* A frame is kept before it is handed on, and the oldest one goes.  What  *)
(* a pump takes is the next frame of the client: a new socket does not get *)
(* again what an old one got.                                              *)
Latest(q) == IF Len(q) > BufferFrames THEN Tail(q) ELSE q
KeepFrame(f) == held' = Latest(Append(held, f))
NextFrame == taken + 1

Pull ==
  /\ stage = "streaming" /\ pump = "pulling" /\ gen = "alive" /\ spoken > taken
  /\ taken' = NextFrame
  /\ KeepFrame(NextFrame)
  /\ pump' = "sending"
  /\ UNCHANGED <<clientVars, gen, policyVars, loop, recvs, serviceVars, answers>>

(* ws.send raises on a socket that is closed, which ends the pump.         *)
Resent == IF got = <<>> THEN held ELSE <<taken>>
Sent == <<taken>>
Send ==
  /\ stage = "streaming" /\ pump = "sending"
  /\ \/ conn = "open" /\ got' = got \o Sent /\ pump' = "pulling"
     \/ conn # "open" /\ pump' = "done" /\ UNCHANGED got
  /\ UNCHANGED <<clientVars, sourceVars, policyVars, loop, recvs, conn, chatter, wire, answers>>

(* Ten seconds without a frame, or the client has left. *)
AudioEnds ==
  /\ stage = "streaming" /\ pump = "pulling" /\ gen = "alive" /\ spoken = taken
  /\ gen' = IF client = "gone" THEN "gone" ELSE "idle"
  /\ pump' = "done"
  /\ UNCHANGED <<clientVars, taken, held, policyVars, loop, recvs, serviceVars, answers>>

SourceIsOver ==
  /\ stage = "streaming" /\ pump = "pulling" /\ gen # "alive"
  /\ pump' = "done"
  /\ UNCHANGED <<clientVars, sourceVars, policyVars, loop, recvs, serviceVars, answers>>

-----------------------------------------------------------------------------
(* The service.  It transcribes what it has received since its last        *)
(* transcript, may send other events and what is no event at all, and may  *)
(* close or break.                                                         *)

Transcribe ==
  /\ stage = "streaming" /\ conn = "open"
  /\ \/ /\ got # <<>>
        /\ \E k \in {"final", "doubtful"} : wire' = Append(wire, [kind |-> k, frames |-> got])
        /\ got' = <<>> /\ UNCHANGED chatter
     \/ /\ chatter < MaxChatter
        /\ \E k \in {"other", "garbage"} : wire' = Append(wire, [kind |-> k, frames |-> <<>>])
        /\ chatter' = chatter + 1 /\ UNCHANGED got
  /\ UNCHANGED <<clientVars, sourceVars, policyVars, streamVars, conn, answers>>

Break ==
  /\ stage = "streaming" /\ conn = "open"
  /\ conn' \in {"clean", "lost"}
  /\ UNCHANGED <<clientVars, sourceVars, policyVars, streamVars, got, chatter, wire, answers>>

-----------------------------------------------------------------------------
(* The receiving loop of stream() *)

Waiting == stage = "streaming" /\ loop \in {"racing", "bounded"}

(* Once the pump has ended the race is given up: the recv in flight is     *)
(* cancelled and waited for before the bounded one is made.                *)
PumpWins ==
  /\ Waiting /\ loop = "racing" /\ pump = "done"
  /\ loop' = "unwinding"
  /\ UNCHANGED <<clientVars, sourceVars, policyVars, pump, recvs, serviceVars, answers>>

Unwound == recvs = 1 /\ recvs' = 0
RecvUnwinds ==
  /\ stage = "streaming" /\ loop = "unwinding"
  /\ Unwound
  /\ loop' = "again"
  /\ UNCHANGED <<clientVars, sourceVars, policyVars, pump, serviceVars, answers>>

StillRacing == "racing"
NextWait == IF pump = "done" THEN "bounded" ELSE "racing"
RecvAgain ==
  /\ stage = "streaming" /\ loop = "again"
  /\ loop' = NextWait
  /\ recvs' = recvs + 1
  /\ UNCHANGED <<clientVars, sourceVars, policyVars, pump, serviceVars, answers>>

(* An event goes to the client; the send may raise when the client left,   *)
(* and the handler stops.  What is no JSON is a failure of the stream.     *)
Receive ==
  /\ Waiting /\ wire # <<>>
  /\ wire' = Tail(wire)
  /\ recvs' = recvs - 1
  /\ LET e == Head(wire) IN
     \/ e.kind = "garbage" /\ stage' = "failed" /\ UNCHANGED <<answers, loop, via>>
     \/ /\ e.kind # "garbage" /\ client = "gone"
        /\ Close("left") /\ UNCHANGED <<answers, loop>>
     \/ /\ e.kind # "garbage"
        /\ IF e.kind = "other" \/ client = "gone" THEN UNCHANGED answers ELSE SendEvent(e)
        /\ loop' = "again"
        /\ UNCHANGED <<stage, via>>
  /\ UNCHANGED <<clientVars, sourceVars, delay, elapsed, attempt, pump, conn, got, chatter>>

(* A clean close ends the stream, any other close fails it. *)
Closed ==
  /\ Waiting /\ wire = <<>> /\ conn \in {"clean", "lost"}
  /\ recvs' = recvs - 1
  /\ \/ conn = "clean" /\ Close("stream")
     \/ conn = "lost" /\ stage' = "failed" /\ UNCHANGED via
  /\ UNCHANGED <<clientVars, sourceVars, delay, elapsed, attempt, pump, loop, serviceVars, answers>>

(* Five seconds without an event after the end of the audio. *)
FinalTimeout ==
  /\ Waiting /\ loop = "bounded" /\ wire = <<>>
  /\ recvs' = recvs - 1
  /\ Close("stream")
  /\ UNCHANGED <<clientVars, sourceVars, delay, elapsed, attempt, pump, loop, serviceVars, answers>>

-----------------------------------------------------------------------------
Pump == Pull \/ Send \/ AudioEnds \/ SourceIsOver
Loop == PumpWins \/ RecvUnwinds \/ RecvAgain \/ Receive \/ Closed \/ FinalTimeout
Policy == Connect \/ Fail \/ Retry \/ Rest
Next == Talk \/ Leave \/ Open \/ Pump \/ Loop \/ Policy \/ Transcribe \/ Break

(* Tasks run, timers fire and requests end; the service owes nothing, and  *)
(* the client need not speak or leave.                                     *)
GoesOn == Pump \/ Loop \/ Policy
Spec == Init /\ [][Next]_vars /\ WF_vars(GoesOn)

-----------------------------------------------------------------------------
SttTypeOK ==
  /\ client \in {"here", "gone"} /\ spoken \in 0..MaxFrames /\ taken \in 0..spoken
  /\ gen \in {"alive", "gone", "idle", "killed"} /\ Len(held) <= BufferFrames
  /\ stage \in {"new", "connecting", "streaming", "failed", "pausing", "rest", "closed"}
  /\ via \in {"none", "stream", "rest", "error", "left"}
  /\ pump \in {"none", "pulling", "sending", "done"}
  /\ loop \in {"off", "racing", "unwinding", "again", "bounded"}
  /\ conn \in {"none", "open", "clean", "lost"} /\ chatter \in 0..MaxChatter

(* At most one recv() is in flight on the socket, in whatever order the    *)
(* pump ends and events arrive: the library refuses a second one, and the  *)
(* utterance was lost to that (sarvam_stt.py:168).                         *)
OneReceiver == recvs <= 1

(* The retries stop: the pauses stay below the limit in sum, so that there *)
(* are at most four connections, before the one request.                   *)
BackoffBounded == elapsed < MaxBackoff /\ attempt <= 4

FramesOf(i) == {answers[i].frames[k] : k \in DOMAIN answers[i].frames}

(* No frame is transcribed twice by the streams of a connection, however   *)
(* many sockets it took: a retry "continues that live stream" and does not *)
(* replay what was sent (failure_policy.py:68).  Only the last request may *)
(* say again what a stream has said.                                       *)
TranscribedOnce ==
  \A i, j \in DOMAIN answers :
    i < j /\ (j = Len(answers) => via # "rest") => FramesOf(i) \cap FramesOf(j) = {}

(* When the streams have failed, the request has the latest frames, the    *)
(* one that was in the pump's hands at the failure included.               *)
RestHasTheLatest ==
  via = "rest" /\ taken > 0 =>
    FramesOf(Len(answers)) = {f \in 1..taken : f > taken - BufferFrames}

(* A retry "continues that live stream into a new Sarvam connection"       *)
(* (failure_policy.py:68): the new connection has a source of audio.       *)
RetryHasAudio == stage = "streaming" /\ attempt > 1 => gen # "killed"

(* A connection ends: the client is silent for ten seconds or leaves, the  *)
(* service has five more seconds, and the retries are bounded.             *)
SttEnds == (stage = "connecting") ~> (stage = "closed")

=============================================================================
