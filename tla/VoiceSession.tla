---------------------------- MODULE VoiceSession ----------------------------
(***************************************************************************)
(* The hook useVoiceSession of the frontend: listening to one utterance,   *)
(* asking /chat/stream and speaking the reply, for a user who may tap the  *)
(* orb, type, and change mode or conversation at any moment.               *)
(*                                                                         *)
(* JavaScript runs one callback at a time: a click, a timer, a message of  *)
(* a socket or the continuation of an await is one step.  Every input, a   *)
(* call of startListening that gets past its guard or a typed message, has *)
(* a number, and every turn (a call of sendMessage) another; the refs of   *)
(* the hook hold these numbers.  MaxInputs and MaxTurns bound the two; a   *)
(* text is heard only while turns are left for it (Room).                  *)
(*                                                                         *)
(* Samples and transcripts are left out: what is kept is whether voice was *)
(* detected and whether any text was heard.                                *)
(***************************************************************************)
EXTENDS Naturals, FiniteSets

CONSTANTS
  MaxInputs, MaxTurns,
  MaxRetries,   \* how often a dead microphone is replaced (the code: twice)
  DeadInputs    \* bound: the inputs whose microphone may give nothing but zeros

ASSUME VoiceAssumption == MaxInputs \in Nat /\ MaxTurns \in Nat /\ MaxRetries \in Nat

Inputs == 1..MaxInputs
Turns  == 1..MaxTurns
None   == 0

VARIABLES
  swift,        \* does a microphone start before anything else happens?
  orb,          \* voiceState
  mode,         \* which input the composer shows: the orb or the text box
  mic,          \* mic[l]: the MicCapture of input l, or "typed"
  retries,      \* retries[l]: retryStage
  seeking,      \* the inputs for which another device is being looked for
  heard,        \* heard[l]: is there a transcript segment?
  concluded,    \* concluded[l]
  stt,          \* stt[l]: the STT socket of l, opened when voice is detected; it reconnects
  micRef, sttRef, concludeRef,
  pending,      \* the timers that are running: pairs of a kind and the input it is for
  timerRef,     \* timerRef[k]: whose the timer in the ref of kind k is, if it is running
  turn,         \* turn[t]: the fetch of turn t; "done": its last event came, the stream is open
  source,       \* source[t]: the input turn t is about
  fetchRef,     \* turnAbortControllerRef
  speech,       \* speech[t]: the speak session of turn t
  speakRef      \* activeSpeakSessionRef

refVars    == <<micRef, sttRef, concludeRef>>
timerVars  == <<pending, timerRef>>
listenVars == <<mic, retries, seeking, heard, concluded, stt, refVars, timerVars>>
speechVars == <<speech, speakRef>>
turnVars   == <<turn, source, fetchRef>>
vars == <<swift, orb, mode, listenVars, turnVars, speechVars>>

Timers == {"silence", "grace", "max"}

Init ==
  /\ swift \in BOOLEAN
  /\ orb = "IDLE" /\ mode = "voice"
  /\ mic = [l \in Inputs |-> "none"] /\ stt = [l \in Inputs |-> "none"]
  /\ retries = [l \in Inputs |-> 0] /\ seeking = {}
  /\ heard = [l \in Inputs |-> FALSE]
  /\ concluded = [l \in Inputs |-> FALSE]
  /\ micRef = None /\ sttRef = None /\ concludeRef = None
  /\ pending = {} /\ timerRef = [k \in Timers |-> None]
  /\ turn = [t \in Turns |-> "none"] /\ source = [t \in Turns |-> None]
  /\ fetchRef = None
  /\ speech = [t \in Turns |-> "none"] /\ speakRef = None

VoiceDetected(l) == stt[l] # "none"

(* App.jsx's "sending": the promise of a typed turn has not resolved.      *)
Sending == \E t \in Turns : turn[t] = "asked" /\ mic[source[t]] = "typed"

-----------------------------------------------------------------------------
(* Listening *)

(* clearTimeout through a ref stops only the timer that was set last.      *)
Cleared(kinds, timers) == {p \in timers : p[1] \in kinds => p[2] # timerRef[p[1]]}

(* setTimeout, its id in the ref: a timer the ref held before keeps running. *)
SetTimers(kinds, l, timers) ==
  /\ pending' = timers \cup {<<k, l>> : k \in kinds}
  /\ timerRef' = [k \in Timers |-> IF k \in kinds THEN l ELSE timerRef[k]]

(* micRef.current?.stop(): while a microphone is restarted the ref still   *)
(* holds the capture that was given up.                                    *)
NotStopped(m) == m
Stopped(m) == [l \in Inputs |-> IF l = micRef /\ m[l] = "live" THEN "off" ELSE m[l]]

SocketKept == stt
ClosedSocket == [l \in Inputs |-> IF l = sttRef THEN "closed" ELSE stt[l]]

(* stopListening, on microphones in states m and with timers running.      *)
StopListening(m, timers) ==
  /\ mic' = Stopped(m)
  /\ stt' = ClosedSocket
  /\ micRef' = None /\ sttRef' = None /\ concludeRef' = None
  /\ pending' = Cleared(Timers, timers)
  /\ timerRef' = [k \in Timers |-> None]

StopIdle(m) == StopListening(m, pending) /\ orb' = "IDLE"

(* sendMessage: the next turn, its AbortController in the ref.             *)
SendMessage(from) ==
  \E t \in Turns :
    /\ turn[t] = "none" /\ \A u \in Turns : u < t => turn[u] # "none"
    /\ turn' = [turn EXCEPT ![t] = "asked"]
    /\ source' = [source EXCEPT ![t] = from]
    /\ fetchRef' = t

Finalize(l, timers, text) ==
  /\ StopListening(mic, timers)
  /\ IF text
       THEN orb' = "PROCESSING" /\ SendMessage(l)
       ELSE orb' = "IDLE" /\ UNCHANGED turnVars

(* Voice was heard but its transcript is still to come: wait for it, not   *)
(* forever.                                                                *)
WaitForText(l, timers) ==
  /\ pending' = Cleared({"silence"}, timers)
  /\ timerRef' = [timerRef EXCEPT !["silence"] = None]
StartGrace(l, timers) ==
  /\ pending' = Cleared({"silence"}, timers) \cup {<<"grace", l>>}
  /\ timerRef' = [timerRef EXCEPT !["silence"] = None, !["grace"] = l]

Conclude(l, timers) ==
  IF concluded[l]
    THEN /\ pending' = timers
         /\ timerRef' = [k \in Timers |-> IF <<k, timerRef[k]>> \in timers THEN timerRef[k] ELSE None]
         /\ UNCHANGED <<orb, mic, stt, refVars, concluded, turnVars>>
    ELSE /\ concluded' = [concluded EXCEPT ![l] = TRUE]
         /\ IF heard[l] \/ ~VoiceDetected(l)
              THEN Finalize(l, timers, heard[l])
              ELSE /\ mic' = Stopped(mic) /\ micRef' = None
                   /\ StartGrace(l, timers)
                   /\ UNCHANGED <<orb, stt, sttRef, concludeRef, turnVars>>

(* A tap on the orb: start to listen, conclude, or give up what goes on.   *)
(* While something is still listening a tap on the idle orb does nothing.  *)
IsNext(l) == mic[l] = "none" /\ \A k \in Inputs : k < l => mic[k] # "none"

CanTap == mode = "voice" /\ ~Sending

TapStarts ==
  /\ CanTap /\ orb = "IDLE"
  /\ sttRef = None /\ micRef = None
  /\ \E l \in Inputs :
       /\ IsNext(l)
       /\ mic' = [mic EXCEPT ![l] = "starting"]
       /\ concludeRef' = l
  /\ orb' = "LISTENING"
  /\ UNCHANGED <<swift, mode, retries, seeking, heard, concluded, stt, micRef, sttRef, timerVars,
                 turnVars, speechVars>>

TapConcludes ==
  /\ CanTap /\ orb # "IDLE" /\ concludeRef # None
  /\ Conclude(concludeRef, pending)
  /\ UNCHANGED <<swift, mode, retries, seeking, heard, speechVars>>

TapStops ==
  /\ CanTap /\ orb # "IDLE" /\ concludeRef = None
  /\ StopIdle(mic)
  /\ UNCHANGED <<swift, mode, retries, seeking, heard, concluded, turnVars, speechVars>>

(* startListening after its await: the microphone goes into the ref and    *)
(* the timers start, whatever happened meanwhile.                          *)
MicStarts(l) ==
  /\ mic[l] = "starting"
  /\ mic' = [mic EXCEPT ![l] = "live"]
  /\ micRef' = l
  /\ SetTimers({"silence", "max"}, l, Cleared({"silence"}, pending))
  /\ UNCHANGED <<swift, orb, mode, retries, seeking, heard, concluded, stt, sttRef, concludeRef,
                 turnVars, speechVars>>

MicRestarts(l) ==
  /\ mic[l] = "restarting"
  /\ mic' = [mic EXCEPT ![l] = "live"]
  /\ micRef' = l
  /\ UNCHANGED <<swift, orb, mode, retries, seeking, heard, concluded, stt, sttRef, concludeRef,
                 timerVars, turnVars, speechVars>>

MicFails(l) ==
  /\ mic[l] \in {"starting", "restarting"}
  /\ StopIdle([mic EXCEPT ![l] = "off"])
  /\ UNCHANGED <<swift, mode, retries, seeking, heard, concluded, turnVars, speechVars>>

(* A second of zero samples: give the capture up and start another one;    *)
(* the next time, look for another device first, while the capture goes on. *)
MayRetry(l) == l \in DeadInputs /\ retries[l] < MaxRetries

DeadTrack(l) ==
  /\ mic[l] = "live" /\ ~concluded[l] /\ ~VoiceDetected(l)
  /\ MayRetry(l)
  /\ retries' = [retries EXCEPT ![l] = @ + 1]
  /\ IF retries[l] = 0
       THEN mic' = [mic EXCEPT ![l] = "restarting"] /\ UNCHANGED seeking
       ELSE seeking' = seeking \cup {l} /\ UNCHANGED mic
  /\ UNCHANGED <<swift, orb, mode, heard, concluded, stt, refVars, timerVars, turnVars, speechVars>>

(* The devices are known: the capture is given up for one from another     *)
(* device, whatever happened meanwhile, or there is none.                  *)
DevicesFound(l) ==
  /\ l \in seeking
  /\ seeking' = seeking \ {l}
  /\ \/ mic' = [mic EXCEPT ![l] = "restarting"]
        /\ UNCHANGED <<orb, stt, refVars, timerVars>>
     \/ StopIdle(mic)
  /\ UNCHANGED <<swift, mode, retries, heard, concluded, turnVars, speechVars>>

(* Voice in the frames: the first time it opens the socket, each time it   *)
(* starts the silence timer anew.                                          *)
VoiceFrame(l) ==
  /\ mic[l] = "live" /\ ~concluded[l]
  /\ SetTimers({"silence"}, l, Cleared({"silence"}, pending))
  /\ IF VoiceDetected(l)
       THEN UNCHANGED <<stt, sttRef>>
       ELSE stt' = [stt EXCEPT ![l] = "open"] /\ sttRef' = l
  /\ UNCHANGED <<swift, orb, mode, mic, retries, seeking, heard, concluded, micRef, concludeRef, turnVars, speechVars>>

(* The bound on turns: text is heard only while a turn is left for it and  *)
(* for each timer that may ask for one.                                    *)
MayAsk(l) == {l} \cup {k \in Inputs : ~concluded[k] /\ \E x \in Timers : <<x, k>> \in pending}
Room(l) ==
  Cardinality({t \in Turns : turn[t] = "none"}) >=
    Cardinality(MayAsk(l)) + Cardinality({p \in Cleared({"grace"}, pending) : p[1] = "grace"})

(* A final transcript, with text or empty. *)
Transcript(l) ==
  /\ stt[l] = "open"
  /\ \E text \in BOOLEAN :
       /\ text \/ (concluded[l] /\ heard[l]) => Room(l)
       /\ heard' = [heard EXCEPT ![l] = @ \/ text]
       /\ IF concluded[l]
            THEN Finalize(l, Cleared({"grace"}, pending), heard'[l])
            ELSE UNCHANGED <<orb, mic, stt, refVars, timerVars, turnVars>>
  /\ UNCHANGED <<swift, mode, retries, seeking, concluded, speechVars>>

(* low_confidence, or an error event. *)
SttRejects(l) ==
  /\ stt[l] = "open"
  /\ StopIdle(mic)
  /\ UNCHANGED <<swift, mode, retries, seeking, heard, concluded, turnVars, speechVars>>

TimerFires(k, l) ==
  /\ <<k, l>> \in pending
  /\ IF k = "grace"
       THEN Finalize(l, pending \ {<<k, l>>}, heard[l]) /\ UNCHANGED concluded
       ELSE Conclude(l, pending \ {<<k, l>>})
  /\ UNCHANGED <<swift, mode, retries, seeking, heard, speechVars>>

-----------------------------------------------------------------------------
(* Speaking a reply, and the stream of a turn *)

(* What abort() does to the session of turn t, besides the orb.            *)
Silenced(t) == IF t = None THEN speech ELSE [speech EXCEPT ![t] = "over"]

Abort(t) ==
  /\ speech' = Silenced(t)
  /\ speakRef' = IF speakRef = t THEN None ELSE speakRef

(* openSpeakSession: only one turn's session stays active.                 *)
OpenBeside(t) ==
  /\ speech' = [speech EXCEPT ![t] = "open"]
  /\ speakRef' = t
OpenSpeakSession(t) ==
  /\ speech' = [Silenced(speakRef) EXCEPT ![t] = "open"]
  /\ speakRef' = t

Forget(t) == fetchRef' = IF fetchRef = t THEN None ELSE fetchRef
TurnBecomes(t, how) == turn' = [turn EXCEPT ![t] = how] /\ Forget(t) /\ UNCHANGED source

OnLanguage(t) ==
  /\ turn[t] = "asked" /\ speech[t] = "none"
  /\ OpenSpeakSession(t)
  /\ orb' = "SPEAKING"
  /\ UNCHANGED <<swift, mode, listenVars, turnVars>>

(* The done event of a reply: the orb goes idle when the voice is done, at *)
(* once if there is none.                                                  *)
OnDone(t) ==
  /\ turn[t] = "asked"
  /\ TurnBecomes(t, "done")
  /\ speech' = IF speech[t] = "open" THEN [speech EXCEPT ![t] = "finishing"] ELSE speech
  /\ orb' = IF speech[t] = "none" THEN "IDLE" ELSE orb
  /\ UNCHANGED <<swift, mode, listenVars, speakRef>>

(* The done event of a failed turn aborts its session, even one that was   *)
(* aborted before.                                                         *)
OnDoneError(t) ==
  /\ turn[t] = "asked"
  /\ TurnBecomes(t, "done")
  /\ IF speech[t] = "none" THEN UNCHANGED speechVars ELSE Abort(t)
  /\ orb' = "IDLE"
  /\ UNCHANGED <<swift, mode, listenVars>>

(* The request fails, or the stream breaks, even after its last event: the *)
(* session is left as it is.                                               *)
StreamBreaks(t) ==
  /\ turn[t] \in {"asked", "done"}
  /\ TurnBecomes(t, "over")
  /\ orb' = "IDLE"
  /\ UNCHANGED <<swift, mode, listenVars, speechVars>>

StreamEnds(t) ==
  /\ turn[t] = "done"
  /\ TurnBecomes(t, "over")
  /\ UNCHANGED <<swift, orb, mode, listenVars, speechVars>>

(* finish() after its awaits, which the close of the socket or a timeout   *)
(* ends.  Chunks come faster than they are played: the player may not have *)
(* played them all.                                                        *)
FinishQuiet(t) ==
  /\ speakRef' = IF speakRef = t THEN None ELSE speakRef
  /\ UNCHANGED orb
FinishIdle(t) ==
  IF speakRef = t THEN orb' = "IDLE" /\ speakRef' = None ELSE UNCHANGED <<orb, speakRef>>

Finish(t) ==
  /\ speech[t] = "finishing"
  /\ \E left \in {"draining", "over"} : speech' = [speech EXCEPT ![t] = left]
  /\ FinishIdle(t)
  /\ UNCHANGED <<swift, mode, listenVars, turnVars>>

AudioPlayed(t) ==
  /\ speech[t] = "draining"
  /\ speech' = [speech EXCEPT ![t] = "over"]
  /\ UNCHANGED <<swift, orb, mode, listenVars, turnVars, speakRef>>

-----------------------------------------------------------------------------
(* The user types a message.  App.jsx disables the composer meanwhile.     *)
Send ==
  /\ mode = "text" /\ ~Sending
  /\ \E l \in Inputs :
       /\ IsNext(l) /\ Room(l)
       /\ mic' = [mic EXCEPT ![l] = "typed"]
       /\ SendMessage(l)
  /\ UNCHANGED <<swift, orb, mode, retries, seeking, heard, concluded, stt, refVars, timerVars, speechVars>>

(* reset: a change of mode or of conversation, or a logout.  An aborted    *)
(* fetch rejects before anything else runs.                                *)
ResetTo(m, done) ==
  /\ StopIdle(mic)
  /\ Abort(speakRef)
  /\ turn' = [t \in Turns |-> IF t \in done \ {None} THEN "over" ELSE turn[t]]
  /\ fetchRef' = None
  /\ mode' = m
  /\ UNCHANGED <<swift, retries, seeking, heard, concluded, source>>

Reset(m) == ResetTo(m, {fetchRef})

(* A request answered with 401 ends its turn and logs the user out.        *)
Unauthorized(t) ==
  /\ turn[t] = "asked" /\ speech[t] = "none"
  /\ ResetTo(mode, {t, fetchRef})

MicSteps(l) == MicStarts(l) \/ MicRestarts(l) \/ MicFails(l) \/ DevicesFound(l)
MicPending == \E l \in Inputs : mic[l] \in {"starting", "restarting"} \/ l \in seeking

Others ==
  \/ TapStarts \/ TapConcludes \/ TapStops \/ Send
  \/ \E m \in {"voice", "text"} : Reset(m)
  \/ \E l \in Inputs : DeadTrack(l) \/ VoiceFrame(l) \/ Transcript(l) \/ SttRejects(l)
  \/ \E k \in Timers, l \in Inputs : TimerFires(k, l)
  \/ \E t \in Turns :
       \/ OnLanguage(t) \/ OnDone(t) \/ OnDoneError(t) \/ StreamBreaks(t) \/ StreamEnds(t) \/ Unauthorized(t)
       \/ Finish(t) \/ AudioPlayed(t)

(* Where swift holds, microphones start before anything else happens.      *)
Settled == swift => ~MicPending

Next ==
  \/ \E l \in Inputs : MicSteps(l)
  \/ Settled /\ Others

Spec == Init /\ [][Next]_vars

(* A request for a microphone or for the list of devices is answered, the  *)
(* timers that voice cannot restart fire, a stream ends, finish() is       *)
(* bounded by its timeouts.  The silence timer is not here: a noisy room   *)
(* restarts it for ever.                                                   *)
MicsGoOn == \E l \in Inputs : MicSteps(l)
TimersGoOn == Settled /\ \E k \in {"grace", "max"}, l \in Inputs : TimerFires(k, l)
StreamsGoOn == Settled /\ \E t \in Turns : OnDone(t) \/ OnDoneError(t) \/ StreamBreaks(t) \/ Finish(t)

VoiceGoesOn == MicsGoOn \/ TimersGoOn \/ StreamsGoOn

FairSpec == Spec /\ WF_vars(VoiceGoesOn)

-----------------------------------------------------------------------------
TypeOK ==
  /\ swift \in BOOLEAN
  /\ orb \in {"IDLE", "LISTENING", "PROCESSING", "SPEAKING"} /\ mode \in {"voice", "text"}
  /\ mic \in [Inputs -> {"none", "starting", "live", "restarting", "off", "typed"}]
  /\ retries \in [Inputs -> 0..MaxRetries] /\ seeking \subseteq Inputs
  /\ heard \in [Inputs -> BOOLEAN]
  /\ concluded \in [Inputs -> BOOLEAN]
  /\ stt \in [Inputs -> {"none", "open", "closed"}]
  /\ {micRef, sttRef, concludeRef} \subseteq Inputs \cup {None}
  /\ pending \subseteq Timers \X Inputs
  /\ timerRef \in [Timers -> Inputs \cup {None}]
  /\ turn \in [Turns -> {"none", "asked", "done", "over"}]
  /\ source \in [Turns -> Inputs \cup {None}]
  /\ fetchRef \in Turns \cup {None}
  /\ speech \in [Turns -> {"none", "open", "finishing", "draining", "over"}]
  /\ speakRef \in Turns \cup {None}

(* What the orb shows is going on: a voice that is not over, a turn whose  *)
(* stream is, a listening that something will end.  "Listening..." or      *)
(* "Speaking..." is never shown over nothing (useVoiceSession.js:293-302,  *)
(* 796-808).                                                               *)
OrbMeansWork ==
  /\ orb = "SPEAKING" => speakRef # None
  /\ orb = "PROCESSING" => \E t \in Turns : turn[t] = "asked"
  /\ orb = "LISTENING" => MicPending \/ pending # {}

(* At most one speak session has a socket that brings it audio, the one in *)
(* the ref: a turn that starts to speak first aborts the one before it     *)
(* (useVoiceSession.js:226).  This is about sockets.  What the player of a *)
(* session that has ended still has to play is not stopped by the next     *)
(* turn: OneVoice does not hold.                                           *)
OneSocket ==
  \A t \in Turns : speech[t] \in {"open", "finishing"} => t = speakRef

(* "keeps only ever one turn's audio live at a time"                       *)
(* (useVoiceSession.js:224-225).                                           *)
Sounds(t) == speech[t] \in {"open", "finishing", "draining"}
OneVoice == \A t, u \in Turns : Sounds(t) /\ Sounds(u) => t = u

(* As long as microphones start before anything else happens, nothing that *)
(* listens is forgotten: a live microphone or an open STT socket is in its *)
(* ref, and a timer is running that will end it (useVoiceSession.js:458,   *)
(* 506-519, 768-773).                                                      *)
Leashed ==
  swift =>
    \A l \in Inputs :
      /\ mic[l] = "live" => micRef = l
      /\ stt[l] = "open" => sttRef = l
      /\ mic[l] = "live" \/ stt[l] = "open" => \E k \in Timers : <<k, l>> \in pending

(* ... and an utterance is asked at most once, whatever transcripts and    *)
(* timers arrive after it was concluded (useVoiceSession.js:482-519,       *)
(* 539-545).                                                               *)
AskedOnce ==
  swift => \A t, u \in Turns : t # u /\ turn[t] # "none" /\ turn[u] # "none" => source[t] # source[u]

(* Whatever is going on, the orb becomes idle again: "the session          *)
(* concludes ... instead of listening forever" (useVoiceSession.js:770-772).*)
OrbReturns == []<>(orb = "IDLE")

(* "stop mic/TTS/in-flight stream before the session that owns them goes   *)
(* away" (App.jsx:64): an idle orb means that no microphone is live.       *)
IdleMeansMicOff == orb = "IDLE" => \A l \in Inputs : mic[l] # "live"
=============================================================================
