------------------------------ MODULE MCGateway ------------------------------
(***************************************************************************)
(* A connection of /ws/stt, one of /ws/tts and the limiter that guards     *)
(* both share no state, so that one run explores them one at a time: part  *)
(* says which and never changes, and a variable only the others have is    *)
(* Unused.  Variables of the same name serve the part that runs.           *)
(***************************************************************************)
EXTENDS Integers, Sequences, FiniteSets

CONSTANTS MaxChunks, MaxFrames, MaxChatter, BufferFrames, MaxBackoff,
          Callers, MaxRequests, WindowSeconds, MaxTime, MaxCalls, MaxDelay

(* The pauses of /ws/stt end after _STT_BACKOFF_MAX_SECONDS, two seconds;  *)
(* the rest are bounds and configured limits.                              *)
ASSUME GatewayAssumption ==
  /\ MaxChunks \in Nat /\ MaxFrames \in Nat /\ MaxChatter \in Nat
  /\ BufferFrames \in Nat \ {0} /\ MaxBackoff \in 1..8
  /\ IsFiniteSet(Callers)
  /\ MaxRequests \in Nat \ {0} /\ WindowSeconds \in Nat \ {0}
  /\ MaxTime \in Nat /\ MaxCalls \in Nat /\ MaxDelay \in Nat

VARIABLES part,
  client, gen, stage, attempt, pump, conn, wire,
  spoken, taken, held, delay, elapsed, loop, recvs, got, chatter, answers, via,
  voice, typed, complete, pulled, kept, next, said, flushed, finals, broken, asked, made,
  rx, verdict, heard, told,
  store, now, hits, expires, pc, score, calls, admitted, refused

Stt == INSTANCE SttSession
Tts == INSTANCE TtsSession
Rate == INSTANCE RateLimit

bothVars == <<client, gen, stage, attempt, pump, conn, wire>>
sttVars == <<spoken, taken, held, delay, elapsed, loop, recvs, got, chatter, answers, via>>
ttsVars == <<voice, typed, complete, pulled, kept, next, said, flushed, finals, broken, asked, made,
             rx, verdict, heard, told>>
rateVars == <<store, now, hits, expires, pc, score, calls, admitted, refused>>
allVars == <<part, bothVars, sttVars, ttsVars, rateVars>>

Unused == 0
UnusedBoth ==
  /\ client = Unused /\ gen = Unused /\ stage = Unused /\ attempt = Unused /\ pump = Unused /\ conn = Unused
  /\ wire = Unused
UnusedStt ==
  /\ spoken = Unused /\ taken = Unused /\ held = Unused /\ delay = Unused /\ elapsed = Unused /\ loop = Unused
  /\ recvs = Unused /\ got = Unused /\ chatter = Unused /\ answers = Unused /\ via = Unused
UnusedTts ==
  /\ voice = Unused /\ typed = Unused /\ complete = Unused /\ pulled = Unused /\ kept = Unused /\ next = Unused
  /\ said = Unused /\ flushed = Unused /\ finals = Unused /\ broken = Unused /\ asked = Unused /\ made = Unused
  /\ rx = Unused /\ verdict = Unused /\ heard = Unused /\ told = Unused
UnusedRate ==
  /\ store = Unused /\ now = Unused /\ hits = Unused /\ expires = Unused /\ pc = Unused /\ score = Unused
  /\ calls = Unused /\ admitted = Unused /\ refused = Unused

Init ==
  \/ part = "stt" /\ Stt!Init /\ UnusedTts /\ UnusedRate
  \/ part = "tts" /\ Tts!Init /\ UnusedStt /\ UnusedRate
  \/ part = "rate" /\ Rate!Init /\ UnusedBoth /\ UnusedStt /\ UnusedTts

Next ==
  /\ UNCHANGED part
  /\ \/ part = "stt" /\ Stt!Next /\ UNCHANGED <<ttsVars, rateVars>>
     \/ part = "tts" /\ Tts!Next /\ UNCHANGED <<sttVars, rateVars>>
     \/ part = "rate" /\ Rate!Next /\ UNCHANGED <<bothVars, sttVars, ttsVars>>

(* The fairness of SttSession and of TtsSession, at once because part      *)
(* never changes.                                                          *)
GoesOn ==
  /\ UNCHANGED part
  /\ \/ part = "stt" /\ Stt!GoesOn /\ UNCHANGED <<ttsVars, rateVars>>
     \/ part = "tts" /\ Tts!GoesOn /\ UNCHANGED <<sttVars, rateVars>>

Spec == Init /\ [][Next]_allVars /\ WF_allVars(GoesOn)

-----------------------------------------------------------------------------
(* The properties, whose parts are stated and explained in their modules.  *)

(* /ws/stt: one task at a time receives from the service, the retries stop *)
(* in time, no frame is transcribed twice by the streams, and the request  *)
(* that replaces them has the latest audio (SttSession).                   *)
HeardOnce ==
  part = "stt" =>
    /\ Stt!SttTypeOK /\ Stt!OneReceiver /\ Stt!BackoffBounded
    /\ Stt!TranscribedOnce /\ Stt!RestHasTheLatest

(* /ws/tts: an attempt speaks the reply from its first chunk without a     *)
(* gap, none that ends well cuts a chunk off, and a client that stayed has *)
(* heard all the gateway took of its text or was told that it will not:    *)
(* the whole of it, with the two exceptions of SpokenOrTold (TtsSession).  *)
SpokenWhole ==
  part = "tts" => Tts!TtsTypeOK /\ Tts!FromTheStart /\ Tts!NothingCutOff /\ Tts!SpokenOrTold

(* The limiter: in memory it is exact, in both directions; over Redis the  *)
(* calls that overlap go over the limit by at most their number (RateLimit).*)
LimitKept ==
  part = "rate" => Rate!WithinLimit /\ Rate!RefusedForCause /\ Rate!BoundedOvershoot

(* No connection of either endpoint stays open for ever, except one of     *)
(* /ws/tts whose service keeps the socket open and a final back (SttEnds   *)
(* of SttSession, TtsEnds of TtsSession; a connection opens once).         *)
ConnectionsEnd ==
  []<>(part = "tts" => conn # "open" \/ made = asked)
    => <>[](part = "rate" \/ stage \in {"new", "closed"})
=============================================================================
