--------------------------- MODULE FrontendProofs ---------------------------
(***************************************************************************)
(* The page.  What the orb shows is going on, one speak session has a      *)
(* socket, whatever listens has a timer that will end it and an utterance  *)
(* is asked once: for any number of inputs, turns and retries.  And a      *)
(* message goes to a conversation that was created, and the one on the     *)
(* screen is the open one: for any number of conversations and of waiting  *)
(* handlers.                                                               *)
(***************************************************************************)
EXTENDS VoiceSession, ConversationList, TLAPS

(* Only an input that was started has timers or is concluded.              *)
Started ==
  /\ concludeRef # None => mic[concludeRef] # "none"
  /\ \A k \in Timers, l \in Inputs : <<k, l>> \in pending => mic[l] # "none"
  /\ \A l \in Inputs : mic[l] = "none" => ~concluded[l]

(* Only a turn that was asked is spoken.                                   *)
Unspoken ==
  /\ \A t \in Turns : turn[t] = "none" => speech[t] = "none"
  /\ speakRef # None => turn[speakRef] # "none"

(* The orb that listens waits for a microphone, a ceiling or a grace       *)
(* timer of an input that will conclude; the silence timer is no witness,  *)
(* since another input's voice may clear it.                               *)
Concluding(l) == ~concluded[l] /\ (mic[l] = "starting" \/ <<"max", l>> \in pending)
ListeningEnds ==
  orb = "LISTENING" => \E l \in Inputs : Concluding(l) \/ <<"grace", l>> \in pending

(* The orb that waits for an answer waits for one that is not spoken yet.  *)
Asking == orb = "PROCESSING" => \E t \in Turns : turn[t] = "asked" /\ speech[t] = "none"
Speaking == orb = "SPEAKING" => speakRef # None

OrbInv == Started /\ Unspoken /\ ListeningEnds /\ Asking /\ Speaking

-----------------------------------------------------------------------------
(* Types *)

(* The operators that several actions share keep the types of what they    *)
(* change.                                                                 *)
LEMMA StopListeningType ==
  ASSUME TypeOK, NEW m, m \in [Inputs -> {"none", "starting", "live", "restarting", "off", "typed"}],
         NEW timers, timers \subseteq Timers \X Inputs, StopListening(m, timers)
  PROVE  /\ mic' \in [Inputs -> {"none", "starting", "live", "restarting", "off", "typed"}]
         /\ stt' \in [Inputs -> {"none", "open", "closed"}]
         /\ {micRef', sttRef', concludeRef'} \subseteq Inputs \cup {None}
         /\ pending' \subseteq Timers \X Inputs
         /\ timerRef' \in [Timers -> Inputs \cup {None}]
BY DEF StopListening, Stopped, ClosedSocket, Cleared, TypeOK

LEMMA SendMessageType ==
  ASSUME TypeOK, NEW l \in Inputs, SendMessage(l)
  PROVE  /\ turn' \in [Turns -> {"none", "asked", "done", "over"}]
         /\ source' \in [Turns -> Inputs \cup {None}]
         /\ fetchRef' \in Turns \cup {None}
BY DEF SendMessage, TypeOK

LEMMA FinalizeType ==
  ASSUME TypeOK, NEW l \in Inputs, NEW timers, timers \subseteq Timers \X Inputs,
         NEW text, Finalize(l, timers, text)
  PROVE  /\ orb' \in {"IDLE", "PROCESSING"}
         /\ mic' \in [Inputs -> {"none", "starting", "live", "restarting", "off", "typed"}]
         /\ stt' \in [Inputs -> {"none", "open", "closed"}]
         /\ {micRef', sttRef', concludeRef'} \subseteq Inputs \cup {None}
         /\ pending' \subseteq Timers \X Inputs
         /\ timerRef' \in [Timers -> Inputs \cup {None}]
         /\ turn' \in [Turns -> {"none", "asked", "done", "over"}]
         /\ source' \in [Turns -> Inputs \cup {None}]
         /\ fetchRef' \in Turns \cup {None}
<1>1. StopListening(mic, timers)
  BY DEF Finalize
<1>2. CASE orb' = "PROCESSING" /\ SendMessage(l)
  BY <1>1, <1>2, StopListeningType, SendMessageType DEF TypeOK
<1>3. CASE orb' = "IDLE" /\ UNCHANGED turnVars
  BY <1>1, <1>3, StopListeningType DEF TypeOK, turnVars
<1> QED  BY <1>2, <1>3 DEF Finalize

LEMMA ConcludeType ==
  ASSUME TypeOK, NEW l \in Inputs, NEW timers, timers \subseteq pending, Conclude(l, timers)
  PROVE  /\ orb' \in {orb, "IDLE", "PROCESSING"}
         /\ mic' \in [Inputs -> {"none", "starting", "live", "restarting", "off", "typed"}]
         /\ concluded' \in [Inputs -> BOOLEAN]
         /\ stt' \in [Inputs -> {"none", "open", "closed"}]
         /\ {micRef', sttRef', concludeRef'} \subseteq Inputs \cup {None}
         /\ pending' \subseteq Timers \X Inputs
         /\ timerRef' \in [Timers -> Inputs \cup {None}]
         /\ turn' \in [Turns -> {"none", "asked", "done", "over"}]
         /\ source' \in [Turns -> Inputs \cup {None}]
         /\ fetchRef' \in Turns \cup {None}
<1> timers \subseteq Timers \X Inputs
  BY DEF TypeOK
<1>1. CASE concluded[l]
  <2>1. /\ pending' = timers
        /\ timerRef' = [k \in Timers |-> IF <<k, timerRef[k]>> \in timers THEN timerRef[k] ELSE None]
        /\ UNCHANGED <<orb, mic, stt, micRef, sttRef, concludeRef, concluded, turn, source, fetchRef>>
    BY <1>1 DEF Conclude, turnVars, refVars
  <2>2. timerRef' \in [Timers -> Inputs \cup {None}]
    BY <2>1 DEF TypeOK
  <2> QED  BY <2>1, <2>2 DEF TypeOK
<1>2. CASE ~concluded[l] /\ Finalize(l, timers, heard[l])
  <2>1. concluded' = [concluded EXCEPT ![l] = TRUE]
    BY <1>2 DEF Conclude
  <2> QED  BY <1>2, <2>1, FinalizeType DEF TypeOK
<1>3. CASE ~concluded[l] /\ StartGrace(l, timers)
  <2>1. /\ concluded' = [concluded EXCEPT ![l] = TRUE]
        /\ (heard[l] \/ ~VoiceDetected(l)) => Finalize(l, timers, heard[l])
        /\ ~(heard[l] \/ ~VoiceDetected(l)) =>
             /\ mic' = Stopped(mic) /\ micRef' = None
             /\ UNCHANGED <<orb, stt, sttRef, concludeRef, turnVars>>
    BY <1>3 DEF Conclude
  <2>2. CASE heard[l] \/ ~VoiceDetected(l)
    BY <2>1, <2>2, FinalizeType DEF TypeOK
  <2>3. CASE ~(heard[l] \/ ~VoiceDetected(l))
    <3>1. /\ concluded' = [concluded EXCEPT ![l] = TRUE]
          /\ mic' = Stopped(mic) /\ micRef' = None
          /\ UNCHANGED <<orb, stt, sttRef, concludeRef, turn, source, fetchRef>>
      BY <2>1, <2>3 DEF turnVars
    <3>2. pending' \subseteq Timers \X Inputs
      BY <1>3 DEF StartGrace, Cleared, Timers
    <3>3. timerRef' \in [Timers -> Inputs \cup {None}]
      BY <1>3 DEF StartGrace, TypeOK
    <3>4. mic' \in [Inputs -> {"none", "starting", "live", "restarting", "off", "typed"}]
      BY <3>1 DEF Stopped, TypeOK
    <3> QED  BY <3>1, <3>2, <3>3, <3>4 DEF TypeOK
  <2> QED  BY <2>2, <2>3
<1> QED  BY <1>1, <1>2, <1>3 DEF Conclude

LEMMA TypeStep == TypeOK /\ [Next]_vars => TypeOK'
<1> SUFFICES ASSUME TypeOK, [Next]_vars PROVE TypeOK'
  OBVIOUS
<1> USE DEF refVars, timerVars, listenVars, speechVars, turnVars
<1>1. ASSUME TapStarts PROVE TypeOK'
  BY <1>1 DEF TapStarts, IsNext, TypeOK
<1>2. ASSUME TapConcludes PROVE TypeOK'
  <2>1. concludeRef \in Inputs
    BY <1>2 DEF TapConcludes, TypeOK
  <2> QED  BY <1>2, <2>1, ConcludeType DEF TapConcludes, TypeOK
<1>3. ASSUME NEW m, m \in [Inputs -> {"none", "starting", "live", "restarting", "off", "typed"}],
             StopIdle(m),
             UNCHANGED <<swift, mode, retries, heard, concluded, turnVars, speechVars>>,
             seeking' \subseteq seeking
      PROVE  TypeOK'
  BY <1>3, StopListeningType DEF StopIdle, TypeOK
<1>4. ASSUME Send PROVE TypeOK'
  <2> PICK l \in Inputs : IsNext(l) /\ mic' = [mic EXCEPT ![l] = "typed"] /\ SendMessage(l)
    BY <1>4 DEF Send
  <2> QED  BY <1>4, SendMessageType DEF Send, TypeOK
<1>5. ASSUME NEW m \in {"voice", "text"}, NEW done, ResetTo(m, done) PROVE TypeOK'
  BY <1>5, StopListeningType DEF ResetTo, StopIdle, Abort, Silenced, TypeOK
<1>6. ASSUME NEW l \in Inputs, MicStarts(l) \/ MicRestarts(l) PROVE TypeOK'
  <2>1. CASE MicStarts(l)
    BY <2>1 DEF MicStarts, SetTimers, Cleared, Timers, TypeOK
  <2>2. CASE MicRestarts(l)
    BY <2>2 DEF MicRestarts, TypeOK
  <2> QED  BY <1>6, <2>1, <2>2
<1>7. ASSUME NEW l \in Inputs, DeadTrack(l) PROVE TypeOK'
  BY <1>7, VoiceAssumption DEF DeadTrack, MayRetry, TypeOK
<1>8. ASSUME NEW l \in Inputs, VoiceFrame(l) PROVE TypeOK'
  <2>1. pending' \subseteq Timers \X Inputs /\ timerRef' \in [Timers -> Inputs \cup {None}]
    BY <1>8 DEF VoiceFrame, SetTimers, Cleared, Timers, TypeOK
  <2>2. stt' \in [Inputs -> {"none", "open", "closed"}] /\ sttRef' \in Inputs \cup {None}
    BY <1>8 DEF VoiceFrame, TypeOK
  <2> QED  BY <1>8, <2>1, <2>2 DEF VoiceFrame, TypeOK
<1>9. ASSUME NEW l \in Inputs, Transcript(l) PROVE TypeOK'
  <2>1. /\ heard' \in [Inputs -> BOOLEAN]
        /\ UNCHANGED <<swift, mode, retries, seeking, concluded, speechVars>>
        /\ IF concluded[l]
             THEN Finalize(l, Cleared({"grace"}, pending), heard'[l])
             ELSE UNCHANGED <<orb, mic, stt, refVars, timerVars, turnVars>>
    BY <1>9 DEF Transcript, TypeOK
  <2>2. CASE concluded[l]
    <3>1. Cleared({"grace"}, pending) \subseteq Timers \X Inputs
      BY DEF Cleared, TypeOK
    <3> QED  BY <2>1, <2>2, <3>1, FinalizeType DEF TypeOK
  <2>3. CASE ~concluded[l]
    BY <2>1, <2>3 DEF TypeOK
  <2> QED  BY <2>2, <2>3
<1>10. ASSUME NEW k \in Timers, NEW l \in Inputs, TimerFires(k, l) PROVE TypeOK'
  <2>1. CASE k = "grace"
    <3>1. pending \ {<<k, l>>} \subseteq Timers \X Inputs
      BY DEF TypeOK
    <3> QED  BY <1>10, <2>1, <3>1, FinalizeType DEF TimerFires, TypeOK
  <2>2. CASE k # "grace"
    <3>1. pending \ {<<k, l>>} \subseteq pending
      OBVIOUS
    <3>2. Conclude(l, pending \ {<<k, l>>}) /\ UNCHANGED <<swift, mode, retries, seeking, heard, speechVars>>
      BY <1>10, <2>2 DEF TimerFires
    <3> QED  BY <3>1, <3>2, ConcludeType DEF TypeOK
  <2> QED  BY <2>1, <2>2
<1>11. ASSUME NEW t \in Turns,
              \/ OnLanguage(t) \/ OnDone(t) \/ OnDoneError(t) \/ StreamBreaks(t) \/ StreamEnds(t)
              \/ Finish(t) \/ AudioPlayed(t)
       PROVE TypeOK'
  BY <1>11 DEF OnLanguage, OpenSpeakSession, Silenced, OnDone, TurnBecomes, Forget, OnDoneError,
               Abort, StreamBreaks, StreamEnds, Finish, FinishIdle, AudioPlayed, TypeOK
<1>12. CASE UNCHANGED vars
  BY <1>12 DEF vars, TypeOK
<1>13. ASSUME NEW l \in Inputs, MicFails(l) PROVE TypeOK'
  <2>1. [mic EXCEPT ![l] = "off"] \in [Inputs -> {"none", "starting", "live", "restarting", "off", "typed"}]
    BY DEF TypeOK
  <2> QED  BY <1>13, <2>1, <1>3 DEF MicFails
<1>14. ASSUME TapStops \/ \E l \in Inputs : SttRejects(l) PROVE TypeOK'
  BY <1>14, <1>3 DEF TapStops, SttRejects, TypeOK
<1>15. ASSUME NEW t \in Turns, Unauthorized(t) PROVE TypeOK'
  BY <1>15, <1>5 DEF Unauthorized, TypeOK
<1>16. ASSUME NEW l \in Inputs, DevicesFound(l) PROVE TypeOK'
  <2>1. CASE StopIdle(mic)
    BY <1>3, <1>16, <2>1 DEF DevicesFound, TypeOK
  <2>2. CASE mic' = [mic EXCEPT ![l] = "restarting"] /\ UNCHANGED <<orb, stt, refVars, timerVars>>
    BY <1>16, <2>2 DEF DevicesFound, TypeOK
  <2> QED  BY <1>16, <2>1, <2>2 DEF DevicesFound
<1> QED
  BY <1>1, <1>2, <1>4, <1>5, <1>6, <1>7, <1>8, <1>9, <1>10, <1>11, <1>12, <1>13, <1>14, <1>15, <1>16
  DEF Next, Others, MicSteps, Reset

-----------------------------------------------------------------------------
(* Another device is looked for only for an input whose microphone started *)
(* once.                                                                   *)
Captured(l) == mic[l] \in {"live", "restarting", "off"}
Sought == \A l \in seeking : Captured(l)

LEMMA SoughtStep == TypeOK /\ Sought /\ [Next]_vars => Sought'
<1> SUFFICES ASSUME TypeOK, Sought, [Next]_vars PROVE Sought'
  OBVIOUS
<1> USE DEF listenVars
<1>0. mic \in [Inputs -> {"none", "starting", "live", "restarting", "off", "typed"}] /\ seeking \subseteq Inputs
  BY DEF TypeOK
<1>1. ASSUME seeking' \subseteq seeking, \A l \in Inputs : Captured(l) => Captured(l)' PROVE Sought'
  BY <1>0, <1>1 DEF Sought
<1>2. CASE UNCHANGED <<mic, seeking>>
  BY <1>1, <1>2 DEF Captured
<1>3. ASSUME NEW m, NEW timers, StopListening(m, timers), seeking' \subseteq seeking,
             \A l \in Inputs : Captured(l) => m[l] \in {"live", "restarting", "off"}
      PROVE  Sought'
  BY <1>1, <1>3 DEF StopListening, Stopped, Captured
<1>4. ASSUME NEW l, NEW timers, NEW text, Finalize(l, timers, text), UNCHANGED seeking PROVE Sought'
  BY <1>3, <1>4 DEF Finalize, Captured
<1>5. ASSUME NEW l, NEW timers, Conclude(l, timers), UNCHANGED seeking PROVE Sought'
  <2>1. CASE mic' = Stopped(mic)
    BY <1>1, <1>5, <2>1 DEF Stopped, Captured
  <2> QED  BY <1>2, <1>4, <1>5, <2>1 DEF Conclude
<1>6. ASSUME NEW l \in Inputs, NEW to \in {"starting", "typed"}, mic[l] = "none", mic' = [mic EXCEPT ![l] = to],
             UNCHANGED seeking
      PROVE  Sought'
  BY <1>0, <1>1, <1>6 DEF Captured
<1>7. ASSUME NEW l \in Inputs, NEW to \in {"live", "restarting"}, mic' = [mic EXCEPT ![l] = to],
             seeking' \subseteq seeking
      PROVE  Sought'
  BY <1>0, <1>1, <1>7 DEF Captured
<1>8. CASE TapStarts \/ TapConcludes \/ TapStops \/ Send
  BY <1>3, <1>5, <1>6, <1>8 DEF TapStarts, TapConcludes, TapStops, StopIdle, Send, IsNext, Captured
<1>9. ASSUME NEW l \in Inputs, MicStarts(l) \/ MicRestarts(l) PROVE Sought'
  BY <1>7, <1>9 DEF MicStarts, MicRestarts
<1>10. ASSUME NEW l \in Inputs, MicFails(l) PROVE Sought'
  <2>1. \A k \in Inputs : Captured(k) => [mic EXCEPT ![l] = "off"][k] \in {"live", "restarting", "off"}
    BY <1>0 DEF Captured
  <2> QED  BY <1>3, <1>10, <2>1 DEF MicFails, StopIdle
<1>11. ASSUME NEW l \in Inputs, DevicesFound(l) PROVE Sought'
  BY <1>3, <1>7, <1>11 DEF DevicesFound, StopIdle, Captured
<1>12. ASSUME NEW l \in Inputs, DeadTrack(l) PROVE Sought'
  <2>1. CASE seeking' = seeking \cup {l} /\ UNCHANGED mic
    BY <1>12, <2>1 DEF DeadTrack, Sought, Captured
  <2> QED  BY <1>7, <1>12, <2>1 DEF DeadTrack
<1>13. ASSUME NEW l \in Inputs,
              VoiceFrame(l) \/ Transcript(l) \/ SttRejects(l) \/ \E k \in Timers : TimerFires(k, l)
       PROVE  Sought'
  BY <1>2, <1>3, <1>4, <1>5, <1>13 DEF VoiceFrame, Transcript, SttRejects, StopIdle, TimerFires, Captured
<1>14. ASSUME NEW t \in Turns,
              \/ OnLanguage(t) \/ OnDone(t) \/ OnDoneError(t) \/ StreamBreaks(t) \/ StreamEnds(t)
              \/ Finish(t) \/ AudioPlayed(t)
       PROVE  Sought'
  BY <1>2, <1>14 DEF OnLanguage, OnDone, OnDoneError, StreamBreaks, StreamEnds, Finish, AudioPlayed
<1>15. ASSUME NEW m, NEW done, ResetTo(m, done) PROVE Sought'
  BY <1>3, <1>15 DEF ResetTo, StopIdle, Captured
<1>16. CASE UNCHANGED vars
  BY <1>2, <1>16 DEF vars
<1> QED
  BY <1>8, <1>9, <1>10, <1>11, <1>12, <1>13, <1>14, <1>15, <1>16
  DEF Next, Others, MicSteps, Reset, Unauthorized

-----------------------------------------------------------------------------
(* The orb *)

LEMMA StopListeningOrb ==
  ASSUME TypeOK, NEW m, m \in [Inputs -> {"none", "starting", "live", "restarting", "off", "typed"}],
         NEW timers, StopListening(m, timers)
  PROVE  /\ concludeRef' = None
         /\ pending' \subseteq timers
         /\ \A l \in Inputs : mic'[l] = "none" <=> m[l] = "none"
BY DEF StopListening, Stopped, Cleared

(* A turn that is asked was not asked before, so it is not spoken yet.     *)
LEMMA SendMessageOrb ==
  ASSUME TypeOK, Unspoken, NEW l \in Inputs, SendMessage(l), UNCHANGED <<speech, speakRef>>
  PROVE  /\ Unspoken'
         /\ \E t \in Turns : turn'[t] = "asked" /\ speech'[t] = "none"
         /\ \A t \in Turns : turn[t] # "none" => turn'[t] = turn[t]
<1> PICK t \in Turns : turn[t] = "none" /\ turn' = [turn EXCEPT ![t] = "asked"]
  BY DEF SendMessage
<1> QED  BY DEF Unspoken, TypeOK

LEMMA FinalizeOrb ==
  ASSUME TypeOK, Unspoken, NEW l \in Inputs, NEW timers, NEW text, Finalize(l, timers, text),
         UNCHANGED <<speech, speakRef>>
  PROVE  /\ concludeRef' = None
         /\ pending' \subseteq timers
         /\ \A k \in Inputs : mic'[k] = "none" <=> mic[k] = "none"
         /\ Unspoken' /\ ListeningEnds' /\ Asking' /\ Speaking'
<1>1. StopListening(mic, timers)
  BY DEF Finalize
<1>2. mic \in [Inputs -> {"none", "starting", "live", "restarting", "off", "typed"}]
  BY DEF TypeOK
<1>3. CASE orb' = "PROCESSING" /\ SendMessage(l)
  BY <1>1, <1>2, <1>3, StopListeningOrb, SendMessageOrb DEF ListeningEnds, Asking, Speaking
<1>4. CASE orb' = "IDLE" /\ UNCHANGED turnVars
  BY <1>1, <1>2, <1>4, StopListeningOrb DEF ListeningEnds, Asking, Speaking, Unspoken, turnVars
<1> QED  BY <1>3, <1>4 DEF Finalize

(* What conclude() does to the orb, called by a tap or by a timer of l     *)
(* that is not a grace timer.                                              *)
LEMMA ConcludeOrb ==
  ASSUME TypeOK, OrbInv, NEW l \in Inputs, mic[l] # "none",
         NEW timers, timers \subseteq pending,
         \A k \in Timers, i \in Inputs :
            <<k, i>> \in pending /\ (k = "grace" \/ i # l) => <<k, i>> \in timers,
         Conclude(l, timers), UNCHANGED <<speech, speakRef>>
  PROVE  OrbInv'
<1> USE DEF OrbInv
<1>1. CASE concluded[l]
  <2>1. pending' = timers /\ UNCHANGED <<orb, mic, concludeRef, concluded, turn>>
    BY <1>1 DEF Conclude, refVars, turnVars
  <2>2. ListeningEnds'
    <3> SUFFICES ASSUME orb = "LISTENING"
                 PROVE  \E i \in Inputs : Concluding(i)' \/ <<"grace", i>> \in pending'
      BY <2>1 DEF ListeningEnds
    <3> PICK i \in Inputs : Concluding(i) \/ <<"grace", i>> \in pending
      BY DEF ListeningEnds
    <3>1. CASE <<"grace", i>> \in pending
      BY <2>1, <3>1 DEF Timers
    <3>2. CASE Concluding(i)
      BY <1>1, <2>1, <3>2 DEF Concluding, Timers
    <3> QED  BY <3>1, <3>2
  <2> QED  BY <2>1, <2>2 DEF Started, Unspoken, Asking, Speaking
<1>2. CASE ~concluded[l] /\ Finalize(l, timers, heard[l])
  <2>1. concluded' = [concluded EXCEPT ![l] = TRUE]
    BY <1>2 DEF Conclude
  <2>2. /\ concludeRef' = None
        /\ pending' \subseteq timers
        /\ \A k \in Inputs : mic'[k] = "none" <=> mic[k] = "none"
        /\ Unspoken' /\ ListeningEnds' /\ Asking' /\ Speaking'
    BY <1>2, FinalizeOrb
  <2> QED  BY <2>1, <2>2 DEF Started, TypeOK
<1>3. CASE ~concluded[l] /\ ~Finalize(l, timers, heard[l])
  <2>1. /\ concluded' = [concluded EXCEPT ![l] = TRUE]
        /\ mic' = Stopped(mic)
        /\ StartGrace(l, timers)
        /\ UNCHANGED <<orb, concludeRef, turn>>
    BY <1>3 DEF Conclude, turnVars
  <2>2. \A k \in Inputs : mic'[k] = "none" <=> mic[k] = "none"
    BY <2>1 DEF Stopped, TypeOK
  <2>3. /\ <<"grace", l>> \in pending'
        /\ \A k \in Timers, i \in Inputs : <<k, i>> \in pending' => i = l \/ <<k, i>> \in pending
    BY <2>1 DEF StartGrace, Cleared
  <2>4. Started'
    BY <2>1, <2>2, <2>3 DEF Started, TypeOK
  <2> QED  BY <2>1, <2>3, <2>4 DEF Unspoken, ListeningEnds, Asking, Speaking
<1> QED  BY <1>1, <1>2, <1>3 DEF Conclude

(* Everything that stops listening leaves the orb idle. *)
LEMMA StopIdleOrb ==
  ASSUME TypeOK, OrbInv, NEW m, m \in [Inputs -> {"none", "starting", "live", "restarting", "off", "typed"}],
         \A l \in Inputs : m[l] = "none" => mic[l] = "none",
         StopIdle(m), UNCHANGED concluded, Unspoken'
  PROVE  OrbInv'
<1>1. /\ concludeRef' = None /\ pending' \subseteq pending
      /\ \A l \in Inputs : mic'[l] = "none" <=> m[l] = "none"
  BY StopListeningOrb DEF StopIdle
<1> QED  BY <1>1 DEF StopIdle, OrbInv, Started, ListeningEnds, Asking, Speaking

LEMMA OrbStep == TypeOK /\ Sought /\ OrbInv /\ [Next]_vars => OrbInv'
<1> SUFFICES ASSUME TypeOK, Sought, OrbInv, [Next]_vars PROVE OrbInv'
  OBVIOUS
<1> USE DEF refVars, timerVars, listenVars, speechVars, turnVars
<1>1. ASSUME TapStarts PROVE OrbInv'
  <2> PICK l \in Inputs : mic[l] = "none" /\ mic' = [mic EXCEPT ![l] = "starting"] /\ concludeRef' = l
    BY <1>1 DEF TapStarts, IsNext
  <2>1. Concluding(l)'
    BY <1>1 DEF TapStarts, Concluding, OrbInv, Started, TypeOK
  <2> QED  BY <1>1, <2>1 DEF TapStarts, OrbInv, Started, Unspoken, ListeningEnds, Asking, Speaking, TypeOK
<1>2. ASSUME TapConcludes PROVE OrbInv'
  <2>1. concludeRef \in Inputs /\ mic[concludeRef] # "none"
    BY <1>2 DEF TapConcludes, TypeOK, OrbInv, Started
  <2> QED  BY <1>2, <2>1, ConcludeOrb DEF TapConcludes
<1>3. ASSUME TapStops \/ \E l \in Inputs : SttRejects(l) PROVE OrbInv'
  <2>1. StopIdle(mic) /\ UNCHANGED <<concluded, turn, speech, speakRef>>
    BY <1>3 DEF TapStops, SttRejects
  <2>2. Unspoken' /\ mic \in [Inputs -> {"none", "starting", "live", "restarting", "off", "typed"}]
    BY <2>1 DEF OrbInv, Unspoken, TypeOK
  <2> QED  BY <2>1, <2>2, StopIdleOrb
<1>4. ASSUME NEW l \in Inputs, MicFails(l) PROVE OrbInv'
  <2>1. StopIdle([mic EXCEPT ![l] = "off"]) /\ UNCHANGED <<concluded, turn, speech, speakRef>>
    BY <1>4 DEF MicFails
  <2>2. /\ Unspoken'
        /\ [mic EXCEPT ![l] = "off"] \in [Inputs -> {"none", "starting", "live", "restarting", "off", "typed"}]
        /\ \A k \in Inputs : [mic EXCEPT ![l] = "off"][k] = "none" => mic[k] = "none"
    BY <2>1 DEF OrbInv, Unspoken, TypeOK
  <2> QED  BY <2>1, <2>2, StopIdleOrb
<1>5. ASSUME Send PROVE OrbInv'
  <2> PICK l \in Inputs : mic[l] = "none" /\ mic' = [mic EXCEPT ![l] = "typed"] /\ SendMessage(l)
    BY <1>5 DEF Send, IsNext
  <2>1. UNCHANGED <<orb, concluded, concludeRef, pending, speech, speakRef>>
    BY <1>5 DEF Send
  <2>2. /\ Unspoken'
        /\ \A t \in Turns : turn[t] # "none" => turn'[t] = turn[t]
    BY <2>1, SendMessageOrb DEF OrbInv
  <2>3. Asking'
    BY <2>1, <2>2 DEF OrbInv, Asking
  <2>4. ListeningEnds'
    BY <2>1 DEF OrbInv, ListeningEnds, Concluding, TypeOK
  <2>5. Started'
    BY <2>1 DEF OrbInv, Started, TypeOK
  <2> QED  BY <2>1, <2>2, <2>3, <2>4, <2>5 DEF OrbInv, Speaking
<1>6. ASSUME NEW m, NEW done, ResetTo(m, done) PROVE OrbInv'
  <2>1. /\ StopIdle(mic) /\ UNCHANGED concluded
        /\ speech' = Silenced(speakRef) /\ speakRef' = None
        /\ turn' = [t \in Turns |-> IF t \in done \ {None} THEN "over" ELSE turn[t]]
    BY <1>6 DEF ResetTo, Abort
  <2>2. Unspoken' /\ mic \in [Inputs -> {"none", "starting", "live", "restarting", "off", "typed"}]
    BY <2>1 DEF OrbInv, Unspoken, Silenced, TypeOK
  <2> QED  BY <2>1, <2>2, StopIdleOrb
<1>7. ASSUME NEW l \in Inputs, MicStarts(l) PROVE OrbInv'
  <2>1. /\ mic[l] = "starting" /\ mic' = [mic EXCEPT ![l] = "live"]
        /\ pending' = Cleared({"silence"}, pending) \cup {<<k, l>> : k \in {"silence", "max"}}
        /\ UNCHANGED <<orb, concluded, concludeRef, turn, speech, speakRef>>
    BY <1>7 DEF MicStarts, SetTimers
  <2>2. /\ <<"max", l>> \in pending'
        /\ \A k \in Inputs : /\ <<"max", k>> \in pending => <<"max", k>> \in pending'
                             /\ <<"grace", k>> \in pending => <<"grace", k>> \in pending'
        /\ \A k \in Timers, i \in Inputs : <<k, i>> \in pending' => i = l \/ <<k, i>> \in pending
    BY <2>1 DEF Cleared
  <2>3. ListeningEnds'
    BY <2>1, <2>2 DEF OrbInv, ListeningEnds, Concluding, TypeOK
  <2>4. Started'
    BY <2>1, <2>2 DEF OrbInv, Started, TypeOK
  <2> QED  BY <2>1, <2>3, <2>4 DEF OrbInv, Unspoken, Asking, Speaking
<1>8. ASSUME NEW l \in Inputs, MicRestarts(l) \/ DeadTrack(l) \/ DevicesFound(l) PROVE OrbInv'
  <2>1. mic \in [Inputs -> {"none", "starting", "live", "restarting", "off", "typed"}] /\ Captured(l)
    BY <1>8 DEF MicRestarts, DeadTrack, DevicesFound, Sought, Captured, TypeOK
  <2>2. CASE StopIdle(mic) /\ DevicesFound(l)
    <3>1. UNCHANGED <<concluded, turn, speech, speakRef>>
      BY <2>2 DEF DevicesFound
    <3>2. Unspoken'
      BY <3>1 DEF OrbInv, Unspoken
    <3> QED  BY <2>1, <2>2, <3>1, <3>2, StopIdleOrb
  <2>3. ASSUME NEW to \in {"restarting", "live"}, mic' = mic \/ mic' = [mic EXCEPT ![l] = to],
               UNCHANGED <<orb, concluded, concludeRef, pending, turn, speech, speakRef>>
        PROVE  OrbInv'
    <3>1. ASSUME NEW i \in Inputs
          PROVE  /\ mic'[i] = "none" <=> mic[i] = "none"
                 /\ mic[i] = "starting" => mic'[i] = "starting"
      BY <2>1, <2>3 DEF Captured
    <3>2. concludeRef # None => concludeRef \in Inputs
      BY DEF TypeOK
    <3>3. Started'
      BY <2>3, <3>1, <3>2 DEF OrbInv, Started
    <3>4. ASSUME NEW i \in Inputs, Concluding(i) \/ <<"grace", i>> \in pending
          PROVE  (Concluding(i) \/ <<"grace", i>> \in pending)'
      BY <2>3, <3>1, <3>4 DEF Concluding
    <3>5. ListeningEnds'
      BY <2>3, <3>4 DEF OrbInv, ListeningEnds
    <3> QED  BY <2>3, <3>3, <3>5 DEF OrbInv, Unspoken, Asking, Speaking
  <2>4. CASE ~StopIdle(mic) \/ ~DevicesFound(l)
    <3>1. UNCHANGED <<orb, concluded, concludeRef, pending, turn, speech, speakRef>>
      BY <1>8, <2>4 DEF MicRestarts, DeadTrack, DevicesFound
    <3>2. \E to \in {"restarting", "live"} : mic' = mic \/ mic' = [mic EXCEPT ![l] = to]
      BY <1>8, <2>4 DEF MicRestarts, DeadTrack, DevicesFound
    <3> QED  BY <2>3, <3>1, <3>2
  <2> QED  BY <2>2, <2>4
<1>9. ASSUME NEW l \in Inputs, VoiceFrame(l) PROVE OrbInv'
  <2>1. /\ mic[l] = "live"
        /\ pending' = Cleared({"silence"}, pending) \cup {<<k, l>> : k \in {"silence"}}
        /\ UNCHANGED <<orb, mic, concluded, concludeRef, turn, speech, speakRef>>
    BY <1>9 DEF VoiceFrame, SetTimers
  <2>2. /\ \A k \in Inputs : /\ <<"max", k>> \in pending => <<"max", k>> \in pending'
                             /\ <<"grace", k>> \in pending => <<"grace", k>> \in pending'
        /\ \A k \in Timers, i \in Inputs : <<k, i>> \in pending' => i = l \/ <<k, i>> \in pending
    BY <2>1 DEF Cleared
  <2> QED  BY <2>1, <2>2 DEF OrbInv, Started, Unspoken, ListeningEnds, Concluding, Asking, Speaking
<1>10. ASSUME NEW l \in Inputs, Transcript(l) PROVE OrbInv'
  <2>1. /\ UNCHANGED <<concluded, speech, speakRef>>
        /\ IF concluded[l]
             THEN Finalize(l, Cleared({"grace"}, pending), heard'[l])
             ELSE UNCHANGED <<orb, mic, concludeRef, pending, turn>>
    BY <1>10 DEF Transcript
  <2>2. CASE concluded[l]
    <3>1. Cleared({"grace"}, pending) \subseteq pending
      BY DEF Cleared
    <3>2. /\ concludeRef' = None
          /\ pending' \subseteq pending
          /\ \A k \in Inputs : mic'[k] = "none" <=> mic[k] = "none"
          /\ Unspoken' /\ ListeningEnds' /\ Asking' /\ Speaking'
      BY <2>1, <2>2, <3>1, FinalizeOrb DEF OrbInv
    <3> QED  BY <2>1, <3>2 DEF OrbInv, Started
  <2>3. CASE ~concluded[l]
    BY <2>1, <2>3 DEF OrbInv, Started, Unspoken, ListeningEnds, Concluding, Asking, Speaking
  <2> QED  BY <2>2, <2>3
<1>11. ASSUME NEW k \in Timers, NEW l \in Inputs, TimerFires(k, l) PROVE OrbInv'
  <2>1. CASE k = "grace"
    <3>1. Finalize(l, pending \ {<<k, l>>}, heard[l]) /\ UNCHANGED <<concluded, speech, speakRef>>
      BY <1>11, <2>1 DEF TimerFires
    <3>2. /\ concludeRef' = None
          /\ pending' \subseteq pending
          /\ \A i \in Inputs : mic'[i] = "none" <=> mic[i] = "none"
          /\ Unspoken' /\ ListeningEnds' /\ Asking' /\ Speaking'
      BY <3>1, FinalizeOrb DEF OrbInv
    <3> QED  BY <3>1, <3>2 DEF OrbInv, Started
  <2>2. CASE k # "grace"
    <3>1. /\ Conclude(l, pending \ {<<k, l>>}) /\ UNCHANGED <<speech, speakRef>>
          /\ mic[l] # "none"
      BY <1>11, <2>2 DEF TimerFires, OrbInv, Started
    <3>2. /\ pending \ {<<k, l>>} \subseteq pending
          /\ \A j \in Timers, i \in Inputs :
               <<j, i>> \in pending /\ (j = "grace" \/ i # l) => <<j, i>> \in pending \ {<<k, l>>}
      BY <2>2
    <3> QED  BY <3>1, <3>2, ConcludeOrb
  <2> QED  BY <2>1, <2>2
<1>12. ASSUME NEW t \in Turns,
              \/ OnLanguage(t) \/ OnDone(t) \/ OnDoneError(t) \/ StreamBreaks(t) \/ StreamEnds(t)
              \/ Finish(t) \/ AudioPlayed(t)
       PROVE OrbInv'
  <2>1. Started' /\ ListeningEnds'
    BY <1>12 DEF OnLanguage, OnDone, OnDoneError, StreamBreaks, StreamEnds, Finish, FinishIdle, AudioPlayed,
                 OrbInv, Started, ListeningEnds, Concluding
  <2>2. t # None
    BY DEF Turns, None
  <2>3. CASE OnLanguage(t)
    BY <2>1, <2>2, <2>3 DEF OnLanguage, OpenSpeakSession, Silenced, OrbInv, Unspoken, Asking, Speaking, TypeOK
  <2>4. CASE OnDone(t)
    BY <2>1, <2>4 DEF OnDone, TurnBecomes, OrbInv, Unspoken, Asking, Speaking, TypeOK
  <2>5. CASE OnDoneError(t) \/ StreamBreaks(t) \/ StreamEnds(t)
    BY <2>1, <2>2, <2>5 DEF OnDoneError, StreamBreaks, StreamEnds, TurnBecomes, Abort, Silenced, OrbInv, Unspoken,
                            Asking, Speaking, TypeOK
  <2>6. CASE Finish(t) \/ AudioPlayed(t)
    BY <2>1, <2>6 DEF Finish, FinishIdle, AudioPlayed, OrbInv, Unspoken, Asking, Speaking, TypeOK
  <2> QED  BY <1>12, <2>3, <2>4, <2>5, <2>6
<1>13. CASE UNCHANGED vars
  BY <1>13 DEF vars, OrbInv, Started, Unspoken, ListeningEnds, Concluding, Asking, Speaking
<1> QED
  BY <1>1, <1>2, <1>3, <1>4, <1>5, <1>6, <1>7, <1>8, <1>9, <1>10, <1>11, <1>12, <1>13
  DEF Next, Others, MicSteps, Reset, Unauthorized

-----------------------------------------------------------------------------
(* The theorems *)

(* Every variable of a voice session keeps its type.                       *)
THEOREM VoiceTypes == Spec => []TypeOK
<1>1. Init => TypeOK
  BY VoiceAssumption DEF Init, TypeOK
<1> QED  BY <1>1, TypeStep, PTL DEF Spec

(* Each input that is listening will be concluded, each answer waited for  *)
(* is still to come, each voice shown has a session: what the orb shows is *)
(* going on, for any number of inputs and turns.                           *)
THEOREM OrbInvariant == Spec => [](TypeOK /\ Sought /\ OrbInv)
<1>1. Init => TypeOK /\ Sought /\ OrbInv
  BY VoiceAssumption
  DEF Init, TypeOK, Sought, OrbInv, Started, Unspoken, ListeningEnds, Asking, Speaking
<1> QED  BY <1>1, TypeStep, SoughtStep, OrbStep, PTL DEF Spec

(* The orb never shows "Listening", "Processing" or "Speaking" over        *)
(* nothing: a microphone or a timer, a turn whose stream is open, or a     *)
(* speak session is behind it (useVoiceSession.js:293-302, 796-808).       *)
THEOREM OrbIsTrue == Spec => []OrbMeansWork
<1>1. OrbInv => OrbMeansWork
  BY DEF OrbInv, ListeningEnds, Concluding, Asking, Speaking, OrbMeansWork, MicPending
<1> QED  BY <1>1, OrbInvariant, PTL

(* Only a session that opens, finishes or is silenced can change which one *)
(* has a socket.                                                           *)
LEMMA SpeakerStep == TypeOK /\ OneSocket /\ [Next]_vars => OneSocket'
<1> SUFFICES ASSUME TypeOK, OneSocket, [Next]_vars PROVE OneSocket'
  OBVIOUS
<1> USE DEF speechVars
<1>1. ASSUME UNCHANGED speechVars PROVE OneSocket'
  BY <1>1 DEF OneSocket
<1>2. ASSUME NEW t \in Turns \cup {None}, Abort(t) PROVE OneSocket'
  BY <1>2 DEF Abort, Silenced, OneSocket, TypeOK
<1>3. ASSUME NEW t \in Turns, OnLanguage(t) PROVE OneSocket'
  <2>1. /\ speech' = [Silenced(speakRef) EXCEPT ![t] = "open"] /\ speakRef' = t
    BY <1>3 DEF OnLanguage, OpenSpeakSession
  <2>2. /\ Silenced(speakRef) \in [Turns -> {"none", "open", "finishing", "draining", "over"}]
        /\ \A u \in Turns : Silenced(speakRef)[u] \notin {"open", "finishing"}
    BY DEF Silenced, OneSocket, TypeOK, None, Turns
  <2> QED  BY <2>1, <2>2 DEF OneSocket
<1>4. ASSUME NEW t \in Turns, OnDone(t) PROVE OneSocket'
  BY <1>4 DEF OnDone, OneSocket, TypeOK
<1>5. ASSUME NEW t \in Turns, Finish(t) \/ AudioPlayed(t) PROVE OneSocket'
  BY <1>5 DEF Finish, FinishIdle, AudioPlayed, OneSocket, TypeOK
<1>6. ASSUME NEW t \in Turns, OnDoneError(t) PROVE OneSocket'
  BY <1>1, <1>2, <1>6 DEF OnDoneError
<1>7. ASSUME NEW m, NEW done, ResetTo(m, done) PROVE OneSocket'
  <2>1. speakRef \in Turns \cup {None}
    BY DEF TypeOK
  <2> QED  BY <1>2, <1>7, <2>1 DEF ResetTo
<1>8. CASE TapStarts \/ TapConcludes \/ TapStops \/ Send
  BY <1>1, <1>8 DEF TapStarts, TapConcludes, TapStops, Send
<1>9. ASSUME NEW l \in Inputs,
             \/ MicSteps(l) \/ DeadTrack(l) \/ VoiceFrame(l) \/ Transcript(l) \/ SttRejects(l)
             \/ \E k \in Timers : TimerFires(k, l)
      PROVE  OneSocket'
  BY <1>1, <1>9 DEF MicSteps, MicStarts, MicRestarts, MicFails, DevicesFound, DeadTrack, VoiceFrame,
                   Transcript, SttRejects, TimerFires
<1>10. ASSUME NEW t \in Turns, StreamBreaks(t) \/ StreamEnds(t) \/ Unauthorized(t) PROVE OneSocket'
  BY <1>1, <1>7, <1>10 DEF StreamBreaks, StreamEnds, Unauthorized
<1>11. CASE UNCHANGED vars
  BY <1>1, <1>11 DEF vars
<1> QED
  BY <1>3, <1>4, <1>5, <1>6, <1>7, <1>8, <1>9, <1>10, <1>11 DEF Next, Others, Reset

(* At most one speak session has a socket, and it is the one in the ref,   *)
(* whichever turns overlap (useVoiceSession.js:226).  Not that one voice   *)
(* sounds at a time: what a session that has ended left to be played goes  *)
(* on under the next one (OneVoice, which does not hold).                  *)
THEOREM OneSocketAtATime == Spec => []OneSocket
<1>1. Init => OneSocket
  BY DEF Init, OneSocket
<1> QED  BY <1>1, VoiceTypes, SpeakerStep, PTL DEF Spec

-----------------------------------------------------------------------------
(* Leashes: what listens is in the refs, and a timer will end it.          *)

(* One input at a time owns the refs and the timers, and it is in one of   *)
(* three states: its microphone is starting; it is live (or restarting)    *)
(* under the ceiling; or it was concluded and waits for a transcript.      *)
Leash ==
  /\ \A k \in Timers, l \in Inputs : <<k, l>> \in pending => timerRef[k] = l /\ l \in {micRef, sttRef}
  /\ \A l \in Inputs :
       /\ mic[l] = "none" => stt[l] = "none"
       /\ mic[l] = "starting" =>
            micRef = None /\ sttRef = None /\ concludeRef = l /\ ~concluded[l] /\ stt[l] = "none"
       /\ mic[l] \in {"live", "restarting"} <=> micRef = l
       /\ stt[l] = "open" <=> sttRef = l
       /\ micRef = l => ~concluded[l] /\ stt[l] # "closed" /\ <<"max", l>> \in pending
       /\ sttRef = l => IF concluded[l] THEN mic[l] = "off" /\ <<"grace", l>> \in pending /\ micRef = None
                                        ELSE micRef = l
       /\ concludeRef = l => l \in {micRef, sttRef} \/ mic[l] = "starting"

(* An input that was asked about is over, and was asked about once.        *)
OverOnceAsked ==
  /\ \A t \in Turns : turn[t] # "none" =>
       source[t] \in Inputs /\ mic[source[t]] \in {"off", "typed"} /\ stt[source[t]] # "open"
  /\ \A t, u \in Turns : t # u /\ turn[t] # "none" /\ turn[u] # "none" => source[t] # source[u]

(* Another device is looked for while the microphone is still live.        *)
SoughtLive == \A l \in seeking : mic[l] = "live"

LeashInv == swift => Leash /\ OverOnceAsked /\ SoughtLive

(* Nothing listens. *)
Hushed ==
  /\ micRef = None /\ sttRef = None /\ concludeRef = None /\ pending = {}
  /\ \A l \in Inputs :
       /\ mic[l] \notin {"starting", "live", "restarting"} /\ stt[l] # "open"
       /\ mic[l] = "none" => stt[l] = "none"

LEMMA HushedLeash == Hushed => Leash
BY DEF Hushed, Leash, Inputs, None, Timers

(* Once no microphone is starting, stopListening hushes what there is.     *)
LEMMA StopHushes ==
  ASSUME TypeOK, Leash, NEW m, NEW timers, timers \subseteq pending, StopListening(m, timers),
         m \in [Inputs -> {"none", "starting", "live", "restarting", "off", "typed"}],
         \A l \in Inputs : /\ m[l] \notin {"starting", "restarting"}
                           /\ m[l] = "live" => mic[l] = "live"
                           /\ m[l] = "none" => mic[l] = "none"
  PROVE  /\ Hushed'
         /\ \A l \in Inputs : /\ m[l] \in {"live", "off"} => mic'[l] = "off"
                              /\ m[l] = "typed" => mic'[l] = "typed"
                              /\ stt[l] # "open" => stt'[l] = stt[l]
<1>0. /\ m \in [Inputs -> {"none", "starting", "live", "restarting", "off", "typed"}]
      /\ \A l \in Inputs : /\ m[l] \notin {"starting", "restarting"}
                           /\ m[l] = "live" => mic[l] = "live"
                           /\ m[l] = "none" => mic[l] = "none"
  OBVIOUS
<1>1. /\ mic' = [l \in Inputs |-> IF l = micRef /\ m[l] = "live" THEN "off" ELSE m[l]]
      /\ stt' = [l \in Inputs |-> IF l = sttRef THEN "closed" ELSE stt[l]]
      /\ micRef' = None /\ sttRef' = None /\ concludeRef' = None
      /\ pending' = Cleared(Timers, timers)
  BY DEF StopListening, Stopped, ClosedSocket
<1>2. pending' = {}
  <2>1. ASSUME NEW p \in pending' PROVE FALSE
    <3>1. p \in pending /\ p \in Timers \X Inputs /\ p[2] # timerRef[p[1]]
      BY <1>1, <2>1 DEF Cleared, TypeOK
    <3>2. p = <<p[1], p[2]>> /\ p[1] \in Timers /\ p[2] \in Inputs
      BY <3>1
    <3> QED  BY <3>1, <3>2 DEF Leash
  <2> QED  BY <2>1
<1>3. ASSUME NEW l \in Inputs
      PROVE  /\ mic'[l] \notin {"starting", "live", "restarting"} /\ stt'[l] # "open"
             /\ mic'[l] = "none" => stt'[l] = "none"
             /\ m[l] \in {"live", "off"} => mic'[l] = "off"
             /\ m[l] = "typed" => mic'[l] = "typed"
             /\ stt[l] # "open" => stt'[l] = stt[l]
  <2>0. /\ m[l] \in {"none", "starting", "live", "restarting", "off", "typed"}
        /\ m[l] \notin {"starting", "restarting"}
        /\ m[l] = "live" => mic[l] = "live"
        /\ m[l] = "none" => mic[l] = "none"
    BY <1>0
  <2>1. m[l] = "live" => micRef = l
    BY <2>0 DEF Leash
  <2>2. /\ stt[l] = "open" <=> sttRef = l
        /\ mic[l] = "none" => stt[l] = "none"
    BY DEF Leash
  <2>3. /\ mic'[l] = IF l = micRef /\ m[l] = "live" THEN "off" ELSE m[l]
        /\ stt'[l] = IF l = sttRef THEN "closed" ELSE stt[l]
    BY <1>1
  <2> QED  BY <2>0, <2>1, <2>2, <2>3
<1> QED  BY <1>1, <1>2, <1>3 DEF Hushed

(* What stops listening leaves the turns that were asked as they were.     *)
LEMMA StopIdleLeash ==
  ASSUME TypeOK, Leash, OverOnceAsked, NEW m, StopListening(m, pending),
         m \in [Inputs -> {"none", "starting", "live", "restarting", "off", "typed"}],
         \A l \in Inputs : /\ m[l] \notin {"starting", "restarting"}
                           /\ m[l] = "live" => mic[l] = "live"
                           /\ m[l] = "none" => mic[l] = "none"
                           /\ mic[l] \in {"off", "typed"} => m[l] = mic[l],
         \A t \in Turns : turn'[t] # "none" <=> turn[t] # "none", UNCHANGED source
  PROVE  Leash' /\ OverOnceAsked'
<1>1. Hushed' /\ \A l \in Inputs : mic[l] \in {"off", "typed"} => mic'[l] \in {"off", "typed"}
  <2>1. pending \subseteq pending
    OBVIOUS
  <2>2. /\ Hushed'
        /\ \A l \in Inputs : /\ m[l] \in {"live", "off"} => mic'[l] = "off"
                             /\ m[l] = "typed" => mic'[l] = "typed"
    BY <2>1, StopHushes
  <2> QED  BY <2>2
<1>2. Leash'
  BY <1>1, HushedLeash, PTL
<1>3. OverOnceAsked'
  BY <1>1 DEF OverOnceAsked, Hushed
<1> QED  BY <1>2, <1>3

(* A turn that is asked about an input nobody asked about before. *)
LEMMA SendOnce ==
  ASSUME TypeOK, OverOnceAsked, NEW l \in Inputs, SendMessage(l),
         mic[l] \notin {"off", "typed"} \/ stt[l] = "open",
         mic'[l] \in {"off", "typed"}, stt'[l] # "open",
         \A k \in Inputs : mic[k] \in {"off", "typed"} /\ stt[k] # "open" =>
                            mic'[k] \in {"off", "typed"} /\ stt'[k] # "open"
  PROVE  OverOnceAsked'
<1>1. PICK t \in Turns : /\ turn[t] = "none" /\ turn' = [turn EXCEPT ![t] = "asked"]
                        /\ source' = [source EXCEPT ![t] = l]
  BY DEF SendMessage
<1>2. /\ turn'[t] = "asked" /\ source'[t] = l
      /\ \A u \in Turns : u # t => turn'[u] = turn[u] /\ source'[u] = source[u]
  BY <1>1 DEF TypeOK
<1>3. \A u \in Turns : turn[u] # "none" => source[u] # l
  BY DEF OverOnceAsked
<1> QED  BY <1>1, <1>2, <1>3 DEF OverOnceAsked

(* The input that owns the refs, once microphones have started.            *)
Owner(l) == l \in {micRef, sttRef}

LEMMA FinalizeLeash ==
  ASSUME TypeOK, Leash, OverOnceAsked, ~MicPending, NEW l \in Inputs, Owner(l),
         NEW timers, timers \subseteq pending, NEW text, Finalize(l, timers, text)
  PROVE  Leash' /\ OverOnceAsked'
<1>0. \A k \in Inputs : mic[k] \notin {"starting", "restarting"}
  BY DEF MicPending
<1>1. mic \in [Inputs -> {"none", "starting", "live", "restarting", "off", "typed"}]
  BY DEF TypeOK
<1>2. /\ Hushed'
      /\ \A k \in Inputs : /\ mic[k] \in {"live", "off"} => mic'[k] = "off"
                           /\ mic[k] = "typed" => mic'[k] = "typed"
  BY <1>0, <1>1, StopHushes DEF Finalize
<1>3. Leash'
  BY <1>2, HushedLeash, PTL
<1>4. mic[l] = "live" \/ (mic[l] = "off" /\ stt[l] = "open")
  BY <1>0 DEF Leash, Owner
<1>5. CASE SendMessage(l)
  BY <1>2, <1>3, <1>4, <1>5, SendOnce DEF Hushed
<1>6. CASE UNCHANGED turnVars
  BY <1>2, <1>3, <1>6 DEF OverOnceAsked, Hushed, turnVars
<1> QED  BY <1>5, <1>6 DEF Finalize

(* Voice was heard and the transcript is still to come: the grace timer    *)
(* takes the place of the microphone.                                      *)
LEMMA GraceLeash ==
  ASSUME TypeOK, Leash, OverOnceAsked, ~MicPending, NEW l \in Inputs, Owner(l), ~concluded[l],
         VoiceDetected(l), NEW timers, timers \subseteq pending, StartGrace(l, timers),
         mic' = Stopped(mic), micRef' = None, concluded' = [concluded EXCEPT ![l] = TRUE],
         UNCHANGED <<stt, sttRef, concludeRef, turnVars>>
  PROVE  Leash' /\ OverOnceAsked'
<1>0. mic[l] = "live" /\ micRef = l /\ stt[l] = "open" /\ sttRef = l
  BY DEF Leash, Owner, MicPending, VoiceDetected, TypeOK
<1>1. /\ mic'[l] = "off" /\ concluded'[l]
      /\ \A k \in Inputs : k # l => mic'[k] = mic[k] /\ concluded'[k] = concluded[k]
  BY <1>0 DEF Stopped, TypeOK
<1>2. \A k \in Inputs : k # l => /\ mic[k] \notin {"starting", "live", "restarting"}
                               /\ stt[k] # "open" /\ concludeRef # k
  BY <1>0 DEF Leash, MicPending
<1>3. /\ pending' \subseteq pending \cup {<<"grace", l>>} /\ <<"grace", l>> \in pending'
      /\ timerRef' = [timerRef EXCEPT !["silence"] = None, !["grace"] = l]
      /\ \A i \in Inputs : <<"silence", i>> \in pending' => i # timerRef["silence"] /\ <<"silence", i>> \in pending
  BY DEF StartGrace, Cleared
<1>4. ASSUME NEW k \in Timers, NEW i \in Inputs, <<k, i>> \in pending'
      PROVE  timerRef'[k] = i /\ i = l
  <2>1. CASE k = "grace"
    <3>1. <<k, i>> = <<"grace", l>> \/ <<k, i>> \in pending
      BY <1>3, <1>4
    <3>2. i = l
      BY <1>0, <3>1 DEF Leash
    <3> QED  BY <1>3, <2>1, <3>2 DEF TypeOK, Timers
  <2>2. CASE k = "silence"
    BY <1>3, <1>4, <2>2 DEF Leash
  <2>3. CASE k = "max"
    <3>1. <<k, i>> \in pending
      BY <1>3, <1>4, <2>3
    <3> QED  BY <1>0, <1>3, <2>3, <3>1 DEF Leash, TypeOK, Timers
  <2> QED  BY <2>1, <2>2, <2>3 DEF Timers
<1>5. Leash'
  <2>1. micRef' \notin Inputs /\ sttRef' = l /\ UNCHANGED <<stt, sttRef, concludeRef>>
    BY <1>0 DEF Inputs, None
  <2>2. ASSUME NEW k \in Inputs, k # l
        PROVE  /\ mic'[k] \notin {"starting", "live", "restarting"} /\ stt'[k] # "open"
               /\ mic'[k] = "none" => stt'[k] = "none"
               /\ micRef' # k /\ sttRef' # k /\ concludeRef' # k
    BY <1>1, <1>2, <2>1, <2>2 DEF Leash
  <2> QED  BY <1>0, <1>1, <1>3, <1>4, <2>1, <2>2 DEF Leash
<1>6. OverOnceAsked'
  BY <1>0, <1>1 DEF OverOnceAsked, turnVars
<1> QED  BY <1>5, <1>6

LEMMA ConcludeLeash ==
  ASSUME TypeOK, Leash, OverOnceAsked, ~MicPending, NEW l \in Inputs, Owner(l),
         NEW timers, timers \subseteq pending, Conclude(l, timers),
         \A k \in Timers, i \in Inputs : <<k, i>> \in pending /\ (k = "grace" \/ i # l) => <<k, i>> \in timers
  PROVE  Leash' /\ OverOnceAsked'
<1>1. CASE concluded[l]
  <2>1. /\ pending' = timers
        /\ timerRef' = [k \in Timers |-> IF <<k, timerRef[k]>> \in timers THEN timerRef[k] ELSE None]
        /\ UNCHANGED <<mic, stt, micRef, sttRef, concludeRef, concluded, turn, source>>
    BY <1>1 DEF Conclude, refVars, turnVars
  <2>2. sttRef = l /\ micRef = None /\ mic[l] = "off" /\ <<"grace", l>> \in pending'
    BY <1>1, <2>1 DEF Leash, Owner, Timers
  <2>3. ASSUME NEW k \in Timers, NEW i \in Inputs, <<k, i>> \in pending'
        PROVE  timerRef'[k] = i /\ i \in {micRef', sttRef'}
    BY <2>1, <2>3 DEF Leash
  <2>4. ASSUME NEW i \in Inputs
        PROVE  /\ micRef' # i
               /\ sttRef' = i => i = l
    BY <2>1, <2>2 DEF Inputs, None
  <2>5. Leash'
    BY <2>1, <2>2, <2>3, <2>4 DEF Leash
  <2> QED  BY <2>1, <2>5 DEF OverOnceAsked
<1>2. CASE ~concluded[l] /\ (heard[l] \/ ~VoiceDetected(l))
  BY <1>2, FinalizeLeash DEF Conclude
<1>3. CASE ~concluded[l] /\ ~(heard[l] \/ ~VoiceDetected(l))
  BY <1>3, GraceLeash DEF Conclude
<1> QED  BY <1>1, <1>2, <1>3

(* What does not touch the listening leaves the leashes as they are.       *)
LEMMA QuietLeash ==
  ASSUME TypeOK, Leash, OverOnceAsked,
         UNCHANGED <<mic, concluded, stt, micRef, sttRef, concludeRef, pending, timerRef, source>>,
         \A t \in Turns : turn'[t] # "none" => turn[t] # "none"
  PROVE  Leash' /\ OverOnceAsked'
BY DEF Leash, OverOnceAsked

(* The fetch in the ref is that of a turn that was asked.                  *)
Fetched == fetchRef # None => turn[fetchRef] # "none"

LEMMA FetchStep == TypeOK /\ Fetched /\ [Next]_vars => Fetched'
<1> SUFFICES ASSUME TypeOK, Fetched, [Next]_vars PROVE Fetched'
  OBVIOUS
<1> USE DEF turnVars, listenVars
<1>1. CASE UNCHANGED turnVars
  BY <1>1 DEF Fetched
<1>2. ASSUME NEW l, SendMessage(l) PROVE Fetched'
  BY <1>2 DEF SendMessage, Fetched, TypeOK
<1>3. ASSUME NEW l, NEW timers, NEW text, Finalize(l, timers, text) PROVE Fetched'
  BY <1>1, <1>2, <1>3 DEF Finalize
<1>4. ASSUME NEW l, NEW timers, Conclude(l, timers) PROVE Fetched'
  BY <1>1, <1>3, <1>4 DEF Conclude
<1>5. ASSUME NEW t \in Turns, NEW how \in {"done", "over"}, TurnBecomes(t, how) PROVE Fetched'
  BY <1>5 DEF TurnBecomes, Forget, Fetched, TypeOK
<1>6. ASSUME NEW m, NEW done, ResetTo(m, done) PROVE Fetched'
  BY <1>6 DEF ResetTo, Fetched
<1>7. CASE TapStarts \/ TapConcludes \/ TapStops \/ Send
  BY <1>1, <1>2, <1>4, <1>7 DEF TapStarts, TapConcludes, TapStops, Send
<1>8. ASSUME NEW l \in Inputs,
             \/ MicSteps(l) \/ DeadTrack(l) \/ VoiceFrame(l) \/ Transcript(l) \/ SttRejects(l)
             \/ \E k \in Timers : TimerFires(k, l)
      PROVE  Fetched'
  BY <1>1, <1>3, <1>4, <1>8 DEF MicSteps, MicStarts, MicRestarts, MicFails, DevicesFound, DeadTrack,
                               VoiceFrame, Transcript, SttRejects, TimerFires
<1>9. ASSUME NEW t \in Turns,
             \/ OnLanguage(t) \/ OnDone(t) \/ OnDoneError(t) \/ StreamBreaks(t) \/ StreamEnds(t)
              \/ Finish(t) \/ AudioPlayed(t)
      PROVE  Fetched'
  BY <1>1, <1>5, <1>9 DEF OnLanguage, OnDone, OnDoneError, StreamBreaks, StreamEnds, Finish, AudioPlayed
<1>10. CASE UNCHANGED vars
  BY <1>1, <1>10 DEF vars
<1> QED
  BY <1>6, <1>7, <1>8, <1>9, <1>10 DEF Next, Others, Reset, Unauthorized

(* A live capture is given up for another one.                             *)
LEMMA RestartLeash ==
  ASSUME TypeOK, Leash, OverOnceAsked, NEW l \in Inputs, mic[l] = "live", mic' = [mic EXCEPT ![l] = "restarting"],
         UNCHANGED <<concluded, stt, micRef, sttRef, concludeRef, pending, timerRef, turn, source>>
  PROVE  Leash' /\ OverOnceAsked'
<1>1. mic'[l] = "restarting" /\ \A k \in Inputs : k # l => mic'[k] = mic[k]
  BY DEF TypeOK
<1>2. Leash'
  BY <1>1 DEF Leash
<1> QED  BY <1>1, <1>2 DEF OverOnceAsked

(* The steps of a microphone that is starting.                             *)
LEMMA MicLeash ==
  ASSUME TypeOK, Leash, OverOnceAsked, SoughtLive, NEW l \in Inputs, MicSteps(l)
  PROVE  Leash' /\ OverOnceAsked'
<1> USE DEF refVars, timerVars, turnVars
<1>0. /\ mic \in [Inputs -> {"none", "starting", "live", "restarting", "off", "typed"}]
      /\ l # None
  BY DEF TypeOK, Inputs, None
<1>1. CASE MicStarts(l)
  <2>1. /\ mic[l] = "starting" /\ mic' = [mic EXCEPT ![l] = "live"] /\ micRef' = l
        /\ timerRef' = [k \in Timers |-> IF k \in {"silence", "max"} THEN l ELSE timerRef[k]]
        /\ pending' = Cleared({"silence"}, pending) \cup {<<k, l>> : k \in {"silence", "max"}}
        /\ UNCHANGED <<concluded, stt, sttRef, concludeRef, turn, source>>
    BY <1>1 DEF MicStarts, SetTimers
  <2>2. micRef = None /\ sttRef = None /\ concludeRef = l /\ ~concluded[l] /\ stt[l] = "none"
    BY <2>1 DEF Leash
  <2>3. ASSUME NEW k \in Timers, NEW i \in Inputs, <<k, i>> \in pending'
        PROVE  timerRef'[k] = i /\ i = l
    <3>1. <<k, i>> \notin pending
      BY <2>2 DEF Leash, Inputs, None
    <3> QED  BY <2>1, <2>3, <3>1 DEF Cleared
  <2>4. mic'[l] = "live" /\ <<"max", l>> \in pending'
    BY <1>0, <2>1
  <2>5. ASSUME NEW k \in Inputs, k # l
        PROVE  /\ mic'[k] = mic[k] /\ mic[k] \notin {"starting", "live", "restarting"} /\ stt[k] # "open"
               /\ mic[k] = "none" => stt[k] = "none"
               /\ micRef' # k /\ sttRef' # k /\ concludeRef' # k
    <3>1. /\ mic[k] = "starting" => concludeRef = k
          /\ mic[k] \in {"live", "restarting"} => micRef = k
          /\ stt[k] = "open" => sttRef = k
          /\ mic[k] = "none" => stt[k] = "none"
      BY DEF Leash
    <3>2. k # None /\ mic'[k] = mic[k]
      BY <1>0, <2>1, <2>5 DEF Inputs, None
    <3> QED  BY <2>1, <2>2, <2>5, <3>1, <3>2
  <2>6. Leash'
    BY <1>0, <2>1, <2>2, <2>3, <2>4, <2>5 DEF Leash
  <2> QED  BY <2>1, <2>5, <2>6 DEF OverOnceAsked
<1>2. CASE MicRestarts(l)
  <2>1. /\ mic[l] = "restarting" /\ mic' = [mic EXCEPT ![l] = "live"] /\ micRef' = l /\ micRef = l
        /\ UNCHANGED <<concluded, stt, sttRef, concludeRef, pending, timerRef, turn, source>>
    BY <1>2 DEF MicRestarts, Leash
  <2>2. mic'[l] = "live" /\ \A k \in Inputs : k # l => mic'[k] = mic[k]
    BY <1>0, <2>1
  <2>3. Leash'
    BY <2>1, <2>2 DEF Leash
  <2> QED  BY <2>1, <2>2, <2>3 DEF OverOnceAsked
<1>3. CASE MicFails(l)
  <2> DEFINE m == [mic EXCEPT ![l] = "off"]
  <2>1. mic[l] \in {"starting", "restarting"} /\ StopListening(m, pending) /\ UNCHANGED <<turn, source>>
    BY <1>3 DEF MicFails, StopIdle
  <2>2. m \in [Inputs -> {"none", "starting", "live", "restarting", "off", "typed"}]
    BY <1>0
  <2>3. ASSUME NEW k \in Inputs
        PROVE  /\ m[k] \notin {"starting", "restarting"}
               /\ m[k] = "live" => mic[k] = "live"
               /\ m[k] = "none" => mic[k] = "none"
               /\ mic[k] \in {"off", "typed"} => m[k] = mic[k]
    <3>1. CASE k = l
      BY <1>0, <2>1, <3>1
    <3>2. CASE k # l
      <4>1. m[k] = mic[k]
        BY <1>0, <3>2
      <4>2. /\ mic[l] = "starting" => micRef = None /\ concludeRef = l
            /\ mic[l] = "restarting" => micRef = l
            /\ mic[k] = "starting" => micRef = None /\ concludeRef = k
            /\ mic[k] = "restarting" => micRef = k
        BY DEF Leash
      <4>3. mic[k] \notin {"starting", "restarting"} /\ k # None
        BY <1>0, <2>1, <3>2, <4>2 DEF Inputs, None
      <4> QED  BY <4>1, <4>3
    <3> QED  BY <3>1, <3>2
  <2>4. \A t \in Turns : turn'[t] # "none" <=> turn[t] # "none"
    BY <2>1
  <2> HIDE DEF m
  <2> QED  BY <2>1, <2>2, <2>3, <2>4, StopIdleLeash
<1>4. CASE DevicesFound(l)
  <2>1. mic[l] = "live" /\ micRef = l /\ UNCHANGED <<concluded, turn, source>>
    BY <1>4 DEF DevicesFound, SoughtLive, Leash
  <2>2. CASE mic' = [mic EXCEPT ![l] = "restarting"] /\ UNCHANGED <<orb, stt, refVars, timerVars>>
    BY <1>0, <2>1, <2>2, RestartLeash
  <2>3. CASE StopIdle(mic)
    <3>1. \A k \in Inputs : mic[k] \notin {"starting", "restarting"}
      BY <1>0, <2>1 DEF Leash
    <3>2. \A t \in Turns : turn'[t] # "none" <=> turn[t] # "none"
      BY <2>1
    <3> QED  BY <1>0, <2>1, <2>3, <3>1, <3>2, StopIdleLeash DEF StopIdle
  <2> QED  BY <1>4, <2>2, <2>3 DEF DevicesFound
<1> QED  BY <1>1, <1>2, <1>3, <1>4 DEF MicSteps

(* A search for another device begins only when nothing is starting.       *)
LEMMA SoughtLiveStep ==
  TypeOK /\ Leash /\ SoughtLive /\ ((\E l \in Inputs : MicSteps(l)) \/ (~MicPending /\ Others) \/ UNCHANGED vars)
    => SoughtLive'
<1> SUFFICES ASSUME TypeOK, Leash, SoughtLive,
                    (\E l \in Inputs : MicSteps(l)) \/ (~MicPending /\ Others) \/ UNCHANGED vars
             PROVE  SoughtLive'
  OBVIOUS
<1> USE DEF listenVars
<1>0. /\ mic \in [Inputs -> {"none", "starting", "live", "restarting", "off", "typed"}]
      /\ seeking \subseteq Inputs /\ \A l \in Inputs : l # None
  BY DEF TypeOK, Inputs, None
<1>1. ASSUME NEW l \in Inputs, MicSteps(l) PROVE SoughtLive'
  <2>1. CASE MicStarts(l) \/ MicRestarts(l)
    BY <1>0, <2>1 DEF MicStarts, MicRestarts, SoughtLive
  <2>2. CASE MicFails(l) \/ DevicesFound(l)
    <3>1. seeking' = seeking \ {l}
      BY <2>2 DEF MicFails, DevicesFound, SoughtLive
    <3>2. ASSUME NEW k \in seeking, k # l PROVE FALSE
      <4>1. mic[k] = "live" /\ micRef = k /\ k \in Inputs
        BY <1>0 DEF SoughtLive, Leash
      <4>2. mic[l] = "starting" => micRef = None
        BY DEF Leash
      <4>3. mic[l] \in {"live", "restarting"} => micRef = l
        BY DEF Leash
      <4> QED  BY <1>0, <2>2, <3>2, <4>1, <4>2, <4>3 DEF MicFails, DevicesFound, SoughtLive
    <3> QED  BY <3>1, <3>2 DEF SoughtLive
  <2> QED  BY <1>1, <2>1, <2>2 DEF MicSteps
<1>2. ASSUME ~MicPending, Others PROVE SoughtLive'
  <2>1. seeking = {}
    BY <1>0, <1>2 DEF MicPending
  <2>2. ASSUME NEW l \in Inputs, DeadTrack(l) PROVE SoughtLive'
    BY <2>1, <2>2 DEF DeadTrack, SoughtLive
  <2>3. ASSUME UNCHANGED seeking PROVE SoughtLive'
    BY <2>1, <2>3 DEF SoughtLive
  <2>4. CASE TapStarts \/ TapConcludes \/ TapStops \/ Send
    BY <2>3, <2>4 DEF TapStarts, TapConcludes, TapStops, Send
  <2>5. ASSUME NEW l \in Inputs,
               VoiceFrame(l) \/ Transcript(l) \/ SttRejects(l) \/ \E k \in Timers : TimerFires(k, l)
        PROVE  SoughtLive'
    BY <2>3, <2>5 DEF VoiceFrame, Transcript, SttRejects, TimerFires
  <2>6. ASSUME NEW t \in Turns,
               \/ OnLanguage(t) \/ OnDone(t) \/ OnDoneError(t) \/ StreamBreaks(t) \/ StreamEnds(t)
               \/ Finish(t) \/ AudioPlayed(t)
        PROVE  SoughtLive'
    BY <2>3, <2>6 DEF OnLanguage, OnDone, OnDoneError, StreamBreaks, StreamEnds, Finish, AudioPlayed
  <2>7. ASSUME NEW m, NEW done, ResetTo(m, done) PROVE SoughtLive'
    BY <2>3, <2>7 DEF ResetTo
  <2> QED  BY <1>2, <2>2, <2>4, <2>5, <2>6, <2>7 DEF Others, Reset, Unauthorized
<1>3. CASE UNCHANGED vars
  BY <1>3 DEF vars, SoughtLive
<1> QED  BY <1>1, <1>2, <1>3

LEMMA LeashStep == TypeOK /\ OrbInv /\ Fetched /\ LeashInv /\ [Next]_vars => LeashInv'
<1> SUFFICES ASSUME TypeOK, OrbInv, Fetched, swift, Leash, OverOnceAsked, SoughtLive, [Next]_vars
             PROVE  Leash' /\ OverOnceAsked' /\ SoughtLive'
  <2> SUFFICES ASSUME TypeOK, OrbInv, Fetched, LeashInv, [Next]_vars
               PROVE  swift' = swift
    BY DEF LeashInv
  <2>1. ASSUME NEW l \in Inputs, MicSteps(l) PROVE swift' = swift
    BY <2>1 DEF MicSteps, MicStarts, MicRestarts, MicFails, DevicesFound
  <2>2. CASE TapStarts \/ TapConcludes \/ TapStops \/ Send
    BY <2>2 DEF TapStarts, TapConcludes, TapStops, Send
  <2>3. ASSUME NEW l \in Inputs, DeadTrack(l) \/ VoiceFrame(l) \/ Transcript(l) \/ SttRejects(l) \/
                                  \E k \in Timers : TimerFires(k, l)
        PROVE  swift' = swift
    BY <2>3 DEF DeadTrack, VoiceFrame, Transcript, SttRejects, TimerFires
  <2>4. ASSUME NEW t \in Turns,
               \/ OnLanguage(t) \/ OnDone(t) \/ OnDoneError(t) \/ StreamBreaks(t) \/ StreamEnds(t)
              \/ Finish(t) \/ AudioPlayed(t)
        PROVE  swift' = swift
    BY <2>4 DEF OnLanguage, OnDone, OnDoneError, StreamBreaks, StreamEnds, Finish, AudioPlayed
  <2>5. ASSUME NEW m, NEW done, ResetTo(m, done) PROVE swift' = swift
    BY <2>5 DEF ResetTo
  <2>6. CASE UNCHANGED vars
    BY <2>6 DEF vars
  <2> QED  BY <2>1, <2>2, <2>3, <2>4, <2>5, <2>6 DEF Next, Others, Reset, Unauthorized
<1> USE DEF refVars, timerVars, listenVars, turnVars
<1>0. /\ mic \in [Inputs -> {"none", "starting", "live", "restarting", "off", "typed"}]
      /\ \A l \in Inputs : l # None
  BY DEF TypeOK, Inputs, None
<1>1. ASSUME NEW l \in Inputs, MicSteps(l) PROVE Leash' /\ OverOnceAsked'
  BY <1>1, MicLeash
<1>2. ASSUME UNCHANGED vars PROVE Leash' /\ OverOnceAsked'
  BY <1>2, QuietLeash DEF vars
<1>3. ASSUME Settled, Others PROVE Leash' /\ OverOnceAsked'
  <2>1. ~MicPending /\ \A l \in Inputs : mic[l] \notin {"starting", "restarting"}
    BY <1>3 DEF Settled, MicPending
  <2>2. ASSUME StopIdle(mic), UNCHANGED source,
               \A t \in Turns : turn'[t] # "none" <=> turn[t] # "none"
        PROVE  Leash' /\ OverOnceAsked'
    BY <1>0, <2>1, <2>2, StopIdleLeash DEF StopIdle
  <2>3. ASSUME TapStarts PROVE Leash' /\ OverOnceAsked'
    <3>1. PICK l \in Inputs : mic[l] = "none" /\ mic' = [mic EXCEPT ![l] = "starting"] /\ concludeRef' = l
      BY <2>3 DEF TapStarts, IsNext
    <3>2. /\ sttRef = None /\ micRef = None
          /\ UNCHANGED <<concluded, stt, micRef, sttRef, pending, timerRef, turn, source>>
      BY <2>3 DEF TapStarts
    <3>3. ~concluded[l] /\ stt[l] = "none"
      BY <3>1 DEF OrbInv, Started, Leash
    <3>4. mic'[l] = "starting" /\ \A k \in Inputs : k # l => mic'[k] = mic[k]
      BY <1>0, <3>1
    <3>5. Leash'
      BY <1>0, <2>1, <3>1, <3>2, <3>3, <3>4 DEF Leash
    <3> QED  BY <3>1, <3>2, <3>4, <3>5 DEF OverOnceAsked
  <2>4. ASSUME TapConcludes PROVE Leash' /\ OverOnceAsked'
    <3>1. concludeRef \in Inputs /\ Conclude(concludeRef, pending)
      BY <2>4 DEF TapConcludes, TypeOK
    <3>2. Owner(concludeRef) /\ pending \subseteq pending
      BY <2>1, <3>1 DEF Leash, Owner
    <3>3. \A k \in Timers, i \in Inputs :
            <<k, i>> \in pending /\ (k = "grace" \/ i # concludeRef) => <<k, i>> \in pending
      OBVIOUS
    <3> QED  BY <2>1, <3>1, <3>2, <3>3, ConcludeLeash
  <2>5. CASE TapStops \/ \E l \in Inputs : SttRejects(l)
    BY <2>2, <2>5 DEF TapStops, SttRejects
  <2>6. ASSUME Send PROVE Leash' /\ OverOnceAsked'
    <3>1. PICK l \in Inputs : mic[l] = "none" /\ mic' = [mic EXCEPT ![l] = "typed"] /\ SendMessage(l)
      BY <2>6 DEF Send, IsNext
    <3>2. UNCHANGED <<concluded, stt, micRef, sttRef, concludeRef, pending, timerRef>>
      BY <2>6 DEF Send
    <3>3. mic'[l] = "typed" /\ stt[l] = "none" /\ \A k \in Inputs : k # l => mic'[k] = mic[k]
      BY <1>0, <3>1 DEF Leash
    <3>4. \A k \in Inputs : mic[k] \in {"off", "typed"} /\ stt[k] # "open" =>
                              mic'[k] \in {"off", "typed"} /\ stt'[k] # "open"
      BY <3>1, <3>2, <3>3
    <3>5. OverOnceAsked'
      BY <3>1, <3>2, <3>3, <3>4, SendOnce
    <3>6. Leash'
      BY <3>1, <3>2, <3>3 DEF Leash
    <3> QED  BY <3>5, <3>6
  <2>7. ASSUME NEW m, NEW done, ResetTo(m, done), \A t \in Turns : t \in done => turn[t] # "none"
        PROVE  Leash' /\ OverOnceAsked'
    BY <2>2, <2>7 DEF ResetTo
  <2>8. ASSUME NEW m, Reset(m) PROVE Leash' /\ OverOnceAsked'
    BY <2>7, <2>8 DEF Reset, Fetched, Turns, None
  <2>9. ASSUME NEW t \in Turns, Unauthorized(t) PROVE Leash' /\ OverOnceAsked'
    BY <2>7, <2>9 DEF Unauthorized, Fetched, Turns, None
  <2>10. ASSUME NEW l \in Inputs, DeadTrack(l) PROVE Leash' /\ OverOnceAsked'
    <3>1. UNCHANGED <<concluded, stt, micRef, sttRef, concludeRef, pending, timerRef, turn, source>>
      BY <2>10 DEF DeadTrack
    <3>2. CASE mic' = [mic EXCEPT ![l] = "restarting"]
      BY <2>10, <3>1, <3>2, RestartLeash DEF DeadTrack
    <3>3. CASE UNCHANGED mic
      BY <3>1, <3>3, QuietLeash
    <3> QED  BY <2>10, <3>2, <3>3 DEF DeadTrack
  <2>11. ASSUME NEW l \in Inputs, VoiceFrame(l) PROVE Leash' /\ OverOnceAsked'
    <3>1. /\ mic[l] = "live"
          /\ pending' = Cleared({"silence"}, pending) \cup {<<k, l>> : k \in {"silence"}}
          /\ timerRef' = [k \in Timers |-> IF k \in {"silence"} THEN l ELSE timerRef[k]]
          /\ IF stt[l] # "none" THEN UNCHANGED <<stt, sttRef>>
                               ELSE stt' = [stt EXCEPT ![l] = "open"] /\ sttRef' = l
          /\ UNCHANGED <<mic, concluded, micRef, concludeRef, turn, source>>
      BY <2>11 DEF VoiceFrame, SetTimers, VoiceDetected
    <3>2. /\ micRef = l /\ ~concluded[l] /\ stt[l] # "closed" /\ <<"max", l>> \in pending
          /\ sttRef \in {None, l}
      <4>1. micRef = l /\ ~concluded[l] /\ stt[l] # "closed" /\ <<"max", l>> \in pending
        BY <3>1 DEF Leash
      <4>2. ASSUME NEW i \in Inputs, sttRef = i PROVE i = l
        BY <1>0, <4>1, <4>2 DEF Leash
      <4>3. sttRef \in Inputs \cup {None}
        BY DEF TypeOK
      <4> QED  BY <4>1, <4>2, <4>3
    <3>3. /\ \A i \in Inputs : <<"max", i>> \in pending => <<"max", i>> \in pending'
          /\ \A k \in Timers, i \in Inputs : <<k, i>> \in pending' =>
                IF k = "silence" THEN i = l \/ (<<k, i>> \in pending /\ i # timerRef[k]) ELSE <<k, i>> \in pending
      BY <3>1 DEF Cleared
    <3>4. ASSUME NEW k \in Timers, NEW i \in Inputs, <<k, i>> \in pending'
          PROVE  timerRef'[k] = i /\ i = l
      <4>1. <<k, i>> \in pending => timerRef[k] = i /\ i = l
        BY <3>2 DEF Leash
      <4>2. timerRef'[k] = IF k = "silence" THEN l ELSE timerRef[k]
        BY <3>1
      <4> QED  BY <3>3, <3>4, <4>1, <4>2
    <3>5. sttRef' = l /\ stt'[l] = "open" /\ \A i \in Inputs : i # l => stt'[i] = stt[i] /\ stt[i] # "open"
      <4>1. stt \in [Inputs -> {"none", "open", "closed"}]
        BY DEF TypeOK
      <4>2. \A i \in Inputs : i # l => stt[i] # "open"
        BY <1>0, <3>2 DEF Leash
      <4>3. stt[l] # "none" => sttRef = l /\ stt[l] = "open"
        BY <3>2, <4>1 DEF Leash
      <4> QED  BY <3>1, <4>1, <4>2, <4>3
    <3>6. Leash'
      BY <3>1, <3>2, <3>3, <3>4, <3>5 DEF Leash
    <3> QED  BY <3>1, <3>5, <3>6 DEF OverOnceAsked
  <2>12. ASSUME NEW l \in Inputs, Transcript(l) PROVE Leash' /\ OverOnceAsked'
    <3>1. CASE concluded[l]
      <4>1. Finalize(l, Cleared({"grace"}, pending), heard'[l]) /\ stt[l] = "open"
        BY <2>12, <3>1 DEF Transcript
      <4>2. Owner(l) /\ Cleared({"grace"}, pending) \subseteq pending
        BY <4>1 DEF Leash, Owner, Cleared
      <4> QED  BY <2>1, <4>1, <4>2, FinalizeLeash
    <3>2. CASE ~concluded[l]
      BY <2>12, <3>2, QuietLeash DEF Transcript
    <3> QED  BY <3>1, <3>2
  <2>13. ASSUME NEW k \in Timers, NEW l \in Inputs, TimerFires(k, l) PROVE Leash' /\ OverOnceAsked'
    <3>1. Owner(l) /\ pending \ {<<k, l>>} \subseteq pending
      BY <2>13 DEF TimerFires, Leash, Owner
    <3>2. CASE k = "grace"
      BY <2>1, <2>13, <3>1, <3>2, FinalizeLeash DEF TimerFires
    <3>3. CASE k # "grace"
      <4>1. \A j \in Timers, i \in Inputs :
              <<j, i>> \in pending /\ (j = "grace" \/ i # l) => <<j, i>> \in pending \ {<<k, l>>}
        BY <3>3
      <4>2. Conclude(l, pending \ {<<k, l>>})
        BY <2>13, <3>3 DEF TimerFires
      <4> QED  BY <2>1, <3>1, <4>1, <4>2, ConcludeLeash
    <3> QED  BY <3>2, <3>3
  <2>14. ASSUME NEW t \in Turns,
                \/ OnLanguage(t) \/ OnDone(t) \/ OnDoneError(t) \/ StreamBreaks(t) \/ StreamEnds(t)
              \/ Finish(t) \/ AudioPlayed(t)
         PROVE  Leash' /\ OverOnceAsked'
    <3>1. /\ UNCHANGED <<mic, concluded, stt, micRef, sttRef, concludeRef, pending, timerRef, source>>
          /\ turn' = turn \/ (turn[t] # "none" /\ \E how \in {"done", "over"} : turn' = [turn EXCEPT ![t] = how])
      BY <2>14 DEF OnLanguage, OnDone, OnDoneError, StreamBreaks, StreamEnds, Finish, AudioPlayed, TurnBecomes
    <3>2. \A u \in Turns : turn'[u] # "none" => turn[u] # "none"
      BY <3>1 DEF TypeOK
    <3> QED  BY <3>1, <3>2, QuietLeash
  <2> QED
    BY <1>3, <2>3, <2>4, <2>5, <2>6, <2>8, <2>9, <2>10, <2>11, <2>12, <2>13, <2>14 DEF Others
<1>4. SoughtLive'
  BY SoughtLiveStep DEF Next, Settled
<1> QED  BY <1>1, <1>2, <1>3, <1>4 DEF Next

(* The inductive invariant of the listening.                               *)
THEOREM LeashInvariant == Spec => []LeashInv
<1>1. Init => LeashInv /\ Fetched
  BY DEF Init, LeashInv, Leash, OverOnceAsked, SoughtLive, Fetched, Inputs, Turns, None
<1> QED  BY <1>1, OrbInvariant, FetchStep, LeashStep, PTL DEF Spec

(* If microphones start before anything else happens, whatever listens is  *)
(* in the refs and a timer will end it, for any number of utterances       *)
(* (useVoiceSession.js:458, 506-519, 768-773).                             *)
THEOREM EverythingIsLeashed == Spec => []Leashed
<1>1. TypeOK /\ LeashInv => Leashed
  BY DEF LeashInv, Leash, Leashed, TypeOK, Timers
<1> QED  BY <1>1, VoiceTypes, LeashInvariant, PTL

(* ... and an utterance is asked at most once                              *)
(* (useVoiceSession.js:482-519, 539-545).                                  *)
THEOREM AskedAtMostOnce == Spec => []AskedOnce
<1>1. LeashInv => AskedOnce
  BY DEF LeashInv, OverOnceAsked, AskedOnce
<1> QED  BY <1>1, LeashInvariant, PTL

-----------------------------------------------------------------------------
(* The list of conversations.                                              *)

Kinds == {"load", "switch", "new", "delete", "refresh"}
Requests == {"list", "messages", "create", "delete"}
Jobs ==
  [kind : Kinds, request : Requests, chat : Chats \cup {NoChat}, list : SUBSET Chats, open : BOOLEAN,
   answer : {"none", "ok", "failed", "503"}, got : SUBSET Chats]
ListType ==
  /\ saves \in BOOLEAN /\ patient \in BOOLEAN /\ ready \in BOOLEAN
  /\ created \in SUBSET Chats /\ job \in [Handlers -> Jobs \cup {Idle}]

(* Whatever a handler closed over and whatever it was answered, the list   *)
(* and the open conversation were created once; and the handler that loads *)
(* the page has opened one before it asks for its messages.                *)
Waits(h) == job[h] # Idle
ChatsInv ==
  /\ inDb \subseteq created /\ conversations \subseteq created /\ active \in created \cup {NoChat}
  /\ \A h \in Handlers : Waits(h) =>
       /\ job[h].list \subseteq created /\ job[h].got \subseteq created
       /\ job[h].answer = "503" => ~saves
       /\ job[h].kind = "load" /\ job[h].request = "messages" => active \in created
  /\ SentToACreatedChat

(* One at a time, a click's handler asks for the messages of the open      *)
(* conversation, and until then what is shown is its or nothing.           *)
Busy(h) == Waits(h) /\ job[h].kind # "refresh"
Fetches(h) == Busy(h) /\ job[h].request = "messages"
ShownInv ==
  /\ \A h \in Handlers : Waits(h) /\ job[h].kind = "refresh" => job[h].request = "list"
  /\ patient =>
       /\ \A h, g \in Handlers : Busy(h) /\ Busy(g) => h = g
       /\ \A h \in Handlers : Fetches(h) => job[h].chat = active
       /\ \A h \in Handlers : Busy(h) /\ job[h].kind = "load" => shown = NoChat
       /\ (\A h \in Handlers : ~Fetches(h)) => shown \in {active, NoChat}

ListInv == ListType /\ ChatsInv /\ ShownInv

-----------------------------------------------------------------------------
(* Every job has the fields of a call.                                     *)
LEMMA CallType ==
  ASSUME NEW kind \in Kinds, NEW request \in Requests, NEW chat \in Chats \cup {NoChat},
         NEW list \in SUBSET Chats, NEW open \in BOOLEAN
  PROVE  Closure(kind, request, chat, list, open) \in Jobs
BY DEF Closure, Jobs

-----------------------------------------------------------------------------
(* One handler's job is replaced by another.                               *)
Becomes(h, j) == j \in Jobs \cup {Idle} /\ job' = [job EXCEPT ![h] = j]

LEMMA BecomesIs ==
  ASSUME ListType, NEW h \in Handlers, NEW j, Becomes(h, j)
  PROVE  /\ job' \in [Handlers -> Jobs \cup {Idle}] /\ job'[h] = j
         /\ \A g \in Handlers : g # h => job'[g] = job[g]
BY DEF ListType, Becomes

LEMMA EndsIs == ASSUME NEW h \in Handlers, Ends(h) PROVE Becomes(h, Idle)
BY DEF Ends, Becomes

LEMMA AsksIs ==
  ASSUME ListType, NEW h \in Handlers, Waits(h), NEW request \in Requests, NEW chat \in Chats \cup {NoChat},
         Asks(h, request, chat)
  PROVE  /\ Becomes(h, Closure(job[h].kind, request, chat, {}, FALSE))
         /\ job[h].kind \in Kinds
<1>1. job[h] \in Jobs
  BY DEF ListType, Waits
<1>2. job[h].kind \in Kinds
  BY <1>1 DEF Jobs
<1>3. Closure(job[h].kind, request, chat, {}, FALSE) \in Jobs
  BY <1>2, CallType
<1> QED  BY <1>2, <1>3 DEF Asks, Call, Becomes

-----------------------------------------------------------------------------
(* What a step may do to the list and the open conversation: the handler h *)
(* becomes j, which knows created conversations only.                      *)
LEMMA ChatsKept ==
  ASSUME ListInv, NEW h \in Handlers, NEW j, Becomes(h, j), UNCHANGED settings,
         created \subseteq created', created' \subseteq Chats, inDb' \subseteq created',
         conversations' \subseteq created', active' \in created' \cup {NoChat},
         active \in created => active' \in created',
         ready' \in BOOLEAN, ready' /\ saves => active' \in created',
         j # Idle => j.list \subseteq created' /\ j.got \subseteq created' /\ (j.answer = "503" => ~saves),
         j # Idle /\ j.kind = "load" /\ j.request = "messages" => active' \in created'
  PROVE  ListType' /\ ChatsInv'
<1>1. /\ job' \in [Handlers -> Jobs \cup {Idle}] /\ job'[h] = j
      /\ \A g \in Handlers : g # h => job'[g] = job[g]
  BY BecomesIs DEF ListInv
<1>2. ListType'
  BY <1>1 DEF ListInv, ListType, settings
<1>3. ASSUME NEW g \in Handlers, Waits(g)'
      PROVE  /\ job'[g].list \subseteq created' /\ job'[g].got \subseteq created'
             /\ job'[g].answer = "503" => ~saves'
             /\ job'[g].kind = "load" /\ job'[g].request = "messages" => active' \in created'
  <2>1. CASE g = h
    BY <1>1, <1>3, <2>1 DEF Waits, settings
  <2>2. CASE g # h
    <3>1. job'[g] = job[g] /\ Waits(g)
      BY <1>1, <1>3, <2>2 DEF Waits
    <3> QED  BY <3>1 DEF ListInv, ChatsInv, settings
  <2> QED  BY <2>1, <2>2
<1> QED  BY <1>2, <1>3 DEF ChatsInv, SentToACreatedChat, settings

(* A step of the only busy handler, if there is one at a time.             *)
LEMMA ShownByTheOne ==
  ASSUME ListInv, NEW h \in Handlers, NEW j, Becomes(h, j), UNCHANGED settings,
         patient => \A g \in Handlers : g # h => ~Busy(g),
         j # Idle /\ j.kind = "refresh" => j.request = "list",
         patient /\ j # Idle /\ j.request = "messages" => j.chat = active',
         patient /\ j # Idle /\ j.kind = "load" => shown' = NoChat,
         patient => (j # Idle /\ j.request = "messages") \/ shown' \in {active', NoChat}
  PROVE  ShownInv'
<1>1. /\ job'[h] = j /\ \A g \in Handlers : g # h => job'[g] = job[g]
  BY BecomesIs DEF ListInv
<1>2. \A g \in Handlers : Waits(g)' /\ job'[g].kind = "refresh" => job'[g].request = "list"
  BY <1>1 DEF ListInv, ShownInv, Waits
<1>3. ASSUME patient PROVE \A g \in Handlers : Busy(g)' => g = h
  BY <1>1, <1>3 DEF Busy, Waits
<1>4. Waits(h)' <=> j # Idle
  BY <1>1 DEF Waits
<1>5. ASSUME patient
      PROVE  /\ \A f, g \in Handlers : Busy(f)' /\ Busy(g)' => f = g
             /\ \A g \in Handlers : Fetches(g)' => job'[g].chat = active'
             /\ \A g \in Handlers : Busy(g)' /\ job'[g].kind = "load" => shown' = NoChat
  BY <1>1, <1>3, <1>4, <1>5 DEF Busy, Fetches
<1>6. ASSUME patient, \A g \in Handlers : ~Fetches(g)' PROVE shown' \in {active', NoChat}
  <2>1. CASE j # Idle /\ j.request = "messages"
    <3>1. j.kind # "refresh"
      BY <2>1
    <3> QED  BY <1>1, <1>4, <1>6, <2>1, <3>1 DEF Fetches, Busy
  <2>2. CASE ~(j # Idle /\ j.request = "messages")
    BY <1>6, <2>2
  <2> QED  BY <2>1, <2>2
<1> QED  BY <1>2, <1>5, <1>6 DEF ShownInv, settings

(* A step that shows nothing else, of a handler that remains as busy.      *)
LEMMA ShownAsBefore ==
  ASSUME ListInv, NEW h \in Handlers, NEW j, Becomes(h, j), UNCHANGED <<settings, active, shown>>,
         \/ /\ Waits(h) /\ j # Idle /\ j.kind = job[h].kind /\ j.request = job[h].request
            /\ j.chat = job[h].chat
         \/ ~Busy(h) /\ (j # Idle => j.kind = "refresh" /\ j.request = "list")
  PROVE  ShownInv'
<1>1. /\ job'[h] = j /\ \A g \in Handlers : g # h => job'[g] = job[g]
  BY BecomesIs DEF ListInv
<1>2. \A g \in Handlers : Waits(g)' /\ job'[g].kind = "refresh" => job'[g].request = "list"
  BY <1>1 DEF ListInv, ShownInv, Waits
<1>3. \A g \in Handlers : Busy(g)' <=> Busy(g)
  BY <1>1 DEF Busy, Waits
<1>4. \A g \in Handlers : Busy(g) => /\ job'[g].kind = job[g].kind /\ job'[g].request = job[g].request
                                     /\ job'[g].chat = job[g].chat
  BY <1>1 DEF Busy
<1>5. \A g \in Handlers : Fetches(g)' <=> Fetches(g)
  BY <1>3, <1>4 DEF Fetches
<1>6. /\ patient' = patient /\ active' = active /\ shown' = shown
  BY DEF settings
<1>7. ASSUME patient
      PROVE  /\ \A f, g \in Handlers : Busy(f) /\ Busy(g) => f = g
             /\ \A g \in Handlers : Fetches(g) => job[g].chat = active
             /\ \A g \in Handlers : Busy(g) /\ job[g].kind = "load" => shown = NoChat
             /\ (\A g \in Handlers : ~Fetches(g)) => shown \in {active, NoChat}
  BY <1>7 DEF ListInv, ShownInv
<1>8. \A g \in Handlers : Fetches(g) => Busy(g)
  BY DEF Fetches
<1>9. ASSUME patient
      PROVE  /\ \A f, g \in Handlers : Busy(f)' /\ Busy(g)' => f = g
             /\ \A g \in Handlers : Fetches(g)' => job'[g].chat = active'
             /\ \A g \in Handlers : Busy(g)' /\ job'[g].kind = "load" => shown' = NoChat
             /\ (\A g \in Handlers : ~Fetches(g)') => shown' \in {active', NoChat}
  BY <1>3, <1>4, <1>5, <1>6, <1>7, <1>8, <1>9
<1> QED  BY <1>2, <1>6, <1>9 DEF ShownInv

(* Whoever is busy is so alone, and shows the open conversation or none    *)
(* unless it fetches it.                                                   *)
LEMMA Alone ==
  ASSUME ListInv, NEW h \in Handlers, patient, Busy(h)
  PROVE  /\ \A g \in Handlers : g # h => ~Busy(g)
         /\ job[h].request = "messages" => job[h].chat = active
         /\ job[h].kind = "load" => shown = NoChat
         /\ job[h].request # "messages" => shown \in {active, NoChat}
<1>1. \A g \in Handlers : g # h => ~Busy(g)
  BY DEF ListInv, ShownInv
<1>2. Fetches(h) <=> job[h].request = "messages"
  BY DEF Fetches
<1>3. \A g \in Handlers : Fetches(g) => g = h
  BY <1>1 DEF Fetches
<1> QED  BY <1>1, <1>2, <1>3 DEF ListInv, ShownInv

-----------------------------------------------------------------------------
(* One lemma per handler and its answers, and per click.                   *)
LEMMA OpensEmptyList ==
  ASSUME ListInv, NEW h \in Handlers, Waits(h), NEW list, list = {} \/ list = job[h].list,
         OpensEmpty(h, list), UNCHANGED <<settings, database>>, job[h].request = "create",
         ready' \in {ready, TRUE}, job[h].kind # "refresh"
  PROVE  ListInv'
<1>1. Becomes(h, Idle) /\ Busy(h)
  BY EndsIs DEF OpensEmpty, Busy
<1>2. job[h].list \subseteq created /\ job[h].got \subseteq created /\ created \subseteq Chats
  BY DEF ListInv, ChatsInv, ListType
<1>3. active' \in created' /\ shown' = active' /\ conversations' \subseteq created' /\ created' = created /\ inDb' = inDb
  BY <1>2 DEF OpensEmpty, database
<1>4. ListType' /\ ChatsInv'
  <2>1. inDb \subseteq created /\ ready \in BOOLEAN
    BY DEF ListInv, ChatsInv, ListType
  <2> QED  BY <1>1, <1>2, <1>3, <2>1, ChatsKept DEF database
<1>5. ShownInv'
  BY <1>1, <1>3, Alone, ShownByTheOne DEF database
<1> QED  BY <1>4, <1>5 DEF ListInv

LEMMA EndsList ==
  ASSUME ListInv, NEW h \in Handlers, Waits(h), Ends(h), UNCHANGED <<settings, database, active>>,
         ready' \in BOOLEAN, ready' /\ saves => active \in created,
         conversations' \subseteq created,
         patient /\ Busy(h) => shown' \in {active, NoChat},
         ~Busy(h) => shown' = shown
  PROVE  ListInv'
<1>1. Becomes(h, Idle)
  BY EndsIs
<1>2. ListType' /\ ChatsInv'
  <2>1. inDb \subseteq created /\ ready \in BOOLEAN /\ created \subseteq Chats /\ active \in created \cup {NoChat}
    BY DEF ListInv, ChatsInv, ListType
  <2> QED  BY <1>1, <2>1, ChatsKept DEF database
<1>3. CASE Busy(h)
  <2>1. ShownInv'
    BY <1>1, <1>3, Alone, ShownByTheOne DEF database
  <2> QED  BY <1>2, <2>1 DEF ListInv
<1>4. CASE ~Busy(h)
  <2>1. ShownInv'
    BY <1>1, <1>4, ShownAsBefore
  <2> QED  BY <1>2, <2>1 DEF ListInv
<1> QED  BY <1>3, <1>4

(* The next request of a click's handler, or of the one that loads.        *)
LEMMA AsksList ==
  ASSUME ListInv, NEW h \in Handlers, Busy(h), NEW request \in Requests, NEW chat \in Chats \cup {NoChat},
         Asks(h, request, chat), UNCHANGED <<settings, database, shown, ready>>,
         job[h].request # "messages", conversations' \subseteq created,
         \/ request = "messages" /\ chat \in created /\ active' = chat
         \/ request = "create" /\ UNCHANGED active
  PROVE  ListInv'
<1> DEFINE j == Closure(job[h].kind, request, chat, {}, FALSE)
<1>1. Becomes(h, j)
  BY AsksIs DEF ListInv, Busy
<1>0. j = Closure(job[h].kind, request, chat, {}, FALSE)
  OBVIOUS
<1> HIDE DEF j
<1>2. /\ j # Idle /\ j.kind = job[h].kind /\ j.request = request /\ j.chat = chat /\ j.list = {} /\ j.got = {}
      /\ j.answer = "none"
  BY <1>0 DEF Closure, Idle
<1>3. /\ inDb \subseteq created /\ ready \in BOOLEAN /\ created \subseteq Chats /\ active \in created \cup {NoChat}
      /\ ready /\ saves => active \in created
  BY DEF ListInv, ChatsInv, ListType, SentToACreatedChat
<1>4. ListType' /\ ChatsInv'
  BY <1>1, <1>2, <1>3, ChatsKept DEF database
<1>5. job[h].kind # "refresh"
  BY DEF Busy
<1>6. ShownInv'
  BY <1>1, <1>2, <1>5, Alone, ShownByTheOne DEF database
<1> QED  BY <1>4, <1>6 DEF ListInv

(* What is known of the values that a handler waits with.                  *)
LEMMA Waiting ==
  ASSUME ListInv, NEW h \in Handlers, Waits(h)
  PROVE  /\ job[h].list \subseteq created /\ job[h].got \subseteq created /\ conversations \subseteq created
         /\ created \subseteq Chats /\ ready \in BOOLEAN /\ active \in created \cup {NoChat}
         /\ ready /\ saves => active \in created
         /\ job[h].answer = "503" => ~saves
         /\ job[h].kind = "load" /\ job[h].request = "messages" => active \in created
BY DEF ListInv, ChatsInv, ListType, SentToACreatedChat

LEMMA LoadList ==
  ASSUME ListInv, NEW h \in Handlers, LoadGoesOn(h), UNCHANGED <<settings, database>>
  PROVE  ListInv'
<1>1. Waits(h) /\ Busy(h) /\ job[h].kind = "load"
  BY DEF LoadGoesOn, Comes, Waits, Busy
<1>2. CASE Comes(h, "load", "list") /\ job[h].got = {} /\ Asks(h, "create", NoChat) /\ UNCHANGED page
  <2>1. "create" \in Requests /\ job[h].request # "messages"
    BY <1>2 DEF Requests, Comes
  <2>2. UNCHANGED <<settings, database, shown, ready>> /\ UNCHANGED active /\ conversations' \subseteq created
    BY <1>1, <1>2, Waiting DEF page
  <2> QED  BY <1>1, <1>2, <2>1, <2>2, AsksList
<1>3. CASE /\ Comes(h, "load", "list") /\ conversations' = job[h].got /\ Opens(h, job[h].got)
           /\ UNCHANGED <<shown, ready>>
  <2>1. PICK c \in job[h].got : active' = c /\ Asks(h, "messages", c)
    BY <1>3 DEF Opens
  <2>2. "messages" \in Requests /\ job[h].request # "messages" /\ c \in created /\ c \in Chats
    BY <1>1, <1>3, Waiting DEF Requests, Comes
  <2>3. UNCHANGED <<settings, database, shown, ready>> /\ conversations' \subseteq created
    BY <1>1, <1>3, Waiting
  <2> QED  BY <1>1, <2>1, <2>2, <2>3, AsksList
<1>4. CASE Comes(h, "load", "create") /\ OpensEmpty(h, {}) /\ ready' = TRUE
  BY <1>1, <1>4, OpensEmptyList DEF Comes
<1>5. CASE /\ Comes(h, "load", "messages") /\ shown' = job[h].chat /\ ready' = TRUE /\ Ends(h)
           /\ UNCHANGED <<conversations, active>>
  <2>1. active \in created /\ conversations' \subseteq created
    BY <1>1, <1>5, Waiting DEF Comes
  <2>2. patient => shown' \in {active, NoChat}
    BY <1>1, <1>5, Alone DEF Comes
  <2>3. UNCHANGED <<settings, database, active>>
    BY <1>5
  <2> QED  BY <1>1, <1>5, <2>1, <2>2, <2>3, EndsList
<1>6. CASE /\ job[h].answer = "503" /\ ready' = TRUE /\ Ends(h)
           /\ UNCHANGED <<conversations, active, shown>>
  <2>1. ~saves /\ conversations' \subseteq created
    BY <1>1, <1>6, Waiting
  <2>2. patient => shown' \in {active, NoChat}
    BY <1>1, <1>6, Alone
  <2>3. UNCHANGED <<settings, database, active>>
    BY <1>6
  <2> QED  BY <1>1, <1>6, <2>1, <2>2, <2>3, EndsList
<1>7. CASE Ends(h) /\ UNCHANGED page
  <2>1. conversations' \subseteq created /\ ready' \in BOOLEAN /\ (ready' /\ saves => active \in created)
    BY <1>1, <1>7, Waiting DEF page
  <2>2. (patient => shown' \in {active, NoChat}) /\ UNCHANGED active
    BY <1>1, <1>7, Alone DEF page
  <2>3. UNCHANGED <<settings, database, active>>
    BY <2>2
  <2> QED  BY <1>1, <1>7, <2>1, <2>2, <2>3, EndsList
<1> QED  BY <1>2, <1>3, <1>4, <1>5, <1>6, <1>7 DEF LoadGoesOn, LoadFails, page

LEMMA MessagesList ==
  ASSUME ListInv, NEW h \in Handlers, MessagesCome(h), UNCHANGED <<settings, database>>
  PROVE  ListInv'
<1>1. Waits(h) /\ Busy(h) /\ job[h].request = "messages" /\ Ends(h) /\ UNCHANGED <<conversations, active, ready>>
      /\ Shows(h)
  BY DEF MessagesCome, Comes, Waits, Busy
<1>2. patient => shown' \in {active, NoChat}
  BY <1>1, Alone DEF Shows
<1>3. conversations' \subseteq created /\ ready' \in BOOLEAN /\ (ready' /\ saves => active \in created)
  BY <1>1, Waiting
<1>4. UNCHANGED <<settings, database, active>>
  BY <1>1
<1> QED  BY <1>1, <1>2, <1>3, <1>4, EndsList

LEMMA NewList ==
  ASSUME ListInv, NEW h \in Handlers, NewGoesOn(h), UNCHANGED <<settings, database>>
  PROVE  ListInv'
<1>1. Waits(h) /\ Busy(h) /\ job[h].request = "create" /\ job[h].kind = "new" /\ UNCHANGED ready
  BY DEF NewGoesOn, Comes, Waits, Busy
<1>2. CASE OpensEmpty(h, job[h].list)
  BY <1>1, <1>2, OpensEmptyList
<1>3. CASE Ends(h) /\ UNCHANGED <<conversations, active, shown>>
  <2>1. patient => shown' \in {active, NoChat}
    BY <1>1, <1>3, Alone
  <2>2. conversations' \subseteq created /\ ready' \in BOOLEAN /\ (ready' /\ saves => active \in created)
    BY <1>1, <1>3, Waiting
  <2>3. UNCHANGED <<settings, database, active>>
    BY <1>3
  <2> QED  BY <1>1, <1>3, <2>1, <2>2, <2>3, EndsList
<1> QED  BY <1>2, <1>3 DEF NewGoesOn

LEMMA DeleteList ==
  ASSUME ListInv, NEW h \in Handlers, DeleteGoesOn(h), UNCHANGED <<settings, database>>
  PROVE  ListInv'
<1>1. Waits(h) /\ Busy(h) /\ job[h].request \in {"create", "delete"} /\ job[h].kind = "delete" /\ UNCHANGED ready
  BY DEF DeleteGoesOn, Comes, Waits, Busy
<1>2. job[h].list \ {job[h].chat} \subseteq created /\ created \subseteq Chats
  BY <1>1, Waiting
<1>3. ASSUME conversations' \subseteq created, Ends(h), UNCHANGED <<active, shown>> PROVE ListInv'
  <2>1. patient => shown' \in {active, NoChat}
    BY <1>1, <1>3, Alone
  <2>2. ready' \in BOOLEAN /\ (ready' /\ saves => active \in created)
    BY <1>1, Waiting
  <2>3. UNCHANGED <<settings, database, active>>
    BY <1>3
  <2> QED  BY <1>1, <1>3, <2>1, <2>2, <2>3, EndsList
<1>4. CASE /\ conversations' = job[h].list \ {job[h].chat}
           /\ ~job[h].open /\ Ends(h) /\ UNCHANGED <<active, shown>>
  BY <1>2, <1>3, <1>4
<1>5. CASE conversations' = job[h].list \ {job[h].chat} /\ Opens(h, conversations') /\ UNCHANGED shown
  <2>1. PICK c \in conversations' : active' = c /\ Asks(h, "messages", c)
    BY <1>5 DEF Opens
  <2>2. "messages" \in Requests /\ job[h].request # "messages" /\ c \in created /\ c \in Chats
    BY <1>1, <1>2, <1>5 DEF Requests
  <2>3. UNCHANGED <<settings, database, shown, ready>> /\ conversations' \subseteq created
    BY <1>1, <1>2, <1>5
  <2> QED  BY <1>1, <2>1, <2>2, <2>3, AsksList
<1>6. CASE /\ conversations' = {} /\ Asks(h, "create", NoChat) /\ UNCHANGED <<active, shown>>
  <2>1. "create" \in Requests /\ job[h].request # "messages"
    BY <1>1 DEF Requests
  <2>2. UNCHANGED <<settings, database, shown, ready>> /\ UNCHANGED active /\ conversations' \subseteq created
    BY <1>1, <1>6
  <2> QED  BY <1>1, <1>6, <2>1, <2>2, AsksList
<1>7. CASE Comes(h, "delete", "create") /\ OpensEmpty(h, {})
  BY <1>1, <1>7, OpensEmptyList DEF Comes
<1>8. CASE Ends(h) /\ UNCHANGED <<conversations, active, shown>>
  <2>1. conversations' \subseteq created
    BY <1>1, <1>8, Waiting
  <2> QED  BY <1>3, <1>8, <2>1
<1> QED  BY <1>4, <1>5, <1>6, <1>7, <1>8 DEF DeleteGoesOn

LEMMA RefreshList ==
  ASSUME ListInv, NEW h \in Handlers, RefreshGoesOn(h), UNCHANGED <<settings, database>>
  PROVE  ListInv'
<1>1. Waits(h) /\ ~Busy(h) /\ Ends(h) /\ UNCHANGED <<active, shown, ready>>
  BY DEF RefreshGoesOn, Comes, Waits, Busy
<1>2. conversations' \subseteq created /\ ready' \in BOOLEAN /\ (ready' /\ saves => active \in created)
  BY <1>1, Waiting DEF RefreshGoesOn
<1>3. UNCHANGED <<settings, database, active>> /\ shown' = shown
  BY <1>1
<1> QED  BY <1>1, <1>2, <1>3, EndsList

LEMMA ServeList ==
  ASSUME ListInv, NEW h \in Handlers, Serve(h)
  PROVE  ListInv'
<1>1. Waits(h) /\ UNCHANGED settings /\ UNCHANGED page
  BY DEF Serve, Waits
<1>2. job[h] \in Jobs /\ inDb \subseteq created /\ created \subseteq Chats
  BY <1>1 DEF ListInv, ListType, ChatsInv, Waits
<1>3. PICK how \in {"ok", "failed", "503"}, got \in SUBSET Chats :
        /\ Answer(h, how, got) /\ got \subseteq created' /\ (how = "503" => ~saves)
        /\ created \subseteq created' /\ created' \subseteq Chats /\ inDb' \subseteq created'
  <2> DEFINE Is(how, got) ==
        /\ Answer(h, how, got) /\ got \subseteq created' /\ (how = "503" => ~saves)
        /\ created \subseteq created' /\ created' \subseteq Chats /\ inDb' \subseteq created'
  <2>1. ASSUME NEW how \in {"ok", "failed", "503"}, NEW got \in SUBSET inDb, Answer(h, how, got),
               how = "503" => ~saves, created' = created, inDb' \subseteq inDb
        PROVE  \E a \in {"ok", "failed", "503"}, g \in SUBSET Chats : Is(a, g)
    <3>1. got \in SUBSET Chats /\ Is(how, got)
      BY <1>2, <2>1
    <3> QED  BY <3>1
  <2>2. ASSUME NEW c \in Chats \ created, inDb' = inDb \cup {c}, created' = created \cup {c},
               Answer(h, "ok", {c})
        PROVE  \E a \in {"ok", "failed", "503"}, g \in SUBSET Chats : Is(a, g)
    <3>1. {c} \in SUBSET Chats /\ Is("ok", {c})
      BY <1>2, <2>2
    <3> QED  BY <3>1
  <2>3. inDb \in SUBSET inDb /\ {} \in SUBSET inDb
    OBVIOUS
  <2> HIDE DEF Is
  <2>4. \E a \in {"ok", "failed", "503"}, g \in SUBSET Chats : Is(a, g)
    BY <2>1, <2>2, <2>3 DEF Serve, database
  <2> QED  BY <2>4 DEF Is
<1> DEFINE j == [job[h] EXCEPT !.answer = how, !.got = got]
<1>0. j = [job[h] EXCEPT !.answer = how, !.got = got]
  OBVIOUS
<1> HIDE DEF j
<1>4. Becomes(h, j)
  <2>1. j \in Jobs
    BY <1>0, <1>2, <1>3 DEF Jobs, Idle
  <2>2. job' = [job EXCEPT ![h] = j]
    BY <1>0, <1>3 DEF Answer
  <2> QED  BY <2>1, <2>2 DEF Becomes
<1>5. /\ j # Idle /\ j.kind = job[h].kind /\ j.request = job[h].request /\ j.chat = job[h].chat
      /\ j.list = job[h].list /\ j.answer = how /\ j.got = got
  BY <1>0, <1>2, <1>3 DEF Jobs, Idle
<1>6. ListType' /\ ChatsInv'
  <2>1. conversations' \subseteq created' /\ active' \in created' \cup {NoChat} /\ active' = active
    BY <1>1, <1>3, Waiting DEF page
  <2>2. ready' \in BOOLEAN /\ (ready' /\ saves => active' \in created')
    BY <1>1, <1>3, Waiting DEF page
  <2>3. /\ j.list \subseteq created' /\ j.got \subseteq created' /\ (j.answer = "503" => ~saves)
        /\ j.kind = "load" /\ j.request = "messages" => active' \in created'
    BY <1>1, <1>3, <1>5, <2>1, Waiting
  <2> QED  BY <1>1, <1>3, <1>4, <2>1, <2>2, <2>3, ChatsKept
<1>7. UNCHANGED <<settings, active, shown>>
  BY <1>1 DEF page
<1>8. ShownInv'
  BY <1>1, <1>4, <1>5, <1>7, ShownAsBefore
<1> QED  BY <1>6, <1>8 DEF ListInv

(* A handler that is called.                                               *)
LEMMA StartsList ==
  ASSUME ListInv, NEW h \in Handlers, NEW kind \in Kinds \ {"load"}, NEW request \in Requests,
         NEW chat \in Chats \cup {NoChat}, NEW list \in SUBSET created, NEW open \in BOOLEAN,
         Starts(h, Closure(kind, request, chat, list, open)),
         active' = active \/ (request = "messages" /\ active' \in created),
         patient /\ kind # "refresh" => AllTookEffect,
         request = "messages" => chat = active',
         kind = "refresh" => request = "list" /\ active' = active
  PROVE  ListInv'
<1> DEFINE j == Closure(kind, request, chat, list, open)
<1>1. /\ inDb \subseteq created /\ ready \in BOOLEAN /\ created \subseteq Chats /\ active \in created \cup {NoChat}
      /\ ready /\ saves => active \in created
      /\ conversations \subseteq created
  BY DEF ListInv, ChatsInv, ListType, SentToACreatedChat
<1>2. Becomes(h, j) /\ job[h] = Idle /\ UNCHANGED <<settings, database, conversations, shown, ready>>
  BY <1>1, CallType DEF Starts, Becomes
<1>3. /\ j # Idle /\ j.kind = kind /\ j.request = request /\ j.chat = chat /\ j.list = list /\ j.got = {}
      /\ j.answer = "none"
  BY DEF Closure, Idle
<1> HIDE DEF j
<1>4. ListType' /\ ChatsInv'
  BY <1>1, <1>2, <1>3, ChatsKept DEF database
<1>5. CASE kind = "refresh"
  <2>1. ~Busy(h)
    BY <1>2 DEF Busy, Waits
  <2>2. UNCHANGED <<settings, active, shown>>
    BY <1>2, <1>5
  <2>3. ShownInv'
    BY <1>2, <1>3, <1>5, <2>1, <2>2, ShownAsBefore
  <2> QED  BY <1>4, <2>3 DEF ListInv
<1>6. CASE kind # "refresh"
  <2>1. patient => \A g \in Handlers : ~Busy(g)
    BY <1>6 DEF AllTookEffect, Busy, Waits
  <2>2. patient => shown \in {active, NoChat}
    BY <2>1 DEF ListInv, ShownInv, Fetches
  <2>3. request # "messages" => active' = active
    OBVIOUS
  <2>4. ShownInv'
    BY <1>2, <1>3, <1>6, <2>1, <2>2, <2>3, ShownByTheOne
  <2> QED  BY <1>4, <2>4 DEF ListInv
<1> QED  BY <1>5, <1>6

LEMMA ClicksList ==
  ASSUME ListInv, NEW h \in Handlers, Clicks(h) \/ Refresh(h)
  PROVE  ListInv'
<1>1. conversations \subseteq created /\ created \subseteq Chats
  BY DEF ListInv, ChatsInv, ListType
<1>2. /\ {"switch", "new", "delete", "refresh"} \subseteq Kinds \ {"load"}
      /\ {"messages", "create", "delete", "list"} \subseteq Requests
      /\ {} \in SUBSET created /\ FALSE \in BOOLEAN /\ conversations \in SUBSET created
  BY <1>1 DEF Kinds, Requests
<1>3. CASE Switch(h) /\ (patient => AllTookEffect)
  <2>1. PICK c \in conversations \ {active} : active' = c /\ Starts(h, Closure("switch", "messages", c, {}, FALSE))
    BY <1>3 DEF Switch, Call
  <2>2. c \in created /\ c \in Chats
    BY <1>1
  <2> QED  BY <1>2, <1>3, <2>1, <2>2, StartsList
<1>4. CASE New(h) /\ (patient => AllTookEffect)
  BY <1>2, <1>4, StartsList DEF New
<1>5. CASE Delete(h) /\ (patient => AllTookEffect)
  <2>1. PICK c \in conversations : /\ Starts(h, Closure("delete", "delete", c, conversations, c = active))
                                   /\ UNCHANGED active
    BY <1>5 DEF Delete
  <2>2. c \in Chats /\ (c = active) \in BOOLEAN
    BY <1>1
  <2> QED  BY <1>2, <1>5, <2>1, <2>2, StartsList
<1>6. CASE Refresh(h)
  BY <1>2, <1>6, StartsList DEF Refresh, Call
<1> QED  BY <1>3, <1>4, <1>5, <1>6 DEF Clicks

LEMMA ListStep ==
  ASSUME ListInv, [ListNext]_listVars
  PROVE  ListInv'
<1>1. CASE UNCHANGED listVars
  BY <1>1 DEF listVars, settings, database, page, ListInv, ListType, ChatsInv, ShownInv, SentToACreatedChat,
              Busy, Fetches, Waits
<1>2. ASSUME NEW h \in Handlers, Serve(h) \/ GoesOn(h) \/ Clicks(h) \/ Refresh(h) PROVE ListInv'
  <2>1. CASE Serve(h)
    BY <2>1, ServeList
  <2>2. CASE GoesOn(h)
    BY <2>2, LoadList, MessagesList, NewList, DeleteList, RefreshList DEF GoesOn
  <2>3. CASE Clicks(h) \/ Refresh(h)
    BY <2>3, ClicksList
  <2> QED  BY <1>2, <2>1, <2>2, <2>3
<1> QED  BY <1>1, <1>2 DEF ListNext

LEMMA ListStarts == ListInit => ListInv
<1> SUFFICES ASSUME ListInit PROVE ListInv
  OBVIOUS
<1> DEFINE j == Call("load", "list", NoChat)
<1>0. j = Closure("load", "list", NoChat, {}, FALSE)
  BY DEF Call
<1>1. j \in Jobs
  BY CallType DEF Call, Kinds, Requests
<1>2. job = [h \in Handlers |-> IF h = Loader THEN j ELSE Idle]
  BY DEF ListInit
<1> HIDE DEF j
<1>3. j # Idle /\ j.kind = "load" /\ j.request = "list" /\ j.list = {} /\ j.got = {} /\ j.answer = "none"
  BY <1>0 DEF Closure, Idle
<1>4. ListType
  BY <1>1, <1>2 DEF ListInit, ListType
<1>5. ChatsInv
  BY <1>2, <1>3 DEF ListInit, ChatsInv, SentToACreatedChat, Waits
<1>6. ShownInv
  BY <1>2, <1>3 DEF ListInit, ShownInv, Busy, Fetches, Waits
<1> QED  BY <1>4, <1>5, <1>6 DEF ListInv

(* Whatever fails, whatever overlaps and however many handlers wait, the   *)
(* list and the open conversation are of the backend's.                    *)
THEOREM ListInvariant == ListSpec => []ListInv
  BY ListStarts, ListStep, PTL DEF ListSpec

(* With the composer enabled a message goes to a conversation that the     *)
(* backend has created, or to a backend that keeps none.                   *)
THEOREM SentToACreatedChatAlways == ListSpec => []SentToACreatedChat
<1>1. ListInv => SentToACreatedChat
  BY DEF ListInv, ChatsInv
<1> QED  BY <1>1, ListInvariant, PTL

(* A user who lets each click take effect sees the open conversation, or   *)
(* nothing, whatever else is late.                                         *)
THEOREM ShowsTheOpenChatAlways == ListSpec => []ShowsTheOpenChat
<1>1. ListInv => ShowsTheOpenChat
  BY DEF ListInv, ShownInv, ShowsTheOpenChat, AllTookEffect, Fetches, Busy, Waits
<1> QED  BY <1>1, ListInvariant, PTL
=============================================================================
