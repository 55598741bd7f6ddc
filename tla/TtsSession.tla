----------------------------- MODULE TtsSession -----------------------------
(***************************************************************************)
(* One connection of /ws/tts (speech_gateway/main.py): the text of the     *)
(* client goes through a chunker to the speech service, whose audio goes   *)
(* back; a synthesis that fails is made once more, and after that the      *)
(* client is told that there is only text.  The gateway's tasks, the       *)
(* service and the client interleave at every await.                       *)
(*                                                                         *)
(* A chunk is its number, and a chunk of audio that of the text it speaks. *)
(* MaxChunks bounds what the client says.                                  *)
(***************************************************************************)
EXTENDS Integers, Sequences

CONSTANTS MaxChunks

VARIABLES
  voice,      \* the client that serves the language: "sarvam" or "azure"
  client,     \* "here" or "gone"
  typed,      \* chunks that reached the gateway
  complete,   \* did the client send __END__?
  gen,        \* _text_gen: "alive", or why it is finished
  pulled,     \* chunks taken from it
  kept,       \* _sent_chunks
  attempt,    \* of two, 0 before the first
  pump,       \* _pump_text: none, replaying, pulling, texting, flushing, done
  next,       \* chunks the current _replay_then_continue has yielded
  said,       \* chunks sent to the current socket
  flushed,    \* chunks_flushed
  finals,     \* finals_received
  broken,     \* send_error
  asked,      \* flushes the service has received on this socket
  made,       \* batches it has spoken
  wire,       \* its events on the way
  conn,       \* the socket to it: none, open, closed
  rx,         \* the attempt: off, receiving, posting (Azure), unwinding
  verdict,    \* how the attempt ends: none, ok, error, left
  heard,      \* heard[a]: the audio of attempt a that the client was sent
  told,       \* was the client sent text_only_fallback?
  stage       \* the handler: new, open, closed

textVars == <<client, typed, complete>>
sourceVars == <<gen, pulled, kept>>
pumpVars == <<pump, next, said, flushed, broken>>
serviceVars == <<asked, made, wire, conn>>
attemptVars == <<attempt, finals, rx, verdict>>
outVars == <<heard, told, stage>>
vars == <<voice, textVars, sourceVars, pumpVars, serviceVars, attemptVars, outVars>>

Init ==
  /\ voice \in {"sarvam", "azure"}
  /\ client = "here" /\ typed = 0 /\ complete = FALSE
  /\ gen = "alive" /\ pulled = 0 /\ kept = <<>>
  /\ pump = "none" /\ next = 0 /\ said = <<>> /\ flushed = 0 /\ broken = FALSE
  /\ asked = 0 /\ made = 0 /\ wire = <<>> /\ conn = "none"
  /\ attempt = 0 /\ finals = 0 /\ rx = "off" /\ verdict = "none"
  /\ heard = <<<<>>, <<>>>> /\ told = FALSE /\ stage = "new"

-----------------------------------------------------------------------------
(* The client *)

Type ==
  /\ stage = "open" /\ client = "here" /\ ~complete /\ typed < MaxChunks
  /\ typed' = typed + 1
  /\ UNCHANGED <<voice, client, complete, sourceVars, pumpVars, serviceVars, attemptVars, outVars>>

Complete ==
  /\ stage = "open" /\ client = "here" /\ ~complete
  /\ complete' = TRUE
  /\ UNCHANGED <<voice, client, typed, sourceVars, pumpVars, serviceVars, attemptVars, outVars>>

Leave ==
  /\ stage = "open" /\ client = "here"
  /\ client' = "gone"
  /\ UNCHANGED <<voice, typed, complete, sourceVars, pumpVars, serviceVars, attemptVars, outVars>>

-----------------------------------------------------------------------------
(* The handler and the retry *)

(* A fresh attempt: a new _replay_then_continue, a new socket. *)
Attempt(n) ==
  /\ attempt' = n
  /\ finals' = 0 /\ verdict' = "none"
  /\ pump' = "none" /\ next' = 0 /\ said' = <<>> /\ flushed' = 0 /\ broken' = FALSE
  /\ asked' = 0 /\ made' = 0 /\ wire' = <<>> /\ conn' = "none"
  /\ rx' = "off"

(* The rate limiter or a bad configuration refuses, or the first attempt   *)
(* begins.                                                                 *)
Open ==
  /\ stage = "new"
  /\ \/ stage' = "closed" /\ UNCHANGED <<pumpVars, serviceVars, attemptVars>>
     \/ stage' = "open" /\ Attempt(1)
  /\ UNCHANGED <<voice, textVars, sourceVars, heard, told>>

Idle == rx = "off" /\ stage = "open" /\ verdict = "none"

(* The service accepts and gets its configuration, and the pump starts; or *)
(* the connection fails.                                                   *)
Connect ==
  /\ Idle /\ voice = "sarvam"
  /\ \/ conn' = "open" /\ rx' = "receiving" /\ pump' = "replaying" /\ UNCHANGED verdict
     \/ rx' = "unwinding" /\ verdict' = "error" /\ pump' = "done" /\ UNCHANGED conn
  /\ UNCHANGED <<voice, textVars, sourceVars, next, said, flushed, broken, asked, made, wire,
                 attempt, finals, outVars>>

Attempts == 2

(* The attempt is over and its pump has ended: the reply is spoken, or it  *)
(* is made again, or the client is told; a client that left is told        *)
(* nothing.                                                                *)
Conclude ==
  /\ rx = "unwinding" /\ pump = "done"
  /\ \/ /\ verdict = "error" /\ attempt < Attempts
        /\ Attempt(attempt + 1)
        /\ UNCHANGED <<told, stage>>
     \/ /\ verdict # "error" \/ attempt >= Attempts
        /\ stage' = "closed"
        /\ told' = (verdict = "error" /\ client = "here")
        /\ rx' = "off"
        /\ UNCHANGED <<pumpVars, serviceVars, attempt, finals, verdict>>
  /\ UNCHANGED <<voice, textVars, sourceVars, heard>>

-----------------------------------------------------------------------------
(* The text: client_text_deltas, chunk_stream and _replay_then_continue.   *)
(* A chunk that has been spoken before is kept before it is spoken again.  *)

NothingToRead == typed = pulled
SourceEnds ==
  /\ pump = "pulling" /\ gen = "alive" /\ NothingToRead
  /\ gen' \in (IF complete THEN {"ended"} ELSE IF client = "gone" THEN {"gone"} ELSE {"idle"})
  /\ pump' = "done"
  /\ UNCHANGED <<voice, textVars, pulled, kept, next, said, flushed, broken, serviceVars, attemptVars, outVars>>

Keep(c) == kept' = Append(kept, c)

(* ws.send of the next chunk; on a socket that closed it raises.           *)
SendText(c) ==
  /\ next' = next + 1
  /\ said' = Append(said, c)
  /\ pump' = IF conn = "closed" THEN "done" ELSE "texting"
  /\ broken' = (broken \/ conn = "closed")
  /\ UNCHANGED flushed

Replay ==
  /\ pump = "replaying"
  /\ \/ next < Len(kept) /\ SendText(kept[next + 1])
     \/ next >= Len(kept) /\ pump' = "pulling" /\ UNCHANGED <<next, said, flushed, broken>>
  /\ UNCHANGED <<voice, textVars, sourceVars, serviceVars, attemptVars, outVars>>

Pull ==
  /\ pump = "pulling" /\ gen = "alive" /\ ~NothingToRead
  /\ pulled' = pulled + 1
  /\ Keep(pulled + 1)
  /\ SendText(pulled + 1)
  /\ UNCHANGED <<voice, textVars, gen, serviceVars, attemptVars, outVars>>

(* A generator that is finished ends every loop over it at once. *)
SourceIsOver ==
  /\ pump = "pulling" /\ gen # "alive"
  /\ pump' = "done"
  /\ UNCHANGED <<voice, textVars, sourceVars, next, said, flushed, broken, serviceVars, attemptVars, outVars>>

(* The flush is counted before it is sent. *)
Counted(n) == n + 1
Flush ==
  /\ pump = "texting"
  /\ flushed' = Counted(flushed)
  /\ \/ conn = "open" /\ asked' = asked + 1 /\ pump' = "flushing" /\ UNCHANGED broken
     \/ conn = "closed" /\ broken' = TRUE /\ pump' = "done" /\ UNCHANGED asked
  /\ UNCHANGED <<voice, textVars, sourceVars, next, said, made, wire, conn, attemptVars, outVars>>

Flushed ==
  /\ pump = "flushing"
  /\ pump' = IF next < Len(kept) THEN "replaying" ELSE "pulling"
  /\ UNCHANGED <<voice, textVars, sourceVars, next, said, flushed, broken, serviceVars, attemptVars, outVars>>

-----------------------------------------------------------------------------
(* The service speaks the flushed batches in order and says when each is   *)
(* final; it may report an error and it may close.                         *)

Speak ==
  /\ rx = "receiving" /\ conn = "open" /\ made < asked
  /\ made' = made + 1
  /\ wire' = wire \o <<[kind |-> "audio", of |-> said[made + 1]], [kind |-> "final", of |-> said[made + 1]]>>
  /\ UNCHANGED <<voice, textVars, sourceVars, pumpVars, asked, conn, attemptVars, outVars>>

ServiceFails ==
  /\ rx = "receiving" /\ conn = "open"
  /\ \/ conn' = "closed" /\ UNCHANGED wire
     \/ (\A i \in DOMAIN wire : wire[i].kind # "error")
        /\ wire' = Append(wire, [kind |-> "error", of |-> 0]) /\ UNCHANGED conn
  /\ UNCHANGED <<voice, textVars, sourceVars, pumpVars, asked, made, attemptVars, outVars>>

-----------------------------------------------------------------------------
(* The receiving loop of synthesize() *)

(* The finally block: a pump that is still running is cancelled, and       *)
(* waited for.  The cancellation ends whatever it awaits, and so, while it *)
(* waits for the client, the generators it pulls from.                     *)
Unwind(how) ==
  /\ rx' = "unwinding"
  /\ verdict' = IF how = "ok" /\ broken THEN "error" ELSE how
  /\ pump' = "done"
  /\ gen' = IF pump = "pulling" /\ gen = "alive" THEN "killed" ELSE gen
  /\ UNCHANGED <<attempt, next, said, flushed, broken, pulled, kept>>

SendDone == pump = "done"
OneFinal(n) == TRUE
AllFinal(n) == n >= flushed

Receive ==
  /\ rx = "receiving" /\ wire # <<>>
  /\ wire' = Tail(wire)
  /\ LET e == Head(wire) IN
     \/ /\ e.kind = "audio" /\ client = "here"
        /\ heard' = [heard EXCEPT ![attempt] = Append(@, e.of)]
        /\ UNCHANGED <<attemptVars, pumpVars, sourceVars>>
     \/ /\ e.kind = "audio" /\ client = "gone"
        /\ Unwind("left")
        /\ UNCHANGED <<finals, heard>>
     \/ e.kind = "error" /\ Unwind("error") /\ UNCHANGED <<finals, heard>>
     \/ /\ e.kind = "final"
        /\ finals' = finals + 1
        /\ \/ SendDone /\ AllFinal(finals + 1) /\ Unwind("ok")
           \/ ~(SendDone /\ AllFinal(finals + 1))
              /\ UNCHANGED <<attempt, rx, verdict, pumpVars, sourceVars>>
        /\ UNCHANGED heard
  /\ UNCHANGED <<voice, textVars, asked, made, conn, told, stage>>

(* Nothing for some seconds: it is the end only if all text was sent and   *)
(* all of it is final.                                                     *)
IdleTimeout ==
  /\ rx = "receiving" /\ wire = <<>> /\ SendDone /\ AllFinal(finals)
  /\ Unwind("ok")
  /\ UNCHANGED <<voice, textVars, finals, serviceVars, outVars>>

ConnectionClosed ==
  /\ rx = "receiving" /\ wire = <<>> /\ conn = "closed"
  /\ Unwind("error")
  /\ UNCHANGED <<voice, textVars, finals, serviceVars, outVars>>

-----------------------------------------------------------------------------
(* AzureFallbackTTSClient: all the text, then one request. *)

Collect ==
  /\ Idle /\ voice = "azure"
  /\ \/ next < Len(kept) /\ next' = next + 1 /\ said' = Append(said, kept[next + 1])
        /\ UNCHANGED <<sourceVars, rx>>
     \/ /\ next >= Len(kept) /\ gen = "alive" /\ ~NothingToRead
        /\ pulled' = pulled + 1 /\ Keep(pulled + 1)
        /\ next' = next + 1 /\ said' = Append(said, pulled + 1)
        /\ UNCHANGED <<gen, rx>>
     \/ /\ next >= Len(kept) /\ (gen # "alive" \/ NothingToRead)
        /\ gen' = IF gen # "alive" THEN gen
                  ELSE IF complete THEN "ended" ELSE IF client = "gone" THEN "gone" ELSE "idle"
        /\ rx' = "posting"
        /\ UNCHANGED <<pulled, kept, next, said>>
  /\ UNCHANGED <<voice, textVars, pump, flushed, broken, serviceVars, attempt, finals, verdict, outVars>>

AzureAnswers ==
  /\ rx = "posting"
  /\ rx' = "unwinding" /\ pump' = "done"
  /\ \/ verdict' = "error" /\ UNCHANGED heard
     \/ client = "gone" /\ verdict' = "left" /\ UNCHANGED heard
     \/ client = "here" /\ verdict' = "ok" /\ heard' = [heard EXCEPT ![attempt] = said]
  /\ UNCHANGED <<voice, textVars, sourceVars, next, said, flushed, broken, serviceVars, attempt, finals, told, stage>>

-----------------------------------------------------------------------------
Pump == Replay \/ Pull \/ SourceEnds \/ SourceIsOver \/ Flush \/ Flushed
Loop == Connect \/ Receive \/ IdleTimeout \/ ConnectionClosed \/ Collect \/ AzureAnswers \/ Conclude
Next == Type \/ Complete \/ Leave \/ Open \/ Pump \/ Loop \/ Speak \/ ServiceFails

(* Tasks run and timeouts fire; nothing makes the service speak or the     *)
(* client say or end anything.                                             *)
GoesOn == Pump \/ Loop
Spec == Init /\ [][Next]_vars /\ WF_vars(GoesOn)

-----------------------------------------------------------------------------
UpTo(n) == [i \in 1..n |-> i]

TtsTypeOK ==
  /\ voice \in {"sarvam", "azure"} /\ client \in {"here", "gone"}
  /\ typed \in 0..MaxChunks /\ pulled \in 0..typed /\ complete \in BOOLEAN
  /\ gen \in {"alive", "ended", "gone", "idle", "killed"}
  /\ pump \in {"none", "replaying", "pulling", "texting", "flushing", "done"}
  /\ conn \in {"none", "open", "closed"}
  /\ rx \in {"off", "receiving", "posting", "unwinding"}
  /\ verdict \in {"none", "ok", "error", "left"} /\ attempt \in 0..Attempts
  /\ stage \in {"new", "open", "closed"} /\ told \in BOOLEAN /\ broken \in BOOLEAN
  /\ finals <= made /\ made <= asked /\ asked <= flushed /\ flushed <= Len(said)

(* A retry speaks the reply from its beginning: what an attempt hands to   *)
(* the service is the client's text from the first chunk on, without a     *)
(* gap, whatever the attempt before it had taken (main.py:418).            *)
FromTheStart == said = UpTo(next) /\ kept = UpTo(pulled)

(* An attempt that ends well has played the audio of every chunk it sent:  *)
(* a final of an earlier chunk, or a pause, never cuts off a later one     *)
(* (sarvam_tts.py:207 and 297).                                            *)
NothingCutOff == verdict = "ok" => heard[attempt] = said

(* A client that stayed has heard every chunk the gateway took, in order,  *)
(* or was told that there is only text; and the gateway took all it typed, *)
(* unless the client paused for longer than the gateway waits, or the      *)
(* first attempt failed while its pump waited for the client: that cancel  *)
(* ends the source of the text for the retry too (sarvam_tts.py:318-322).  *)
SpokenOrTold ==
  stage = "closed" /\ attempt > 0 /\ client = "here" =>
    \/ told
    \/ /\ heard[attempt] = UpTo(pulled)
       /\ pulled = typed \/ gen = "idle" \/ (gen = "killed" /\ attempt = Attempts)

(* What the gateway says of a retry (main.py:418-420): it "replays the     *)
(* FULL text from the start, then continues with anything new", so a       *)
(* client that typed to the end has heard it all or was told.  The code    *)
(* breaks this: see the exception above.                                   *)
RetrySpeaksAll ==
  stage = "closed" /\ attempt = Attempts /\ client = "here" /\ complete /\ gen # "idle" =>
    told \/ heard[attempt] = UpTo(typed)

(* A connection ends, for a client that went silent and under a service    *)
(* that fails, unless the service owes a final from some time on for ever  *)
(* on a socket it keeps open: nothing bounds the wait for a final          *)
(* (sarvam_tts.py:263-278).                                                *)
FinalsCome == []<>(conn # "open" \/ made = asked)
TtsEnds == FinalsCome => ((stage = "open") ~> (stage = "closed"))
=============================================================================
