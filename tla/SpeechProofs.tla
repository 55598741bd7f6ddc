---------------------------- MODULE SpeechProofs ----------------------------
(***************************************************************************)
(* What the two speech endpoints of the gateway keep for any number of     *)
(* frames, chunks and events.  /ws/stt: one task receives at a time, the   *)
(* retries stop, the streams transcribe no frame twice, and the request    *)
(* that replaces them has the latest audio.  /ws/tts: each attempt speaks  *)
(* the reply from its first chunk without a gap, one that ends well has    *)
(* cut nothing off, and a client that stayed heard all of it or was told.  *)
(***************************************************************************)
EXTENDS MCGateway, SequenceTheorems, TLAPS

-----------------------------------------------------------------------------
(* /ws/stt. *)

Transcripts == {"final", "doubtful"}
Events == [kind : Transcripts \cup {"other", "garbage"}, frames : Seq(Nat)]
Answers == [frames : Seq(Nat), as : {"final", "question"}]
SttType ==
  /\ Stt!SttTypeOK
  /\ got \in Seq(Nat) /\ wire \in Seq(Events) /\ answers \in Seq(Answers)
  /\ held \in Seq(Nat) /\ delay \in Nat /\ elapsed \in Nat /\ attempt \in Nat /\ recvs \in {0, 1}

(* The loop waits with one recv in flight, and between its waits with none.*)
RecvInv ==
  stage = "streaming" =>
    /\ loop # "off" /\ pump # "none"
    /\ recvs = IF loop = "again" THEN 0 ELSE 1

(* The n-th connection follows pauses of 1, 2, 4 quarters of a second, the *)
(* last one cut so that their sum is the limit.                            *)
Paused == [n \in 1..4 |-> IF n = 1 THEN 0 ELSE IF n = 2 THEN 1 ELSE IF n = 3 THEN 3 ELSE 7]
BackoffInv ==
  /\ Stt!BackoffBounded
  /\ delay = elapsed + 1 \/ elapsed + delay = MaxBackoff
  /\ stage = "new" => attempt = 0 /\ elapsed = 0
  /\ stage \in {"connecting", "streaming", "failed"} => attempt \in 1..4 /\ elapsed = Paused[attempt]
  /\ stage = "pausing" => attempt \in 1..3 /\ elapsed = Paused[attempt + 1]

(* What the streams have transcribed is in the order of the frames: the    *)
(* client's answers, then the events on the way, then what the service has *)
(* received, then what the pump will send.                                 *)
Of(e) == {e.frames[k] : k \in DOMAIN e.frames}
Below(S, T) == \A f \in S, g \in T : f < g
Unsent == IF pump = "sending" THEN taken ELSE taken + 1
Streamed(j) == j = Len(answers) => via # "rest"
OrderInv ==
  /\ \A i, j \in DOMAIN answers : i < j /\ Streamed(j) => Below(Of(answers[i]), Of(answers[j]))
  /\ stage # "closed" =>
       /\ \A i \in DOMAIN answers : Below(Of(answers[i]), {Unsent})
       /\ \A i \in DOMAIN answers, w \in DOMAIN wire : Below(Of(answers[i]), Of(wire[w]))
       /\ \A v, w \in DOMAIN wire : v < w => Below(Of(wire[v]), Of(wire[w]))
       /\ \A w \in DOMAIN wire : Below(Of(wire[w]), {Unsent})
       /\ \A k \in DOMAIN got : got[k] < Unsent
       /\ \A i \in DOMAIN answers, k \in DOMAIN got : Below(Of(answers[i]), {got[k]})
       /\ \A w \in DOMAIN wire, k \in DOMAIN got : Below(Of(wire[w]), {got[k]})

(* The buffer has the latest frames, in order; the last request had them.  *)
HeldInv ==
  /\ Len(held) = IF taken < BufferFrames THEN taken ELSE BufferFrames
  /\ \A k \in 1..Len(held) : held[k] = taken - Len(held) + k
  /\ via # "none" => stage = "closed"
  /\ via = "rest" => answers # <<>> /\ answers[Len(answers)].frames = held

SttInv == SttType /\ RecvInv /\ BackoffInv /\ OrderInv /\ HeldInv

LEMMA InitStt == Stt!Init => SttInv
<1> SUFFICES ASSUME Stt!Init PROVE SttInv
  OBVIOUS
<1> USE GatewayAssumption DEF Stt!Init
<1>1. SttType
  BY DEF SttType, Stt!SttTypeOK
<1>2. RecvInv /\ BackoffInv
  BY DEF RecvInv, BackoffInv, Stt!BackoffBounded
<1>3. OrderInv
  BY DEF OrderInv
<1>4. HeldInv
  BY DEF HeldInv
<1> QED  BY <1>1, <1>2, <1>3, <1>4 DEF SttInv

(* What is sent, with a transcript of some frames. *)
LEMMA Sends ==
  ASSUME answers \in Seq(Answers), NEW f \in Seq(Nat), NEW e, e.frames = f, Stt!SendEvent(e)
  PROVE  /\ answers' \in Seq(Answers) /\ answers' # <<>> /\ Len(answers') = Len(answers) + 1
         /\ answers'[Len(answers')].frames = f
         /\ \A i \in 1..Len(answers) : answers'[i] = answers[i]
<1> DEFINE a == [frames |-> f, as |-> IF e.kind = "doubtful" THEN "question" ELSE "final"]
<1>1. a \in Answers /\ a.frames = f
  BY DEF Answers
<1>2. answers' = Append(answers, a)
  BY DEF Stt!SendEvent
<1> HIDE DEF a
<1>3. /\ Append(answers, a) \in Seq(Answers) /\ Append(answers, a) # <<>>
      /\ Len(Append(answers, a)) = Len(answers) + 1 /\ Append(answers, a)[Len(answers) + 1] = a
      /\ \A i \in 1..Len(answers) : Append(answers, a)[i] = answers[i]
  BY <1>1, AppendProperties
<1> QED  BY <1>1, <1>2, <1>3

(* A buffer of the latest frames, after one more.                          *)
LatestOf(h, n) ==
  /\ h \in Seq(Nat) /\ Len(h) = IF n < BufferFrames THEN n ELSE BufferFrames
  /\ \A k \in 1..Len(h) : h[k] = n - Len(h) + k
LEMMA KeepsLatest ==
  ASSUME NEW n \in Nat, LatestOf(held, n)
  PROVE  LatestOf(Stt!Latest(Append(held, n + 1)), n + 1)
<1> DEFINE q == Append(held, n + 1)
<1>1. /\ q \in Seq(Nat) /\ q # <<>> /\ Len(held) \in Nat /\ Len(q) = Len(held) + 1
      /\ q[Len(held) + 1] = n + 1 /\ \A k \in 1..Len(held) : q[k] = held[k]
  <2>1. held \in Seq(Nat) /\ n + 1 \in Nat
    BY DEF LatestOf
  <2>2. Len(held) \in Nat
    BY <2>1, LenProperties
  <2> QED  BY <2>1, <2>2, AppendProperties
<1>2. Stt!Latest(Append(held, n + 1)) = IF Len(q) > BufferFrames THEN Tail(q) ELSE q
  BY DEF Stt!Latest
<1> HIDE DEF q
<1>3. ASSUME NEW k \in 1..Len(q) PROVE q[k] = n - Len(held) + k
  BY <1>1 DEF LatestOf
<1>4. CASE Len(q) <= BufferFrames
  BY <1>1, <1>2, <1>3, <1>4, GatewayAssumption DEF LatestOf
<1>5. CASE Len(q) > BufferFrames
  <2>1. Len(held) = BufferFrames /\ n >= BufferFrames
    BY <1>1, <1>5, GatewayAssumption DEF LatestOf
  <2>2. Tail(q) \in Seq(Nat) /\ Len(Tail(q)) = BufferFrames /\ \A k \in 1..Len(Tail(q)) : Tail(q)[k] = q[k + 1]
    BY <1>1, <2>1, HeadTailProperties
  <2>3. ASSUME NEW k \in 1..BufferFrames PROVE Tail(q)[k] = n + 1 - BufferFrames + k
    <3>1. k + 1 \in 1..Len(q)
      BY <1>1, <2>1, GatewayAssumption
    <3>2. q[k + 1] = n - Len(held) + (k + 1)
      BY <1>3, <3>1
    <3> QED  BY <2>1, <2>2, <3>2, GatewayAssumption
  <2>4. LatestOf(Tail(q), n + 1)
    BY <2>1, <2>2, <2>3, GatewayAssumption DEF LatestOf
  <2>5. Stt!Latest(Append(held, n + 1)) = Tail(q)
    BY <1>2, <1>5
  <2> QED  BY <2>4, <2>5
<1> QED  BY <1>1, <1>4, <1>5, GatewayAssumption

LEMMA SttTypeKeeps ==
  ASSUME SttType, RecvInv, HeldInv, Stt!Next
  PROVE  SttType'
<1> USE GatewayAssumption DEF SttType, Stt!SttTypeOK, Stt!clientVars, Stt!sourceVars, Stt!policyVars,
     Stt!streamVars, Stt!serviceVars
<1>1. CASE Stt!Talk
  BY <1>1 DEF Stt!Talk
<1>2. CASE Stt!Leave
  BY <1>2 DEF Stt!Leave
<1>3. CASE Stt!Open
  BY <1>3 DEF Stt!Open
<1>4. CASE Stt!Connect
  BY <1>4 DEF Stt!Connect
<1>5. CASE Stt!Fail
  <2>1. delay' \in Nat /\ elapsed' \in Nat
    BY <1>5 DEF Stt!Fail, Stt!GivesUp, Stt!NextDelay, Stt!Least, Stt!Doubled
  <2> QED  BY <1>5, <2>1 DEF Stt!Fail
<1>6. CASE Stt!Retry
  BY <1>6 DEF Stt!Retry
<1>7. CASE Stt!Rest
  <2>1. answers' \in Seq(Answers)
    <3>1. ASSUME NEW k \in Transcripts, Stt!SendEvent([kind |-> k, frames |-> held])
          PROVE  answers' \in Seq(Answers)
      BY <3>1, Sends
    <3> QED  BY <1>7, <3>1 DEF Stt!Rest, Transcripts
  <2> QED  BY <1>7, <2>1 DEF Stt!Rest, Stt!Close
<1>8. CASE Stt!Pull
  <2>1. LatestOf(held, taken)
    BY DEF HeldInv, LatestOf
  <2>2. LatestOf(held', taken + 1)
    BY <1>8, <2>1, KeepsLatest DEF Stt!Pull, Stt!KeepFrame, Stt!NextFrame
  <2> QED  BY <1>8, <2>2 DEF Stt!Pull, Stt!NextFrame, LatestOf
<1>9. CASE Stt!Send
  <2>1. <<taken>> \in Seq(Nat)
    OBVIOUS
  <2>2. got \o <<taken>> \in Seq(Nat)
    BY <2>1, ConcatProperties
  <2> QED  BY <1>9, <2>2 DEF Stt!Send, Stt!Sent
<1>10. CASE Stt!AudioEnds
  BY <1>10 DEF Stt!AudioEnds
<1>11. CASE Stt!SourceIsOver
  BY <1>11 DEF Stt!SourceIsOver
<1>12. CASE Stt!PumpWins
  BY <1>12 DEF Stt!PumpWins
<1>13. CASE Stt!RecvUnwinds
  BY <1>13 DEF Stt!RecvUnwinds, Stt!Unwound
<1>14. CASE Stt!RecvAgain
  BY <1>14 DEF Stt!RecvAgain, Stt!NextWait, RecvInv
<1>15. CASE Stt!Receive
  <2>1. recvs' \in {0, 1} /\ wire' \in Seq(Events)
    BY <1>15 DEF Stt!Receive, Stt!Waiting, RecvInv
  <2>2. Head(wire) \in Events
    BY <1>15 DEF Stt!Receive
  <2>3. answers' \in Seq(Answers)
    <3>1. Head(wire).frames \in Seq(Nat)
      BY <2>2 DEF Events
    <3>2. Stt!SendEvent(Head(wire)) => answers' \in Seq(Answers)
      BY <3>1, Sends
    <3> QED  BY <1>15, <3>2 DEF Stt!Receive
  <2> QED  BY <1>15, <2>1, <2>3 DEF Stt!Receive, Stt!Close
<1>16. CASE Stt!Closed
  BY <1>16 DEF Stt!Closed, Stt!Waiting, Stt!Close, RecvInv
<1>17. CASE Stt!FinalTimeout
  BY <1>17 DEF Stt!FinalTimeout, Stt!Waiting, Stt!Close, RecvInv
<1>18. CASE Stt!Transcribe
  <2>1. wire' \in Seq(Events) /\ got' \in Seq(Nat)
    <3>1. CASE UNCHANGED wire
      BY <1>18, <3>1 DEF Stt!Transcribe
    <3>2. ASSUME NEW k \in Transcripts \cup {"other", "garbage"}, NEW f \in Seq(Nat),
                 wire' = Append(wire, [kind |-> k, frames |-> f])
          PROVE  wire' \in Seq(Events)
      <4>1. [kind |-> k, frames |-> f] \in Events
        BY DEF Events
      <4> QED  BY <3>2, <4>1, AppendProperties
    <3>3. <<>> \in Seq(Nat)
      OBVIOUS
    <3>4. got' \in Seq(Nat)
      BY <1>18, <3>3 DEF Stt!Transcribe
    <3> QED  BY <1>18, <3>1, <3>2, <3>3, <3>4 DEF Stt!Transcribe, Transcripts
  <2> QED  BY <1>18, <2>1 DEF Stt!Transcribe
<1>19. CASE Stt!Break
  BY <1>19 DEF Stt!Break
<1> QED  BY <1>1, <1>2, <1>3, <1>4, <1>5, <1>6, <1>7, <1>8, <1>9, <1>10, <1>11, <1>12, <1>13, <1>14, <1>15,
            <1>16, <1>17, <1>18, <1>19 DEF Stt!Next, Stt!Pump, Stt!Loop, Stt!Policy

LEMMA RecvKeeps ==
  ASSUME SttType, RecvInv, Stt!Next
  PROVE  RecvInv'
<1> USE DEF SttType, Stt!SttTypeOK, RecvInv, Stt!clientVars, Stt!sourceVars, Stt!policyVars,
     Stt!streamVars, Stt!serviceVars
<1>1. CASE stage' # "streaming"
  BY <1>1
<1>2. CASE UNCHANGED <<stage, loop, recvs>> /\ (pump' = pump \/ pump' # "none")
  BY <1>2
<1>3. CASE Stt!Connect
  BY <1>3 DEF Stt!Connect
<1>4. CASE Stt!PumpWins
  BY <1>4 DEF Stt!PumpWins, Stt!Waiting
<1>5. CASE Stt!RecvUnwinds
  BY <1>5 DEF Stt!RecvUnwinds, Stt!Unwound
<1>6. CASE Stt!RecvAgain
  BY <1>6 DEF Stt!RecvAgain, Stt!NextWait
<1>7. CASE Stt!Receive
  BY <1>7 DEF Stt!Receive, Stt!Waiting, Stt!Close
<1> QED  BY <1>1, <1>2, <1>3, <1>4, <1>5, <1>6, <1>7
            DEF Stt!Next, Stt!Pump, Stt!Loop, Stt!Policy, Stt!Talk, Stt!Leave, Stt!Open, Stt!Pull, Stt!Send,
                Stt!AudioEnds, Stt!SourceIsOver, Stt!Closed, Stt!FinalTimeout, Stt!Close, Stt!Fail, Stt!Retry,
                Stt!Rest, Stt!Transcribe, Stt!Break

LEMMA BackoffKeeps ==
  ASSUME SttType, BackoffInv, Stt!Next
  PROVE  BackoffInv'
<1> USE GatewayAssumption DEF SttType, Stt!SttTypeOK, BackoffInv, Stt!BackoffBounded, Paused, Stt!clientVars,
     Stt!sourceVars, Stt!policyVars, Stt!streamVars, Stt!serviceVars
<1>1. CASE UNCHANGED <<delay, elapsed, attempt, stage>>
  BY <1>1
<1>2. CASE UNCHANGED <<delay, elapsed, attempt>> /\ stage' = "closed"
  BY <1>2
<1>3. CASE UNCHANGED <<delay, elapsed, attempt>> /\ stage = "streaming" /\ stage' = "failed"
  BY <1>3
<1>4. CASE Stt!Open
  BY <1>4 DEF Stt!Open
<1>5. CASE Stt!Connect
  BY <1>5 DEF Stt!Connect
<1>6. CASE Stt!Retry
  BY <1>6 DEF Stt!Retry
<1>7. CASE Stt!Fail
  <2>1. CASE stage' = "rest"
    BY <1>7, <2>1 DEF Stt!Fail
  <2>2. CASE stage' = "pausing"
    <3>1. /\ elapsed + delay < MaxBackoff /\ delay = elapsed + 1 /\ elapsed' = elapsed + delay /\ attempt' = attempt
          /\ delay' = 2 * delay \/ delay' = MaxBackoff - elapsed'
      BY <1>7, <2>2 DEF Stt!Fail, Stt!GivesUp, Stt!NextDelay, Stt!Least, Stt!Doubled
    <3>2. attempt \in 1..4 /\ elapsed = Paused[attempt]
      BY <1>7 DEF Stt!Fail
    <3>3. attempt \in 1..3 /\ elapsed' = Paused[attempt + 1]
      BY <3>1, <3>2
    <3> QED  BY <2>2, <3>1, <3>3
  <2> QED  BY <1>7, <2>1, <2>2 DEF Stt!Fail
<1> QED  BY <1>1, <1>2, <1>3, <1>4, <1>5, <1>6, <1>7
            DEF Stt!Next, Stt!Pump, Stt!Loop, Stt!Policy, Stt!Talk, Stt!Leave, Stt!Pull, Stt!Send,
                Stt!AudioEnds, Stt!SourceIsOver, Stt!PumpWins, Stt!RecvUnwinds, Stt!RecvAgain, Stt!Receive,
                Stt!Closed, Stt!FinalTimeout, Stt!Close, Stt!Waiting, Stt!Rest, Stt!Transcribe, Stt!Break

LEMMA HeldKeeps ==
  ASSUME SttType, HeldInv, Stt!Next
  PROVE  HeldInv'
<1> USE GatewayAssumption DEF SttType, Stt!SttTypeOK, HeldInv, Stt!clientVars, Stt!sourceVars, Stt!policyVars,
     Stt!streamVars, Stt!serviceVars
<1>1. CASE UNCHANGED <<taken, held, answers, via>> /\ (via = "none" \/ stage' = stage)
  BY <1>1
<1>2. CASE UNCHANGED <<taken, held, answers>> /\ stage' = "closed" /\ via' \in {"left", "stream", "error"}
  BY <1>2
<1>3. CASE UNCHANGED <<taken, held, via>> /\ via = "none"
  BY <1>3
<1>4. CASE Stt!Pull
  <2>1. LatestOf(held, taken)
    BY DEF LatestOf
  <2>2. LatestOf(held', taken') /\ stage = "streaming" /\ UNCHANGED <<via, stage, answers>>
    BY <1>4, <2>1, KeepsLatest DEF Stt!Pull, Stt!KeepFrame, Stt!NextFrame
  <2> QED  BY <2>2 DEF LatestOf
<1>5. CASE Stt!Rest
  <2>1. CASE UNCHANGED answers /\ via' \in {"left", "error"}
    BY <1>2, <1>5, <2>1 DEF Stt!Rest, Stt!Close
  <2>2. ASSUME NEW k \in Transcripts, Stt!SendEvent([kind |-> k, frames |-> held]), Stt!Close("rest")
        PROVE  HeldInv'
    <3>1. answers' # <<>> /\ answers'[Len(answers')].frames = held
      BY <2>2, Sends
    <3> QED  BY <1>5, <2>2, <3>1 DEF Stt!Rest, Stt!Close
  <2> QED  BY <1>5, <2>1, <2>2 DEF Stt!Rest, Stt!Close, Transcripts
<1>6. CASE Stt!Receive
  BY <1>1, <1>2, <1>3, <1>6 DEF Stt!Receive, Stt!Waiting, Stt!Close
<1> QED  BY <1>1, <1>2, <1>4, <1>5, <1>6
            DEF Stt!Next, Stt!Pump, Stt!Loop, Stt!Policy, Stt!Talk, Stt!Leave, Stt!Open, Stt!Connect,
                Stt!Fail,
                Stt!Retry, Stt!Send, Stt!AudioEnds, Stt!SourceIsOver, Stt!PumpWins, Stt!RecvUnwinds,
                Stt!RecvAgain, Stt!Closed, Stt!FinalTimeout, Stt!Close, Stt!Waiting, Stt!Transcribe, Stt!Break

(* An event that leaves the way, and one that joins it.                    *)
LEMMA OneArrives ==
  ASSUME wire \in Seq(Events), wire # <<>>, wire' = Tail(wire)
  PROVE  /\ Head(wire) = wire[1] /\ Head(wire) \in Events /\ 1 \in DOMAIN wire
         /\ \A w \in DOMAIN wire' : w + 1 \in DOMAIN wire /\ w + 1 > 1 /\ wire'[w] = wire[w + 1]
<1>1. /\ Head(wire) \in Events /\ Tail(wire) \in Seq(Events) /\ Len(Tail(wire)) = Len(wire) - 1
      /\ \A w \in 1..Len(Tail(wire)) : Tail(wire)[w] = wire[w + 1]
  BY HeadTailProperties
<1>2. DOMAIN wire = 1..Len(wire) /\ DOMAIN wire' = 1..Len(wire') /\ Len(wire) \in Nat /\ Len(wire) > 0
  BY <1>1, LenProperties, EmptySeq
<1>3. Head(wire) = wire[1]
  BY <1>2
<1> QED  BY <1>1, <1>2, <1>3

LEMMA OneIsSent ==
  ASSUME wire \in Seq(Events), NEW e \in Events, wire' = Append(wire, e)
  PROVE  /\ Len(wire) \in Nat /\ DOMAIN wire = 1..Len(wire) /\ DOMAIN wire' = 1..(Len(wire) + 1)
         /\ wire'[Len(wire) + 1] = e /\ \A w \in DOMAIN wire : wire'[w] = wire[w]
BY AppendProperties, LenProperties

(* The frames of all of them are numbers. *)
LEMMA FramesAreNumbers ==
  ASSUME SttType
  PROVE  /\ \A i \in DOMAIN answers : Of(answers[i]) \in SUBSET Nat
         /\ \A w \in DOMAIN wire : Of(wire[w]) \in SUBSET Nat
         /\ \A k \in DOMAIN got : got[k] \in Nat
         /\ taken \in Nat /\ Unsent \in Nat
<1>0. taken \in Nat /\ wire \in Seq(Events) /\ got \in Seq(Nat) /\ answers \in Seq(Answers)
  BY DEF SttType, Stt!SttTypeOK
<1>1. ASSUME NEW e, e.frames \in Seq(Nat) PROVE Of(e) \in SUBSET Nat
  <2>1. \A k \in DOMAIN e.frames : e.frames[k] \in Nat
    BY <1>1, ElementOfSeq, LenProperties
  <2> QED  BY <2>1 DEF Of
<1>2. ASSUME NEW i \in DOMAIN answers PROVE Of(answers[i]) \in SUBSET Nat
  <2>1. answers[i] \in Answers
    BY <1>0, <1>2, ElementOfSeq, LenProperties
  <2> QED  BY <1>1, <2>1 DEF Answers
<1>3. ASSUME NEW w \in DOMAIN wire PROVE Of(wire[w]) \in SUBSET Nat
  <2>1. wire[w] \in Events
    BY <1>0, <1>3, ElementOfSeq, LenProperties
  <2> QED  BY <1>1, <2>1 DEF Events
<1>4. ASSUME NEW k \in DOMAIN got PROVE got[k] \in Nat
  BY <1>0, <1>4, ElementOfSeq, LenProperties
<1> QED  BY <1>0, <1>2, <1>3, <1>4 DEF Unsent

LEMMA OrderKeeps ==
  ASSUME SttType, HeldInv, OrderInv, Stt!Next
  PROVE  OrderInv'
<1> USE DEF Stt!clientVars, Stt!sourceVars, Stt!policyVars, Stt!streamVars, Stt!serviceVars
<1>0. taken \in Nat /\ wire \in Seq(Events) /\ got \in Seq(Nat) /\ answers \in Seq(Answers)
  BY DEF SttType, Stt!SttTypeOK
<1>1. CASE UNCHANGED <<answers, wire, got, taken, via>> /\ Unsent' >= Unsent /\ Unsent' \in Nat
           /\ (stage = "closed" => stage' = "closed")
  <2>1. ASSUME stage # "closed"
        PROVE  /\ \A i \in DOMAIN answers : Below(Of(answers[i]), {Unsent'})
               /\ \A w \in DOMAIN wire : Below(Of(wire[w]), {Unsent'})
               /\ \A k \in DOMAIN got : got[k] < Unsent'
    BY <1>1, <2>1, FramesAreNumbers DEF OrderInv, Below
  <2> QED  BY <1>1, <2>1 DEF OrderInv, Below, Of, Streamed
<1>2. CASE UNCHANGED answers /\ stage' = "closed" /\ via' # "rest" /\ via = "none"
  BY <1>2 DEF OrderInv, Below, Of, Streamed
<1>4. CASE Stt!Connect
  <2>1. UNCHANGED <<answers, taken, via>> /\ stage = "connecting" /\ wire' = <<>> /\ got' = <<>>
        /\ stage' \in {"streaming", "failed"} /\ (pump' = "pulling" \/ pump' = pump)
    BY <1>4 DEF Stt!Connect
  <2>2. Unsent' >= Unsent /\ Unsent' \in Nat
    BY <1>0, <2>1 DEF Unsent
  <2>3. \A i \in DOMAIN answers : Below(Of(answers[i]), {Unsent'})
    BY <2>1, <2>2, FramesAreNumbers DEF OrderInv, Below
  <2> QED  BY <2>1, <2>3 DEF OrderInv, Below, Of, Streamed
<1>5. CASE Stt!Pull
  <2>1. UNCHANGED <<answers, wire, got, via, stage>> /\ taken' = taken + 1 /\ pump = "pulling" /\ pump' = "sending"
    BY <1>5 DEF Stt!Pull, Stt!NextFrame
  <2>2. Unsent' = Unsent
    BY <1>0, <2>1 DEF Unsent
  <2> QED  BY <2>1, <2>2 DEF OrderInv, Below, Of, Streamed
<1>6. CASE Stt!Send
  <2>1. CASE UNCHANGED got
    BY <1>0, <1>1, <1>6, <2>1 DEF Stt!Send, Unsent
  <2>2. CASE got' = got \o <<taken>> /\ pump' = "pulling"
    <3>1. UNCHANGED <<answers, wire, via, stage, taken>> /\ pump = "sending" /\ Unsent = taken /\ Unsent' = taken + 1
          /\ stage = "streaming"
      BY <1>6, <2>2 DEF Stt!Send, Unsent
    <3>2. /\ \A i \in DOMAIN answers : Below(Of(answers[i]), {Unsent'})
          /\ \A w \in DOMAIN wire : Below(Of(wire[w]), {Unsent'})
      BY <1>0, <3>1, FramesAreNumbers DEF OrderInv, Below
    <3>3. ASSUME NEW k \in DOMAIN got' PROVE got'[k] = taken \/ \E l \in DOMAIN got : got'[k] = got[l]
      <4>1. got' \in Seq(Nat) /\ Len(got') = Len(got) + 1
            /\ \A l \in 1..(Len(got) + 1) : got'[l] = IF l <= Len(got) THEN got[l] ELSE <<taken>>[l - Len(got)]
        BY <1>0, <2>2, ConcatProperties
      <4> QED  BY <1>0, <4>1, LenProperties
    <3>4. \A k \in DOMAIN got' : got'[k] < Unsent'
      BY <1>0, <3>1, <3>3, FramesAreNumbers DEF OrderInv
    <3>5. /\ \A i \in DOMAIN answers, k \in DOMAIN got' : Below(Of(answers[i]), {got'[k]})
          /\ \A w \in DOMAIN wire, k \in DOMAIN got' : Below(Of(wire[w]), {got'[k]})
      BY <3>1, <3>3 DEF OrderInv, Below
    <3> QED  BY <3>1, <3>2, <3>4, <3>5 DEF OrderInv, Below, Of, Streamed
  <2> QED  BY <1>6, <2>1, <2>2 DEF Stt!Send, Stt!Sent
<1>7. CASE Stt!Transcribe
  <2>1. UNCHANGED <<answers, via, stage, taken, pump>> /\ Unsent' = Unsent /\ stage = "streaming"
    BY <1>7 DEF Stt!Transcribe, Unsent
  <2>2. ASSUME NEW e \in Events, wire' = Append(wire, e),
               (e.frames = got /\ got' = <<>>) \/ (e.frames = <<>> /\ got' = got)
        PROVE  OrderInv'
    <3> DEFINE n == Len(wire) + 1
    <3>1. (Of(e) = {got[k] : k \in DOMAIN got} /\ got' = <<>>) \/ (Of(e) = {} /\ got' = got)
      <4>1. CASE e.frames = got /\ got' = <<>>
        BY <4>1 DEF Of
      <4>2. CASE e.frames = <<>> /\ got' = got
        BY <4>2 DEF Of
      <4> QED  BY <2>2, <4>1, <4>2
    <3>2. n \in Nat /\ DOMAIN wire' = DOMAIN wire \cup {n} /\ wire'[n] = e /\ \A w \in DOMAIN wire : w < n /\ wire'[w] = wire[w]
      BY <1>0, <2>2, OneIsSent
    <3> HIDE DEF n
    <3>3. Below(Of(e), {Unsent}) /\ (\A i \in DOMAIN answers : Below(Of(answers[i]), Of(e)))
          /\ (\A w \in DOMAIN wire : Below(Of(wire[w]), Of(e)))
      BY <2>1, <3>1 DEF OrderInv, Below
    <3>4. \A v, w \in DOMAIN wire' : v < w => Below(Of(wire'[v]), Of(wire'[w]))
      BY <1>0, <2>1, <3>2, <3>3, LenProperties DEF OrderInv
    <3>5. /\ \A i \in DOMAIN answers, w \in DOMAIN wire' : Below(Of(answers[i]), Of(wire'[w]))
          /\ \A w \in DOMAIN wire' : Below(Of(wire'[w]), {Unsent})
      BY <2>1, <3>2, <3>3 DEF OrderInv
    <3>6. /\ \A k \in DOMAIN got' : got'[k] < Unsent
          /\ \A i \in DOMAIN answers, k \in DOMAIN got' : Below(Of(answers[i]), {got'[k]})
          /\ \A w \in DOMAIN wire', k \in DOMAIN got' : Below(Of(wire'[w]), {got'[k]})
      BY <2>1, <3>1, <3>2 DEF OrderInv, Below
    <3> QED  BY <2>1, <3>4, <3>5, <3>6 DEF OrderInv, Below, Of, Streamed
  <2>3. ASSUME NEW k \in Transcripts, wire' = Append(wire, [kind |-> k, frames |-> got]), got' = <<>>
        PROVE  OrderInv'
    <3>1. PICK e \in Events : wire' = Append(wire, e) /\ e.frames = got
      <4>1. [kind |-> k, frames |-> got] \in Events /\ [kind |-> k, frames |-> got].frames = got
        BY <1>0 DEF Events
      <4> QED  BY <2>3, <4>1
    <3>2. (e.frames = got /\ got' = <<>>) \/ (e.frames = <<>> /\ got' = got)
      BY <2>3, <3>1
    <3> QED  BY <2>2, <3>1, <3>2
  <2>4. ASSUME NEW k \in {"other", "garbage"}, wire' = Append(wire, [kind |-> k, frames |-> <<>>]),
               got' = got PROVE OrderInv'
    <3>1. [kind |-> k, frames |-> <<>>] \in Events
      BY DEF Events
    <3> QED  BY <2>2, <2>4, <3>1
  <2> QED  BY <1>7, <2>3, <2>4 DEF Stt!Transcribe, Transcripts
<1>8. CASE Stt!Receive
  <2>1. /\ UNCHANGED <<got, taken, pump>> /\ stage = "streaming" /\ via = "none" /\ wire # <<>> /\ wire' = Tail(wire)
        /\ Unsent' = Unsent /\ stage' \in {"streaming", "failed", "closed"}
    BY <1>8 DEF Stt!Receive, Stt!Waiting, Stt!Close, HeldInv, Unsent
  <2>2. Head(wire) = wire[1] /\ Head(wire) \in Events /\ 1 \in DOMAIN wire
        /\ \A w \in DOMAIN wire' : w + 1 \in DOMAIN wire /\ w + 1 > 1 /\ wire'[w] = wire[w + 1]
    BY <1>0, <2>1, OneArrives
  <2>3. CASE UNCHANGED answers /\ stage' = "closed" /\ via' # "rest"
    BY <1>2, <2>1, <2>3
  <2>4. /\ \A v, w \in DOMAIN wire' : v < w => Below(Of(wire'[v]), Of(wire'[w]))
        /\ \A w \in DOMAIN wire' : Below(Of(wire'[w]), {Unsent})
        /\ \A w \in DOMAIN wire', k \in DOMAIN got : Below(Of(wire'[w]), {got[k]})
    <3>1. DOMAIN wire = 1..Len(wire) /\ Len(wire) \in Nat /\ wire' \in Seq(Events)
      BY <1>0, <2>1, LenProperties, HeadTailProperties
    <3>2. DOMAIN wire' = 1..Len(wire') /\ Len(wire') \in Nat
      BY <3>1, LenProperties
    <3>3. ASSUME NEW v \in DOMAIN wire', NEW w \in DOMAIN wire', v < w PROVE Below(Of(wire'[v]), Of(wire'[w]))
      <4>1. v + 1 < w + 1
        BY <3>2, <3>3
      <4> QED  BY <2>1, <2>2, <4>1 DEF OrderInv
    <3> QED  BY <2>1, <2>2, <3>3 DEF OrderInv
  <2>5. CASE UNCHANGED answers /\ via' = via
    <3>1. \A i \in DOMAIN answers, w \in DOMAIN wire' : Below(Of(answers[i]), Of(wire'[w]))
      BY <2>1, <2>2 DEF OrderInv
    <3> QED  BY <2>1, <2>4, <2>5, <3>1 DEF OrderInv, Below, Of, Streamed
  <2>6. CASE Stt!SendEvent(Head(wire)) /\ via' = via
    <3> DEFINE n == Len(answers) + 1
    <3>1. /\ Len(answers) \in Nat /\ DOMAIN answers = 1..Len(answers) /\ DOMAIN answers' = 1..n /\ Len(answers') = n
          /\ Of(answers'[n]) = Of(wire[1]) /\ \A i \in DOMAIN answers : answers'[i] = answers[i]
      <4>1. Head(wire).frames \in Seq(Nat)
        BY <2>2 DEF Events
      <4>2. /\ answers' \in Seq(Answers) /\ Len(answers') = n /\ answers'[n].frames = wire[1].frames
            /\ \A i \in 1..Len(answers) : answers'[i] = answers[i]
        BY <1>0, <2>2, <2>6, <4>1, Sends
      <4>3. Len(answers) \in Nat /\ DOMAIN answers = 1..Len(answers) /\ DOMAIN answers' = 1..Len(answers')
        BY <1>0, <4>2, LenProperties
      <4> QED  BY <4>2, <4>3 DEF Of
    <3> HIDE DEF n
    <3>2. \A w \in DOMAIN wire' : Below(Of(wire[1]), Of(wire'[w]))
      BY <2>1, <2>2 DEF OrderInv
    <3>3. \A i \in DOMAIN answers', w \in DOMAIN wire' : Below(Of(answers'[i]), Of(wire'[w]))
      BY <2>1, <2>2, <3>1, <3>2 DEF OrderInv, n
    <3>4. \A i, j \in DOMAIN answers' : i < j => Below(Of(answers'[i]), Of(answers'[j]))
      <4>1. \A i \in DOMAIN answers : Below(Of(answers[i]), Of(wire[1]))
        BY <2>1, <2>2 DEF OrderInv
      <4>2. \A i, j \in DOMAIN answers : i < j => Below(Of(answers[i]), Of(answers[j]))
        BY <2>1 DEF OrderInv, Streamed
      <4> QED  BY <3>1, <4>1, <4>2 DEF n
    <3>5. \A i \in DOMAIN answers' : Below(Of(answers'[i]), {Unsent})
      <4>1. Below(Of(wire[1]), {Unsent}) /\ \A i \in DOMAIN answers : Below(Of(answers[i]), {Unsent})
        BY <2>1, <2>2 DEF OrderInv
      <4>2. \A i \in DOMAIN answers' : i = n \/ i \in DOMAIN answers
        BY <3>1 DEF n
      <4> QED  BY <3>1, <4>1, <4>2
    <3>6. \A i \in DOMAIN answers', k \in DOMAIN got : Below(Of(answers'[i]), {got[k]})
      BY <2>1, <2>2, <3>1 DEF OrderInv, n
    <3> QED  BY <2>1, <2>4, <3>3, <3>4, <3>5, <3>6 DEF OrderInv, Below, Of, Streamed
  <2> QED  BY <1>8, <2>1, <2>3, <2>5, <2>6 DEF Stt!Receive, Stt!Close
<1>9. CASE Stt!Rest
  <2>1. CASE UNCHANGED answers /\ via' # "rest"
    BY <1>2, <1>9, <2>1 DEF Stt!Rest, Stt!Close, HeldInv
  <2>2. ASSUME NEW k \in Transcripts, Stt!SendEvent([kind |-> k, frames |-> held]), Stt!Close("rest")
        PROVE  OrderInv'
    <3>1. /\ Len(answers) \in Nat /\ DOMAIN answers = 1..Len(answers) /\ DOMAIN answers' = 1..(Len(answers) + 1)
          /\ Len(answers') = Len(answers) + 1 /\ \A i \in DOMAIN answers : answers'[i] = answers[i]
      <4>1. held \in Seq(Nat)
        BY DEF SttType
      <4> QED  BY <1>0, <2>2, <4>1, Sends, LenProperties
    <3>2. \A i, j \in DOMAIN answers : i < j => Below(Of(answers[i]), Of(answers[j]))
      BY <1>9 DEF OrderInv, Streamed, HeldInv, Stt!Rest
    <3>3. \A i, j \in DOMAIN answers' : i < j /\ Streamed(j)' => Below(Of(answers'[i]), Of(answers'[j]))
      BY <2>2, <3>1, <3>2 DEF Streamed, Stt!Close
    <3> QED  BY <2>2, <3>3 DEF OrderInv, Below, Of, Streamed, Stt!Close
  <2> QED  BY <1>9, <2>1, <2>2 DEF Stt!Rest, Stt!Close, Transcripts
<1>10. CASE Stt!Fail
  BY <1>0, <1>1, <1>10 DEF Stt!Fail, Unsent
<1>11. CASE Stt!Closed \/ Stt!FinalTimeout
  BY <1>0, <1>1, <1>2, <1>11 DEF Stt!Closed, Stt!FinalTimeout, Stt!Close, Stt!Waiting, HeldInv, Unsent
<1>12. CASE Stt!Talk \/ Stt!Leave \/ Stt!Open \/ Stt!Retry \/ Stt!Break \/ Stt!PumpWins \/ Stt!RecvUnwinds \/ Stt!RecvAgain
  BY <1>0, <1>1, <1>12 DEF Stt!Talk, Stt!Leave, Stt!Open, Stt!Retry, Stt!Break, Stt!PumpWins, Stt!RecvUnwinds,
     Stt!RecvAgain, Unsent
<1>13. CASE Stt!AudioEnds \/ Stt!SourceIsOver
  BY <1>0, <1>1, <1>13 DEF Stt!AudioEnds, Stt!SourceIsOver, Unsent
<1> QED  BY <1>4, <1>5, <1>6, <1>7, <1>8, <1>9, <1>10, <1>11, <1>12, <1>13
            DEF Stt!Next, Stt!Pump, Stt!Loop, Stt!Policy

(* Every step of a connection.                                             *)
LEMMA SttStepKeeps ==
  ASSUME SttInv, [Stt!Next]_<<bothVars, sttVars>>
  PROVE  SttInv'
<1>1. CASE Stt!Next
  BY <1>1, SttTypeKeeps, RecvKeeps, BackoffKeeps, OrderKeeps, HeldKeeps DEF SttInv
<1>2. CASE UNCHANGED <<bothVars, sttVars>>
  <2>1. SttType' /\ RecvInv' /\ BackoffInv'
    BY <1>2 DEF bothVars, sttVars, SttInv, SttType, Stt!SttTypeOK, RecvInv, BackoffInv, Stt!BackoffBounded
  <2>2. UNCHANGED <<answers, wire, got, pump, taken, stage, via, held>>
    BY <1>2 DEF bothVars, sttVars
  <2>3. OrderInv' /\ HeldInv'
    BY <2>2 DEF SttInv, OrderInv, Below, Of, Unsent, Streamed, HeldInv
  <2> QED  BY <2>1, <2>3 DEF SttInv
<1> QED  BY <1>1, <1>2

LEMMA SttImplies ==
  ASSUME SttInv
  PROVE  /\ Stt!SttTypeOK /\ Stt!OneReceiver /\ Stt!BackoffBounded
         /\ Stt!TranscribedOnce /\ Stt!RestHasTheLatest
<1>1. Stt!SttTypeOK /\ Stt!OneReceiver /\ Stt!BackoffBounded
  BY DEF SttInv, SttType, BackoffInv, Stt!OneReceiver
<1>2. \A i \in DOMAIN answers : Stt!FramesOf(i) = Of(answers[i]) /\ Of(answers[i]) \in SUBSET Nat
  BY FramesAreNumbers DEF SttInv, Stt!FramesOf, Of
<1>3. ASSUME NEW i \in DOMAIN answers, NEW j \in DOMAIN answers, i < j, j = Len(answers) => via # "rest"
      PROVE  Stt!FramesOf(i) \cap Stt!FramesOf(j) = {}
  <2>1. Below(Of(answers[i]), Of(answers[j]))
    BY <1>3 DEF SttInv, OrderInv, Streamed
  <2>2. \A f \in Nat : ~(f < f)
    OBVIOUS
  <2> QED  BY <1>2, <2>1, <2>2 DEF Below
<1>4. ASSUME via = "rest", taken > 0
      PROVE  Stt!FramesOf(Len(answers)) = {f \in 1..taken : f > taken - BufferFrames}
  <2> DEFINE n == Len(held)
  <2>1. /\ n \in Nat /\ DOMAIN held = 1..n /\ n = IF taken < BufferFrames THEN taken ELSE BufferFrames
        /\ \A k \in 1..n : held[k] = taken - n + k
    BY LenProperties DEF SttInv, SttType, HeldInv
  <2>2. Stt!FramesOf(Len(answers)) = {held[k] : k \in 1..n}
    BY <1>4, <2>1 DEF SttInv, HeldInv, Stt!FramesOf
  <2>3. taken \in Nat /\ taken - n >= 0
    BY <2>1, GatewayAssumption DEF SttInv, SttType, Stt!SttTypeOK
  <2> HIDE DEF n
  <2>4. ASSUME NEW f \in 1..taken, f > taken - BufferFrames PROVE \E k \in 1..n : held[k] = f
    <3>1. f - (taken - n) \in 1..n
      BY <2>1, <2>3, <2>4, GatewayAssumption
    <3>2. held[f - (taken - n)] = f
      BY <2>1, <2>3, <3>1
    <3> QED  BY <3>1, <3>2
  <2>5. ASSUME NEW k \in 1..n PROVE held[k] \in 1..taken /\ held[k] > taken - BufferFrames
    BY <2>1, <2>3, <2>5, GatewayAssumption
  <2> QED  BY <2>2, <2>4, <2>5
<1> QED  BY <1>1, <1>3, <1>4 DEF Stt!TranscribedOnce, Stt!RestHasTheLatest

-----------------------------------------------------------------------------
(* /ws/tts. *)

Batches == [kind : {"audio", "final", "error"}, of : Nat]
TtsType ==
  /\ Tts!TtsTypeOK
  /\ next \in Nat /\ said \in Seq(Nat) /\ kept \in Seq(Nat) /\ wire \in Seq(Batches)
  /\ flushed \in Nat /\ asked \in Nat /\ made \in Nat /\ finals \in Nat
  /\ heard \in [1..2 -> Seq(Nat)]

(* The pump takes the text where the replay ends.  When it has ended by    *)
(* itself the text is over, and none of it is left unspoken.               *)
Finished == gen # "alive" /\ next = pulled
SourceInv ==
  /\ Tts!FromTheStart /\ next <= pulled
  /\ pump = "pulling" => next = pulled
  /\ rx = "receiving" /\ pump = "done" /\ ~broken => Finished
  /\ rx = "posting" \/ verdict = "ok" => Finished
  /\ gen = "ended" => complete /\ pulled = typed
  /\ gen = "gone" => client = "gone"

(* Where the handler, the attempt and the pump are at the same time.       *)
Fresh ==
  /\ verdict = "none" /\ pump = "none" /\ conn = "none" /\ ~broken /\ wire = <<>>
  /\ flushed = 0 /\ asked = 0 /\ made = 0 /\ finals = 0
PhaseInv ==
  /\ stage = "new" => attempt = 0 /\ rx = "off"
  /\ attempt = 0 => Fresh
  /\ stage = "open" => attempt \in 1..2
  /\ stage = "open" /\ rx = "off" => Fresh /\ (voice = "sarvam" => next = 0)
  /\ rx = "receiving" => stage = "open" /\ verdict = "none" /\ conn # "none" /\ pump # "none"
  /\ rx = "posting" => stage = "open" /\ Fresh
  /\ rx = "unwinding" => stage = "open" /\ verdict # "none" /\ pump = "done"
  /\ pump \in {"replaying", "pulling", "texting", "flushing"} => rx = "receiving"
  /\ verdict = "left" => client = "gone"
  /\ stage = "closed" => rx = "off"
  /\ stage = "closed" /\ attempt > 0 => verdict # "none" /\ told = (verdict = "error" /\ client = "here")
  /\ gen = "killed" /\ attempt # 2 => verdict \in {"error", "left"}

(* While its socket is open, a chunk is flushed after it is sent, and the  *)
(* service is asked to speak it.                                           *)
FlushInv ==
  rx = "receiving" =>
    /\ broken => pump = "done"
    /\ ~broken => asked = flushed /\ flushed = IF pump = "texting" THEN next - 1 ELSE next

(* The client has heard the first batches; the others are on the way, in   *)
(* order, each before its final.                                           *)
Played == Len(heard[attempt])
InOrder(w, k, from, to) ==
  /\ \A i \in DOMAIN w : w[i].kind = k => w[i].of \in (from + 1)..to
  /\ \A n \in (from + 1)..to : \E i \in DOMAIN w : w[i].kind = k /\ w[i].of = n
  /\ \A i, j \in DOMAIN w : i < j /\ w[i].kind = k /\ w[j].kind = k => w[i].of < w[j].of
AudioFirst(w) ==
  \A i, j \in DOMAIN w : i < j /\ w[i].kind = "final" /\ w[j].kind = "audio" => w[i].of < w[j].of
AudioInv ==
  /\ \A a \in 1..2 : a > attempt \/ (a = attempt /\ stage = "open" /\ rx \in {"off", "posting"}) => heard[a] = <<>>
  /\ rx = "receiving" =>
       /\ heard[attempt] = Tts!UpTo(Played) /\ finals <= Played /\ Played <= made
       /\ InOrder(wire, "audio", Played, made) /\ InOrder(wire, "final", finals, made) /\ AudioFirst(wire)
  /\ Tts!NothingCutOff

TtsInv == TtsType /\ SourceInv /\ PhaseInv /\ FlushInv /\ AudioInv

(* The numbers up to n, as a sequence.                                     *)
LEMMA UpToIsASeq ==
  ASSUME NEW n \in Nat
  PROVE  /\ Tts!UpTo(n) \in Seq(Nat) /\ Len(Tts!UpTo(n)) = n /\ \A k \in 1..n : Tts!UpTo(n)[k] = k
         /\ Append(Tts!UpTo(n), n + 1) = Tts!UpTo(n + 1)
<1>1. ASSUME NEW m \in Nat
      PROVE  Tts!UpTo(m) \in Seq(Nat) /\ Len(Tts!UpTo(m)) = m /\ \A k \in 1..m : Tts!UpTo(m)[k] = k
  BY DEF Tts!UpTo
<1>2. n + 1 \in Nat
  OBVIOUS
<1> DEFINE s == Append(Tts!UpTo(n), n + 1)
           t == Tts!UpTo(n + 1)
<1>3. /\ s \in Seq(Nat) /\ Len(s) = n + 1 /\ s[n + 1] = n + 1
      /\ \A k \in 1..n : s[k] = Tts!UpTo(n)[k]
  <2>1. Tts!UpTo(n) \in Seq(Nat) /\ Len(Tts!UpTo(n)) = n
    BY <1>1
  <2> QED  BY <1>2, <2>1, AppendProperties
<1>4. t \in Seq(Nat) /\ Len(t) = n + 1 /\ \A k \in 1..(n + 1) : t[k] = k
  BY <1>1, <1>2
<1>5. \A k \in 1..(n + 1) : s[k] = t[k]
  BY <1>1, <1>3, <1>4
<1>6. s = t
  BY <1>3, <1>4, <1>5, SeqEqual
<1> QED  BY <1>1, <1>6

LEMMA UpToZero == Tts!UpTo(0) = <<>>
<1>1. Tts!UpTo(0) \in Seq(Nat) /\ Len(Tts!UpTo(0)) = 0
  BY UpToIsASeq
<1> QED  BY <1>1, EmptySeq

LEMMA InitTts == Tts!Init => TtsInv
<1> SUFFICES ASSUME Tts!Init PROVE TtsInv
  OBVIOUS
<1> USE GatewayAssumption DEF Tts!Init
<1>1. TtsType
  <2>1. <<>> \in Seq(Nat) /\ <<>> \in Seq(Batches) /\ Len(<<>>) = 0
    BY EmptySeq
  <2>2. heard \in [1..2 -> Seq(Nat)]
    <3>1. <<<<>>, <<>>>> \in Seq(Seq(Nat)) /\ Len(<<<<>>, <<>>>>) = 2
      BY <2>1
    <3>2. <<<<>>, <<>>>> \in [1..2 -> Seq(Nat)]
      BY <3>1, LenProperties
    <3> QED  BY <3>2
  <2>3. Tts!TtsTypeOK
    <3>1. /\ typed \in 0..MaxChunks /\ pulled \in 0..typed /\ attempt \in 0..Tts!Attempts
          /\ finals <= made /\ made <= asked /\ asked <= flushed /\ flushed <= Len(said)
      BY <2>1 DEF Tts!Attempts
    <3>2. complete \in BOOLEAN /\ told \in BOOLEAN /\ broken \in BOOLEAN
      OBVIOUS
    <3>3. /\ voice \in {"sarvam", "azure"} /\ client \in {"here", "gone"}
          /\ gen \in {"alive", "ended", "gone", "idle", "killed"}
          /\ pump \in {"none", "replaying", "pulling", "texting", "flushing", "done"}
          /\ conn \in {"none", "open", "closed"} /\ rx \in {"off", "receiving", "posting", "unwinding"}
          /\ verdict \in {"none", "ok", "error", "left"} /\ stage \in {"new", "open", "closed"}
      OBVIOUS
    <3> QED  BY <3>1, <3>2, <3>3 DEF Tts!TtsTypeOK
  <2> QED  BY <2>1, <2>2, <2>3 DEF TtsType
<1>2. SourceInv
  BY UpToZero DEF SourceInv, Tts!FromTheStart, Finished
<1>3. PhaseInv /\ FlushInv
  BY DEF PhaseInv, Fresh, FlushInv
<1>4. AudioInv
  BY DEF AudioInv, Tts!NothingCutOff
<1> QED  BY <1>1, <1>2, <1>3, <1>4 DEF TtsInv

(* Events on the way: the oldest is received next, and what is sent is     *)
(* the last.                                                               *)
LEMMA HeadOfTheWay ==
  ASSUME NEW w \in Seq(Batches), w # <<>>, NEW t, t = Tail(w)
  PROVE  /\ Head(w) = w[1] /\ w[1] \in Batches /\ 1 \in DOMAIN w /\ t \in Seq(Batches)
         /\ \A i \in DOMAIN w : i = 1 \/ (i > 1 /\ i - 1 \in DOMAIN t /\ t[i - 1] = w[i])
         /\ \A i \in DOMAIN t : i \in Nat /\ i + 1 > 1 /\ i + 1 \in DOMAIN w /\ t[i] = w[i + 1]
<1>1. Head(w) \in Batches /\ t \in Seq(Batches) /\ Len(t) = Len(w) - 1 /\ \A i \in 1..Len(t) : t[i] = w[i + 1]
  BY HeadTailProperties
<1>2. DOMAIN w = 1..Len(w) /\ DOMAIN t = 1..Len(t) /\ Len(w) \in Nat /\ Len(w) > 0
  BY <1>1, LenProperties, EmptySeq
<1>3. Head(w) = w[1]
  BY <1>2
<1>4. \A i \in DOMAIN w : i = 1 \/ (i > 1 /\ i - 1 \in DOMAIN t /\ t[i - 1] = w[i])
  BY <1>1, <1>2
<1>5. \A i \in DOMAIN t : i \in Nat /\ i + 1 > 1 /\ i + 1 \in DOMAIN w /\ t[i] = w[i + 1]
  BY <1>1, <1>2
<1> QED  BY <1>1, <1>2, <1>3, <1>4, <1>5

LEMMA LastOnTheWay ==
  ASSUME NEW w \in Seq(Batches), NEW e \in Batches, NEW t, t = Append(w, e)
  PROVE  /\ t \in Seq(Batches) /\ Len(w) + 1 \in DOMAIN t /\ t[Len(w) + 1] = e
         /\ \A i \in DOMAIN w : i \in DOMAIN t /\ t[i] = w[i]
         /\ \A i \in DOMAIN t : i \in Nat /\ ((i \in DOMAIN w /\ i <= Len(w)) \/ i = Len(w) + 1)
         /\ Len(w) \in Nat
<1>1. t \in Seq(Batches) /\ Len(t) = Len(w) + 1 /\ t[Len(w) + 1] = e /\ \A i \in 1..Len(w) : t[i] = w[i]
  BY AppendProperties
<1>2. DOMAIN w = 1..Len(w) /\ DOMAIN t = 1..Len(t) /\ Len(w) \in Nat
  BY <1>1, LenProperties
<1> QED  BY <1>1, <1>2

(* The first of its kind that arrives, and what stays in order after it.   *)
LEMMA FirstOfItsKind ==
  ASSUME NEW w \in Seq(Batches), w # <<>>, NEW k, NEW n \in Nat, NEW m \in Nat, InOrder(w, k, n, m),
         w[1].kind = k
  PROVE  w[1].of = n + 1 /\ n + 1 <= m /\ InOrder(Tail(w), k, n + 1, m)
<1> DEFINE t == Tail(w)
<1>1. \A i \in DOMAIN w : w[i] \in Batches
  BY ElementOfSeq, LenProperties
<1>2. /\ w[1] \in Batches /\ 1 \in DOMAIN w
      /\ \A i \in DOMAIN w : i = 1 \/ (i > 1 /\ i - 1 \in DOMAIN t /\ t[i - 1] = w[i])
      /\ \A i \in DOMAIN t : i \in Nat /\ i + 1 > 1 /\ i + 1 \in DOMAIN w /\ t[i] = w[i + 1]
  BY HeadOfTheWay
<1> HIDE DEF t
<1>3. w[1].of \in (n + 1)..m
  BY <1>2 DEF InOrder
<1>4. w[1].of = n + 1
  <2>1. PICK i \in DOMAIN w : w[i].kind = k /\ w[i].of = n + 1
    BY <1>3 DEF InOrder
  <2>2. CASE i > 1
    BY <1>2, <1>3, <2>1, <2>2 DEF InOrder
  <2> QED  BY <1>2, <2>1, <2>2
<1>5. ASSUME NEW i \in DOMAIN t, t[i].kind = k PROVE t[i].of \in (n + 2)..m
  <2>1. i + 1 \in DOMAIN w /\ t[i] = w[i + 1] /\ i + 1 > 1
    BY <1>2
  <2>2. w[1].of < w[i + 1].of /\ w[i + 1].of \in (n + 1)..m
    BY <1>2, <1>5, <2>1 DEF InOrder
  <2> QED  BY <1>1, <1>4, <2>1, <2>2
<1>6. ASSUME NEW l \in (n + 2)..m PROVE \E i \in DOMAIN t : t[i].kind = k /\ t[i].of = l
  <2>1. PICK i \in DOMAIN w : w[i].kind = k /\ w[i].of = l
    BY DEF InOrder
  <2>2. i # 1
    BY <1>4, <2>1
  <2> QED  BY <1>2, <2>1, <2>2
<1>7. ASSUME NEW i \in DOMAIN t, NEW j \in DOMAIN t, i < j, t[i].kind = k, t[j].kind = k
      PROVE  t[i].of < t[j].of
  <2>1. i + 1 < j + 1
    BY <1>2, <1>7
  <2> QED  BY <1>2, <1>7, <2>1 DEF InOrder
<1>8. (n + 1) + 1 = n + 2
  OBVIOUS
<1>9. InOrder(t, k, n + 1, m)
  BY <1>5, <1>6, <1>7, <1>8 DEF InOrder
<1> QED  BY <1>3, <1>4, <1>9 DEF t

LEMMA OthersStay ==
  ASSUME NEW w \in Seq(Batches), w # <<>>, NEW k, NEW n \in Nat, NEW m \in Nat, InOrder(w, k, n, m),
         w[1].kind # k
  PROVE  InOrder(Tail(w), k, n, m)
<1> DEFINE t == Tail(w)
<1>2. /\ w[1] \in Batches /\ 1 \in DOMAIN w
      /\ \A i \in DOMAIN w : i = 1 \/ (i > 1 /\ i - 1 \in DOMAIN t /\ t[i - 1] = w[i])
      /\ \A i \in DOMAIN t : i \in Nat /\ i + 1 > 1 /\ i + 1 \in DOMAIN w /\ t[i] = w[i + 1]
  BY HeadOfTheWay
<1> HIDE DEF t
<1>3. ASSUME NEW i \in DOMAIN t, t[i].kind = k PROVE t[i].of \in (n + 1)..m
  BY <1>2, <1>3 DEF InOrder
<1>4. ASSUME NEW l \in (n + 1)..m PROVE \E i \in DOMAIN t : t[i].kind = k /\ t[i].of = l
  <2>1. PICK i \in DOMAIN w : w[i].kind = k /\ w[i].of = l
    BY DEF InOrder
  <2> QED  BY <1>2, <2>1
<1>5. ASSUME NEW i \in DOMAIN t, NEW j \in DOMAIN t, i < j, t[i].kind = k, t[j].kind = k
      PROVE  t[i].of < t[j].of
  <2>1. i + 1 < j + 1
    BY <1>2, <1>5
  <2> QED  BY <1>2, <1>5, <2>1 DEF InOrder
<1>6. InOrder(t, k, n, m)
  BY <1>3, <1>4, <1>5 DEF InOrder
<1> QED  BY <1>6 DEF t

LEMMA AudioStaysFirst ==
  ASSUME NEW w \in Seq(Batches), w # <<>>, AudioFirst(w)
  PROVE  AudioFirst(Tail(w))
<1> DEFINE t == Tail(w)
<1>1. \A i \in DOMAIN t : i \in Nat /\ i + 1 > 1 /\ i + 1 \in DOMAIN w /\ t[i] = w[i + 1]
  BY HeadOfTheWay
<1> HIDE DEF t
<1>2. ASSUME NEW i \in DOMAIN t, NEW j \in DOMAIN t, i < j, t[i].kind = "final", t[j].kind = "audio"
      PROVE  t[i].of < t[j].of
  <2>1. i + 1 < j + 1
    BY <1>1, <1>2
  <2> QED  BY <1>1, <1>2, <2>1 DEF AudioFirst
<1> QED  BY <1>2 DEF AudioFirst, t

(* A batch that is spoken joins its kind at the end, and what is of        *)
(* another kind changes nothing.                                           *)
LEMMA NextOfItsKind ==
  ASSUME NEW w \in Seq(Batches), NEW k, NEW n \in Nat, NEW m \in Nat, n <= m, InOrder(w, k, n, m),
         NEW e \in Batches, e.kind = k, e.of = m + 1
  PROVE  InOrder(Append(w, e), k, n, m + 1)
<1> DEFINE t == Append(w, e)
           z == Len(w) + 1
<1>1. /\ z \in DOMAIN t /\ t[z] = e /\ z \in Nat
      /\ \A i \in DOMAIN w : i \in DOMAIN t /\ t[i] = w[i]
      /\ \A i \in DOMAIN t : i \in Nat /\ ((i \in DOMAIN w /\ i < z) \/ i = z)
  BY LastOnTheWay
<1> HIDE DEF t, z
<1>2. ASSUME NEW i \in DOMAIN t, t[i].kind = k PROVE t[i].of \in (n + 1)..(m + 1)
  BY <1>1, <1>2 DEF InOrder
<1>3. ASSUME NEW l \in (n + 1)..(m + 1) PROVE \E i \in DOMAIN t : t[i].kind = k /\ t[i].of = l
  <2>1. CASE l = m + 1
    BY <1>1, <2>1
  <2>2. CASE l \in (n + 1)..m
    <3>1. PICK i \in DOMAIN w : w[i].kind = k /\ w[i].of = l
      BY <2>2 DEF InOrder
    <3> QED  BY <1>1, <3>1
  <2> QED  BY <2>1, <2>2
<1>4. ASSUME NEW i \in DOMAIN t, NEW j \in DOMAIN t, i < j, t[i].kind = k, t[j].kind = k
      PROVE  t[i].of < t[j].of
  <2>1. i \in DOMAIN w /\ t[i] = w[i] /\ w[i].of \in (n + 1)..m
    BY <1>1, <1>4 DEF InOrder
  <2>2. CASE j = z
    BY <1>1, <2>1, <2>2
  <2>3. CASE j \in DOMAIN w
    BY <1>1, <1>4, <2>1, <2>3 DEF InOrder
  <2> QED  BY <1>1, <2>2, <2>3
<1>5. InOrder(t, k, n, m + 1)
  BY <1>2, <1>3, <1>4 DEF InOrder
<1> QED  BY <1>5 DEF t

LEMMA AnotherKind ==
  ASSUME NEW w \in Seq(Batches), NEW k, NEW n \in Nat, NEW m \in Nat, InOrder(w, k, n, m),
         NEW e \in Batches, e.kind # k
  PROVE  InOrder(Append(w, e), k, n, m)
<1> DEFINE t == Append(w, e)
           z == Len(w) + 1
<1>1. /\ z \in DOMAIN t /\ t[z] = e /\ z \in Nat
      /\ \A i \in DOMAIN w : i \in DOMAIN t /\ t[i] = w[i]
      /\ \A i \in DOMAIN t : i \in Nat /\ ((i \in DOMAIN w /\ i < z) \/ i = z)
  BY LastOnTheWay
<1> HIDE DEF t, z
<1>2. \A i \in DOMAIN t : t[i].kind = k => i \in DOMAIN w /\ t[i] = w[i]
  BY <1>1
<1>3. \A l \in (n + 1)..m : \E i \in DOMAIN t : t[i].kind = k /\ t[i].of = l
  <2>1. ASSUME NEW l \in (n + 1)..m PROVE \E i \in DOMAIN t : t[i].kind = k /\ t[i].of = l
    <3>1. PICK i \in DOMAIN w : w[i].kind = k /\ w[i].of = l
      BY DEF InOrder
    <3> QED  BY <1>1, <3>1
  <2> QED  BY <2>1
<1>4. InOrder(t, k, n, m)
  BY <1>2, <1>3 DEF InOrder
<1> QED  BY <1>4 DEF t

LEMMA SpokenAfterAll ==
  ASSUME NEW w \in Seq(Batches), NEW e \in Batches, AudioFirst(w),
         e.kind = "audio" => \A i \in DOMAIN w : w[i].kind = "final" => w[i].of < e.of
  PROVE  AudioFirst(Append(w, e))
<1> DEFINE t == Append(w, e)
           z == Len(w) + 1
<1>1. /\ z \in DOMAIN t /\ t[z] = e /\ z \in Nat
      /\ \A i \in DOMAIN w : i \in DOMAIN t /\ t[i] = w[i]
      /\ \A i \in DOMAIN t : i \in Nat /\ ((i \in DOMAIN w /\ i < z) \/ i = z)
  BY LastOnTheWay
<1> HIDE DEF t, z
<1>2. AudioFirst(t)
  <2>1. ASSUME NEW i \in DOMAIN t, NEW j \in DOMAIN t, i < j, t[i].kind = "final", t[j].kind = "audio"
        PROVE  t[i].of < t[j].of
    <3>1. i \in DOMAIN w /\ t[i] = w[i]
      BY <1>1, <2>1
    <3>2. CASE j = z
      BY <1>1, <2>1, <3>1, <3>2
    <3>3. CASE j \in DOMAIN w
      BY <1>1, <2>1, <3>1, <3>3 DEF AudioFirst
    <3> QED  BY <1>1, <3>2, <3>3
  <2> QED  BY <2>1 DEF AudioFirst
<1> QED  BY <1>2 DEF t

(* The text, the handler and the flushes.                                  *)
LEMMA SourceKeeps ==
  ASSUME TtsInv, Tts!Next
  PROVE  SourceInv'
<1> USE DEF Tts!textVars, Tts!sourceVars, Tts!pumpVars, Tts!serviceVars, Tts!attemptVars, Tts!outVars
<1>0. /\ next \in Nat /\ pulled \in Nat /\ typed \in Nat /\ kept = Tts!UpTo(pulled) /\ said = Tts!UpTo(next)
      /\ next <= pulled /\ pulled <= typed /\ Len(kept) = pulled
      /\ \A k \in 1..pulled : kept[k] = k
  <2>1. next \in Nat /\ pulled \in Nat /\ typed \in Nat /\ pulled <= typed
    BY GatewayAssumption DEF TtsInv, TtsType, Tts!TtsTypeOK
  <2> QED  BY <2>1, UpToIsASeq DEF TtsInv, SourceInv, Tts!FromTheStart
<1>1. SourceInv
  BY DEF TtsInv
<1>2. CASE Tts!Type \/ Tts!Complete \/ Tts!Leave
  BY <1>0, <1>1, <1>2 DEF Tts!Type, Tts!Complete, Tts!Leave, SourceInv, Tts!FromTheStart, Finished, Tts!UpTo
<1>3. CASE Tts!Open
  <2>1. UNCHANGED <<gen, pulled, kept, complete, typed, client>>
    BY <1>3 DEF Tts!Open
  <2>2. CASE UNCHANGED <<pump, next, said, flushed, broken, rx, verdict>>
    BY <1>1, <2>1, <2>2 DEF SourceInv, Tts!FromTheStart, Finished, Tts!UpTo
  <2>3. CASE Tts!Attempt(1)
    BY <1>0, <1>1, <2>1, <2>3, UpToZero DEF Tts!Attempt, SourceInv, Tts!FromTheStart, Finished, Tts!UpTo
  <2> QED  BY <1>3, <2>2, <2>3 DEF Tts!Open
<1>4. CASE Tts!Connect
  BY <1>0, <1>1, <1>4 DEF Tts!Connect, SourceInv, Tts!FromTheStart, Finished, Tts!UpTo, Tts!Idle, TtsInv,
                          PhaseInv
<1>5. CASE Tts!Conclude
  <2>1. UNCHANGED <<gen, pulled, kept, complete, typed, client>>
    BY <1>5 DEF Tts!Conclude
  <2>2. CASE UNCHANGED <<pump, next, said, flushed, broken, verdict>> /\ rx' = "off"
    BY <1>1, <2>1, <2>2 DEF SourceInv, Tts!FromTheStart, Finished, Tts!UpTo
  <2>3. CASE Tts!Attempt(attempt + 1)
    BY <1>0, <1>1, <2>1, <2>3, UpToZero DEF Tts!Attempt, SourceInv, Tts!FromTheStart, Finished, Tts!UpTo
  <2> QED  BY <1>5, <2>2, <2>3 DEF Tts!Conclude
<1>6. CASE Tts!Replay
  <2>1. UNCHANGED <<gen, pulled, kept, complete, typed, client, rx, verdict>> /\ pump = "replaying"
    BY <1>6 DEF Tts!Replay
  <2>2. CASE next < Len(kept) /\ Tts!SendText(kept[next + 1])
    <3>1. kept[next + 1] = next + 1
      <4>1. next + 1 \in 1..pulled
        BY <1>0, <2>2
      <4> QED  BY <1>0, <4>1
    <3>2. next' = next + 1 /\ said' = Tts!UpTo(next + 1)
      BY <1>0, <2>2, <3>1, UpToIsASeq DEF Tts!SendText
    <3>3. (pump' = "done" /\ broken') \/ pump' = "texting"
      BY <2>2 DEF Tts!SendText
    <3> QED  BY <1>0, <1>1, <2>1, <2>2, <3>2, <3>3 DEF SourceInv, Tts!FromTheStart, Finished,
        Tts!UpTo, TtsInv, PhaseInv
  <2>3. CASE next >= Len(kept) /\ pump' = "pulling" /\ UNCHANGED <<next, said, flushed, broken>>
    BY <1>0, <1>1, <2>1, <2>3 DEF SourceInv, Tts!FromTheStart, Finished, Tts!UpTo
  <2> QED  BY <1>6, <2>2, <2>3 DEF Tts!Replay
<1>7. CASE Tts!Pull
  <2>1. UNCHANGED <<gen, complete, typed, client, rx, verdict>> /\ gen = "alive" /\ next = pulled /\ pulled < typed
    BY <1>0, <1>1, <1>7 DEF Tts!Pull, SourceInv, Tts!NothingToRead
  <2>2. pulled' = pulled + 1 /\ next' = next + 1 /\ kept' = Tts!UpTo(pulled + 1) /\ said' = Tts!UpTo(next + 1)
    BY <1>0, <1>7, <2>1, UpToIsASeq DEF Tts!Pull, Tts!Keep, Tts!SendText
  <2>3. (pump' = "done" /\ broken') \/ pump' = "texting"
    BY <1>7 DEF Tts!Pull, Tts!SendText
  <2> QED  BY <1>0, <1>1, <2>1, <2>2, <2>3 DEF SourceInv, Tts!FromTheStart, Finished, Tts!UpTo
<1>8. CASE Tts!SourceEnds \/ Tts!SourceIsOver
  BY <1>0, <1>1, <1>8 DEF Tts!SourceEnds, Tts!SourceIsOver, Tts!NothingToRead, SourceInv,
                          Tts!FromTheStart, Finished,
     Tts!UpTo
<1>9. CASE Tts!Flush \/ Tts!Flushed
  BY <1>0, <1>1, <1>9 DEF Tts!Flush, Tts!Flushed, SourceInv, Tts!FromTheStart, Finished, Tts!UpTo
<1>10. CASE Tts!Receive \/ Tts!IdleTimeout \/ Tts!ConnectionClosed
  <2>1. UNCHANGED <<pulled, kept, next, said, broken, complete, typed, client>> /\ rx = "receiving" /\ verdict = "none"
    BY <1>10 DEF Tts!Receive, Tts!IdleTimeout, Tts!ConnectionClosed, Tts!Unwind, TtsInv, PhaseInv
  <2>2. CASE UNCHANGED <<gen, pump, rx, verdict>>
    BY <1>1, <2>1, <2>2 DEF SourceInv, Tts!FromTheStart, Finished, Tts!UpTo
  <2>3. ASSUME NEW how \in {"ok", "error", "left"}, Tts!Unwind(how), how = "ok" => pump = "done"
        PROVE  SourceInv'
    BY <1>1, <2>1, <2>3 DEF Tts!Unwind, SourceInv, Tts!FromTheStart, Finished, Tts!UpTo
  <2> QED  BY <1>10, <2>2, <2>3 DEF Tts!Receive, Tts!IdleTimeout, Tts!ConnectionClosed, Tts!SendDone
<1>11. CASE Tts!Collect
  <2>1. UNCHANGED <<complete, typed, client, verdict, pump, broken>> /\ verdict = "none" /\ pump = "none" /\ rx = "off"
    BY <1>11 DEF Tts!Collect, Tts!Idle, TtsInv, PhaseInv, Fresh
  <2>2. CASE next < Len(kept) /\ next' = next + 1 /\ said' = Append(said, kept[next + 1]) /\ UNCHANGED <<gen, pulled, kept, rx>>
    <3>1. said' = Tts!UpTo(next + 1)
      <4>1. next + 1 \in 1..pulled
        BY <1>0, <2>2
      <4>2. Append(said, next + 1) = Tts!UpTo(next + 1)
        BY <1>0, UpToIsASeq
      <4> QED  BY <1>0, <2>2, <4>1, <4>2
    <3> QED  BY <1>0, <1>1, <2>1, <2>2, <3>1 DEF SourceInv, Tts!FromTheStart, Finished, Tts!UpTo
  <2>3. CASE /\ next >= Len(kept) /\ gen = "alive" /\ pulled < typed /\ pulled' = pulled + 1 /\ kept' = Append(kept, pulled + 1)
             /\ next' = next + 1 /\ said' = Append(said, pulled + 1) /\ UNCHANGED <<gen, rx>>
    <3>1. next = pulled /\ said' = Tts!UpTo(next + 1) /\ kept' = Tts!UpTo(pulled + 1)
      <4>1. Append(kept, pulled + 1) = Tts!UpTo(pulled + 1)
        BY <1>0, UpToIsASeq
      <4>2. next = pulled /\ said = kept
        BY <1>0, <2>3
      <4> QED  BY <2>3, <4>1, <4>2
    <3> QED  BY <1>0, <1>1, <2>1, <2>3, <3>1 DEF SourceInv, Tts!FromTheStart, Finished, Tts!UpTo
  <2>4. CASE next >= Len(kept) /\ rx' = "posting" /\ UNCHANGED <<pulled, kept, next, said>>
             /\ (gen # "alive" \/ typed = pulled)
             /\ gen' = IF gen # "alive" THEN gen ELSE IF complete THEN "ended" ELSE IF client = "gone" THEN "gone" ELSE "idle"
    BY <1>0, <1>1, <2>1, <2>4 DEF SourceInv, Tts!FromTheStart, Finished, Tts!UpTo
  <2> QED  BY <1>0, <1>11, <2>2, <2>3, <2>4 DEF Tts!Collect, Tts!NothingToRead, Tts!Keep
<1>12. CASE Tts!AzureAnswers
  BY <1>1, <1>12 DEF Tts!AzureAnswers, SourceInv, Tts!FromTheStart, Finished, Tts!UpTo
<1>13. CASE Tts!Speak \/ Tts!ServiceFails
  BY <1>1, <1>13 DEF Tts!Speak, Tts!ServiceFails, SourceInv, Tts!FromTheStart, Finished, Tts!UpTo
<1> QED  BY <1>2, <1>3, <1>4, <1>5, <1>6, <1>7, <1>8, <1>9, <1>10, <1>11, <1>12, <1>13
            DEF Tts!Next, Tts!Pump, Tts!Loop

LEMMA PhaseKeeps ==
  ASSUME TtsInv, Tts!Next
  PROVE  PhaseInv'
<1> USE DEF Tts!textVars, Tts!sourceVars, Tts!pumpVars, Tts!serviceVars, Tts!attemptVars, Tts!outVars
<1>1. PhaseInv /\ attempt \in 0..2
  BY DEF TtsInv, TtsType, Tts!TtsTypeOK, Tts!Attempts
<1>2. CASE Tts!Type \/ Tts!Complete \/ Tts!Leave
  BY <1>1, <1>2 DEF Tts!Type, Tts!Complete, Tts!Leave, PhaseInv, Fresh
<1>3. CASE Tts!Open
  BY <1>1, <1>3 DEF Tts!Open, Tts!Attempt, PhaseInv, Fresh
<1>4. CASE Tts!Connect
  BY <1>1, <1>4 DEF Tts!Connect, Tts!Idle, PhaseInv, Fresh
<1>5. CASE Tts!Conclude
  BY <1>1, <1>5 DEF Tts!Conclude, Tts!Attempt, Tts!Attempts, PhaseInv, Fresh
<1>6. CASE Tts!Replay \/ Tts!Pull
  BY <1>1, <1>6 DEF Tts!Replay, Tts!Pull, Tts!SendText, PhaseInv, Fresh
<1>7. CASE Tts!SourceEnds \/ Tts!SourceIsOver \/ Tts!Flush \/ Tts!Flushed
  BY <1>1, <1>7 DEF Tts!SourceEnds, Tts!SourceIsOver, Tts!Flush, Tts!Flushed, PhaseInv, Fresh
<1>8. CASE Tts!Receive
  <2>1. PhaseInv!1' /\ PhaseInv!2' /\ PhaseInv!3' /\ PhaseInv!4' /\ PhaseInv!5' /\ PhaseInv!6'
    BY <1>1, <1>8 DEF Tts!Receive, Tts!Unwind, PhaseInv, Fresh
  <2>2. PhaseInv!7' /\ PhaseInv!8' /\ PhaseInv!9' /\ PhaseInv!10' /\ PhaseInv!11'
    BY <1>1, <1>8 DEF Tts!Receive, Tts!Unwind, PhaseInv, Fresh
  <2>3. PhaseInv!12'
    BY <1>1, <1>8 DEF Tts!Receive, Tts!Unwind, Tts!SendDone, PhaseInv
  <2> QED
    BY <2>1, <2>2, <2>3 DEF PhaseInv
<1>9. CASE Tts!IdleTimeout \/ Tts!ConnectionClosed
  BY <1>1, <1>9 DEF Tts!IdleTimeout, Tts!ConnectionClosed, Tts!Unwind, Tts!SendDone, PhaseInv, Fresh
<1>10. CASE Tts!Collect \/ Tts!AzureAnswers
  BY <1>1, <1>10 DEF Tts!Collect, Tts!AzureAnswers, Tts!Idle, PhaseInv, Fresh
<1>11. CASE Tts!Speak \/ Tts!ServiceFails
  BY <1>1, <1>11 DEF Tts!Speak, Tts!ServiceFails, PhaseInv, Fresh
<1> QED  BY <1>2, <1>3, <1>4, <1>5, <1>6, <1>7, <1>8, <1>9, <1>10, <1>11
            DEF Tts!Next, Tts!Pump, Tts!Loop

LEMMA FlushKeeps ==
  ASSUME TtsInv, Tts!Next
  PROVE  FlushInv'
<1> USE DEF Tts!textVars, Tts!sourceVars, Tts!pumpVars, Tts!serviceVars, Tts!attemptVars, Tts!outVars
<1>1. FlushInv /\ next \in Nat /\ flushed \in Nat /\ asked \in Nat /\ broken \in BOOLEAN
  BY DEF TtsInv, TtsType, Tts!TtsTypeOK
<1>2. CASE rx' # "receiving"
  BY <1>2 DEF FlushInv
<1>3. CASE UNCHANGED <<rx, broken, pump, asked, flushed, next>>
  BY <1>1, <1>3 DEF FlushInv
<1>4. CASE Tts!Connect
  <2>1. CASE rx' = "receiving"
    BY <1>1, <1>4, <2>1 DEF Tts!Connect, Tts!Idle, FlushInv, TtsInv, PhaseInv, Fresh
  <2> QED  BY <1>2, <1>4, <2>1
<1>5. CASE Tts!Replay \/ Tts!Pull
  <2>1. UNCHANGED <<rx, asked, flushed>> /\ (rx = "receiving" => (~broken => asked = next /\ flushed = next))
    BY <1>1, <1>5 DEF Tts!Replay, Tts!Pull, Tts!SendText, FlushInv
  <2>2. CASE UNCHANGED <<next, broken>> /\ pump = "replaying" /\ pump' = "pulling"
    BY <1>1, <2>1, <2>2 DEF FlushInv
  <2>3. ASSUME NEW c, Tts!SendText(c), pump \in {"replaying", "pulling"} PROVE FlushInv'
    <3>1. next' = next + 1 /\ UNCHANGED flushed /\ (broken' <=> (broken \/ conn = "closed"))
          /\ pump' = IF conn = "closed" THEN "done" ELSE "texting"
      BY <2>3 DEF Tts!SendText
    <3>2. rx = "receiving" => ~broken /\ asked = next /\ flushed = next
      BY <1>1, <2>1, <2>3 DEF FlushInv
    <3>3. CASE conn = "closed"
      BY <2>1, <3>1, <3>3 DEF FlushInv
    <3>4. CASE conn # "closed"
      BY <1>1, <2>1, <3>1, <3>2, <3>4 DEF FlushInv
    <3> QED  BY <3>3, <3>4
  <2> QED  BY <1>5, <2>2, <2>3 DEF Tts!Replay, Tts!Pull
<1>6. CASE Tts!SourceEnds \/ Tts!SourceIsOver
  BY <1>1, <1>6 DEF Tts!SourceEnds, Tts!SourceIsOver, FlushInv
<1>7. CASE Tts!Flush
  BY <1>1, <1>7 DEF Tts!Flush, Tts!Counted, FlushInv
<1>8. CASE Tts!Flushed
  BY <1>1, <1>8 DEF Tts!Flushed, FlushInv
<1>9. CASE Tts!Receive
  <2>1. UNCHANGED <<rx, broken, pump, asked, flushed, next>> \/ rx' = "unwinding"
    BY <1>9 DEF Tts!Receive, Tts!Unwind
  <2> QED  BY <1>2, <1>3, <2>1
<1> QED  BY <1>2, <1>3, <1>4, <1>5, <1>6, <1>7, <1>8, <1>9
            DEF Tts!Next, Tts!Pump, Tts!Loop, Tts!Type, Tts!Complete, Tts!Leave, Tts!Open, Tts!Attempt,
                Tts!Conclude,
                Tts!IdleTimeout, Tts!ConnectionClosed, Tts!Unwind, Tts!Collect, Tts!Idle, Tts!AzureAnswers,
                Tts!Speak, Tts!ServiceFails

(* The audio.                                                              *)
LEMMA SpeakKeeps ==
  ASSUME TtsInv, Tts!Speak
  PROVE  AudioInv'
<1> USE DEF Tts!textVars, Tts!sourceVars, Tts!pumpVars, Tts!serviceVars, Tts!attemptVars, Tts!outVars
<1> DEFINE n == made + 1
           a == [kind |-> "audio", of |-> n]
           f == [kind |-> "final", of |-> n]
<1>1. /\ rx = "receiving" /\ made < asked /\ made' = n /\ UNCHANGED <<rx, heard, attempt, finals, stage, verdict, said>>
      /\ wire' = wire \o <<[kind |-> "audio", of |-> said[made + 1]], [kind |-> "final", of |-> said[made + 1]]>>
  BY DEF Tts!Speak
<1>2. wire \in Seq(Batches) /\ made \in Nat /\ finals \in Nat /\ asked <= flushed /\ flushed <= Len(said) /\ asked \in Nat
      /\ flushed \in Nat /\ said = Tts!UpTo(next) /\ next \in Nat /\ heard \in [1..2 -> Seq(Nat)] /\ attempt \in 1..2
  BY <1>1 DEF TtsInv, TtsType, Tts!TtsTypeOK, SourceInv, Tts!FromTheStart, PhaseInv
<1>3. said[made + 1] = n
  <2>1. Len(said) = next /\ \A k \in 1..next : said[k] = k
    BY <1>2, UpToIsASeq
  <2> QED  BY <1>1, <1>2, <2>1
<1>4. a \in Batches /\ f \in Batches /\ a.kind = "audio" /\ f.kind = "final" /\ a.of = n /\ f.of = n
  BY <1>2 DEF Batches
<1>5. wire' = Append(Append(wire, a), f)
  <2>1. wire' = wire \o <<a, f>>
    BY <1>1, <1>3
  <2>2. wire \o <<a, f>> = Append(Append(wire, a), f)
    BY <1>2, <1>4
  <2> QED  BY <2>1, <2>2
<1>6. Played \in Nat /\ Played <= made /\ finals <= made
  BY <1>1, <1>2, LenProperties DEF TtsInv, AudioInv, TtsType, Tts!TtsTypeOK, Played
<1> HIDE DEF n, a, f
<1>7. Append(wire, a) \in Seq(Batches) /\ n = made + 1 /\ n \in Nat
  BY <1>2, <1>4, AppendProperties DEF n
<1>8. InOrder(Append(wire, a), "audio", Played, n)
  BY <1>1, <1>2, <1>4, <1>6, <1>7, NextOfItsKind DEF TtsInv, AudioInv
<1>9. InOrder(Append(Append(wire, a), f), "audio", Played, n)
  BY <1>4, <1>6, <1>7, <1>8, AnotherKind
<1>10. InOrder(Append(wire, a), "final", finals, made)
  BY <1>1, <1>2, <1>4, AnotherKind DEF TtsInv, AudioInv
<1>11. InOrder(Append(Append(wire, a), f), "final", finals, n)
  BY <1>2, <1>4, <1>6, <1>7, <1>10, NextOfItsKind
<1>12. AudioFirst(Append(wire, a))
  <2>1. \A i \in DOMAIN wire : wire[i].kind = "final" => wire[i].of \in (finals + 1)..made
    BY <1>1 DEF TtsInv, AudioInv, InOrder
  <2>2. \A i \in DOMAIN wire : wire[i].kind = "final" => wire[i].of < a.of
    BY <1>2, <1>4, <1>7, <2>1
  <2> QED  BY <1>1, <1>2, <1>4, <2>2, SpokenAfterAll DEF TtsInv, AudioInv
<1>13. AudioFirst(Append(Append(wire, a), f))
  BY <1>4, <1>7, <1>12, SpokenAfterAll
<1>14. Played' = Played
  BY <1>1 DEF Played
<1>15. Played <= n /\ finals <= Played /\ heard[attempt] = Tts!UpTo(Played)
  BY <1>1, <1>2, <1>6, <1>7 DEF TtsInv, AudioInv
<1>16. InOrder(wire', "audio", Played', made') /\ InOrder(wire', "final", finals', made') /\ AudioFirst(wire')
  BY <1>1, <1>5, <1>9, <1>11, <1>13, <1>14
<1>17. Played' <= made' /\ finals' <= Played' /\ heard'[attempt'] = Tts!UpTo(Played')
  BY <1>1, <1>14, <1>15
<1>18. verdict' # "ok"
  BY <1>1 DEF TtsInv, PhaseInv
<1>19. \A b \in 1..2 : b > attempt => heard[b] = <<>>
  BY DEF TtsInv, AudioInv
<1> QED  BY <1>1, <1>16, <1>17, <1>18, <1>19 DEF AudioInv, Tts!NothingCutOff, Tts!UpTo

(* What the invariants say of an attempt that is receiving.                *)
LEMMA WhileReceiving ==
  ASSUME TtsInv, rx = "receiving"
  PROVE  /\ wire \in Seq(Batches) /\ made \in Nat /\ finals \in Nat /\ asked \in Nat /\ flushed \in Nat /\ next \in Nat
         /\ heard \in [1..2 -> Seq(Nat)] /\ attempt \in 1..2 /\ Played \in Nat /\ verdict = "none" /\ stage = "open"
         /\ said = Tts!UpTo(next) /\ Len(said) = next /\ heard[attempt] = Tts!UpTo(Played)
         /\ finals <= Played /\ Played <= made /\ made <= asked /\ asked <= flushed /\ flushed <= next
         /\ InOrder(wire, "audio", Played, made) /\ InOrder(wire, "final", finals, made) /\ AudioFirst(wire)
         /\ \A a \in 1..2 : a > attempt => heard[a] = <<>>
<1>1. /\ wire \in Seq(Batches) /\ made \in Nat /\ finals \in Nat /\ asked \in Nat /\ flushed \in Nat /\ next \in Nat
      /\ heard \in [1..2 -> Seq(Nat)] /\ attempt \in 1..2 /\ verdict = "none" /\ stage = "open"
      /\ said = Tts!UpTo(next) /\ made <= asked /\ asked <= flushed /\ flushed <= Len(said)
  BY DEF TtsInv, TtsType, Tts!TtsTypeOK, SourceInv, Tts!FromTheStart, PhaseInv
<1>2. Len(said) = next
  BY <1>1, UpToIsASeq
<1>3. Played \in Nat
  BY <1>1, LenProperties DEF Played
<1>4. /\ heard[attempt] = Tts!UpTo(Played) /\ finals <= Played /\ Played <= made
      /\ InOrder(wire, "audio", Played, made) /\ InOrder(wire, "final", finals, made) /\ AudioFirst(wire)
      /\ \A a \in 1..2 : a > attempt => heard[a] = <<>>
  BY DEF TtsInv, AudioInv
<1> QED  BY <1>1, <1>2, <1>3, <1>4

(* When as many batches are final as were flushed, all of the text was     *)
(* heard.                                                                  *)
LEMMA AllWasHeard ==
  ASSUME TtsInv, rx = "receiving", Tts!SendDone, ~broken, NEW f \in Nat, f <= Played, Tts!AllFinal(f)
  PROVE  heard[attempt] = said
<1>1. flushed = next
  BY DEF TtsInv, FlushInv, Tts!SendDone
<1>2. Played = next
  BY <1>1, WhileReceiving DEF Tts!AllFinal
<1> QED  BY <1>2, WhileReceiving

LEMMA UnwindKeeps ==
  ASSUME TtsInv, rx = "receiving", UNCHANGED <<heard, stage>>, NEW how \in {"ok", "error", "left"},
         Tts!Unwind(how),
         how = "ok" /\ ~broken => heard[attempt] = said
  PROVE  AudioInv'
<1>1. rx' = "unwinding" /\ UNCHANGED <<attempt, said>> /\ (verdict' = "ok" => heard[attempt] = said)
  BY DEF Tts!Unwind
<1> QED  BY <1>1, WhileReceiving DEF AudioInv, Tts!NothingCutOff

LEMMA ReceiveKeeps ==
  ASSUME TtsInv, Tts!Receive
  PROVE  AudioInv' /\ finals' <= made
<1> USE DEF Tts!textVars, Tts!sourceVars, Tts!pumpVars, Tts!serviceVars, Tts!attemptVars, Tts!outVars
<1> DEFINE t == Tail(wire)
<1>1. rx = "receiving" /\ wire # <<>> /\ wire' = t /\ UNCHANGED <<made, stage>>
  BY DEF Tts!Receive
<1>2. Head(wire) = wire[1] /\ wire[1] \in Batches /\ 1 \in DOMAIN wire
  BY <1>1, WhileReceiving, HeadOfTheWay
<1>3. AudioFirst(t)
  BY <1>1, WhileReceiving, AudioStaysFirst
<1>4. CASE wire[1].kind = "audio" /\ heard' = [heard EXCEPT ![attempt] = Append(@, wire[1].of)]
           /\ UNCHANGED <<attempt, finals, rx, verdict>>
  <2>1. wire[1].of = Played + 1 /\ Played + 1 <= made /\ InOrder(t, "audio", Played + 1, made)
    BY <1>1, <1>4, WhileReceiving, FirstOfItsKind
  <2>2. InOrder(t, "final", finals, made)
    BY <1>1, <1>4, WhileReceiving, OthersStay
  <2>3. heard'[attempt] = Tts!UpTo(Played + 1)
    <3>1. heard'[attempt] = Append(Tts!UpTo(Played), Played + 1)
      BY <1>1, <1>4, <2>1, WhileReceiving
    <3> QED  BY <1>1, <3>1, WhileReceiving, UpToIsASeq
  <2>4. Played' = Played + 1
    <3>1. Len(Tts!UpTo(Played + 1)) = Played + 1
      <4>1. Played + 1 \in Nat
        BY <1>1, WhileReceiving
      <4> QED  BY <4>1, UpToIsASeq
    <3> QED  BY <1>4, <2>3, <3>1 DEF Played
  <2>5. \A a \in 1..2 : a > attempt => heard'[a] = <<>>
    BY <1>1, <1>4, WhileReceiving
  <2>6. finals' <= Played' /\ Played' <= made'
    BY <1>1, <1>4, <2>1, <2>4, WhileReceiving
  <2>7. finals' <= made
    BY <1>1, <1>4, WhileReceiving
  <2> HIDE DEF t
  <2> QED  BY <1>1, <1>3, <1>4, <2>1, <2>2, <2>3, <2>4, <2>5, <2>6, <2>7, WhileReceiving DEF AudioInv,
      Tts!NothingCutOff
<1>5. CASE wire[1].kind = "final" /\ finals' = finals + 1 /\ UNCHANGED heard
  <2>1. wire[1].of = finals + 1 /\ finals + 1 <= made /\ InOrder(t, "final", finals + 1, made)
    BY <1>1, <1>5, WhileReceiving, FirstOfItsKind
  <2>2. InOrder(t, "audio", Played, made)
    BY <1>1, <1>5, WhileReceiving, OthersStay
  <2>3. finals + 1 <= Played
    <3>1. CASE Played < made
      <4>1. Played + 1 \in (Played + 1)..made
        BY <1>1, <3>1, WhileReceiving
      <4>2. PICK i \in DOMAIN wire : wire[i].kind = "audio" /\ wire[i].of = Played + 1
        BY <1>1, <4>1, WhileReceiving DEF InOrder
      <4>3. i > 1
        BY <1>1, <1>2, <1>5, <4>2, WhileReceiving, HeadOfTheWay
      <4>4. wire[1].of < wire[i].of
        BY <1>1, <1>2, <1>5, <4>2, <4>3, WhileReceiving DEF AudioFirst
      <4> QED  BY <1>1, <2>1, <4>2, <4>4, WhileReceiving
    <3> QED  BY <1>1, <2>1, <3>1, WhileReceiving
  <2>4. CASE Tts!SendDone /\ Tts!AllFinal(finals + 1) /\ Tts!Unwind("ok")
    <3>1. ~broken => heard[attempt] = said
      BY <1>1, <2>3, <2>4, WhileReceiving, AllWasHeard
    <3> QED  BY <1>1, <1>5, <2>1, <2>4, <3>1, UnwindKeeps
  <2>5. CASE UNCHANGED <<attempt, rx, verdict>>
    <3>1. Played' = Played
      BY <1>5, <2>5 DEF Played
    <3> HIDE DEF t
    <3> QED  BY <1>1, <1>3, <1>5, <2>1, <2>2, <2>3, <2>5, <3>1, WhileReceiving DEF AudioInv, Tts!NothingCutOff
  <2> QED  BY <1>2, <1>5, <2>4, <2>5 DEF Tts!Receive
<1>6. CASE UNCHANGED <<finals, heard>> /\ (Tts!Unwind("error") \/ Tts!Unwind("left"))
  BY <1>1, <1>6, UnwindKeeps, WhileReceiving
<1> QED  BY <1>2, <1>4, <1>5, <1>6 DEF Tts!Receive

LEMMA AudioKeeps ==
  ASSUME TtsInv, Tts!Next
  PROVE  AudioInv'
<1> USE DEF Tts!textVars, Tts!sourceVars, Tts!pumpVars, Tts!serviceVars, Tts!attemptVars, Tts!outVars
<1>0. AudioInv /\ PhaseInv /\ attempt \in 0..2 /\ heard \in [1..2 -> Seq(Nat)]
  BY DEF TtsInv, TtsType, Tts!TtsTypeOK, Tts!Attempts
<1>1. CASE UNCHANGED <<heard, attempt, stage, rx, verdict, wire, made, finals>> /\ (rx = "receiving" \/ said' = said)
  <2>1. verdict = "ok" => said' = said
    BY <1>0, <1>1 DEF PhaseInv
  <2>2. Played' = Played
    BY <1>1 DEF Played
  <2> QED  BY <1>0, <1>1, <2>1, <2>2 DEF AudioInv, Tts!NothingCutOff, Tts!UpTo
<1>2. CASE Tts!Speak
  BY <1>2, SpeakKeeps
<1>3. CASE Tts!Receive
  BY <1>3, ReceiveKeeps
<1>4. CASE Tts!IdleTimeout
  <2>1. rx = "receiving" /\ Tts!SendDone /\ Tts!AllFinal(finals) /\ Tts!Unwind("ok") /\ UNCHANGED <<heard, stage>>
    BY <1>4 DEF Tts!IdleTimeout
  <2>2. ~broken => heard[attempt] = said
    BY <2>1, WhileReceiving, AllWasHeard
  <2> QED  BY <2>1, <2>2, UnwindKeeps
<1>5. CASE Tts!ConnectionClosed
  BY <1>5, UnwindKeeps DEF Tts!ConnectionClosed
<1>6. CASE Tts!ServiceFails
  <2>1. CASE UNCHANGED wire
    BY <1>1, <1>6, <2>1 DEF Tts!ServiceFails
  <2>2. CASE wire' = Append(wire, [kind |-> "error", of |-> 0])
    <3> DEFINE e == [kind |-> "error", of |-> 0]
    <3>1. e \in Batches /\ e.kind = "error"
      BY DEF Batches
    <3>2. rx = "receiving" /\ wire' = Append(wire, e) /\ UNCHANGED <<heard, attempt, stage, rx, verdict, made, finals, said>>
      BY <1>6, <2>2 DEF Tts!ServiceFails
    <3> HIDE DEF e
    <3>3. InOrder(Append(wire, e), "audio", Played, made) /\ InOrder(Append(wire, e), "final", finals, made)
      BY <3>1, <3>2, WhileReceiving, AnotherKind
    <3>4. AudioFirst(Append(wire, e))
      BY <3>1, <3>2, WhileReceiving, SpokenAfterAll
    <3>5. Played' = Played
      BY <3>2 DEF Played
    <3> QED  BY <3>2, <3>3, <3>4, <3>5, WhileReceiving DEF AudioInv, Tts!NothingCutOff
  <2> QED  BY <1>6, <2>1, <2>2 DEF Tts!ServiceFails
<1>7. CASE Tts!Open
  <2>1. UNCHANGED heard /\ stage = "new" /\ attempt = 0 /\ rx = "off" /\ verdict = "none"
    BY <1>0, <1>7 DEF Tts!Open, PhaseInv, Fresh
  <2>2. rx' = "off" /\ verdict' = "none" /\ (attempt' = 0 \/ attempt' = 1)
    BY <1>7, <2>1 DEF Tts!Open, Tts!Attempt
  <2> QED  BY <1>0, <2>1, <2>2 DEF AudioInv, Tts!NothingCutOff
<1>8. CASE Tts!Conclude
  <2>1. UNCHANGED heard /\ stage = "open" /\ rx = "unwinding" /\ rx' = "off"
    BY <1>0, <1>8 DEF Tts!Conclude, PhaseInv, Tts!Attempt
  <2>2. CASE attempt' = attempt + 1 /\ verdict' = "none"
    BY <1>0, <2>1, <2>2 DEF AudioInv, Tts!NothingCutOff
  <2>3. CASE UNCHANGED <<attempt, verdict, said>> /\ stage' = "closed"
    BY <1>0, <2>1, <2>3 DEF AudioInv, Tts!NothingCutOff
  <2> QED  BY <1>8, <2>2, <2>3 DEF Tts!Conclude, Tts!Attempt
<1>9. CASE Tts!Connect
  <2>1. /\ UNCHANGED <<heard, attempt, stage, wire, made, finals>> /\ stage = "open" /\ rx = "off" /\ verdict' # "ok"
        /\ rx' \in {"receiving", "unwinding"} /\ wire = <<>> /\ made = 0 /\ finals = 0
    BY <1>0, <1>9 DEF Tts!Connect, Tts!Idle, PhaseInv, Fresh
  <2>2. heard[attempt] = <<>> /\ attempt \in 1..2 /\ Played = 0 /\ Played' = 0
    BY <1>0, <2>1, EmptySeq DEF AudioInv, PhaseInv, Played
  <2>3. InOrder(<<>>, "audio", 0, 0) /\ InOrder(<<>>, "final", 0, 0) /\ AudioFirst(<<>>)
    BY DEF InOrder, AudioFirst
  <2>4. Tts!UpTo(0) = <<>>
    BY UpToZero
  <2> QED  BY <1>0, <2>1, <2>2, <2>3, <2>4 DEF AudioInv, Tts!NothingCutOff
<1>10. CASE Tts!Collect
  BY <1>0, <1>10 DEF Tts!Collect, Tts!Idle, AudioInv, Tts!NothingCutOff
<1>11. CASE Tts!AzureAnswers
  BY <1>0, <1>11 DEF Tts!AzureAnswers, AudioInv, PhaseInv, Tts!NothingCutOff
<1>12. CASE Tts!Replay \/ Tts!Pull \/ Tts!SourceEnds \/ Tts!SourceIsOver \/ Tts!Flush \/ Tts!Flushed
  BY <1>0, <1>1, <1>12 DEF Tts!Replay, Tts!Pull, Tts!SourceEnds, Tts!SourceIsOver, Tts!Flush, Tts!Flushed,
                           PhaseInv
<1>13. CASE Tts!Type \/ Tts!Complete \/ Tts!Leave
  BY <1>1, <1>13 DEF Tts!Type, Tts!Complete, Tts!Leave
<1> QED  BY <1>2, <1>3, <1>4, <1>5, <1>6, <1>7, <1>8, <1>9, <1>10, <1>11, <1>12, <1>13
            DEF Tts!Next, Tts!Pump, Tts!Loop

(* The counts never overtake each other.                                   *)
Counts == finals <= made /\ made <= asked /\ asked <= flushed /\ flushed <= Len(said)
LEMMA CountsKeep ==
  ASSUME TtsInv, Tts!Next
  PROVE  /\ flushed' \in Nat /\ asked' \in Nat /\ made' \in Nat /\ finals' \in Nat /\ next' \in Nat
         /\ said' \in Seq(Nat) /\ kept' \in Seq(Nat) /\ Counts'
<1> USE DEF Tts!textVars, Tts!sourceVars, Tts!pumpVars, Tts!serviceVars, Tts!attemptVars, Tts!outVars
<1>0. /\ flushed \in Nat /\ asked \in Nat /\ made \in Nat /\ finals \in Nat /\ next \in Nat
      /\ said \in Seq(Nat) /\ kept \in Seq(Nat) /\ Counts /\ pulled \in Nat
  BY GatewayAssumption DEF TtsInv, TtsType, Tts!TtsTypeOK, Counts
<1>1. CASE UNCHANGED <<flushed, asked, made, finals, next, said, kept>>
  BY <1>0, <1>1 DEF Counts
<1>2. ASSUME NEW n, Tts!Attempt(n), UNCHANGED kept
      PROVE  /\ flushed' \in Nat /\ asked' \in Nat /\ made' \in Nat /\ finals' \in Nat /\ next' \in Nat
             /\ said' \in Seq(Nat) /\ kept' \in Seq(Nat) /\ Counts'
  <2>1. <<>> \in Seq(Nat) /\ Len(<<>>) = 0
    BY EmptySeq
  <2> QED  BY <1>0, <1>2, <2>1 DEF Tts!Attempt, Counts
<1>3. ASSUME NEW c \in Nat, said' = Append(said, c), next' = next + 1,
             UNCHANGED <<flushed, asked, made, finals>>,
             kept' = kept \/ kept' = Append(kept, c)
      PROVE  /\ flushed' \in Nat /\ asked' \in Nat /\ made' \in Nat /\ finals' \in Nat /\ next' \in Nat
             /\ said' \in Seq(Nat) /\ kept' \in Seq(Nat) /\ Counts'
  <2>1. said' \in Seq(Nat) /\ Len(said') = Len(said) + 1 /\ kept' \in Seq(Nat)
    <3>1. Append(said, c) \in Seq(Nat) /\ Len(Append(said, c)) = Len(said) + 1
      BY <1>0, <1>3, AppendProperties
    <3>2. Append(kept, c) \in Seq(Nat)
      BY <1>0, <1>3, AppendProperties
    <3> QED  BY <1>0, <1>3, <3>1, <3>2
  <2>2. Len(said) \in Nat
    BY <1>0, LenProperties
  <2> QED  BY <1>0, <1>3, <2>1, <2>2 DEF Counts
<1>4. ASSUME next < Len(kept) PROVE kept[next + 1] \in Nat
  <2>1. Len(kept) \in Nat
    BY <1>0, LenProperties
  <2>2. next + 1 \in 1..Len(kept)
    BY <1>0, <1>4, <2>1
  <2> QED  BY <1>0, <2>2, ElementOfSeq
<1>5. CASE Tts!Replay
  <2>1. UNCHANGED <<asked, made, finals, kept>>
    BY <1>5 DEF Tts!Replay
  <2> QED  BY <1>1, <1>3, <1>4, <1>5, <2>1 DEF Tts!Replay, Tts!SendText
<1>6. CASE Tts!Pull
  BY <1>0, <1>3, <1>6 DEF Tts!Pull, Tts!SendText, Tts!Keep
<1>7. CASE Tts!Collect
  <2>1. UNCHANGED <<asked, made, finals, flushed>>
    BY <1>7 DEF Tts!Collect
  <2>2. CASE UNCHANGED <<kept, next, said>>
    BY <1>1, <2>1, <2>2
  <2>3. CASE next < Len(kept) /\ next' = next + 1 /\ said' = Append(said, kept[next + 1]) /\ UNCHANGED kept
    BY <1>3, <1>4, <2>1, <2>3
  <2>4. CASE kept' = Append(kept, pulled + 1) /\ next' = next + 1 /\ said' = Append(said, pulled + 1)
    BY <1>0, <1>3, <2>1, <2>4
  <2> QED  BY <1>7, <2>2, <2>3, <2>4 DEF Tts!Collect, Tts!Keep
<1>8. CASE Tts!Flush
  <2>1. UNCHANGED <<made, finals, next, said, kept>> /\ flushed' = flushed + 1 /\ (asked' = asked + 1 \/ asked' = asked)
        /\ pump = "texting"
    BY <1>8 DEF Tts!Flush, Tts!Counted
  <2>2. flushed + 1 <= Len(said)
    <3>1. rx = "receiving" /\ flushed = next - 1
      BY <2>1 DEF TtsInv, PhaseInv, FlushInv
    <3> QED  BY <3>1, WhileReceiving
  <2> QED  BY <1>0, <2>1, <2>2, LenProperties DEF Counts
<1>9. CASE Tts!Speak
  <2>1. UNCHANGED <<flushed, asked, finals, next, said, kept>> /\ made' = made + 1 /\ made < asked
    BY <1>9 DEF Tts!Speak
  <2> QED  BY <1>0, <2>1 DEF Counts
<1>10. CASE Tts!Receive
  <2>1. UNCHANGED <<flushed, asked, made, next, said, kept>> /\ (finals' = finals \/ finals' = finals + 1)
    BY <1>10 DEF Tts!Receive, Tts!Unwind
  <2> QED  BY <1>0, <1>10, <2>1, ReceiveKeeps DEF Counts
<1>11. CASE Tts!Open \/ Tts!Conclude
  BY <1>1, <1>2, <1>11 DEF Tts!Open, Tts!Conclude
<1> QED  BY <1>1, <1>5, <1>6, <1>7, <1>8, <1>9, <1>10, <1>11
            DEF Tts!Next, Tts!Pump, Tts!Loop, Tts!Type, Tts!Complete, Tts!Leave, Tts!SourceEnds,
                Tts!SourceIsOver,
                Tts!Flushed, Tts!Connect, Tts!IdleTimeout, Tts!ConnectionClosed, Tts!Unwind, Tts!AzureAnswers,
                Tts!ServiceFails

LEMMA TtsTypeKeeps ==
  ASSUME TtsInv, Tts!Next
  PROVE  TtsType'
<1> USE DEF Tts!textVars, Tts!sourceVars, Tts!pumpVars, Tts!serviceVars, Tts!attemptVars, Tts!outVars
<1>0. TtsType
  BY DEF TtsInv
<1>1. wire' \in Seq(Batches)
  <2>1. CASE UNCHANGED wire \/ wire' = <<>>
    BY <1>0, <2>1, EmptySeq DEF TtsType
  <2>2. CASE Tts!Receive
    BY <1>0, <2>2, HeadTailProperties DEF Tts!Receive, TtsType
  <2>3. CASE Tts!ServiceFails
    <3>1. [kind |-> "error", of |-> 0] \in Batches
      BY DEF Batches
    <3> QED  BY <1>0, <2>3, <3>1, AppendProperties DEF Tts!ServiceFails, TtsType
  <2>4. CASE Tts!Speak
    <3>1. said[made + 1] \in Nat
      <4>1. made + 1 \in 1..Len(said)
        BY <2>4, WhileReceiving DEF Tts!Speak
      <4> QED  BY <1>0, <4>1, ElementOfSeq DEF TtsType
    <3>2. <<[kind |-> "audio", of |-> said[made + 1]], [kind |-> "final", of |-> said[made + 1]]>> \in Seq(Batches)
      BY <3>1 DEF Batches
    <3> QED  BY <1>0, <2>4, <3>2, ConcatProperties DEF Tts!Speak, TtsType
  <2> QED  BY <2>1, <2>2, <2>3, <2>4
              DEF Tts!Next, Tts!Pump, Tts!Loop, Tts!Type, Tts!Complete, Tts!Leave, Tts!Open, Tts!Attempt,
                  Tts!Conclude,
                  Tts!Replay, Tts!Pull, Tts!SourceEnds, Tts!SourceIsOver, Tts!Flush, Tts!Flushed, Tts!Connect,
                  Tts!IdleTimeout, Tts!ConnectionClosed, Tts!Collect, Tts!AzureAnswers
<1>2. heard' \in [1..2 -> Seq(Nat)]
  <2>1. CASE UNCHANGED heard
    BY <1>0, <2>1 DEF TtsType
  <2>2. CASE Tts!Receive
    <3>1. /\ rx = "receiving" /\ wire # <<>>
          /\ UNCHANGED heard \/ heard' = [heard EXCEPT ![attempt] = Append(@, Head(wire).of)]
      BY <2>2 DEF Tts!Receive
    <3>2. Head(wire).of \in Nat
      <4>1. Head(wire) \in Batches
        BY <3>1, WhileReceiving, HeadTailProperties
      <4> QED  BY <4>1 DEF Batches
    <3>3. attempt \in 1..2 /\ Append(heard[attempt], Head(wire).of) \in Seq(Nat)
      BY <1>0, <3>1, <3>2, WhileReceiving, AppendProperties DEF TtsType
    <3> QED  BY <1>0, <3>1, <3>3 DEF TtsType
  <2>3. CASE Tts!AzureAnswers
    <3>1. UNCHANGED heard \/ heard' = [heard EXCEPT ![attempt] = said]
      BY <2>3 DEF Tts!AzureAnswers
    <3> QED  BY <1>0, <3>1 DEF TtsType
  <2> QED  BY <2>1, <2>2, <2>3
              DEF Tts!Next, Tts!Pump, Tts!Loop, Tts!Type, Tts!Complete, Tts!Leave, Tts!Open, Tts!Conclude,
                  Tts!Replay, Tts!Pull, Tts!SourceEnds, Tts!SourceIsOver, Tts!Flush, Tts!Flushed, Tts!Connect,
                  Tts!IdleTimeout, Tts!ConnectionClosed, Tts!Collect, Tts!Speak, Tts!ServiceFails
<1>3. typed' \in 0..MaxChunks /\ pulled' \in 0..typed' /\ attempt' \in 0..2
  <2>1. typed \in 0..MaxChunks /\ pulled \in 0..typed /\ attempt \in 0..2
    BY <1>0 DEF TtsType, Tts!TtsTypeOK, Tts!Attempts
  <2>2. CASE UNCHANGED <<typed, pulled, attempt>>
    BY <2>1, <2>2
  <2>3. CASE Tts!Type
    BY <2>1, <2>3, GatewayAssumption DEF Tts!Type
  <2>4. CASE UNCHANGED <<typed, attempt>> /\ typed # pulled /\ pulled' = pulled + 1
    BY <2>1, <2>4, GatewayAssumption
  <2>5. CASE Tts!Open \/ Tts!Conclude
    BY <2>1, <2>5 DEF Tts!Open, Tts!Conclude, Tts!Attempt, Tts!Attempts
  <2>6. Tts!Receive \/ Tts!IdleTimeout \/ Tts!ConnectionClosed => UNCHANGED <<typed, pulled, attempt>>
    BY DEF Tts!Receive, Tts!IdleTimeout, Tts!ConnectionClosed, Tts!Unwind
  <2> QED  BY <2>2, <2>3, <2>4, <2>5, <2>6
              DEF Tts!Next, Tts!Pump, Tts!Loop, Tts!Complete, Tts!Leave, Tts!NothingToRead,
                  Tts!Replay, Tts!Pull, Tts!SourceEnds, Tts!SourceIsOver, Tts!Flush, Tts!Flushed, Tts!Connect,
                  Tts!Collect, Tts!AzureAnswers, Tts!Speak, Tts!ServiceFails
<1>4. /\ voice' \in {"sarvam", "azure"} /\ client' \in {"here", "gone"}
      /\ gen' \in {"alive", "ended", "gone", "idle", "killed"}
      /\ pump' \in {"none", "replaying", "pulling", "texting", "flushing", "done"}
      /\ conn' \in {"none", "open", "closed"} /\ rx' \in {"off", "receiving", "posting", "unwinding"}
      /\ verdict' \in {"none", "ok", "error", "left"} /\ stage' \in {"new", "open", "closed"}
      /\ complete' \in BOOLEAN /\ told' \in BOOLEAN /\ broken' \in BOOLEAN
  BY <1>0 DEF TtsType, Tts!TtsTypeOK, Tts!Next, Tts!Pump, Tts!Loop, Tts!Type, Tts!Complete, Tts!Leave,
              Tts!Open,
     Tts!Attempt, Tts!Conclude, Tts!Replay, Tts!SendText, Tts!Pull, Tts!SourceEnds, Tts!SourceIsOver,
     Tts!Flush,
     Tts!Flushed, Tts!Connect, Tts!Receive, Tts!IdleTimeout, Tts!ConnectionClosed, Tts!Unwind, Tts!Collect,
     Tts!AzureAnswers, Tts!Speak, Tts!ServiceFails
<1> QED  BY <1>1, <1>2, <1>3, <1>4, CountsKeep DEF TtsType, Tts!TtsTypeOK, Tts!Attempts, Counts

(* Every step of a connection.                                             *)
LEMMA TtsStepKeeps ==
  ASSUME TtsInv, [Tts!Next]_<<bothVars, ttsVars>>
  PROVE  TtsInv'
<1>1. CASE Tts!Next
  BY <1>1, TtsTypeKeeps, SourceKeeps, PhaseKeeps, FlushKeeps, AudioKeeps DEF TtsInv
<1>2. CASE UNCHANGED <<bothVars, ttsVars>>
  <2>1. TtsType' /\ PhaseInv' /\ FlushInv'
    BY <1>2 DEF bothVars, ttsVars, TtsInv, TtsType, Tts!TtsTypeOK, PhaseInv, Fresh, FlushInv
  <2>2. SourceInv'
    BY <1>2 DEF bothVars, ttsVars, TtsInv, SourceInv, Tts!FromTheStart, Finished, Tts!UpTo
  <2>3. AudioInv'
    BY <1>2 DEF bothVars, ttsVars, TtsInv, AudioInv, Played, Tts!NothingCutOff, Tts!UpTo
  <2> QED  BY <2>1, <2>2, <2>3 DEF TtsInv
<1> QED  BY <1>1, <1>2

LEMMA TtsImplies ==
  ASSUME TtsInv
  PROVE  Tts!TtsTypeOK /\ Tts!FromTheStart /\ Tts!NothingCutOff /\ Tts!SpokenOrTold
<1>1. ASSUME stage = "closed", attempt > 0, client = "here", ~told
      PROVE  /\ heard[attempt] = Tts!UpTo(pulled)
             /\ pulled = typed \/ gen = "idle" \/ (gen = "killed" /\ attempt = Tts!Attempts)
  <2>1. verdict = "ok" /\ (gen = "killed" => attempt = 2)
    BY <1>1 DEF TtsInv, PhaseInv, TtsType, Tts!TtsTypeOK
  <2>2. next = pulled /\ (gen = "ended" => pulled = typed) /\ gen \in {"ended", "idle", "killed"}
    BY <1>1, <2>1 DEF TtsInv, SourceInv, Finished, TtsType, Tts!TtsTypeOK
  <2>3. heard[attempt] = said /\ said = Tts!UpTo(next)
    BY <2>1 DEF TtsInv, AudioInv, Tts!NothingCutOff, SourceInv, Tts!FromTheStart
  <2> QED  BY <2>1, <2>2, <2>3 DEF Tts!Attempts
<1> QED  BY <1>1 DEF TtsInv, TtsType, SourceInv, AudioInv, Tts!SpokenOrTold

-----------------------------------------------------------------------------
(* /ws/stt keeps what it promises, whatever breaks and whenever the client *)
(* speaks or leaves (sarvam_stt.py:137-230, failure_policy.py:54-137).     *)
THEOREM EveryFrameIsHeardOnce == Spec => []HeardOnce
<1> DEFINE I == part = "stt" => SttInv
<1>1. Init => I
  BY InitStt DEF Init
<1>2. I /\ [Next]_allVars => I'
  <2> SUFFICES ASSUME I, [Next]_allVars, part' = "stt" PROVE SttInv'
    OBVIOUS
  <2>1. part = "stt" /\ SttInv /\ [Stt!Next]_<<bothVars, sttVars>>
    BY DEF Next, allVars
  <2> QED  BY <2>1, SttStepKeeps
<1>3. I => HeardOnce
  BY SttImplies DEF HeardOnce
<1> QED  BY <1>1, <1>2, <1>3, PTL DEF Spec

(* /ws/tts, for every order of chunks, finals, errors, timeouts and        *)
(* retries: an attempt speaks the text from its first chunk without a gap, *)
(* one that ends well cuts no chunk off, and a client that stayed has      *)
(* heard all the gateway took, or was told.  What the gateway may never    *)
(* take is the text after a first attempt that failed while its pump       *)
(* waited for the client, against main.py:418-420, or after a pause        *)
(* (sarvam_tts.py:180-331).                                                *)
THEOREM TheReplyIsSpokenWhole == Spec => []SpokenWhole
<1> DEFINE I == part = "tts" => TtsInv
<1>1. Init => I
  BY InitTts DEF Init
<1>2. I /\ [Next]_allVars => I'
  <2> SUFFICES ASSUME I, [Next]_allVars, part' = "tts" PROVE TtsInv'
    OBVIOUS
  <2>1. part = "tts" /\ TtsInv /\ [Tts!Next]_<<bothVars, ttsVars>>
    BY DEF Next, allVars
  <2> QED  BY <2>1, TtsStepKeeps
<1>3. I => SpokenWhole
  BY TtsImplies DEF SpokenWhole
<1> QED  BY <1>1, <1>2, <1>3, PTL DEF Spec
=============================================================================
