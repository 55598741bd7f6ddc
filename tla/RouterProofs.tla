----------------------------- MODULE RouterProofs -----------------------------
(***************************************************************************)
(* What the router guarantees for any providers, orders, keys and number   *)
(* of overlapping calls: the cool-downs and the owner of the text are what *)
(* RouterInv says, the right providers are asked, and the router           *)
(* implements Reply.                                                       *)
(***************************************************************************)
EXTENDS Router, SequenceTheorems, WellFoundedInduction, TLAPS

(* A set of places has a first one. *)
LEMMA FirstIsLeast ==
  ASSUME NEW places \in SUBSET Nat, places # {}
  PROVE  First(places) \in places /\ \A j \in places : First(places) <= j
<1> DEFINE Sooner == {ss \in Nat \X Nat : ss[1] < ss[2]}
<1>1. IsWellFoundedOn(Sooner, Nat)
  BY NatLessThanWellFounded DEF OpToRel
<1>2. ASSUME NEW x \in Nat, NEW y \in Nat, y < x PROVE <<y, x>> \in Sooner
  BY <1>2
<1> HIDE DEF Sooner
<1>3. PICK x \in places : \A y \in places : ~(<<y, x>> \in Sooner)
  BY <1>1, WFMin
<1>4. ASSUME NEW y \in places PROVE x <= y
  <2>1. x \in Nat /\ y \in Nat
    OBVIOUS
  <2>2. ~(y < x)
    BY <1>2, <1>3, <2>1, Zenon
  <2> QED  BY <2>1, <2>2
<1> QED  BY <1>4 DEF First

LEMMA PlacesAreNumbers == RouterTypeOK => DOMAIN order \in SUBSET Nat /\ \A i \in DOMAIN order : order[i] \in Providers
BY LenProperties, ElementOfSeq DEF RouterTypeOK

(* The provider that a call is with. *)
LEMMA CurrentPlace ==
  ASSUME RouterTypeOK, CallInv, NEW c \in LLMCalls, progress[c] \in NotOver
  PROVE  /\ First(rest[c]) \in rest[c] /\ First(rest[c]) \in DOMAIN order
         /\ Current(c) \in Providers /\ Current(c) \in Listed(order)
         /\ \A j \in rest[c] : First(rest[c]) <= j
<1>1. rest[c] # {} /\ rest[c] \subseteq DOMAIN order
  BY DEF CallInv
<1>2. rest[c] \in SUBSET Nat
  BY <1>1, PlacesAreNumbers
<1>3. First(rest[c]) \in rest[c] /\ \A j \in rest[c] : First(rest[c]) <= j
  BY <1>1, <1>2, FirstIsLeast
<1> QED  BY <1>1, <1>3, PlacesAreNumbers DEF Current, Listed

(* A refusal that mentions 429 is retriable, whoever says it. *)
LEMMA MentionIsRetriable ==
  ASSUME NEW p \in Providers, NEW o \in Ops, NEW s \in Refusals, Mentions429(s)
  PROVE  RefusalRetriable(p, o, s)
<1>1. Adapter[p] \in {"openai", "claude", "gemini"}
  BY RouterAssumption
<1> QED  BY <1>1 DEF Mentions429, RefusalRetriable, StatusRetriable, ToolCallErrorRetriable, GeminiRetriable

-----------------------------------------------------------------------------
(* The steps of a call, reduced to what they do to it *)

Asks(c, places) ==
  /\ places # {} /\ HasKey(order[First(places)])
  /\ progress' = [progress EXCEPT ![c] = "asked"]
  /\ rest' = [rest EXCEPT ![c] = places]
  /\ yielded' = [yielded EXCEPT ![c] = FALSE]
  /\ tried' = [tried EXCEPT ![c] = @ \cup {order[First(places)]}]
  /\ UNCHANGED outcome

Failures == {"retriable", "fatal", "escaped", "unconfigured", "cancelled"}

(* Call c ends without an answer, gives up on its provider and asks the    *)
(* next one, has its answer, or goes on reading.                           *)
Fails(c, how) ==
  /\ CallOver(c, how) /\ UNCHANGED <<source, op, warned>>
  /\ how = "retriable" /\ source[c] = Nobody => Remaining(c) = {}
MovesOn(c) == Asks(c, Remaining(c)) /\ ~Started(c) /\ UNCHANGED <<source, op, warned>>
Gets(c) ==
  /\ CallOver(c, "answer") /\ source' = [source EXCEPT ![c] = Current(c)]
  /\ UNCHANGED <<op, warned>>
Reads(c) ==
  /\ op[c] # "tools"
  /\ \E v \in {"text", "silent"} : Chunk(c, v)
  /\ UNCHANGED <<op, warned>>

LEMMA RaisedCases ==
  ASSUME RouterTypeOK, CallInv, NEW c \in LLMCalls, progress[c] \in NotOver,
         NEW v \in {"retriable", "fatal", "escaped"}, NEW s,
         Raised(c, v, s), UNCHANGED <<source, op, warned>>
  PROVE  MovesOn(c) \/ \E how \in Failures : Fails(c, how)
<1>0. Current(c) # Nobody /\ (Started(c) => source[c] = Current(c))
  BY CurrentPlace, RouterAssumption DEF CallInv
<1>1. CASE CallOver(c, v) /\ (v # "retriable" \/ Started(c))
  BY <1>0, <1>1 DEF Fails, Failures
<1>2. CASE v = "retriable" /\ ~Started(c) /\ Try(c, Remaining(c), v)
  BY <1>2 DEF Try, Asks, MovesOn, Fails, Failures
<1> QED  BY <1>1, <1>2 DEF Raised

LEMMA VerdictCases ==
  ASSUME RouterTypeOK, CallInv, NEW c \in LLMCalls, progress[c] \in NotOver,
         NEW v \in {"answer", "retriable", "fatal", "escaped"}, Verdict(c, v),
         UNCHANGED <<op, warned>>
  PROVE  Gets(c) \/ MovesOn(c) \/ \E how \in Failures : Fails(c, how)
<1>1. CASE v = "answer"
  BY <1>1 DEF Verdict, CallAnswered, Gets
<1>2. CASE v # "answer"
  BY <1>2, RaisedCases DEF Verdict
<1> QED  BY <1>1, <1>2

CallStep(c) == CallRefused(c) \/ Breaks(c) \/ AnswersTools(c) \/ StreamEvent(c) \/ Cancelled(c)

LEMMA StepCases ==
  ASSUME RouterTypeOK, CallInv, NEW c \in LLMCalls, CallStep(c)
  PROVE  /\ progress[c] \in NotOver /\ UNCHANGED <<config, now>>
         /\ Gets(c) \/ MovesOn(c) \/ Reads(c) \/ \E how \in Failures : Fails(c, how)
<1>0. progress[c] \in NotOver /\ UNCHANGED <<config, now, op, warned>>
  BY DEF CallStep, CallRefused, Breaks, AnswersTools, StreamEvent, Cancelled, NotOver
<1>a. Adapter[Current(c)] \in {"openai", "claude", "gemini"}
  BY <1>0, CurrentPlace, RouterAssumption
<1>1. CASE CallRefused(c)
  BY <1>0, <1>1, RaisedCases DEF CallRefused
<1>2. CASE Breaks(c)
  BY <1>0, <1>2, RaisedCases DEF Breaks
<1>3. CASE AnswersTools(c)
  <2>1. PICK b \in Bodies : Verdict(c, BodyVerdict(Current(c), b))
    BY <1>3 DEF AnswersTools
  <2>2. BodyVerdict(Current(c), b) \in {"answer", "retriable", "fatal", "escaped"}
    BY <1>a DEF Bodies, BodyVerdict, OpenAIBody, ClaudeBody, GeminiBody
  <2> QED  BY <1>0, <2>1, <2>2, VerdictCases
<1>4. CASE StreamEvent(c)
  <2>1. PICK e \in Events :
          LET v == StreamVerdict(Current(c), e, yielded[c])
          IN Chunk(c, v) \/ (v \notin {"text", "silent"} /\ Verdict(c, v))
    BY <1>4 DEF StreamEvent
  <2> DEFINE v == StreamVerdict(Current(c), e, yielded[c])
  <2>2. v \in {"text", "silent", "answer", "retriable", "escaped"}
    BY <1>a DEF Events, StreamVerdict, OpenAIStream, ClaudeStream, GeminiStream, EventVerdict
  <2> HIDE DEF v
  <2>3. CASE Chunk(c, v)
    BY <1>0, <1>4, <2>3 DEF Reads, Chunk, StreamEvent
  <2>4. CASE v \notin {"text", "silent"} /\ Verdict(c, v)
    BY <1>0, <2>2, <2>4, VerdictCases
  <2> QED  BY <2>1, <2>3, <2>4 DEF v
<1>5. CASE Cancelled(c)
  BY <1>0, <1>5 DEF Cancelled, Fails, Failures
<1> QED  BY <1>0, <1>1, <1>2, <1>3, <1>4, <1>5 DEF CallStep

(* The beginning of a call: it has no provider it may ask, or asks one. *)
LEMMA BeginCases ==
  ASSUME RouterTypeOK, NEW c \in LLMCalls, CallBegins(c)
  PROVE  /\ progress[c] = "idle" /\ UNCHANGED <<config, now, clocks, source>>
         /\ \E o \in Ops : op' = [op EXCEPT ![c] = o]
         /\ warned' = [warned EXCEPT ![c] = {p \in Listed(order) : said429[p] + Cooldown > now}]
         /\ UsableProviders \subseteq DOMAIN order
         /\ \/ Asks(c, UsableProviders)
            \/ \E how \in {"unconfigured", "fatal"} : CallOver(c, how)
<1>1. UsableProviders \subseteq DOMAIN order
  BY DEF UsableProviders
<1>2. Try(c, UsableProviders, "unconfigured")
  BY DEF CallBegins
<1>3. Asks(c, UsableProviders) \/ \E how \in {"unconfigured", "fatal"} : CallOver(c, how)
  BY <1>2 DEF Try, Asks
<1> QED  BY <1>1, <1>3 DEF CallBegins

(* Its next step, by cases: a call begins or moves, or the clock ticks.    *)
LEMMA NextCases == RouterNext <=> Tick \/ \E c \in LLMCalls : CallBegins(c) \/ CallStep(c)
BY DEF RouterNext, CallStep

-----------------------------------------------------------------------------
(* The cool-downs *)

Clocks ==
  /\ now \in Nat /\ limited \in [Providers -> Nat] /\ said429 \in [Providers -> Int]
  /\ WindowInv

(* Only an error moves a cool-down, and every 429 does. *)
LEMMA RaisedClocks ==
  ASSUME RouterTypeOK, CallInv, WindowInv, NEW c \in LLMCalls, progress[c] \in NotOver, NEW v, NEW s,
         Raised(c, v, s), Mentions429(s) => v = "retriable" /\ ~Started(c), UNCHANGED now
  PROVE  Clocks'
<1>0. Current(c) \in Providers
  BY CurrentPlace
<1>1. CASE Mentions429(s)
  <2>1. /\ said429' = [said429 EXCEPT ![Current(c)] = now]
        /\ limited' = [limited EXCEPT ![Current(c)] = now + Cooldown]
    BY <1>1 DEF Raised, NoteError, Heard
  <2>2. now \in Nat /\ now + Cooldown \in Nat /\ Cooldown \in Nat
    BY RouterAssumption DEF RouterTypeOK
  <2> QED  BY <1>0, <2>1, <2>2 DEF Clocks, RouterTypeOK, WindowInv
<1>2. CASE ~Mentions429(s)
  <2>1. UNCHANGED <<limited, said429>>
    BY <1>2 DEF Raised, NoteError, Heard
  <2> QED  BY <2>1 DEF Clocks, RouterTypeOK, WindowInv
<1> QED  BY <1>1, <1>2

LEMMA QuietClocks ==
  ASSUME RouterTypeOK, WindowInv, UNCHANGED <<now, clocks>>
  PROVE  Clocks'
BY DEF Clocks, RouterTypeOK, WindowInv, clocks

LEMMA StepClocks == RouterTypeOK /\ CallInv /\ WindowInv /\ [RouterNext]_routerVars => Clocks'
<1> SUFFICES ASSUME RouterTypeOK, CallInv, WindowInv, [RouterNext]_routerVars PROVE Clocks'
  OBVIOUS
<1>0. ~Mentions429("")
  BY DEF Mentions429
<1>1. ASSUME NEW c \in LLMCalls, CallBegins(c) PROVE Clocks'
  BY <1>1, QuietClocks DEF CallBegins
<1>2. ASSUME NEW c \in LLMCalls, CallRefused(c) PROVE Clocks'
  <2>1. progress[c] \in NotOver /\ ~Started(c)
    BY <1>2 DEF CallRefused, NotOver, CallInv, Started
  <2>2. PICK s \in Refusals :
          Raised(c, IF RefusalRetriable(Current(c), op[c], s) THEN "retriable" ELSE "fatal", s)
    BY <1>2 DEF CallRefused
  <2>3. Mentions429(s) => RefusalRetriable(Current(c), op[c], s)
    BY <2>1, CurrentPlace, MentionIsRetriable DEF RouterTypeOK
  <2> QED  BY <1>2, <2>1, <2>2, <2>3, RaisedClocks DEF CallRefused
<1>3. ASSUME NEW c \in LLMCalls, Breaks(c) PROVE Clocks'
  BY <1>0, <1>3, RaisedClocks DEF Breaks
<1>4. ASSUME NEW c \in LLMCalls, AnswersTools(c) \/ StreamEvent(c) PROVE Clocks'
  <2>1. progress[c] \in NotOver /\ UNCHANGED now
    BY <1>4 DEF AnswersTools, StreamEvent, NotOver
  <2>2. ASSUME NEW v, Verdict(c, v) PROVE Clocks'
    <3>1. UNCHANGED clocks \/ Raised(c, v, "")
      BY <2>2 DEF Verdict, CallAnswered
    <3> QED  BY <1>0, <2>1, <3>1, QuietClocks, RaisedClocks
  <2>3. ASSUME NEW v, Chunk(c, v) PROVE Clocks'
    BY <2>1, <2>3, QuietClocks DEF Chunk
  <2> QED  BY <1>4, <2>2, <2>3 DEF AnswersTools, StreamEvent
<1>5. ASSUME NEW c \in LLMCalls, Cancelled(c) PROVE Clocks'
  BY <1>5, QuietClocks DEF Cancelled
<1>6. CASE Tick
  <2>1. now' = now + 1 /\ UNCHANGED <<limited, said429>>
    BY <1>6 DEF Tick, clocks
  <2>2. \A p \in Providers : said429[p] + Cooldown \in Int /\ limited[p] \in Nat
    BY RouterAssumption DEF RouterTypeOK
  <2>3. now \in Nat /\ now' \in Nat
    BY <2>1 DEF RouterTypeOK
  <2>4. ASSUME NEW p \in Providers
        PROVE  /\ said429[p] + Cooldown <= now + 1 => limited[p] <= now + 1
               /\ said429[p] + Cooldown > now + 1 => limited[p] = said429[p] + Cooldown
    BY <2>2, <2>3 DEF WindowInv
  <2>5. WindowInv'
    BY <2>1, <2>4 DEF WindowInv
  <2> QED  BY <2>1, <2>3, <2>5 DEF RouterTypeOK, Clocks
<1>7. CASE UNCHANGED routerVars
  BY <1>7, QuietClocks DEF routerVars
<1> QED  BY <1>1, <1>2, <1>3, <1>4, <1>5, <1>6, <1>7 DEF RouterNext

-----------------------------------------------------------------------------
(* The calls *)

CallTypes ==
  /\ order \in Seq(Providers) /\ keyed \subseteq Providers
  /\ op \in [LLMCalls -> Ops]
  /\ progress \in [LLMCalls -> {"idle", "done"} \cup NotOver]
  /\ rest \in [LLMCalls -> SUBSET Nat]
  /\ yielded \in [LLMCalls -> BOOLEAN]
  /\ source \in [LLMCalls -> Providers \cup {Nobody}]
  /\ outcome \in [LLMCalls -> Outcomes]
  /\ tried \in [LLMCalls -> SUBSET Providers] /\ warned \in [LLMCalls -> SUBSET Providers]

LEMMA TypeParts == RouterInv <=> Clocks /\ CallTypes /\ CallInv
BY DEF RouterInv, RouterTypeOK, Clocks, CallTypes

(* A call that is over has what it had and nothing else. *)
LEMMA OverInv ==
  ASSUME CallTypes, CallInv, NEW c \in LLMCalls, NEW how \in Failures \cup {"answer"},
         CallOver(c, how), UNCHANGED config,
         source' \in [LLMCalls -> Providers \cup {Nobody}],
         \A d \in LLMCalls : d # c => source'[d] = source[d] /\ op'[d] = op[d],
         op' \in [LLMCalls -> Ops], warned' \in [LLMCalls -> SUBSET Providers]
  PROVE  CallTypes' /\ CallInv'
<1>1. how \in Outcomes /\ how # "none"
  BY DEF Failures, Outcomes
<1>2. CallTypes'
  BY <1>1 DEF CallOver, CallTypes, config
<1>3. /\ progress'[c] = "done" /\ outcome'[c] = how /\ ~yielded'[c]
      /\ \A d \in LLMCalls : d # c => /\ progress'[d] = progress[d] /\ outcome'[d] = outcome[d]
                                   /\ rest'[d] = rest[d] /\ yielded'[d] = yielded[d]
      /\ order' = order
  BY DEF CallOver, CallTypes, config
<1>4. CallInv'
  BY <1>1, <1>3 DEF CallInv, NotOver, Started, Current
<1> QED  BY <1>2, <1>4

(* A call that asks a provider has text of nobody. *)
LEMMA AsksInv ==
  ASSUME RouterTypeOK, CallInv, NEW c \in LLMCalls, progress[c] # "done", source[c] = Nobody,
         NEW places \in SUBSET DOMAIN order, Asks(c, places), UNCHANGED <<config, source>>,
         \A d \in LLMCalls : d # c => op'[d] = op[d],
         op' \in [LLMCalls -> Ops], warned' \in [LLMCalls -> SUBSET Providers]
  PROVE  CallTypes' /\ CallInv'
<1>0. places \in SUBSET Nat /\ places # {}
  BY PlacesAreNumbers DEF Asks
<1>1. order[First(places)] \in Providers
  BY <1>0, FirstIsLeast, PlacesAreNumbers
<1>2. CallTypes'
  BY <1>0, <1>1 DEF RouterTypeOK, Asks, CallTypes, config, NotOver
<1>3. /\ progress'[c] = "asked" /\ rest'[c] = places /\ ~yielded'[c]
      /\ \A d \in LLMCalls : d # c => /\ progress'[d] = progress[d] /\ rest'[d] = rest[d]
                                   /\ yielded'[d] = yielded[d]
      /\ order' = order /\ UNCHANGED <<source, outcome>>
  BY DEF Asks, RouterTypeOK, config
<1>4. CallInv'
  BY <1>0, <1>3 DEF CallInv, NotOver, Started, Current
<1> QED  BY <1>2, <1>4

LEMMA StepCall ==
  ASSUME RouterTypeOK, CallInv, NEW c \in LLMCalls, CallBegins(c) \/ CallStep(c)
  PROVE  CallTypes' /\ CallInv'
<1>0. CallTypes
  BY DEF RouterTypeOK, CallTypes
<1>1. CASE CallBegins(c)
  <2>1. /\ op' \in [LLMCalls -> Ops] /\ \A d \in LLMCalls : d # c => op'[d] = op[d]
        /\ warned' \in [LLMCalls -> SUBSET Providers]
    <3>1. Listed(order) \subseteq Providers
      BY PlacesAreNumbers DEF Listed
    <3>2. PICK o \in Ops : op' = [op EXCEPT ![c] = o]
      BY <1>1 DEF CallBegins
    <3>3. warned' = [warned EXCEPT ![c] = {p \in Listed(order) : said429[p] + Cooldown > now}]
      BY <1>1 DEF CallBegins
    <3>4. {p \in Listed(order) : said429[p] + Cooldown > now} \in SUBSET Providers
      BY <3>1
    <3> QED  BY <3>2, <3>3, <3>4 DEF RouterTypeOK
  <2>2. source[c] = Nobody /\ UNCHANGED <<config, source>> /\ progress[c] # "done"
    BY <1>1, BeginCases DEF CallInv
  <2>3. CASE Asks(c, UsableProviders)
    BY <1>1, <2>1, <2>2, <2>3, BeginCases, AsksInv
  <2>4. ASSUME NEW how \in {"unconfigured", "fatal"}, CallOver(c, how) PROVE CallTypes' /\ CallInv'
    BY <1>0, <2>1, <2>2, <2>4, OverInv DEF Failures, RouterTypeOK
  <2> QED  BY <1>1, <2>3, <2>4, BeginCases
<1>2. CASE CallStep(c)
  <2>0. /\ progress[c] \in NotOver /\ UNCHANGED <<config, now>>
        /\ Current(c) \in Providers
    BY <1>2, StepCases, CurrentPlace
  <2>1. ASSUME NEW how \in Failures, Fails(c, how) PROVE CallTypes' /\ CallInv'
    BY <1>0, <2>0, <2>1, OverInv DEF Fails, RouterTypeOK
  <2>2. CASE Gets(c)
    <3>1. /\ source' \in [LLMCalls -> Providers \cup {Nobody}]
          /\ \A d \in LLMCalls : d # c => source'[d] = source[d]
      BY <2>0, <2>2 DEF Gets, RouterTypeOK
    <3> QED  BY <1>0, <2>0, <2>2, <3>1, OverInv DEF Gets, RouterTypeOK
  <2>3. CASE MovesOn(c)
    <3>1. source[c] = Nobody /\ Remaining(c) \subseteq DOMAIN order /\ progress[c] # "done"
      BY <2>0, <2>3 DEF MovesOn, CallInv, Remaining, NotOver
    <3> QED  BY <2>0, <2>3, <3>1, AsksInv DEF MovesOn, RouterTypeOK
  <2>4. CASE Reads(c)
    <3>1. PICK v \in {"text", "silent"} : Chunk(c, v)
      BY <2>4 DEF Reads
    <3>2. /\ progress' = [progress EXCEPT ![c] = "reading"]
          /\ yielded' = [yielded EXCEPT ![c] = @ \/ v = "text"]
          /\ source' = IF v = "text" /\ op[c] = "stream" THEN [source EXCEPT ![c] = Current(c)] ELSE source
          /\ UNCHANGED <<op, warned, config, rest, outcome, tried>>
      BY <2>0, <2>4, <3>1 DEF Chunk, Streamed, Reads
    <3>3. CallTypes'
      BY <2>0, <3>2 DEF RouterTypeOK, CallTypes, config, NotOver
    <3>4. \A d \in LLMCalls : d # c => /\ progress'[d] = progress[d] /\ yielded'[d] = yielded[d]
                                   /\ source'[d] = source[d]
      BY <2>0, <3>2 DEF RouterTypeOK
    <3>5. /\ progress'[c] = "reading" /\ yielded'[c] = (yielded[c] \/ v = "text")
          /\ source'[c] = IF v = "text" /\ op[c] = "stream" THEN Current(c) ELSE source[c]
      BY <3>2 DEF RouterTypeOK
    <3>6. rest[c] # {} /\ rest[c] \subseteq DOMAIN order
          /\ source[c] = (IF op[c] = "stream" /\ yielded[c] THEN Current(c) ELSE Nobody)
          /\ outcome[c] = "none"
      BY <2>0 DEF CallInv, Started, NotOver
    <3>7. CallInv'
      <4>1. order' = order /\ rest' = rest /\ op' = op /\ outcome' = outcome
        BY <3>2 DEF config
      <4>2. source'[c] = IF op[c] = "stream" /\ yielded'[c] THEN Current(c) ELSE Nobody
        BY <3>5, <3>6
      <4>3. ASSUME NEW d \in LLMCalls
            PROVE  /\ (outcome'[d] = "none") <=> (progress'[d] # "done")
                   /\ progress'[d] = "idle" => source'[d] = Nobody
                   /\ yielded'[d] => progress'[d] = "reading"
                   /\ progress'[d] \in NotOver =>
                        /\ rest'[d] # {} /\ rest'[d] \subseteq DOMAIN order'
                        /\ source'[d] = IF op'[d] = "stream" /\ yielded'[d] THEN Current(d)' ELSE Nobody
        <5>1. CASE d = c
          BY <3>5, <3>6, <4>1, <4>2, <5>1 DEF Current
        <5>2. CASE d # c
          BY <3>4, <4>1, <5>2 DEF CallInv, Started, Current
        <5> QED  BY <5>1, <5>2
      <4> QED  BY <4>3 DEF CallInv, Started
    <3> QED  BY <3>3, <3>7
  <2> QED  BY <1>2, <2>1, <2>2, <2>3, <2>4, StepCases
<1> QED  BY <1>1, <1>2

LEMMA InitInv == RouterInit => RouterInv
<1> SUFFICES ASSUME RouterInit PROVE RouterInv
  OBVIOUS
<1>1. order \in Seq(Providers)
  BY RouterAssumption DEF RouterInit
<1>2. keyed \subseteq Providers
  BY <1>1, ElementOfSeq, LenProperties DEF RouterInit, Listed
<1>3. Clocks
  BY RouterAssumption DEF RouterInit, Clocks, WindowInv
<1>4. CallTypes /\ CallInv
  BY <1>1, <1>2 DEF RouterInit, CallTypes, CallInv, NotOver, Ops, Outcomes
<1> QED  BY <1>3, <1>4, TypeParts

LEMMA StepInv == RouterInv /\ [RouterNext]_routerVars => RouterInv'
<1> SUFFICES ASSUME RouterInv, [RouterNext]_routerVars PROVE RouterInv'
  OBVIOUS
<1>0. RouterTypeOK /\ CallInv /\ WindowInv /\ CallTypes
  BY TypeParts DEF RouterInv
<1>1. Clocks'
  BY <1>0, StepClocks
<1>2. CASE UNCHANGED <<config, llmCallVars>>
  <2>1. CallTypes' /\ CallInv'
    BY <1>0, <1>2 DEF llmCallVars, config, CallTypes, CallInv, Started, Current
  <2> QED  BY <1>1, <2>1 DEF RouterInv, RouterTypeOK, Clocks, CallTypes
<1>3. ASSUME NEW c \in LLMCalls, CallBegins(c) \/ CallStep(c) PROVE RouterInv'
  BY <1>0, <1>1, <1>3, StepCall DEF RouterInv, RouterTypeOK, Clocks, CallTypes
<1> QED  BY <1>2, <1>3, NextCases DEF routerVars, Tick

(* The invariant of the router: what it knows of a provider's cool-down is *)
(* what the provider said, and a caller has text of one provider only, the *)
(* one the call is with.                                                   *)
THEOREM RouterInvariant == RouterSpec => []RouterInv
BY InitInv, StepInv, PTL DEF RouterSpec

-----------------------------------------------------------------------------
(* The providers that are asked *)

(* Where a call is in the order.  It has left behind only those it asked   *)
(* and those that were cooling down when it began; it has one of the       *)
(* latter before it only if all were.                                      *)
LeftBehind(c, i) == order[i] \in tried[c] \cup warned[c]
PlaceInv(c) ==
  /\ progress[c] = "idle" => tried[c] = {} /\ warned[c] = {}
  /\ progress[c] \in NotOver =>
       /\ Current(c) \in tried[c]
       /\ \A i \in DOMAIN order : i \in rest[c] \/ LeftBehind(c, i)
       /\ Listed(order) \subseteq warned[c] \/ \A i \in rest[c] : order[i] \notin warned[c]

(* What RightOnesTried says of one call. *)
RightOnes(c) ==
  /\ tried[c] \cap warned[c] # {} => Listed(order) \subseteq warned[c]
  /\ outcome[c] = "retriable" /\ source[c] = Nobody => Listed(order) \ warned[c] \subseteq tried[c]
  /\ \A p \in tried[c] : \E j \in DOMAIN order :
       order[j] = p /\ \A i \in DOMAIN order : i < j => LeftBehind(c, i)

TriedInv == \A c \in LLMCalls : PlaceInv(c) /\ RightOnes(c)

LEMMA TriedInvIsRight == TriedInv => RightOnesTried
BY DEF TriedInv, RightOnes, RightOnesTried, LimitedLeftAlone, NoneSkipped, LeftBehind

(* A request to the first of the places that are left. *)
LEMMA AsksTried ==
  ASSUME RouterTypeOK, NEW c \in LLMCalls, NEW places \in SUBSET DOMAIN order, Asks(c, places),
         UNCHANGED config, RightOnes(c), outcome[c] = "none",
         NEW warm \in SUBSET Providers, warned'[c] = warm,
         tried[c] = {} \/ warm = warned[c],
         \A i \in DOMAIN order : i \in places \/ order[i] \in tried[c] \cup warm,
         Listed(order) \subseteq warm \/ \A i \in places : order[i] \notin warm
  PROVE  PlaceInv(c)' /\ RightOnes(c)'
<1> DEFINE f == First(places)
<1>1. f \in places /\ \A j \in places : f <= j
  BY PlacesAreNumbers, FirstIsLeast DEF Asks
<1>2. f \in DOMAIN order /\ DOMAIN order \subseteq Nat
  BY <1>1, PlacesAreNumbers
<1>3. order' = order /\ outcome'[c] = "none" /\ progress'[c] = "asked" /\ rest'[c] = places
  BY DEF Asks, RouterTypeOK, config
<1>4. tried'[c] = tried[c] \cup {order[f]}
  BY DEF Asks, RouterTypeOK
<1> HIDE DEF f
<1>5. Current(c)' \in tried'[c]
  BY <1>3, <1>4 DEF Current, f
<1>6. PlaceInv(c)'
  BY <1>3, <1>4, <1>5 DEF PlaceInv, LeftBehind
<1>7. tried'[c] \cap warned'[c] # {} => Listed(order) \subseteq warm
  BY <1>1, <1>4 DEF RightOnes
<1>8. \A i \in DOMAIN order : i < f => order[i] \in tried'[c] \cup warm
  BY <1>1, <1>2, <1>4
<1>9. ASSUME NEW p \in tried'[c]
      PROVE  \E j \in DOMAIN order :
               order[j] = p /\ \A i \in DOMAIN order : i < j => order[i] \in tried'[c] \cup warm
  <2>1. CASE p = order[f]
    BY <1>2, <1>8, <2>1
  <2>2. CASE p \in tried[c]
    BY <1>4, <2>2 DEF RightOnes, LeftBehind
  <2> QED  BY <1>4, <2>1, <2>2
<1> QED  BY <1>3, <1>6, <1>7, <1>9 DEF RightOnes, LeftBehind

(* A call that begins leaves out the providers that are cooling down, if   *)
(* another is not.                                                         *)
LEMMA BeginTried ==
  ASSUME RouterTypeOK, CallInv, WindowInv, NEW c \in LLMCalls, CallBegins(c), PlaceInv(c), RightOnes(c)
  PROVE  PlaceInv(c)' /\ RightOnes(c)'
<1> DEFINE warm == {p \in Listed(order) : said429[p] + Cooldown > now}
<1>1. /\ progress[c] = "idle" /\ tried[c] = {} /\ outcome[c] = "none" /\ UNCHANGED config
      /\ warned'[c] = warm /\ order' = order
  BY BeginCases DEF PlaceInv, CallInv, RouterTypeOK, config
<1>2. warm \in SUBSET Providers
  BY PlacesAreNumbers DEF Listed
<1>3. \A i \in DOMAIN order : Available(order[i]) <=> order[i] \notin warm
  <2> SUFFICES ASSUME NEW i \in DOMAIN order PROVE Available(order[i]) <=> order[i] \notin warm
    OBVIOUS
  <2>1. order[i] \in Providers /\ order[i] \in Listed(order)
    BY PlacesAreNumbers DEF Listed
  <2>2. /\ said429[order[i]] \in Int /\ limited[order[i]] \in Nat
        /\ Cooldown \in Nat /\ now \in Nat
    BY <2>1, RouterAssumption DEF RouterTypeOK
  <2> QED  BY <2>1, <2>2 DEF WindowInv, Available
<1>4. CASE Asks(c, UsableProviders)
  <2>1. UsableProviders \in SUBSET DOMAIN order
    BY BeginCases
  <2>2. \A i \in DOMAIN order : i \in UsableProviders \/ order[i] \in warm
    BY <1>3 DEF UsableProviders
  <2>3. Listed(order) \subseteq warm \/ \A i \in UsableProviders : order[i] \notin warm
    BY <1>3 DEF UsableProviders, Listed
  <2> HIDE DEF warm
  <2> QED  BY <1>1, <1>2, <1>4, <2>1, <2>2, <2>3, AsksTried
<1>5. ASSUME NEW how \in {"unconfigured", "fatal"}, CallOver(c, how) PROVE PlaceInv(c)' /\ RightOnes(c)'
  BY <1>1, <1>5 DEF CallOver, RouterTypeOK, PlaceInv, RightOnes, NotOver
<1> QED  BY <1>4, <1>5, BeginCases

LEMMA CallTried ==
  ASSUME RouterTypeOK, CallInv, NEW c \in LLMCalls, CallStep(c), PlaceInv(c), RightOnes(c)
  PROVE  PlaceInv(c)' /\ RightOnes(c)'
<1>0. /\ progress[c] \in NotOver /\ UNCHANGED config /\ outcome[c] = "none"
      /\ order' = order
  BY StepCases DEF CallInv, NotOver, config
<1>1. /\ First(rest[c]) \in DOMAIN order /\ Current(c) \in tried[c] /\ rest[c] \subseteq DOMAIN order
      /\ order[First(rest[c])] = Current(c) /\ Current(c) \in Providers /\ Current(c) # Nobody
  BY <1>0, CurrentPlace, RouterAssumption DEF PlaceInv, Current, CallInv
<1>2. ASSUME NEW how \in Failures, Fails(c, how) PROVE PlaceInv(c)' /\ RightOnes(c)'
  <2>1. progress'[c] = "done" /\ outcome'[c] = how /\ UNCHANGED <<source, tried, warned>>
    BY <1>2 DEF Fails, CallOver, RouterTypeOK
  <2>2. how = "retriable" /\ source[c] = Nobody => Listed(order) \ warned[c] \subseteq tried[c]
    <3> SUFFICES ASSUME Remaining(c) = {} PROVE Listed(order) \subseteq tried[c] \cup warned[c]
      BY <1>2 DEF Fails
    <3>1. \A i \in DOMAIN order : i # First(rest[c]) => LeftBehind(c, i)
      BY <1>0 DEF Remaining, PlaceInv
    <3> QED  BY <1>1, <3>1 DEF Listed, LeftBehind
  <2> QED  BY <1>0, <2>1, <2>2 DEF PlaceInv, RightOnes, LeftBehind, NotOver
<1>3. CASE Gets(c)
  <2>1. progress'[c] = "done" /\ outcome'[c] = "answer" /\ UNCHANGED <<tried, warned>>
    BY <1>3 DEF Gets, CallOver, RouterTypeOK
  <2> QED  BY <1>0, <2>1 DEF PlaceInv, RightOnes, LeftBehind, NotOver
<1>4. CASE MovesOn(c)
  <2>1. Asks(c, Remaining(c)) /\ UNCHANGED warned /\ Remaining(c) \in SUBSET DOMAIN order
    BY <1>1, <1>4 DEF MovesOn, Remaining
  <2>2. \A i \in DOMAIN order : i \in Remaining(c) \/ order[i] \in tried[c] \cup warned[c]
    BY <1>0, <1>1 DEF Remaining, PlaceInv, LeftBehind
  <2>3. Listed(order) \subseteq warned[c] \/ \A i \in Remaining(c) : order[i] \notin warned[c]
    BY <1>0 DEF Remaining, PlaceInv
  <2>4. warned[c] \in SUBSET Providers
    BY DEF RouterTypeOK
  <2> QED  BY <1>0, <2>1, <2>2, <2>3, <2>4, AsksTried
<1>5. CASE Reads(c)
  <2>1. /\ progress'[c] = "reading" /\ UNCHANGED <<outcome, tried, warned, rest>>
    BY <1>5 DEF Reads, Chunk, RouterTypeOK
  <2> QED  BY <1>0, <2>1 DEF PlaceInv, RightOnes, LeftBehind, NotOver, Current
<1> QED  BY <1>2, <1>3, <1>4, <1>5, StepCases

(* What a step of one call leaves to the others. *)
LEMMA OthersKeep ==
  ASSUME RouterTypeOK, CallInv, NEW c \in LLMCalls, CallBegins(c) \/ CallStep(c), NEW d \in LLMCalls, d # c
  PROVE  /\ order' = order /\ progress'[d] = progress[d] /\ rest'[d] = rest[d] /\ source'[d] = source[d]
         /\ outcome'[d] = outcome[d] /\ tried'[d] = tried[d] /\ warned'[d] = warned[d]
<1>1. ASSUME NEW how, CallOver(c, how)
      PROVE  /\ progress'[d] = progress[d] /\ rest'[d] = rest[d] /\ outcome'[d] = outcome[d]
             /\ tried'[d] = tried[d]
  BY <1>1 DEF CallOver, RouterTypeOK
<1>2. ASSUME NEW places, Asks(c, places)
      PROVE  /\ progress'[d] = progress[d] /\ rest'[d] = rest[d] /\ outcome'[d] = outcome[d]
             /\ tried'[d] = tried[d]
  BY <1>2 DEF Asks, RouterTypeOK
<1>3. CASE CallBegins(c)
  <2>1. order' = order /\ source' = source /\ warned'[d] = warned[d]
    BY <1>3 DEF CallBegins, config, RouterTypeOK
  <2> QED  BY <1>1, <1>2, <1>3, <2>1, BeginCases
<1>4. CASE CallStep(c)
  <2>0. order' = order
    BY <1>4, StepCases DEF config
  <2>1. ASSUME NEW how \in Failures, Fails(c, how) PROVE UNCHANGED <<source, warned>>
    BY <2>1 DEF Fails
  <2>2. CASE Gets(c)
    BY <1>1, <2>0, <2>2 DEF Gets, RouterTypeOK
  <2>3. CASE MovesOn(c)
    BY <1>2, <2>0, <2>3 DEF MovesOn
  <2>4. CASE Reads(c)
    BY <2>0, <2>4 DEF Reads, Chunk, RouterTypeOK
  <2>5. ASSUME NEW how \in Failures, Fails(c, how)
        PROVE  /\ progress'[d] = progress[d] /\ rest'[d] = rest[d] /\ source'[d] = source[d]
               /\ outcome'[d] = outcome[d] /\ tried'[d] = tried[d] /\ warned'[d] = warned[d]
    BY <1>1, <2>1, <2>5 DEF Fails
  <2> QED  BY <1>4, <2>0, <2>2, <2>3, <2>4, <2>5, StepCases
<1> QED  BY <1>3, <1>4

LEMMA StepTried == RouterInv /\ TriedInv /\ [RouterNext]_routerVars => TriedInv'
<1> SUFFICES ASSUME RouterInv, TriedInv, [RouterNext]_routerVars PROVE TriedInv'
  OBVIOUS
<1>0. RouterTypeOK /\ CallInv /\ WindowInv
  BY DEF RouterInv
<1>1. CASE UNCHANGED <<config, llmCallVars>>
  BY <1>1 DEF config, llmCallVars, TriedInv, PlaceInv, RightOnes, LeftBehind, Current
<1>2. ASSUME NEW c \in LLMCalls, CallBegins(c) \/ CallStep(c) PROVE TriedInv'
  <2>1. PlaceInv(c)' /\ RightOnes(c)'
    BY <1>0, <1>2, BeginTried, CallTried DEF TriedInv
  <2>2. ASSUME NEW d \in LLMCalls, d # c PROVE PlaceInv(d)' /\ RightOnes(d)'
    <3>1. /\ order' = order /\ progress'[d] = progress[d] /\ rest'[d] = rest[d] /\ source'[d] = source[d]
          /\ outcome'[d] = outcome[d] /\ tried'[d] = tried[d] /\ warned'[d] = warned[d]
      BY <1>0, <1>2, <2>2, OthersKeep
    <3>2. PlaceInv(d) /\ RightOnes(d)
      BY DEF TriedInv
    <3> QED  BY <3>1, <3>2 DEF PlaceInv, RightOnes, LeftBehind, Current
  <2> QED  BY <2>1, <2>2 DEF TriedInv
<1> QED  BY <1>1, <1>2, NextCases DEF routerVars, Tick

LEMMA InitTried == RouterInit => TriedInv
BY DEF RouterInit, TriedInv, PlaceInv, RightOnes, NotOver

(* Whatever the providers answer and however calls overlap, a call asks no *)
(* provider that was cooling down when it began unless all were, asks them *)
(* in order, and gives up only when it has asked all others                *)
(* (base.py:178-223).                                                      *)
THEOREM RightOnesAreTried == RouterSpec => []RightOnesTried
<1>1. RouterInv /\ TriedInv /\ [RouterNext]_routerVars => (RouterInv /\ TriedInv)'
  BY StepInv, StepTried
<1> QED  BY <1>1, InitInv, InitTried, TriedInvIsRight, PTL DEF RouterSpec

-----------------------------------------------------------------------------
(* The router implements Reply *)

ends == [c \in LLMCalls |-> EndOf(c)]

(* A call that has not ended goes on, or ends as outcome' says. *)
LEMMA EndIs ==
  ASSUME RouterTypeOK, NEW c \in LLMCalls, outcome[c] = "none", NEW how \in Outcomes \ {"none"},
         outcome' = [outcome EXCEPT ![c] = how]
  PROVE  /\ ends[c] = "open"
         /\ ends' = [ends EXCEPT ![c] = IF how = "answer" THEN "answer" ELSE "error"]
<1>1. outcome'[c] = how /\ \A d \in LLMCalls : d # c => outcome'[d] = outcome[d]
  BY DEF RouterTypeOK
<1> QED  BY <1>1 DEF ends, EndOf

LEMMA InitReply == RouterInit => R!Init
BY DEF RouterInit, R!Init, EndOf

LEMMA StepReply == RouterInv /\ [RouterNext]_routerVars => [R!Next]_<<source, ends>>
<1> SUFFICES ASSUME RouterInv, [RouterNext]_routerVars PROVE [R!Next]_<<source, ends>>
  OBVIOUS
<1>0. RouterTypeOK /\ CallInv
  BY DEF RouterInv
<1>1. ASSUME UNCHANGED <<source, outcome>> PROVE UNCHANGED <<source, ends>>
  BY <1>1 DEF ends, EndOf
<1>2. ASSUME NEW c \in LLMCalls, NEW how \in Failures, CallOver(c, how), outcome[c] = "none", UNCHANGED source
      PROVE  R!Next
  <2>1. ends[c] = "open" /\ ends' = [ends EXCEPT ![c] = "error"]
    BY <1>0, <1>2, EndIs DEF CallOver, Failures, Outcomes
  <2>2. R!Fail(c)
    BY <1>2, <2>1 DEF R!Fail, ends
  <2> QED  BY <2>2 DEF R!Next
<1>3. ASSUME NEW c \in LLMCalls, CallBegins(c) PROVE [R!Next]_<<source, ends>>
  <2>1. outcome[c] = "none" /\ UNCHANGED source
    BY <1>0, <1>3, BeginCases DEF CallInv
  <2>2. CASE Asks(c, UsableProviders)
    BY <1>1, <2>1, <2>2 DEF Asks
  <2> QED  BY <1>0, <1>2, <1>3, <2>1, <2>2, BeginCases DEF Failures
<1>4. ASSUME NEW c \in LLMCalls, CallStep(c) PROVE [R!Next]_<<source, ends>>
  <2>1. /\ outcome[c] = "none" /\ Current(c) \in Providers
        /\ source[c] \in {Nobody, Current(c)}
    BY <1>0, <1>4, StepCases, CurrentPlace DEF CallInv, NotOver
  <2>2. ends[c] = "open"
    BY <2>1 DEF ends, EndOf
  <2>3. CASE Gets(c)
    <3>1. ends' = [ends EXCEPT ![c] = "answer"]
      BY <1>0, <2>1, <2>3, EndIs DEF Gets, CallOver, Outcomes
    <3>2. R!Answer(c, Current(c))
      BY <2>1, <2>2, <2>3, <3>1 DEF Gets, R!Answer, R!Speaks, ends
    <3> QED  BY <2>1, <3>2 DEF R!Next
  <2>4. CASE MovesOn(c)
    BY <1>1, <2>4 DEF MovesOn, Asks
  <2>5. CASE Reads(c)
    <3>1. UNCHANGED outcome /\ (source' = source \/ source' = [source EXCEPT ![c] = Current(c)])
      BY <2>5 DEF Reads, Chunk
    <3>2. CASE source' = source
      BY <1>1, <3>1, <3>2
    <3>3. CASE source' = [source EXCEPT ![c] = Current(c)]
      <4>1. ends' = ends
        BY <3>1 DEF ends, EndOf
      <4>2. R!Say(c, Current(c))
        BY <2>1, <2>2, <3>3, <4>1 DEF R!Say, R!Speaks, ends
      <4> QED  BY <2>1, <4>2 DEF R!Next
    <3> QED  BY <3>1, <3>2, <3>3
  <2>6. ASSUME NEW how \in Failures, Fails(c, how) PROVE R!Next
    BY <1>2, <2>1, <2>6 DEF Fails
  <2> QED  BY <1>0, <1>4, <2>3, <2>4, <2>5, <2>6, StepCases
<1>5. CASE UNCHANGED routerVars \/ Tick
  BY <1>1, <1>5 DEF routerVars, Tick, llmCallVars
<1> QED  BY <1>3, <1>4, <1>5, NextCases

(* A caller has text of one provider only, nothing follows the end of its  *)
(* call and a call ends once, for any providers and calls                  *)
(* (base.py:263-308).                                                      *)
THEOREM RouterImplementsReply == RouterSpec => ImplementsReply
<1>1. RouterInv /\ [RouterNext]_routerVars => [R!Next]_<<source, [c \in LLMCalls |-> EndOf(c)]>>
  BY StepReply DEF ends
<1> QED  BY <1>1, InitReply, RouterInvariant, PTL DEF RouterSpec, ImplementsReply, R!Spec

=============================================================================
