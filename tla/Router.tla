------------------------------- MODULE Router -------------------------------
(***************************************************************************)
(* LLMRouter (llm_adapter/base.py) over its provider adapters: calls that  *)
(* overlap in one process walk the providers in order, move on after a     *)
(* retriable failure unless text went out already, and leave a provider    *)
(* that answered 429 alone for a while.                                    *)
(*                                                                         *)
(* Prompts and texts are left out: a reply is the provider it comes from.  *)
(* What providers send is arbitrary.  MaxTime bounds the clock.            *)
(***************************************************************************)
EXTENDS Integers, Sequences

CONSTANTS
  Providers,   \* the names of providers
  Adapter,     \* Adapter[p]: the class that speaks to p: "openai", "claude" or "gemini"
  Orders,      \* the values LLM_PROVIDER_ORDER may have
  LLMCalls,    \* the calls of the router
  Nobody,
  Cooldown,    \* _RATE_LIMIT_COOLDOWN_SECONDS
  MaxTime

ASSUME RouterAssumption ==
  /\ Adapter \in [Providers -> {"openai", "claude", "gemini"}]
  /\ Orders \subseteq Seq(Providers)
  /\ Nobody \notin Providers
  /\ Cooldown \in Nat /\ MaxTime \in Nat

VARIABLES
  order,     \* _providers, read from the environment at start
  keyed,     \* the providers whose API key is set
  now,       \* time.monotonic()
  limited,   \* limited[p]: _rate_limited_until
  op,        \* op[c]: "complete", "tools" or "stream"
  progress,  \* progress[c]: idle, asked (a request is out), reading (its body), done
  rest,      \* rest[c]: the places in order that the loop of call c has not left behind
  yielded,   \* yielded[c]: has the current provider sent text?
  source,    \* source[c]: whose text the caller has
  outcome,   \* outcome[c]: how call c ended
  said429,   \* said429[p]: when p last said 429 (only the properties read it)
  tried,     \* tried[c]: the providers call c asked (only the properties read it)
  warned     \* warned[c]: those that said 429 less than Cooldown before c began (likewise)

config == <<order, keyed>>
clocks == <<limited, said429>>
llmCallVars == <<op, progress, rest, yielded, source, outcome, tried, warned>>
routerVars == <<config, now, clocks, llmCallVars>>

Ops == {"complete", "tools", "stream"}
NotOver == {"asked", "reading"}
Listed(s) == {s[i] : i \in DOMAIN s}

RouterInit ==
  /\ order \in Orders
  /\ keyed \in SUBSET Listed(order)
  /\ now = 0
  /\ limited = [p \in Providers |-> 0]
  /\ said429 = [p \in Providers |-> -Cooldown]
  /\ op = [c \in LLMCalls |-> "complete"]
  /\ progress = [c \in LLMCalls |-> "idle"]
  /\ rest = [c \in LLMCalls |-> {}]
  /\ yielded = [c \in LLMCalls |-> FALSE]
  /\ source = [c \in LLMCalls |-> Nobody]
  /\ outcome = [c \in LLMCalls |-> "none"]
  /\ tried = [c \in LLMCalls |-> {}]
  /\ warned = [c \in LLMCalls |-> {}]

-----------------------------------------------------------------------------
(* How the adapters classify what a provider answers *)

(* 200 and a body, or a refusal: a status other than 200, by class, with   *)
(* "toolfail" for a 400 that says tool_use_failed and "5xx-429" for a 5xx  *)
(* whose body mentions 429.                                                *)
Refusals == {"429", "5xx", "5xx-429", "404", "400", "toolfail"}
StatusRetriable(s) == s \in {"429", "5xx", "5xx-429"}
ToolCallErrorRetriable(s) == StatusRetriable(s) \/ s = "toolfail"
GeminiRetriable(s) == StatusRetriable(s) \/ s = "404"

RefusalRetriable(p, o, s) ==
  CASE Adapter[p] = "gemini" -> GeminiRetriable(s)
    [] Adapter[p] = "openai" /\ o = "tools" -> ToolCallErrorRetriable(s)
    [] OTHER -> StatusRetriable(s)

(* The bodies of a 200 to a call with tools: usable, cut off at max_tokens *)
(* without content, without a choice, with arguments that are no JSON, or  *)
(* no JSON at all.  What json.loads or an index raises, nobody translates. *)
Bodies == {"usable", "truncated", "nothing", "badargs", "garbage"}
OpenAIBody(b) ==
  CASE b = "usable" -> "answer"
    [] b \in {"truncated", "nothing"} -> "retriable"
    [] b = "badargs" -> "fatal"
    [] b = "garbage" -> "escaped"
ClaudeBody(b) == IF b \in {"usable", "truncated", "nothing"} THEN "answer" ELSE "escaped"
GeminiBody(b) ==
  CASE b = "usable" -> "answer"
    [] b \in {"truncated", "nothing"} -> "retriable"
    [] b \in {"badargs", "garbage"} -> "escaped"

BodyVerdict(p, b) ==
  CASE Adapter[p] = "openai" -> OpenAIBody(b)
    [] Adapter[p] = "claude" -> ClaudeBody(b)
    [] Adapter[p] = "gemini" -> GeminiBody(b)

(* The events of a stream: with text, without any, the end, the end at     *)
(* max_tokens, or no JSON.  Only one adapter takes a reply that was cut    *)
(* off before any text (some) for a failure.                               *)
Events == {"text", "silent", "end", "cut", "garbage"}
EventVerdict(e) ==
  CASE e \in {"text", "silent"} -> e
    [] e \in {"end", "cut"} -> "answer"
    [] e = "garbage" -> "escaped"
OpenAIStream(e, some) == IF e = "cut" /\ ~some THEN "retriable" ELSE EventVerdict(e)
ClaudeStream(e, some) == EventVerdict(e)
GeminiStream(e, some) == EventVerdict(e)

StreamVerdict(p, e, some) ==
  CASE Adapter[p] = "openai" -> OpenAIStream(e, some)
    [] Adapter[p] = "claude" -> ClaudeStream(e, some)
    [] Adapter[p] = "gemini" -> GeminiStream(e, some)

HasKey(p) == p \in keyed

-----------------------------------------------------------------------------
(* The router *)

AvailableEarly(p) == limited[p] <= now + 1
Available(p) == limited[p] <= now
UsableProviders ==
  LET usable == {i \in DOMAIN order : Available(order[i])}
  IN IF usable = {} THEN DOMAIN order ELSE usable

First(places) == CHOOSE i \in places : \A j \in places : i <= j
Current(c) == order[First(rest[c])]
SameAgain(c) == rest[c]
Remaining(c) == rest[c] \ {First(rest[c])}

Mentions429(s) == s \in {"429", "5xx-429"}
NoteServerErrors(p, s) ==
  limited' = IF s \in {"5xx", "5xx-429"} THEN [limited EXCEPT ![p] = now + Cooldown] ELSE limited
NoteError(p, s) ==
  limited' = IF Mentions429(s) THEN [limited EXCEPT ![p] = now + Cooldown] ELSE limited
Heard(p, s) ==
  said429' = IF Mentions429(s) THEN [said429 EXCEPT ![p] = now] ELSE said429

(* Text that the caller got ends the choice of a provider. *)
StartedNever(c) == FALSE
Started(c) == op[c] = "stream" /\ yielded[c]

CallOver(c, how) ==
  /\ progress' = [progress EXCEPT ![c] = "done"]
  /\ outcome' = [outcome EXCEPT ![c] = how]
  /\ rest' = [rest EXCEPT ![c] = {}]
  /\ yielded' = [yielded EXCEPT ![c] = FALSE]
  /\ UNCHANGED tried

(* The next round of the loop, up to the request: it raises the last error *)
(* when no provider is left, and a fatal one for a provider without a key. *)
Try(c, places, last) ==
  \/ places = {} /\ CallOver(c, last)
  \/ places # {} /\ ~HasKey(order[First(places)]) /\ CallOver(c, "fatal")
  \/ /\ places # {} /\ HasKey(order[First(places)])
     /\ progress' = [progress EXCEPT ![c] = "asked"]
     /\ rest' = [rest EXCEPT ![c] = places]
     /\ yielded' = [yielded EXCEPT ![c] = FALSE]
     /\ tried' = [tried EXCEPT ![c] = @ \cup {order[First(places)]}]
     /\ UNCHANGED outcome

(* An error reaches the loop; s is the text it carries. *)
Raised(c, verdict, s) ==
  /\ Heard(Current(c), s)
  /\ \/ /\ verdict # "retriable" \/ Started(c)
        /\ CallOver(c, verdict)
        /\ UNCHANGED limited
     \/ /\ verdict = "retriable" /\ ~Started(c)
        /\ NoteError(Current(c), s)
        /\ Try(c, Remaining(c), verdict)

CallAnswered(c) ==
  /\ CallOver(c, "answer")
  /\ source' = [source EXCEPT ![c] = Current(c)]
  /\ UNCHANGED clocks

Verdict(c, v) ==
  \/ v = "answer" /\ CallAnswered(c)
  \/ v # "answer" /\ Raised(c, v, "") /\ UNCHANGED source

-----------------------------------------------------------------------------
CallBegins(c) ==
  /\ progress[c] = "idle"
  /\ \E o \in Ops : op' = [op EXCEPT ![c] = o]
  /\ warned' = [warned EXCEPT ![c] = {p \in Listed(order) : said429[p] + Cooldown > now}]
  /\ Try(c, UsableProviders, "unconfigured")
  /\ UNCHANGED <<config, now, clocks, source>>

CallRefused(c) ==
  /\ progress[c] = "asked"
  /\ \E s \in Refusals :
       Raised(c, IF RefusalRetriable(Current(c), op[c], s) THEN "retriable" ELSE "fatal", s)
  /\ UNCHANGED <<config, now, op, source, warned>>

(* A timeout or a transport error, while waiting or while reading. *)
Breaks(c) ==
  /\ progress[c] \in NotOver
  /\ Raised(c, "retriable", "")
  /\ UNCHANGED <<config, now, op, source, warned>>

(* complete_with_tools: the whole body at once. *)
AnswersTools(c) ==
  /\ progress[c] = "asked" /\ op[c] = "tools"
  /\ \E b \in Bodies : Verdict(c, BodyVerdict(Current(c), b))
  /\ UNCHANGED <<config, now, op, warned>>

(* An event of a stream.  complete() keeps what it drains to the end, the  *)
(* caller of a stream has it at once.                                      *)
Streamed(c) == op[c] = "stream"

Chunk(c, v) ==
  /\ v \in {"text", "silent"}
  /\ progress' = [progress EXCEPT ![c] = "reading"]
  /\ yielded' = [yielded EXCEPT ![c] = @ \/ v = "text"]
  /\ source' = IF v = "text" /\ Streamed(c) THEN [source EXCEPT ![c] = Current(c)] ELSE source
  /\ UNCHANGED <<clocks, rest, outcome, tried>>

StreamEvent(c) ==
  /\ progress[c] \in NotOver /\ op[c] # "tools"
  /\ \E e \in Events :
       LET v == StreamVerdict(Current(c), e, yielded[c])
       IN Chunk(c, v) \/ (v \notin {"text", "silent"} /\ Verdict(c, v))
  /\ UNCHANGED <<config, now, op, warned>>

(* A barge-in or a client that leaves closes the generator. *)
Cancelled(c) ==
  /\ progress[c] \in NotOver
  /\ CallOver(c, "cancelled")
  /\ UNCHANGED <<config, now, clocks, op, source, warned>>

Tick ==
  /\ now < MaxTime
  /\ now' = now + 1
  /\ UNCHANGED <<config, clocks, llmCallVars>>

RouterNext ==
  \/ Tick
  \/ \E c \in LLMCalls :
       CallBegins(c) \/ CallRefused(c) \/ Breaks(c) \/ AnswersTools(c) \/ StreamEvent(c) \/ Cancelled(c)

(* Whatever a provider sends, a request that goes on ends with a refusal,  *)
(* a body, the end of the stream or a timeout, because a reply is finite.  *)
(* Nothing starts a call or cancels one, and time need not pass.           *)
Ends(c) == CallRefused(c) \/ Breaks(c) \/ AnswersTools(c)
RouterSpec == RouterInit /\ [][RouterNext]_routerVars /\ WF_routerVars(\E c \in LLMCalls : Ends(c))

-----------------------------------------------------------------------------
Outcomes == {"none", "answer", "retriable", "fatal", "escaped", "unconfigured", "cancelled"}

RouterTypeOK ==
  /\ order \in Seq(Providers) /\ keyed \subseteq Providers
  /\ now \in Nat
  /\ limited \in [Providers -> Nat] /\ said429 \in [Providers -> Int]
  /\ op \in [LLMCalls -> Ops]
  /\ progress \in [LLMCalls -> {"idle", "done"} \cup NotOver]
  /\ rest \in [LLMCalls -> SUBSET Nat]
  /\ yielded \in [LLMCalls -> BOOLEAN]
  /\ source \in [LLMCalls -> Providers \cup {Nobody}]
  /\ outcome \in [LLMCalls -> Outcomes]
  /\ tried \in [LLMCalls -> SUBSET Providers] /\ warned \in [LLMCalls -> SUBSET Providers]

(* The windows of the code are those of what the providers said. *)
WindowInv ==
  \A p \in Providers :
    /\ said429[p] + Cooldown <= now => limited[p] <= now
    /\ said429[p] + Cooldown > now => limited[p] = said429[p] + Cooldown

(* Where a call stands: the caller has text of the current provider or of  *)
(* nobody.                                                                 *)
CallInv ==
  \A c \in LLMCalls :
    /\ (outcome[c] = "none") <=> (progress[c] # "done")
    /\ progress[c] = "idle" => source[c] = Nobody
    /\ yielded[c] => progress[c] = "reading"
    /\ progress[c] \in NotOver =>
         /\ rest[c] # {} /\ rest[c] \subseteq DOMAIN order
         /\ source[c] = IF Started(c) THEN Current(c) ELSE Nobody

(* Type correctness, the cool-down windows and the owner of the text, the  *)
(* inductive invariant of the router.                                      *)
RouterInv == RouterTypeOK /\ WindowInv /\ CallInv

(* A provider that said 429 is not asked by a call that begins within the  *)
(* cool-down, unless every provider said it: the repeated attempts that    *)
(* the comment at base.py:162 is about.  A call that had begun before may  *)
(* still ask it.                                                           *)
LimitedLeftAlone ==
  \A c \in LLMCalls : tried[c] \cap warned[c] # {} => Listed(order) \subseteq warned[c]

(* Fallback leaves out nobody else: a call that gave up with a retriable   *)
(* error and no text asked every provider that was not cooling down, and   *)
(* one that asked a provider had asked the ones before it (in an order     *)
(* that names it twice, before its first place).                           *)
NoneSkipped ==
  \A c \in LLMCalls :
    /\ outcome[c] = "retriable" /\ source[c] = Nobody =>
         Listed(order) \ warned[c] \subseteq tried[c]
    /\ \A p \in tried[c] : \E j \in DOMAIN order :
         order[j] = p /\ \A i \in DOMAIN order : i < j => order[i] \in tried[c] \cup warned[c]

(* Which providers a call asks: not those that are cooling down while      *)
(* another is not, and of the others none is left out (base.py:186-196).   *)
RightOnesTried == LimitedLeftAlone /\ NoneSkipped

(* Text of two providers is never mixed, in a stream or in an answer, and  *)
(* nothing follows the end of a call: the router implements Reply.         *)
EndOf(c) ==
  CASE outcome[c] = "none" -> "open" [] outcome[c] = "answer" -> "answer" [] OTHER -> "error"
R == INSTANCE Reply WITH Calls <- LLMCalls, end <- [c \in LLMCalls |-> EndOf(c)]
ImplementsReply == R!Spec

(* Every call ends, whatever the providers do (each is made once, so that  *)
(* in the end none is under way).                                          *)
CallsEnd == <>[](\A c \in LLMCalls : progress[c] \in {"idle", "done"})

=============================================================================
