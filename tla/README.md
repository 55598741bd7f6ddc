# SARVAM in TLA+

A verification project for the SARVAM voice agent: TLA+ models of the parts of the
program whose correctness depends on the order in which things happen, the TLC
configurations that check them, and proofs checked by TLAPS. Paths below are relative
to the repository; `agent_core` is `backend/agent_core`.

## 1. The system

SARVAM is a voice-first multilingual assistant for Indian languages. Three processes
carry the program's own logic:

* the **speech gateway** (`agent_core/speech_gateway`): WebSocket endpoints `/ws/stt`,
  `/ws/tts` and `/ws/converse` between the client, the speech services and the backend;
* the **backend** (`agent_core/api`, `supervisor`, `agents`, `llm_adapter`,
  `persistence`, `security`): `/chat` and `/chat/stream`, the LangGraph conversation
  graph, the reasoning loop of the task agent, the LLM router, the confirmation gate, the
  rate limiter, the chat history in Postgres;
* the **frontend** (`frontend/src`): a React client with a hook that runs the
  half-duplex voice session, and the conversation list.

All Python is asyncio: one event loop per process, a task runs from one `await` to the
next without interruption. The frontend is JavaScript: one callback at a time. So the
grain of every model is *one action per stretch between two awaits* (or per callback),
and what goes wrong goes wrong between two of them.

### Inventory

| Component | State it keeps | Operations | What is hard | What makes it correct |
|---|---|---|---|---|
| speech-to-speech session, `speech_gateway/main.py` 476-742, `duplex_session.py` | phase, the registered turn/think/speak tasks, event queue, pending confirmation token | STT event, barge-in, start of a turn, think, speak, disconnect, close | cancellation that lands anywhere in a turn; a phase flip that must be atomic with the registration of a task; a client that leaves | one turn at a time, silence after a barge-in, every turn announced once, no work left behind a close, the token of the answer adopted last and no older one |
| streaming STT, `speech_gateway/main.py` 195-304, `failure_policy.py`, `speech/sarvam_stt.py` | the client's audio generator, the last 64 frames, backoff, pump and receiver of a socket | retry after a pause, REST fallback, last wait for a final | a retry on a source that its predecessor may have killed; two receivers on one socket | no frame is transcribed twice by streams, the fallback has the latest audio, the connection ends |
| streaming TTS, `speech_gateway/main.py` 307-473, `failure_policy.py`, `speech/sarvam_tts.py`, `azure_tts.py` | the client's text generator, the chunks sent, counts of flushes and finals | replay, second attempt, text-only signal | a final that answers an earlier flush; a second attempt after part of the text was taken | what was taken of a reply is spoken from its first chunk and not cut off, or its loss is told |
| rate limiter, `security/rate_limit.py` | hits of a key, in memory or in Redis | allow | check and insertion in two round trips | exact in memory, over the limit by at most the overlapping calls over Redis |
| conversation graph and `/chat`, `supervisor/graph.py`, `api/main.py` 193-370, `backend_client.py` | checkpointed channels per thread | detect language, clarify or run the task agent; ask again | calls that overlap on one thread, channels left from an earlier turn, lost answers | only answers are remembered and recorded; a turn is lost or doubled for known causes only |
| task agent's loop, `agents/task_agent.py` 852-1144 | per turn: budget, batch, draft; shared: the gate | ask the model, call a tool, confirm, cancel, review, correct | batches and budget, turns that overlap with one token, cancellation in a batch | a write-scope tool runs once per confirmation, the budget holds, the turn returns |
| streaming chat, `api/main.py` 116-190 and 377-542, `task_agent.py` 575-849 | histories and locks per thread, an LRU of threads, Redis | open, wait for the lock, recall, stream, correct, save, record | clients that leave, processes that restart, eviction of locks, failures in mid-stream | turns of a thread do not overlap, no turn is lost from a history, a turn reported as an error is not remembered |
| LLM router and providers, `llm_adapter/base.py`, `llm_adapter/providers` | cool-down per provider | complete, complete with tools, stream | fallback before and after the first chunk, cool-downs that other calls change | the right providers are asked, text of two is never mixed, every call ends |
| confirmation gate, `security/confirmation.py` | pending tokens in a dictionary or in Redis | issue, consume, expire | two round trips over Redis; replicas; restarts | a token authorises its own action, once |
| chat persistence, `persistence/chat_store.py` | two tables | create, delete, record a turn with retries | lost commit answers, retries, deletions during a recording, crashes | turns are saved whole and once, deleted conversations stay gone |
| voice session, `frontend/src/hooks/useVoiceSession.js` | refs to microphone, sockets, timers, fetch and speak session; the orb | tap, type, mode change, logout, timers, transcripts, stream events | callbacks of older turns, awaits during which the user acts, timers whose id was overwritten | the orb tells the truth and comes back, nothing listens for ever, nothing is asked twice |
| conversation list, `frontend/src/App.jsx` | list, active conversation, messages | load, refresh, switch, new, delete | answers that arrive after a newer click | the composer sends to a chat that exists, the screen shows the open one |
| language detection, prompts, tools, RAG, authentication, validation, rendering, observability, deployment | none between calls that others read | | text and formats, not order | left out (section 6) |

How they interact: the frontend speaks to `/chat/stream` and, through the gateway's
`/ws/stt` and `/ws/tts`, to the speech services. `/ws/converse` is the full-duplex
path: it calls `/chat` itself (`backend_client.py`) and carries the confirmation token
from one answer to the next call. `/chat` and `/chat/stream` both run the task agent
(`run_turn`, `stream_turn`), which asks the router for every completion and a
confirmation gate before a write; both record finished turns through `chat_store` in
the background, after the client has its answer. The limiter guards every endpoint.

`PROJECT.json` lists each component with its sources and state of modelling, and, under
`hazards`, what in this code is hard to test, at its line, with the properties aimed at
it.

## 2. Modules

```
 abstract                  component                  proofs               checked in
 TurnTaking   <= implements  Converse                 ConverseProofs       MCSpeech
                             SttSession  \            SpeechProofs         MCSpeech
                             TtsSession   }           (both, through MCGateway)
                             RateLimit   /            LimiterProofs
 ThreadMemory <= implements  ChatGraph                ChatGraphProofs      MCChat, MCChatGraph
                             VoiceSession     \       FrontendProofs       MCChat
                             ConversationList /
 ThreadMemory <= implements  ChatStream               ChatStreamProofs     MCChatStream
 OneShot      <= implements  Confirmation \           BackendProofs        MCBackend, MCConfirmation
    ^- instantiated by ----  TaskTurn      }                               MCBackend
 TurnLog      <= implements  ChatStore    /
 Reply        <= implements  Router                   RouterProofs         MCBackend
```

The modules on the left say what a component promises and nothing of how. A `Proofs`
module extends its components and TLAPS; those of the gateway extend `MCGateway`, whose
properties say which part they are about. An `MC` module gives one component its settings,
or lets one run explore several that share no variable: `part` (in `MCSpeech`, `served`)
says which of them moves, never changes, and the rest stays in its initial state. So that
one module can extend several, the names of `ChatGraph`, `Converse` and `Router` that
others have too carry a prefix (`GraphInit`, `ConverseNext`, `RouterSpec`). Such a run visits the sum of the
components' states and keeps all their properties in one place.

Where components do interact, the interaction is in a module: `TaskTurn` instantiates
`OneShot`, which `Confirmation` implements; `ChatGraph` has the endpoint, the graph and
the gateway's client of it; `VoiceSession`'s `Reset` is what the list does to the hook;
what `Converse` gets from `/chat` are the outcomes that `ChatGraph` produces, and what
`TaskTurn` and `ChatStream` get from a completion those that `Router` produces.

**Converse** (`/ws/converse`). `phase`, `regTurn`, `regThink`, `regSpeak` are the state
of `DuplexSession`; `orch`, `sttPump`, `turn[t]`, `think[t]`, `speak[t]` say where each
asyncio task is suspended; `queue` is `event_queue`. A turn is named after the number of
the final transcript that started it. The orchestrator's actions are the branches of
the loop (`SpeechStart`, `DropEvent`, `BeginNote`, `BeginFinal`/`StartTurn`, ...), the
steps of `_cancel_and_await` (`BargeThink`, `BargeSpeak`, `BargeDone`) and the `finally`
block (`LeaveLoop`, `CloseTurn`, `CloseSocket`). `task.cancel()` is modelled as asyncio
does it: the task is marked (`mustCancel`), the await it is suspended in raises when it
next runs, and the cancellation first reaches the task being awaited. Sends are two
steps, the message and the return of the await, and a send may fail once the client is
gone. What `/chat` answers is a choice among: an answer with or without a confirmation,
a `BackendChatError`, and (`BackendMayMisbehave`) a body that makes the parser raise.
Left out: audio frames as data, the voice's language, metrics, and
`DuplexSession.cancellation_token` and `events`, which the gateway writes and never reads.

**TurnTaking**. A session as its client sees it: turns open one at a time in the order
of the utterances, only an open turn says anything, it shows its text before it speaks,
it closes once, and only a turn that ran to its end is announced complete. The
refinement maps a turn's program counter to `status`, and the wire to `last`.

**SttSession** (`/ws/stt`). `gen` is the async generator `client_audio` and why it is
finished: cancelling a pump that waits in it kills it for good. `held` is `audio_buffer`;
`delay`, `elapsed` and `attempt` are the locals of `stt_stream_with_backoff_then_rest`;
`loop` and `pump` are the two tasks of `SarvamSTTClient.stream` with the
`asyncio.wait` between them (`PumpWins`, `RecvUnwinds`, `RecvAgain`, `FinalTimeout`).
A frame is its number, a transcript the frames it is of. The service may send anything,
close cleanly or break at any time.

**TtsSession** (`/ws/tts`). `gen` and `kept` are `_text_gen` and `_sent_chunks`, `next`
the place of `_replay_then_continue`; `flushed` and `finals` are the two counters that
decide when a synthesis is over; `pump` and `rx` its two tasks. The same state serves the
Azure client, which collects the text first (`Collect`, `AzureAnswers`).

**RateLimit**. One key. The hits are a set of records of the time, the caller and the
number of the call, as members of the sorted set of Redis are unique; of the deque in
memory only which hits are left and how many matters. In memory `allow` is one step; over
Redis it is the four round trips of the code, `Purge`, `Count`, `Add` and `Expire`, and
the clock takes the key away when its time has come.

**ChatGraph** (`/chat`). A call is an utterance and an attempt. The caller is
`call_backend_chat` with its two attempts (`Ask`, `GetReply`, `LoseAnswer`, `Retry`) and
the gateway that interrupts it (`Interrupt`), after which the call runs on in the
backend. The nodes are `Detect`, `Clarify`, `Think`, each of which saves the channels of
*its* call as the thread's checkpoint; `Respond` is what `_chat_impl` does after the
graph, recording included. The checkpoint library is external: it loads the latest
checkpoint when a call starts and saves a call's state as the latest after each node.

**TaskTurn**. `run_turn`: the model's answers are arbitrary batches of calls, drafts or
failures; the gate is `INSTANCE OneShot`. `count` is `tool_call_count`, including the
forced retrieval that is charged to the budget; `cancel[t]` may fire at any time and is
looked at where the code looks.

**Confirmation** and **OneShot**. The gate with its two stores: over the dictionary,
lookup, comparison and deletion are one step; over Redis they are two round trips with
other callers in between. `late[c]` remembers that a call began after its token had been
used. OneShot is the token as the rest of the program relies on it; the gate in memory
implements it, the gate over Redis does not (`confirmation_reuse`).

**ChatStream** and **ThreadMemory**. One request per `/chat/stream` call. `ahead[r]` is
the queue of an `asyncio.Lock`: the requests that were in line before `r`. `table` is
`_stream_history_locks`, `recency` the order of the OrderedDict that evicts, `history`
the dictionary of each process and Redis. The branches of `stream_turn` that decide what
the client is sent are actions (`Speak`, `Leak`, `Violate`, `Correct`, `CallTool`,
`LoseProviders`, `SelfCheck`); text is left out. A client may leave at every await
(`Abort`), a process may restart. ThreadMemory is what a user expects of the history of
either endpoint.

**Router** and **Reply**. `order` and `keyed` are read from the environment at start;
`limited[p]` is `_rate_limited_until`. A call looks at the cool-downs once, when it
begins (`rest[c]`, the places still to try), and then awaits one provider after another,
while other calls set and read the same cool-downs. The three adapters differ in what they
raise: how each classifies a refusal, a body it cannot read, an event in mid-stream or
a break is a table of the module, translated from each adapter's code. Reply says
that a caller gets the text of one provider and one end.

**ChatStore** and **TurnLog**. `record_turn` as a Postgres transaction: its inserts are
invisible to others until `Commit`, a foreign key locks the conversation against
deletion (`Writers`, `Others`), a primary key refuses a second row of the same id
(`IdTaken`). A connection may break before the commit (`Fail`) or between the commit and
its answer (`CommitUnheard`). TurnLog sees the turns a user can read.

**VoiceSession**. Every ref of the hook is a variable holding the number of the input or
turn it points to, so that a stale callback and the current one can be told apart.
A capture is `starting` during `await mic.start()`, and `restarting` when it replaces
one that went dead; a second replacement first asks for the list of devices, with the
capture still live (`seeking`). A turn is `done` after its `done` event and `over` when its
stream has ended; a stream that breaks between the two sets the orb idle once more. Timers are pairs of a kind and an
input, and `timerRef` holds the one that `clearTimeout` can reach. A speak session is
`open`, `finishing` (waiting for the socket to close), `draining` (the socket is closed,
the player still plays) or `over`. `voiceDetected` is the state of the STT socket, since
both are set together. An aborted fetch rejects in a microtask, before any other
callback, so `reset` ends its turn in the same step. Some properties hold only if a
microphone starts before anything else happens; the frozen variable `swift` says whether
it does, so that one run covers both environments. Audio that still arrives after
`finish()` gave up waiting (20 s) is left out.

**ConversationList**. A handler is a job with the values its closure captured
(`Closure`); its requests are served by the backend in any order and answered in any
order (`job[h].answer`), and may fail; while loading, an answer of 503 to any of the three
requests opens the page without history. Messages are the conversation they belong to.
`patient` says whether the user lets a click take effect before the next.

## 3. Runs

A run marked *violation* shows a disagreement between the code and what the repository
says of it; `findings` in `PROJECT.json` quotes both sides. Each property of a passing
run has a mutant in `PROJECT.json`: a plausible bug in the code it is about, which the
run finds.

| Run | Bounds | Checks |
|---|---|---|
| `speech` | `/ws/converse`: 3 STT events of 4 kinds, queue of 1, misbehaving backend; `/ws/stt`: 3 frames, buffer of 2, pauses up to 2 s, 1 event without text per socket; `/ws/tts`: 2 chunks; limiter: 2 callers, 2 per window of 2 s, clock to 3, 3 calls, round trips of at most 1 s; fair | of a session `Inv`, `ListeningIsQuiet`, `TokenFromLastAnswer`, `CloseLeavesNoWork`, `ImplementsTurnTaking`, `DroppedOnlyWhileBusy`, `EveryTurnConcludes`, `SessionEnds`: tasks stay owned, a listening session is quiet, the token sent is that of the answer adopted last, a closed session has nothing thinking or speaking, the session is a TurnTaking, and it ends once its client is gone; of the rest `HeardOnce`, `SpokenWhole`, `LimitKept`, `ConnectionsEnd`: each the conjunction of what its module says of one part, and that no connection stays open for ever but one that waits for a final |
| `stt_retry` (violation) | the same, of `/ws/stt` | `RetryHasAudio`: a stream that breaks while its pump waits for the client kills the source, and the retry has nothing to send |
| `tts_retry` (violation) | the same, of `/ws/tts` | `RetrySpeaksAll`: a first attempt that fails while its pump waits for text kills the source, and the retry leaves out, without a word, what the client types afterwards |
| `chat` | graph: 2 utterances, 3 calls, history of 2, 1 restart, 4 settings (with and without faults; conversation none, own, or another user's); hook: 2 inputs, one of them with a microphone that may be dead, 2 turns, 2 replacements; list: 2 chats, 2 handlers; fair | of the graph `OnlyAnswersKept`, `KeptOnce`, `ImplementsThreadMemory`, `EveryAskEnds`: what a thread remembers and records were answers; a turn is lost only to an overlapping call and doubled only if its answer was lost; without such faults the checkpoint is a ThreadMemory; of the hook `OrbMeansWork`, `OneSocket`, `Leashed`, `AskedOnce`, `OrbReturns`; of the list `SentToACreatedChat`, `ShowsTheOpenChat` |
| `chat_clarify_error` (violation) | the graph, the same | `ErrorIsApology`: a clarifying question after a failed turn carries that turn's error flag |
| `chat_stream` | 3 requests of 1 thread, 2 processes, cap of 1 thread, history of 2, 1 restart, clients leave, with and without Redis | `LineMoves`, `OneTurnAtATime`, `ErrorsLeaveNoTrace`, `RememberedIsRecorded`, `ImplementsThreadMemory` |
| `chat_stream_eviction` (violation) | 4 requests, 2 threads, 1 process, cap of 1 | `OneTurnAtATime`: another thread's turn ends, evicts a lock that is held, and two turns overlap |
| `chat_stream_apology` (violation) | 2 requests of 1 thread, 1 process | `ApologyNotKept`: the providers fail the correction of a reply, and the apology in its place is remembered and recorded as an answer |
| `backend` | gate: 2 tokens, 2 actions, 2 callers, both stores; turns: 2 turns, 3 calls (known, gated, unknown), tokens granted 3 times, budget 2, batches of 2; store: 2 conversations, 2 turns, 3 attempts, 1 crash; router: a provider of each adapter, orders empty or of all three, any keys, 2 calls, cool-down 1, clock to 2; fair | `NoReplay`, `ImplementsOneShot` of the gate; `BudgetKept`, `ConfirmedRuns`, `TurnReturns` of the loop; `WholeTurns`, `ImplementsTurnLog`, `EveryRecordEnds` of the store; `RouterInv`, `RightOnesTried`, `ImplementsReply`, `CallsEnd` of the router |
| `confirmation_reuse` (violation) | 1 token, 2 callers | `SingleUse`: two overlapping calls over Redis are both granted |
| `voice_hot_mic` (violation) | the hook, the same | `IdleMeansMicOff`: a microphone goes live under an idle orb |
| `voice_two_voices` (violation) | the hook, the same | `OneVoice`: a reply starts to sound over chunks of the last one that its player still has |

Why the bounds are enough:

* *speech*, a session: three events allow a turn, a barge-in into it and a next turn, the last of
  which may start while the first is still sending `turn_complete`; or two finals and a
  barge-in. A queue of one already makes an event wait while the orchestrator sends. The
  fourth kind of event the code knows, `error`, comes out of a failing STT stream anyway.
* *speech*, the rest: three frames and a buffer of two make the buffer forget one and leave one in
  the pump's hands when the stream breaks. Pauses are in quarters of a second and have the
  code's own numbers: 0.25, 0.5, 1 and what is left of the 2 s. Two chunks are what an early final could
  cut, and the second what a retry could leave out. Two callers with two hits allowed make
  one of them read an old count; the clock passes the window, and the hit at its edge.
* *chat*, the graph: two utterances with three calls are an overlap of an interrupted call with
  its retry or with the next utterance; a history of two makes the cap drop a turn. More
  than three calls only repeat the overlap on a longer line.
* *chat_stream*: with three requests one holds a lock, one waits, one arrives; two
  processes are what Redis shares. One thread is enough for the line of a thread; what
  eviction does to other threads is the run `chat_stream_eviction`.
* *backend*, the router: one provider per adapter distinguishes every row of the tables of verdicts; a
  second call is what changes a cool-down under the first; the clock reaches the end of a
  cool-down and passes it. An order that names a provider twice is covered by the proof.
* *backend*, the rest: two callers are what a race needs; two tokens and two actions distinguish a
  token of another action from a spent one. A budget of 2 with batches of 2 lets a batch
  run over the budget and a forced retrieval take its share. Three attempts are the
  code's number; two turns and two conversations allow a deletion beside a recording of
  the same and of the other conversation.
* *chat*, the frontend: two inputs are an older and a newer one for every ref, two turns a stale
  stream and a current one (with four turns: 5.5 million states, nothing new). Two
  replacements are the code's number; that only the first input's microphone may be dead
  saves states and no case, since a replaced capture meets an input that comes later. Two chats are the open one and the next; the list
  has also been run with three.

**Fairness** is weak, and one condition per component: as long as something that the
program or its timeouts drive can go on, something of it does. So no property rests on
which of two ready tasks is scheduled. `Converse` (`TasksGoOn`): the event loop runs the
tasks that are ready, `/chat` calls have a timeout and two attempts, a synthesis two
attempts of finite audio. The STT stream is in it only once the client is gone or the pump
is cancelled: nothing makes a user speak or leave. `SttSession`: pump, receiver and policy
run (each await of theirs has a timeout or a peer that is the other task); the service owes
nothing, and the connection still ends because the client's silence is bounded by
`idle_timeout` and the wait for a last final by five seconds. `TtsSession`: pump and
receiver, and *not* the service. Nothing bounds the wait for a final that the service
keeps back on an open socket (`sarvam_tts.py` 263-278), so `ConnectionsEnd` excepts that
case by name. `ChatGraph`: requests have timeouts, the task of the call that is waited for
runs. `Router`: whatever a provider sends, a request that goes on ends, because a reply is
finite and reads have timeouts; nothing starts or cancels a call. `TaskTurn`: every await
of a turn is a call with a timeout. `ChatStore`: background tasks run and the database
answers a statement no other transaction holds up; nothing says a connection breaks or not.
`VoiceSession`: a permission prompt is answered, the grace timer and the ceiling fire, a
stream ends (the backend sends `done` or the connection breaks), `finish()` is bounded by
its timeouts. The silence timer is *not* in it, because noise restarts it. `ChatStream`,
`RateLimit` and `ConversationList` have no fairness; what stands for liveness in the first
is the safety property `LineMoves`.

What ends once and for all is stated in the form `<>[]`: a turn, a session, a connection,
a call of the router, a recording happen once each, so that this is as strong as "whenever
it has begun, it ends" and cheaper to check. What returns is stated as `[]<>`.

**Deadlock** is checked in `speech` (a closed session of `/ws/converse` stutters by an
explicit `Terminated`; the other endpoints may stutter anywhere in that run) and in
`confirmation_reuse`. The others are finite sets of requests, frames or turns that end, so
their runs say `CHECK_DEADLOCK FALSE`; what must not get stuck is their liveness property.

## 4. Theorems

All are proved for every value of the constants, from the named assumptions of the
module that declares them (`ConverseAssumption`, `ConfirmationAssumption`,
`ChatStreamAssumption`, `ChatStoreAssumption`, `VoiceAssumption`, `TaskTurnAssumption`,
`RouterAssumption`, `ChatGraphAssumption`, `GatewayAssumption`), which give the constants
their types. `GatewayAssumption` says more in two places: a buffer holds a frame
(`deque(maxlen=64)`), and `MaxBackoff`, in quarters of a second, is at most 8, the code's
two seconds: with a longer budget there would be more than the four attempts that
`BackoffBounded` states. The list of conversations needs no assumption at all.

* **ConverseProofs.** `Invariant`: the inductive invariant is `Inv` =
  `TypeOK` and six parts. `ListeningIsQuiet` alone is not inductive: that nothing runs
  while LISTENING depends on which turn a barge-in cancels. `OwnerInv` says that the
  turn that owns the session is the one started last and the one DuplexSession would
  cancel, and that a cancellation is waited for where it was asked for; `TaskInv` that
  think and speak tasks run only under a turn that awaits them; `BargeInv` what the
  phase and a barge-in say of that turn; `QueueInv` that transcripts wait in order;
  `WireInv` that speech follows text; `StopInv` the order of the closing steps. From it
  `TypeCorrect`, `Quiet` and `CleanClose`: a session that closed has nothing thinking or
  speaking, and its last turn is over; a turn *before* the last may still be in the send of
  its `turn_complete`, which nobody waits for. `Refinement`: every step is a step of TurnTaking
  or a stutter. `TokenOrder` needs `TokenInv` beside `Inv`: the token kept is that of
  the answer adopted last, and the one in flight; a turn that was cut off or died before its answer leaves
  it, so that the next one sends it again (section 5). `OnlyBusySessionsDrop` is an action property:
  a phase other than LISTENING alone does not say that somebody is at work, since a turn
  that is cut off leaves it as it was. `StageInv` (what has become of the task that a turn
  does not await) and `CutInv` (a turn that was cancelled under a busy phase leaves a
  session that is closing) exclude that case.
* **SpeechProofs.** `EveryFrameIsHeardOnce` of `/ws/stt`, from `SttInv`: the types; which
  combinations of the places of policy, pump and receiver there are; that a pause and the
  time paused before it are one apart or fill the budget, from which the number of
  attempts follows; that the buffer has the latest frames up to the one just taken; and
  the order of frames through the four places they pass: what was transcribed, what is
  on the wire, what the service got, what the pump still has, each before the next.
  `TheReplyIsSpokenWhole` of `/ws/tts`, from `TtsInv`: the chunks kept and those said are
  the beginnings of one text (`SourceInv`); the counters of flushes, requests and finals
  in each phase of an attempt (`PhaseInv`, `FlushInv`), with what is on the wire as an
  alternation of audio and final of one chunk after the other (`InOrder`); and that what
  was heard of an attempt is what had been made of its text, less the wire (`AudioInv`).
  "Whole" is what the gateway took; that it took all the client typed has the two
  exceptions that `SpokenOrTold` names, a client that pauses for longer than the gateway
  waits, and a source that was killed with the first attempt (run `tts_retry`).
  That a final never answers an earlier flush is in the alternation: the state alone, two
  counters, does not say it.
* **LimiterProofs.** `MemoryIsExact`, from `RateInv`: in memory the hits are the calls let
  in that are not too old. `LimitIsKept` adds Redis: the key outlives each hit by the
  margin unless the call that added it has still to say so (`ExpiryInv`), so no hit of the
  window is forgotten, and each call that acts on an old count is one of the callers
  (`CountInv`). Its hypothesis, `MaxDelay <= 1`, is the margin of `expire(key, window + 1)`;
  it is needed: with `MaxDelay = 2` TLC finds `LimitKept` violated.
* **ChatGraphProofs.** `AnswersKept`: a checkpoint or the state of a running call only
  holds turns that answered, each once (`AnswerInv`), and `AskInv` ties what the caller
  got to what was recorded. `NothingLost` follows a turn that ran alone: while it
  runs its channels are the latest checkpoint and nobody else is in the graph, and once
  it has answered every call in the graph holds it, so it survives every later checkpoint
  until it is old (`SafeInv`); it is kept twice only if its
  first answer was lost. `CheckpointIsMemory` is the refinement of ThreadMemory for the
  calm setting, from `CalmInv`: there is then one call at work and its channels are the
  checkpoint's.
* **ChatStreamProofs.** Under `Roomy` (Redis keeps the histories, or there are no more
  threads than the cap, so that nothing is evicted; a real assumption, as
  `chat_stream_eviction` shows): `LockInvariant`, everyone in line for a thread uses the
  lock of the table and one of any two came first; `Serialized`; `MemoryKept`, the
  refinement, which adds that a request that recalled a history finds it unchanged when
  it saves (`Fresh`), and that requests that are over are the ones remembered (`Past`).
  `LinesMove`: with finitely many requests the relation `ahead` is well founded in a line
  (`LineInv`), so that a line that waits has a holder. `NoTraceOfErrors` (a turn that is *reported* as an error; the
  apology of run `chat_stream_apology` is not) and `MemoryIsRecorded` from `TraceInv`, which follows the order of save, `done` event and
  recording through a client's departure.
* **RouterProofs.** `RouterInvariant`: the inductive invariant is `RouterInv` = `TypeOK`,
  `WindowInv` (the cool-downs of the code are those of what the providers said) and
  `CallInv` (where a call stands and whose text its caller has). `RightOnesAreTried`
  (a call asks nobody that was cooling down when it began unless all were, and skips
  nobody else) adds what a call has left behind, for lists that may name a provider
  twice. `RouterImplementsReply`: text of two providers is never mixed.
* **BackendProofs**, the gate. `GateInvariant`, the invariant `GateInv`, and from it `Scoped`
  and `Replay` for both stores; `MemoryIsOneShot`, the refinement, for the gate in memory,
  with what the abstract token cannot say: a refusal spends none.
* **BackendProofs**, the loop. `TurnInvariant`, the invariant `TurnInv`, and from it `BudgetIsKept`
  (the calls of a batch still to run fit what the budget leaves, which is what makes the
  bound inductive across batches) and `RunsAreConfirmed` (what each token was spent on,
  however many turns hold it).
* **BackendProofs**, the store. `StoreInvariant`, with the parts a transaction depends on (the
  conversation of an open transaction exists, its ids are free), and from it `SavedWhole`,
  `NoneLeft` and the refinement `StoreIsTurnLog`.
* **FrontendProofs**, the hook. `OrbIsTrue`, from `OrbInv`; `OneSocketAtATime`, of
  sockets and not of what players still have (run `voice_two_voices`); `VoiceTypes`. `OrbMeansWork` is not inductive: "a timer is running" does not say that
  the timer will still be there after the next callback, because the silence timer of an
  input can be cleared by the voice of another. `OrbInv` therefore names as witness what
  nothing else clears, a microphone that is starting, the ceiling or the grace timer of
  an input (`ListeningEnds`), a turn that was asked and has not begun to speak
  (`Asking`), and adds that only inputs that were started have timers (`Started`) and only
  turns that were asked are spoken (`Unspoken`). `EverythingIsLeashed` and
  `AskedAtMostOnce`, for the swift environment that the two properties name, from
  `LeashInv`, which says which input owns the refs and the timers, and that an input that
  was asked about has none.
* **FrontendProofs**, the list. `ListInvariant`, and from it `SentToACreatedChatAlways`
  and `ShowsTheOpenChatAlways`. What a handler closed over is as old as its click, so the
  invariant speaks of every job: the conversations it holds were created once
  (`ChatsInv`), and the handler that loads the page has opened one before it asks for its
  messages. `ShownInv`: with a patient user one handler is busy at a time, a refresh of
  the list aside; if it fetches messages they are of the open conversation, and if it
  does not, what is shown is already right. It is by handler that the steps are proved:
  each replaces one job (`Becomes`), and two lemmas say what follows when that handler is
  the busy one (`ShownByTheOne`) or shows nothing new (`ShownAsBefore`).

**Only model-checked.** Liveness: `EveryTurnConcludes`, `SessionEnds`, `ConnectionsEnd`,
`EveryAskEnds`, `CallsEnd`, `TurnReturns`, `EveryRecordEnds` and `OrbReturns`, because the
prover has neither fairness nor ENABLED. Every invariant and every action property that a
passing run checks is a theorem, and so is every refinement.

## 5. What the models showed besides the runs

Behaviours found while modelling that are not runs of their own:

* **Speech-to-speech.** A `/chat` body that cannot be parsed kills the turn's task and
  the user hears nothing (`backend_client.py` 112, outside the `try`, against the comment
  at 56-58). Converse has the case (`BackendMayMisbehave`) and recovers at the next
  barge-in. A confirmation token goes out again with the turn after one that was
  interrupted before its answer, or died: `main.py` 521-524 has it forwarded on "the NEXT turn", and
  `backend_client.py` 74-77 calls it "whatever the PREVIOUS turn's token was (or None)";
  the two agree only if every turn adopts an answer. `TokenFromLastAnswer` says what the
  code keeps: never an older token than the last answer's.
* **The loop.** The cancellation token is looked at after a batch, not after each call
  of it: the rest of a batch runs after a cancellation (`task_agent.py` 1037, against
  879-881). When the review of a corrected draft raises, the corrected draft is returned
  with the verdict on the first one (1112, against the comment at 1114).
* **Streaming chat.** When a
  provider fails after the first sentence, the sentence has been spoken and the turn then
  ends as failed (714). Locks of threads whose turns all fail, and all locks when Redis is
  used, are never removed.
* **Chat history.** Both rows of a turn carry the transaction's time, so that question
  and answer are not ordered by `created_at` (`chat_store.py` 262, `docs/supabase_schema.sql`
  20, against `tests/test_chat_store.py` 210). If the answer of a commit is lost, the
  retries fail on the primary key and a saved turn is logged as not persisted
  (`chat_store.py` 239-247). `updated_at` may go back when a transaction waited for another
  (179).
* **`/chat` without a lock.** Two calls that overlap on one thread start from the same
  checkpoint, and the later save drops the other's turn; an interruption by voice is
  enough. `KeptOnce` says that this is the only way to lose one. Channels of the last turn
  stay set in the next: besides `error` (run `chat_clarify_error`), `pending_confirmation`
  of the thread goes out again with a clarifying question.
* **Router.** A stream event or a body that is no JSON raises what no adapter translates,
  so that the chain of providers stops there (`openai_compatible.py` 100 and 225, against
  the comment at 259-268, which calls such an exception a gap in the adapter layer). A
  provider without a key raises a failure that is not retriable: the providers after it are
  not asked.
* **Streaming STT.** The REST fallback hears only the 64 latest frames, about two seconds,
  and may transcribe again what a stream has transcribed. A socket that the service closes
  cleanly in the middle of an utterance ends the session.
* **Streaming TTS.** A service that keeps its socket open and a final back keeps the
  connection, and with it the client's, for ever: the receive timeout starts anew as long as
  a final is missing (`sarvam_tts.py` 263-278). `ConnectionsEnd` excepts it.
* **Rate limiter.** A call over Redis that takes longer than the one-second margin of the
  key's expiry may lose the hits of others with the key; `BoundedOvershoot` assumes
  `MaxDelay` within the margin.
* **Conversation list.** After a quick second click the messages of the first
  conversation may arrive last and stay on the screen of the second (`App.jsx` 179); the
  property is therefore about a patient user. Creating or deleting a conversation does not
  reset the voice, so that the old reply's audio goes on over the new chat (`App.jsx`
  188-231, against 170-175 and `useVoiceSession.js` 326-329). The delete handler works on
  the list it closed over and can put a conversation that was created meanwhile out of the
  sidebar.
* **A dead button.** After a tap-tap during the permission prompt the microphone is live,
  its ref is set and `startListening` returns at its guard: the orb does nothing until a
  reset. It is the same race as `voice_hot_mic`.
* A stream body that ends without a `done` event would leave the turn open
  (`chatClient.js` 74), but this backend never ends one so without breaking the
  connection.

## 6. Not modelled

* **Functions of text**: language heuristics, prompts, output validation, PII, chunking
  of sentences, the wire formats of the three providers. They decide *what* is said; the
  models choose among their outcomes.
* **Tools and retrieval**: reads of a vector store and of web APIs without state of their
  own. TaskTurn has calls and their outcomes.
* **Authentication**: verification of a signed token; a cached key set is its only state.
* **Audio as data**, thresholds of levels, the reconnecting of the client's STT socket and
  the saving of a reply's audio; validation of single frames.
* **Rendering, metrics, spans, deployment, load tests**: nothing reads them back.
* Of the conversation list, a second login without a reload of the page, and the logout on
  a 401. Of the STT endpoint, the batch API that nothing calls.

## 7. Plan

What could be added, in order:

1. **Gateway and backend composed**: Converse with ChatGraph behind it, so that a
   barge-in cancels the request and not the turn, and a confirmation asked in a turn that
   was interrupted is followed to its token. Each is checked alone now, against the
   other's outcomes.
2. **More proofs**: the safety halves of the liveness properties, for instance that a
   turn of TaskTurn has a bound on what it can still do, or that a connection that stays
   open has a task that can run; and what the violated properties keep when their cause
   is excluded, for instance `IdleMeansMicOff` for the swift environment.
3. **The client's STT socket**: its reconnecting, which VoiceSession has as one
   replacement of a microphone.
4. **A second login** in ConversationList, with answers to the first user's requests that
   come after it.

Runs stay one per question; a violation is a run only where the repository's own words
are contradicted.
