------------------------------ MODULE ChatStore ------------------------------
(***************************************************************************)
(* persistence/chat_store.py over its Postgres tables: conversations are   *)
(* created and deleted while record_turn saves answered turns, each in a   *)
(* transaction of its own, with up to three attempts.                      *)
(*                                                                         *)
(* Of Postgres the model keeps what the code leans on: now() is the time   *)
(* the transaction began, rows appear at the commit, a message needs its   *)
(* conversation, a deletion takes the messages along and waits for the     *)
(* transactions that wrote to the conversation, two transactions do not    *)
(* update one conversation at a time, and a connection may break before or *)
(* after the commit took effect.  One user owns all conversations: every   *)
(* query is scoped by user_id.                                             *)
(***************************************************************************)
EXTENDS Naturals, FiniteSets

CONSTANTS
  Conversations,
  Answered,       \* the turns that are answered, each with its assistant_message_id
  MaxAttempts,    \* _RECORD_TURN_MAX_ATTEMPTS
  MaxDeaths       \* bound: how often the process dies

None == "none"

ASSUME ChatStoreAssumption ==
  /\ MaxAttempts \in Nat \ {0} /\ MaxDeaths \in Nat
  /\ None \notin Conversations

VARIABLES
  existing,   \* the rows of table conversations
  deleted,    \* the conversations that were deleted: ids are never drawn again
  rows,       \* the rows of table messages: who said what when, as below
  task,       \* task[t]: where record_turn of t is
  conv,       \* conv[t]: its conversation
  attempt,    \* attempt[t]: attempts so far
  deaths      \* how often the process died

storeVars == <<existing, deleted, rows, task, conv, attempt, deaths>>

callVars == <<task, conv, attempt>>
tableVars == <<existing, deleted, rows>>

StoreInit ==
  /\ existing = {}
  /\ deleted = {}
  /\ rows = {}
  /\ task = [t \in Answered |-> "new"]
  /\ conv = [t \in Answered |-> None]
  /\ attempt = [t \in Answered |-> 0]
  /\ deaths = 0

Go(t, from, to) == task[t] = from /\ task' = [task EXCEPT ![t] = to]

(* The message rows a turn writes.  The user's message gets a new id in    *)
(* every attempt, the assistant's always the one the client was given.     *)
(* created_at is now(), the time the transaction of the attempt began.     *)
UserRow(t) == [role |-> "user", turn |-> t, id |-> attempt[t], conv |-> conv[t], at |-> attempt[t]]
AssistantRow(t) == [role |-> "assistant", turn |-> t, id |-> 0, conv |-> conv[t], at |-> attempt[t]]

-----------------------------------------------------------------------------
(* Conversations *)

CreateConversation(c) ==
  /\ c \notin existing \cup deleted
  /\ existing' = existing \cup {c}
  /\ UNCHANGED <<deleted, rows, callVars, deaths>>

(* The transactions that wrote to conversation c and have not ended.       *)
Writers(c) == {t \in Answered : conv[t] = c /\ task[t] \in {"asked", "both"}}

AllRows(c) == rows
Others(c) == {m \in rows : m.conv # c}

(* The foreign key deletes the messages with the conversation.             *)
DeleteConversation(c) ==
  /\ c \in existing
  /\ Writers(c) = {}
  /\ existing' = existing \ {c}
  /\ deleted' = deleted \cup {c}
  /\ rows' = Others(c)
  /\ UNCHANGED <<callVars, deaths>>

-----------------------------------------------------------------------------
(* record_turn *)

(* A chat endpoint found the conversation, answered, and starts            *)
(* record_turn in the background.                                          *)
Answer(t, c) ==
  /\ c \in existing
  /\ Go(t, "new", "trying")
  /\ conv' = [conv EXCEPT ![t] = c]
  /\ UNCHANGED <<tableVars, attempt, deaths>>

BeginAttempt(t) ==
  /\ Go(t, "trying", "begun")
  /\ attempt' = [attempt EXCEPT ![t] = @ + 1]
  /\ UNCHANGED <<tableVars, conv, deaths>>

(* The user's message and updated_at: the update waits for another         *)
(* transaction that updated the conversation.                              *)
InsertUser(t) ==
  /\ conv[t] \in existing
  /\ Writers(conv[t]) = {}
  /\ Go(t, "begun", "asked")
  /\ UNCHANGED <<tableVars, conv, attempt, deaths>>

AnyId(t) == FALSE

(* The assistant's message has a primary key chosen by the endpoint.       *)
IdTaken(t) == \E m \in rows : m.role = "assistant" /\ m.turn = t

InsertAssistant(t) ==
  /\ ~IdTaken(t)
  /\ Go(t, "asked", "both")
  /\ UNCHANGED <<tableVars, conv, attempt, deaths>>

Written(t) == {UserRow(t), AssistantRow(t)}

Apply(t) == rows' = rows \cup Written(t)

Commit(t) ==
  /\ Go(t, "both", "saved")
  /\ Apply(t)
  /\ UNCHANGED <<existing, deleted, conv, attempt, deaths>>

RetryUncounted(t) == task' = [task EXCEPT ![t] = "begun"]

(* An attempt fails: the next one follows, or the failure is logged.       *)
GiveUp(t) ==
  task' = [task EXCEPT ![t] = IF attempt[t] < MaxAttempts THEN "trying" ELSE "logged"]

(* The connection breaks before the commit, the conversation is gone, or   *)
(* the id is taken: everything of the attempt is rolled back.              *)
Fail(t) ==
  /\ task[t] \in {"begun", "asked", "both"}
  /\ GiveUp(t)
  /\ UNCHANGED <<tableVars, conv, attempt, deaths>>

(* The commit takes effect and the connection breaks before the answer.    *)
CommitUnheard(t) ==
  /\ task[t] = "both"
  /\ Apply(t)
  /\ GiveUp(t)
  /\ UNCHANGED <<existing, deleted, conv, attempt, deaths>>

(* The process dies: what it was recording is lost ("accepted remaining    *)
(* risk"), open transactions are rolled back.                              *)
Die ==
  /\ deaths < MaxDeaths
  /\ deaths' = deaths + 1
  /\ task' = [t \in Answered |-> IF task[t] \in {"trying", "begun", "asked", "both"} THEN "died" ELSE task[t]]
  /\ UNCHANGED <<tableVars, conv, attempt>>

Attempt(t) ==
  BeginAttempt(t) \/ InsertUser(t) \/ InsertAssistant(t) \/ Commit(t) \/ Fail(t) \/ CommitUnheard(t)

StoreNext ==
  \/ \E c \in Conversations : CreateConversation(c) \/ DeleteConversation(c)
  \/ \E t \in Answered : Attempt(t) \/ \E c \in Conversations : Answer(t, c)
  \/ Die

StoreSpec == StoreInit /\ [][StoreNext]_storeVars

(* What the database answers without a connection breaking. *)
Refused(t) ==
  \/ task[t] = "begun" /\ conv[t] \notin existing
  \/ task[t] = "asked" /\ IdTaken(t)

Advance(t) ==
  BeginAttempt(t) \/ InsertUser(t) \/ InsertAssistant(t) \/ Commit(t) \/ (Refused(t) /\ Fail(t))

(* The event loop gets to the background tasks, and the database answers   *)
(* every statement that no other transaction holds up.                     *)
StoreFairSpec == StoreSpec /\ \A t \in Answered : WF_storeVars(Advance(t))

-----------------------------------------------------------------------------
(* Properties *)

Messages == [role : {"user", "assistant"}, turn : Answered, id : Nat, conv : Conversations, at : Nat]

StoreTypeOK ==
  /\ existing \subseteq Conversations /\ deleted \subseteq Conversations
  /\ rows \subseteq Messages
  /\ task \in [Answered -> {"new", "trying", "begun", "asked", "both", "saved", "logged", "died"}]
  /\ conv \in [Answered -> Conversations \cup {None}]
  /\ attempt \in [Answered -> Nat]
  /\ deaths \in Nat

(* "never a half-saved turn -- the user message without its reply, or vice *)
(* versa", and never saved twice by the retries (chat_store.py:219-226):   *)
(* each side of a turn is there at most once, and both or neither.         *)
WholeTurns ==
  \A m \in rows :
    /\ \E n \in rows : n.turn = m.turn /\ n.role # m.role /\ n.conv = m.conv
    /\ \A n \in rows : n.turn = m.turn /\ n.role = m.role => n = m

(* The messages of a conversation go with it, and a turn that is recorded  *)
(* late does not bring them back (chat_store.py:75-92).                    *)
NoOrphans == \A m \in rows : m.conv \in existing

(* What a user sees is a TurnLog: turns are saved whole and once, and      *)
(* deleted conversations stay empty.                                       *)
SavedTurns == [c \in Conversations |-> {t \in Answered : \E m \in rows : m.conv = c /\ m.turn = t}]

TL == INSTANCE TurnLog WITH Turns <- Answered, open <- existing, log <- SavedTurns

ImplementsTurnLog == TL!Spec

(* Every turn that is being recorded is saved or its loss is logged, with  *)
(* retries and waits between transactions (chat_store.py:233-247); each    *)
(* turn is answered once, so that in the end no recording is under way.    *)
EveryRecordEnds == <>[](\A t \in Answered : task[t] \in {"new", "saved", "logged", "died"})

(* The invariant behind the theorems of BackendProofs.                     *)
StoreInv ==
  /\ StoreTypeOK
  /\ WholeTurns
  /\ NoOrphans
  /\ existing \cap deleted = {}
  /\ \A t \in Answered :
       /\ task[t] = "new" => \A m \in rows : m.turn # t
       /\ task[t] \notin {"new"} => conv[t] \in Conversations
       /\ task[t] \in {"asked", "both"} => conv[t] \in existing
       /\ task[t] = "both" => ~IdTaken(t)
  /\ \A t, u \in Answered : t # u /\ t \in Writers(conv[u]) /\ u \in Writers(conv[t]) => FALSE
=============================================================================
