-------------------------- MODULE ConversationList --------------------------
(***************************************************************************)
(* The conversations of a user as App.jsx keeps them: the list of the      *)
(* sidebar, the open conversation and the messages on the screen, which    *)
(* handlers change that wait for the backend and overlap.                  *)
(*                                                                         *)
(* A handler is a job with the values it closed over when it was called.   *)
(* The backend serves its requests in any order, the answers come back in  *)
(* any order.  A list is a set: the order of the backend, by the last      *)
(* message, is any order.  Messages are the conversation they belong to.   *)
(* Chats bounds the conversations that are ever created.                   *)
(***************************************************************************)
EXTENDS Naturals, FiniteSets

CONSTANTS
  Chats,       \* the ids of conversations
  NoChat,      \* the placeholder id of a page that just loaded
  Handlers     \* the calls of handlers that may be waiting at a time

VARIABLES
  saves,          \* is the backend configured to keep conversations?
  patient,        \* does the user let each click take effect before the next one?
  inDb, created,  \* the conversations in the database, and all that ever were
  conversations,  \* the list of the store
  active,         \* activeConversationId, and ids.current
  shown,          \* the conversation whose messages are on the screen
  ready,          \* conversationReady
  job             \* job[h]: what handler h is waiting for

settings == <<saves, patient>>
database == <<inDb, created>>
page == <<conversations, active, shown, ready>>
listVars == <<settings, database, page, job>>

Idle == [kind |-> "none"]

(* A handler that has sent its first request, and those of its values that *)
(* it will read: the list (New, Delete), whether chat is open (Delete).    *)
Closure(kind, request, chat, list, open) ==
  [kind |-> kind, request |-> request, chat |-> chat, list |-> list, open |-> open,
   answer |-> "none", got |-> {}]
Call(kind, request, chat) == Closure(kind, request, chat, {}, FALSE)

(* On login the effect of App.jsx asks for the list; it is the first       *)
(* handler that is called.                                                 *)
Loader == CHOOSE h \in Handlers : TRUE
ListInit ==
  /\ saves \in BOOLEAN /\ patient \in BOOLEAN
  /\ inDb \in (IF saves THEN SUBSET Chats ELSE {{}}) /\ created = inDb
  /\ conversations = {} /\ active = NoChat /\ shown = NoChat /\ ready = FALSE
  /\ job = [h \in Handlers |-> IF h = Loader THEN Call("load", "list", NoChat) ELSE Idle]

-----------------------------------------------------------------------------
(* The backend.  It answers 503 only where it keeps no conversations; one  *)
(* of a proxy in front of it is left out.                                  *)

Answer(h, how, got) == job' = [job EXCEPT ![h].answer = how, ![h].got = got]

Serve(h) ==
  /\ job[h] # Idle /\ job[h].answer = "none"
  /\ \/ job[h].request = "list" /\ Answer(h, "ok", inDb) /\ UNCHANGED database
     \/ job[h].request = "messages" /\ UNCHANGED database
        /\ Answer(h, IF job[h].chat \in inDb THEN "ok" ELSE "failed", {})
     \/ /\ job[h].request = "create" /\ saves
        /\ \E c \in Chats \ created :
             /\ inDb' = inDb \cup {c} /\ created' = created \cup {c}
             /\ Answer(h, "ok", {c})
     \/ job[h].request = "create" /\ ~saves /\ Answer(h, "503", {}) /\ UNCHANGED database
     \/ /\ job[h].request = "delete"
        /\ inDb' = inDb \ {job[h].chat}
        /\ \E how \in {"ok", "failed"} :
             (job[h].chat \notin inDb => how = "failed") /\ Answer(h, how, {})
        /\ UNCHANGED created
     \/ Answer(h, "failed", {}) /\ UNCHANGED database
  /\ UNCHANGED <<settings, page>>

-----------------------------------------------------------------------------
(* What handlers do with an answer *)

Comes(h, kind, request) == job[h] # Idle /\ job[h].kind = kind /\ job[h].request = request
Ends(h) == job' = [job EXCEPT ![h] = Idle]
Asks(h, request, chat) ==
  job' = [job EXCEPT ![h] = Call(job[h].kind, request, chat)]

(* activateConversation, then a request for the messages.                  *)
Opens(h, chats) ==
  \E c \in chats : active' = c /\ Asks(h, "messages", c)

(* A conversation that was just created is empty.                          *)
OpensEmpty(h, list) ==
  /\ conversations' = job[h].got \cup list
  /\ active' \in job[h].got /\ shown' = active'
  /\ Ends(h)

LoadFailsOpen(h) == Ends(h) /\ ready' = TRUE /\ UNCHANGED <<conversations, active, shown>>
LoadFails(h) == Ends(h) /\ UNCHANGED page

(* An answer of 503 to any of the three requests is read as "keeps none".  *)
LoadGoesOn(h) ==
  \/ /\ Comes(h, "load", "list") /\ job[h].answer = "ok"
     /\ \/ job[h].got = {} /\ Asks(h, "create", NoChat) /\ UNCHANGED <<conversations, active>>
        \/ job[h].got # {} /\ conversations' = job[h].got /\ Opens(h, job[h].got)
     /\ UNCHANGED <<shown, ready>>
  \/ Comes(h, "load", "create") /\ job[h].answer = "ok" /\ OpensEmpty(h, {}) /\ ready' = TRUE
  \/ /\ Comes(h, "load", "messages") /\ job[h].answer = "ok"
     /\ shown' = job[h].chat /\ ready' = TRUE /\ Ends(h)
     /\ UNCHANGED <<conversations, active>>
  \/ /\ job[h] # Idle /\ job[h].kind = "load" /\ job[h].answer = "503"
     /\ ready' = TRUE /\ Ends(h)
     /\ UNCHANGED <<conversations, active, shown>>
  \/ job[h] # Idle /\ job[h].kind = "load" /\ job[h].answer = "failed" /\ LoadFails(h)

(* The messages of a conversation that was opened by a click, or none.     *)
ShowsOld(h) == shown' = IF job[h].answer = "ok" THEN job[h].chat ELSE shown
Shows(h) == shown' = IF job[h].answer = "ok" THEN job[h].chat ELSE NoChat

MessagesCome(h) ==
  /\ \E kind \in {"switch", "delete"} : Comes(h, kind, "messages")
  /\ job[h].answer # "none"
  /\ Shows(h) /\ Ends(h)
  /\ UNCHANGED <<conversations, active, ready>>

NewGoesOn(h) ==
  /\ Comes(h, "new", "create") /\ job[h].answer # "none"
  /\ IF job[h].answer = "ok" THEN OpensEmpty(h, job[h].list)
                             ELSE Ends(h) /\ UNCHANGED <<conversations, active, shown>>
  /\ UNCHANGED ready

(* The list and the open conversation are those of the time of the click.  *)
DeleteGoesOn(h) ==
  /\ UNCHANGED ready
  /\ \/ /\ Comes(h, "delete", "delete") /\ job[h].answer = "ok"
        /\ conversations' = job[h].list \ {job[h].chat}
        /\ \/ ~job[h].open /\ Ends(h) /\ UNCHANGED active
           \/ job[h].open /\ conversations' # {} /\ Opens(h, conversations')
           \/ /\ job[h].open /\ conversations' = {}
              /\ Asks(h, "create", NoChat) /\ UNCHANGED active
        /\ UNCHANGED shown
     \/ Comes(h, "delete", "create") /\ job[h].answer = "ok" /\ OpensEmpty(h, {})
     \/ /\ Comes(h, "delete", "delete") \/ Comes(h, "delete", "create")
        /\ job[h].answer \in {"failed", "503"} /\ Ends(h)
        /\ UNCHANGED <<conversations, active, shown>>

RefreshGoesOn(h) ==
  /\ Comes(h, "refresh", "list") /\ job[h].answer # "none"
  /\ conversations' = IF job[h].answer = "ok" THEN job[h].got ELSE conversations
  /\ Ends(h)
  /\ UNCHANGED <<active, shown, ready>>

GoesOn(h) ==
  /\ LoadGoesOn(h) \/ MessagesCome(h) \/ NewGoesOn(h) \/ DeleteGoesOn(h) \/ RefreshGoesOn(h)
  /\ UNCHANGED <<settings, database>>

-----------------------------------------------------------------------------
(* The clicks.  Opening the sidebar refreshes the list and nobody waits    *)
(* for that.                                                               *)

AllTookEffect == \A h \in Handlers : job[h] = Idle \/ job[h].kind = "refresh"
Starts(h, call) ==
  /\ job[h] = Idle
  /\ job' = [job EXCEPT ![h] = call]
  /\ UNCHANGED <<settings, database, conversations, shown, ready>>

Switch(h) ==
  \E c \in conversations \ {active} : active' = c /\ Starts(h, Call("switch", "messages", c))
New(h) == Starts(h, Closure("new", "create", NoChat, conversations, FALSE)) /\ UNCHANGED active
Delete(h) ==
  \E c \in conversations :
    Starts(h, Closure("delete", "delete", c, conversations, c = active)) /\ UNCHANGED active
Refresh(h) == Starts(h, Call("refresh", "list", NoChat)) /\ UNCHANGED active

Clicks(h) == (patient => AllTookEffect) /\ (Switch(h) \/ New(h) \/ Delete(h))

ListNext == \E h \in Handlers : Serve(h) \/ GoesOn(h) \/ Clicks(h) \/ Refresh(h)

ListSpec == ListInit /\ [][ListNext]_listVars

-----------------------------------------------------------------------------
(* The composer is enabled only when a message would go to a conversation  *)
(* that the backend has created (it may have been deleted since), or to a  *)
(* backend that keeps none: "a message sent in the split-second before"    *)
(* would be a 404 (App.jsx:44-48, 157-161).                                *)
SentToACreatedChat == ready /\ saves => active \in created

(* If the user lets each click take effect before the next one, the        *)
(* messages on the screen are those of the open conversation, or none,     *)
(* whatever fails and whatever refreshes of the list come late             *)
(* (App.jsx:167-234).                                                      *)
ShowsTheOpenChat == patient /\ AllTookEffect => shown \in {active, NoChat}
=============================================================================
