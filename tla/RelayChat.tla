-------------------------------- MODULE RelayChat --------------------------------
(***************************************************************************)
(* A message of the web chat on its way to an agent and back: the chat     *)
(* plugin stores it and hands it to the agent relay, the relay accepts it, *)
(* calls the agent and reports by events, and the event bus delivers each  *)
(* event in a goroutine of its own, so in any order or never.  A task is a *)
(* message a user sends; its end is the last event the relay reports.      *)
(***************************************************************************)
EXTENDS Integers, FiniteSets

CONSTANTS
  Conversation,     \* identities of conversations; each is created once
  NoConversation,
  Task,             \* messages of users, by task group
  Editor,           \* requests that rename a conversation or post into it
  MaxRetries,       \* calls of an agent after the first
  MaxChunks,        \* bound on the pieces of an answer that are streamed
  MaxExtras         \* bound on what happens beside messages: requests that edit
                    \* or delete, reports of other plugins' tasks, lost events
                    \* and answers, stops of the relay and the chat

ASSUME RelayChatAssumption ==
  /\ NoConversation \notin Conversation
  /\ {MaxRetries, MaxChunks, MaxExtras} \subseteq Nat

VARIABLES
  conv,      \* the table of conversations
  stored,    \* number of messages that a task left in its conversation
  posted,    \* conversations that hold messages of the tool
  marker,    \* conversations that show a progress message
  chat,      \* the chat's handler of a message
  editor,    \* the chat's handlers of other requests
  deleting,  \* conversations whose messages are deleted, and they not yet
  relay,     \* the relay's goroutine of a task
  session,   \* the conversation of the last task the relay accepted
  progress,  \* events under way that say a task goes on
  foreign,   \* such events of other plugins' tasks
  ends,      \* ends under way, or being handled
  over,      \* tasks whose end will not clear the progress message any more
  stray,     \* conversations whose progress message no end will clear
  unheard,   \* tasks accepted while the chat was told otherwise
  lost,      \* tasks whose end is lost
  raced,     \* conversations used or left halfway while they were deleted
  extras     \* see MaxExtras

rows == <<conv, stored, posted, marker>>
events == <<progress, foreign, ends>>
ghosts == <<over, stray, unheard, lost, raced>>
vars == <<rows, chat, editor, deleting, relay, session, events, ghosts, extras>>

State == {"none", "live", "deleted"}

\* What is stored of a task: the message of the user; the answer of the agent,
\* with its text or without the text that was streamed; the report of a failure.
Answer == {"reply", "empty"}
Kind == {"user", "error"} \cup Answer

NoMessage == [pc |-> "none", conv |-> NoConversation]
NoEdit == [pc |-> "idle", conv |-> NoConversation]
At(pc) == [pc |-> pc, attempt |-> 0, chunks |-> 0]

Init ==
  /\ conv = [c \in Conversation |-> "none"]
  /\ stored = [t \in Task |-> [k \in Kind |-> 0]]
  /\ posted = {}
  /\ marker = {}
  /\ chat = [t \in Task |-> NoMessage]
  /\ editor = [e \in Editor |-> NoEdit]
  /\ deleting = {}
  /\ relay = [t \in Task |-> At("none")]
  /\ session = NoConversation
  /\ progress = [t \in Task |-> 0]
  /\ foreign = [c \in Conversation |-> 0]
  /\ ends = {}
  /\ over = {}
  /\ stray = {}
  /\ unheard = {}
  /\ lost = {}
  /\ raced = {}
  /\ extras = 0

Extra == extras < MaxExtras /\ extras' = extras + 1

Live(c) == conv[c] = "live"
Deleted == {c \in Conversation : conv[c] = "deleted"}
Of(c) == {t \in Task : chat[t].conv = c}
Sending(t) == chat[t].pc \notin {"none", "done"}
Active(t) == relay[t].pc \notin {"none", "done"}
Ending(t) == \E e \in ends : e.task = t
Editing(c) == \E e \in Editor : editor[e].pc # "idle" /\ editor[e].conv = c

\* Nothing is under way that concerns the messages of a conversation.
Idle(c) == ~Editing(c) /\ \A t \in Of(c) : ~Sending(t) /\ ~Active(t) /\ ~Ending(t)

(***************************************************************************)
(* The tables of the chat.                                                 *)
(***************************************************************************)
\* A copy of the row is written whole, and inserted anew where it was deleted.
SaveConversation(c) == conv' = [conv EXCEPT ![c] = "live"]

Store(t, k) == stored' = [stored EXCEPT ![t][k] = @ + 1]
UpsertProgressMessage(c) == marker' = marker \cup {c}
DeleteProgressMessages(c) == marker' = marker \ {c}

CreateConversation(c) ==
  /\ conv[c] = "none"
  /\ conv' = [conv EXCEPT ![c] = "live"]
  /\ UNCHANGED <<stored, posted, marker, chat, editor, deleting, relay, session,
                 events, ghosts, extras>>

(***************************************************************************)
(* The chat's handler of a message.                                        *)
(***************************************************************************)
\* GetConversation.  Whoever starts while the conversation is being deleted
\* overlaps the deletion.
Find(c) ==
  /\ Live(c)
  /\ raced' = raced \cup ({c} \cap deleting)

\* Mutant: a conversation is not looked up.
SendMessageUnchecked(t, c) ==
  /\ chat[t].pc = "none"
  /\ conv[c] # "none"
  /\ chat' = [chat EXCEPT ![t] = [pc |-> "create", conv |-> c]]
  /\ UNCHANGED <<rows, editor, deleting, relay, session, events, ghosts, extras>>

SendMessage(t, c) ==
  /\ chat[t].pc = "none"
  /\ Find(c)
  /\ chat' = [chat EXCEPT ![t] = [pc |-> "create", conv |-> c]]
  /\ UNCHANGED <<rows, editor, deleting, relay, session, events, over, stray,
                 unheard, lost, extras>>

\* The message, and beside it the progress message.  A conversation that is still
\* called New Chat then gets a title.
CreateUserMessage(t) ==
  /\ chat[t].pc = "create"
  /\ Store(t, "user")
  /\ UpsertProgressMessage(chat[t].conv)
  /\ \E pc \in {"title", "chat"} : chat' = [chat EXCEPT ![t].pc = pc]
  /\ UNCHANGED <<conv, posted, editor, deleting, relay, session, events, ghosts, extras>>

AutoTitle(t) ==
  /\ chat[t].pc = "title"
  /\ SaveConversation(chat[t].conv)
  /\ chat' = [chat EXCEPT ![t].pc = "chat"]
  /\ UNCHANGED <<stored, posted, marker, editor, deleting, relay, session, events,
                 ghosts, extras>>

\* The answer of the relay: the message is accepted.
ChatAccepted(t) ==
  /\ chat[t].pc = "chat"
  /\ relay[t].pc # "none"
  /\ chat' = [chat EXCEPT ![t].pc = "done"]
  /\ UNCHANGED <<rows, editor, deleting, relay, session, events, ghosts, extras>>

\* The relay cannot be reached, refuses the alias, or answers for a workspace,
\* which has no task group.
ChatRefused(t) ==
  /\ chat[t].pc = "chat"
  /\ relay[t].pc = "none"
  /\ chat' = [chat EXCEPT ![t].pc = "refused"]
  /\ UNCHANGED <<rows, editor, deleting, relay, session, events, ghosts, extras>>

\* The answer of the relay does not arrive.
ChatUnheard(t) ==
  /\ chat[t].pc = "chat"
  /\ relay[t].pc # "none"
  /\ Extra
  /\ unheard' = unheard \cup {t}
  /\ chat' = [chat EXCEPT ![t].pc = "refused"]
  /\ UNCHANGED <<rows, editor, deleting, relay, session, events, over, stray, lost,
                 raced>>

ClearRefused(t) ==
  /\ chat[t].pc = "refused"
  /\ DeleteProgressMessages(chat[t].conv)
  /\ chat' = [chat EXCEPT ![t].pc = "report"]
  /\ UNCHANGED <<conv, stored, posted, editor, deleting, relay, session, events,
                 ghosts, extras>>

ReportRefused(t) ==
  /\ chat[t].pc = "report"
  /\ Store(t, "error")
  /\ chat' = [chat EXCEPT ![t].pc = "done"]
  /\ UNCHANGED <<conv, posted, marker, editor, deleting, relay, session, events,
                 ghosts, extras>>

(***************************************************************************)
(* The other handlers of the chat.                                         *)
(***************************************************************************)
UpdateConversation(e, c) ==
  /\ editor[e].pc = "idle"
  /\ Find(c)
  /\ Extra
  /\ editor' = [editor EXCEPT ![e] = [pc |-> "save", conv |-> c]]
  /\ UNCHANGED <<rows, chat, deleting, relay, session, events, over, stray, unheard,
                 lost>>

ToolPostMessage(e, c) ==
  /\ editor[e].pc = "idle"
  /\ Find(c)
  /\ Extra
  /\ editor' = [editor EXCEPT ![e] = [pc |-> "post", conv |-> c]]
  /\ UNCHANGED <<rows, chat, deleting, relay, session, events, over, stray, unheard,
                 lost>>

Post(e) ==
  /\ editor[e].pc = "post"
  /\ posted' = posted \cup {editor[e].conv}
  /\ editor' = [editor EXCEPT ![e].pc = "copy"]
  /\ UNCHANGED <<conv, stored, marker, chat, deleting, relay, session, events,
                 ghosts, extras>>

\* GetConversation again; a conversation that is gone has nothing to save.
CopyPosted(e) ==
  /\ editor[e].pc = "copy"
  /\ editor' = [editor EXCEPT ![e] = IF Live(editor[e].conv)
                                       THEN [@ EXCEPT !.pc = "save"] ELSE NoEdit]
  /\ UNCHANGED <<rows, chat, deleting, relay, session, events, ghosts, extras>>

SaveEdited(e) ==
  /\ editor[e].pc = "save"
  /\ SaveConversation(editor[e].conv)
  /\ editor' = [editor EXCEPT ![e] = NoEdit]
  /\ UNCHANGED <<stored, posted, marker, chat, deleting, relay, session, events,
                 ghosts, extras>>

Overlapped(c) == raced' = IF Idle(c) THEN raced ELSE raced \cup {c}

\* The messages of a conversation are deleted first.
DeleteMessages(c) ==
  /\ Live(c)
  /\ c \notin deleting
  /\ Extra
  /\ stored' = [t \in Task |-> IF t \in Of(c) THEN [k \in Kind |-> 0] ELSE stored[t]]
  /\ posted' = posted \ {c}
  /\ marker' = marker \ {c}
  /\ deleting' = deleting \cup {c}
  /\ Overlapped(c)
  /\ UNCHANGED <<conv, chat, editor, relay, session, events, over, stray, unheard,
                 lost>>

DeleteConversation(c) ==
  /\ c \in deleting
  /\ conv' = [conv EXCEPT ![c] = "deleted"]
  /\ deleting' = deleting \ {c}
  /\ Overlapped(c)
  /\ UNCHANGED <<stored, posted, marker, chat, editor, relay, session, events, over,
                 stray, unheard, lost, extras>>

(***************************************************************************)
(* The relay.                                                              *)
(***************************************************************************)
\* One more event that says a task goes on, or the one that ends it.
EmitProgress(t) == progress' = [progress EXCEPT ![t] = @ + 1] /\ UNCHANGED ends
EmitEnd(t, k) ==
  /\ ends' = ends \cup {[task |-> t, kind |-> k, stage |-> "sent"]}
  /\ UNCHANGED progress

Relay(t, pc) == relay' = [relay EXCEPT ![t] = At(pc)]

\* The goroutine of the task first reports that the message is received; then
\* it asks the memory.
HandleChat(t) ==
  /\ chat[t].pc = "chat"
  /\ relay[t].pc = "none"
  /\ session' = chat[t].conv
  /\ EmitProgress(t)
  /\ Relay(t, "route")
  /\ UNCHANGED <<rows, chat, editor, deleting, foreign, ghosts, extras>>

\* Mutant: only a failed call of an agent is reported.
RouteFailsSilent(t, k) ==
  /\ relay[t].pc = "route"
  /\ Relay(t, "done")
  /\ UNCHANGED <<rows, chat, editor, deleting, session, events, ghosts, extras>>

\* There is no agent any more of that name, or no default agent.
RouteFails(t, k) ==
  /\ relay[t].pc = "route"
  /\ EmitEnd(t, k)
  /\ Relay(t, "done")
  /\ UNCHANGED <<rows, chat, editor, deleting, session, foreign, ghosts, extras>>

Route(t) ==
  /\ relay[t].pc = "route"
  /\ EmitProgress(t)
  /\ Relay(t, "call")
  /\ UNCHANGED <<rows, chat, editor, deleting, session, foreign, ghosts, extras>>

\* The agent streams a piece of its text.  The use of a tool is reported alike.
Stream(t) ==
  /\ relay[t].pc = "call"
  /\ relay[t].chunks < MaxChunks
  /\ EmitProgress(t)
  /\ relay' = [relay EXCEPT ![t].chunks = @ + 1]
  /\ UNCHANGED <<rows, chat, editor, deleting, session, foreign, ghosts, extras>>

\* Text that was streamed is not sent again.
AgentAnswers(t) ==
  /\ relay[t].pc = "call"
  /\ EmitEnd(t, IF relay[t].chunks > 0 THEN "empty" ELSE "reply")
  /\ Relay(t, "done")
  /\ UNCHANGED <<rows, chat, editor, deleting, session, foreign, ghosts, extras>>

\* Mutant: the goroutine goes on after it has reported the error.
AgentFailsGoesOn(t) ==
  /\ relay[t].pc = "call"
  /\ EmitEnd(t, "error")
  /\ UNCHANGED <<rows, chat, editor, deleting, relay, session, foreign, ghosts, extras>>

\* An error that is not transient, or the last attempt.
AgentFails(t) ==
  /\ relay[t].pc = "call"
  /\ EmitEnd(t, "error")
  /\ Relay(t, "done")
  /\ UNCHANGED <<rows, chat, editor, deleting, session, foreign, ghosts, extras>>

Retry(t) ==
  /\ relay[t].pc = "call"
  /\ relay[t].attempt < MaxRetries
  /\ EmitProgress(t)
  /\ relay' = [relay EXCEPT ![t].attempt = @ + 1, ![t].chunks = 0]
  /\ UNCHANGED <<rows, chat, editor, deleting, session, foreign, ghosts, extras>>

\* A report of a task of another plugin, ended or not, goes to the last session
\* as one that says the task goes on: no agent's answer names such a task, so
\* none is waited for.
ForwardProgress ==
  /\ session # NoConversation
  /\ Extra
  /\ foreign' = [foreign EXCEPT ![session] = @ + 1]
  /\ UNCHANGED <<rows, chat, editor, deleting, relay, session, progress, ends, ghosts>>

(***************************************************************************)
(* The chat's handler of events.                                           *)
(***************************************************************************)
HandleProgress(t) ==
  /\ progress[t] > 0
  /\ progress' = [progress EXCEPT ![t] = @ - 1]
  /\ UpsertProgressMessage(chat[t].conv)
  /\ stray' = stray \cup (IF t \in over THEN {chat[t].conv} ELSE {})
  /\ UNCHANGED <<conv, stored, posted, chat, editor, deleting, relay, session, foreign,
                 ends, over, unheard, lost, raced, extras>>

HandleForeign(c) ==
  /\ foreign[c] > 0
  /\ foreign' = [foreign EXCEPT ![c] = @ - 1]
  /\ UpsertProgressMessage(c)
  /\ stray' = stray \cup {c}
  /\ UNCHANGED <<conv, stored, posted, chat, editor, deleting, relay, session, progress,
                 ends, over, unheard, lost, raced, extras>>

Step(e, stage) == ends' = (ends \ {e}) \cup {[e EXCEPT !.stage = stage]}

\* Mutant: the end leaves the progress message.
ClearEndedKeeps(e) ==
  /\ e.stage = "sent"
  /\ Step(e, "cleared")
  /\ over' = over \cup {e.task}
  /\ UNCHANGED <<rows, chat, editor, deleting, relay, session, progress, foreign, stray,
                 unheard, lost, raced, extras>>

ClearEnded(e) ==
  /\ e.stage = "sent"
  /\ DeleteProgressMessages(chat[e.task].conv)
  /\ Step(e, "cleared")
  /\ over' = over \cup {e.task}
  /\ UNCHANGED <<conv, stored, posted, chat, editor, deleting, relay, session, progress,
                 foreign, stray, unheard, lost, raced, extras>>

StoreAnswer(e) ==
  /\ e.stage = "cleared"
  /\ Store(e.task, e.kind)
  /\ IF e.kind = "error" THEN ends' = ends \ {e} ELSE Step(e, "stored")
  /\ UNCHANGED <<conv, posted, marker, chat, editor, deleting, relay, session, progress,
                 foreign, ghosts, extras>>

CopyAnswered(e) ==
  /\ e.stage = "stored"
  /\ IF Live(chat[e.task].conv) THEN Step(e, "copied") ELSE ends' = ends \ {e}
  /\ UNCHANGED <<rows, chat, editor, deleting, relay, session, progress, foreign, ghosts,
                 extras>>

SaveAnswered(e) ==
  /\ e.stage = "copied"
  /\ SaveConversation(chat[e.task].conv)
  /\ ends' = ends \ {e}
  /\ UNCHANGED <<stored, posted, marker, chat, editor, deleting, relay, session, progress,
                 foreign, ghosts, extras>>

(***************************************************************************)
(* Faults.  Publishing and delivering have timeouts, and are not retried.  *)
(***************************************************************************)
LoseProgress(t) ==
  /\ progress[t] > 0
  /\ Extra
  /\ progress' = [progress EXCEPT ![t] = @ - 1]
  /\ UNCHANGED <<rows, chat, editor, deleting, relay, session, foreign, ends, ghosts>>

LoseEnd(e) ==
  /\ e.stage = "sent"
  /\ Extra
  /\ ends' = ends \ {e}
  /\ over' = over \cup {e.task}
  /\ lost' = lost \cup {e.task}
  /\ stray' = stray \cup {chat[e.task].conv}
  /\ UNCHANGED <<rows, chat, editor, deleting, relay, session, progress, foreign,
                 unheard, raced>>

\* The tasks that were going on end without a report.
RelayStops ==
  LET cut == {t \in Task : Active(t)}
  IN /\ Extra
     /\ relay' = [t \in Task |-> IF t \in cut THEN At("done") ELSE relay[t]]
     /\ session' = NoConversation
     /\ over' = over \cup cut
     /\ lost' = lost \cup cut
     /\ stray' = stray \cup {chat[t].conv : t \in cut}
     /\ UNCHANGED <<rows, chat, editor, deleting, events, unheard, raced>>

\* Messages that the relay has not accepted go no further, and answers that are
\* being stored get no further.
ChatStops ==
  LET cut == {t \in Task : Sending(t) /\ relay[t].pc = "none"}
      unstored == {e.task : e \in {f \in ends : f.stage = "cleared"}}
  IN /\ Extra
     /\ chat' = [t \in Task |-> IF Sending(t) THEN [chat[t] EXCEPT !.pc = "done"]
                                              ELSE chat[t]]
     /\ editor' = [e \in Editor |-> NoEdit]
     /\ deleting' = {}
     /\ ends' = {e \in ends : e.stage = "sent"}
     /\ lost' = lost \cup cut \cup unstored
     /\ stray' = stray \cup {chat[t].conv : t \in cut}
     /\ raced' = raced \cup deleting
     /\ UNCHANGED <<rows, relay, session, progress, foreign, over, unheard>>

(***************************************************************************)
(* The specification.                                                      *)
(***************************************************************************)
Chat(t) ==
  \/ CreateUserMessage(t) \/ AutoTitle(t) \/ ChatAccepted(t)
  \/ ClearRefused(t) \/ ReportRefused(t)
Edit(e) == Post(e) \/ CopyPosted(e) \/ SaveEdited(e)
RelayTask(t) ==
  \/ Route(t) \/ Stream(t) \/ Retry(t) \/ AgentAnswers(t) \/ AgentFails(t)
  \/ \E k \in {"reply", "error"} : RouteFails(t, k)
HandleEnd(e) == ClearEnded(e) \/ StoreAnswer(e) \/ CopyAnswered(e) \/ SaveAnswered(e)

Next ==
  \/ \E c \in Conversation :
       \/ CreateConversation(c) \/ DeleteMessages(c) \/ DeleteConversation(c) \/ HandleForeign(c)
       \/ \E t \in Task : SendMessage(t, c)
       \/ \E e \in Editor : UpdateConversation(e, c) \/ ToolPostMessage(e, c)
  \/ \E t \in Task : \/ Chat(t) \/ ChatRefused(t) \/ ChatUnheard(t)
                     \/ HandleChat(t) \/ RelayTask(t)
                     \/ HandleProgress(t) \/ LoseProgress(t)
  \/ \E e \in Editor : Edit(e)
  \/ \E e \in ends : HandleEnd(e) \/ LoseEnd(e)
  \/ ForwardProgress \/ RelayStops \/ ChatStops

Spec == Init /\ [][Next]_vars

(***************************************************************************)
(* Properties.                                                             *)
(***************************************************************************)
\* Everything has its type.
TypeOK ==
  /\ conv \in [Conversation -> State]
  /\ stored \in [Task -> [Kind -> Nat]]
  /\ posted \subseteq Conversation
  /\ marker \subseteq Conversation
  /\ chat \in [Task -> [pc : {"none", "create", "title", "chat", "refused",
                              "report", "done"},
                        conv : Conversation \cup {NoConversation}]]
  /\ editor \in [Editor -> [pc : {"idle", "post", "copy", "save"},
                            conv : Conversation \cup {NoConversation}]]
  /\ deleting \subseteq Conversation
  /\ relay \in [Task -> [pc : {"none", "route", "call", "done"},
                         attempt : 0..MaxRetries, chunks : 0..MaxChunks]]
  /\ session \in Conversation \cup {NoConversation}
  /\ progress \in [Task -> Nat]
  /\ foreign \in [Conversation -> Nat]
  /\ ends \subseteq [task : Task, kind : Kind \ {"user"},
                     stage : {"sent", "cleared", "stored", "copied"}]
  /\ over \subseteq Task
  /\ stray \subseteq Conversation
  /\ unheard \subseteq Task
  /\ lost \subseteq Task
  /\ raced \subseteq Conversation
  /\ extras \in 0..MaxExtras

Answers(t) == stored[t]["reply"] + stored[t]["empty"]
Errors(t) == stored[t]["error"]

\* A user's message gets one answer or one report of a failure, however the
\* calls of agents fail and are repeated, whatever order events arrive in and
\* whatever other tasks report.  Only a message that the relay accepts while its
\* answer gets lost has a report of the chat beside what the relay sends.
OneAnswer ==
  \A t \in Task : Answers(t) + Errors(t) <= (IF t \in unheard THEN 2 ELSE 1)

\* When nothing is under way in a conversation, it shows no progress message any
\* more: each end clears what the tasks of the conversation left.  What remains
\* is the progress that arrives after the end of its own task, that of another
\* plugin's task, and that of a task whose end is lost.
ProgressCleared ==
  \A c \in marker : Idle(c) => c \in stray

\* A conversation that is deleted while nothing used it has no messages, although
\* its messages go first.
Emptied(c) ==
  c \notin posted /\ \A t \in Of(c) : \A k \in Kind : stored[t][k] = 0

\* Such a conversation stays deleted and empty, although it is written back whole
\* wherever it is renamed, given a title or answered.
StaysDeleted ==
  /\ [](\A c \in Conversation \ raced : conv[c] = "deleted" => Emptied(c))
  /\ [][\A c \in Conversation \ raced : conv[c] = "deleted" => ~Live(c)']_vars

\* No message is dropped: once neither the chat, nor the relay, nor an event has
\* it, it is answered or reported as failed, unless its end is lost or its
\* conversation is deleted.
NoneDropped ==
  \A t \in Task :
    (chat[t].pc = "done" /\ ~Active(t) /\ ~Ending(t)) =>
      \/ Answers(t) + Errors(t) > 0
      \/ t \in lost
      \/ chat[t].conv \in deleting \cup Deleted \cup raced
=============================================================================
