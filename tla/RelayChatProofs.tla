----------------------------- MODULE RelayChatProofs -----------------------------
(***************************************************************************)
(* What holds of a message on its way to an agent and back for any number  *)
(* of conversations, messages, editors, retries and faults: the types,     *)
(* that a message is answered or reported once, that none is dropped, and  *)
(* that a conversation deleted at rest stays deleted and empty.            *)
(***************************************************************************)
EXTENDS RelayChat, TLAPS

Chatting == [pc : {"none", "create", "title", "chat", "refused", "report", "done"},
             conv : Conversation \cup {NoConversation}]
Edits == [pc : {"idle", "post", "copy", "save"}, conv : Conversation \cup {NoConversation}]
Relaying == [pc : {"none", "route", "call", "done"}, attempt : 0..MaxRetries,
             chunks : 0..MaxChunks]
End == [task : Task, kind : Kind \ {"user"}, stage : {"sent", "cleared", "stored", "copied"}]

(***************************************************************************)
(* Type correctness.  Whatever is under way belongs to a task the relay    *)
(* accepted, and so to a conversation; a task has one end at most, after   *)
(* its goroutine.                                                          *)
(***************************************************************************)
Placed ==
  /\ \A t \in Task : /\ chat[t].pc # "none" => chat[t].conv \in Conversation
                     /\ relay[t].pc # "none" => chat[t].pc # "none"
                     /\ chat[t].pc \in {"create", "title"} => relay[t].pc = "none"
                     /\ progress[t] > 0 => relay[t].pc # "none"
  /\ \A e \in Editor : editor[e].pc # "idle" => editor[e].conv \in Conversation
Ended ==
  /\ \A e \in ends : relay[e.task].pc = "done"
  /\ \A e, f \in ends : e.task = f.task => e = f

TInv == TypeOK /\ Placed /\ Ended

LEMMA ConstantTypes ==
  /\ MaxRetries \in Nat /\ MaxChunks \in Nat /\ MaxExtras \in Nat
  /\ NoMessage \in Chatting /\ NoEdit \in Edits
  /\ \A pc \in {"none", "route", "call", "done"} : At(pc) \in Relaying /\ At(pc).pc = pc
<1>1. MaxRetries \in Nat /\ MaxChunks \in Nat /\ MaxExtras \in Nat
  BY RelayChatAssumption
<1>2. 0 \in 0..MaxRetries /\ 0 \in 0..MaxChunks
  BY <1>1
<1> QED BY <1>1, <1>2 DEF NoMessage, NoEdit, At, Chatting, Edits, Relaying

LEMMA TypeUnfold ==
  ASSUME TInv
  PROVE  /\ conv \in [Conversation -> State] /\ stored \in [Task -> [Kind -> Nat]]
         /\ chat \in [Task -> Chatting] /\ editor \in [Editor -> Edits]
         /\ relay \in [Task -> Relaying] /\ progress \in [Task -> Nat]
         /\ foreign \in [Conversation -> Nat] /\ ends \subseteq End
         /\ session \in Conversation \cup {NoConversation} /\ extras \in 0..MaxExtras
         /\ Placed /\ Ended
         /\ posted \subseteq Conversation /\ marker \subseteq Conversation
         /\ deleting \subseteq Conversation /\ over \subseteq Task
         /\ stray \subseteq Conversation /\ unheard \subseteq Task /\ lost \subseteq Task
         /\ raced \subseteq Conversation
BY DEF TInv, TypeOK, Chatting, Edits, Relaying, End

LEMMA TypeFold ==
  ASSUME /\ conv \in [Conversation -> State] /\ stored \in [Task -> [Kind -> Nat]]
         /\ chat \in [Task -> Chatting] /\ editor \in [Editor -> Edits]
         /\ relay \in [Task -> Relaying] /\ progress \in [Task -> Nat]
         /\ foreign \in [Conversation -> Nat] /\ ends \subseteq End
         /\ session \in Conversation \cup {NoConversation} /\ extras \in 0..MaxExtras
         /\ Placed /\ Ended
         /\ posted \subseteq Conversation /\ marker \subseteq Conversation
         /\ deleting \subseteq Conversation /\ over \subseteq Task
         /\ stray \subseteq Conversation /\ unheard \subseteq Task /\ lost \subseteq Task
         /\ raced \subseteq Conversation
  PROVE  TInv
BY DEF TInv, TypeOK, Chatting, Edits, Relaying, End

LEMMA TypeInit == Init => TInv
<1> SUFFICES ASSUME Init PROVE TInv
  OBVIOUS
<1>1. /\ chat \in [Task -> Chatting] /\ editor \in [Editor -> Edits]
      /\ relay \in [Task -> Relaying] /\ \A t \in Task : relay[t].pc = "none"
  BY ConstantTypes DEF Init
<1>2. conv \in [Conversation -> State] /\ extras \in 0..MaxExtras
  BY ConstantTypes DEF Init, State
<1>3. Placed
  BY <1>1 DEF Init, Placed, NoMessage, NoEdit
<1>4. Ended
  BY DEF Init, Ended
<1> QED BY <1>1, <1>2, <1>3, <1>4 DEF Init, TypeOK, TInv, Chatting, Edits, Relaying

\* The pieces of a step: what each kind of change leaves in type.
LEMMA ExtraType == ASSUME TInv, Extra PROVE extras' \in 0..MaxExtras
BY TypeUnfold, ConstantTypes DEF Extra

LEMMA SaveType ==
  ASSUME TInv, NEW c, SaveConversation(c) PROVE conv' \in [Conversation -> State]
BY TypeUnfold DEF SaveConversation, State

LEMMA StoreType ==
  ASSUME TInv, NEW t \in Task, NEW k \in Kind, Store(t, k)
  PROVE  /\ stored' \in [Task -> [Kind -> Nat]]
         /\ \A u \in Task, l \in Kind :
              stored'[u][l] = IF u = t /\ l = k THEN stored[u][l] + 1 ELSE stored[u][l]
BY TypeUnfold DEF Store

\* A message that goes on in the chat.
LEMMA ChatType ==
  ASSUME TInv, NEW t \in Task, NEW w \in Chatting, chat' = [chat EXCEPT ![t] = w],
         w.pc # "none" /\ w.conv \in Conversation,
         w.pc \in {"create", "title"} => relay[t].pc = "none",
         UNCHANGED <<relay, progress, editor>>
  PROVE  chat' \in [Task -> Chatting] /\ Placed'
<1>1. chat \in [Task -> Chatting] /\ Placed
  BY TypeUnfold
<1>2. \A u \in Task : chat'[u] = IF u = t THEN w ELSE chat[u]
  BY <1>1
<1>3. \A u \in Task : /\ chat'[u].pc # "none" => chat'[u].conv \in Conversation
                      /\ relay[u].pc # "none" => chat'[u].pc # "none"
                      /\ chat'[u].pc \in {"create", "title"} => relay[u].pc = "none"
                      /\ progress[u] > 0 => relay[u].pc # "none"
  BY <1>1, <1>2 DEF Placed
<1> QED BY <1>1, <1>3 DEF Placed

\* A task that goes on in the relay.
LEMMA RelayType ==
  ASSUME TInv, NEW t \in Task, NEW w \in Relaying, relay' = [relay EXCEPT ![t] = w],
         w.pc # "none", chat[t].pc \notin {"none", "create", "title"},
         progress' \in [Task -> Nat], \A u \in Task : u # t => progress'[u] = progress[u],
         UNCHANGED <<chat, editor>>
  PROVE  relay' \in [Task -> Relaying] /\ Placed'
<1>1. relay \in [Task -> Relaying] /\ Placed
  BY TypeUnfold
<1>2. \A u \in Task : relay'[u] = IF u = t THEN w ELSE relay[u]
  BY <1>1
<1>3. \A u \in Task : /\ chat[u].pc # "none" => chat[u].conv \in Conversation
                      /\ relay'[u].pc # "none" => chat[u].pc # "none"
                      /\ chat[u].pc \in {"create", "title"} => relay'[u].pc = "none"
                      /\ progress'[u] > 0 => relay'[u].pc # "none"
  BY <1>1, <1>2 DEF Placed
<1> QED BY <1>1, <1>3 DEF Placed

LEMMA ProgressType ==
  ASSUME TInv, NEW t \in Task, EmitProgress(t)
  PROVE  progress' \in [Task -> Nat] /\ \A u \in Task : u # t => progress'[u] = progress[u]
BY TypeUnfold DEF EmitProgress

\* The end of a task that was going on.
LEMMA EndType ==
  ASSUME TInv, NEW t \in Task, NEW k \in Kind \ {"user"}, relay[t].pc \in {"route", "call"},
         EmitEnd(t, k), Relay(t, "done")
  PROVE  ends' \subseteq End /\ Ended' /\ relay' \in [Task -> Relaying]
<1> DEFINE end == [task |-> t, kind |-> k, stage |-> "sent"]
<1>1. ends \subseteq End /\ Ended /\ relay \in [Task -> Relaying]
  BY TypeUnfold
<1>2. ends' = ends \cup {end} /\ end \in End /\ end.task = t
  BY DEF EmitEnd, End
<1> HIDE DEF end
<1>3. \A u \in Task : relay'[u] = IF u = t THEN At("done") ELSE relay[u]
  BY <1>1 DEF Relay
<1>4. \A e \in ends : e.task \in Task /\ relay[e.task].pc = "done" /\ e.task # t
  BY <1>1 DEF Ended, End
<1>5. \A e \in ends' : relay'[e.task].pc = "done"
  BY <1>2, <1>3, <1>4, ConstantTypes
<1>6. \A e, f \in ends' : e.task = f.task => e = f
  BY <1>1, <1>2, <1>4 DEF Ended
<1> QED BY <1>1, <1>2, <1>5, <1>6, ConstantTypes DEF Ended, Relay

\* An end that is handled a step further.
LEMMA StepType ==
  ASSUME TInv, NEW e \in ends, NEW stage \in {"cleared", "stored", "copied"}, Step(e, stage),
         UNCHANGED relay
  PROVE  ends' \subseteq End /\ Ended'
<1> DEFINE end == [e EXCEPT !.stage = stage]
<1>1. ends \subseteq End /\ Ended
  BY TypeUnfold
<1>2. ends' = (ends \ {e}) \cup {end} /\ end \in End /\ end.task = e.task
  BY <1>1 DEF Step, End
<1> HIDE DEF end
<1>3. \A f \in ends' : relay[f.task].pc = "done"
  BY <1>1, <1>2 DEF Ended
<1>4. \A f, g \in ends' : f.task = g.task => f = g
  BY <1>1, <1>2 DEF Ended
<1> QED BY <1>1, <1>2, <1>3, <1>4 DEF Ended

\* Ends that are gone.
LEMMA FewerEnds ==
  ASSUME TInv, ends' \subseteq ends, UNCHANGED relay
  PROVE  ends' \subseteq End /\ Ended'
BY TypeUnfold DEF Ended

LEMMA ChatGoesOn ==
  ASSUME TInv, NEW t \in Task, NEW pc \in {"title", "chat", "refused", "report", "done"},
         chat' = [chat EXCEPT ![t].pc = pc], chat[t].pc # "none",
         pc = "title" => relay[t].pc = "none", UNCHANGED <<relay, progress, editor>>
  PROVE  /\ chat' \in [Task -> Chatting] /\ Placed'
         /\ \A u \in Task : /\ chat'[u].conv = chat[u].conv
                            /\ chat'[u].pc = IF u = t THEN pc ELSE chat[u].pc
<1> DEFINE w == [chat[t] EXCEPT !.pc = pc]
<1>1. chat \in [Task -> Chatting] /\ Placed
  BY TypeUnfold
<1>2. chat' = [chat EXCEPT ![t] = w] /\ w \in Chatting /\ w.pc = pc /\ w.conv = chat[t].conv
  BY <1>1 DEF Chatting
<1> HIDE DEF w
<1>3. w.conv \in Conversation
  BY <1>1, <1>2 DEF Placed
<1>4. chat' \in [Task -> Chatting] /\ Placed'
  BY <1>2, <1>3, ChatType
<1> QED BY <1>1, <1>2, <1>4

\* An editor that goes on.
LEMMA EditorType ==
  ASSUME TInv, NEW e \in Editor, NEW w \in Edits, editor' = [editor EXCEPT ![e] = w],
         w.pc # "idle" => w.conv \in Conversation, UNCHANGED <<chat, relay, progress>>
  PROVE  editor' \in [Editor -> Edits] /\ Placed'
<1>1. editor \in [Editor -> Edits] /\ Placed
  BY TypeUnfold
<1>2. \A d \in Editor : editor'[d] = IF d = e THEN w ELSE editor[d]
  BY <1>1
<1> QED BY <1>1, <1>2 DEF Placed

\* Nothing that is under way changes its place.
LEMMA PlacedKept ==
  ASSUME TInv, UNCHANGED <<chat, relay, editor>>,
         \A t \in Task : progress'[t] > 0 => progress[t] > 0 \/ relay[t].pc # "none"
  PROVE  Placed'
BY TypeUnfold DEF Placed

LEMMA EndedKept == ASSUME TInv, UNCHANGED <<relay, ends>> PROVE Ended'
BY TypeUnfold DEF Ended

LEMMA TypeStep == TInv /\ [Next]_vars => TInv'
<1> SUFFICES ASSUME TInv, [Next]_vars PROVE TInv'
  OBVIOUS
<1> USE DEF rows, events, ghosts
<1>t. /\ conv \in [Conversation -> State] /\ stored \in [Task -> [Kind -> Nat]]
      /\ chat \in [Task -> Chatting] /\ editor \in [Editor -> Edits]
      /\ relay \in [Task -> Relaying] /\ progress \in [Task -> Nat]
      /\ foreign \in [Conversation -> Nat] /\ ends \subseteq End
      /\ session \in Conversation \cup {NoConversation} /\ extras \in 0..MaxExtras
      /\ Placed /\ Ended
      /\ posted \subseteq Conversation /\ marker \subseteq Conversation
      /\ deleting \subseteq Conversation /\ over \subseteq Task
      /\ stray \subseteq Conversation /\ unheard \subseteq Task /\ lost \subseteq Task
      /\ raced \subseteq Conversation
  BY TypeUnfold
<1>f. ASSUME /\ conv' \in [Conversation -> State] /\ stored' \in [Task -> [Kind -> Nat]]
             /\ chat' \in [Task -> Chatting] /\ editor' \in [Editor -> Edits]
             /\ relay' \in [Task -> Relaying] /\ progress' \in [Task -> Nat]
             /\ foreign' \in [Conversation -> Nat] /\ ends' \subseteq End
             /\ session' \in Conversation \cup {NoConversation} /\ extras' \in 0..MaxExtras
             /\ Placed' /\ Ended'
             /\ posted' \subseteq Conversation /\ marker' \subseteq Conversation
             /\ deleting' \subseteq Conversation /\ over' \subseteq Task
             /\ stray' \subseteq Conversation /\ unheard' \subseteq Task /\ lost' \subseteq Task
             /\ raced' \subseteq Conversation
      PROVE  TInv'
  BY <1>f DEF TInv, TypeOK, Chatting, Edits, Relaying, End
<1>c. \A t \in Task : chat[t].pc # "none" => chat[t].conv \in Conversation
  BY <1>t DEF Placed
<1>1. ASSUME NEW c \in Conversation, CreateConversation(c) PROVE TInv'
  <2>1. conv' \in [Conversation -> State]
    BY <1>t, <1>1 DEF CreateConversation, State
  <2>2. Placed' /\ Ended'
    BY <1>1, PlacedKept, EndedKept DEF CreateConversation
  <2> QED BY <1>t, <1>f, <1>1, <2>1, <2>2 DEF CreateConversation
<1>2. ASSUME NEW t \in Task, NEW c \in Conversation, SendMessage(t, c) PROVE TInv'
  <2> DEFINE w == [pc |-> "create", conv |-> c]
  <2>1. w \in Chatting /\ w.pc = "create" /\ w.conv = c /\ relay[t].pc = "none"
    BY <1>t, <1>2 DEF SendMessage, Chatting, Placed
  <2>2. chat' \in [Task -> Chatting] /\ Placed'
    BY <1>2, <2>1, ChatType DEF SendMessage
  <2>3. Ended'
    BY <1>2, EndedKept DEF SendMessage
  <2> QED BY <1>t, <1>f, <1>2, <2>2, <2>3 DEF SendMessage, Find
<1>3. ASSUME NEW t \in Task, CreateUserMessage(t) PROVE TInv'
  <2>1. stored' \in [Task -> [Kind -> Nat]]
    BY <1>3, StoreType DEF CreateUserMessage, Kind
  <2>2. PICK pc \in {"title", "chat"} : chat' = [chat EXCEPT ![t].pc = pc]
    BY <1>3 DEF CreateUserMessage
  <2>3. relay[t].pc = "none" /\ chat[t].pc # "none"
    BY <1>t, <1>3 DEF CreateUserMessage, Placed
  <2>4. chat' \in [Task -> Chatting] /\ Placed' /\ Ended'
    BY <1>3, <2>2, <2>3, ChatGoesOn, EndedKept DEF CreateUserMessage
  <2> QED BY <1>t, <1>f, <1>c, <1>3, <2>1, <2>3, <2>4
          DEF CreateUserMessage, UpsertProgressMessage
<1>4. ASSUME NEW t \in Task, AutoTitle(t) PROVE TInv'
  BY <1>t, <1>f, <1>4, ChatGoesOn, SaveType, EndedKept DEF AutoTitle
<1>5. ASSUME NEW t \in Task, ChatAccepted(t) PROVE TInv'
  BY <1>t, <1>f, <1>5, ChatGoesOn, EndedKept DEF ChatAccepted
<1>6. ASSUME NEW t \in Task, ChatRefused(t) PROVE TInv'
  BY <1>t, <1>f, <1>6, ChatGoesOn, EndedKept DEF ChatRefused
<1>7. ASSUME NEW t \in Task, ChatUnheard(t) PROVE TInv'
  <2>1. chat' \in [Task -> Chatting] /\ Placed' /\ Ended'
    BY <1>7, ChatGoesOn, EndedKept DEF ChatUnheard
  <2>2. extras' \in 0..MaxExtras /\ unheard' \subseteq Task
    BY <1>t, <1>7, ExtraType DEF ChatUnheard
  <2> QED BY <1>t, <1>f, <1>7, <2>1, <2>2 DEF ChatUnheard
<1>8. ASSUME NEW t \in Task, ClearRefused(t) PROVE TInv'
  BY <1>t, <1>f, <1>8, ChatGoesOn, EndedKept DEF ClearRefused, DeleteProgressMessages
<1>9. ASSUME NEW t \in Task, ReportRefused(t) PROVE TInv'
  <2>1. stored' \in [Task -> [Kind -> Nat]]
    BY <1>9, StoreType DEF ReportRefused, Kind
  <2> QED BY <1>t, <1>f, <1>9, <2>1, ChatGoesOn, EndedKept DEF ReportRefused
<1>10. ASSUME NEW e \in Editor, NEW c \in Conversation, UpdateConversation(e, c) PROVE TInv'
  <2>1. [pc |-> "save", conv |-> c] \in Edits
    BY DEF Edits
  <2>2. editor' \in [Editor -> Edits] /\ Placed' /\ Ended'
    BY <1>10, <2>1, EditorType, EndedKept DEF UpdateConversation
  <2> QED BY <1>t, <1>f, <1>10, <2>2, ExtraType DEF UpdateConversation, Find
<1>11. ASSUME NEW e \in Editor, NEW c \in Conversation, ToolPostMessage(e, c) PROVE TInv'
  <2>1. [pc |-> "post", conv |-> c] \in Edits
    BY DEF Edits
  <2>2. editor' \in [Editor -> Edits] /\ Placed' /\ Ended'
    BY <1>11, <2>1, EditorType, EndedKept DEF ToolPostMessage
  <2> QED BY <1>t, <1>f, <1>11, <2>2, ExtraType DEF ToolPostMessage, Find
<1>12. ASSUME NEW e \in Editor, Post(e) PROVE TInv'
  <2> DEFINE w == [editor[e] EXCEPT !.pc = "copy"]
  <2>1. editor[e].conv \in Conversation /\ w \in Edits /\ w.conv = editor[e].conv
    BY <1>t, <1>12 DEF Post, Placed, Edits
  <2>2. editor' = [editor EXCEPT ![e] = w]
    BY <1>t, <1>12 DEF Post
  <2> HIDE DEF w
  <2>3. editor' \in [Editor -> Edits] /\ Placed' /\ Ended'
    BY <1>12, <2>1, <2>2, EditorType, EndedKept DEF Post
  <2> QED BY <1>t, <1>f, <1>12, <2>1, <2>3 DEF Post
<1>13. ASSUME NEW e \in Editor, CopyPosted(e) PROVE TInv'
  <2> DEFINE w == IF Live(editor[e].conv) THEN [editor[e] EXCEPT !.pc = "save"] ELSE NoEdit
  <2>1. editor[e].conv \in Conversation
    BY <1>t, <1>13 DEF CopyPosted, Placed
  <2>2. w \in Edits /\ (w.pc # "idle" => w.conv \in Conversation)
    BY <1>t, <2>1, ConstantTypes DEF Edits, NoEdit
  <2>3. editor' = [editor EXCEPT ![e] = w]
    BY <1>t, <1>13 DEF CopyPosted
  <2> HIDE DEF w
  <2>4. editor' \in [Editor -> Edits] /\ Placed' /\ Ended'
    BY <1>13, <2>2, <2>3, EditorType, EndedKept DEF CopyPosted
  <2> QED BY <1>t, <1>f, <1>13, <2>4 DEF CopyPosted
<1>14. ASSUME NEW e \in Editor, SaveEdited(e) PROVE TInv'
  <2>1. editor' \in [Editor -> Edits] /\ Placed' /\ Ended'
    BY <1>14, ConstantTypes, EditorType, EndedKept DEF SaveEdited, NoEdit
  <2> QED BY <1>t, <1>f, <1>14, <2>1, SaveType DEF SaveEdited
<1>15. ASSUME NEW c \in Conversation, DeleteMessages(c) PROVE TInv'
  <2>1. stored' \in [Task -> [Kind -> Nat]]
    BY <1>t, <1>15 DEF DeleteMessages
  <2>2. Placed' /\ Ended'
    BY <1>15, PlacedKept, EndedKept DEF DeleteMessages
  <2> QED BY <1>t, <1>f, <1>15, <2>1, <2>2, ExtraType DEF DeleteMessages, Overlapped
<1>16. ASSUME NEW c \in Conversation, DeleteConversation(c) PROVE TInv'
  <2>1. conv' \in [Conversation -> State]
    BY <1>t, <1>16 DEF DeleteConversation, State
  <2>2. Placed' /\ Ended'
    BY <1>16, PlacedKept, EndedKept DEF DeleteConversation
  <2> QED BY <1>t, <1>f, <1>16, <2>1, <2>2 DEF DeleteConversation, Overlapped
<1>17. ASSUME NEW t \in Task, HandleChat(t) PROVE TInv'
  <2>1. chat[t].pc = "chat" /\ chat[t].conv \in Conversation
    BY <1>c, <1>17 DEF HandleChat
  <2>2. relay' \in [Task -> Relaying] /\ Placed' /\ progress' \in [Task -> Nat]
    BY <1>17, <2>1, ConstantTypes, ProgressType, RelayType DEF HandleChat, Relay
  <2>3. Ended'
    <3>1. \A e \in ends : e.task # t
      BY <1>t, <1>17 DEF HandleChat, Ended
    <3>2. \A e \in ends : e.task \in Task /\ ends' = ends
      BY <1>t, <1>17 DEF HandleChat, EmitProgress, End
    <3>3. \A u \in Task : u # t => relay'[u] = relay[u]
      BY <1>t, <1>17 DEF HandleChat, Relay
    <3> QED BY <1>t, <1>17, <3>1, <3>2, <3>3 DEF Ended, HandleChat, EmitProgress
  <2> QED BY <1>t, <1>f, <1>17, <2>1, <2>2, <2>3 DEF HandleChat, EmitProgress
<1>r. \* a task that goes on has a chat, and has no end
      ASSUME NEW t \in Task, relay[t].pc \in {"route", "call"}
      PROVE  /\ chat[t].pc \notin {"none", "create", "title"}
             /\ \A e \in ends : e.task # t /\ e.task \in Task
  BY <1>t, <1>r DEF Placed, Ended, End
<1>s. \* ... and may report progress
      ASSUME NEW t \in Task, relay[t].pc \in {"route", "call"}, EmitProgress(t),
             NEW w \in Relaying, w.pc # "none", relay' = [relay EXCEPT ![t] = w],
             UNCHANGED <<chat, editor>>
      PROVE  /\ relay' \in [Task -> Relaying] /\ Placed' /\ Ended'
             /\ progress' \in [Task -> Nat] /\ ends' = ends
  <2>1. chat[t].pc \notin {"none", "create", "title"}
    BY <1>r, <1>s
  <2>2. relay' \in [Task -> Relaying] /\ Placed' /\ progress' \in [Task -> Nat]
    BY <1>s, <2>1, ProgressType, RelayType
  <2>3. \A u \in Task : u # t => relay'[u] = relay[u]
    BY <1>t, <1>s
  <2>4. ends' = ends
    BY <1>s DEF EmitProgress
  <2>5. \A e \in ends : e.task # t /\ e.task \in Task
    BY <1>r, <1>s
  <2>6. Ended'
    BY <1>t, <2>3, <2>4, <2>5 DEF Ended
  <2> QED BY <2>2, <2>4, <2>6
<1>e. \* ... and may end
      ASSUME NEW t \in Task, relay[t].pc \in {"route", "call"}, NEW k \in Kind \ {"user"},
             EmitEnd(t, k), Relay(t, "done"),
             UNCHANGED <<rows, chat, editor, deleting, session, foreign, ghosts, extras>>
      PROVE  TInv'
  <2>1. chat[t].pc \notin {"none", "create", "title"}
    BY <1>r, <1>e
  <2>2. progress' = progress
    BY <1>e DEF EmitEnd
  <2>3. ends' \subseteq End /\ Ended'
    BY <1>e, EndType
  <2>4. relay' \in [Task -> Relaying] /\ Placed'
    BY <1>t, <1>e, <2>1, <2>2, ConstantTypes, RelayType DEF Relay
  <2> QED BY <1>t, <1>f, <1>e, <2>2, <2>3, <2>4
<1>18. ASSUME NEW t \in Task, NEW k \in {"reply", "error"}, RouteFails(t, k) PROVE TInv'
  <2>1. k \in Kind \ {"user"}
    BY DEF Kind, Answer
  <2> QED BY <1>e, <1>18, <2>1 DEF RouteFails
<1>19. ASSUME NEW t \in Task, AgentAnswers(t) PROVE TInv'
  <2>1. PICK k \in Kind \ {"user"} : EmitEnd(t, k)
    BY <1>19 DEF AgentAnswers, Kind, Answer
  <2> QED BY <1>e, <1>19, <2>1 DEF AgentAnswers
<1>20. ASSUME NEW t \in Task, AgentFails(t) PROVE TInv'
  <2>1. "error" \in Kind \ {"user"}
    BY DEF Kind
  <2> QED BY <1>e, <1>20, <2>1 DEF AgentFails
<1>21. ASSUME NEW t \in Task, Route(t) PROVE TInv'
  <2>1. relay' \in [Task -> Relaying] /\ Placed' /\ Ended' /\ progress' \in [Task -> Nat]
        /\ ends' = ends
    BY <1>s, <1>21, ConstantTypes DEF Route, Relay
  <2> QED BY <1>t, <1>f, <1>21, <2>1 DEF Route
<1>22. ASSUME NEW t \in Task, Stream(t) PROVE TInv'
  <2> DEFINE w == [relay[t] EXCEPT !.chunks = @ + 1]
  <2>1. relay[t] \in Relaying /\ relay[t].pc = "call" /\ relay[t].chunks < MaxChunks
    BY <1>t, <1>22 DEF Stream
  <2>2. w \in Relaying /\ w.pc = "call"
    BY <2>1, ConstantTypes DEF Relaying
  <2>3. relay' = [relay EXCEPT ![t] = w]
    BY <1>t, <1>22 DEF Stream
  <2> HIDE DEF w
  <2>4. relay' \in [Task -> Relaying] /\ Placed' /\ Ended' /\ progress' \in [Task -> Nat]
        /\ ends' = ends
    BY <1>s, <1>22, <2>2, <2>3 DEF Stream
  <2> QED BY <1>t, <1>f, <1>22, <2>4 DEF Stream
<1>23. ASSUME NEW t \in Task, Retry(t) PROVE TInv'
  <2> DEFINE w == [relay[t] EXCEPT !.attempt = @ + 1, !.chunks = 0]
  <2>1. relay[t] \in Relaying /\ relay[t].pc = "call" /\ relay[t].attempt < MaxRetries
    BY <1>t, <1>23 DEF Retry
  <2>2. relay[t].attempt + 1 \in 0..MaxRetries /\ 0 \in 0..MaxChunks
    BY <2>1, ConstantTypes DEF Relaying
  <2>3. w \in Relaying /\ w.pc = "call"
    BY <2>1, <2>2 DEF Relaying
  <2>4. relay' = [relay EXCEPT ![t] = w]
    BY <1>t, <1>23 DEF Retry, Relaying
  <2> HIDE DEF w
  <2>5. relay' \in [Task -> Relaying] /\ Placed' /\ Ended' /\ progress' \in [Task -> Nat]
        /\ ends' = ends
    BY <1>s, <1>23, <2>3, <2>4 DEF Retry
  <2> QED BY <1>t, <1>f, <1>23, <2>5 DEF Retry
<1>24. CASE ForwardProgress
  <2>1. foreign' \in [Conversation -> Nat]
    BY <1>t, <1>24 DEF ForwardProgress
  <2>2. Placed' /\ Ended'
    BY <1>24, PlacedKept, EndedKept DEF ForwardProgress
  <2> QED BY <1>t, <1>f, <1>24, <2>1, <2>2, ExtraType DEF ForwardProgress
<1>25. ASSUME NEW t \in Task, HandleProgress(t) PROVE TInv'
  <2>1. progress' \in [Task -> Nat] /\ \A u \in Task : progress'[u] <= progress[u]
    BY <1>t, <1>25 DEF HandleProgress
  <2>2. chat[t].conv \in Conversation
    BY <1>t, <1>25 DEF HandleProgress, Placed
  <2>3. Placed' /\ Ended'
    BY <1>t, <1>25, <2>1, PlacedKept, EndedKept DEF HandleProgress
  <2> QED BY <1>t, <1>f, <1>25, <2>1, <2>2, <2>3 DEF HandleProgress, UpsertProgressMessage
<1>26. ASSUME NEW c \in Conversation, HandleForeign(c) PROVE TInv'
  <2>1. foreign' \in [Conversation -> Nat]
    BY <1>t, <1>26 DEF HandleForeign
  <2>2. Placed' /\ Ended'
    BY <1>26, PlacedKept, EndedKept DEF HandleForeign
  <2> QED BY <1>t, <1>f, <1>26, <2>1, <2>2 DEF HandleForeign, UpsertProgressMessage
<1>g. \* the task of an end
      ASSUME NEW e \in ends
      PROVE  e.task \in Task /\ chat[e.task].conv \in Conversation /\ e.kind \in Kind
  BY <1>t DEF Ended, Placed, End
<1>27. ASSUME NEW e \in ends, ClearEnded(e) PROVE TInv'
  <2>1. ends' \subseteq End /\ Ended' /\ Placed'
    BY <1>27, StepType, PlacedKept DEF ClearEnded
  <2> QED BY <1>t, <1>f, <1>g, <1>27, <2>1 DEF ClearEnded, DeleteProgressMessages
<1>28. ASSUME NEW e \in ends, StoreAnswer(e) PROVE TInv'
  <2>1. stored' \in [Task -> [Kind -> Nat]]
    BY <1>g, <1>28, StoreType DEF StoreAnswer
  <2>2. ends' \subseteq End /\ Ended'
    BY <1>28, StepType, FewerEnds DEF StoreAnswer
  <2>3. Placed'
    BY <1>28, PlacedKept DEF StoreAnswer
  <2> QED BY <1>t, <1>f, <1>28, <2>1, <2>2, <2>3 DEF StoreAnswer
<1>29. ASSUME NEW e \in ends, CopyAnswered(e) PROVE TInv'
  <2>1. ends' \subseteq End /\ Ended'
    BY <1>29, StepType, FewerEnds DEF CopyAnswered
  <2>2. Placed'
    BY <1>29, PlacedKept DEF CopyAnswered
  <2> QED BY <1>t, <1>f, <1>29, <2>1, <2>2 DEF CopyAnswered
<1>30. ASSUME NEW e \in ends, SaveAnswered(e) PROVE TInv'
  <2>1. ends' \subseteq End /\ Ended' /\ Placed'
    BY <1>30, FewerEnds, PlacedKept DEF SaveAnswered
  <2> QED BY <1>t, <1>f, <1>30, <2>1, SaveType DEF SaveAnswered
<1>31. ASSUME NEW t \in Task, LoseProgress(t) PROVE TInv'
  <2>1. progress' \in [Task -> Nat] /\ \A u \in Task : progress'[u] <= progress[u]
    BY <1>t, <1>31 DEF LoseProgress
  <2>2. Placed' /\ Ended'
    BY <1>t, <1>31, <2>1, PlacedKept, EndedKept DEF LoseProgress
  <2> QED BY <1>t, <1>f, <1>31, <2>1, <2>2, ExtraType DEF LoseProgress
<1>32. ASSUME NEW e \in ends, LoseEnd(e) PROVE TInv'
  <2>1. ends' \subseteq End /\ Ended' /\ Placed'
    BY <1>32, FewerEnds, PlacedKept DEF LoseEnd
  <2> QED BY <1>t, <1>f, <1>g, <1>32, <2>1, ExtraType DEF LoseEnd
<1>33. CASE RelayStops
  <2> DEFINE cut == {t \in Task : Active(t)}
  <2>1. /\ relay' = [t \in Task |-> IF t \in cut THEN At("done") ELSE relay[t]]
        /\ session' = NoConversation /\ over' = over \cup cut /\ lost' = lost \cup cut
        /\ stray' = stray \cup {chat[t].conv : t \in cut}
        /\ Extra /\ UNCHANGED <<rows, chat, editor, deleting, events, unheard, raced>>
    BY <1>33 DEF RelayStops
  <2>2. \A t \in cut : t \in Task /\ chat[t].conv \in Conversation
    BY <1>t DEF Active, Placed
  <2>3. \A t \in Task : t \in cut => relay[t].pc # "none" /\ relay[t].pc # "done"
    BY DEF Active
  <2> HIDE DEF cut
  <2>4. /\ relay' \in [Task -> Relaying]
        /\ \A t \in Task : relay'[t].pc = IF t \in cut THEN "done" ELSE relay[t].pc
    BY <1>t, <2>1, ConstantTypes
  <2>5. Placed'
    BY <1>t, <2>1, <2>3, <2>4 DEF Placed
  <2>6. Ended'
    BY <1>t, <2>1, <2>3, <2>4 DEF Ended, End
  <2>7. over' \subseteq Task /\ lost' \subseteq Task /\ stray' \subseteq Conversation
    BY <1>t, <2>1, <2>2
  <2> QED BY <1>t, <1>f, <2>1, <2>4, <2>5, <2>6, <2>7, ExtraType
<1>34. CASE ChatStops
  <2> DEFINE cut == {t \in Task : Sending(t) /\ relay[t].pc = "none"}
             unstored == {e.task : e \in {f \in ends : f.stage = "cleared"}}
  <2>1. /\ chat' = [t \in Task |-> IF Sending(t) THEN [chat[t] EXCEPT !.pc = "done"]
                                                ELSE chat[t]]
        /\ editor' = [e \in Editor |-> NoEdit] /\ deleting' = {}
        /\ ends' = {e \in ends : e.stage = "sent"} /\ lost' = lost \cup cut \cup unstored
        /\ stray' = stray \cup {chat[t].conv : t \in cut} /\ raced' = raced \cup deleting
        /\ Extra /\ UNCHANGED <<rows, relay, session, progress, foreign, over, unheard>>
    BY <1>34 DEF ChatStops
  <2>2. cut \subseteq Task /\ unstored \subseteq Task /\ {chat[t].conv : t \in cut} \subseteq Conversation
    BY <1>t, <1>c DEF Sending, End
  <2> HIDE DEF cut, unstored
  <2>3. /\ chat' \in [Task -> Chatting]
        /\ \A t \in Task : /\ chat'[t].conv = chat[t].conv
                           /\ chat'[t].pc = IF Sending(t) THEN "done" ELSE chat[t].pc
    BY <1>t, <2>1 DEF Chatting
  <2>4. editor' \in [Editor -> Edits] /\ \A e \in Editor : editor'[e].pc = "idle"
    BY <2>1, ConstantTypes DEF NoEdit
  <2>5. Placed'
    BY <1>t, <2>1, <2>3, <2>4 DEF Placed, Sending
  <2>6. ends' \subseteq End /\ Ended'
    BY <2>1, FewerEnds
  <2>7. lost' \subseteq Task /\ stray' \subseteq Conversation /\ raced' \subseteq Conversation
    BY <1>t, <2>1, <2>2
  <2> QED BY <1>t, <1>f, <2>1, <2>3, <2>4, <2>5, <2>6, <2>7, ExtraType
<1>35. CASE UNCHANGED vars
  <2>1. Placed' /\ Ended'
    BY <1>35, PlacedKept, EndedKept DEF vars
  <2> QED BY <1>t, <1>f, <1>35, <2>1 DEF vars
<1> QED BY <1>1, <1>2, <1>3, <1>4, <1>5, <1>6, <1>7, <1>8, <1>9, <1>10, <1>11, <1>12, <1>13,
           <1>14, <1>15, <1>16, <1>17, <1>18, <1>19, <1>20, <1>21, <1>22, <1>23, <1>24, <1>25,
           <1>26, <1>27, <1>28, <1>29, <1>30, <1>31, <1>32, <1>33, <1>34, <1>35
        DEF Next, Chat, Edit, RelayTask, HandleEnd

\* Everything has its type: what is stored, shown and under way belongs to a
\* conversation, and attempts and pieces stay within their bounds.
THEOREM TypeCorrect == Spec => []TypeOK
<1>1. TInv => TypeOK
  BY DEF TInv
<1> QED BY <1>1, TypeInit, TypeStep, PTL DEF Spec


(***************************************************************************)
(* One answer.  What is stored of a task, but for the message of its user, *)
(* has been stored by the relay's end, or by the chat when the relay was   *)
(* not reached or not heard: each does so once.                            *)
(***************************************************************************)
Total(t) == Answers(t) + Errors(t)
Unstored(t) == \E e \in ends : e.task = t /\ e.stage \in {"sent", "cleared"}
FromRelay(t) == IF relay[t].pc = "done" /\ ~Unstored(t) THEN 1 ELSE 0
FromChat(t) ==
  IF chat[t].pc = "done" /\ (relay[t].pc = "none" \/ t \in unheard) THEN 1 ELSE 0

Counted == \A t \in Task : Total(t) <= FromRelay(t) + FromChat(t)
Refused ==
  \A t \in Task : /\ chat[t].pc \in {"refused", "report"} =>
                       relay[t].pc = "none" \/ t \in unheard
                  /\ t \in unheard => relay[t].pc # "none"

AInv == TInv /\ Counted /\ Refused

LEMMA AnswerInit == Init => Counted /\ Refused
BY DEF Init, Counted, Refused, Total, Answers, Errors, FromRelay, FromChat, Unstored, Kind,
       Answer, NoMessage, At

LEMMA TotalType == ASSUME TInv, NEW t \in Task PROVE Total(t) \in Nat
<1>1. stored[t] \in [Kind -> Nat]
  BY TypeUnfold
<1> QED BY <1>1 DEF Total, Answers, Errors, Kind, Answer

\* One more of what is stored of a task counts as one, but for the user's message.
LEMMA TotalStore ==
  ASSUME TInv, NEW t \in Task, NEW k \in Kind, Store(t, k)
  PROVE  \A u \in Task :
           Total(u)' = IF u = t /\ k # "user" THEN Total(u) + 1 ELSE Total(u)
<1> SUFFICES ASSUME NEW u \in Task
             PROVE  Total(u)' = IF u = t /\ k # "user" THEN Total(u) + 1 ELSE Total(u)
  OBVIOUS
<1>1. \A l \in Kind :
        stored'[u][l] = IF u = t /\ l = k THEN stored[u][l] + 1 ELSE stored[u][l]
  BY StoreType
<1>2. stored[u] \in [Kind -> Nat]
  BY TypeUnfold
<1>3. /\ stored[u]["reply"] \in Nat /\ stored[u]["empty"] \in Nat /\ stored[u]["error"] \in Nat
      /\ k \in {"user", "error", "reply", "empty"}
  BY <1>2 DEF Kind, Answer
<1>4. /\ stored'[u]["reply"] = IF u = t /\ "reply" = k THEN stored[u]["reply"] + 1
                                                      ELSE stored[u]["reply"]
      /\ stored'[u]["empty"] = IF u = t /\ "empty" = k THEN stored[u]["empty"] + 1
                                                      ELSE stored[u]["empty"]
      /\ stored'[u]["error"] = IF u = t /\ "error" = k THEN stored[u]["error"] + 1
                                                      ELSE stored[u]["error"]
  BY <1>1 DEF Kind, Answer
<1> QED BY <1>3, <1>4 DEF Total, Answers, Errors

\* Nothing that is counted changes.
LEMMA CountedKept ==
  ASSUME AInv, UNCHANGED <<stored, chat, relay, ends, unheard>>
  PROVE  Counted' /\ Refused'
BY DEF AInv, Counted, Refused, Total, Answers, Errors, FromRelay, FromChat, Unstored

\* The chat goes on with a message.
LEMMA CountedChat ==
  ASSUME AInv, UNCHANGED <<relay, ends>>, NEW t \in Task,
         \A u \in Task : Total(u)' = IF u = t /\ chat'[t].pc = "done" /\ chat[t].pc = "report"
                                       THEN Total(u) + 1 ELSE Total(u),
         \A u \in Task : u # t => chat'[u].pc = chat[u].pc,
         \A u \in Task : u # t => (u \in unheard' <=> u \in unheard),
         chat[t].pc # "done", unheard \subseteq unheard',
         t \in unheard' => relay[t].pc # "none",
         chat'[t].pc \in {"refused", "report"} => relay[t].pc = "none" \/ t \in unheard'
  PROVE  Counted' /\ Refused'
<1>1. Counted /\ Refused /\ TInv
  BY DEF AInv
<1>2. Refused'
  BY <1>1 DEF Refused
<1>3. ASSUME NEW u \in Task PROVE Total(u)' <= FromRelay(u)' + FromChat(u)'
  <2>1. Total(u) <= FromRelay(u) + FromChat(u) /\ Total(u) \in Nat
    BY <1>1, TotalType DEF Counted
  <2>2. FromRelay(u)' = FromRelay(u) /\ FromRelay(u) \in {0, 1}
    BY DEF FromRelay, Unstored
  <2>3. CASE u = t
    <3>1. FromChat(u) = 0 /\ FromChat(u)' \in {0, 1}
      BY <2>3 DEF FromChat
    <3>2. CASE chat'[t].pc = "done" /\ chat[t].pc = "report"
      <4>1. FromChat(u)' = 1
        BY <1>1, <2>3, <3>2 DEF FromChat, Refused
      <4>2. Total(u)' = Total(u) + 1
        BY <2>3, <3>2
      <4> QED BY <2>1, <2>2, <3>1, <4>1, <4>2
    <3>3. CASE ~(chat'[t].pc = "done" /\ chat[t].pc = "report")
      <4>1. Total(u)' = Total(u)
        BY <3>3
      <4> QED BY <2>1, <2>2, <3>1, <4>1
    <3> QED BY <3>2, <3>3
  <2>4. CASE u # t
    <3>1. FromChat(u)' = FromChat(u) /\ Total(u)' = Total(u)
      BY <2>4 DEF FromChat
    <3> QED BY <2>1, <2>2, <3>1
  <2> QED BY <2>3, <2>4
<1> QED BY <1>2, <1>3 DEF Counted

\* The relay goes on with tasks that have no end yet.
LEMMA CountedRelay ==
  ASSUME AInv, UNCHANGED <<stored, chat, unheard>>, ends \subseteq ends',
         \A u \in Task : \/ relay'[u].pc = relay[u].pc
                         \/ relay[u].pc = "none" /\ relay'[u].pc # "none" /\ chat[u].pc = "chat"
                         \/ relay[u].pc \in {"route", "call"} /\ relay'[u].pc # "none",
         \A e \in ends' : e \in ends \/ relay[e.task].pc \in {"route", "call"},
         \A u \in Task : relay[u].pc # "none" => relay'[u].pc # "none"
  PROVE  Counted' /\ Refused'
<1>1. Counted /\ Refused /\ TInv
  BY DEF AInv
<1>2. ASSUME NEW u \in Task PROVE Total(u)' <= FromRelay(u)' + FromChat(u)'
  <2>1. Total(u) <= FromRelay(u) + FromChat(u) /\ Total(u) \in Nat /\ Total(u)' = Total(u)
    BY <1>1, TotalType DEF Counted, Total, Answers, Errors
  <2>2. FromChat(u)' = FromChat(u) /\ FromChat(u) \in {0, 1}
    BY DEF FromChat
  <2>3. FromRelay(u)' \in {0, 1} /\ FromRelay(u) \in {0, 1}
    BY DEF FromRelay
  <2>4. CASE relay[u].pc = "done"
    <3>1. relay'[u].pc = "done" /\ (Unstored(u)' <=> Unstored(u))
      BY <2>4 DEF Unstored
    <3>2. FromRelay(u)' = FromRelay(u)
      BY <2>4, <3>1 DEF FromRelay
    <3> QED BY <2>1, <2>2, <3>2
  <2>5. CASE relay[u].pc # "done"
    <3>1. FromRelay(u) = 0
      BY <2>5 DEF FromRelay
    <3> QED BY <2>1, <2>2, <2>3, <3>1
  <2> QED BY <2>4, <2>5
<1>3. Refused'
  BY <1>1 DEF Refused
<1> QED BY <1>2, <1>3 DEF Counted


\* An end is handled a step further, or lost.
LEMMA CountedEnd ==
  ASSUME AInv, UNCHANGED <<chat, relay, unheard>>, NEW e \in ends,
         \A u \in Task : Total(u)' = IF u = e.task /\ e.stage = "cleared" /\ ~Unstored(u)'
                                       THEN Total(u) + 1 ELSE Total(u),
         \A f \in ends \ {e} : f \in ends',
         \A f \in ends' : \/ f \in ends
                          \/ /\ f.task = e.task
                             /\ f.stage \in {"sent", "cleared"} =>
                                  e.stage \in {"sent", "cleared"}
  PROVE  Counted' /\ Refused'
<1>1. Counted /\ Refused /\ TInv /\ Ended
  BY DEF AInv, TInv
<1>2. Refused'
  BY <1>1 DEF Refused
<1>3. ASSUME NEW u \in Task PROVE Total(u)' <= FromRelay(u)' + FromChat(u)'
  <2>1. Total(u) <= FromRelay(u) + FromChat(u) /\ Total(u) \in Nat
    BY <1>1, TotalType DEF Counted
  <2>2. FromChat(u)' = FromChat(u) /\ FromChat(u) \in {0, 1}
    BY DEF FromChat
  <2>3. FromRelay(u) \in {0, 1} /\ FromRelay(u)' \in {0, 1}
    BY DEF FromRelay
  <2>4. CASE u = e.task
    <3>1. relay[u].pc = "done"
      BY <1>1, <2>4 DEF Ended
    <3>2. Unstored(u) <=> e.stage \in {"sent", "cleared"}
      BY <1>1, <2>4 DEF Unstored, Ended
    <3>3. ~Unstored(u) => ~Unstored(u)'
      BY <2>4, <3>2 DEF Unstored
    <3>4. FromRelay(u) = (IF Unstored(u) THEN 0 ELSE 1)
          /\ FromRelay(u)' = (IF Unstored(u)' THEN 0 ELSE 1)
      BY <3>1 DEF FromRelay
    <3>5. CASE e.stage = "cleared" /\ ~Unstored(u)'
      <4>1. Unstored(u) /\ Total(u)' = Total(u) + 1
        BY <2>4, <3>2, <3>5
      <4> QED BY <2>1, <2>2, <3>4, <3>5, <4>1
    <3>6. CASE ~(e.stage = "cleared" /\ ~Unstored(u)')
      <4>1. Total(u)' = Total(u)
        BY <3>6
      <4> QED BY <2>1, <2>2, <3>3, <3>4, <4>1
    <3> QED BY <3>5, <3>6
  <2>5. CASE u # e.task
    <3>1. Unstored(u)' <=> Unstored(u)
      BY <2>5 DEF Unstored
    <3>2. FromRelay(u)' = FromRelay(u) /\ Total(u)' = Total(u)
      BY <2>5, <3>1 DEF FromRelay
    <3> QED BY <2>1, <2>2, <3>2
  <2> QED BY <2>4, <2>5
<1> QED BY <1>2, <1>3 DEF Counted

LEMMA TotalKept ==
  ASSUME UNCHANGED stored PROVE \A u \in Task : Total(u)' = Total(u)
BY DEF Total, Answers, Errors

\* The fields of a message that goes on in the chat.
LEMMA ChatFields ==
  ASSUME TInv, NEW t \in Task, NEW pc \in {"title", "chat", "refused", "report", "done"},
         chat' = [chat EXCEPT ![t].pc = pc]
  PROVE  \A u \in Task : chat'[u].pc = IF u = t THEN pc ELSE chat[u].pc
BY TypeUnfold DEF Chatting

LEMMA RelayFields ==
  ASSUME TInv, NEW t \in Task
  PROVE  /\ Relay(t, "done") => \A u \in Task : relay'[u].pc = IF u = t THEN "done"
                                                                      ELSE relay[u].pc
         /\ Relay(t, "call") => \A u \in Task : relay'[u].pc = IF u = t THEN "call"
                                                                      ELSE relay[u].pc
         /\ Relay(t, "route") => \A u \in Task : relay'[u].pc = IF u = t THEN "route"
                                                                       ELSE relay[u].pc
BY TypeUnfold, ConstantTypes DEF Relay

LEMMA AnswerStep == AInv /\ [Next]_vars => AInv'
<1> SUFFICES ASSUME AInv, TInv, [Next]_vars PROVE Counted' /\ Refused'
  BY TypeStep DEF AInv
<1> USE DEF rows, events, ghosts
<1>t. chat \in [Task -> Chatting] /\ relay \in [Task -> Relaying] /\ ends \subseteq End
      /\ stored \in [Task -> [Kind -> Nat]] /\ Placed /\ Ended /\ Refused /\ Counted
  BY TypeUnfold DEF AInv
<1>1. CASE \/ \E c \in Conversation :
                \/ CreateConversation(c) \/ DeleteConversation(c) \/ HandleForeign(c)
                \/ \E e \in Editor : UpdateConversation(e, c) \/ ToolPostMessage(e, c)
           \/ \E e \in Editor : Edit(e)
           \/ \E t \in Task : HandleProgress(t) \/ LoseProgress(t)
           \/ ForwardProgress
           \/ UNCHANGED vars
  BY <1>1, CountedKept
     DEF CreateConversation, DeleteConversation, HandleForeign, UpdateConversation,
         ToolPostMessage, Edit, Post, CopyPosted, SaveEdited, HandleProgress, LoseProgress,
         ForwardProgress, vars
<1>2. ASSUME NEW c \in Conversation, DeleteMessages(c) PROVE Counted' /\ Refused'
  <2>1. \A u \in Task : stored'[u] = IF u \in Of(c) THEN [k \in Kind |-> 0] ELSE stored[u]
    BY <1>2 DEF DeleteMessages
  <2>2. ASSUME NEW u \in Task PROVE Total(u)' <= Total(u) /\ Total(u)' \in Nat
    <3>1. CASE u \in Of(c)
      <4>1. Total(u)' = 0
        BY <2>1, <3>1 DEF Total, Answers, Errors, Kind, Answer
      <4> QED BY <4>1, TotalType
    <3>2. CASE u \notin Of(c)
      <4>1. Total(u)' = Total(u)
        BY <2>1, <3>2 DEF Total, Answers, Errors
      <4> QED BY <4>1, TotalType
    <3> QED BY <3>1, <3>2
  <2>3. ASSUME NEW u \in Task PROVE Total(u)' <= FromRelay(u)' + FromChat(u)'
    <3>1. FromRelay(u)' = FromRelay(u) /\ FromChat(u)' = FromChat(u)
      BY <1>2 DEF DeleteMessages, FromRelay, FromChat, Unstored
    <3>2. Total(u) <= FromRelay(u) + FromChat(u) /\ Total(u) \in Nat
      BY <1>t, TotalType DEF Counted
    <3>3. FromRelay(u) \in Nat /\ FromChat(u) \in Nat
      BY DEF FromRelay, FromChat
    <3> QED BY <2>2, <3>1, <3>2, <3>3
  <2>4. Refused'
    BY <1>t, <1>2 DEF DeleteMessages, Refused
  <2> QED BY <2>3, <2>4 DEF Counted
<1>3. ASSUME NEW t \in Task, NEW c \in Conversation, SendMessage(t, c)
      PROVE  Counted' /\ Refused'
  <2>1. chat[t].pc = "none" /\ chat'[t].pc = "create"
        /\ \A u \in Task : u # t => chat'[u].pc = chat[u].pc
    BY <1>t, <1>3 DEF SendMessage
  <2> QED BY <1>t, <1>3, <2>1, TotalKept, CountedChat DEF SendMessage, Refused
<1>4. ASSUME NEW t \in Task, CreateUserMessage(t) PROVE Counted' /\ Refused'
  <2>1. PICK pc \in {"title", "chat"} : chat' = [chat EXCEPT ![t].pc = pc]
    BY <1>4 DEF CreateUserMessage
  <2>2. \A u \in Task : Total(u)' = Total(u)
    BY <1>4, TotalStore DEF CreateUserMessage, Kind
  <2>3. chat[t].pc = "create" /\ \A u \in Task : chat'[u].pc = IF u = t THEN pc ELSE chat[u].pc
    <3>1. chat[t].pc = "create"
      BY <1>4 DEF CreateUserMessage
    <3>2. \A u \in Task : chat'[u].pc = IF u = t THEN pc ELSE chat[u].pc
      <4>1. pc \in {"title", "chat", "refused", "report", "done"}
        OBVIOUS
      <4> QED BY <2>1, <4>1, ChatFields
    <3> QED BY <3>1, <3>2
  <2> QED BY <1>t, <1>4, <2>1, <2>2, <2>3, CountedChat DEF CreateUserMessage, Refused
<1>5. ASSUME NEW t \in Task, AutoTitle(t) PROVE Counted' /\ Refused'
  <2>1. chat[t].pc = "title"
        /\ \A u \in Task : chat'[u].pc = IF u = t THEN "chat" ELSE chat[u].pc
    BY <1>5, ChatFields DEF AutoTitle
  <2> QED BY <1>t, <1>5, <2>1, TotalKept, CountedChat DEF AutoTitle, Refused
<1>6. ASSUME NEW t \in Task, ChatAccepted(t) PROVE Counted' /\ Refused'
  <2>1. chat[t].pc = "chat"
        /\ \A u \in Task : chat'[u].pc = IF u = t THEN "done" ELSE chat[u].pc
    BY <1>6, ChatFields DEF ChatAccepted
  <2> QED BY <1>t, <1>6, <2>1, TotalKept, CountedChat DEF ChatAccepted, Refused
<1>7. ASSUME NEW t \in Task, ChatRefused(t) PROVE Counted' /\ Refused'
  <2>1. chat[t].pc = "chat"
        /\ \A u \in Task : chat'[u].pc = IF u = t THEN "refused" ELSE chat[u].pc
    BY <1>7, ChatFields DEF ChatRefused
  <2> QED BY <1>t, <1>7, <2>1, TotalKept, CountedChat DEF ChatRefused, Refused
<1>8. ASSUME NEW t \in Task, ChatUnheard(t) PROVE Counted' /\ Refused'
  <2>1. chat[t].pc = "chat"
        /\ \A u \in Task : chat'[u].pc = IF u = t THEN "refused" ELSE chat[u].pc
    BY <1>8, ChatFields DEF ChatUnheard
  <2>2. unheard' = unheard \cup {t} /\ relay[t].pc # "none" /\ UNCHANGED <<stored, relay, ends>>
    BY <1>8 DEF ChatUnheard
  <2> QED BY <2>1, <2>2, TotalKept, CountedChat
<1>9. ASSUME NEW t \in Task, ClearRefused(t) PROVE Counted' /\ Refused'
  <2>1. chat[t].pc = "refused"
        /\ \A u \in Task : chat'[u].pc = IF u = t THEN "report" ELSE chat[u].pc
    BY <1>9, ChatFields DEF ClearRefused
  <2> QED BY <1>t, <1>9, <2>1, TotalKept, CountedChat DEF ClearRefused, Refused
<1>10. ASSUME NEW t \in Task, ReportRefused(t) PROVE Counted' /\ Refused'
  <2>1. chat[t].pc = "report"
        /\ \A u \in Task : chat'[u].pc = IF u = t THEN "done" ELSE chat[u].pc
    BY <1>10, ChatFields DEF ReportRefused
  <2>2. \A u \in Task : Total(u)' = IF u = t THEN Total(u) + 1 ELSE Total(u)
    BY <1>10, TotalStore DEF ReportRefused, Kind
  <2> QED BY <1>t, <1>10, <2>1, <2>2, CountedChat DEF ReportRefused, Refused
<1>11. ASSUME NEW t \in Task, HandleChat(t) PROVE Counted' /\ Refused'
  <2>1. relay[t].pc = "none" /\ chat[t].pc = "chat" /\ UNCHANGED <<stored, chat, unheard, ends>>
        /\ \A u \in Task : relay'[u].pc = IF u = t THEN "route" ELSE relay[u].pc
    BY <1>11, RelayFields DEF HandleChat, EmitProgress
  <2> QED BY <2>1, CountedRelay
<1>e. ASSUME NEW t \in Task, relay[t].pc \in {"route", "call"}, NEW k, EmitEnd(t, k),
             Relay(t, "done"), UNCHANGED <<stored, chat, unheard>>
      PROVE  Counted' /\ Refused'
  <2>1. \A u \in Task : relay'[u].pc = IF u = t THEN "done" ELSE relay[u].pc
    BY <1>e, RelayFields
  <2>2. ends \subseteq ends' /\ \A e \in ends' : e \in ends \/ e.task = t
    BY <1>e DEF EmitEnd
  <2> QED BY <1>e, <2>1, <2>2, CountedRelay
<1>12. ASSUME NEW t \in Task,
              AgentAnswers(t) \/ AgentFails(t) \/ \E k \in {"reply", "error"} : RouteFails(t, k)
       PROVE  Counted' /\ Refused'
  BY <1>e, <1>12 DEF AgentAnswers, AgentFails, RouteFails
<1>13. ASSUME NEW t \in Task, Route(t) \/ Stream(t) \/ Retry(t) PROVE Counted' /\ Refused'
  <2>1. relay[t].pc \in {"route", "call"} /\ UNCHANGED <<stored, chat, unheard, ends>>
    BY <1>13 DEF Route, Stream, Retry, EmitProgress
  <2>2. \A u \in Task : relay'[u].pc = IF u = t THEN "call" ELSE relay[u].pc
    <3>1. CASE Route(t)
      BY <3>1, RelayFields DEF Route
    <3>2. CASE Stream(t) \/ Retry(t)
      BY <1>t, <3>2 DEF Stream, Retry, Relaying
    <3> QED BY <1>13, <3>1, <3>2
  <2> QED BY <2>1, <2>2, CountedRelay
<1>14. ASSUME NEW e \in ends, ClearEnded(e) PROVE Counted' /\ Refused'
  <2>1. e.stage = "sent" /\ UNCHANGED <<stored, chat, relay, unheard>> /\ Step(e, "cleared")
    BY <1>14 DEF ClearEnded
  <2>2. [e EXCEPT !.stage = "cleared"].task = e.task
    BY <1>t DEF End
  <2>3. /\ \A f \in ends \ {e} : f \in ends'
        /\ \A f \in ends' : f \in ends \/ f.task = e.task
    BY <2>1, <2>2 DEF Step
  <2> QED BY <2>1, <2>3, TotalKept, CountedEnd
<1>15. ASSUME NEW e \in ends, StoreAnswer(e) PROVE Counted' /\ Refused'
  <2>1. e.stage = "cleared" /\ Store(e.task, e.kind) /\ UNCHANGED <<chat, relay, unheard>>
    BY <1>15 DEF StoreAnswer
  <2>2. e.task \in Task /\ e.kind \in Kind /\ e.kind # "user"
    BY <1>t DEF End
  <2> DEFINE s == [e EXCEPT !.stage = "stored"]
  <2>3. s.task = e.task /\ s.stage = "stored"
    BY <1>t DEF End
  <2>4. ends' = ends \ {e} \/ ends' = (ends \ {e}) \cup {s}
    BY <1>15 DEF StoreAnswer, Step
  <2> HIDE DEF s
  <2>5. ~Unstored(e.task)'
    BY <1>t, <2>3, <2>4 DEF Unstored, Ended
  <2>6. \A u \in Task : Total(u)' = IF u = e.task THEN Total(u) + 1 ELSE Total(u)
    BY <2>1, <2>2, TotalStore
  <2>7. \A u \in Task : Total(u)' = IF u = e.task /\ e.stage = "cleared" /\ ~Unstored(u)'
                                      THEN Total(u) + 1 ELSE Total(u)
    BY <2>1, <2>5, <2>6
  <2>8. /\ \A f \in ends \ {e} : f \in ends'
        /\ \A f \in ends' : f \in ends \/ f.task = e.task
    BY <2>3, <2>4
  <2> QED BY <2>1, <2>7, <2>8, CountedEnd
<1>16. ASSUME NEW e \in ends, CopyAnswered(e) \/ SaveAnswered(e) PROVE Counted' /\ Refused'
  <2>1. e.stage \in {"stored", "copied"} /\ UNCHANGED <<stored, chat, relay, unheard>>
    BY <1>16 DEF CopyAnswered, SaveAnswered
  <2> DEFINE s == [e EXCEPT !.stage = "copied"]
  <2>2. s.task = e.task /\ s.stage = "copied"
    BY <1>t DEF End
  <2>3. ends' = ends \ {e} \/ ends' = (ends \ {e}) \cup {s}
    BY <1>16 DEF CopyAnswered, SaveAnswered, Step
  <2> HIDE DEF s
  <2>4. /\ \A f \in ends \ {e} : f \in ends'
        /\ \A f \in ends' : f \in ends \/ (f.task = e.task /\ f.stage = "copied")
    BY <2>2, <2>3
  <2> QED BY <2>1, <2>4, TotalKept, CountedEnd
<1>17. ASSUME NEW e \in ends, LoseEnd(e) PROVE Counted' /\ Refused'
  <2>1. e.stage = "sent" /\ UNCHANGED <<stored, chat, relay, unheard>> /\ ends' = ends \ {e}
    BY <1>17 DEF LoseEnd
  <2> QED BY <2>1, TotalKept, CountedEnd
<1>18. CASE RelayStops
  <2>1. UNCHANGED <<stored, chat, unheard, ends>>
        /\ relay' = [t \in Task |-> IF Active(t) THEN At("done") ELSE relay[t]]
    BY <1>18 DEF RelayStops
  <2>2. \A u \in Task : relay'[u].pc = IF Active(u) THEN "done" ELSE relay[u].pc
    BY <2>1, ConstantTypes
  <2>3. \A u \in Task : Active(u) <=> relay[u].pc \in {"route", "call"}
    BY <1>t DEF Active, Relaying
  <2> QED BY <2>1, <2>2, <2>3, CountedRelay
<1>19. CASE ChatStops
  <2>1. UNCHANGED <<stored, relay, unheard>> /\ ends' = {e \in ends : e.stage = "sent"}
        /\ chat' = [t \in Task |-> IF Sending(t) THEN [chat[t] EXCEPT !.pc = "done"]
                                                 ELSE chat[t]]
    BY <1>19 DEF ChatStops
  <2>2. \A u \in Task : chat'[u].pc = IF Sending(u) THEN "done" ELSE chat[u].pc
    BY <1>t, <2>1 DEF Chatting
  <2>3. Refused'
    BY <1>t, <2>1, <2>2 DEF Refused, Sending
  <2>4. ASSUME NEW u \in Task PROVE Total(u)' <= FromRelay(u)' + FromChat(u)'
    <3>1. Total(u) <= FromRelay(u) + FromChat(u) /\ Total(u) \in Nat /\ Total(u)' = Total(u)
      BY <1>t, <2>1, TotalType, TotalKept DEF Counted
    <3>2. Unstored(u)' => Unstored(u)
      BY <2>1 DEF Unstored
    <3>3. FromRelay(u) <= FromRelay(u)' /\ FromRelay(u) \in {0, 1} /\ FromRelay(u)' \in {0, 1}
      BY <2>1, <3>2 DEF FromRelay
    <3>4. FromChat(u) <= FromChat(u)' /\ FromChat(u) \in {0, 1} /\ FromChat(u)' \in {0, 1}
      BY <2>1, <2>2 DEF FromChat, Sending
    <3> QED BY <3>1, <3>3, <3>4
  <2> QED BY <2>3, <2>4 DEF Counted
<1> QED BY <1>1, <1>2, <1>3, <1>4, <1>5, <1>6, <1>7, <1>8, <1>9, <1>10, <1>11, <1>12, <1>13,
           <1>14, <1>15, <1>16, <1>17, <1>18, <1>19
        DEF Next, Chat, RelayTask, HandleEnd

LEMMA AnswerOnce == AInv => OneAnswer
<1> SUFFICES ASSUME AInv, NEW t \in Task
             PROVE  Answers(t) + Errors(t) <= (IF t \in unheard THEN 2 ELSE 1)
  BY DEF OneAnswer
<1>1. Total(t) <= FromRelay(t) + FromChat(t) /\ Total(t) \in Nat
  BY TotalType DEF AInv, Counted
<1>2. t \notin unheard => FromRelay(t) + FromChat(t) <= 1
  BY DEF FromRelay, FromChat
<1>3. FromRelay(t) \in {0, 1} /\ FromChat(t) \in {0, 1}
  BY DEF FromRelay, FromChat
<1> QED BY <1>1, <1>2, <1>3 DEF Total

\* A user's message gets one answer or one report of a failure, whatever fails,
\* is repeated, or arrives out of order; a second one only where the chat did
\* not hear that the relay accepted the message (processChat of the relay,
\* SendMessage and HandleRelayProgress of the chat).
THEOREM AnsweredOnce == Spec => []OneAnswer
<1>1. Init => AInv
  BY TypeInit, AnswerInit DEF AInv
<1> QED BY <1>1, AnswerStep, AnswerOnce, PTL DEF Spec


(***************************************************************************)
(* A conversation deleted at rest.  Unless it was used while it was        *)
(* deleted, nothing is under way in it and it holds nothing, from the      *)
(* deletion of its messages on.                                            *)
(***************************************************************************)
Gone(c) == c \in deleting \/ conv[c] = "deleted"
Rested == \A c \in Conversation \ raced : Gone(c) => Idle(c) /\ Emptied(c)

GInv == TInv /\ Rested

LEMMA RestInit == Init => Rested
BY DEF Init, Rested, Gone

\* What is under way elsewhere, or comes to its end, leaves it at rest.
LEMMA RestKept ==
  ASSUME NEW c \in Conversation, Idle(c), Emptied(c),
         \A t \in Task : chat'[t].conv = c =>
           /\ chat[t].conv = c /\ (chat'[t].pc = chat[t].pc \/ chat'[t].pc = "done")
           /\ relay'[t].pc = relay[t].pc \/ relay'[t].pc = "done"
           /\ stored'[t] = stored[t],
         \A e \in ends' : chat'[e.task].conv = c => \E f \in ends : f.task = e.task,
         \A d \in Editor : \/ editor'[d] = editor[d]
                           \/ editor'[d].pc = "idle" \/ editor'[d].conv # c,
         c \in posted' => c \in posted
  PROVE  Idle(c)' /\ Emptied(c)'
<1>1. \A t \in Task : chat'[t].conv = c =>
        /\ ~(Sending(t)') /\ ~(Active(t)') /\ ~(Ending(t)')
        /\ \A k \in Kind : stored'[t][k] = 0
  BY DEF Idle, Emptied, Of, Sending, Active, Ending
<1>2. ~(Editing(c)')
  BY DEF Idle, Editing
<1>3. Idle(c)'
  BY <1>1, <1>2 DEF Idle, Of
<1>4. Emptied(c)'
  BY <1>1 DEF Emptied, Of, Kind, Answer
<1> QED BY <1>3, <1>4

LEMMA RestSame ==
  ASSUME NEW c \in Conversation, Idle(c), Emptied(c),
         UNCHANGED <<chat, relay, ends, editor, stored, posted>>
  PROVE  Idle(c)' /\ Emptied(c)'
BY DEF Idle, Emptied, Of, Editing, Sending, Active, Ending, Kind, Answer

\* In a step, what was at rest stays so, unless it overlaps.
LEMMA RestGoesOn ==
  ASSUME TInv, [Next]_vars, NEW c \in Conversation, Gone(c), Idle(c), Emptied(c),
         c \notin raced' \/ conv[c] = "deleted"
  PROVE  Idle(c)' /\ Emptied(c)' /\ ~(Live(c)' /\ conv[c] = "deleted")
<1> USE DEF rows, events, ghosts
<1>t. /\ chat \in [Task -> Chatting] /\ relay \in [Task -> Relaying] /\ ends \subseteq End
      /\ stored \in [Task -> [Kind -> Nat]] /\ editor \in [Editor -> Edits]
      /\ conv \in [Conversation -> State] /\ Placed /\ Ended
  BY TypeUnfold
<1>i. /\ \A t \in Task : chat[t].conv = c => chat[t].pc \in {"none", "done"}
      /\ \A t \in Task : chat[t].conv = c => relay[t].pc \in {"none", "done"}
      /\ \A e \in ends : chat[e.task].conv # c
      /\ \A d \in Editor : editor[d].pc = "idle" \/ editor[d].conv # c
  <2>1. \A t \in Task : chat[t].conv = c => ~Sending(t) /\ ~Active(t) /\ ~Ending(t)
    BY DEF Idle, Of
  <2>2. \A e \in ends : e.task \in Task /\ Ending(e.task)
    BY <1>t DEF End, Ending
  <2>3. \A d \in Editor : editor[d].pc = "idle" \/ editor[d].conv # c
    BY DEF Idle, Editing
  <2>4. \A e \in ends : chat[e.task].conv # c
    BY <2>1, <2>2
  <2>5. \A t \in Task : chat[t].conv = c => /\ chat[t].pc \in {"none", "done"}
                                           /\ relay[t].pc \in {"none", "done"}
    BY <2>1 DEF Sending, Active
  <2> QED BY <2>3, <2>4, <2>5

<1>s. \* nothing under way in any conversation changes
      ASSUME UNCHANGED <<chat, relay, ends, editor, stored, posted>>,
             Live(c)' => conv[c] # "deleted"
      PROVE  Idle(c)' /\ Emptied(c)' /\ ~(Live(c)' /\ conv[c] = "deleted")
  BY <1>s, RestSame
<1>c. \* a message goes on in the chat
      ASSUME NEW t \in Task, chat[t].conv # c, chat'[t].conv = chat[t].conv,
             \A u \in Task : u # t => chat'[u] = chat[u] /\ stored'[u] = stored[u],
             UNCHANGED <<relay, ends, editor, posted>>, conv'[c] = conv[c]
      PROVE  Idle(c)' /\ Emptied(c)' /\ ~(Live(c)' /\ conv[c] = "deleted")
  <2>1. \A e \in ends' : chat'[e.task].conv = c => \E f \in ends : f.task = e.task
    BY <1>c
  <2>2. Idle(c)' /\ Emptied(c)'
    BY <1>c, <2>1, RestKept
  <2> QED BY <1>c, <2>2 DEF Live
<1>d. \* an editor goes on
      ASSUME NEW d \in Editor, editor'[d].pc = "idle" \/ editor'[d].conv # c,
             \A f \in Editor : f # d => editor'[f] = editor[f], c \in posted' => c \in posted,
             UNCHANGED <<chat, relay, ends, stored>>, conv'[c] = conv[c]
      PROVE  Idle(c)' /\ Emptied(c)' /\ ~(Live(c)' /\ conv[c] = "deleted")
  <2>1. \A e \in ends' : chat'[e.task].conv = c => \E f \in ends : f.task = e.task
    BY <1>d
  <2>2. Idle(c)' /\ Emptied(c)'
    BY <1>d, <2>1, RestKept
  <2> QED BY <1>d, <2>2 DEF Live
<1>r. \* a task goes on in the relay
      ASSUME NEW t \in Task, chat[t].conv # c, \A u \in Task : u # t => relay'[u] = relay[u],
             \A e \in ends' : e \in ends \/ e.task = t,
             UNCHANGED <<chat, editor, stored, posted>>, conv'[c] = conv[c]
      PROVE  Idle(c)' /\ Emptied(c)' /\ ~(Live(c)' /\ conv[c] = "deleted")
  <2>1. \A e \in ends' : chat'[e.task].conv = c => \E f \in ends : f.task = e.task
    BY <1>r
  <2>2. Idle(c)' /\ Emptied(c)'
    BY <1>r, <2>1, RestKept
  <2> QED BY <1>r, <2>2 DEF Live
<1>e. \* an end is handled
      ASSUME NEW e \in ends, \A f \in ends' : f \in ends \/ f.task = e.task,
             \A u \in Task : u # e.task => stored'[u] = stored[u],
             UNCHANGED <<chat, relay, editor, posted>>, conv'[c] = conv[c]
      PROVE  Idle(c)' /\ Emptied(c)' /\ ~(Live(c)' /\ conv[c] = "deleted")
  <2>1. \A f \in ends' : chat'[f.task].conv = c => \E g \in ends : g.task = f.task
    BY <1>e
  <2>2. chat[e.task].conv # c
    BY <1>i
  <2>3. Idle(c)' /\ Emptied(c)'
    BY <1>e, <2>1, <2>2, RestKept
  <2> QED BY <1>e, <2>3 DEF Live
<1>1. CASE \/ \E b \in Conversation : CreateConversation(b) \/ HandleForeign(b)
           \/ \E t \in Task : HandleProgress(t) \/ LoseProgress(t)
           \/ ForwardProgress
           \/ UNCHANGED vars
  <2>1. UNCHANGED <<chat, relay, ends, editor, stored, posted>>
    BY <1>1 DEF CreateConversation, HandleForeign, HandleProgress, LoseProgress,
                ForwardProgress, vars
  <2>2. Live(c)' => conv[c] # "deleted"
    BY <1>t, <1>1 DEF CreateConversation, HandleForeign, HandleProgress, LoseProgress,
                      ForwardProgress, vars, Live
  <2> QED BY <1>s, <2>1, <2>2
<1>2. ASSUME NEW b \in Conversation, DeleteConversation(b)
      PROVE  Idle(c)' /\ Emptied(c)' /\ ~(Live(c)' /\ conv[c] = "deleted")
  <2>1. Live(c)' => conv[c] # "deleted"
    BY <1>t, <1>2 DEF DeleteConversation, Live
  <2> QED BY <1>2, <1>s, <2>1 DEF DeleteConversation
<1>3. ASSUME NEW b \in Conversation, DeleteMessages(b)
      PROVE  Idle(c)' /\ Emptied(c)' /\ ~(Live(c)' /\ conv[c] = "deleted")
  <2>1. \A t \in Task : chat[t].conv = c => \A k \in Kind : stored[t][k] = 0
    BY DEF Emptied, Of
  <2>2. \A t \in Task : \A k \in Kind : stored'[t][k] = 0 \/ stored'[t] = stored[t]
    BY <1>3 DEF DeleteMessages
  <2>3. UNCHANGED <<chat, relay, ends, editor, conv>> /\ posted' = posted \ {b}
    BY <1>3 DEF DeleteMessages
  <2>4. Emptied(c)'
    BY <2>1, <2>2, <2>3 DEF Emptied, Of, Kind, Answer
  <2>5. Idle(c)'
    BY <2>3 DEF Idle, Of, Editing, Sending, Active, Ending
  <2> QED BY <2>3, <2>4, <2>5 DEF Live
<1>4. ASSUME NEW t \in Task, NEW b \in Conversation, SendMessage(t, b)
      PROVE  Idle(c)' /\ Emptied(c)' /\ ~(Live(c)' /\ conv[c] = "deleted")
  <2>1. b # c
    BY <1>4 DEF SendMessage, Find, Gone, Live
  <2>2. /\ chat'[t].conv = b /\ relay[t].pc = "none" /\ conv' = conv
        /\ \A u \in Task : u # t => chat'[u] = chat[u]
        /\ UNCHANGED <<relay, ends, editor, stored, posted>>
    BY <1>t, <1>4 DEF SendMessage, Placed
  <2>3. \A e \in ends' : chat'[e.task].conv = c => \E f \in ends : f.task = e.task
    BY <2>2
  <2>4. Idle(c)' /\ Emptied(c)'
    BY <2>1, <2>2, <2>3, RestKept
  <2> QED BY <2>2, <2>4 DEF Live
<1>5. ASSUME NEW t \in Task,
             Chat(t) \/ ChatRefused(t) \/ ChatUnheard(t)
      PROVE  Idle(c)' /\ Emptied(c)' /\ ~(Live(c)' /\ conv[c] = "deleted")
  <2>1. chat[t].pc \notin {"none", "done"}
    BY <1>5 DEF Chat, CreateUserMessage, AutoTitle, ChatAccepted, ChatRefused, ChatUnheard,
                ClearRefused, ReportRefused
  <2>2. chat[t].conv # c
    BY <1>i, <2>1
  <2>3. PICK pc : chat' = [chat EXCEPT ![t].pc = pc]
    BY <1>5 DEF Chat, CreateUserMessage, AutoTitle, ChatAccepted, ChatRefused, ChatUnheard,
                ClearRefused, ReportRefused
  <2>4. chat'[t].conv = chat[t].conv /\ \A u \in Task : u # t => chat'[u] = chat[u]
    BY <1>t, <2>3 DEF Chatting
  <2>5. UNCHANGED <<relay, ends, editor, posted>>
    BY <1>5 DEF Chat, CreateUserMessage, AutoTitle, ChatAccepted, ChatRefused, ChatUnheard,
                ClearRefused, ReportRefused
  <2>6. stored' = stored \/ \E k \in Kind : Store(t, k)
    BY <1>5 DEF Chat, CreateUserMessage, AutoTitle, ChatAccepted, ChatRefused, ChatUnheard,
                ClearRefused, ReportRefused, Kind
  <2>7. \A u \in Task : u # t => stored'[u] = stored[u]
    BY <1>t, <2>6 DEF Store
  <2>8. conv' = conv \/ conv' = [conv EXCEPT ![chat[t].conv] = "live"]
    BY <1>5 DEF Chat, CreateUserMessage, AutoTitle, ChatAccepted, ChatRefused, ChatUnheard,
                ClearRefused, ReportRefused, SaveConversation
  <2>9. conv'[c] = conv[c]
    BY <1>t, <2>2, <2>8
  <2> QED BY <1>c, <2>2, <2>4, <2>5, <2>7, <2>9
<1>6. ASSUME NEW d \in Editor, NEW b \in Conversation,
             UpdateConversation(d, b) \/ ToolPostMessage(d, b)
      PROVE  Idle(c)' /\ Emptied(c)' /\ ~(Live(c)' /\ conv[c] = "deleted")
  <2>1. b # c
    BY <1>6 DEF UpdateConversation, ToolPostMessage, Find, Gone, Live
  <2>2. editor'[d].conv = b /\ \A f \in Editor : f # d => editor'[f] = editor[f]
    BY <1>t, <1>6 DEF UpdateConversation, ToolPostMessage
  <2>3. UNCHANGED <<chat, relay, ends, stored, posted, conv>>
    BY <1>6 DEF UpdateConversation, ToolPostMessage
  <2> QED BY <1>d, <2>1, <2>2, <2>3
<1>7. ASSUME NEW d \in Editor, Edit(d)
      PROVE  Idle(c)' /\ Emptied(c)' /\ ~(Live(c)' /\ conv[c] = "deleted")
  <2>1. editor[d].pc # "idle"
    BY <1>7 DEF Edit, Post, CopyPosted, SaveEdited
  <2>2. editor[d].conv # c
    BY <1>i, <2>1
  <2>3. editor'[d].pc = "idle" \/ editor'[d].conv = editor[d].conv
    BY <1>t, <1>7 DEF Edit, Post, CopyPosted, SaveEdited, NoEdit, Edits
  <2>4. \A f \in Editor : f # d => editor'[f] = editor[f]
    BY <1>t, <1>7 DEF Edit, Post, CopyPosted, SaveEdited
  <2>5. UNCHANGED <<chat, relay, ends, stored>> /\ (c \in posted' => c \in posted)
    BY <1>7, <2>2 DEF Edit, Post, CopyPosted, SaveEdited
  <2>6. conv' = conv \/ conv' = [conv EXCEPT ![editor[d].conv] = "live"]
    BY <1>7 DEF Edit, Post, CopyPosted, SaveEdited, SaveConversation
  <2>7. conv'[c] = conv[c]
    BY <1>t, <2>2, <2>6
  <2> QED BY <1>d, <2>2, <2>3, <2>4, <2>5, <2>7
<1>8. ASSUME NEW t \in Task, HandleChat(t) \/ RelayTask(t)
      PROVE  Idle(c)' /\ Emptied(c)' /\ ~(Live(c)' /\ conv[c] = "deleted")
  <2>1. chat[t].pc = "chat" \/ relay[t].pc \in {"route", "call"}
    BY <1>8 DEF HandleChat, RelayTask, Route, Stream, Retry, AgentAnswers, AgentFails, RouteFails
  <2>2. chat[t].conv # c
    BY <1>i, <2>1
  <2>3. \A u \in Task : u # t => relay'[u] = relay[u]
    BY <1>t, <1>8 DEF HandleChat, RelayTask, Route, Stream, Retry, AgentAnswers, AgentFails,
                      RouteFails, Relay
  <2>4. \A e \in ends' : e \in ends \/ e.task = t
    BY <1>8 DEF HandleChat, RelayTask, Route, Stream, Retry, AgentAnswers, AgentFails,
                RouteFails, EmitProgress, EmitEnd
  <2>5. UNCHANGED <<chat, editor, stored, posted, conv>>
    BY <1>8 DEF HandleChat, RelayTask, Route, Stream, Retry, AgentAnswers, AgentFails,
                RouteFails
  <2> QED BY <1>r, <2>2, <2>3, <2>4, <2>5
<1>9. ASSUME NEW e \in ends, HandleEnd(e) \/ LoseEnd(e)
      PROVE  Idle(c)' /\ Emptied(c)' /\ ~(Live(c)' /\ conv[c] = "deleted")
  <2>1. e.task \in Task /\ e.kind \in Kind /\ chat[e.task].conv # c
        /\ \A stage : [e EXCEPT !.stage = stage].task = e.task
    BY <1>t, <1>i DEF End
  <2>2. \A f \in ends' : f \in ends \/ f.task = e.task
    BY <1>9, <2>1 DEF HandleEnd, ClearEnded, StoreAnswer, CopyAnswered, SaveAnswered,
                      LoseEnd, Step
  <2>3. \A u \in Task : u # e.task => stored'[u] = stored[u]
    BY <1>t, <1>9, <2>1 DEF HandleEnd, ClearEnded, StoreAnswer, CopyAnswered, SaveAnswered,
                            LoseEnd, Store
  <2>4. UNCHANGED <<chat, relay, editor, posted>>
    BY <1>9 DEF HandleEnd, ClearEnded, StoreAnswer, CopyAnswered, SaveAnswered, LoseEnd
  <2>5. conv' = conv \/ conv' = [conv EXCEPT ![chat[e.task].conv] = "live"]
    BY <1>9 DEF HandleEnd, ClearEnded, StoreAnswer, CopyAnswered, SaveAnswered, LoseEnd,
                SaveConversation
  <2>6. conv'[c] = conv[c]
    BY <1>t, <2>1, <2>5
  <2> QED BY <1>e, <2>2, <2>3, <2>4, <2>6
<1>10. CASE RelayStops
  <2>1. UNCHANGED <<chat, ends, editor, stored, posted, conv>>
        /\ relay' = [t \in Task |-> IF Active(t) THEN At("done") ELSE relay[t]]
    BY <1>10 DEF RelayStops
  <2>2. \A t \in Task : relay'[t].pc = "done" \/ relay'[t] = relay[t]
    BY <2>1, ConstantTypes
  <2>3. \A e \in ends' : chat'[e.task].conv = c => \E f \in ends : f.task = e.task
    BY <2>1
  <2>4. Idle(c)' /\ Emptied(c)'
    BY <2>1, <2>2, <2>3, RestKept
  <2> QED BY <2>1, <2>4 DEF Live
<1>11. CASE ChatStops
  <2>1. /\ UNCHANGED <<relay, stored, posted, conv>> /\ ends' = {e \in ends : e.stage = "sent"}
        /\ chat' = [t \in Task |-> IF Sending(t) THEN [chat[t] EXCEPT !.pc = "done"]
                                                 ELSE chat[t]]
        /\ editor' = [e \in Editor |-> NoEdit]
    BY <1>11 DEF ChatStops
  <2>2. \A t \in Task : /\ chat'[t].conv = chat[t].conv
                        /\ chat'[t].pc = chat[t].pc \/ chat'[t].pc = "done"
    BY <1>t, <2>1 DEF Chatting
  <2>3. \A d \in Editor : editor'[d].pc = "idle"
    BY <2>1 DEF NoEdit
  <2>4. \A e \in ends' : chat'[e.task].conv = c => \E f \in ends : f.task = e.task
    BY <2>1
  <2>5. Idle(c)' /\ Emptied(c)'
    BY <2>1, <2>2, <2>3, <2>4, RestKept
  <2> QED BY <2>1, <2>5 DEF Live
<1> QED BY <1>1, <1>2, <1>3, <1>4, <1>5, <1>6, <1>7, <1>8, <1>9, <1>10, <1>11
        DEF Next


\* A conversation that begins to be deleted is at rest, or overlaps.
LEMMA RestBegins ==
  ASSUME TInv, [Next]_vars, NEW c \in Conversation, c \notin raced', ~Gone(c), Gone(c)'
  PROVE  Idle(c)' /\ Emptied(c)'
<1> USE DEF rows, events, ghosts
<1>t. conv \in [Conversation -> State] /\ chat \in [Task -> Chatting] /\ deleting \subseteq Conversation
  BY TypeUnfold
<1>1. ASSUME NEW b \in Conversation, DeleteMessages(b) PROVE Idle(c)' /\ Emptied(c)'
  <2>1. b = c
    BY <1>1 DEF DeleteMessages, Gone
  <2>2. Idle(c)
    BY <1>1, <2>1 DEF DeleteMessages, Overlapped
  <2>3. UNCHANGED <<chat, relay, ends, editor>>
    BY <1>1 DEF DeleteMessages
  <2>4. Idle(c)'
    BY <2>2, <2>3 DEF Idle, Of, Editing, Sending, Active, Ending
  <2>5. Emptied(c)'
    BY <1>1, <2>1, <2>3 DEF DeleteMessages, Emptied, Of, Kind, Answer
  <2> QED BY <2>4, <2>5
<1>2. ASSUME deleting' = deleting \/ deleting' = {},
             \A b \in Conversation : conv'[b] = "deleted" => conv[b] = "deleted"
      PROVE  FALSE
  BY <1>2 DEF Gone
<1>3. ASSUME conv' = conv \/ \E b : conv' = [conv EXCEPT ![b] = "live"]
      PROVE  \A b \in Conversation : conv'[b] = "deleted" => conv[b] = "deleted"
  BY <1>t, <1>3
<1>4. ASSUME NEW b \in Conversation, DeleteConversation(b) PROVE FALSE
  <2>1. b = c
    BY <1>t, <1>4 DEF DeleteConversation, Gone
  <2> QED BY <1>4, <2>1 DEF DeleteConversation, Gone
<1>5. CASE \/ \E b \in Conversation :
                \/ CreateConversation(b) \/ HandleForeign(b)
                \/ \E t \in Task : SendMessage(t, b)
                \/ \E d \in Editor : UpdateConversation(d, b) \/ ToolPostMessage(d, b)
           \/ \E d \in Editor : Edit(d)
           \/ ForwardProgress \/ RelayStops \/ ChatStops \/ UNCHANGED vars
  <2>1. deleting' = deleting \/ deleting' = {}
    BY <1>5 DEF CreateConversation, HandleForeign, SendMessage, UpdateConversation,
                ToolPostMessage, Edit, Post, CopyPosted, SaveEdited, ForwardProgress,
                RelayStops, ChatStops, vars
  <2>2. conv' = conv \/ \E b : conv' = [conv EXCEPT ![b] = "live"]
    BY <1>5 DEF CreateConversation, HandleForeign, SendMessage, UpdateConversation,
                ToolPostMessage, Edit, Post, CopyPosted, SaveEdited, ForwardProgress,
                RelayStops, ChatStops, vars, SaveConversation
  <2> QED BY <1>2, <1>3, <2>1, <2>2
<1>6. CASE \/ \E t \in Task : \/ Chat(t) \/ ChatRefused(t) \/ ChatUnheard(t)
                              \/ HandleChat(t) \/ RelayTask(t)
                              \/ HandleProgress(t) \/ LoseProgress(t)
           \/ \E e \in ends : HandleEnd(e) \/ LoseEnd(e)
  <2>1. deleting' = deleting
    BY <1>6 DEF Chat, CreateUserMessage, AutoTitle, ChatAccepted, ChatRefused, ChatUnheard,
                ClearRefused, ReportRefused, HandleChat, RelayTask, Route, Stream, Retry,
                AgentAnswers, AgentFails, RouteFails, HandleProgress, LoseProgress, HandleEnd,
                ClearEnded, StoreAnswer, CopyAnswered, SaveAnswered, LoseEnd
  <2>2. conv' = conv \/ \E b : conv' = [conv EXCEPT ![b] = "live"]
    BY <1>6 DEF Chat, CreateUserMessage, AutoTitle, ChatAccepted, ChatRefused, ChatUnheard,
                ClearRefused, ReportRefused, HandleChat, RelayTask, Route, Stream, Retry,
                AgentAnswers, AgentFails, RouteFails, HandleProgress, LoseProgress, HandleEnd,
                ClearEnded, StoreAnswer, CopyAnswered, SaveAnswered, LoseEnd, SaveConversation
  <2> QED BY <1>2, <1>3, <2>1, <2>2
<1> QED BY <1>1, <1>4, <1>5, <1>6 DEF Next

\* What has overlapped a deletion stays marked.
LEMMA RacedGrows == ASSUME [Next]_vars PROVE raced \subseteq raced'
<1> USE DEF rows, events, ghosts
<1>1. CASE \/ \E c \in Conversation :
                \/ CreateConversation(c) \/ DeleteMessages(c) \/ DeleteConversation(c)
                \/ HandleForeign(c)
                \/ \E t \in Task : SendMessage(t, c)
                \/ \E e \in Editor : UpdateConversation(e, c) \/ ToolPostMessage(e, c)
           \/ \E e \in Editor : Edit(e)
           \/ ForwardProgress \/ RelayStops \/ ChatStops \/ UNCHANGED vars
  BY <1>1 DEF CreateConversation, DeleteMessages, DeleteConversation, HandleForeign, SendMessage,
              UpdateConversation, ToolPostMessage, Edit, Post, CopyPosted, SaveEdited,
              ForwardProgress, RelayStops, ChatStops, vars, Find, Overlapped
<1>2. CASE \/ \E t \in Task : \/ Chat(t) \/ ChatRefused(t) \/ ChatUnheard(t)
                              \/ HandleChat(t) \/ RelayTask(t)
                              \/ HandleProgress(t) \/ LoseProgress(t)
           \/ \E e \in ends : HandleEnd(e) \/ LoseEnd(e)
  BY <1>2 DEF Chat, CreateUserMessage, AutoTitle, ChatAccepted, ChatRefused, ChatUnheard,
              ClearRefused, ReportRefused, HandleChat, RelayTask, Route, Stream, Retry,
              AgentAnswers, AgentFails, RouteFails, HandleProgress, LoseProgress, HandleEnd,
              ClearEnded, StoreAnswer, CopyAnswered, SaveAnswered, LoseEnd
<1> QED BY <1>1, <1>2 DEF Next

LEMMA RestStep == GInv /\ [Next]_vars => GInv'
<1> SUFFICES ASSUME TInv, Rested, [Next]_vars, NEW c \in Conversation, c \notin raced', Gone(c)'
             PROVE  Idle(c)' /\ Emptied(c)'
  BY TypeStep DEF GInv, Rested
<1>1. c \notin raced
  BY RacedGrows
<1>2. CASE Gone(c)
  BY <1>1, <1>2, RestGoesOn DEF Rested
<1>3. CASE ~Gone(c)
  BY <1>3, RestBegins
<1> QED BY <1>2, <1>3

LEMMA StaysStep ==
  GInv /\ [Next]_vars =>
    [\A c \in Conversation \ raced : conv[c] = "deleted" => ~Live(c)']_vars
BY RestGoesOn DEF GInv, Rested, Gone

\* A conversation that is deleted while nothing uses it stays deleted, and holds
\* no message, although handlers write it back whole (DeleteConversation,
\* UpdateConversation, SendMessage, ToolPostMessage and HandleRelayProgress).
THEOREM DeletedStays == Spec => StaysDeleted
<1>1. Init => GInv
  BY TypeInit, RestInit DEF GInv
<1>2. GInv => \A c \in Conversation \ raced : conv[c] = "deleted" => Emptied(c)
  BY DEF GInv, Rested, Gone
<1> QED BY <1>1, <1>2, RestStep, StaysStep, PTL DEF Spec, StaysDeleted

(***************************************************************************)
(* None dropped.  Once the relay or the chat is through with a message,    *)
(* something of it is stored, its end is lost, or its conversation is      *)
(* being deleted, deleted, or was while it was used.                       *)
(***************************************************************************)
Settled(t) ==
  \/ Total(t) > 0
  \/ t \in lost
  \/ Gone(chat[t].conv) \/ chat[t].conv \in raced
Finished(t) ==
  \/ relay[t].pc = "done" /\ ~Unstored(t)
  \/ chat[t].pc = "done" /\ relay[t].pc = "none"
Through == \A t \in Task : Finished(t) => Settled(t)

DInv == GInv /\ Through

LEMMA ThroughInit == Init => Through
BY DEF Init, Through, Finished, NoMessage, At

\* What is gone stays so, or has been used meanwhile.
LEMMA GoneStays ==
  ASSUME GInv, [Next]_vars, NEW c \in Conversation, Gone(c)
  PROVE  Gone(c)' \/ c \in raced'
<1> USE DEF rows, events, ghosts
<1>t. conv \in [Conversation -> State] /\ deleting \subseteq Conversation
  BY TypeUnfold DEF GInv
<1>1. \/ conv' = conv \/ \E b : conv' = [conv EXCEPT ![b] = "live"]
      \/ \E b \in deleting : conv' = [conv EXCEPT ![b] = "deleted"]
  <2>1. CASE \/ \E b \in Conversation :
                  \/ CreateConversation(b) \/ DeleteMessages(b) \/ DeleteConversation(b)
                  \/ HandleForeign(b)
                  \/ \E t \in Task : SendMessage(t, b)
                  \/ \E d \in Editor : UpdateConversation(d, b) \/ ToolPostMessage(d, b)
             \/ \E d \in Editor : Edit(d)
             \/ ForwardProgress \/ RelayStops \/ ChatStops \/ UNCHANGED vars
    BY <2>1 DEF CreateConversation, DeleteMessages, DeleteConversation, HandleForeign,
                SendMessage, UpdateConversation, ToolPostMessage, Edit, Post, CopyPosted,
                SaveEdited, ForwardProgress, RelayStops, ChatStops, vars, SaveConversation
  <2>2. CASE \/ \E t \in Task : \/ Chat(t) \/ ChatRefused(t) \/ ChatUnheard(t)
                                \/ HandleChat(t) \/ RelayTask(t)
                                \/ HandleProgress(t) \/ LoseProgress(t)
             \/ \E e \in ends : HandleEnd(e) \/ LoseEnd(e)
    BY <2>2 DEF Chat, CreateUserMessage, AutoTitle, ChatAccepted, ChatRefused, ChatUnheard,
                ClearRefused, ReportRefused, HandleChat, RelayTask, Route, Stream, Retry,
                AgentAnswers, AgentFails, RouteFails, HandleProgress, LoseProgress, HandleEnd,
                ClearEnded, StoreAnswer, CopyAnswered, SaveAnswered, LoseEnd, SaveConversation
  <2> QED BY <2>1, <2>2 DEF Next
<1>2. \/ deleting \subseteq deleting'
      \/ \E b \in deleting : /\ deleting' = deleting \ {b}
                             /\ conv' = [conv EXCEPT ![b] = "deleted"]
      \/ raced' = raced \cup deleting
  <2>1. CASE \/ \E b \in Conversation :
                  \/ CreateConversation(b) \/ DeleteMessages(b) \/ DeleteConversation(b)
                  \/ HandleForeign(b)
                  \/ \E t \in Task : SendMessage(t, b)
                  \/ \E d \in Editor : UpdateConversation(d, b) \/ ToolPostMessage(d, b)
             \/ \E d \in Editor : Edit(d)
             \/ ForwardProgress \/ RelayStops \/ ChatStops \/ UNCHANGED vars
    BY <2>1 DEF CreateConversation, DeleteMessages, DeleteConversation, HandleForeign,
                SendMessage, UpdateConversation, ToolPostMessage, Edit, Post, CopyPosted,
                SaveEdited, ForwardProgress, RelayStops, ChatStops, vars
  <2>2. CASE \/ \E t \in Task : \/ Chat(t) \/ ChatRefused(t) \/ ChatUnheard(t)
                                \/ HandleChat(t) \/ RelayTask(t)
                                \/ HandleProgress(t) \/ LoseProgress(t)
             \/ \E e \in ends : HandleEnd(e) \/ LoseEnd(e)
    BY <2>2 DEF Chat, CreateUserMessage, AutoTitle, ChatAccepted, ChatRefused, ChatUnheard,
                ClearRefused, ReportRefused, HandleChat, RelayTask, Route, Stream, Retry,
                AgentAnswers, AgentFails, RouteFails, HandleProgress, LoseProgress, HandleEnd,
                ClearEnded, StoreAnswer, CopyAnswered, SaveAnswered, LoseEnd
  <2> QED BY <2>1, <2>2 DEF Next
<1>3. CASE c \in deleting
  BY <1>t, <1>2, <1>3 DEF Gone
<1>4. CASE conv[c] = "deleted" /\ c \notin raced
  <2>1. conv'[c] # "live"
    BY <1>4, RestGoesOn DEF GInv, Rested, Gone, Live
  <2> QED BY <1>t, <1>1, <1>4, <2>1 DEF Gone
<1>5. CASE c \in raced
  BY <1>5, RacedGrows
<1> QED BY <1>3, <1>4, <1>5 DEF Gone

\* A message that is settled stays so.
LEMMA SettledStays ==
  ASSUME GInv, [Next]_vars, NEW t \in Task, chat[t].pc # "none", Settled(t),
         chat'[t].conv = chat[t].conv, lost \subseteq lost',
         Total(t)' > 0 \/ Total(t)' = Total(t) \/ Gone(chat[t].conv)'
  PROVE  Settled(t)'
<1>1. chat[t].conv \in Conversation /\ TInv
  BY TypeUnfold DEF GInv, Placed
<1>2. CASE Total(t) > 0 \/ t \in lost
  BY <1>2 DEF Settled, Gone
<1>3. CASE chat[t].conv \in raced
  BY <1>3, RacedGrows DEF Settled
<1>4. CASE Gone(chat[t].conv)
  BY <1>1, <1>4, GoneStays DEF Settled
<1> QED BY <1>2, <1>3, <1>4 DEF Settled

\* A step in which a message is finished only when something of it is stored, or
\* its end is lost.
LEMMA ThroughKept ==
  ASSUME DInv, [Next]_vars, lost \subseteq lost',
         \A t \in Task : chat[t].pc # "none" =>
           /\ chat'[t].conv = chat[t].conv
           /\ Total(t)' > 0 \/ Total(t)' = Total(t) \/ Gone(chat[t].conv)',
         \A t \in Task : Finished(t)' => Finished(t) \/ Total(t)' > 0 \/ t \in lost'
  PROVE  Through'
<1> SUFFICES ASSUME NEW t \in Task, Finished(t)' PROVE Settled(t)'
  BY DEF Through
<1>1. CASE Total(t)' > 0 \/ t \in lost'
  BY <1>1 DEF Settled
<1>2. CASE Finished(t)
  <2>1. GInv /\ Settled(t)
    BY <1>2 DEF DInv, Through
  <2>2. chat[t].pc # "none"
    BY <1>2, <2>1, TypeUnfold DEF GInv, Placed, Finished
  <2>3. chat'[t].conv = chat[t].conv
        /\ (Total(t)' > 0 \/ Total(t)' = Total(t) \/ Gone(chat[t].conv)')
    BY <2>2
  <2> QED BY <2>1, <2>2, <2>3, SettledStays
<1> QED BY <1>1, <1>2

\* Nothing changes that says whether a message is finished.
LEMMA ThroughSame ==
  ASSUME DInv, [Next]_vars, lost \subseteq lost', UNCHANGED <<chat, relay, ends, stored>>
  PROVE  Through'
<1>1. \A t \in Task : Total(t)' = Total(t)
  BY TotalKept
<1>2. \A t \in Task : Finished(t)' => Finished(t)
  BY DEF Finished, Unstored
<1> QED BY <1>1, <1>2, ThroughKept

\* A message goes on in the chat, and is not finished by that.
LEMMA ThroughChat ==
  ASSUME DInv, [Next]_vars, lost' = lost, UNCHANGED <<relay, ends>>, NEW t \in Task,
         NEW pc \in {"title", "chat", "refused", "report", "done"},
         chat' = [chat EXCEPT ![t].pc = pc],
         stored' = stored \/ \E k \in Kind : Store(t, k),
         pc = "done" => relay[t].pc # "none" \/ Total(t)' > 0
  PROVE  Through'
<1>1. TInv
  BY DEF DInv, GInv
<1>2. \A u \in Task : /\ chat'[u].conv = chat[u].conv
                      /\ chat'[u].pc = IF u = t THEN pc ELSE chat[u].pc
  BY <1>1, TypeUnfold DEF Chatting
<1>3. ASSUME NEW u \in Task PROVE Total(u)' > 0 \/ Total(u)' = Total(u)
  <2>1. CASE stored' = stored
    BY <2>1, TotalKept
  <2>2. CASE \E k \in Kind : Store(t, k)
    <3>1. PICK k \in Kind : Store(t, k)
      BY <2>2
    <3>2. Total(u)' = Total(u) \/ Total(u)' = Total(u) + 1
      BY <1>1, <3>1, TotalStore
    <3> QED BY <1>1, <3>2, TotalType
  <2> QED BY <2>1, <2>2
<1>4. ASSUME NEW u \in Task, Finished(u)' PROVE Finished(u) \/ Total(u)' > 0
  <2>1. Unstored(u)' <=> Unstored(u)
    BY DEF Unstored
  <2> QED BY <1>2, <1>4, <2>1 DEF Finished
<1> QED BY <1>2, <1>3, <1>4, ThroughKept

\* A task goes on in the relay, and when it is done it has an end.
LEMMA ThroughRelay ==
  ASSUME DInv, [Next]_vars, lost' = lost, UNCHANGED <<chat, stored>>, ends \subseteq ends',
         NEW t \in Task, \A u \in Task : u # t => relay'[u].pc = relay[u].pc,
         relay'[t].pc # "none", relay'[t].pc = "done" => Unstored(t)'
  PROVE  Through'
<1>1. \A u \in Task : Total(u)' = Total(u)
  BY TotalKept
<1>2. \A u \in Task : Unstored(u) => Unstored(u)'
  BY DEF Unstored
<1>3. \A u \in Task : Finished(u)' => Finished(u)
  BY <1>2 DEF Finished
<1> QED BY <1>1, <1>3, ThroughKept

LEMMA ThroughStep == DInv /\ [Next]_vars => DInv'
<1> SUFFICES ASSUME DInv, TInv, [Next]_vars PROVE Through'
  BY RestStep DEF DInv, GInv
<1> USE DEF rows, events, ghosts
<1>t. chat \in [Task -> Chatting] /\ relay \in [Task -> Relaying] /\ ends \subseteq End
      /\ stored \in [Task -> [Kind -> Nat]] /\ Placed /\ Ended /\ deleting \subseteq Conversation
  BY TypeUnfold
<1>1. CASE \/ \E c \in Conversation :
                \/ CreateConversation(c) \/ DeleteConversation(c) \/ HandleForeign(c)
                \/ \E e \in Editor : UpdateConversation(e, c) \/ ToolPostMessage(e, c)
           \/ \E e \in Editor : Edit(e)
           \/ \E t \in Task : HandleProgress(t) \/ LoseProgress(t)
           \/ ForwardProgress
           \/ UNCHANGED vars
  BY <1>1, ThroughSame
     DEF CreateConversation, DeleteConversation, HandleForeign, UpdateConversation,
         ToolPostMessage, Edit, Post, CopyPosted, SaveEdited, HandleProgress, LoseProgress,
         ForwardProgress, vars
<1>2. ASSUME NEW c \in Conversation, DeleteMessages(c) PROVE Through'
  <2>1. /\ \A u \in Task : u \notin Of(c) => stored'[u] = stored[u]
        /\ deleting' = deleting \cup {c} /\ UNCHANGED <<chat, relay, ends, lost>>
    BY <1>2 DEF DeleteMessages
  <2>2. \A u \in Task : Total(u)' = Total(u) \/ Gone(chat[u].conv)'
    BY <2>1 DEF Total, Answers, Errors, Of, Gone
  <2>3. \A u \in Task : Finished(u)' => Finished(u)
    BY <2>1 DEF Finished, Unstored
  <2> QED BY <2>1, <2>2, <2>3, ThroughKept
<1>3. ASSUME NEW t \in Task, NEW c \in Conversation, SendMessage(t, c) PROVE Through'
  <2>1. /\ chat[t].pc = "none" /\ chat'[t].pc = "create"
        /\ \A u \in Task : u # t => chat'[u] = chat[u]
        /\ UNCHANGED <<stored, relay, ends, lost>>
    BY <1>t, <1>3 DEF SendMessage
  <2>2. \A u \in Task : chat[u].pc # "none" => chat'[u] = chat[u]
    BY <2>1
  <2>3. \A u \in Task : Total(u)' = Total(u)
    BY <2>1, TotalKept
  <2>4. \A u \in Task : Finished(u)' => Finished(u)
    BY <2>1 DEF Finished, Unstored
  <2> QED BY <2>1, <2>2, <2>3, <2>4, ThroughKept
<1>4. ASSUME NEW t \in Task,
             \/ CreateUserMessage(t) \/ AutoTitle(t) \/ ChatAccepted(t) \/ ChatRefused(t)
             \/ ChatUnheard(t) \/ ClearRefused(t)
      PROVE  Through'
  <2>1. PICK pc \in {"title", "chat", "refused", "report", "done"} :
          /\ chat' = [chat EXCEPT ![t].pc = pc]
          /\ pc = "done" => relay[t].pc # "none"
    BY <1>4 DEF CreateUserMessage, AutoTitle, ChatAccepted, ChatRefused, ChatUnheard, ClearRefused
  <2>2. UNCHANGED <<relay, ends, lost>> /\ (stored' = stored \/ \E k \in Kind : Store(t, k))
    BY <1>4 DEF CreateUserMessage, AutoTitle, ChatAccepted, ChatRefused, ChatUnheard,
                ClearRefused, Kind
  <2> QED BY <2>1, <2>2, ThroughChat
<1>5. ASSUME NEW t \in Task, ReportRefused(t) PROVE Through'
  <2>1. Total(t)' = Total(t) + 1
    BY <1>5, TotalStore DEF ReportRefused, Kind
  <2>2. Total(t)' > 0
    BY <2>1, TotalType
  <2> QED BY <1>5, <2>2, ThroughChat DEF ReportRefused, Kind
<1>6. ASSUME NEW t \in Task, HandleChat(t) PROVE Through'
  <2>1. \A u \in Task : relay'[u].pc = IF u = t THEN "route" ELSE relay[u].pc
    BY <1>6, RelayFields DEF HandleChat
  <2> QED BY <1>6, <2>1, ThroughRelay DEF HandleChat, EmitProgress
<1>7. ASSUME NEW t \in Task, Route(t) \/ Stream(t) \/ Retry(t) PROVE Through'
  <2>1. UNCHANGED <<chat, stored, lost, ends>>
    BY <1>7 DEF Route, Stream, Retry, EmitProgress
  <2>2. \A u \in Task : relay'[u].pc = IF u = t THEN "call" ELSE relay[u].pc
    <3>1. CASE Route(t)
      BY <3>1, RelayFields DEF Route
    <3>2. CASE Stream(t) \/ Retry(t)
      BY <1>t, <3>2 DEF Stream, Retry, Relaying
    <3> QED BY <1>7, <3>1, <3>2
  <2> QED BY <2>1, <2>2, ThroughRelay
<1>8. ASSUME NEW t \in Task,
             AgentAnswers(t) \/ AgentFails(t) \/ \E k \in {"reply", "error"} : RouteFails(t, k)
      PROVE  Through'
  <2>1. PICK k : EmitEnd(t, k)
    BY <1>8 DEF AgentAnswers, AgentFails, RouteFails
  <2>2. ends \subseteq ends' /\ Unstored(t)'
    <3> DEFINE end == [task |-> t, kind |-> k, stage |-> "sent"]
    <3>1. ends' = ends \cup {end} /\ end.task = t /\ end.stage = "sent"
      BY <2>1 DEF EmitEnd
    <3> HIDE DEF end
    <3> QED BY <3>1 DEF Unstored
  <2>3. Relay(t, "done") /\ UNCHANGED <<chat, stored, lost>>
    BY <1>8 DEF AgentAnswers, AgentFails, RouteFails
  <2>4. \A u \in Task : relay'[u].pc = IF u = t THEN "done" ELSE relay[u].pc
    BY <2>3, RelayFields
  <2> QED BY <2>2, <2>3, <2>4, ThroughRelay
<1>e. \* an end is handled, or lost
      ASSUME NEW e \in ends, UNCHANGED <<chat, relay>>, lost \subseteq lost',
             \A f \in ends \ {e} : f \in ends',
             \A u \in Task : Total(u)' > 0 \/ Total(u)' = Total(u),
             e.stage \in {"sent", "cleared"} =>
               Unstored(e.task)' \/ Total(e.task)' > 0 \/ e.task \in lost'
      PROVE  Through'
  <2>1. \A u \in Task : Unstored(u) => \/ Unstored(u)'
                                       \/ u = e.task /\ e.stage \in {"sent", "cleared"}
    BY <1>e DEF Unstored
  <2>2. \A u \in Task : Finished(u)' => Finished(u) \/ Total(u)' > 0 \/ u \in lost'
    BY <1>e, <2>1 DEF Finished
  <2> QED BY <1>e, <2>2, ThroughKept
<1>9. ASSUME NEW e \in ends, ClearEnded(e) PROVE Through'
  <2>1. [e EXCEPT !.stage = "cleared"].task = e.task
        /\ [e EXCEPT !.stage = "cleared"].stage = "cleared"
    BY <1>t DEF End
  <2>2. [e EXCEPT !.stage = "cleared"] \in ends' /\ UNCHANGED <<chat, relay, stored, lost>>
        /\ \A f \in ends \ {e} : f \in ends'
    BY <1>9 DEF ClearEnded, Step
  <2>3. Unstored(e.task)'
    BY <2>1, <2>2 DEF Unstored
  <2> QED BY <1>e, <2>2, <2>3, TotalKept
<1>10. ASSUME NEW e \in ends, StoreAnswer(e) PROVE Through'
  <2>1. e.task \in Task /\ e.kind \in Kind /\ e.kind # "user"
    BY <1>t DEF End
  <2>2. \A u \in Task : Total(u)' = IF u = e.task THEN Total(u) + 1 ELSE Total(u)
    BY <1>10, <2>1, TotalStore DEF StoreAnswer
  <2>3. Total(e.task)' > 0 /\ \A u \in Task : Total(u)' > 0 \/ Total(u)' = Total(u)
    BY <2>1, <2>2, TotalType
  <2>4. UNCHANGED <<chat, relay, lost>> /\ \A f \in ends \ {e} : f \in ends'
    BY <1>10 DEF StoreAnswer, Step
  <2> QED BY <1>e, <2>3, <2>4
<1>11. ASSUME NEW e \in ends, CopyAnswered(e) \/ SaveAnswered(e) PROVE Through'
  <2>1. e.stage \in {"stored", "copied"} /\ UNCHANGED <<chat, relay, stored, lost>>
        /\ \A f \in ends \ {e} : f \in ends'
    BY <1>11 DEF CopyAnswered, SaveAnswered, Step
  <2> QED BY <1>e, <2>1, TotalKept
<1>12. ASSUME NEW e \in ends, LoseEnd(e) PROVE Through'
  <2>1. UNCHANGED <<chat, relay, stored>> /\ lost' = lost \cup {e.task} /\ ends' = ends \ {e}
    BY <1>12 DEF LoseEnd
  <2> QED BY <1>e, <2>1, TotalKept
<1>13. CASE RelayStops
  <2>1. /\ UNCHANGED <<chat, stored, ends>> /\ lost' = lost \cup {t \in Task : Active(t)}
        /\ relay' = [t \in Task |-> IF Active(t) THEN At("done") ELSE relay[t]]
    BY <1>13 DEF RelayStops
  <2>2. \A u \in Task : relay'[u] = relay[u] \/ u \in lost'
    BY <2>1
  <2>3. \A u \in Task : Finished(u)' => Finished(u) \/ u \in lost'
    BY <2>1, <2>2 DEF Finished, Unstored
  <2> QED BY <2>1, <2>3, TotalKept, ThroughKept
<1>14. CASE ChatStops
  <2> DEFINE cut == {t \in Task : Sending(t) /\ relay[t].pc = "none"}
             unstored == {e.task : e \in {f \in ends : f.stage = "cleared"}}
  <2>1. /\ UNCHANGED <<relay, stored>> /\ ends' = {e \in ends : e.stage = "sent"}
        /\ chat' = [t \in Task |-> IF Sending(t) THEN [chat[t] EXCEPT !.pc = "done"]
                                                 ELSE chat[t]]
        /\ lost' = lost \cup cut \cup unstored
    BY <1>14 DEF ChatStops
  <2>2. \A u \in Task : /\ chat'[u].conv = chat[u].conv
                        /\ chat'[u].pc = IF Sending(u) THEN "done" ELSE chat[u].pc
    BY <1>t, <2>1 DEF Chatting
  <2>3. \A u \in Task : Unstored(u) => Unstored(u)' \/ u \in lost'
    BY <2>1 DEF Unstored
  <2>4. \A u \in Task : Finished(u)' => Finished(u) \/ u \in lost'
    BY <2>1, <2>2, <2>3 DEF Finished
  <2> QED BY <2>1, <2>2, <2>4, TotalKept, ThroughKept
<1> QED BY <1>1, <1>2, <1>3, <1>4, <1>5, <1>6, <1>7, <1>8, <1>9, <1>10, <1>11, <1>12, <1>13,
           <1>14
        DEF Next, Chat, RelayTask, HandleEnd

LEMMA ThroughCounts == DInv => NoneDropped
<1> SUFFICES ASSUME DInv, NEW t \in Task, chat[t].pc = "done", ~Active(t), ~Ending(t)
             PROVE  \/ Answers(t) + Errors(t) > 0 \/ t \in lost
                    \/ chat[t].conv \in deleting \cup Deleted \cup raced
  BY DEF NoneDropped
<1>1. chat[t].conv \in Conversation /\ TInv
  BY TypeUnfold DEF DInv, GInv, Placed
<1>2. Finished(t)
  BY DEF Finished, Active, Unstored, Ending
<1>3. Settled(t)
  BY <1>2 DEF DInv, Through
<1> QED BY <1>1, <1>3 DEF Settled, Total, Gone, Deleted

\* No message is dropped in silence: it is answered or reported as failed unless
\* the event of its end is lost or its conversation goes (processChat of the
\* relay, SendMessage and HandleRelayProgress of the chat).
THEOREM NothingDropped == Spec => []NoneDropped
<1>1. Init => DInv
  BY TypeInit, RestInit, ThroughInit DEF DInv, GInv
<1> QED BY <1>1, ThroughStep, ThroughCounts, PTL DEF Spec


(***************************************************************************)
(* Progress messages.  A progress message that is not stray has a task to  *)
(* come that clears it: one that is on its way to the relay, or goes on    *)
(* there, or whose end has been sent.                                      *)
(***************************************************************************)
Sent(t) == \E e \in ends : e.task = t /\ e.stage = "sent"
Clears(t) == \/ relay[t].pc = "none" /\ chat[t].pc \in {"title", "chat", "refused"}
             \/ relay[t].pc \in {"route", "call"}
             \/ Sent(t)
Cleared ==
  /\ \A t \in Task : relay[t].pc = "done" => Sent(t) \/ t \in over
  /\ \A c \in marker \ stray : \E t \in Task : chat[t].conv = c /\ Clears(t)

PInv == TInv /\ Cleared

LEMMA ClearedInit == Init => Cleared
BY DEF Init, Cleared, At

\* A step that leaves each task as near to its end as it was, unless its
\* progress message is cleared or counted as stray.
LEMMA ClearedKept ==
  ASSUME PInv, over \subseteq over', stray \subseteq stray',
         \A t \in Task : relay'[t].pc = "done" =>
           \/ relay[t].pc = "done" /\ (Sent(t) => Sent(t)' \/ t \in over')
           \/ Sent(t)'
           \/ t \in over',
         \A c \in marker' \ stray' :
           \/ c \in marker
           \/ \E t \in Task : chat'[t].conv = c /\ Clears(t)',
         \A t \in Task : Clears(t) /\ chat[t].conv \in marker' \ stray' =>
           chat'[t].conv = chat[t].conv /\ Clears(t)'
  PROVE  Cleared'
<1>1. Cleared
  BY DEF PInv
<1>2. \A t \in Task : relay'[t].pc = "done" => Sent(t)' \/ t \in over'
  BY <1>1 DEF Cleared
<1>3. ASSUME NEW c \in marker' \ stray'
      PROVE  \E t \in Task : chat'[t].conv = c /\ Clears(t)'
  <2>1. CASE c \in marker
    <3>1. PICK t \in Task : chat[t].conv = c /\ Clears(t)
      BY <1>1, <1>3, <2>1 DEF Cleared
    <3> QED BY <1>3, <3>1
  <2> QED BY <1>3, <2>1
<1> QED BY <1>2, <1>3 DEF Cleared

\* No task changes, and no progress message but a stray one is shown anew.
LEMMA ClearedSame ==
  ASSUME PInv, UNCHANGED <<chat, relay, ends, over>>, stray \subseteq stray',
         \A c \in marker' \ stray' : c \in marker
  PROVE  Cleared'
<1>1. \A t \in Task : /\ Sent(t)' <=> Sent(t)
                      /\ Clears(t)' <=> Clears(t)
  BY DEF Sent, Clears
<1> QED BY <1>1, ClearedKept

\* A message goes on in the chat.
LEMMA ClearedChat ==
  ASSUME PInv, UNCHANGED <<relay, ends, over, stray>>, NEW t \in Task,
         NEW pc \in {"title", "chat", "refused", "report", "done"},
         chat' = [chat EXCEPT ![t].pc = pc],
         marker' \subseteq marker \cup {chat[t].conv},
         chat[t].conv \in marker' => Clears(t)' \/ (~Clears(t) /\ marker' \subseteq marker)
  PROVE  Cleared'
<1>1. \A u \in Task : /\ chat'[u].conv = chat[u].conv
                      /\ chat'[u].pc = IF u = t THEN pc ELSE chat[u].pc
  BY TypeUnfold DEF PInv, Chatting
<1>2. \A u \in Task : Sent(u)' <=> Sent(u)
  BY DEF Sent
<1>3. \A u \in Task : u # t => (Clears(u)' <=> Clears(u))
  BY <1>1, <1>2 DEF Clears
<1>4. \A c \in marker' \ stray' :
        \/ c \in marker
        \/ \E u \in Task : chat'[u].conv = c /\ Clears(u)'
  BY <1>1
<1>5. \A u \in Task : Clears(u) /\ chat[u].conv \in marker' \ stray' =>
        chat'[u].conv = chat[u].conv /\ Clears(u)'
  BY <1>1, <1>3
<1> QED BY <1>2, <1>4, <1>5, ClearedKept

\* A task goes on in the relay; when it is done its end has been sent.
LEMMA ClearedRelay ==
  ASSUME PInv, UNCHANGED <<chat, over, stray, marker>>, ends \subseteq ends', NEW t \in Task,
         \A u \in Task : u # t => relay'[u].pc = relay[u].pc,
         relay'[t].pc \in {"route", "call"} \/ (relay'[t].pc = "done" /\ Sent(t)')
  PROVE  Cleared'
<1>1. \A u \in Task : Sent(u) => Sent(u)'
  BY DEF Sent
<1>2. Clears(t)'
  BY DEF Clears
<1>3. \A u \in Task : Clears(u) => Clears(u)'
  BY <1>1, <1>2 DEF Clears
<1> QED BY <1>1, <1>3, ClearedKept

LEMMA ClearedStep == PInv /\ [Next]_vars => PInv'
<1> SUFFICES ASSUME PInv, TInv, Cleared, [Next]_vars PROVE Cleared'
  BY TypeStep DEF PInv
<1> USE DEF rows, events, ghosts
<1>t. chat \in [Task -> Chatting] /\ relay \in [Task -> Relaying] /\ ends \subseteq End
      /\ Placed /\ Ended
  BY TypeUnfold
<1>1. CASE \/ \E c \in Conversation :
                \/ CreateConversation(c) \/ DeleteMessages(c) \/ DeleteConversation(c)
                \/ HandleForeign(c)
                \/ \E e \in Editor : UpdateConversation(e, c) \/ ToolPostMessage(e, c)
           \/ \E e \in Editor : Edit(e)
           \/ \E t \in Task : LoseProgress(t)
           \/ ForwardProgress
           \/ UNCHANGED vars
  <2>1. UNCHANGED <<chat, relay, ends, over>> /\ stray \subseteq stray'
    BY <1>1
       DEF CreateConversation, DeleteMessages, DeleteConversation, HandleForeign,
           UpdateConversation, ToolPostMessage, Edit, Post, CopyPosted, SaveEdited,
           LoseProgress, ForwardProgress, vars
  <2>2. \A c \in marker' \ stray' : c \in marker
    BY <1>1
       DEF CreateConversation, DeleteMessages, DeleteConversation, HandleForeign,
           UpdateConversation, ToolPostMessage, Edit, Post, CopyPosted, SaveEdited,
           LoseProgress, ForwardProgress, vars, UpsertProgressMessage
  <2> QED BY <2>1, <2>2, ClearedSame
<1>2. ASSUME NEW t \in Task, HandleProgress(t) PROVE Cleared'
  <2>1. /\ UNCHANGED <<chat, relay, ends, over>> /\ marker' = marker \cup {chat[t].conv}
        /\ stray' = stray \cup (IF t \in over THEN {chat[t].conv} ELSE {})
        /\ progress[t] > 0
    BY <1>2 DEF HandleProgress, UpsertProgressMessage
  <2>2. relay[t] \in Relaying /\ relay[t].pc # "none"
    BY <1>t, <2>1 DEF Placed
  <2>3. t \notin over => Clears(t)
    BY <2>2 DEF Cleared, Clears, Relaying
  <2>4. \A u \in Task : (Sent(u)' <=> Sent(u)) /\ (Clears(u)' <=> Clears(u))
    BY <2>1 DEF Sent, Clears
  <2>5. \A c \in marker' \ stray' :
          \/ c \in marker
          \/ \E u \in Task : chat'[u].conv = c /\ Clears(u)'
    BY <2>1, <2>3, <2>4
  <2> QED BY <2>1, <2>4, <2>5, ClearedKept
<1>3. ASSUME NEW t \in Task, NEW c \in Conversation, SendMessage(t, c) PROVE Cleared'
  <2>1. /\ chat[t].pc = "none" /\ relay[t].pc = "none"
        /\ \A u \in Task : u # t => chat'[u] = chat[u]
        /\ UNCHANGED <<relay, ends, over, stray, marker>>
    BY <1>t, <1>3 DEF SendMessage, Placed
  <2>2. \A u \in Task : Sent(u)' <=> Sent(u)
    BY <2>1 DEF Sent
  <2>3. ~Sent(t)
    BY <1>t, <2>1 DEF Sent, Ended
  <2>4. \A u \in Task : Clears(u) => u # t /\ Clears(u)'
    BY <2>1, <2>2, <2>3 DEF Clears
  <2> QED BY <2>1, <2>2, <2>4, ClearedKept
<1>4. ASSUME NEW t \in Task, CreateUserMessage(t) PROVE Cleared'
  <2>1. PICK pc \in {"title", "chat"} : chat' = [chat EXCEPT ![t].pc = pc]
    BY <1>4 DEF CreateUserMessage
  <2>2. chat[t].pc = "create" /\ UNCHANGED <<relay, ends, over, stray>>
        /\ marker' = marker \cup {chat[t].conv}
    BY <1>4 DEF CreateUserMessage, UpsertProgressMessage
  <2>3. relay[t].pc = "none" /\ chat'[t].pc = pc
    BY <1>t, <2>1, <2>2 DEF Placed, Chatting
  <2>4. Clears(t)'
    BY <2>2, <2>3 DEF Clears
  <2>5. pc \in {"title", "chat", "refused", "report", "done"}
    OBVIOUS
  <2> QED BY <2>1, <2>2, <2>4, <2>5, ClearedChat
<1>5. ASSUME NEW t \in Task, AutoTitle(t) \/ ChatRefused(t) PROVE Cleared'
  <2>1. PICK pc \in {"chat", "refused"} : chat' = [chat EXCEPT ![t].pc = pc]
    BY <1>5 DEF AutoTitle, ChatRefused
  <2>2. UNCHANGED <<relay, ends, over, stray, marker>> /\ chat'[t].pc = pc
    BY <1>t, <1>5, <2>1 DEF AutoTitle, ChatRefused, Chatting
  <2>3. relay[t].pc = "none"
    BY <1>t, <1>5 DEF AutoTitle, ChatRefused, Placed
  <2>4. Clears(t)'
    BY <2>2, <2>3 DEF Clears
  <2>5. pc \in {"title", "chat", "refused", "report", "done"}
    OBVIOUS
  <2> QED BY <2>1, <2>2, <2>4, <2>5, ClearedChat
<1>6. ASSUME NEW t \in Task, ChatAccepted(t) \/ ChatUnheard(t) \/ ReportRefused(t)
      PROVE  Cleared'
  <2>1. PICK pc \in {"done", "refused"} : chat' = [chat EXCEPT ![t].pc = pc]
    BY <1>6 DEF ChatAccepted, ChatUnheard, ReportRefused
  <2>2. UNCHANGED <<relay, ends, over, stray, marker>>
    BY <1>6 DEF ChatAccepted, ChatUnheard, ReportRefused
  <2>3. relay[t].pc # "none" \/ chat[t].pc = "report"
    BY <1>6 DEF ChatAccepted, ChatUnheard, ReportRefused
  <2>4. Clears(t) => Clears(t)'
    BY <2>2, <2>3 DEF Clears, Sent
  <2>5. pc \in {"title", "chat", "refused", "report", "done"}
    OBVIOUS
  <2> QED BY <2>1, <2>2, <2>4, <2>5, ClearedChat
<1>7. ASSUME NEW t \in Task, ClearRefused(t) PROVE Cleared'
  <2>1. /\ chat' = [chat EXCEPT ![t].pc = "report"] /\ UNCHANGED <<relay, ends, over, stray>>
        /\ marker' = marker \ {chat[t].conv}
    BY <1>7 DEF ClearRefused, DeleteProgressMessages
  <2>2. chat[t].conv \notin marker' /\ marker' \subseteq marker \cup {chat[t].conv}
    BY <2>1
  <2> QED BY <2>1, <2>2, ClearedChat
<1>8. ASSUME NEW t \in Task, HandleChat(t) PROVE Cleared'
  <2>1. \A u \in Task : relay'[u].pc = IF u = t THEN "route" ELSE relay[u].pc
    BY <1>8, RelayFields DEF HandleChat
  <2> QED BY <1>8, <2>1, ClearedRelay DEF HandleChat, EmitProgress
<1>9. ASSUME NEW t \in Task, Route(t) \/ Stream(t) \/ Retry(t) PROVE Cleared'
  <2>1. UNCHANGED <<chat, over, stray, marker, ends>>
    BY <1>9 DEF Route, Stream, Retry, EmitProgress
  <2>2. \A u \in Task : relay'[u].pc = IF u = t THEN "call" ELSE relay[u].pc
    <3>1. CASE Route(t)
      BY <3>1, RelayFields DEF Route
    <3>2. CASE Stream(t) \/ Retry(t)
      BY <1>t, <3>2 DEF Stream, Retry, Relaying
    <3> QED BY <1>9, <3>1, <3>2
  <2> QED BY <2>1, <2>2, ClearedRelay
<1>10. ASSUME NEW t \in Task,
              AgentAnswers(t) \/ AgentFails(t) \/ \E k \in {"reply", "error"} : RouteFails(t, k)
       PROVE  Cleared'
  <2>1. PICK k : EmitEnd(t, k)
    BY <1>10 DEF AgentAnswers, AgentFails, RouteFails
  <2>2. ends \subseteq ends' /\ Sent(t)'
    <3> DEFINE end == [task |-> t, kind |-> k, stage |-> "sent"]
    <3>1. ends' = ends \cup {end} /\ end.task = t /\ end.stage = "sent"
      BY <2>1 DEF EmitEnd
    <3> HIDE DEF end
    <3> QED BY <3>1 DEF Sent
  <2>3. Relay(t, "done") /\ UNCHANGED <<chat, over, stray, marker>>
    BY <1>10 DEF AgentAnswers, AgentFails, RouteFails
  <2>4. \A u \in Task : relay'[u].pc = IF u = t THEN "done" ELSE relay[u].pc
    BY <2>3, RelayFields
  <2> QED BY <2>2, <2>3, <2>4, ClearedRelay
<1>e. \* a sent end is handled or lost, and with it what it would clear
      ASSUME NEW e \in ends, UNCHANGED <<chat, relay>>, \A f \in ends \ {e} : f \in ends',
             over' = over \cup {e.task}, stray \subseteq stray',
             marker' \subseteq marker, chat[e.task].conv \notin marker' \ stray'
      PROVE  Cleared'
  <2>1. \A u \in Task : Sent(u) => u = e.task \/ Sent(u)'
    BY <1>e DEF Sent
  <2>2. \A u \in Task : Clears(u) /\ chat[u].conv \in marker' \ stray' => Clears(u)'
    BY <1>e, <2>1 DEF Clears
  <2>3. \A u \in Task : Sent(u) => Sent(u)' \/ u \in over'
    BY <1>e, <2>1
  <2> QED BY <1>e, <2>2, <2>3, ClearedKept
<1>11. ASSUME NEW e \in ends, ClearEnded(e) \/ LoseEnd(e) PROVE Cleared'
  <2>1. /\ UNCHANGED <<chat, relay>> /\ over' = over \cup {e.task}
        /\ \A f \in ends \ {e} : f \in ends'
        /\ stray \subseteq stray' /\ marker' \subseteq marker
        /\ chat[e.task].conv \notin marker' \ stray'
    BY <1>11 DEF ClearEnded, LoseEnd, DeleteProgressMessages, Step
  <2> QED BY <1>e, <2>1
<1>12. ASSUME NEW e \in ends, StoreAnswer(e) \/ CopyAnswered(e) \/ SaveAnswered(e)
       PROVE  Cleared'
  <2>1. e.stage # "sent" /\ UNCHANGED <<chat, relay, over, stray, marker>>
        /\ \A f \in ends \ {e} : f \in ends'
    BY <1>12 DEF StoreAnswer, CopyAnswered, SaveAnswered, Step
  <2>2. \A u \in Task : Sent(u) => Sent(u)'
    BY <2>1 DEF Sent
  <2>3. \A u \in Task : Clears(u) => Clears(u)'
    BY <2>1, <2>2 DEF Clears
  <2> QED BY <2>1, <2>2, <2>3, ClearedKept
<1>13. CASE RelayStops
  <2> DEFINE cut == {t \in Task : Active(t)}
  <2>1. /\ UNCHANGED <<chat, ends, marker>> /\ over' = over \cup cut
        /\ stray' = stray \cup {chat[t].conv : t \in cut}
        /\ relay' = [t \in Task |-> IF t \in cut THEN At("done") ELSE relay[t]]
    BY <1>13 DEF RelayStops
  <2>2. \A u \in Task : u \notin cut => relay'[u] = relay[u]
    BY <2>1
  <2>3. \A u \in Task : Sent(u)' <=> Sent(u)
    BY <2>1 DEF Sent
  <2>4. \A u \in Task : Clears(u) /\ chat[u].conv \in marker' \ stray' => Clears(u)'
    BY <2>1, <2>2, <2>3 DEF Clears
  <2> HIDE DEF cut
  <2>5. \A u \in Task : relay'[u].pc = "done" => relay[u].pc = "done" \/ u \in over'
    BY <2>1, <2>2
  <2> QED BY <2>1, <2>3, <2>4, <2>5, ClearedKept
<1>14. CASE ChatStops
  <2> DEFINE cut == {t \in Task : Sending(t) /\ relay[t].pc = "none"}
  <2>1. /\ UNCHANGED <<relay, marker, over>> /\ ends' = {e \in ends : e.stage = "sent"}
        /\ chat' = [t \in Task |-> IF Sending(t) THEN [chat[t] EXCEPT !.pc = "done"]
                                                 ELSE chat[t]]
        /\ stray' = stray \cup {chat[t].conv : t \in cut}
    BY <1>14 DEF ChatStops
  <2>2. \A u \in Task : chat'[u].conv = chat[u].conv
    BY <1>t, <2>1 DEF Chatting
  <2>3. \A u \in Task : Sent(u)' <=> Sent(u)
    BY <2>1 DEF Sent
  <2>4. \A u \in Task : Clears(u) /\ chat[u].conv \in marker' \ stray' => Clears(u)'
    BY <2>1, <2>3 DEF Clears, Sending
  <2> QED BY <2>1, <2>2, <2>3, <2>4, ClearedKept
<1> QED BY <1>1, <1>2, <1>3, <1>4, <1>5, <1>6, <1>7, <1>8, <1>9, <1>10, <1>11, <1>12, <1>13,
           <1>14
        DEF Next, Chat, RelayTask, HandleEnd

LEMMA ClearedCounts == PInv => ProgressCleared
<1> SUFFICES ASSUME PInv, NEW c \in marker, Idle(c), c \notin stray PROVE FALSE
  BY DEF ProgressCleared
<1>1. PICK t \in Task : chat[t].conv = c /\ Clears(t)
  BY DEF PInv, Cleared
<1>2. ~Sending(t) /\ ~Active(t) /\ ~Ending(t)
  BY <1>1 DEF Idle, Of
<1> QED BY <1>1, <1>2 DEF Clears, Sending, Active, Ending, Sent

\* A conversation at rest shows no progress message, but one that was shown after
\* the end of its task, of another plugin's task, or of a task whose end is lost
\* (emitProgress of the relay, HandleRelayProgress of the chat).
THEOREM ProgressEnds == Spec => []ProgressCleared
<1>1. Init => PInv
  BY TypeInit, ClearedInit DEF PInv
<1> QED BY <1>1, ClearedStep, ClearedCounts, PTL DEF Spec
==================================================================================
