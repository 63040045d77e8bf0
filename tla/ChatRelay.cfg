\* Two messages in one conversation, an editor, and one fault of each kind.
SPECIFICATION Spec
CONSTANTS
  Conversation = {c1}
  NoConversation = NoConversation
  Task = {t1, t2}
  Editor = {e1}
  MaxRetries = 1
  MaxChunks = 1
  MaxExtras = 1
INVARIANTS OneAnswer ProgressCleared NoneDropped
PROPERTIES StaysDeleted
CHECK_DEADLOCK FALSE
