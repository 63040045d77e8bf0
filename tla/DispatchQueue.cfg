\* Two agents, one with a limit of its own, and one administrator.
SPECIFICATION FairSpec
CONSTANTS
  Agent = {a1, a2}
  Card = {k1}
  Delivery = {d1, d2}
  Admin = {m1}
  Runner = {g1, g2, g3}
  Column = {"Backlog", "In Progress"}
  MoveFails = FALSE
  Answer = {"execute", "continue", "stop", "done"}
  Limited = {a1}
  AgentLimit = 1
  GlobalLimit = 1
  MaxAttempts = 2
  MaxEntries = 2
  MaxRetries = 1
  MaxCrashes = 1
INVARIANTS LimitKept OneRunner DedupKept
PROPERTIES QueueEmpties AllReturn
\* An empty queue waits.
CHECK_DEADLOCK FALSE
