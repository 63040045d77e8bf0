\* One administrator, no promotion: nothing is left running.
SPECIFICATION Spec
CONSTANTS
  Container = {c1, c2, c3}
  NoContainer = NoContainer
  Image = {i1}
  NoImage = NoImage
  Admin = {a1}
  Background = {}
  Requests = {"enable", "disable", "devmode", "deploy", "rollback"}
  RestartThreshold = 2
  RollbackThreshold = 1
  Slow = TRUE
  Faults = {"crash", "hang"}
  MaxRequests = 4
  MaxFaults = 1
INVARIANTS NoOrphan DisabledStopped
\* All requests may have been issued and served.
CHECK_DEADLOCK FALSE
