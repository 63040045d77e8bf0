\* One administrator, Docker may refuse a call.
SPECIFICATION Spec
CONSTANTS
  Container = {c1, c2, c3}
  NoContainer = NoContainer
  Image = {i1, i2}
  NoImage = NoImage
  Admin = {a1}
  Background = {}
  Requests = {"enable", "disable", "restart", "devmode", "install", "uninstall", "deploy", "promote", "rollback"}
  RestartThreshold = 2
  RollbackThreshold = 1
  Slow = TRUE
  Faults = {"docker"}
  MaxRequests = 3
  MaxFaults = 1
INVARIANTS CandidateImageAgrees ImageAgrees
\* All requests may have been issued and served.
CHECK_DEADLOCK FALSE
