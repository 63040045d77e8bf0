\* Live containers stay registered.
SPECIFICATION FairSpec
CONSTANTS
  Container = {c1, c2, c3}
  NoContainer = NoContainer
  Image = {i1}
  NoImage = NoImage
  Admin = {a1}
  Background = {}
  Requests = {"enable", "disable", "restart", "deploy", "rollback"}
  RestartThreshold = 2
  RollbackThreshold = 1
  Slow = TRUE
  Faults = {"crash", "hang"}
  MaxRequests = 2
  MaxFaults = 1
PROPERTY PrimaryHeard
\* All requests may have been issued and served.
CHECK_DEADLOCK FALSE
