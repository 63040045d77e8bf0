\* A candidate beside the stable version, and the monitor.
SPECIFICATION Spec
CONSTANTS
  Container = {c1, c2, c3}
  NoContainer = NoContainer
  Image = {i1}
  NoImage = NoImage
  Admin = {a1}
  Background = {"monitor"}
  Requests = {"deploy"}
  RestartThreshold = 2
  RollbackThreshold = 1
  Slow = FALSE
  Faults = {"crash"}
  MaxRequests = 2
  MaxFaults = 1
INVARIANT CandidateIsolated
PROPERTY StableUntouched
