\* The monitor and the boot path repair crashes of containers and kernel.
SPECIFICATION FairSpec
CONSTANTS
  Container = {c1, c2}
  NoContainer = NoContainer
  Image = {i1}
  NoImage = NoImage
  Admin = {a1}
  Background = {"monitor", "boot", "shutdown"}
  Requests = {"disable"}
  RestartThreshold = 2
  RollbackThreshold = 1
  Slow = FALSE
  Faults = {"crash", "hang", "kernel"}
  MaxRequests = 1
  MaxFaults = 1
PROPERTY SelfHeals
