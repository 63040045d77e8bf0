\* Two jobs of any kind, overlapping requests and events, one crash.
SPECIFICATION FairSpec
CONSTANTS
  Job = {j1, j2}
  Handler = {h1, h2}
  Delivery = {d1, d2}
  Period = 2
  MaxRequests = 2
  MaxCrashes = 1
INVARIANTS FiresAsEnabled Scheduled EntriesBounded
PROPERTIES EveryTimerFires
\* A plugin with nothing to fire waits.
CHECK_DEADLOCK FALSE
