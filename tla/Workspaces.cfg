\* One container, two requests at a time, and one accident.
SPECIFICATION FairSpec
CONSTANTS
  Container = {m1}
  NoContainer = NoContainer
  Request = {r1, r2}
  Call = {k1, k2}
  NoCall = NoCall
  MaxStarts = 3
  MaxRequests = 3
  MaxExtras = 1
INVARIANTS Tracked DeletedGone Recorded
PROPERTIES RestartApplies Corrected
CHECK_DEADLOCK FALSE
