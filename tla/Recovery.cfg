\* Two goroutines meet errors; damage, and a stop or a failed write, at any time, and
\* the end of a day.  An earlier run has written one of the slots, or both.
SPECIFICATION FairSpec
CONSTANTS
  Caller = {g1, g2}
  Slots = 2
  Written = {1, 2}
  ArchiveDays = 0
  MaxCopies = 3
  MaxDays = 1
  MaxDamages = 1
  MaxFaults = 1
INVARIANTS OneRepairs Recoverable RestoresSound
PROPERTIES NewestOfRun Healed
\* A kernel that cannot open its database has stopped.
CHECK_DEADLOCK FALSE
