\* The bus comes, goes and comes back; events and handlers at any time.
SPECIFICATION FairSpec
CONSTANTS
  Topic = {t1}
  MaxEvents = 1
  MaxStops = 1
  MaxFaults = 2
  LastNotice = 2
INVARIANTS NothingStranded SentOnce
PROPERTIES QueueDrains 
\* Everything may have been published and subscribed.
CHECK_DEADLOCK FALSE
