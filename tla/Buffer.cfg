\* Two channels and a Stop at any time; timers fire and goroutines go on.
SPECIFICATION FairSpec
CONSTANTS
  Channel = {ch1, ch2}
  MaxMessages = 3
  Blank = {2}
INVARIANTS NeverStranded Stretches StopFlushes
PROPERTIES HandedOverOnce AllDelivered
\* All messages may have arrived and been delivered.
CHECK_DEADLOCK FALSE
