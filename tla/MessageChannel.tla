---------------------------- MODULE MessageChannel ----------------------------
(***************************************************************************)
(* What a message buffer promises: a message waits from its arrival until  *)
(* it is handed over, once, together with others of its channel.  Blank    *)
(* messages may be dropped instead.  In which batches, and when, is open.  *)
(***************************************************************************)
EXTENDS Naturals, Sequences

CONSTANTS Channel, MaxMessages, Blank

VARIABLES
  arrived,   \* number of messages so far
  waiting,   \* messages of each channel that were not handed over yet
  handed     \* hand-overs: a channel and a set of its messages

vars == <<arrived, waiting, handed>>

Init ==
  /\ arrived = 0
  /\ waiting = [ch \in Channel |-> {}]
  /\ handed = <<>>

Arrive(ch) ==
  /\ arrived < MaxMessages
  /\ arrived' = arrived + 1
  /\ waiting' = [waiting EXCEPT ![ch] = @ \cup {arrived + 1}]
  /\ UNCHANGED handed

HandOver(ch) ==
  \E batch \in (SUBSET waiting[ch]) \ {{}} :
    /\ waiting' = [waiting EXCEPT ![ch] = @ \ batch]
    /\ handed' = Append(handed, [chan |-> ch, msgs |-> batch])
    /\ UNCHANGED arrived

Drop(ch) ==
  \E batch \in SUBSET (waiting[ch] \cap Blank) :
    /\ waiting' = [waiting EXCEPT ![ch] = @ \ batch]
    /\ UNCHANGED <<arrived, handed>>

Next == \E ch \in Channel : Arrive(ch) \/ HandOver(ch) \/ Drop(ch)

Spec == Init /\ [][Next]_vars
==============================================================================
