------------------------------- MODULE MsgBuffer ------------------------------
(***************************************************************************)
(* The message buffer of the SDK, which messaging plugins put in front of  *)
(* an agent: messages of one channel are collected until the channel has   *)
(* been quiet for a while, then handed over in one batch.  Additions and   *)
(* flushes exclude each other by a mutex, but a flush calls back after it  *)
(* released the mutex, and a timer that fired can no longer be stopped.    *)
(*                                                                         *)
(* A message is its number in the order of arrival.  What a message says   *)
(* matters only in that a batch of blank messages is not handed over.      *)
(***************************************************************************)
EXTENDS Naturals, Sequences, Functions

CONSTANTS
  Channel,       \* channel ids
  MaxMessages,   \* bound on the messages that arrive
  Blank          \* messages with neither text nor media

ASSUME BufferAssumption ==
  /\ MaxMessages \in Nat
  /\ Blank \subseteq 1..MaxMessages

VARIABLES
  chats,      \* messages buffered for each channel
  timer,      \* is the timer of the channel's buffer armed
  loose,      \* timers due to flush the channel that Add cannot stop
  taken,      \* batches taken from the buffer, callback not returned yet
  delivered,  \* batches handed to onFlush, in that order
  arrived,    \* number of messages so far
  stop        \* the call of Stop: where it is and what it has left to do

vars == <<chats, timer, loose, taken, delivered, arrived, stop>>

Message == 1..MaxMessages
Batch == [chan : Channel, msgs : Seq(Message)]

\* before: the messages that had arrived when Stop was called.
Stopping == [pc : {"idle", "flush", "done"}, todo : SUBSET Channel,
             mine : SUBSET Batch, before : 0..MaxMessages]

Init ==
  /\ chats = [ch \in Channel |-> <<>>]
  /\ timer = [ch \in Channel |-> FALSE]
  /\ loose = [ch \in Channel |-> 0]
  /\ taken = {}
  /\ delivered = <<>>
  /\ arrived = 0
  /\ stop = [pc |-> "idle", todo |-> {}, mine |-> {}, before |-> 0]

------------------------------------------------------------------------------
\* Mutant: starts a timer for a new buffer only, and stops the old one.
AddOnlyFirstTimer(ch) ==
  /\ arrived < MaxMessages
  /\ arrived' = arrived + 1
  /\ chats' = [chats EXCEPT ![ch] = Append(@, arrived + 1)]
  /\ timer' = [timer EXCEPT ![ch] = (chats[ch] = <<>>)]
  /\ UNCHANGED <<loose, taken, delivered, stop>>

\* Whatever timer the buffer had is stopped if it did not fire yet, and a new
\* one started.
Add(ch) ==
  /\ arrived < MaxMessages
  /\ arrived' = arrived + 1
  /\ chats' = [chats EXCEPT ![ch] = Append(@, arrived + 1)]
  /\ timer' = [timer EXCEPT ![ch] = TRUE]
  /\ UNCHANGED <<loose, taken, delivered, stop>>

\* The debounce window is over: a goroutine will call flush.
Fire(ch) ==
  /\ timer[ch]
  /\ timer' = [timer EXCEPT ![ch] = FALSE]
  /\ loose' = [loose EXCEPT ![ch] = @ + 1]
  /\ UNCHANGED <<chats, taken, delivered, arrived, stop>>

\* Deleting the buffer forgets its timer, which goes on if it was armed.
Orphan(ch) == IF timer[ch] THEN 1 ELSE 0

\* Mutant: copies the messages and leaves them in the buffer.
TakeCopy(ch, ended) ==
  /\ IF chats[ch] = <<>> THEN UNCHANGED taken
     ELSE taken' = taken \cup {[chan |-> ch, msgs |-> chats[ch]]}
  /\ UNCHANGED chats
  /\ timer' = [timer EXCEPT ![ch] = FALSE]
  /\ loose' = [loose EXCEPT ![ch] = @ - ended + Orphan(ch)]

\* Mutant: takes the newest message and leaves the others.
TakeLast(ch, ended) ==
  /\ chats[ch] # <<>>
  /\ taken' = taken \cup {[chan |-> ch, msgs |-> <<chats[ch][Len(chats[ch])]>>]}
  /\ chats' = [chats EXCEPT ![ch] = SubSeq(@, 1, Len(@) - 1)]
  /\ timer' = [timer EXCEPT ![ch] = FALSE]
  /\ loose' = [loose EXCEPT ![ch] = @ - ended + Orphan(ch)]

\* The part of flush under the mutex; "ended" timers end with it.
Take(ch, ended) ==
  /\ IF chats[ch] = <<>> THEN UNCHANGED taken
     ELSE taken' = taken \cup {[chan |-> ch, msgs |-> chats[ch]]}
  /\ chats' = [chats EXCEPT ![ch] = <<>>]
  /\ timer' = [timer EXCEPT ![ch] = FALSE]
  /\ loose' = [loose EXCEPT ![ch] = @ - ended + Orphan(ch)]

\* A goroutine that a timer started gets the mutex.
Flush(ch) ==
  /\ loose[ch] > 0
  /\ Take(ch, 1)
  /\ UNCHANGED <<delivered, arrived, stop>>

AllBlank(msgs) == Range(msgs) \subseteq Blank

\* The rest of flush: merge, and call back unless there is nothing to say.
Deliver(b) ==
  /\ b \in taken
  /\ taken' = taken \ {b}
  /\ delivered' = IF AllBlank(b.msgs) THEN delivered ELSE Append(delivered, b)
  /\ UNCHANGED <<chats, timer, loose, arrived, stop>>

------------------------------------------------------------------------------
\* Mutant: the list is taken for the buffers of one channel.
StopOnce ==
  /\ stop.pc = "idle"
  /\ \E ch \in Channel :
       stop' = [stop EXCEPT !.pc = "flush", !.before = arrived,
                            !.todo = {c \in {ch} : chats[c] # <<>>}]
  /\ timer' = [ch \in Channel |-> FALSE]
  /\ UNCHANGED <<chats, loose, taken, delivered, arrived>>

\* Stop: the timers stop, and the channels that have a buffer are listed.
Stop ==
  /\ stop.pc = "idle"
  /\ stop' = [stop EXCEPT !.pc = "flush", !.before = arrived,
                          !.todo = {ch \in Channel : chats[ch] # <<>>}]
  /\ timer' = [ch \in Channel |-> FALSE]
  /\ UNCHANGED <<chats, loose, taken, delivered, arrived>>

\* One channel after the other: each flush returns before the next begins.
StopFlush(ch) ==
  /\ stop.pc = "flush"
  /\ ch \in stop.todo
  /\ stop.mine \cap taken = {}
  /\ Take(ch, 0)
  /\ stop' = [stop EXCEPT !.todo = @ \ {ch}, !.mine = taken' \ taken]
  /\ UNCHANGED <<delivered, arrived>>

StopReturn ==
  /\ stop.pc = "flush"
  /\ stop.todo = {}
  /\ stop.mine \cap taken = {}
  /\ stop' = [stop EXCEPT !.pc = "done", !.mine = {}]
  /\ UNCHANGED <<chats, timer, loose, taken, delivered, arrived>>

Next ==
  \/ \E ch \in Channel : Add(ch) \/ Fire(ch) \/ Flush(ch) \/ StopFlush(ch)
  \/ \E b \in taken : Deliver(b)
  \/ Stop \/ StopReturn

Spec == Init /\ [][Next]_vars

\* Timers fire, and goroutines that wait for the mutex or call back go on.
Fairness ==
  /\ \A ch \in Channel : WF_vars(Fire(ch)) /\ WF_vars(Flush(ch)) /\ WF_vars(StopFlush(ch))
  /\ WF_vars(\E b \in taken : Deliver(b))
  /\ WF_vars(StopReturn)

FairSpec == Spec /\ Fairness

------------------------------------------------------------------------------
TypeOK ==
  /\ chats \in [Channel -> Seq(Message)]
  /\ timer \in [Channel -> BOOLEAN]
  /\ loose \in [Channel -> Nat]
  /\ taken \subseteq Batch
  /\ delivered \in Seq(Batch)
  /\ arrived \in 0..MaxMessages
  /\ stop \in Stopping

\* A channel with messages has a timer or a flush on its way, whatever
\* additions, flushes and a Stop interleave: nothing is left behind.
NeverStranded ==
  \A ch \in Channel :
    chats[ch] # <<>> => timer[ch] \/ loose[ch] > 0 \/ ch \in stop.todo

Done == Range(delivered)

\* A message is in one place at a time: buffered, taken or delivered.  No
\* flush loses it, and no two flushes hand it over.
OnePlace ==
  /\ \A ch, other \in Channel :
       ch # other => Range(chats[ch]) \cap Range(chats[other]) = {}
  /\ \A ch \in Channel, b \in taken \cup Done :
       Range(chats[ch]) \cap Range(b.msgs) = {}
  /\ \A b, other \in taken \cup Done :
       b # other => Range(b.msgs) \cap Range(other.msgs) = {}
  /\ taken \cap Done = {}
  /\ \A i, j \in DOMAIN delivered : delivered[i] = delivered[j] => i = j

\* Every message that arrived and is not blank is in some place.
NothingLost ==
  \A m \in (1..arrived) \ Blank :
    \/ \E ch \in Channel : m \in Range(chats[ch])
    \/ \E b \in taken \cup Done : m \in Range(b.msgs)

\* Flushes cut a channel's messages into stretches: a batch is in the order
\* of arrival, and what another batch or the buffer holds came before all of
\* it or after all of it.
Before(s, t) == \A m \in Range(s), n \in Range(t) : m < n

Stretches ==
  /\ \A b \in taken \cup Done :
       \A i, j \in DOMAIN b.msgs : i < j => b.msgs[i] < b.msgs[j]
  /\ \A b \in taken \cup Done : Before(b.msgs, chats[b.chan])
  /\ \A b, other \in taken \cup Done :
       b # other /\ b.chan = other.chan =>
         Before(b.msgs, other.msgs) \/ Before(other.msgs, b.msgs)

\* Seen from outside, a message waits while it is buffered or taken, and is
\* handed over once, whatever goroutines flush at the same time.
Waiting(ch) ==
  Range(chats[ch]) \cup UNION {Range(b.msgs) : b \in {t \in taken : t.chan = ch}}

HandOvers ==
  [i \in DOMAIN delivered |->
    [chan |-> delivered[i].chan, msgs |-> Range(delivered[i].msgs)]]

Outside == INSTANCE MessageChannel
             WITH waiting <- [ch \in Channel |-> Waiting(ch)], handed <- HandOvers

HandedOverOnce == Outside!Spec

\* Every message that is not blank is handed over in the end.
AllDelivered ==
  \A m \in Message \ Blank :
    m <= arrived ~> \E b \in Done : m \in Range(b.msgs)

\* When Stop returns, no buffer holds a message that arrived before it, also
\* when timers that fired flush beside it and messages go on to arrive.
StopFlushes ==
  stop.pc = "done" =>
    \A ch \in Channel : \A m \in Range(chats[ch]) : m > stop.before
==============================================================================
