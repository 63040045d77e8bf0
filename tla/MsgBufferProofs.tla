--------------------------- MODULE MsgBufferProofs ----------------------------
(***************************************************************************)
(* What holds of the message buffer for any channels, any number of        *)
(* messages and any choice of blank ones: no buffer is left without a      *)
(* flush to come, no message is lost, and Stop leaves nothing behind.      *)
(***************************************************************************)
EXTENDS MsgBuffer, TLAPS

(***************************************************************************)
(* Sequences, by their ranges.                                             *)
(***************************************************************************)
LEMMA RangeOfAppend ==
  ASSUME NEW S, NEW s \in Seq(S), NEW e \in S
  PROVE  Range(Append(s, e)) = Range(s) \cup {e}
<1>1. Append(s, e) \in Seq(S) /\ DOMAIN Append(s, e) = 1..(Len(s) + 1) /\ DOMAIN s = 1..Len(s)
  OBVIOUS
<1>2. \A i \in DOMAIN s : i \in DOMAIN Append(s, e) /\ Append(s, e)[i] = s[i]
  OBVIOUS
<1>3. Append(s, e)[Len(s) + 1] = e /\ Len(s) \in Nat
  OBVIOUS
<1>4. \A i \in DOMAIN Append(s, e) : i \in DOMAIN s \/ i = Len(s) + 1
  BY <1>1, <1>3
<1> QED
  BY <1>1, <1>2, <1>3, <1>4 DEF Range

LEMMA RangeOfEmpty == Range(<<>>) = {}
  BY DEF Range

LEMMA RangeOfSeq ==
  ASSUME NEW S, NEW s \in Seq(S)
  PROVE  Range(s) \subseteq S
  BY DEF Range

(***************************************************************************)
(* What the part of a flush under the mutex does to the state.             *)
(***************************************************************************)
LEMMA TakeType ==
  ASSUME TypeOK, NEW ch \in Channel, NEW ended \in {0, 1}, loose[ch] >= ended,
         Take(ch, ended)
  PROVE  /\ chats' \in [Channel -> Seq(Message)]
         /\ timer' \in [Channel -> BOOLEAN]
         /\ loose' \in [Channel -> Nat]
         /\ taken' \subseteq Batch
<1>1. chats' \in [Channel -> Seq(Message)] /\ timer' \in [Channel -> BOOLEAN]
  <2>1. <<>> \in Seq(Message)
    OBVIOUS
  <2> QED
    BY <2>1 DEF TypeOK, Take
<1>2. loose' \in [Channel -> Nat]
  <2>1. loose[ch] - ended + Orphan(ch) \in Nat
    BY DEF TypeOK, Orphan
  <2> QED
    BY <2>1 DEF TypeOK, Take
<1>3. taken' \subseteq Batch
  BY DEF TypeOK, Take, Batch
<1> QED
  BY <1>1, <1>2, <1>3

(***************************************************************************)
(* Type correctness.                                                       *)
(***************************************************************************)
LEMMA TypeInit == Init => TypeOK
<1> SUFFICES ASSUME Init PROVE TypeOK
  OBVIOUS
<1>1. <<>> \in Seq(Message) /\ <<>> \in Seq(Batch)
  OBVIOUS
<1>2. 0 \in 0..MaxMessages
  BY BufferAssumption
<1> QED
  BY <1>1, <1>2 DEF Init, TypeOK, Stopping

LEMMA TypeStep == TypeOK /\ [Next]_vars => TypeOK'
<1> SUFFICES ASSUME TypeOK, [Next]_vars PROVE TypeOK'
  OBVIOUS
<1> USE BufferAssumption
<1>1. ASSUME NEW ch \in Channel, Add(ch) PROVE TypeOK'
  <2>1. arrived + 1 \in Message /\ arrived' \in 0..MaxMessages
    BY <1>1 DEF TypeOK, Add, Message
  <2>2. Append(chats[ch], arrived + 1) \in Seq(Message)
    BY <2>1 DEF TypeOK
  <2>3. chats' \in [Channel -> Seq(Message)] /\ timer' \in [Channel -> BOOLEAN]
    BY <1>1, <2>2 DEF TypeOK, Add
  <2> QED
    BY <1>1, <2>1, <2>3 DEF TypeOK, Add
<1>2. ASSUME NEW ch \in Channel, Fire(ch) PROVE TypeOK'
  BY <1>2 DEF TypeOK, Fire
<1>3. ASSUME NEW ch \in Channel, Flush(ch) PROVE TypeOK'
  <2>1. loose[ch] >= 1 /\ Take(ch, 1)
    BY <1>3 DEF TypeOK, Flush
  <2> QED
    BY <1>3, <2>1, TakeType DEF TypeOK, Flush
<1>4. ASSUME NEW ch \in Channel, StopFlush(ch) PROVE TypeOK'
  <2>1. loose[ch] >= 0 /\ Take(ch, 0)
    BY <1>4 DEF TypeOK, StopFlush
  <2>2. taken' \subseteq Batch
    BY <2>1, TakeType
  <2>3. stop' \in Stopping
    BY <1>4, <2>2 DEF TypeOK, StopFlush, Stopping
  <2> QED
    BY <1>4, <2>1, <2>3, TakeType DEF TypeOK, StopFlush
<1>5. ASSUME NEW b \in taken, Deliver(b) PROVE TypeOK'
  <2>1. b \in Batch /\ delivered' \in Seq(Batch)
    BY <1>5 DEF TypeOK, Deliver
  <2> QED
    BY <1>5, <2>1 DEF TypeOK, Deliver
<1>6. ASSUME Stop PROVE TypeOK'
  BY <1>6 DEF TypeOK, Stop, Stopping
<1>7. ASSUME StopReturn PROVE TypeOK'
  BY <1>7 DEF TypeOK, StopReturn, Stopping
<1>8. ASSUME UNCHANGED vars PROVE TypeOK'
  BY <1>8 DEF TypeOK, vars
<1> QED
  BY <1>1, <1>2, <1>3, <1>4, <1>5, <1>6, <1>7, <1>8 DEF Next

\* Every variable keeps the type that msgbuffer's fields and locals give it:
\* in particular, no flush runs that no timer or Stop asked for.
THEOREM TypeCorrect == Spec => []TypeOK
  BY TypeInit, TypeStep, PTL DEF Spec

(***************************************************************************)
(* Nothing is left behind.  NeverStranded is inductive: only an Add fills  *)
(* a buffer, and it starts a timer; only Fire, Take and Stop disarm one,   *)
(* and each leaves a flush to come or an empty buffer.                     *)
(***************************************************************************)
LEMMA StrandedStep == TypeOK /\ NeverStranded /\ [Next]_vars => NeverStranded'
<1> SUFFICES ASSUME TypeOK, NeverStranded, [Next]_vars,
                    NEW c \in Channel, chats'[c] # <<>>
             PROVE  timer'[c] \/ loose'[c] > 0 \/ c \in stop'.todo
  BY DEF NeverStranded
<1> DEFINE Goal == timer'[c] \/ loose'[c] > 0 \/ c \in stop'.todo
<1>0. chats[c] # <<>> => timer[c] \/ loose[c] > 0 \/ c \in stop.todo
  BY DEF NeverStranded
<1>1. ASSUME NEW ch \in Channel, Add(ch) PROVE Goal
  BY <1>0, <1>1 DEF TypeOK, Add
<1>2. ASSUME NEW ch \in Channel, Fire(ch) PROVE Goal
  BY <1>0, <1>2 DEF TypeOK, Fire
<1>3. ASSUME NEW ch \in Channel, Flush(ch) PROVE Goal
  BY <1>0, <1>3 DEF TypeOK, Flush, Take
<1>4. ASSUME NEW ch \in Channel, StopFlush(ch) PROVE Goal
  BY <1>0, <1>4 DEF TypeOK, StopFlush, Take, Stopping
<1>5. ASSUME NEW b \in taken, Deliver(b) PROVE Goal
  BY <1>0, <1>5 DEF Deliver
<1>6. ASSUME Stop PROVE Goal
  BY <1>0, <1>6 DEF TypeOK, Stop, Stopping
<1>7. ASSUME StopReturn PROVE Goal
  BY <1>0, <1>7 DEF TypeOK, StopReturn, Stopping
<1>8. ASSUME UNCHANGED vars PROVE Goal
  BY <1>0, <1>8 DEF vars
<1> QED
  BY <1>1, <1>2, <1>3, <1>4, <1>5, <1>6, <1>7, <1>8 DEF Next

\* However additions, flushes by timers that can no longer be stopped and a
\* Stop interleave, a buffer that holds messages has a flush to come.
THEOREM NothingStranded == Spec => []NeverStranded
<1>1. Init => NeverStranded
  BY DEF Init, NeverStranded
<1> QED
  BY <1>1, StrandedStep, TypeCorrect, PTL DEF Spec

(***************************************************************************)
(* Stop.  While it goes through its list, the channels no longer on the    *)
(* list hold only messages that arrived after it was called.               *)
(***************************************************************************)
StopProgress ==
  stop.pc # "idle" =>
    /\ stop.before <= arrived
    /\ \A ch \in Channel \ stop.todo : \A m \in Range(chats[ch]) : m > stop.before

StopInv == StopProgress /\ (stop.pc = "done" => stop.todo = {})

LEMMA StopStep == TypeOK /\ StopInv /\ [Next]_vars => StopInv'
<1> SUFFICES ASSUME TypeOK, StopInv, [Next]_vars PROVE StopInv'
  OBVIOUS
<1> USE DEF StopInv, StopProgress
<1>1. ASSUME NEW ch \in Channel, Add(ch) PROVE StopInv'
  <2>1. /\ stop' = stop
        /\ arrived' = arrived + 1
        /\ arrived \in Nat /\ stop.before \in Nat /\ arrived + 1 \in Message
    BY <1>1, BufferAssumption DEF TypeOK, Add, Stopping, Message
  <2>2. /\ Range(chats'[ch]) = Range(chats[ch]) \cup {arrived + 1}
        /\ \A c \in Channel : c # ch => chats'[c] = chats[c]
    BY <1>1, <2>1, RangeOfAppend DEF TypeOK, Add
  <2> QED
    BY <2>1, <2>2
<1>2. ASSUME NEW ch \in Channel, Fire(ch) PROVE StopInv'
  BY <1>2 DEF Fire
<1>3. ASSUME NEW ch \in Channel, Flush(ch) PROVE StopInv'
  <2>1. stop' = stop /\ arrived' = arrived
    BY <1>3 DEF Flush
  <2>2. /\ Range(chats'[ch]) = {}
        /\ \A c \in Channel : c # ch => chats'[c] = chats[c]
    BY <1>3, RangeOfEmpty DEF TypeOK, Flush, Take
  <2> QED
    BY <2>1, <2>2
<1>4. ASSUME NEW ch \in Channel, StopFlush(ch) PROVE StopInv'
  <2>1. /\ stop.pc = "flush" /\ stop'.pc = "flush" /\ stop'.before = stop.before
        /\ stop'.todo = stop.todo \ {ch} /\ arrived' = arrived
    BY <1>4 DEF TypeOK, StopFlush, Stopping
  <2>2. /\ Range(chats'[ch]) = {}
        /\ \A c \in Channel : c # ch => chats'[c] = chats[c]
    BY <1>4, RangeOfEmpty DEF TypeOK, StopFlush, Take
  <2> QED
    BY <2>1, <2>2
<1>5. ASSUME NEW b \in taken, Deliver(b) PROVE StopInv'
  BY <1>5 DEF Deliver
<1>6. ASSUME Stop PROVE StopInv'
  <2>1. /\ stop'.before = arrived /\ arrived' = arrived /\ chats' = chats
        /\ stop'.pc = "flush" /\ stop'.todo = {ch \in Channel : chats[ch] # <<>>}
        /\ arrived \in Nat
    BY <1>6, BufferAssumption DEF TypeOK, Stop, Stopping
  <2>2. \A c \in Channel \ stop'.todo : Range(chats'[c]) = {}
    BY <2>1, RangeOfEmpty
  <2> QED
    BY <2>1, <2>2
<1>7. ASSUME StopReturn PROVE StopInv'
  BY <1>7 DEF TypeOK, StopReturn, Stopping
<1>8. ASSUME UNCHANGED vars PROVE StopInv'
  BY <1>8 DEF vars
<1> QED
  BY <1>1, <1>2, <1>3, <1>4, <1>5, <1>6, <1>7, <1>8 DEF Next

\* When Stop returns, no buffer holds a message that arrived before it.
THEOREM StopEmpties == Spec => []StopFlushes
<1>1. Init => StopInv
  BY DEF Init, StopInv, StopProgress
<1>2. StopInv => StopFlushes
  BY DEF StopInv, StopProgress, StopFlushes
<1> QED
  BY <1>1, <1>2, StopStep, TypeCorrect, PTL DEF Spec

(***************************************************************************)
(* No message is lost.  It is enough to follow where one message can be.   *)
(***************************************************************************)
Somewhere(m) ==
  \/ \E ch \in Channel : m \in Range(chats[ch])
  \/ \E b \in taken \cup Done : m \in Range(b.msgs)

LEMMA LostStep == TypeOK /\ NothingLost /\ [Next]_vars => NothingLost'
<1> SUFFICES ASSUME TypeOK, NothingLost, [Next]_vars PROVE NothingLost'
  OBVIOUS
<1>0. /\ NothingLost <=> \A m \in (1..arrived) \ Blank : Somewhere(m)
      /\ NothingLost' <=> \A m \in (1..arrived') \ Blank : Somewhere(m)'
  BY DEF NothingLost, Somewhere
<1>a. ASSUME NEW ch \in Channel, NEW ended \in {0, 1}, Take(ch, ended),
             UNCHANGED <<delivered, arrived>>
      PROVE  NothingLost'
  <2>1. /\ \A c \in Channel : c # ch => chats'[c] = chats[c]
        /\ taken \subseteq taken' /\ Done' = Done
    BY <1>a DEF TypeOK, Take, Done
  <2>2. \A m \in Range(chats[ch]) : \E b \in taken' : m \in Range(b.msgs)
    <3>1. CASE chats[ch] = <<>>
      BY <3>1, RangeOfEmpty
    <3>2. CASE chats[ch] # <<>>
      <4>1. [chan |-> ch, msgs |-> chats[ch]] \in taken'
        BY <1>a, <3>2 DEF Take
      <4> QED
        BY <4>1
    <3> QED
      BY <3>1, <3>2
  <2>3. \A m : Somewhere(m) => Somewhere(m)'
    BY <2>1, <2>2 DEF Somewhere
  <2> QED
    BY <1>0, <1>a, <2>3
<1>1. ASSUME NEW ch \in Channel, Add(ch) PROVE NothingLost'
  <2>1. /\ arrived' = arrived + 1 /\ arrived \in Nat /\ arrived + 1 \in Message
        /\ taken' = taken /\ Done' = Done
    BY <1>1, BufferAssumption DEF TypeOK, Add, Message, Done
  <2>2. /\ Range(chats'[ch]) = Range(chats[ch]) \cup {arrived + 1}
        /\ \A c \in Channel : c # ch => chats'[c] = chats[c]
    BY <1>1, <2>1, RangeOfAppend DEF TypeOK, Add
  <2>3. \A m : m = arrived + 1 \/ Somewhere(m) => Somewhere(m)'
    BY <2>1, <2>2 DEF Somewhere
  <2>4. \A m \in 1..arrived' : m \in 1..arrived \/ m = arrived + 1
    BY <2>1
  <2> QED
    BY <1>0, <2>3, <2>4
<1>2. ASSUME NEW ch \in Channel, Fire(ch) PROVE NothingLost'
  BY <1>2 DEF Fire, NothingLost, Done
<1>3. ASSUME NEW ch \in Channel, Flush(ch) PROVE NothingLost'
  BY <1>3, <1>a DEF Flush
<1>4. ASSUME NEW ch \in Channel, StopFlush(ch) PROVE NothingLost'
  BY <1>4, <1>a DEF StopFlush
<1>5. ASSUME NEW b \in taken, Deliver(b) PROVE NothingLost'
  <2>1. chats' = chats /\ arrived' = arrived /\ taken' = taken \ {b} /\ b \in Batch
    BY <1>5 DEF TypeOK, Deliver
  <2>2. CASE AllBlank(b.msgs)
    <3>1. Done' = Done /\ Range(b.msgs) \subseteq Blank
      BY <1>5, <2>2 DEF Deliver, AllBlank, Done
    <3>2. \A m : m \notin Blank /\ Somewhere(m) => Somewhere(m)'
      BY <2>1, <3>1 DEF Somewhere
    <3> QED
      BY <1>0, <2>1, <3>2
  <2>3. CASE ~AllBlank(b.msgs)
    <3>1. Done' = Done \cup {b}
      BY <1>5, <2>1, <2>3, RangeOfAppend DEF TypeOK, Deliver, Done
    <3>2. \A m : Somewhere(m) => Somewhere(m)'
      BY <2>1, <3>1 DEF Somewhere
    <3> QED
      BY <1>0, <2>1, <3>2
  <2> QED
    BY <2>2, <2>3
<1>6. ASSUME Stop PROVE NothingLost'
  BY <1>6 DEF Stop, NothingLost, Done
<1>7. ASSUME StopReturn PROVE NothingLost'
  BY <1>7 DEF StopReturn, NothingLost, Done
<1>8. ASSUME UNCHANGED vars PROVE NothingLost'
  BY <1>8 DEF vars, NothingLost, Done
<1> QED
  BY <1>1, <1>2, <1>3, <1>4, <1>5, <1>6, <1>7, <1>8 DEF Next

\* Every message that arrived and is not blank is buffered, on its way to
\* onFlush, or handed over.
THEOREM NoneLost == Spec => []NothingLost
<1>1. Init => NothingLost
  BY DEF Init, NothingLost
<1> QED
  BY <1>1, LostStep, TypeCorrect, PTL DEF Spec

(***************************************************************************)
(* A message is in one place.  Inductive with the fact that the numbers of *)
(* all messages in the buffer are those that arrived, and that no batch is *)
(* empty: then the batch a flush takes is new.                             *)
(***************************************************************************)
Arrived ==
  /\ \A ch \in Channel : Range(chats[ch]) \subseteq 1..arrived
  /\ \A b \in taken \cup Done : Range(b.msgs) \subseteq 1..arrived /\ Range(b.msgs) # {}

PlaceInv == Arrived /\ OnePlace

LEMMA PlaceStep == TypeOK /\ PlaceInv /\ [Next]_vars => PlaceInv'
<1> SUFFICES ASSUME TypeOK, PlaceInv, [Next]_vars PROVE PlaceInv'
  OBVIOUS
<1> USE DEF PlaceInv, Arrived, OnePlace
<1>a. ASSUME NEW ch \in Channel, NEW ended \in {0, 1}, Take(ch, ended),
             UNCHANGED <<delivered, arrived>>
      PROVE  PlaceInv'
  <2>1. /\ \A c \in Channel : c # ch => chats'[c] = chats[c]
        /\ Range(chats'[ch]) = {}
        /\ Done' = Done
    BY <1>a, RangeOfEmpty DEF TypeOK, Take, Done
  <2>2. CASE chats[ch] = <<>>
    <3>1. taken' = taken
      BY <1>a, <2>2 DEF Take
    <3> QED
      BY <1>a, <2>1, <3>1
  <2>3. CASE chats[ch] # <<>>
    <3> DEFINE new == [chan |-> ch, msgs |-> chats[ch]]
    <3>1. taken' = taken \cup {new} /\ new.msgs = chats[ch]
      BY <1>a, <2>3 DEF Take
    <3>2. Range(new.msgs) # {} /\ Range(new.msgs) \subseteq 1..arrived
      <4>1. chats[ch] \in Seq(Message) /\ 1 \in DOMAIN chats[ch]
        BY <2>3 DEF TypeOK
      <4> QED
        BY <3>1, <4>1 DEF Range
    <3>3. \A b \in taken \cup Done : Range(b.msgs) \cap Range(new.msgs) = {} /\ b # new
      BY <3>1, <3>2
    <3>4. \A c \in Channel : Range(chats'[c]) \cap Range(new.msgs) = {}
      BY <2>1, <3>1
    <3> HIDE DEF new
    <3> QED
      BY <1>a, <2>1, <3>1, <3>2, <3>3, <3>4
  <2> QED
    BY <2>2, <2>3
<1>1. ASSUME NEW ch \in Channel, Add(ch) PROVE PlaceInv'
  <2>1. /\ arrived' = arrived + 1 /\ arrived \in Nat /\ arrived + 1 \in Message
        /\ taken' = taken /\ Done' = Done /\ delivered' = delivered
    BY <1>1, BufferAssumption DEF TypeOK, Add, Message, Done
  <2>2. /\ Range(chats'[ch]) = Range(chats[ch]) \cup {arrived + 1}
        /\ \A c \in Channel : c # ch => chats'[c] = chats[c]
    BY <1>1, <2>1, RangeOfAppend DEF TypeOK, Add
  <2>3. 1..arrived \subseteq 1..arrived' /\ arrived + 1 \in 1..arrived'
        /\ arrived + 1 \notin 1..arrived
    BY <2>1
  <2>4. \A b \in taken \cup Done : Range(chats'[ch]) \cap Range(b.msgs) = {}
    BY <2>2, <2>3
  <2>5. \A c \in Channel : c # ch => Range(chats'[ch]) \cap Range(chats'[c]) = {}
    BY <2>2, <2>3
  <2>6. Arrived'
    BY <2>1, <2>2, <2>3
  <2> QED
    BY <2>1, <2>2, <2>4, <2>5, <2>6
<1>2. ASSUME NEW ch \in Channel, Fire(ch) PROVE PlaceInv'
  BY <1>2 DEF Fire, Done
<1>3. ASSUME NEW ch \in Channel, Flush(ch) PROVE PlaceInv'
  BY <1>3, <1>a DEF Flush
<1>4. ASSUME NEW ch \in Channel, StopFlush(ch) PROVE PlaceInv'
  BY <1>4, <1>a DEF StopFlush
<1>5. ASSUME NEW b \in taken, Deliver(b) PROVE PlaceInv'
  <2>1. /\ chats' = chats /\ arrived' = arrived /\ taken' = taken \ {b}
        /\ b \in Batch /\ b \notin Done
    BY <1>5 DEF TypeOK, Deliver
  <2>2. CASE AllBlank(b.msgs)
    <3>1. delivered' = delivered /\ Done' = Done
      BY <1>5, <2>2 DEF Deliver, Done
    <3> QED
      BY <2>1, <3>1
  <2>3. CASE ~AllBlank(b.msgs)
    <3>1. delivered' = Append(delivered, b) /\ delivered \in Seq(Batch)
      BY <1>5, <2>3 DEF Deliver, TypeOK
    <3>2. Done' = Done \cup {b}
      BY <2>1, <3>1, RangeOfAppend DEF Done
    <3>3. \A i \in DOMAIN delivered : delivered[i] # b
      BY <2>1 DEF Done, Range
    <3>4. \A i, j \in DOMAIN delivered' : delivered'[i] = delivered'[j] => i = j
      BY <2>1, <3>1, <3>3
    <3>5. taken' \cup Done' = taken \cup Done /\ taken' \cap Done' = {}
      BY <1>5, <2>1, <3>2
    <3> QED
      BY <2>1, <3>4, <3>5
  <2> QED
    BY <2>2, <2>3
<1>6. ASSUME Stop PROVE PlaceInv'
  BY <1>6 DEF Stop, Done
<1>7. ASSUME StopReturn PROVE PlaceInv'
  BY <1>7 DEF StopReturn, Done
<1>8. ASSUME UNCHANGED vars PROVE PlaceInv'
  BY <1>8 DEF vars, Done
<1> QED
  BY <1>1, <1>2, <1>3, <1>4, <1>5, <1>6, <1>7, <1>8 DEF Next

LEMMA Places == Spec => []PlaceInv
<1>1. Init => PlaceInv
  BY RangeOfEmpty DEF Init, PlaceInv, Arrived, OnePlace, Done
<1> QED
  BY <1>1, PlaceStep, TypeCorrect, PTL DEF Spec

\* A message is buffered, taken or delivered, never two of these, and never
\* in two batches, however many flushes run at the same time.
THEOREM NeverTwice == Spec => []OnePlace
  BY Places, PTL DEF PlaceInv

(***************************************************************************)
(* The order of messages.  Inductive with the fact that a buffer is in the *)
(* order of arrival: a new message is younger than all others, and what a  *)
(* flush takes is younger than all earlier batches of its channel.         *)
(***************************************************************************)
Ordered(s) == \A i, j \in DOMAIN s : i < j => s[i] < s[j]

OrderInv == Stretches /\ \A ch \in Channel : Ordered(chats[ch])

LEMMA OrderOfAppend ==
  ASSUME NEW s \in Seq(Message), Ordered(s), NEW m \in Message,
         \A n \in Range(s) : n < m
  PROVE  Ordered(Append(s, m))
<1>1. /\ DOMAIN Append(s, m) = 1..(Len(s) + 1) /\ Len(s) \in Nat /\ DOMAIN s = 1..Len(s)
      /\ Append(s, m)[Len(s) + 1] = m
      /\ \A i \in 1..Len(s) : Append(s, m)[i] = s[i]
  OBVIOUS
<1>2. \A i \in 1..Len(s) : s[i] < m
  BY <1>1 DEF Range
<1>3. ASSUME NEW i \in 1..(Len(s) + 1), NEW j \in 1..(Len(s) + 1), i < j
      PROVE  Append(s, m)[i] < Append(s, m)[j]
  BY <1>1, <1>2, <1>3 DEF Ordered
<1> QED
  BY <1>1, <1>3 DEF Ordered

LEMMA OrderStep == TypeOK /\ PlaceInv /\ OrderInv /\ [Next]_vars => OrderInv'
<1> SUFFICES ASSUME TypeOK, PlaceInv, OrderInv, [Next]_vars PROVE OrderInv'
  OBVIOUS
<1>0. OrderInv <=> /\ \A ch \in Channel : Ordered(chats[ch])
                   /\ \A b \in taken \cup Done : Ordered(b.msgs) /\ Before(b.msgs, chats[b.chan])
                   /\ \A b, other \in taken \cup Done :
                        b # other /\ b.chan = other.chan =>
                          Before(b.msgs, other.msgs) \/ Before(other.msgs, b.msgs)
  BY DEF OrderInv, Stretches, Ordered
<1>1. OrderInv' <=> /\ \A ch \in Channel : Ordered(chats'[ch])
                    /\ \A b \in taken' \cup Done' : Ordered(b.msgs) /\ Before(b.msgs, chats'[b.chan])
                    /\ \A b, other \in taken' \cup Done' :
                         b # other /\ b.chan = other.chan =>
                           Before(b.msgs, other.msgs) \/ Before(other.msgs, b.msgs)
  BY DEF OrderInv, Stretches, Ordered, Before
<1>2. \A b \in taken \cup Done : b.chan \in Channel
  <2>1. Done \subseteq Batch
    BY RangeOfSeq DEF TypeOK, Done
  <2> QED
    BY <2>1 DEF TypeOK, Batch
<1>a. ASSUME NEW ch \in Channel, NEW ended \in {0, 1}, Take(ch, ended), UNCHANGED delivered
      PROVE  OrderInv'
  <2>1. /\ \A c \in Channel : c # ch => chats'[c] = chats[c]
        /\ chats'[ch] = <<>> /\ Done' = Done
    BY <1>a DEF TypeOK, Take, Done
  <2>2. Ordered(<<>>) /\ \A s : Before(s, <<>>)
    BY RangeOfEmpty DEF Ordered, Before
  <2>3. \A b \in taken \cup Done : Before(b.msgs, chats'[b.chan])
    BY <1>0, <1>2, <2>1, <2>2
  <2>4. CASE chats[ch] = <<>>
    <3>1. taken' = taken
      BY <1>a, <2>4 DEF Take
    <3> QED
      BY <1>0, <1>1, <2>1, <2>2, <2>3, <3>1
  <2>5. CASE chats[ch] # <<>>
    <3> DEFINE new == [chan |-> ch, msgs |-> chats[ch]]
    <3>1. taken' = taken \cup {new} /\ new.msgs = chats[ch] /\ new.chan = ch
      BY <1>a, <2>5 DEF Take
    <3> HIDE DEF new
    <3>2. Ordered(new.msgs) /\ Before(new.msgs, chats'[new.chan])
      BY <1>0, <2>1, <2>2, <3>1
    <3>3. \A b \in taken \cup Done : b.chan = new.chan => Before(b.msgs, new.msgs)
      BY <1>0, <3>1
    <3> QED
      BY <1>0, <1>1, <2>1, <2>2, <2>3, <3>1, <3>2, <3>3
  <2> QED
    BY <2>4, <2>5
<1>3. ASSUME NEW ch \in Channel, Add(ch) PROVE OrderInv'
  <2>1. /\ arrived' = arrived + 1 /\ arrived \in Nat /\ arrived + 1 \in Message
        /\ taken' = taken /\ Done' = Done /\ chats[ch] \in Seq(Message)
        /\ chats'[ch] = Append(chats[ch], arrived + 1)
        /\ \A c \in Channel : c # ch => chats'[c] = chats[c]
    BY <1>3, BufferAssumption DEF TypeOK, Add, Message, Done
  <2>2. Range(chats'[ch]) = Range(chats[ch]) \cup {arrived + 1}
    BY <2>1, RangeOfAppend
  <2>3. Ordered(chats'[ch])
    <3>1. \A n \in Range(chats[ch]) : n < arrived + 1
      BY <2>1 DEF PlaceInv, Arrived
    <3> QED
      BY <1>0, <2>1, <3>1, OrderOfAppend
  <2>4. \A b \in taken \cup Done : Before(b.msgs, chats'[b.chan])
    <3> SUFFICES ASSUME NEW b \in taken \cup Done, NEW m \in Range(b.msgs),
                        NEW n \in Range(chats'[b.chan])
                 PROVE  m < n
      BY DEF Before
    <3>1. n \in Range(chats[b.chan]) \/ n = arrived + 1
      BY <1>2, <2>1, <2>2
    <3>2. m < arrived + 1
      <4>1. Range(b.msgs) \subseteq 1..arrived
        BY DEF PlaceInv, Arrived
      <4> QED
        BY <2>1, <4>1
    <3> QED
      BY <1>0, <3>1, <3>2 DEF Before
  <2> QED
    BY <1>0, <1>1, <2>1, <2>3, <2>4
<1>4. ASSUME NEW ch \in Channel, Flush(ch) PROVE OrderInv'
  BY <1>4, <1>a DEF Flush
<1>5. ASSUME NEW ch \in Channel, StopFlush(ch) PROVE OrderInv'
  BY <1>5, <1>a DEF StopFlush
<1>6. ASSUME chats' = chats, taken' \cup Done' \subseteq taken \cup Done PROVE OrderInv'
  BY <1>0, <1>1, <1>6
<1>7. ASSUME NEW b \in taken, Deliver(b) PROVE OrderInv'
  <2>1. b \in Batch /\ delivered \in Seq(Batch)
    BY DEF TypeOK
  <2>2. Done' \subseteq Done \cup {b}
    BY <1>7, <2>1, RangeOfAppend DEF Deliver, Done
  <2> QED
    BY <1>6, <1>7, <2>2 DEF Deliver
<1>8. ASSUME UNCHANGED <<chats, taken, delivered>> PROVE OrderInv'
  BY <1>6, <1>8 DEF Done
<1>9. ASSUME NEW ch \in Channel, Fire(ch) PROVE OrderInv'
  BY <1>8, <1>9 DEF Fire
<1>10. ASSUME Stop \/ StopReturn \/ UNCHANGED vars PROVE OrderInv'
  BY <1>8, <1>10 DEF Stop, StopReturn, vars
<1> QED
  BY <1>3, <1>4, <1>5, <1>7, <1>9, <1>10 DEF Next

\* Every batch is in the order of arrival, and batches of one channel do not
\* overlap in it, however flushes that no longer can be stopped interleave.
THEOREM BatchesAreStretches == Spec => []Stretches
<1>1. Init => OrderInv
  BY DEF Init, OrderInv, Stretches, Ordered, Done, Range
<1>2. OrderInv => Stretches
  BY DEF OrderInv
<1> QED
  BY <1>1, <1>2, OrderStep, TypeCorrect, Places, PTL DEF Spec

(***************************************************************************)
(* The buffer implements the channel: additions arrive, callbacks hand     *)
(* over or drop, and everything else is invisible.                         *)
(***************************************************************************)
Seen == [ch \in Channel |-> Waiting(ch)]

LEMMA HandOversAppend ==
  ASSUME TypeOK, NEW b \in Batch, delivered' = Append(delivered, b)
  PROVE  HandOvers' = Append(HandOvers, [chan |-> b.chan, msgs |-> Range(b.msgs)])
<1> DEFINE R == [chan : Channel, msgs : SUBSET Message]
<1> DEFINE r(x) == [chan |-> x.chan, msgs |-> Range(x.msgs)]
<1>1. \A x \in Batch : r(x) \in R
  BY RangeOfSeq DEF Batch
<1>2. delivered \in Seq(Batch) /\ delivered' \in Seq(Batch)
  BY DEF TypeOK
<1>3. \A i \in DOMAIN delivered : delivered[i] \in Batch
  BY <1>2
<1>4. /\ HandOvers = [i \in DOMAIN delivered |-> r(delivered[i])]
      /\ HandOvers' = [i \in DOMAIN delivered' |-> r(delivered'[i])]
  BY DEF HandOvers
<1> HIDE DEF r
<1>5. HandOvers \in Seq(R) /\ Len(HandOvers) = Len(delivered)
  <2>1. DOMAIN delivered = 1..Len(delivered) /\ Len(delivered) \in Nat
    BY <1>2
  <2>2. HandOvers \in [1..Len(delivered) -> R]
    BY <1>1, <1>3, <1>4, <2>1
  <2> HIDE DEF R
  <2> QED
    BY <2>1, <2>2
<1>6. HandOvers' = Append(HandOvers, r(b))
  BY <1>1, <1>2, <1>4, <1>5
<1> QED
  BY <1>6 DEF r

LEMMA Invisible ==
  ASSUME UNCHANGED <<arrived, delivered>>, \A ch \in Channel : Waiting(ch)' = Waiting(ch)
  PROVE  UNCHANGED Outside!vars
  BY DEF Outside!vars, HandOvers

LEMMA TakeInvisible ==
  ASSUME TypeOK, NEW ch \in Channel, NEW ended \in {0, 1}, Take(ch, ended),
         UNCHANGED <<arrived, delivered>>
  PROVE  UNCHANGED Outside!vars
<1>1. /\ \A c \in Channel : c # ch => chats'[c] = chats[c]
      /\ Range(chats'[ch]) = {}
  BY RangeOfEmpty DEF TypeOK, Take
<1>2. CASE chats[ch] = <<>>
  <2>1. taken' = taken /\ chats'[ch] = chats[ch]
    BY <1>2 DEF Take, TypeOK
  <2>2. \A c \in Channel : Waiting(c)' = Waiting(c)
    BY <1>1, <2>1 DEF Waiting
  <2> QED
    BY <2>2, Invisible
<1>3. CASE chats[ch] # <<>>
  <2> DEFINE new == [chan |-> ch, msgs |-> chats[ch]]
  <2>1. taken' = taken \cup {new} /\ new.msgs = chats[ch] /\ new.chan = ch
    BY <1>3 DEF Take
  <2> HIDE DEF new
  <2>2. Waiting(ch)' = Waiting(ch)
    BY <1>1, <2>1 DEF Waiting
  <2>3. \A c \in Channel : c # ch => Waiting(c)' = Waiting(c)
    BY <1>1, <2>1 DEF Waiting
  <2> QED
    BY <2>2, <2>3, Invisible
<1> QED
  BY <1>2, <1>3

LEMMA DeliverVisible ==
  ASSUME TypeOK, PlaceInv, NEW b \in taken, Deliver(b)
  PROVE  Outside!Next
<1> DEFINE ch == b.chan
<1>1. /\ b \in Batch /\ ch \in Channel /\ taken' = taken \ {b}
      /\ chats' = chats /\ arrived' = arrived
  BY DEF TypeOK, Deliver, Batch
<1>2. /\ Waiting(ch)' = Waiting(ch) \ Range(b.msgs)
      /\ Range(b.msgs) \subseteq Waiting(ch)
  BY <1>1 DEF Waiting, PlaceInv, OnePlace
<1>3. \A c \in Channel : c # ch => Waiting(c)' = Waiting(c)
  BY <1>1 DEF Waiting
<1>4. Seen' = [Seen EXCEPT ![ch] = @ \ Range(b.msgs)] /\ Seen[ch] = Waiting(ch)
  BY <1>1, <1>2, <1>3 DEF Seen
<1>5. CASE AllBlank(b.msgs)
  <2>1. delivered' = delivered /\ Range(b.msgs) \subseteq Blank
    BY <1>5 DEF Deliver, AllBlank
  <2>2. HandOvers' = HandOvers
    BY <2>1 DEF HandOvers
  <2>3. Outside!Drop(ch)
    BY <1>1, <1>2, <1>4, <2>1, <2>2 DEF Outside!Drop, Seen
  <2> QED
    BY <1>1, <2>3 DEF Outside!Next
<1>6. CASE ~AllBlank(b.msgs)
  <2>1. HandOvers' = Append(HandOvers, [chan |-> ch, msgs |-> Range(b.msgs)])
    BY <1>1, <1>6, HandOversAppend DEF Deliver
  <2>2. Range(b.msgs) # {}
    BY DEF PlaceInv, Arrived
  <2>3. Outside!HandOver(ch)
    <3>1. Range(b.msgs) \in (SUBSET Seen[ch]) \ {{}}
      BY <1>2, <1>4, <2>2
    <3> QED
      BY <1>1, <1>4, <2>1, <3>1 DEF Outside!HandOver, Seen
  <2> QED
    BY <1>1, <2>3 DEF Outside!Next
<1> QED
  BY <1>5, <1>6

LEMMA AddVisible ==
  ASSUME TypeOK, NEW ch \in Channel, Add(ch)
  PROVE  Outside!Next
<1>1. /\ arrived < MaxMessages /\ arrived' = arrived + 1 /\ arrived + 1 \in Message
      /\ taken' = taken /\ delivered' = delivered
  BY BufferAssumption DEF TypeOK, Add, Message
<1>2. /\ Range(chats'[ch]) = Range(chats[ch]) \cup {arrived + 1}
      /\ \A c \in Channel : c # ch => chats'[c] = chats[c]
  BY <1>1, RangeOfAppend DEF TypeOK, Add
<1>3. Waiting(ch)' = Waiting(ch) \cup {arrived + 1}
  BY <1>1, <1>2 DEF Waiting
<1>4. \A c \in Channel : c # ch => Waiting(c)' = Waiting(c)
  BY <1>1, <1>2 DEF Waiting
<1>5. Seen' = [Seen EXCEPT ![ch] = @ \cup {arrived + 1}]
  BY <1>3, <1>4 DEF Seen
<1>6. HandOvers' = HandOvers
  BY <1>1 DEF HandOvers
<1>7. Outside!Arrive(ch)
  BY <1>1, <1>5, <1>6 DEF Outside!Arrive, Seen
<1> QED
  BY <1>7 DEF Outside!Next

LEMMA StepImplements ==
  TypeOK /\ PlaceInv /\ [Next]_vars => [Outside!Next]_(Outside!vars)
<1> SUFFICES ASSUME TypeOK, PlaceInv, [Next]_vars
             PROVE  Outside!Next \/ UNCHANGED Outside!vars
  OBVIOUS
<1>1. ASSUME NEW ch \in Channel, Add(ch) PROVE Outside!Next
  BY <1>1, AddVisible
<1>2. ASSUME NEW b \in taken, Deliver(b) PROVE Outside!Next
  BY <1>2, DeliverVisible
<1>3. ASSUME NEW ch \in Channel, Flush(ch) \/ StopFlush(ch) PROVE UNCHANGED Outside!vars
  BY <1>3, TakeInvisible DEF Flush, StopFlush
<1>4. ASSUME UNCHANGED <<chats, taken, delivered, arrived>> PROVE UNCHANGED Outside!vars
  BY <1>4 DEF Outside!vars, HandOvers, Waiting
<1>5. ASSUME NEW ch \in Channel, Fire(ch) PROVE UNCHANGED Outside!vars
  BY <1>4, <1>5 DEF Fire
<1>6. ASSUME Stop \/ StopReturn \/ UNCHANGED vars PROVE UNCHANGED Outside!vars
  BY <1>4, <1>6 DEF Stop, StopReturn, vars
<1> QED
  BY <1>1, <1>2, <1>3, <1>5, <1>6 DEF Next

LEMMA InitImplements == Init => Outside!Init
<1> SUFFICES ASSUME Init PROVE Outside!Init
  OBVIOUS
<1>1. \A ch \in Channel : Waiting(ch) = {}
  BY RangeOfEmpty DEF Init, Waiting
<1>2. HandOvers = <<>>
  BY DEF Init, HandOvers
<1> QED
  BY <1>1, <1>2 DEF Init, Outside!Init

\* The buffer hands every message over at most once and drops none that is
\* not blank, seen from the plugin that adds messages and is called back.
THEOREM Implementation == Spec => HandedOverOnce
  BY InitImplements, StepImplements, TypeCorrect, Places, PTL
  DEF Spec, HandedOverOnce, Outside!Spec
==============================================================================
