--------------------------- MODULE EventOutboxProofs --------------------------
(***************************************************************************)
(* What holds of the event client for any number of events, topics and     *)
(* goroutines, whenever the bus comes and goes: no event stays in a queue  *)
(* that nobody flushes, and only one goroutine flushes.                    *)
(***************************************************************************)
EXTENDS EventOutbox, TLAPS

LEMMA AtType ==
  ASSUME NEW pc \in {"none", "wait", "notified", "search", "found", "flush", "send",
                     "subscribe"}
  PROVE  At(pc) \in Call /\ At(pc).pc = pc /\ At(pc).entries = <<>> /\ At(pc).types = {}
  BY DEF At, Call

LEMMA GoroutineType ==
  /\ Lookup \in Goroutine
  /\ 1..LastNotice \subseteq Goroutine
  BY OutboxAssumption DEF Lookup, Goroutine

(***************************************************************************)
(* Type correctness.                                                       *)
(***************************************************************************)
LEMMA TypeInit == Init => TypeOK
<1> SUFFICES ASSUME Init PROVE TypeOK
  OBVIOUS
<1>1. call \in [Goroutine -> Call] /\ \A g \in Goroutine : call[g].types = {}
  BY AtType DEF Init
<1>2. <<>> \in Seq(Event) /\ {0} \subseteq (0..MaxStops) \cap (0..MaxEvents) \cap (0..MaxFaults)
  BY OutboxAssumption
<1>3. outbox \in Seq(Event) /\ received \in Seq(Event) /\ stops \in 0..MaxStops
      /\ published \in 0..MaxEvents /\ faults \in 0..MaxFaults /\ broadcasts \in Nat
  BY <1>2 DEF Init
<1> QED
  BY <1>1, <1>3 DEF Init, TypeOK

LEMMA FaultType == TypeOK /\ Fault => faults' \in 0..MaxFaults /\ missed' \in BOOLEAN
  BY OutboxAssumption DEF TypeOK, Fault

LEMMA KernelType ==
  ASSUME TypeOK,
         Register \/ EnableBus \/ BusStarts \/ BusStops \/ Broadcast \/ BroadcastFails
  PROVE  TypeOK'
<1> USE OutboxAssumption DEF TypeOK, kernelVars, clientVars, busVars, faultVars
<1>1. CASE Register
  BY <1>1 DEF Register
<1>2. CASE EnableBus
  BY <1>2 DEF EnableBus
<1>3. CASE BusStarts
  BY <1>3 DEF BusStarts
<1>4. CASE BusStops
  <2>1. stops' \in 0..MaxStops
    BY <1>4 DEF BusStops
  <2> QED
    BY <1>4, <2>1 DEF BusStops
<1>5. CASE Broadcast
  <2>1. call' \in [Goroutine -> Call] /\ \A h \in Goroutine : call'[h].types \subseteq handlers
    BY <1>5, AtType, GoroutineType DEF Broadcast
  <2> QED
    BY <1>5, <2>1 DEF Broadcast
<1>6. CASE BroadcastFails
  <2>1. faults' \in 0..MaxFaults /\ missed' \in BOOLEAN
    BY <1>6, FaultType DEF BroadcastFails
  <2> QED
    BY <1>6, <2>1 DEF BroadcastFails
<1> QED
  BY <1>1, <1>2, <1>3, <1>4, <1>5, <1>6

LEMMA SubscribeNextType ==
  ASSUME TypeOK, NEW g \in Goroutine, SubscribeNext(g)
  PROVE  TypeOK'
<1> USE DEF TypeOK, kernelVars, clientVars, busVars, faultVars
<1>1. CASE call[g].types = {}
  <2>1. call' \in [Goroutine -> Call] /\ \A h \in Goroutine : call'[h].types \subseteq handlers
    BY <1>1, AtType DEF SubscribeNext
  <2> QED
    BY <1>1, <2>1 DEF SubscribeNext
<1>2. CASE call[g].types # {}
  <2>1. PICK t \in call[g].types :
          Subscribes(t) /\ call' = [call EXCEPT ![g].types = @ \ {t}]
    BY <1>2 DEF SubscribeNext
  <2>2. call' \in [Goroutine -> Call]
    BY <2>1 DEF Call
  <2>3. t \in handlers
    BY <2>1
  <2> QED
    BY <2>1, <2>2, <2>3 DEF SubscribeNext, Subscribes
<1> QED
  BY <1>1, <1>2

LEMMA AdvanceType ==
  ASSUME TypeOK, NEW g \in Goroutine, Advance(g)
  PROVE  TypeOK'
<1> USE DEF TypeOK, kernelVars, clientVars, busVars, faultVars
<1>1. CASE Notified(g)
  <2>1. call' \in [Goroutine -> Call] /\ \A h \in Goroutine : call'[h].types \subseteq handlers
    BY <1>1, AtType DEF Notified
  <2> QED
    BY <1>1, <2>1 DEF Notified
<1>2. CASE Search(g)
  <2>1. call' \in [Goroutine -> Call] /\ \A h \in Goroutine : call'[h].types \subseteq handlers
    BY <1>2, AtType DEF Search
  <2> QED
    BY <1>2, <2>1 DEF Search
<1>3. CASE Available(g)
  <2>1. call' \in [Goroutine -> Call] /\ \A h \in Goroutine : call'[h].types \subseteq handlers
    BY <1>3, AtType DEF Available
  <2> QED
    BY <1>3, <2>1 DEF Available
<1>4. CASE TakeOutbox(g)
  <2>1. /\ [At("send") EXCEPT !.entries = outbox] \in Call
        /\ [At("send") EXCEPT !.entries = outbox].types = {}
    BY DEF At, Call
  <2>2. call' \in [Goroutine -> Call] /\ \A h \in Goroutine : call'[h].types \subseteq handlers
    BY <1>4, <2>1 DEF TakeOutbox
  <2>3. outbox' \in Seq(Event)
    BY <1>4 DEF TakeOutbox
  <2> QED
    BY <1>4, <2>2, <2>3 DEF TakeOutbox
<1>5. CASE SendEntry(g)
  <2>1. call[g].entries \in Seq(Event) /\ call[g].entries # <<>>
    BY <1>5 DEF SendEntry, Call
  <2>2. Head(call[g].entries) \in Event /\ Tail(call[g].entries) \in Seq(Event)
    BY <2>1
  <2>3. received' \in Seq(Event)
    BY <1>5, <2>2 DEF SendEntry, Accepts
  <2>4. call' \in [Goroutine -> Call]
    BY <1>5, <2>2 DEF SendEntry, Call
  <2> QED
    BY <1>5, <2>3, <2>4 DEF SendEntry
<1>6. CASE TakeTypes(g)
  <2>0. <<>> \in Seq(Event) /\ handlers \in SUBSET Topic
    OBVIOUS
  <2>1. /\ [At("subscribe") EXCEPT !.types = handlers] \in Call
        /\ [At("subscribe") EXCEPT !.types = handlers].types = handlers
    BY <2>0 DEF At, Call
  <2>2. call' \in [Goroutine -> Call] /\ \A h \in Goroutine : call'[h].types \subseteq handlers
    BY <1>6, <2>1 DEF TakeTypes
  <2> QED
    BY <1>6, <2>2 DEF TakeTypes
<1> QED
  BY <1>1, <1>2, <1>3, <1>4, <1>5, <1>6, SubscribeNextType DEF Advance

LEMMA SearchFailsType ==
  ASSUME TypeOK, NEW g \in Goroutine, SearchFails(g)
  PROVE  TypeOK'
<1> USE DEF TypeOK, kernelVars, clientVars, busVars, faultVars
<1>1. call' \in [Goroutine -> Call] /\ \A h \in Goroutine : call'[h].types \subseteq handlers
  BY AtType DEF SearchFails
<1>2. faults' \in 0..MaxFaults /\ missed' \in BOOLEAN
  BY FaultType DEF SearchFails
<1> QED
  BY <1>1, <1>2 DEF SearchFails

LEMMA PluginType ==
  ASSUME TypeOK,
         \/ AfterRegistration \/ Publish \/ WatchOther
         \/ \E e \in sending : SendNow(e)
         \/ \E t \in Topic : On(t) \/ SubscribeNow(t)
  PROVE  TypeOK'
<1> USE OutboxAssumption DEF TypeOK, kernelVars, clientVars, busVars, faultVars
<1>1. CASE AfterRegistration
  <2>1. call' \in [Goroutine -> Call]
    BY <1>1, AtType DEF AfterRegistration
  <2>2. \A g \in Goroutine : call'[g].types \subseteq handlers
    BY <1>1, AtType DEF AfterRegistration
  <2> QED
    BY <1>1, <2>1, <2>2 DEF AfterRegistration
<1>2. CASE Publish
  <2>1. published + 1 \in Event /\ published' \in 0..MaxEvents
    BY <1>2 DEF Publish, Event
  <2>2. Append(outbox, published + 1) \in Seq(Event)
    BY <2>1
  <2>3. outbox' \in Seq(Event) /\ sending' \subseteq Event
    BY <1>2, <2>1, <2>2 DEF Publish
  <2> QED
    BY <1>2, <2>1, <2>3 DEF Publish
<1>3. CASE WatchOther
  BY <1>3 DEF WatchOther
<1>4. ASSUME NEW e \in sending, SendNow(e) PROVE TypeOK'
  <2>1. received' \in Seq(Event)
    BY <1>4 DEF SendNow, Accepts
  <2> QED
    BY <1>4, <2>1 DEF SendNow
<1>5. ASSUME NEW t \in Topic, On(t) PROVE TypeOK'
  BY <1>5 DEF On
<1>6. ASSUME NEW t \in Topic, SubscribeNow(t) PROVE TypeOK'
  BY <1>6 DEF SubscribeNow, Subscribes
<1> QED
  BY <1>1, <1>2, <1>3, <1>4, <1>5, <1>6

LEMMA TypeStep == TypeOK /\ [Next]_vars => TypeOK'
<1> SUFFICES ASSUME TypeOK, [Next]_vars PROVE TypeOK'
  OBVIOUS
<1>1. CASE UNCHANGED vars
  BY <1>1 DEF TypeOK, vars, kernelVars, clientVars, busVars, faultVars
<1> QED
  BY <1>1, KernelType, AdvanceType, SearchFailsType, PluginType DEF Next

\* The fields of EventClient and of the goroutines keep their types; what is
\* subscribed, or about to be, always has a handler.
THEOREM TypeCorrect == Spec => []TypeOK
  BY TypeInit, TypeStep, PTL DEF Spec

(***************************************************************************)
(* The queue.  FlushInv is inductive: ready comes before any flush, and    *)
(* while somebody holds entries of the queue nobody can add to it.         *)
(***************************************************************************)
Flushing == {"flush", "send", "subscribe"}

FlushInv ==
  /\ NothingStranded
  /\ \A g \in Goroutine : call[g].pc \in Flushing => ready
  /\ \A g \in Goroutine : call[g].entries # <<>> => call[g].pc = "send" /\ outbox = <<>>
  /\ OneFlushes

\* A step that leaves the queue alone and begins no flush.
Aside ==
  /\ UNCHANGED outbox
  /\ ready => ready'
  /\ ready' => ready
  /\ \A g \in Goroutine :
       \/ call'[g] = call[g]
       \/ call[g].pc # "flush" /\ call'[g].pc \notin {"flush"} /\ call'[g].entries = <<>>
          /\ (call'[g].pc \in Flushing => call[g].pc \in Flushing)

LEMMA AsideKeeps == TypeOK /\ FlushInv /\ Aside => FlushInv'
  BY DEF FlushInv, Aside, NothingStranded, OneFlushes, Flushing

LEMMA FlushStep == TypeOK /\ FlushInv /\ [Next]_vars => FlushInv'
<1> SUFFICES ASSUME TypeOK, FlushInv, [Next]_vars PROVE FlushInv'
  OBVIOUS
<1> USE DEF kernelVars, clientVars, busVars, faultVars
<1>1. ASSUME Register \/ EnableBus \/ BusStarts \/ BusStops \/ BroadcastFails
      PROVE  FlushInv'
  <2>1. Aside
    BY <1>1 DEF Aside, Register, EnableBus, BusStarts, BusStops, BroadcastFails
  <2> QED
    BY <2>1, AsideKeeps
<1>2. ASSUME Broadcast PROVE FlushInv'
  <2>1. Aside
    BY <1>2, AtType, GoroutineType DEF Aside, Broadcast, TypeOK, Flushing
  <2> QED
    BY <2>1, AsideKeeps
<1>3. ASSUME AfterRegistration \/ WatchOther PROVE FlushInv'
  <2>1. Aside
    BY <1>3, AtType, GoroutineType DEF Aside, AfterRegistration, WatchOther, TypeOK, Flushing
  <2> QED
    BY <2>1, AsideKeeps
<1>4. ASSUME Publish PROVE FlushInv'
  <2>1. CASE ready
    BY <1>4, <2>1, AsideKeeps DEF Aside, Publish
  <2>2. CASE ~ready
    <3>1. ~ready' /\ call' = call
      BY <1>4, <2>2 DEF Publish
    <3>2. \A g \in Goroutine : call[g].entries = <<>>
      BY <2>2 DEF FlushInv, Flushing
    <3> QED
      BY <2>2, <3>1, <3>2 DEF FlushInv, NothingStranded, OneFlushes
  <2> QED
    BY <2>1, <2>2
<1>5. ASSUME NEW e \in sending, SendNow(e) PROVE FlushInv'
  BY <1>5, AsideKeeps DEF Aside, SendNow
<1>6. ASSUME NEW t \in Topic, On(t) \/ SubscribeNow(t) PROVE FlushInv'
  BY <1>6, AsideKeeps DEF Aside, On, SubscribeNow
<1>7. ASSUME NEW g \in Goroutine, Notified(g) \/ Search(g) \/ SearchFails(g) PROVE FlushInv'
  <2>1. Aside
    BY <1>7, AtType DEF Aside, Notified, Search, SearchFails, TypeOK, Flushing
  <2> QED
    BY <2>1, AsideKeeps
<1>8. ASSUME NEW g \in Goroutine, Available(g) PROVE FlushInv'
  <2>1. /\ ready' /\ outbox' = outbox
        /\ call'[g] = At("flush") /\ At("flush").pc = "flush" /\ At("flush").entries = <<>>
        /\ \A h \in Goroutine : h # g => call'[h] = call[h]
    BY <1>8, AtType DEF Available, TypeOK
  <2> QED
    BY <2>1 DEF FlushInv, NothingStranded, OneFlushes, Flushing
<1>9. ASSUME NEW g \in Goroutine, TakeOutbox(g) PROVE FlushInv'
  <2>1. /\ ready' = ready /\ outbox' = <<>> /\ call[g].pc = "flush"
        /\ call'[g].pc = "send" /\ call'[g].entries = outbox
        /\ \A h \in Goroutine : h # g => call'[h] = call[h]
    BY <1>9 DEF TakeOutbox, TypeOK, At
  <2>2. ready
    BY <2>1 DEF FlushInv, Flushing
  <2> QED
    BY <2>1, <2>2 DEF FlushInv, NothingStranded, OneFlushes, Flushing
<1>10. ASSUME NEW g \in Goroutine, SendEntry(g) PROVE FlushInv'
  <2>1. /\ ready' = ready /\ outbox' = outbox
        /\ call[g].pc = "send" /\ call[g].entries # <<>> /\ call'[g].pc = "send"
        /\ \A h \in Goroutine : h # g => call'[h] = call[h]
    BY <1>10 DEF SendEntry, TypeOK, Call
  <2> QED
    BY <2>1 DEF FlushInv, NothingStranded, OneFlushes, Flushing
<1>11. ASSUME NEW g \in Goroutine, TakeTypes(g) PROVE FlushInv'
  <2>1. Aside
    BY <1>11 DEF Aside, TakeTypes, TypeOK, Flushing, At
  <2> QED
    BY <2>1, AsideKeeps
<1>12. ASSUME NEW g \in Goroutine, SubscribeNext(g) PROVE FlushInv'
  <2>1. call[g].pc = "subscribe" /\ call[g].entries = <<>>
    BY <1>12 DEF SubscribeNext, FlushInv
  <2>2. CASE call[g].types = {}
    <3>1. Aside
      BY <1>12, <2>1, <2>2, AtType DEF Aside, SubscribeNext, TypeOK, Flushing
    <3> QED
      BY <3>1, AsideKeeps
  <2>3. CASE call[g].types # {}
    <3>1. PICK t \in call[g].types :
            Subscribes(t) /\ call' = [call EXCEPT ![g].types = @ \ {t}]
      BY <1>12, <2>3 DEF SubscribeNext
    <3>2. call'[g].pc = "subscribe" /\ call'[g].entries = <<>>
      BY <2>1, <3>1 DEF TypeOK, Call
    <3>3. Aside
      BY <1>12, <2>1, <3>1, <3>2 DEF Aside, SubscribeNext, TypeOK, Flushing
    <3> QED
      BY <3>3, AsideKeeps
  <2> QED
    BY <2>2, <2>3
<1>13. ASSUME UNCHANGED vars PROVE FlushInv'
  BY <1>13, AsideKeeps DEF Aside, vars
<1> QED
  BY <1>1, <1>2, <1>3, <1>4, <1>5, <1>6, <1>7, <1>8, <1>9, <1>10, <1>11, <1>12, <1>13
  DEF Next, Advance

LEMMA Flushed == Spec => []FlushInv
<1>1. Init => FlushInv
  BY AtType DEF Init, FlushInv, NothingStranded, OneFlushes, Flushing
<1> QED
  BY <1>1, FlushStep, TypeCorrect, PTL DEF Spec

\* Publish reads ready and queues under one mutex: when the client is ready, an
\* event in the queue has a goroutine about to flush it.
THEOREM QueueNeverStranded == Spec => []NothingStranded
  BY Flushed, PTL DEF FlushInv

\* At most one goroutine at a time sends queued events.
THEOREM QueueFlushedOnce == Spec => []OneFlushes
  BY Flushed, PTL DEF FlushInv

(***************************************************************************)
(* Every event is in one place.  SentOnce follows from FlushInv and an     *)
(* invariant about the ranges of the sequences: an event is the number of  *)
(* one published before, a new one is in none of them, and each step moves *)
(* an event from one place to another.                                     *)
(***************************************************************************)
LEMMA AppendDistinct ==
  ASSUME NEW s \in Seq(Event), NEW e \in Event, Distinct(s), e \notin Range(s)
  PROVE  Distinct(Append(s, e)) /\ Range(Append(s, e)) = Range(s) \cup {e}
<1>1. /\ DOMAIN s = 1..Len(s) /\ Len(s) \in Nat
      /\ DOMAIN Append(s, e) = 1..(Len(s) + 1)
      /\ Append(s, e)[Len(s) + 1] = e
      /\ \A i \in 1..Len(s) : Append(s, e)[i] = s[i]
  OBVIOUS
<1>2. \A i \in 1..(Len(s) + 1) : i \in 1..Len(s) \/ i = Len(s) + 1
  BY <1>1
<1>3. Len(s) + 1 \in 1..(Len(s) + 1) /\ 1..Len(s) \subseteq 1..(Len(s) + 1)
  BY <1>1
<1>4. Range(Append(s, e)) = Range(s) \cup {e}
  BY <1>1, <1>2, <1>3 DEF Range
<1>5. \A i \in 1..Len(s) : s[i] # e
  BY <1>1 DEF Range
<1> QED
  BY <1>1, <1>2, <1>4, <1>5 DEF Distinct

LEMMA TailDistinct ==
  ASSUME NEW s \in Seq(Event), s # <<>>, Distinct(s)
  PROVE  /\ Distinct(Tail(s)) /\ Range(Tail(s)) \subseteq Range(s)
         /\ Head(s) \in Range(s) /\ Head(s) \notin Range(Tail(s))
<1>1. /\ DOMAIN s = 1..Len(s) /\ Len(s) \in Nat /\ Len(s) > 0
      /\ DOMAIN Tail(s) = 1..(Len(s) - 1) /\ Head(s) = s[1]
      /\ \A i \in 1..(Len(s) - 1) : Tail(s)[i] = s[i + 1]
  OBVIOUS
<1>2. \A i \in 1..(Len(s) - 1) : i + 1 \in DOMAIN s /\ i + 1 # 1
  BY <1>1
<1>3. 1 \in DOMAIN s
  BY <1>1
<1>4. Range(Tail(s)) \subseteq Range(s) /\ Head(s) \in Range(s)
  BY <1>1, <1>2, <1>3 DEF Range
<1>5. Head(s) \notin Range(Tail(s))
  BY <1>1, <1>2, <1>3 DEF Range, Distinct
<1>6. ASSUME NEW i \in 1..(Len(s) - 1), NEW j \in 1..(Len(s) - 1), Tail(s)[i] = Tail(s)[j]
      PROVE  i = j
  <2>1. i + 1 = j + 1
    BY <1>1, <1>2, <1>6 DEF Distinct
  <2> QED
    BY <2>1
<1> QED
  BY <1>1, <1>4, <1>5, <1>6 DEF Distinct

LEMMA ConcatDistinct ==
  ASSUME NEW s \in Seq(Event), NEW t \in Seq(Event), Distinct(s), Distinct(t),
         Range(s) \cap Range(t) = {}
  PROVE  Distinct(s \o t) /\ Range(s \o t) = Range(s) \cup Range(t)
<1>1. /\ DOMAIN s = 1..Len(s) /\ Len(s) \in Nat /\ DOMAIN t = 1..Len(t) /\ Len(t) \in Nat
      /\ DOMAIN (s \o t) = 1..(Len(s) + Len(t))
      /\ \A i \in 1..(Len(s) + Len(t)) :
           (s \o t)[i] = IF i <= Len(s) THEN s[i] ELSE t[i - Len(s)]
  OBVIOUS
<1>2. \A i \in 1..(Len(s) + Len(t)) :
        (i <= Len(s) /\ i \in DOMAIN s) \/ (~(i <= Len(s)) /\ i - Len(s) \in DOMAIN t)
  BY <1>1
<1>3. \A i \in DOMAIN s, j \in DOMAIN t : s[i] # t[j]
  BY DEF Range
<1>4. ASSUME NEW i \in DOMAIN (s \o t), NEW j \in DOMAIN (s \o t), (s \o t)[i] = (s \o t)[j]
      PROVE  i = j
  <2>1. CASE i <= Len(s) /\ j <= Len(s)
    BY <1>1, <1>2, <1>4, <2>1 DEF Distinct
  <2>2. CASE ~(i <= Len(s)) /\ ~(j <= Len(s))
    <3>1. i - Len(s) = j - Len(s)
      BY <1>1, <1>2, <1>4, <2>2 DEF Distinct
    <3> QED
      BY <1>1, <3>1
  <2>3. CASE i <= Len(s) /\ ~(j <= Len(s))
    BY <1>1, <1>2, <1>3, <1>4, <2>3
  <2>4. CASE ~(i <= Len(s)) /\ j <= Len(s)
    BY <1>1, <1>2, <1>3, <1>4, <2>4
  <2> QED
    BY <2>1, <2>2, <2>3, <2>4
<1>5. Range(s \o t) \subseteq Range(s) \cup Range(t)
  BY <1>1, <1>2 DEF Range
<1>6. \A i \in DOMAIN s : i \in DOMAIN (s \o t) /\ (s \o t)[i] = s[i]
  BY <1>1
<1>7. \A j \in DOMAIN t : /\ j + Len(s) \in DOMAIN (s \o t)
                          /\ (s \o t)[j + Len(s)] = t[j]
  BY <1>1
<1>8. Range(s) \cup Range(t) \subseteq Range(s \o t)
  BY <1>6, <1>7 DEF Range
<1> QED
  BY <1>4, <1>5, <1>8 DEF Distinct

Given == 1..published

PlaceInv ==
  /\ Distinct(received) /\ Distinct(outbox)
  /\ Range(received) \subseteq Given /\ Range(outbox) \subseteq Given
  /\ sending \subseteq Given
  /\ Range(received) \cap Range(outbox) = {}
  /\ Range(received) \cap sending = {} /\ Range(outbox) \cap sending = {}
  /\ \A g \in Goroutine :
       /\ Distinct(call[g].entries) /\ Range(call[g].entries) \subseteq Given
       /\ Range(call[g].entries) \cap Range(received) = {}
       /\ Range(call[g].entries) \cap sending = {}

LEMMA EmptyDistinct == Distinct(<<>>) /\ Range(<<>>) = {}
  BY DEF Distinct, Range

\* A step that moves no event.
LEMMA PlaceStays ==
  ASSUME PlaceInv, UNCHANGED <<received, outbox, sending, published>>,
         \A g \in Goroutine : call'[g].entries = call[g].entries \/ call'[g].entries = <<>>
  PROVE  PlaceInv'
  BY EmptyDistinct DEF PlaceInv, Given

LEMMA AcceptsDistinct ==
  ASSUME TypeOK, PlaceInv, NEW e \in Event, e \notin Range(received), Accepts(e)
  PROVE  Distinct(received') /\ Range(received') \subseteq Range(received) \cup {e}
<1>1. CASE bus
  BY <1>1, AppendDistinct DEF TypeOK, PlaceInv, Accepts
<1>2. CASE ~bus
  BY <1>2 DEF PlaceInv, Accepts
<1> QED
  BY <1>1, <1>2

LEMMA PlaceStep == TypeOK /\ FlushInv /\ PlaceInv /\ [Next]_vars => PlaceInv'
<1> SUFFICES ASSUME TypeOK, FlushInv, PlaceInv, [Next]_vars PROVE PlaceInv'
  OBVIOUS
<1> USE DEF kernelVars, clientVars, busVars, faultVars
<1>0. /\ published \in Nat /\ call \in [Goroutine -> Call] /\ outbox \in Seq(Event)
      /\ \A g \in Goroutine : call[g].entries \in Seq(Event)
  BY DEF TypeOK, Call
<1>1. ASSUME Register \/ EnableBus \/ BusStarts \/ BusStops \/ BroadcastFails \/ WatchOther
      PROVE  PlaceInv'
  BY <1>1, PlaceStays
  DEF Register, EnableBus, BusStarts, BusStops, BroadcastFails, WatchOther
<1>2. ASSUME NEW g \in Goroutine, NEW pc \in {"none", "wait", "notified", "search", "found",
                                             "flush", "send", "subscribe"},
             call' = [call EXCEPT ![g] = At(pc)],
             UNCHANGED <<received, outbox, sending, published>>
      PROVE  PlaceInv'
  <2>1. \A h \in Goroutine : call'[h].entries = call[h].entries \/ call'[h].entries = <<>>
    BY <1>0, <1>2, AtType
  <2> QED
    BY <1>2, <2>1, PlaceStays
<1>3. ASSUME Broadcast PROVE PlaceInv'
  <2>1. CASE registered
    <3>1. PICK n \in 1..LastNotice : call' = [call EXCEPT ![n] = At("notified")]
      BY <1>3, <2>1 DEF Broadcast
    <3> QED
      BY <1>2, <1>3, <3>1, GoroutineType DEF Broadcast
  <2>2. CASE ~registered
    BY <1>3, <2>2, PlaceStays DEF Broadcast
  <2> QED
    BY <2>1, <2>2
<1>4. ASSUME AfterRegistration PROVE PlaceInv'
  BY <1>2, <1>4, GoroutineType DEF AfterRegistration
<1>5. ASSUME NEW g \in Goroutine,
             Notified(g) \/ Search(g) \/ SearchFails(g) \/ Available(g)
      PROVE  PlaceInv'
  BY <1>2, <1>5 DEF Notified, Search, SearchFails, Available
<1>6. ASSUME NEW t \in Topic, On(t) \/ SubscribeNow(t) PROVE PlaceInv'
  BY <1>6, PlaceStays DEF On, SubscribeNow
<1>7. ASSUME Publish PROVE PlaceInv'
  <2> DEFINE e == published + 1
  <2>1. /\ e \in Event /\ Given' = Given \cup {e} /\ e \notin Given
        /\ received' = received /\ call' = call
    BY <1>0, <1>7, OutboxAssumption DEF Publish, Event, Given
  <2>2. CASE ready
    <3>1. outbox' = outbox /\ sending' = sending \cup {e}
      BY <1>7, <2>2 DEF Publish
    <3> HIDE DEF e
    <3> QED
      BY <2>1, <3>1 DEF PlaceInv
  <2>3. CASE ~ready
    <3>1. outbox' = Append(outbox, e) /\ sending' = sending
      BY <1>7, <2>3 DEF Publish
    <3> HIDE DEF e
    <3>2. Distinct(outbox') /\ Range(outbox') = Range(outbox) \cup {e}
      BY <1>0, <2>1, <3>1, AppendDistinct DEF PlaceInv
    <3> QED
      BY <2>1, <3>1, <3>2 DEF PlaceInv
  <2> QED
    BY <2>2, <2>3
<1>8. ASSUME NEW g \in Goroutine, TakeOutbox(g) PROVE PlaceInv'
  <2>1. /\ call'[g].entries = outbox /\ outbox' = <<>>
        /\ \A h \in Goroutine : h # g => call'[h] = call[h]
        /\ UNCHANGED <<received, sending, published>>
    BY <1>0, <1>8 DEF TakeOutbox, At
  <2> QED
    BY <2>1, EmptyDistinct DEF PlaceInv, Given
<1>9. ASSUME NEW g \in Goroutine, SendEntry(g) PROVE PlaceInv'
  <2> DEFINE e == Head(call[g].entries)
  <2>1. /\ call'[g].entries = Tail(call[g].entries) /\ call[g].entries # <<>>
        /\ \A h \in Goroutine : h # g => call'[h] = call[h]
        /\ UNCHANGED <<outbox, sending, published>> /\ Accepts(e)
    BY <1>0, <1>9 DEF SendEntry, Call
  <2>2. /\ e \in Range(call[g].entries) /\ e \notin Range(call'[g].entries)
        /\ Distinct(call'[g].entries) /\ Range(call'[g].entries) \subseteq Range(call[g].entries)
    BY <1>0, <2>1, TailDistinct DEF PlaceInv
  <2>3. e \in Event
    BY <1>0, <2>1
  <2>4. outbox = <<>> /\ \A h \in Goroutine : h # g => call[h].entries = <<>>
    BY <2>1 DEF FlushInv, OneFlushes
  <2> HIDE DEF e
  <2>5. Distinct(received') /\ Range(received') \subseteq Range(received) \cup {e}
    BY <2>1, <2>2, <2>3, AcceptsDistinct DEF PlaceInv
  <2> QED
    BY <2>1, <2>2, <2>4, <2>5, EmptyDistinct DEF PlaceInv, Given
<1>10. ASSUME NEW e \in sending, SendNow(e) PROVE PlaceInv'
  <2>1. /\ e \in Event /\ Accepts(e) /\ sending' = sending \ {e}
        /\ UNCHANGED <<outbox, published, call>>
    BY <1>10 DEF SendNow, TypeOK
  <2>2. Distinct(received') /\ Range(received') \subseteq Range(received) \cup {e}
    BY <2>1, AcceptsDistinct DEF PlaceInv
  <2> QED
    BY <2>1, <2>2 DEF PlaceInv, Given
<1>11. ASSUME NEW g \in Goroutine, TakeTypes(g) PROVE PlaceInv'
  <2>1. \A h \in Goroutine : call'[h].entries = call[h].entries \/ call'[h].entries = <<>>
    BY <1>0, <1>11 DEF TakeTypes, At
  <2> QED
    BY <1>11, <2>1, PlaceStays DEF TakeTypes
<1>12. ASSUME NEW g \in Goroutine, SubscribeNext(g) PROVE PlaceInv'
  <2>1. CASE call[g].types = {}
    BY <1>2, <1>12, <2>1 DEF SubscribeNext
  <2>2. CASE call[g].types # {}
    <3>1. PICK t \in call[g].types : call' = [call EXCEPT ![g].types = @ \ {t}]
      BY <1>12, <2>2 DEF SubscribeNext
    <3>2. \A h \in Goroutine : call'[h].entries = call[h].entries
      BY <1>0, <3>1 DEF Call
    <3> QED
      BY <1>12, <3>2, PlaceStays DEF SubscribeNext
  <2> QED
    BY <2>1, <2>2
<1>13. ASSUME UNCHANGED vars PROVE PlaceInv'
  BY <1>13, PlaceStays DEF vars
<1> QED
  BY <1>1, <1>3, <1>4, <1>5, <1>6, <1>7, <1>8, <1>9, <1>10, <1>11, <1>12, <1>13
  DEF Next, Advance

LEMMA PlacesApart == TypeOK /\ FlushInv /\ PlaceInv => SentOnce
<1> SUFFICES ASSUME TypeOK, FlushInv, PlaceInv, NEW g \in Goroutine
             PROVE  LET line == received \o call[g].entries \o outbox
                    IN  Distinct(line) /\ Range(line) \cap sending = {}
  BY DEF SentOnce
<1> DEFINE taken == received \o call[g].entries
<1>1. received \in Seq(Event) /\ outbox \in Seq(Event) /\ call[g].entries \in Seq(Event)
  BY DEF TypeOK, Call
<1>2. /\ taken \in Seq(Event) /\ Distinct(taken)
      /\ Range(taken) = Range(received) \cup Range(call[g].entries)
  BY <1>1, ConcatDistinct DEF PlaceInv
<1>3. Range(call[g].entries) \cap Range(outbox) = {}
  BY EmptyDistinct DEF FlushInv
<1> HIDE DEF taken
<1>4. /\ Distinct(taken \o outbox)
      /\ Range(taken \o outbox) = Range(received) \cup Range(call[g].entries) \cup Range(outbox)
  BY <1>1, <1>2, <1>3, ConcatDistinct DEF PlaceInv
<1> QED
  BY <1>4 DEF PlaceInv, taken

\* An event is queued, taken, on its way or received, never two of these, and
\* the bus receives none twice, however callbacks and Publish interleave.
THEOREM EventsSentOnce == Spec => []SentOnce
<1>1. Init => PlaceInv
  BY AtType, EmptyDistinct DEF Init, PlaceInv
<1> QED
  BY <1>1, PlaceStep, PlacesApart, Flushed, TypeCorrect, PTL DEF Spec
==============================================================================
