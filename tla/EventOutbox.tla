------------------------------ MODULE EventOutbox -----------------------------
(***************************************************************************)
(* The event client of the SDK in one plugin, the event bus plugin and     *)
(* what the kernel does to make the two meet.  Events published before the *)
(* bus is available are queued.  The client learns of the bus by a lookup  *)
(* when its plugin has registered, and by the plugin:ready events that the *)
(* kernel broadcasts when a plugin registers; each of these is served by a *)
(* goroutine that flushes the queue and subscribes all event types.        *)
(*                                                                         *)
(* An event is its number in the order of publication.                     *)
(***************************************************************************)
EXTENDS Naturals, Sequences, FiniteSets, Functions

CONSTANTS
  Topic,        \* event types the plugin has handlers for
  MaxEvents,    \* bound on the events published
  MaxStops,     \* bound on the times the bus stops
  MaxFaults,    \* bound on the searches and notices that fail
  LastNotice    \* bound on the plugin:ready events served at once

ASSUME OutboxAssumption ==
  {MaxEvents, MaxStops, MaxFaults, LastNotice} \subseteq Nat

VARIABLES
  registered,   \* has this plugin registered
  listed,       \* does the kernel list the bus for its capability
  bus,          \* does the bus answer
  stops,        \* times it stopped
  broadcasts,   \* registrations whose plugin:ready is not sent yet
  watching,     \* does plugin:ready still go to the event client
  ready, outbox, handlers,   \* the fields of EventClient
  call,         \* the goroutines that call back
  sending,      \* events on their way from Publish to the bus
  asking,       \* topics on their way from On to the bus
  published,    \* number of events so far
  received,     \* events the bus accepted, in that order
  subscribed,   \* topics the bus pushes to this plugin
  faults,       \* searches and notices that failed
  missed        \* has one failed, and no search found the bus since

kernelVars == <<registered, listed, bus, stops, broadcasts>>
clientVars == <<watching, ready, outbox, handlers, sending, asking, published>>
busVars == <<received, subscribed>>
faultVars == <<faults, missed>>
vars == <<kernelVars, clientVars, call, busVars, faultVars>>

Event == 1..MaxEvents

\* 0 is the lookup after registration, the others serve a plugin:ready each.
Lookup == 0
Goroutine == 0..LastNotice

Call == [pc : {"none", "wait", "notified", "search", "found", "flush", "send",
               "subscribe"},
         entries : Seq(Event), types : SUBSET Topic]
At(pc) == [pc |-> pc, entries |-> <<>>, types |-> {}]

Init ==
  /\ registered = FALSE
  /\ listed \in BOOLEAN
  /\ bus = FALSE
  /\ stops = 0
  /\ broadcasts = 0
  /\ watching = TRUE
  /\ ready = FALSE
  /\ outbox = <<>>
  /\ handlers = {}
  /\ call = [g \in Goroutine |-> IF g = Lookup THEN At("wait") ELSE At("none")]
  /\ sending = {}
  /\ asking = {}
  /\ published = 0
  /\ received = <<>>
  /\ subscribed = {}
  /\ faults = 0
  /\ missed = FALSE

------------------------------------------------------------------------------
(* The kernel and the bus.                                                 *)

Register ==
  /\ ~registered
  /\ registered' = TRUE
  /\ broadcasts' = broadcasts + 1
  /\ UNCHANGED <<listed, bus, stops, clientVars, call, busVars, faultVars>>

\* The bus plugin is installed and enabled: its row lists the capability.
EnableBus ==
  /\ ~listed
  /\ listed' = TRUE
  /\ UNCHANGED <<registered, bus, stops, broadcasts, clientVars, call, busVars, faultVars>>

BusStarts ==
  /\ listed /\ ~bus
  /\ bus' = TRUE
  /\ broadcasts' = broadcasts + 1
  /\ UNCHANGED <<registered, listed, stops, clientVars, call, busVars, faultVars>>

BusStops ==
  /\ bus
  /\ stops < MaxStops
  /\ bus' = FALSE
  /\ stops' = stops + 1
  /\ UNCHANGED <<registered, listed, broadcasts, clientVars, call, busVars, faultVars>>

Fault ==
  /\ faults < MaxFaults
  /\ faults' = faults + 1
  /\ missed' = TRUE

\* The plugins to notify are read when the broadcast runs, after the row of
\* the plugin that registered was written.
Broadcast ==
  /\ broadcasts > 0
  /\ broadcasts' = broadcasts - 1
  /\ IF registered
     THEN \E n \in 1..LastNotice :
            /\ call[n].pc = "none"
            /\ \A k \in 1..(n - 1) : call[k].pc # "none"
            /\ call' = [call EXCEPT ![n] = At("notified")]
     ELSE UNCHANGED call
  /\ UNCHANGED <<registered, listed, bus, stops, clientVars, busVars, faultVars>>

\* The delivery to this plugin times out or is refused, and is not retried.
BroadcastFails ==
  /\ broadcasts > 0
  /\ registered
  /\ broadcasts' = broadcasts - 1
  /\ Fault
  /\ UNCHANGED <<registered, listed, bus, stops, clientVars, call, busVars>>

------------------------------------------------------------------------------
(* A goroutine that learns of the bus.                                     *)

\* There is one handler of plugin:ready: the last one registered.
Notified(g) ==
  /\ call[g].pc = "notified"
  /\ call' = [call EXCEPT ![g] = At(IF watching THEN "search" ELSE "none")]
  /\ UNCHANGED <<kernelVars, clientVars, busVars, faultVars>>

\* The lookup waits until the plugin has registered.
AfterRegistration ==
  /\ call[Lookup].pc = "wait"
  /\ registered
  /\ call' = [call EXCEPT ![Lookup] = At("search")]
  /\ UNCHANGED <<kernelVars, clientVars, busVars, faultVars>>

\* The kernel answers with the plugins that are enabled, running or not.
Search(g) ==
  /\ call[g].pc = "search"
  /\ call' = [call EXCEPT ![g] = At(IF listed THEN "found" ELSE "none")]
  /\ missed' = (missed /\ ~listed)
  /\ UNCHANGED <<kernelVars, clientVars, busVars, faults>>

\* A search that fails is not repeated: the goroutine ends.
SearchFails(g) ==
  /\ call[g].pc = "search"
  /\ Fault
  /\ call' = [call EXCEPT ![g] = At("none")]
  /\ UNCHANGED <<kernelVars, clientVars, busVars>>

Available(g) ==
  /\ call[g].pc = "found"
  /\ ready' = TRUE
  /\ call' = [call EXCEPT ![g] = At("flush")]
  /\ UNCHANGED <<kernelVars, watching, outbox, handlers, sending, asking, published,
                 busVars, faultVars>>

\* Mutant: the queue is copied and stays.
CopyOutbox(g) ==
  /\ call[g].pc = "flush"
  /\ call' = [call EXCEPT ![g] = [At("send") EXCEPT !.entries = outbox]]
  /\ UNCHANGED outbox
  /\ UNCHANGED <<kernelVars, watching, ready, handlers, sending, asking, published,
                 busVars, faultVars>>

TakeOutbox(g) ==
  /\ call[g].pc = "flush"
  /\ call' = [call EXCEPT ![g] = [At("send") EXCEPT !.entries = outbox]]
  /\ outbox' = <<>>
  /\ UNCHANGED <<kernelVars, watching, ready, handlers, sending, asking, published,
                 busVars, faultVars>>

\* A call of the bus that fails is logged and forgotten.
Accepts(e) == received' = IF bus THEN Append(received, e) ELSE received

SendEntry(g) ==
  /\ call[g].pc = "send"
  /\ call[g].entries # <<>>
  /\ Accepts(Head(call[g].entries))
  /\ call' = [call EXCEPT ![g].entries = Tail(@)]
  /\ UNCHANGED <<kernelVars, clientVars, subscribed, faultVars>>

TakeTypes(g) ==
  /\ call[g].pc = "send"
  /\ call[g].entries = <<>>
  /\ call' = [call EXCEPT ![g] = [At("subscribe") EXCEPT !.types = handlers]]
  /\ UNCHANGED <<kernelVars, clientVars, busVars, faultVars>>

Subscribes(t) == subscribed' = IF bus THEN subscribed \cup {t} ELSE subscribed

SubscribeNext(g) ==
  /\ call[g].pc = "subscribe"
  /\ IF call[g].types = {}
     THEN call' = [call EXCEPT ![g] = At("none")] /\ UNCHANGED subscribed
     ELSE \E t \in call[g].types :
            Subscribes(t) /\ call' = [call EXCEPT ![g].types = @ \ {t}]
  /\ UNCHANGED <<kernelVars, clientVars, received, faultVars>>

------------------------------------------------------------------------------
(* The plugin's own code.                                                  *)

\* Mutant: looks at ready before it takes the mutex to queue: an event may be
\* queued after the flush.
PublishUnlocked ==
  /\ published < MaxEvents
  /\ published' = published + 1
  /\ \/ outbox' = Append(outbox, published + 1) /\ UNCHANGED sending
     \/ ready /\ sending' = sending \cup {published + 1} /\ UNCHANGED outbox
  /\ UNCHANGED <<kernelVars, watching, ready, handlers, asking, call, busVars, faultVars>>

\* Publish and PublishTo.
Publish ==
  /\ published < MaxEvents
  /\ published' = published + 1
  /\ IF ready
     THEN sending' = sending \cup {published + 1} /\ UNCHANGED outbox
     ELSE outbox' = Append(outbox, published + 1) /\ UNCHANGED sending
  /\ UNCHANGED <<kernelVars, watching, ready, handlers, asking, call, busVars, faultVars>>

SendNow(e) ==
  /\ e \in sending
  /\ sending' = sending \ {e}
  /\ Accepts(e)
  /\ UNCHANGED <<kernelVars, watching, ready, outbox, handlers, asking, published, call,
                 subscribed, faultVars>>


On(t) ==
  /\ handlers' = handlers \cup {t}
  /\ asking' = IF ready THEN asking \cup {t} ELSE asking
  /\ UNCHANGED <<kernelVars, watching, ready, outbox, sending, published, call, busVars, faultVars>>

SubscribeNow(t) ==
  /\ t \in asking
  /\ asking' = asking \ {t}
  /\ Subscribes(t)
  /\ UNCHANGED <<kernelVars, watching, ready, outbox, handlers, sending, published, call,
                 received, faultVars>>

\* OnPluginAvailable for another capability, or a lifecycle handler of the
\* plugin, takes the place of the client's handler of plugin:ready.
WatchOther ==
  /\ watching
  /\ watching' = FALSE
  /\ UNCHANGED <<kernelVars, ready, outbox, handlers, sending, asking, published, call,
                 busVars, faultVars>>

Advance(g) ==
  \/ Notified(g) \/ Search(g) \/ Available(g) \/ TakeOutbox(g)
  \/ SendEntry(g) \/ TakeTypes(g) \/ SubscribeNext(g)

Next ==
  \/ Register \/ EnableBus \/ BusStarts \/ BusStops \/ Broadcast \/ BroadcastFails
  \/ AfterRegistration \/ Publish \/ WatchOther
  \/ \E g \in Goroutine : Advance(g) \/ SearchFails(g)
  \/ \E e \in sending : SendNow(e)
  \/ \E t \in Topic : On(t) \/ SubscribeNow(t)

Spec == Init /\ [][Next]_vars

\* Registration is retried until it succeeds, an enabled bus is started (again),
\* and goroutines go on.
Fairness ==
  /\ WF_vars(Register) /\ WF_vars(BusStarts) /\ WF_vars(Broadcast)
  /\ WF_vars(AfterRegistration)
  /\ \A g \in Goroutine : WF_vars(Advance(g))
  /\ WF_vars(\E e \in sending : SendNow(e))
  /\ \A t \in Topic : WF_vars(SubscribeNow(t))

FairSpec == Spec /\ Fairness

------------------------------------------------------------------------------
TypeOK ==
  /\ registered \in BOOLEAN /\ listed \in BOOLEAN /\ bus \in BOOLEAN
  /\ watching \in BOOLEAN /\ ready \in BOOLEAN
  /\ stops \in 0..MaxStops
  /\ broadcasts \in Nat
  /\ outbox \in Seq(Event)
  /\ handlers \subseteq Topic /\ asking \subseteq handlers
  /\ call \in [Goroutine -> Call]
  /\ \A g \in Goroutine : call[g].types \subseteq handlers
  /\ sending \subseteq Event
  /\ published \in 0..MaxEvents
  /\ received \in Seq(Event)
  /\ subscribed \subseteq handlers
  /\ faults \in 0..MaxFaults
  /\ missed \in BOOLEAN

\* Once the client is ready no event stays in the queue: Publish cannot add
\* one behind the back of the goroutine that flushes.
NothingStranded ==
  ready /\ outbox # <<>> => \E g \in Goroutine : call[g].pc = "flush"

\* Two callbacks never send queued events at once.
OneFlushes ==
  \A g, h \in Goroutine :
    call[g].entries # <<>> /\ call[h].entries # <<>> => g = h

Distinct(s) == \A i, j \in DOMAIN s : s[i] = s[j] => i = j

\* An event is queued, taken, on its way or received, never two of these, and
\* the bus does not receive it twice.
SentOnce ==
  \A g \in Goroutine :
    LET line == received \o call[g].entries \o outbox
    IN  Distinct(line) /\ Range(line) \cap sending = {}

\* When the bus is enabled, the queue is flushed in the end, as long as
\* plugin:ready goes to the event client and no search or notice fails; one that
\* did costs nothing once a later search has found the bus.
QueueDrains ==
  \A e \in Event :
    listed /\ e \in Range(outbox) /\ ~missed
      ~> e \notin Range(outbox) \/ ~watching \/ missed

==============================================================================
