------------------------------- MODULE TimerJobs -------------------------------
(***************************************************************************)
(* The jobs of the task scheduler plugin: rows in its database, a cache of *)
(* the times at which timer jobs are due, one goroutine that ticks, the    *)
(* requests that change rows and rebuild the cache, and the goroutines     *)
(* that serve the events that event jobs wait for.                         *)
(*                                                                         *)
(* A time is the number of time units from now, Past for any earlier       *)
(* moment.  Advance lets a unit pass and brings every time that is held    *)
(* anywhere one unit nearer.                                               *)
(***************************************************************************)
EXTENDS Integers, FiniteSets

CONSTANTS
  Job,          \* identities of jobs; each is given to a row once
  Handler,      \* requests served at the same time
  Delivery,     \* events served at the same time
  Period,       \* the longest time from one firing of a job to the next
  MaxRequests,  \* bound on the requests
  MaxCrashes    \* bound on the times the plugin stops

ASSUME TimerJobsAssumption ==
  /\ Job # {}
  /\ IsFiniteSet(Handler)
  /\ IsFiniteSet(Delivery)
  /\ Period \in Nat \ {0}
  /\ MaxRequests \in Nat
  /\ MaxCrashes \in Nat

VARIABLES
  row,          \* the table of jobs
  up,           \* does the plugin run
  cache,        \* number of entries of a job at a time; overdue ones are at 0
  subscribed,   \* has the pattern of the event jobs been subscribed
  ticker,       \* the goroutine that fires timer jobs
  handler,      \* the goroutines that serve requests
  delivery,     \* the goroutines that serve events
  fired,        \* see Counted
  outrun,       \* jobs saved after the listing the cache was built from
  requests,     \* requests so far
  crashes       \* stops so far

database == <<row>>
vars == <<row, up, cache, subscribed, ticker, handler, delivery, fired, outrun,
          requests, crashes>>

Past == -1
Time == Past..Period
Later(t, age) == IF t - age < Past THEN Past ELSE t - age
Nearer(t) == Later(t, 1)

\* Every duration and every cron expression gives a time after now.
NextFireTime == 1..Period

\* The trigger type is timer or event, the type once or repeat.
Row == [state : {"none", "live", "deleted"}, trigger : {"timer", "event"},
        type : {"once", "repeat"}, enabled : BOOLEAN, next : Time]
NoRow == [state |-> "none", trigger |-> "timer", type |-> "once",
          enabled |-> FALSE, next |-> Past]
Live(j) == row[j].state = "live"
Armed(j) == Live(j) /\ row[j].enabled
Timer(j) == row[j].trigger = "timer"
Once(j) == row[j].type = "once"

NoEntries == [e \in Job \X (0..Period) |-> 0]

Listing == UNION {[jobs -> Time] : jobs \in SUBSET Job}
NoListing == [j \in {} |-> Past]

Ticker == [pc : {"wait", "due", "read", "fired", "append"},
           due : [Job -> Nat], job : Job, next : Time, age : 0..Period + 1]
Request == [pc : {"idle", "read", "trigger", "reload", "listed"},
            job : Job, copy : Row, list : Listing, missed : SUBSET Job]
Serving == [pc : {"idle", "list", "fired"}, todo : SUBSET Job, job : Job]

AnyJob == CHOOSE j \in Job : TRUE
NothingDue == [j \in Job |-> 0]
Waiting == [pc |-> "wait", due |-> NothingDue, job |-> AnyJob, next |-> Past,
            age |-> 0]
NoRequest == [pc |-> "idle", job |-> AnyJob, copy |-> NoRow, list |-> NoListing,
              missed |-> {}]
NoEvent == [pc |-> "idle", todo |-> {}, job |-> AnyJob]

Init ==
  /\ row = [j \in Job |-> NoRow]
  /\ up = FALSE
  /\ cache = NoEntries
  /\ subscribed = FALSE
  /\ ticker = Waiting
  /\ handler = [h \in Handler |-> NoRequest]
  /\ delivery = [d \in Delivery |-> NoEvent]
  /\ fired = [j \in Job |-> 0]
  /\ outrun = {}
  /\ requests = 0
  /\ crashes = 0

(***************************************************************************)
(* The queries.                                                            *)
(***************************************************************************)
ListTimerJobs == [j \in {k \in Job : Armed(k) /\ Timer(k)} |-> row[j].next]
ListEventJobs == {j \in Job : Armed(j) /\ ~Timer(j)}

\* The update matches no row once the job is deleted.
IncrementFired(j, next, disable) ==
  row' = IF Live(j)
           THEN [row EXCEPT ![j].next = next,
                            ![j].enabled = @ /\ ~disable]
           ELSE row

\* The whole row is written, and inserted anew where the job was deleted.
Save(j, saved) ==
  /\ row' = [row EXCEPT ![j] = saved]
  /\ fired' = IF saved.enabled THEN [fired EXCEPT ![j] = 0] ELSE fired

\* A listing that another request made earlier does not have this change.
Missed(h, j) ==
  [k \in Handler |->
     IF k # h /\ handler[k].pc = "listed"
       THEN [handler[k] EXCEPT !.missed = @ \cup {j}] ELSE handler[k]]

(***************************************************************************)
(* The cache.                                                              *)
(***************************************************************************)
Overdue(list) == {j \in DOMAIN list : list[j] = Past}

\* Mutant: a job whose time has passed is left to its next firing.
RebuildSkips(list) ==
  /\ cache' = [e \in DOMAIN cache |->
                IF e[1] \in DOMAIN list \ Overdue(list) /\ list[e[1]] = e[2] THEN 1 ELSE 0]
  /\ UNCHANGED row

\* Built under the mutex.  Where the time of a job has passed, the row gets
\* the next one.
Rebuild(list) ==
  \E again \in [Overdue(list) -> NextFireTime] :
    LET next(j) == IF j \in Overdue(list) THEN again[j] ELSE list[j]
    IN /\ cache' = [e \in DOMAIN cache |->
                      IF e[1] \in DOMAIN list /\ next(e[1]) = e[2] THEN 1 ELSE 0]
       /\ row' = [j \in Job |->
                    IF j \in Overdue(list) /\ Live(j)
                      THEN [row[j] EXCEPT !.next = again[j]] ELSE row[j]]

\* A pattern that is subscribed once stays so.
RegisterEventJobs == subscribed' = (subscribed \/ ListEventJobs # {})

\* New loads the cache and subscribes before the plugin serves requests.
New ==
  /\ ~up
  /\ up' = TRUE
  /\ Rebuild(ListTimerJobs)
  /\ RegisterEventJobs
  /\ UNCHANGED <<ticker, handler, delivery, fired, outrun, requests, crashes>>

(***************************************************************************)
(* Requests.  Saving, listing and rebuilding are steps of their own: other *)
(* requests, the ticker and events come between them.                      *)
(***************************************************************************)
Arrive(h) ==
  /\ up
  /\ handler[h].pc = "idle"
  /\ requests < MaxRequests
  /\ requests' = requests + 1

CreateJob(h, j) ==
  /\ Arrive(h)
  /\ row[j].state = "none"
  /\ \E r \in Row :
       /\ r.state = "live" /\ r.enabled
       /\ r.next \in (IF r.trigger = "timer" THEN NextFireTime ELSE {Past})
       /\ Save(j, r)
  /\ handler' = [Missed(h, j) EXCEPT ![h].pc = "reload"]
  /\ UNCHANGED <<up, cache, subscribed, ticker, delivery, outrun, crashes>>

\* UpdateJob and FireJob read the row they will write back.
ReadJob(h, j, pc) ==
  /\ Arrive(h)
  /\ Live(j)
  /\ handler' = [handler EXCEPT ![h].pc = pc, ![h].job = j, ![h].copy = row[j]]
  /\ UNCHANGED <<row, up, cache, subscribed, ticker, delivery, fired, outrun,
                 crashes>>

\* The times UpdateJob may write: a new schedule is counted from now, and so
\* is the old one of a job that is enabled when its time has passed.
Reset(copy, reschedule, enable) ==
  IF copy.trigger = "timer" /\ (reschedule \/ (enable /\ copy.next = Past))
    THEN NextFireTime ELSE {copy.next}

UpdateJob(h) ==
  LET j == handler[h].job
      copy == handler[h].copy
  IN /\ handler[h].pc = "read"
     /\ \E reschedule \in BOOLEAN, enabled \in {<<>>, <<TRUE>>, <<FALSE>>} :
          \E next \in Reset(copy, reschedule, enabled = <<TRUE>>) :
            Save(j, [copy EXCEPT !.next = next,
                                 !.enabled = IF enabled = <<>> THEN @
                                             ELSE enabled[1]])
     /\ handler' = [Missed(h, j) EXCEPT ![h] = [NoRequest EXCEPT !.pc = "reload"]]
     /\ UNCHANGED <<up, cache, subscribed, ticker, delivery, outrun, requests,
                    crashes>>

\* Deleting what is not there is no error.
DeleteJob(h, j) ==
  /\ Arrive(h)
  /\ row' = IF Live(j) THEN [row EXCEPT ![j].state = "deleted"] ELSE row
  /\ handler' = [handler EXCEPT ![h].pc = "reload"]
  /\ UNCHANGED <<up, cache, subscribed, ticker, delivery, fired, outrun, crashes>>

\* A manual firing writes back the time it read.
FireJob(h) ==
  /\ handler[h].pc = "trigger"
  /\ IncrementFired(handler[h].job, handler[h].copy.next, FALSE)
  /\ handler' = [handler EXCEPT ![h] = NoRequest]
  /\ UNCHANGED <<up, cache, subscribed, ticker, delivery, fired, outrun, requests,
                 crashes>>

ReloadLists(h) ==
  /\ handler[h].pc = "reload"
  /\ handler' = [handler EXCEPT ![h].pc = "listed", ![h].list = ListTimerJobs]
  /\ UNCHANGED <<row, up, cache, subscribed, ticker, delivery, fired, outrun,
                 requests, crashes>>

ReloadRebuilds(h) ==
  /\ handler[h].pc = "listed"
  /\ Rebuild(handler[h].list)
  /\ RegisterEventJobs
  /\ outrun' = handler[h].missed
  /\ handler' = [handler EXCEPT ![h] = NoRequest]
  /\ UNCHANGED <<up, ticker, delivery, fired, requests, crashes>>

(***************************************************************************)
(* Firing.  fired[j] is the number of times the ticker or an event fired j *)
(* since it was last saved enabled, where j is a once job, and while it is *)
(* not enabled, where it is a repeat job.                                  *)
(***************************************************************************)
Counted(j) ==
  fired' = IF Once(j) \/ ~Armed(j) THEN [fired EXCEPT ![j] = @ + 1] ELSE fired

\* The ticker works through what was due when it ticked.
Rest(due) == [ticker EXCEPT !.pc = IF due = NothingDue THEN "wait" ELSE "due",
                            !.due = due, !.job = AnyJob, !.next = Past,
                            !.age = IF due = NothingDue THEN 0 ELSE @]

\* Mutant: fires what is due and leaves it in the cache.
TickKeeps ==
  LET due == [j \in Job |-> cache[<<j, 0>>]]
  IN /\ up
     /\ ticker.pc = "wait"
     /\ due # NothingDue
     /\ ticker' = Rest(due)
     /\ UNCHANGED <<row, up, cache, subscribed, handler, delivery, fired, outrun,
                    requests, crashes>>

Tick ==
  LET due == [j \in Job |-> cache[<<j, 0>>]]
  IN /\ up
     /\ ticker.pc = "wait"
     /\ due # NothingDue
     /\ cache' = [e \in DOMAIN cache |-> IF e[2] = 0 THEN 0 ELSE cache[e]]
     /\ ticker' = Rest(due)
     /\ UNCHANGED <<row, up, subscribed, handler, delivery, fired, outrun, requests,
                    crashes>>

\* The row is read again; what is deleted or disabled by now is dropped.
TakeDue(j) ==
  LET left == [ticker.due EXCEPT ![j] = @ - 1]
  IN /\ ticker.pc = "due"
     /\ ticker.due[j] > 0
     /\ ticker' = IF Armed(j)
                    THEN [ticker EXCEPT !.pc = "read", !.due = left, !.job = j]
                    ELSE Rest(left)
     /\ UNCHANGED <<row, up, cache, subscribed, handler, delivery, fired, outrun,
                    requests, crashes>>

FireTimerJob ==
  /\ ticker.pc = "read"
  /\ Counted(ticker.job)
  /\ ticker' = [ticker EXCEPT !.pc = "fired"]
  /\ UNCHANGED <<row, up, cache, subscribed, handler, delivery, outrun, requests,
                 crashes>>

\* Mutant: a once job is not cached again, but stays enabled.
RefireEnabled ==
  LET j == ticker.job
  IN /\ ticker.pc = "fired"
     /\ \E d \in NextFireTime :
          /\ IncrementFired(j, IF Once(j) THEN Past ELSE Later(d, ticker.age), FALSE)
          /\ ticker' = IF Once(j)
                         THEN Rest(ticker.due)
                         ELSE [ticker EXCEPT !.pc = "append", !.next = Later(d, ticker.age)]
     /\ UNCHANGED <<up, cache, subscribed, handler, delivery, fired, outrun,
                    requests, crashes>>

\* The next time of a repeat job is counted from the tick.
Refire ==
  LET j == ticker.job
  IN /\ ticker.pc = "fired"
     /\ IF Once(j)
          THEN /\ IncrementFired(j, Past, TRUE)
               /\ ticker' = Rest(ticker.due)
          ELSE \E d \in NextFireTime :
                 /\ IncrementFired(j, Later(d, ticker.age), FALSE)
                 /\ ticker' = [ticker EXCEPT !.pc = "append",
                                             !.next = Later(d, ticker.age)]
     /\ UNCHANGED <<up, cache, subscribed, handler, delivery, fired, outrun,
                    requests, crashes>>

\* Mutant: a job that the next tick would find due at once is not cached.
AppendFuture ==
  /\ ticker.pc = "append"
  /\ cache' = IF ticker.next > 0
                THEN [cache EXCEPT ![<<ticker.job, ticker.next>>] = @ + 1] ELSE cache
  /\ ticker' = Rest(ticker.due)
  /\ UNCHANGED <<row, up, subscribed, handler, delivery, fired, outrun, requests,
                 crashes>>

Append ==
  LET at == IF ticker.next = Past THEN 0 ELSE ticker.next
  IN /\ ticker.pc = "append"
     /\ cache' = [cache EXCEPT ![<<ticker.job, at>>] = @ + 1]
     /\ ticker' = Rest(ticker.due)
     /\ UNCHANGED <<row, up, subscribed, handler, delivery, fired, outrun, requests,
                    crashes>>

\* An event comes, and its goroutine lists the jobs that wait for it.
Deliver(d) ==
  /\ up
  /\ subscribed
  /\ delivery[d].pc = "idle"
  /\ ListEventJobs # {}
  /\ delivery' = [delivery EXCEPT ![d].pc = "list", ![d].todo = ListEventJobs]
  /\ UNCHANGED <<row, up, cache, subscribed, ticker, handler, fired, outrun,
                 requests, crashes>>

\* It fires what it listed, whatever the rows say by then.
FireEventJob(d, j) ==
  /\ delivery[d].pc = "list"
  /\ j \in delivery[d].todo
  /\ Counted(j)
  /\ delivery' = [delivery EXCEPT ![d].pc = "fired", ![d].job = j,
                                  ![d].todo = @ \ {j}]
  /\ UNCHANGED <<row, up, cache, subscribed, ticker, handler, outrun, requests,
                 crashes>>

EventJobFired(d) ==
  LET j == delivery[d].job
  IN /\ delivery[d].pc = "fired"
     /\ IncrementFired(j, Past, Once(j))
     /\ delivery' = [delivery EXCEPT
                       ![d].pc = IF delivery[d].todo = {} THEN "idle" ELSE "list",
                       ![d].job = AnyJob]
     /\ UNCHANGED <<up, cache, subscribed, ticker, handler, fired, outrun, requests,
                    crashes>>

(***************************************************************************)
(* Time and crashes.                                                       *)
(***************************************************************************)
Advance ==
  /\ row' = [j \in Job |-> [row[j] EXCEPT !.next = Nearer(@)]]
  /\ cache' = [e \in DOMAIN cache |->
                 (IF e[2] = 0 THEN cache[e] ELSE 0)
                 + IF e[2] = Period THEN 0 ELSE cache[<<e[1], e[2] + 1>>]]
  /\ ticker' = [ticker EXCEPT !.next = Nearer(@),
                              !.age = IF ticker.pc = "wait" \/ @ > Period THEN @
                                      ELSE @ + 1]
  /\ handler' = [h \in Handler |->
                   [handler[h] EXCEPT
                      !.copy.next = Nearer(@),
                      !.list = [j \in DOMAIN @ |-> Nearer(@[j])]]]
  /\ UNCHANGED <<up, subscribed, delivery, fired, outrun, requests, crashes>>

\* Only the rows survive.  A firing that has not reached its row is repeated.
Crash ==
  /\ up
  /\ crashes < MaxCrashes
  /\ crashes' = crashes + 1
  /\ up' = FALSE
  /\ cache' = NoEntries
  /\ subscribed' = FALSE
  /\ ticker' = Waiting
  /\ handler' = [h \in Handler |-> NoRequest]
  /\ delivery' = [d \in Delivery |-> NoEvent]
  /\ fired' = [j \in Job |->
                 IF \/ ticker.pc = "fired" /\ ticker.job = j
                    \/ \E d \in Delivery : delivery[d].pc = "fired" /\ delivery[d].job = j
                   THEN 0 ELSE fired[j]]
  /\ outrun' = {}
  /\ UNCHANGED <<row, requests>>

TickerStep == Tick \/ (\E j \in Job : TakeDue(j)) \/ FireTimerJob \/ Refire \/ Append

RequestStep(h) ==
  UpdateJob(h) \/ FireJob(h) \/ ReloadLists(h) \/ ReloadRebuilds(h)

EventStep(d) == (\E j \in Job : FireEventJob(d, j)) \/ EventJobFired(d)

Next ==
  \/ New
  \/ \E h \in Handler, j \in Job :
       CreateJob(h, j) \/ ReadJob(h, j, "read") \/ ReadJob(h, j, "trigger")
         \/ DeleteJob(h, j)
  \/ \E h \in Handler : RequestStep(h)
  \/ TickerStep
  \/ \E d \in Delivery : Deliver(d) \/ EventStep(d)
  \/ Advance
  \/ Crash

Spec == Init /\ [][Next]_vars

\* Goroutines run, time passes, and the kernel starts a plugin that stopped.
FairSpec ==
  /\ Spec
  /\ WF_vars(New) /\ WF_vars(TickerStep) /\ WF_vars(Advance)
  /\ \A h \in Handler : WF_vars(RequestStep(h))
  /\ \A d \in Delivery : WF_vars(EventStep(d))

(***************************************************************************)
(* Properties.                                                             *)
(***************************************************************************)
TypeOK ==
  /\ row \in [Job -> Row]
  /\ up \in BOOLEAN
  /\ cache \in [Job \X (0..Period) -> Nat]
  /\ subscribed \in BOOLEAN
  /\ ticker \in Ticker
  /\ handler \in [Handler -> Request]
  /\ delivery \in [Delivery -> Serving]
  /\ fired \in [Job -> Nat]
  /\ outrun \subseteq Job
  /\ requests \in 0..MaxRequests
  /\ crashes \in 0..MaxCrashes

\* The firings of a job that can be on their way at the same moment: one
\* ticker fires timer jobs, every event has a goroutine of its own.
AtOnce(j) == IF Timer(j) THEN 1 ELSE Cardinality(Delivery)

\* A once job fires once for each time it is saved enabled (scheduler.go:168,
\* 225), and a repeat job that is disabled or deleted fires no more, but for
\* firings that were on their way: also where a rebuild of the cache during a
\* firing left a job with two entries (scheduler.go:104, 183).  Events served at
\* the same time may each fire a job, and a crash between a firing and its
\* record repeats it.
FiresAsEnabled == \A j \in Job : fired[j] <= AtOnce(j)

\* Where a job may be.
InCache(j) == \E t \in 0..Period : cache[<<j, t>>] > 0
BeingFired(j) == ticker.due[j] > 0
                   \/ (ticker.pc \in {"read", "fired", "append"} /\ ticker.job = j)
WillReload(j) == \E h \in Handler : \/ handler[h].pc = "reload"
                                    \/ handler[h].pc = "listed" /\ j \in DOMAIN handler[h].list

\* While the plugin runs, an enabled timer job is in the cache, or taken from
\* it to be fired, or a reload that has it or will list it is under way.  Only
\* a reload that listed before another request saved and rebuilds after it
\* leaves jobs out (scheduler.go:95, 102).
Scheduled ==
  up => \A j \in Job : Armed(j) /\ Timer(j) =>
          j \in outrun \/ InCache(j) \/ BeingFired(j) \/ WillReload(j)

\* The entries of a job in the cache, numbered at each time.
Cached(j) == UNION {{t} \X (1..cache[<<j, t>>]) : t \in 0..Period}

\* A rebuild during a firing gives the job a second entry, and from then on it
\* fires twice in every period; each request adds one at most, and the next
\* rebuild drops them all but those on their way (scheduler.go:183).
Entries(j) ==
  Cardinality(Cached(j)) + ticker.due[j]
    + IF ticker.pc \in {"read", "fired", "append"} /\ ticker.job = j THEN 1 ELSE 0
EntriesBounded == \A j \in Job : Entries(j) <= requests + 1

\* Every timer job that stays enabled fires again and again, through crashes,
\* late ticks and reloads, unless an overlapping reload left it out.
EveryTimerFires ==
  \A j \in Job :
    []<>(~Armed(j) \/ ~Timer(j) \/ j \in outrun \/ (ticker.pc = "fired" /\ ticker.job = j))
==============================================================================
