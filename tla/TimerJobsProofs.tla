---------------------------- MODULE TimerJobsProofs ----------------------------
(***************************************************************************)
(* What holds of the task scheduler's jobs for any number of jobs, of      *)
(* requests served at once and of events: the types; that no enabled timer *)
(* job is lost but to an overlapping reload; that a job fires as often as  *)
(* it is enabled; and that it has no more entries than requests explain.   *)
(***************************************************************************)
EXTENDS TimerJobs, FiniteSetTheorems, WellFoundedInduction, TLAPS

(***************************************************************************)
(* The constants of the model have their types.                            *)
(***************************************************************************)
LEMMA ConstantTypes ==
  /\ AnyJob \in Job
  /\ NoRow \in Row
  /\ NoListing \in Listing
  /\ NoRequest \in Request
  /\ NoEvent \in Serving
  /\ Waiting \in Ticker
  /\ Past \in Time
  /\ NextFireTime \subseteq Time
<1>1. AnyJob \in Job
  BY TimerJobsAssumption DEF AnyJob
<1>2. Past \in Time /\ NextFireTime \subseteq Time
  BY TimerJobsAssumption DEF Past, Time, NextFireTime
<1>3. NoRow \in Row
  BY <1>2 DEF NoRow, Row
<1>4. NoListing \in Listing
  <2>1. NoListing \in [{} -> Time]
    BY DEF NoListing
  <2> QED BY <2>1 DEF Listing
<1>5. NoRequest \in Request
  BY <1>1, <1>3, <1>4 DEF NoRequest, Request
<1>6. NoEvent \in Serving
  BY <1>1 DEF NoEvent, Serving
<1>7. Waiting \in Ticker
  <2>1. NothingDue \in [Job -> Nat]
    BY DEF NothingDue
  <2>2. 0 \in 0..Period + 1
    BY TimerJobsAssumption
  <2> QED BY <1>1, <1>2, <2>1, <2>2 DEF Waiting, Ticker
<1> QED BY <1>1, <1>2, <1>3, <1>4, <1>5, <1>6, <1>7

\* A moment that comes nearer is still a time.
LEMMA LaterType ==
  ASSUME NEW t \in Time, NEW age \in Nat
  PROVE  Later(t, age) \in Time
BY TimerJobsAssumption DEF Later, Time, Past

LEMMA NearerType ==
  ASSUME NEW t \in Time
  PROVE  Nearer(t) \in Time
BY LaterType DEF Nearer

\* A listing has a time for each of some jobs.
LEMMA ListingType ==
  ASSUME NEW jobs \in SUBSET Job, NEW list \in [jobs -> Time]
  PROVE  list \in Listing
BY DEF Listing

LEMMA ListingElim ==
  ASSUME NEW list \in Listing
  PROVE  /\ DOMAIN list \in SUBSET Job
         /\ list \in [DOMAIN list -> Time]
BY DEF Listing

(***************************************************************************)
(* Type correctness.                                                       *)
(***************************************************************************)
LEMMA TypeInit == Init => TypeOK
<1> SUFFICES ASSUME Init PROVE TypeOK
  OBVIOUS
<1>1. cache \in [Job \X (0..Period) -> Nat]
  BY DEF Init, NoEntries
<1>2. requests \in 0..MaxRequests /\ crashes \in 0..MaxCrashes
  BY TimerJobsAssumption DEF Init
<1> QED BY <1>1, <1>2, ConstantTypes DEF Init, TypeOK

\* The cache and the rows that Rebuild leaves.
LEMMA RebuildType ==
  ASSUME TypeOK, NEW list \in Listing, Rebuild(list)
  PROVE  /\ row' \in [Job -> Row]
         /\ cache' \in [Job \X (0..Period) -> Nat]
<1>1. PICK again \in [Overdue(list) -> NextFireTime] :
        /\ cache' = [e \in DOMAIN cache |->
                       IF e[1] \in DOMAIN list
                            /\ (IF e[1] \in Overdue(list) THEN again[e[1]] ELSE list[e[1]]) = e[2]
                         THEN 1 ELSE 0]
        /\ row' = [j \in Job |->
                     IF j \in Overdue(list) /\ Live(j)
                       THEN [row[j] EXCEPT !.next = again[j]] ELSE row[j]]
  BY DEF Rebuild
<1>2. cache' \in [Job \X (0..Period) -> Nat]
  BY <1>1 DEF TypeOK
<1>3. ASSUME NEW j \in Overdue(list), j \in Job
      PROVE  [row[j] EXCEPT !.next = again[j]] \in Row
  <2>1. row[j] \in Row /\ again[j] \in Time
    BY <1>3, ConstantTypes DEF TypeOK
  <2> QED BY <2>1 DEF Row
<1> QED BY <1>1, <1>2, <1>3 DEF TypeOK

LEMMA IncrementFiredType ==
  ASSUME TypeOK, NEW j \in Job, NEW next \in Time, NEW disable \in BOOLEAN,
         IncrementFired(j, next, disable)
  PROVE  row' \in [Job -> Row]
<1>1. row[j] \in Row
  BY DEF TypeOK
<1> DEFINE r == [row[j] EXCEPT !.next = next, !.enabled = @ /\ ~disable]
<1>2. r \in Row
  BY <1>1 DEF Row
<1>3. [row EXCEPT ![j].next = next, ![j].enabled = @ /\ ~disable] = [row EXCEPT ![j] = r]
  BY <1>1 DEF TypeOK, Row
<1> HIDE DEF r
<1> QED BY <1>2, <1>3 DEF IncrementFired, TypeOK

LEMMA SaveType ==
  ASSUME TypeOK, NEW j \in Job, NEW r \in Row, Save(j, r)
  PROVE  row' \in [Job -> Row] /\ fired' \in [Job -> Nat]
BY DEF Save, TypeOK

\* Marking the listings that miss a change keeps the requests' type.
LEMMA MissedType ==
  ASSUME TypeOK, NEW h \in Handler, NEW j \in Job
  PROVE  Missed(h, j) \in [Handler -> Request]
<1>1. ASSUME NEW k \in Handler PROVE [handler[k] EXCEPT !.missed = @ \cup {j}] \in Request
  BY DEF TypeOK, Request
<1> QED BY <1>1 DEF Missed, TypeOK

LEMMA CountedType ==
  ASSUME TypeOK, NEW j \in Job, Counted(j)
  PROVE  fired' \in [Job -> Nat]
BY DEF Counted, TypeOK

LEMMA RestType ==
  ASSUME TypeOK, NEW due \in [Job -> Nat]
  PROVE  Rest(due) \in Ticker
<1>1. ticker \in Ticker /\ 0 \in 0..Period + 1
  BY TimerJobsAssumption DEF TypeOK
<1> QED BY <1>1, ConstantTypes DEF Rest, Ticker

LEMMA RequestType ==
  ASSUME TypeOK, NEW h \in Handler, NEW j \in Job,
         \/ CreateJob(h, j) \/ ReadJob(h, j, "read") \/ ReadJob(h, j, "trigger")
         \/ DeleteJob(h, j)
  PROVE  TypeOK'
<1>0. ASSUME Arrive(h) PROVE requests' \in 0..MaxRequests
  BY <1>0, TimerJobsAssumption DEF Arrive, TypeOK
<1>1. CASE CreateJob(h, j)
  <2>1. row' \in [Job -> Row] /\ fired' \in [Job -> Nat]
    BY <1>1, SaveType DEF CreateJob
  <2>2. handler' \in [Handler -> Request]
    <3>1. Missed(h, j) \in [Handler -> Request]
      BY MissedType
    <3> DEFINE m == Missed(h, j)
    <3>2. m[h] \in Request /\ handler' = [m EXCEPT ![h].pc = "reload"]
      BY <1>1, <3>1 DEF CreateJob
    <3> HIDE DEF m
    <3>3. [m[h] EXCEPT !.pc = "reload"] \in Request
      BY <3>2 DEF Request
    <3> QED BY <3>1, <3>2, <3>3 DEF m
  <2> QED BY <1>0, <1>1, <2>1, <2>2 DEF CreateJob, TypeOK
<1>2. ASSUME NEW pc \in {"read", "trigger"}, ReadJob(h, j, pc) PROVE TypeOK'
  <2>1. row[j] \in Row /\ handler[h] \in Request
    BY DEF TypeOK
  <2> DEFINE q == [handler[h] EXCEPT !.pc = pc, !.job = j, !.copy = row[j]]
  <2>2. q \in Request
    BY <2>1 DEF Request
  <2>3. handler' = [handler EXCEPT ![h] = q]
    BY <1>2, <2>1 DEF ReadJob, TypeOK, Request
  <2> HIDE DEF q
  <2>4. handler' \in [Handler -> Request]
    BY <2>2, <2>3 DEF TypeOK
  <2> QED BY <1>0, <1>2, <2>4 DEF ReadJob, TypeOK
<1>3. CASE DeleteJob(h, j)
  <2>1. row' \in [Job -> Row]
    BY <1>3 DEF DeleteJob, TypeOK, Row
  <2>2. handler' \in [Handler -> Request]
    BY <1>3 DEF DeleteJob, TypeOK, Request
  <2> QED BY <1>0, <1>3, <2>1, <2>2 DEF DeleteJob, TypeOK
<1> QED BY <1>1, <1>2, <1>3

LEMMA RequestStepType ==
  ASSUME TypeOK, NEW h \in Handler, RequestStep(h)
  PROVE  TypeOK'
<1>0. /\ handler[h] \in Request
      /\ handler[h].job \in Job /\ handler[h].copy \in Row /\ handler[h].copy.next \in Time
      /\ handler[h].list \in Listing /\ handler[h].missed \in SUBSET Job
  BY DEF TypeOK, Request, Row
<1>1. CASE UpdateJob(h)
  <2> DEFINE copy == handler[h].copy
  <2>1. PICK reschedule \in BOOLEAN, enabled \in {<<>>, <<TRUE>>, <<FALSE>>} :
          \E next \in Reset(copy, reschedule, enabled = <<TRUE>>) :
            Save(handler[h].job, [copy EXCEPT !.next = next,
                                              !.enabled = IF enabled = <<>> THEN @
                                                          ELSE enabled[1]])
    BY <1>1 DEF UpdateJob
  <2>2. PICK next \in Reset(copy, reschedule, enabled = <<TRUE>>) :
            Save(handler[h].job, [copy EXCEPT !.next = next,
                                              !.enabled = IF enabled = <<>> THEN @
                                                          ELSE enabled[1]])
    BY <2>1
  <2>3. next \in Time
    BY <1>0, ConstantTypes DEF Reset
  <2> DEFINE e == IF enabled = <<>> THEN copy.enabled ELSE enabled[1]
  <2>4. e \in BOOLEAN
    <3>1. copy.enabled \in BOOLEAN
      BY <1>0 DEF Row
    <3>2. CASE enabled = <<>>
      BY <3>1, <3>2
    <3>3. CASE enabled = <<TRUE>>
      BY <3>3
    <3>4. CASE enabled = <<FALSE>>
      BY <3>4
    <3> QED BY <3>2, <3>3, <3>4
  <2> DEFINE r == [copy EXCEPT !.next = next, !.enabled = e]
  <2>5. r \in Row
    <3> HIDE DEF e
    <3> QED BY <1>0, <2>3, <2>4 DEF Row
  <2>6. row' \in [Job -> Row] /\ fired' \in [Job -> Nat]
    <3>1. Save(handler[h].job, r)
      BY <2>2
    <3> HIDE DEF r
    <3> QED BY <1>0, <2>5, <3>1, SaveType
  <2>7. handler' \in [Handler -> Request]
    BY <1>0, <1>1, MissedType, ConstantTypes DEF UpdateJob, Request
  <2> QED BY <1>1, <2>6, <2>7 DEF UpdateJob, TypeOK
<1>2. CASE FireJob(h)
  <2>1. row' \in [Job -> Row]
    BY <1>0, <1>2, IncrementFiredType DEF FireJob
  <2>2. handler' \in [Handler -> Request]
    BY <1>2, ConstantTypes DEF FireJob, TypeOK
  <2> QED BY <1>2, <2>1, <2>2 DEF FireJob, TypeOK
<1>3. CASE ReloadLists(h)
  <2>1. ListTimerJobs \in Listing
    <3>1. ListTimerJobs \in [{k \in Job : Armed(k) /\ Timer(k)} -> Time]
      BY DEF ListTimerJobs, TypeOK, Row
    <3> QED BY <3>1, ListingType
  <2>2. handler' \in [Handler -> Request]
    BY <1>3, <2>1 DEF ReloadLists, TypeOK, Request
  <2> QED BY <1>3, <2>2 DEF ReloadLists, TypeOK
<1>4. CASE ReloadRebuilds(h)
  <2>1. row' \in [Job -> Row] /\ cache' \in [Job \X (0..Period) -> Nat]
    BY <1>0, <1>4, RebuildType DEF ReloadRebuilds
  <2>2. handler' \in [Handler -> Request]
    BY <1>4, ConstantTypes DEF ReloadRebuilds, TypeOK
  <2>3. subscribed' \in BOOLEAN
    BY <1>4 DEF ReloadRebuilds, RegisterEventJobs, TypeOK
  <2> QED BY <1>0, <1>4, <2>1, <2>2, <2>3 DEF ReloadRebuilds, TypeOK
<1> QED BY <1>1, <1>2, <1>3, <1>4 DEF RequestStep

LEMMA TickerStepType ==
  ASSUME TypeOK, TickerStep
  PROVE  TypeOK'
<1>0. /\ ticker \in Ticker
      /\ ticker.due \in [Job -> Nat] /\ ticker.job \in Job /\ ticker.next \in Time
      /\ ticker.age \in Nat
  BY TimerJobsAssumption DEF TypeOK, Ticker
<1>1. CASE Tick
  <2>1. [j \in Job |-> cache[<<j, 0>>]] \in [Job -> Nat]
    BY TimerJobsAssumption DEF TypeOK
  <2>2. ticker' \in Ticker
    BY <1>1, <2>1, RestType DEF Tick
  <2>3. cache' \in [Job \X (0..Period) -> Nat]
    BY <1>1 DEF Tick, TypeOK
  <2> QED BY <1>1, <2>2, <2>3 DEF Tick, TypeOK
<1>2. ASSUME NEW j \in Job, TakeDue(j) PROVE TypeOK'
  <2> DEFINE left == [ticker.due EXCEPT ![j] = @ - 1]
  <2>1. left \in [Job -> Nat]
    BY <1>0, <1>2 DEF TakeDue
  <2> HIDE DEF left
  <2>2. [ticker EXCEPT !.pc = "read", !.due = left, !.job = j] \in Ticker
    BY <1>0, <2>1 DEF Ticker
  <2>3. ticker' \in Ticker
    BY <1>2, <2>1, <2>2, RestType DEF TakeDue, left
  <2> QED BY <1>2, <2>3 DEF TakeDue, TypeOK
<1>3. CASE FireTimerJob
  <2>1. ticker' \in Ticker
    BY <1>0, <1>3 DEF FireTimerJob, Ticker
  <2> QED BY <1>0, <1>3, <2>1, CountedType DEF FireTimerJob, TypeOK
<1>4. CASE Refire
  <2>1. row' \in [Job -> Row] /\ ticker' \in Ticker
    <3>1. CASE Once(ticker.job)
      BY <1>0, <1>4, <3>1, IncrementFiredType, RestType, ConstantTypes DEF Refire
    <3>2. CASE ~Once(ticker.job)
      <4>1. PICK d \in NextFireTime :
              /\ IncrementFired(ticker.job, Later(d, ticker.age), FALSE)
              /\ ticker' = [ticker EXCEPT !.pc = "append", !.next = Later(d, ticker.age)]
        BY <1>4, <3>2 DEF Refire
      <4>2. Later(d, ticker.age) \in Time
        BY <1>0, LaterType, ConstantTypes
      <4>3. row' \in [Job -> Row]
        BY <1>0, <4>1, <4>2, IncrementFiredType
      <4>4. ticker' \in Ticker
        BY <1>0, <4>1, <4>2 DEF Ticker
      <4> QED BY <4>3, <4>4
    <3> QED BY <3>1, <3>2
  <2> QED BY <1>4, <2>1 DEF Refire, TypeOK
<1>5. CASE Append
  <2> DEFINE at == IF ticker.next = Past THEN 0 ELSE ticker.next
  <2>1. at \in 0..Period
    BY <1>0, TimerJobsAssumption DEF Time, Past
  <2>2. cache' = [cache EXCEPT ![<<ticker.job, at>>] = @ + 1] /\ ticker' = Rest(ticker.due)
    BY <1>5 DEF Append
  <2> HIDE DEF at
  <2>3. cache' \in [Job \X (0..Period) -> Nat]
    BY <1>0, <2>1, <2>2 DEF TypeOK
  <2>4. ticker' \in Ticker
    BY <1>0, <2>2, RestType
  <2> QED BY <1>5, <2>3, <2>4 DEF Append, TypeOK
<1> QED BY <1>1, <1>2, <1>3, <1>4, <1>5 DEF TickerStep

LEMMA EventType ==
  ASSUME TypeOK, NEW d \in Delivery, Deliver(d) \/ EventStep(d)
  PROVE  TypeOK'
<1>0. /\ delivery[d] \in Serving
      /\ delivery[d].job \in Job /\ delivery[d].todo \in SUBSET Job
  BY DEF TypeOK, Serving
<1>1. CASE Deliver(d)
  <2>1. delivery' \in [Delivery -> Serving]
    BY <1>1 DEF Deliver, TypeOK, Serving, ListEventJobs
  <2> QED BY <1>1, <2>1 DEF Deliver, TypeOK
<1>2. ASSUME NEW j \in Job, FireEventJob(d, j) PROVE TypeOK'
  <2>1. delivery' \in [Delivery -> Serving]
    BY <1>2 DEF FireEventJob, TypeOK, Serving
  <2> QED BY <1>2, <2>1, CountedType DEF FireEventJob, TypeOK
<1>3. CASE EventJobFired(d)
  <2>1. row' \in [Job -> Row]
    BY <1>0, <1>3, IncrementFiredType, ConstantTypes DEF EventJobFired, Once
  <2>2. delivery' \in [Delivery -> Serving]
    BY <1>3, ConstantTypes DEF EventJobFired, TypeOK, Serving
  <2> QED BY <1>3, <2>1, <2>2 DEF EventJobFired, TypeOK
<1> QED BY <1>1, <1>2, <1>3 DEF EventStep

LEMMA AdvanceType ==
  ASSUME TypeOK, Advance
  PROVE  TypeOK'
<1>1. row' \in [Job -> Row]
  <2>1. ASSUME NEW j \in Job
        PROVE  [row[j] EXCEPT !.next = Nearer(@)] \in Row
    <3>1. row[j] \in Row /\ row[j].next \in Time
      BY DEF TypeOK, Row
    <3>2. Nearer(row[j].next) \in Time
      BY <3>1, NearerType
    <3> QED BY <3>1, <3>2 DEF Row
  <2> QED BY <2>1 DEF Advance
<1>2. cache' \in [Job \X (0..Period) -> Nat]
  <2>1. ASSUME NEW e \in Job \X (0..Period)
        PROVE  (IF e[2] = 0 THEN cache[e] ELSE 0)
                 + (IF e[2] = Period THEN 0 ELSE cache[<<e[1], e[2] + 1>>]) \in Nat
    <3>1. cache[e] \in Nat
      BY DEF TypeOK
    <3>2. CASE e[2] = Period
      BY <3>1, <3>2
    <3>3. CASE e[2] # Period
      <4>1. <<e[1], e[2] + 1>> \in Job \X (0..Period)
        BY <3>3, TimerJobsAssumption
      <4> QED BY <3>1, <3>3, <4>1 DEF TypeOK
    <3> QED BY <3>2, <3>3
  <2> QED BY <2>1 DEF Advance, TypeOK
<1>3. ticker' \in Ticker
  <2>1. ticker \in Ticker /\ ticker.next \in Time /\ ticker.age \in 0..Period + 1
    BY DEF TypeOK, Ticker
  <2>2. Nearer(ticker.next) \in Time
    BY <2>1, NearerType
  <2> DEFINE age == IF ticker.pc = "wait" \/ ticker.age > Period THEN ticker.age
                    ELSE ticker.age + 1
  <2>3. age \in 0..Period + 1
    BY <2>1, TimerJobsAssumption
  <2>4. ticker' = [ticker EXCEPT !.next = Nearer(ticker.next), !.age = age]
    BY <2>1 DEF Advance, Ticker
  <2> HIDE DEF age
  <2> QED BY <2>1, <2>2, <2>3, <2>4 DEF Ticker
<1>4. handler' \in [Handler -> Request]
  <2>1. ASSUME NEW h \in Handler
        PROVE  handler'[h] \in Request
    <3> DEFINE q == handler[h]
    <3> DEFINE list == [j \in DOMAIN q.list |-> Nearer(q.list[j])]
    <3> DEFINE copy == [q.copy EXCEPT !.next = Nearer(q.copy.next)]
    <3>1. q \in Request /\ q.copy \in Row /\ q.copy.next \in Time /\ q.list \in Listing
      BY DEF TypeOK, Request, Row
    <3>2. copy \in Row
      <4>1. Nearer(q.copy.next) \in Time
        BY <3>1, NearerType
      <4> QED BY <3>1, <4>1 DEF Row
    <3>3. list \in Listing
      <4>1. \A j \in DOMAIN q.list : Nearer(q.list[j]) \in Time
        BY <3>1, ListingElim, NearerType
      <4>2. list \in [DOMAIN q.list -> Time]
        BY <4>1
      <4> HIDE DEF list
      <4> QED BY <3>1, <4>2, ListingElim, ListingType
    <3>4. handler'[h] = [q EXCEPT !.copy = copy, !.list = list]
      BY <3>1 DEF Advance, Request, Row
    <3> HIDE DEF q, list, copy
    <3> QED BY <3>1, <3>2, <3>3, <3>4 DEF Request
  <2> QED BY <2>1 DEF Advance
<1> QED BY <1>1, <1>2, <1>3, <1>4 DEF Advance, TypeOK

LEMMA NewType ==
  ASSUME TypeOK, New
  PROVE  TypeOK'
<1>1. ListTimerJobs \in Listing
  <2>1. ListTimerJobs \in [{k \in Job : Armed(k) /\ Timer(k)} -> Time]
    BY DEF ListTimerJobs, TypeOK, Row
  <2> QED BY <2>1, ListingType
<1>2. row' \in [Job -> Row] /\ cache' \in [Job \X (0..Period) -> Nat]
  BY <1>1, RebuildType DEF New
<1> QED BY <1>2 DEF New, RegisterEventJobs, TypeOK

LEMMA CrashType ==
  ASSUME TypeOK, Crash
  PROVE  TypeOK'
<1>1. cache' \in [Job \X (0..Period) -> Nat]
  BY DEF Crash, NoEntries
<1>2. crashes' \in 0..MaxCrashes
  BY TimerJobsAssumption DEF Crash, TypeOK
<1>3. fired' \in [Job -> Nat]
  BY DEF Crash, TypeOK
<1>4. handler' \in [Handler -> Request] /\ delivery' \in [Delivery -> Serving]
      /\ ticker' \in Ticker
  BY ConstantTypes DEF Crash
<1> QED BY <1>1, <1>2, <1>3, <1>4 DEF Crash, TypeOK

LEMMA TypeNext == TypeOK /\ [Next]_vars => TypeOK'
<1> SUFFICES ASSUME TypeOK, [Next]_vars PROVE TypeOK'
  OBVIOUS
<1>1. CASE UNCHANGED vars
  BY <1>1 DEF vars, TypeOK
<1>2. CASE Next
  BY <1>2, NewType, RequestType, RequestStepType, TickerStepType, EventType, AdvanceType,
     CrashType DEF Next
<1> QED BY <1>1, <1>2

\* The rows, the cache and what the goroutines hold always have their types
\* (scheduler.go, storage/db.go).
THEOREM TypeCorrect == Spec => []TypeOK
BY TypeInit, TypeNext, PTL DEF Spec

(***************************************************************************)
(* No timer job is lost.  A listing lacks an enabled timer job only where  *)
(* the request that enabled it has marked the listing, and the ticker has  *)
(* nothing taken while it waits.                                           *)
(***************************************************************************)
ArmedTimer(j) == Armed(j) /\ Timer(j)

Listed ==
  \A h \in Handler : handler[h].pc = "listed" =>
    \A j \in Job : ArmedTimer(j) => j \in DOMAIN handler[h].list \cup handler[h].missed

Resting == ticker.pc = "wait" => \A j \in Job : ticker.due[j] = 0

IInv == TypeOK /\ Scheduled /\ Listed /\ Resting

LEMMA IInvInit == Init => IInv
BY TypeInit DEF Init, IInv, Scheduled, Listed, Resting, NoRequest, Waiting, NothingDue

\* A listing that has every enabled timer job puts them all in the cache, and
\* a rebuild enables none.
LEMMA RebuildKeeps ==
  ASSUME TypeOK, NEW list \in Listing, Rebuild(list)
  PROVE  /\ \A j \in DOMAIN list : InCache(j)'
         /\ \A j \in Job : ArmedTimer(j)' => ArmedTimer(j)
<1>1. PICK again \in [Overdue(list) -> NextFireTime] :
        /\ cache' = [e \in DOMAIN cache |->
                       IF e[1] \in DOMAIN list
                            /\ (IF e[1] \in Overdue(list) THEN again[e[1]] ELSE list[e[1]]) = e[2]
                         THEN 1 ELSE 0]
        /\ row' = [j \in Job |->
                     IF j \in Overdue(list) /\ Live(j)
                       THEN [row[j] EXCEPT !.next = again[j]] ELSE row[j]]
  BY DEF Rebuild
<1>2. ASSUME NEW j \in DOMAIN list PROVE InCache(j)'
  <2> DEFINE t == IF j \in Overdue(list) THEN again[j] ELSE list[j]
  <2>1. j \in Job /\ list[j] \in Time
    BY ListingElim
  <2>2. t \in 0..Period
    BY <2>1, TimerJobsAssumption DEF Overdue, NextFireTime, Time, Past
  <2>3. cache'[<<j, t>>] = 1
    <3>1. <<j, t>> \in DOMAIN cache
      BY <2>1, <2>2 DEF TypeOK
    <3> QED BY <1>1, <3>1
  <2> QED BY <2>2, <2>3 DEF InCache
<1>3. ASSUME NEW j \in Job, ArmedTimer(j)' PROVE ArmedTimer(j)
  <2>1. row[j] \in Row
    BY DEF TypeOK
  <2> QED BY <1>1, <1>3, <2>1 DEF ArmedTimer, Armed, Live, Timer, Row
<1> QED BY <1>2, <1>3

LEMMA NeverArms ==
  ASSUME TypeOK, NEW j \in Job, NEW next, NEW disable \in BOOLEAN,
         IncrementFired(j, next, disable)
  PROVE  \A k \in Job : ArmedTimer(k)' =>
           ArmedTimer(k) /\ (k = j => ~disable)
<1> SUFFICES ASSUME NEW k \in Job, ArmedTimer(k)'
             PROVE  ArmedTimer(k) /\ (k = j => ~disable)
  OBVIOUS
<1>1. row[k] \in Row /\ row[j] \in Row
  BY DEF TypeOK
<1>2. CASE ~Live(j)
  BY <1>2 DEF IncrementFired, ArmedTimer, Armed, Live, Timer
<1>3. CASE Live(j)
  <2>1. row'[j] = [row[j] EXCEPT !.next = next, !.enabled = @ /\ ~disable]
    BY <1>3 DEF IncrementFired, TypeOK, Row
  <2>2. k # j => row'[k] = row[k]
    BY <1>3 DEF IncrementFired, TypeOK
  <2>3. row'[j].enabled => row[j].enabled /\ ~disable
    BY <1>1, <2>1 DEF Row
  <2>4. row'[j].trigger = row[j].trigger /\ row'[j].state = row[j].state
    BY <1>1, <2>1 DEF Row
  <2> QED BY <2>2, <2>3, <2>4 DEF ArmedTimer, Armed, Live, Timer
<1> QED BY <1>2, <1>3

\* What keeps the invariant when no job is enabled and the cache, the ticker
\* and the reloads stay.
LEMMA StayScheduled ==
  ASSUME IInv, TypeOK',
         \A j \in Job : ArmedTimer(j)' => ArmedTimer(j),
         UNCHANGED <<up, cache, ticker, handler, outrun>>
  PROVE  IInv'
BY DEF IInv, Scheduled, Listed, Resting, ArmedTimer, InCache, BeingFired, WillReload

\* A request that has saved will reload, and the listings are marked.
LEMMA SaveKeeps ==
  ASSUME IInv, TypeOK', NEW h \in Handler, NEW j \in Job, NEW q,
         \A k \in Job : ArmedTimer(k)' => ArmedTimer(k) \/ k = j,
         handler' = [Missed(h, j) EXCEPT ![h] = q], q.pc = "reload",
         UNCHANGED <<up, ticker>>
  PROVE  IInv'
<1>1. handler'[h].pc = "reload"
  BY DEF Missed, IInv, TypeOK
<1>2. Scheduled'
  BY <1>1 DEF Scheduled, WillReload
<1>3. ASSUME NEW k \in Handler, handler'[k].pc = "listed"
      PROVE  /\ handler[k].pc = "listed"
             /\ handler'[k].list = handler[k].list
             /\ handler'[k].missed = handler[k].missed \cup {j}
  <2>1. k # h
    BY <1>1, <1>3
  <2>2. handler[k] \in Request
    BY DEF IInv, TypeOK
  <2> QED BY <1>3, <2>1, <2>2 DEF Missed, Request
<1>4. Listed'
  BY <1>3 DEF Listed, IInv
<1> QED BY <1>2, <1>4 DEF IInv, Resting

LEMMA RequestKeeps ==
  ASSUME IInv, TypeOK', NEW h \in Handler, NEW j \in Job,
         \/ CreateJob(h, j) \/ ReadJob(h, j, "read") \/ ReadJob(h, j, "trigger")
         \/ DeleteJob(h, j)
  PROVE  IInv'
<1>0. TypeOK /\ handler[h] \in Request
  BY DEF IInv, TypeOK
<1>1. CASE CreateJob(h, j)
  <2>1. \A k \in Job : ArmedTimer(k)' => ArmedTimer(k) \/ k = j
    BY <1>0, <1>1 DEF CreateJob, Save, TypeOK, ArmedTimer, Armed, Live, Timer
  <2> DEFINE m == Missed(h, j)[h]
  <2> DEFINE q == [m EXCEPT !.pc = "reload"]
  <2>2. m = handler[h]
    BY DEF Missed
  <2>3. handler' = [Missed(h, j) EXCEPT ![h] = q]
    BY <1>1 DEF CreateJob, Missed
  <2>4. q.pc = "reload"
    BY <1>0, <2>2 DEF Request
  <2> HIDE DEF q
  <2> QED BY <1>1, <2>1, <2>3, <2>4, SaveKeeps DEF CreateJob
<1>2. ASSUME NEW pc \in {"read", "trigger"}, ReadJob(h, j, pc) PROVE IInv'
  <2>1. \A k \in Handler \ {h} : handler'[k] = handler[k]
    BY <1>0, <1>2 DEF ReadJob, TypeOK
  <2>2. handler[h].pc = "idle" /\ handler'[h].pc = pc
    BY <1>0, <1>2 DEF ReadJob, Arrive, TypeOK, Request
  <2>3. \A k \in Job : ArmedTimer(k)' <=> ArmedTimer(k)
    BY <1>2 DEF ReadJob, ArmedTimer, Armed, Live, Timer
  <2>4. \A k \in Job : WillReload(k) => WillReload(k)'
    BY <2>1, <2>2 DEF WillReload
  <2>5. Scheduled'
    BY <1>2, <2>3, <2>4 DEF ReadJob, IInv, Scheduled, InCache, BeingFired, ArmedTimer
  <2>6. Listed'
    BY <2>1, <2>2, <2>3 DEF IInv, Listed
  <2> QED BY <1>2, <2>5, <2>6 DEF ReadJob, IInv, Resting
<1>3. CASE DeleteJob(h, j)
  <2>1. \A k \in Job : ArmedTimer(k)' => ArmedTimer(k)
    BY <1>0, <1>3 DEF DeleteJob, TypeOK, Row, ArmedTimer, Armed, Live, Timer
  <2>2. \A k \in Handler \ {h} : handler'[k] = handler[k]
    BY <1>0, <1>3 DEF DeleteJob, TypeOK
  <2>3. handler'[h].pc = "reload"
    BY <1>0, <1>3 DEF DeleteJob, TypeOK, Request
  <2>4. Scheduled'
    BY <2>3 DEF Scheduled, WillReload
  <2>5. Listed'
    BY <2>1, <2>2, <2>3 DEF Listed, IInv
  <2> QED BY <1>3, <2>4, <2>5 DEF IInv, Resting, DeleteJob
<1> QED BY <1>1, <1>2, <1>3

LEMMA RequestStepKeeps ==
  ASSUME IInv, TypeOK', NEW h \in Handler, RequestStep(h)
  PROVE  IInv'
<1>0. TypeOK /\ handler[h] \in Request /\ handler[h].job \in Job
      /\ handler[h].list \in Listing
  BY DEF IInv, TypeOK, Request
<1>1. CASE UpdateJob(h)
  <2>1. \A k \in Job : ArmedTimer(k)' => ArmedTimer(k) \/ k = handler[h].job
    <3>1. PICK r : Save(handler[h].job, r)
      BY <1>1 DEF UpdateJob
    <3> QED BY <1>0, <3>1 DEF Save, TypeOK, ArmedTimer, Armed, Live, Timer
  <2>2. [NoRequest EXCEPT !.pc = "reload"].pc = "reload"
    BY DEF NoRequest
  <2> QED BY <1>0, <1>1, <2>1, <2>2, SaveKeeps DEF UpdateJob
<1>2. CASE FireJob(h)
  <2>1. \A k \in Job : ArmedTimer(k)' => ArmedTimer(k)
    BY <1>0, <1>2, NeverArms DEF FireJob
  <2>2. \A k \in Handler \ {h} : handler'[k] = handler[k]
    BY <1>0, <1>2 DEF FireJob, TypeOK
  <2>3. handler[h].pc = "trigger" /\ handler'[h].pc = "idle"
    BY <1>0, <1>2 DEF FireJob, TypeOK, NoRequest
  <2> QED BY <1>2, <2>1, <2>2, <2>3
          DEF FireJob, IInv, Scheduled, Listed, Resting, InCache, BeingFired, WillReload,
              ArmedTimer
<1>3. CASE ReloadLists(h)
  <2>1. \A k \in Handler \ {h} : handler'[k] = handler[k]
    BY <1>0, <1>3 DEF ReloadLists, TypeOK
  <2>2. handler'[h].pc = "listed" /\ handler'[h].list = ListTimerJobs
    BY <1>0, <1>3 DEF ReloadLists, TypeOK, Request
  <2>3. \A k \in Job : ArmedTimer(k)' => k \in DOMAIN handler'[h].list
    BY <1>3, <2>2 DEF ReloadLists, ListTimerJobs, ArmedTimer, Armed, Live, Timer
  <2>4. \A k \in Job : ArmedTimer(k)' => ArmedTimer(k)
    BY <1>3 DEF ReloadLists, ArmedTimer, Armed, Live, Timer
  <2>5. Scheduled'
    BY <2>2, <2>3 DEF Scheduled, WillReload, ArmedTimer
  <2>6. Listed'
    BY <2>1, <2>3, <2>4 DEF Listed, IInv
  <2> QED BY <1>3, <2>5, <2>6 DEF ReloadLists, IInv, Resting
<1>4. CASE ReloadRebuilds(h)
  <2>1. /\ \A k \in DOMAIN handler[h].list : InCache(k)'
        /\ \A k \in Job : ArmedTimer(k)' => ArmedTimer(k)
    BY <1>0, <1>4, RebuildKeeps DEF ReloadRebuilds
  <2>2. handler[h].pc = "listed" /\ outrun' = handler[h].missed
    BY <1>4 DEF ReloadRebuilds
  <2>3. \A k \in Job : ArmedTimer(k)' => k \in outrun' \/ InCache(k)'
    BY <2>1, <2>2 DEF IInv, Listed
  <2>4. \A k \in Handler \ {h} : handler'[k] = handler[k]
    BY <1>0, <1>4 DEF ReloadRebuilds, TypeOK
  <2>5. handler'[h].pc = "idle"
    BY <1>0, <1>4 DEF ReloadRebuilds, TypeOK, NoRequest
  <2>6. Scheduled'
    BY <2>3 DEF Scheduled, ArmedTimer
  <2>7. Listed'
    BY <2>1, <2>4, <2>5 DEF Listed, IInv
  <2> QED BY <1>4, <2>6, <2>7 DEF ReloadRebuilds, IInv, Resting
<1> QED BY <1>1, <1>2, <1>3, <1>4 DEF RequestStep

LEMMA TickerKeeps ==
  ASSUME IInv, TypeOK', TickerStep
  PROVE  IInv'
<1>0. /\ TypeOK /\ ticker \in Ticker
      /\ ticker.due \in [Job -> Nat] /\ ticker.job \in Job /\ ticker.next \in Time
  BY DEF IInv, TypeOK, Ticker
<1>r. ASSUME NEW due \in [Job -> Nat]
      PROVE  /\ Rest(due).due = due
             /\ Rest(due).pc \in {"wait", "due"}
             /\ Rest(due).pc = "wait" => \A k \in Job : due[k] = 0
  BY <1>0 DEF Rest, Ticker, NothingDue
<1>1. CASE Tick
  <2> DEFINE due == [k \in Job |-> cache[<<k, 0>>]]
  <2>1. due \in [Job -> Nat]
    BY <1>0, TimerJobsAssumption DEF TypeOK
  <2>2. ticker' = Rest(due) /\ ticker.pc = "wait"
    BY <1>1 DEF Tick
  <2>3. ASSUME NEW k \in Job, InCache(k)
        PROVE  InCache(k)' \/ BeingFired(k)'
    <3>1. PICK t \in 0..Period : cache[<<k, t>>] > 0
      BY <2>3 DEF InCache
    <3>2. CASE t = 0
      <4>1. due[k] > 0 /\ ticker'.due = due
        BY <3>1, <3>2, <2>1, <2>2, <1>r
      <4> QED BY <4>1 DEF BeingFired
    <3>3. CASE t # 0
      <4>1. <<k, t>> \in DOMAIN cache
        BY <1>0 DEF TypeOK
      <4>2. cache'[<<k, t>>] = cache[<<k, t>>]
        BY <1>1, <3>3, <4>1 DEF Tick
      <4> QED BY <3>1, <4>2 DEF InCache
    <3> QED BY <3>2, <3>3
  <2>4. \A k \in Job : ~BeingFired(k)
    BY <2>2 DEF IInv, Resting, BeingFired
  <2>5. Resting'
    BY <2>1, <2>2, <1>r DEF Resting
  <2> QED BY <1>1, <2>3, <2>4, <2>5
          DEF Tick, IInv, Scheduled, Listed, WillReload, ArmedTimer, Armed, Live, Timer
<1>2. ASSUME NEW j \in Job, TakeDue(j) PROVE IInv'
  <2> DEFINE left == [ticker.due EXCEPT ![j] = @ - 1]
  <2>1. left \in [Job -> Nat] /\ ticker.pc = "due"
    BY <1>0, <1>2 DEF TakeDue
  <2>2. ASSUME NEW k \in Job, Armed(k), BeingFired(k)
        PROVE  BeingFired(k)'
    <3>1. ticker.due[k] > 0
      BY <2>1, <2>2 DEF BeingFired
    <3>2. CASE Armed(j)
      <4>1. ticker' = [ticker EXCEPT !.pc = "read", !.due = left, !.job = j]
        BY <1>2, <3>2 DEF TakeDue
      <4>2. ticker'.pc = "read" /\ ticker'.due = left /\ ticker'.job = j
        BY <1>0, <4>1 DEF Ticker
      <4> QED BY <1>0, <3>1, <4>2 DEF BeingFired
    <3>3. CASE ~Armed(j)
      <4>1. ticker'.due = left /\ k # j
        BY <1>2, <2>1, <2>2, <3>3, <1>r DEF TakeDue
      <4> QED BY <1>0, <3>1, <4>1 DEF BeingFired
    <3> QED BY <3>2, <3>3
  <2>3. Resting'
    <3>1. CASE Armed(j)
      <4>1. ticker'.pc = "read"
        BY <1>0, <1>2, <3>1 DEF TakeDue, Ticker
      <4> QED BY <4>1 DEF Resting
    <3>2. CASE ~Armed(j)
      BY <1>2, <2>1, <3>2, <1>r DEF TakeDue, Resting
    <3> QED BY <3>1, <3>2
  <2> QED BY <1>2, <2>2, <2>3
          DEF TakeDue, IInv, Scheduled, Listed, InCache, WillReload, ArmedTimer, Armed, Live, Timer
<1>3. CASE FireTimerJob
  <2>1. ticker.pc = "read" /\ ticker' = [ticker EXCEPT !.pc = "fired"]
    BY <1>3 DEF FireTimerJob
  <2>2. ticker'.pc = "fired" /\ ticker'.due = ticker.due /\ ticker'.job = ticker.job
    BY <1>0, <2>1 DEF Ticker
  <2> QED BY <1>3, <2>1, <2>2
          DEF FireTimerJob, IInv, Scheduled, Listed, Resting, InCache, BeingFired, WillReload,
              ArmedTimer, Armed, Live, Timer
<1>4. CASE Refire
  <2>0. ticker.pc = "fired"
    BY <1>4 DEF Refire
  <2>1. CASE Once(ticker.job)
    <3>1. /\ IncrementFired(ticker.job, Past, TRUE)
          /\ ticker' = Rest(ticker.due)
      BY <1>4, <2>1 DEF Refire
    <3>2. \A k \in Job : ArmedTimer(k)' => ArmedTimer(k) /\ k # ticker.job
      BY <1>0, <3>1, NeverArms
    <3>3. ASSUME NEW k \in Job, k # ticker.job, BeingFired(k) PROVE BeingFired(k)'
      BY <1>0, <3>1, <3>3, <1>r DEF BeingFired
    <3>4. Resting'
      BY <1>0, <3>1, <1>r DEF Resting
    <3> QED BY <1>4, <3>2, <3>3, <3>4
            DEF Refire, IInv, Scheduled, Listed, InCache, WillReload, ArmedTimer
  <2>2. CASE ~Once(ticker.job)
    <3>1. PICK d \in NextFireTime :
            /\ IncrementFired(ticker.job, Later(d, ticker.age), FALSE)
            /\ ticker' = [ticker EXCEPT !.pc = "append", !.next = Later(d, ticker.age)]
      BY <1>4, <2>2 DEF Refire
    <3>2. \A k \in Job : ArmedTimer(k)' => ArmedTimer(k)
      BY <1>0, <3>1, NeverArms
    <3>3. ticker'.pc = "append" /\ ticker'.due = ticker.due /\ ticker'.job = ticker.job
      BY <1>0, <3>1 DEF Ticker
    <3>4. Resting' /\ \A k \in Job : BeingFired(k) => BeingFired(k)'
      BY <2>0, <3>3 DEF Resting, BeingFired
    <3> QED BY <1>4, <3>2, <3>4
            DEF Refire, IInv, Scheduled, Listed, InCache, WillReload, ArmedTimer
  <2> QED BY <2>1, <2>2
<1>5. CASE Append
  <2> DEFINE at == IF ticker.next = Past THEN 0 ELSE ticker.next
  <2>1. at \in 0..Period /\ ticker.pc = "append"
    BY <1>0, <1>5, TimerJobsAssumption DEF Append, Time, Past
  <2>2. cache' = [cache EXCEPT ![<<ticker.job, at>>] = @ + 1] /\ ticker' = Rest(ticker.due)
    BY <1>5 DEF Append
  <2> HIDE DEF at
  <2>3. ASSUME NEW k \in Job, InCache(k) PROVE InCache(k)'
    <3>1. PICK t \in 0..Period : cache[<<k, t>>] > 0
      BY <2>3 DEF InCache
    <3>2. cache'[<<k, t>>] > 0
      BY <1>0, <2>1, <2>2, <3>1 DEF TypeOK
    <3> QED BY <3>2 DEF InCache
  <2>4. ASSUME NEW k \in Job, k = ticker.job PROVE InCache(k)'
    <3>1. cache'[<<k, at>>] > 0
      BY <1>0, <2>1, <2>2, <2>4 DEF TypeOK
    <3> QED BY <2>1, <3>1 DEF InCache
  <2>5. ASSUME NEW k \in Job, k # ticker.job, BeingFired(k) PROVE BeingFired(k)'
    BY <1>0, <2>2, <2>5, <1>r DEF BeingFired
  <2>6. Resting'
    BY <1>0, <2>2, <1>r DEF Resting
  <2>7. \A k \in Job : InCache(k) \/ BeingFired(k) => InCache(k)' \/ BeingFired(k)'
    BY <2>3, <2>4, <2>5
  <2> QED BY <1>5, <2>6, <2>7
          DEF Append, IInv, Scheduled, Listed, WillReload, ArmedTimer, Armed, Live, Timer
<1> QED BY <1>1, <1>2, <1>3, <1>4, <1>5 DEF TickerStep

LEMMA EventKeeps ==
  ASSUME IInv, TypeOK', NEW d \in Delivery, Deliver(d) \/ EventStep(d)
  PROVE  IInv'
<1>0. TypeOK /\ delivery[d].job \in Job
  BY DEF IInv, TypeOK, Serving
<1>1. CASE Deliver(d)
  BY <1>1, StayScheduled DEF Deliver, ArmedTimer, Armed, Live, Timer
<1>2. ASSUME NEW j \in Job, FireEventJob(d, j) PROVE IInv'
  BY <1>2, StayScheduled DEF FireEventJob, ArmedTimer, Armed, Live, Timer
<1>3. CASE EventJobFired(d)
  <2>1. \A k \in Job : ArmedTimer(k)' => ArmedTimer(k)
    BY <1>0, <1>3, NeverArms DEF EventJobFired, Once
  <2> QED BY <1>3, <2>1, StayScheduled DEF EventJobFired
<1> QED BY <1>1, <1>2, <1>3 DEF EventStep

\* What a unit of time leaves of the rows, the cache, the ticker and the requests.
LEMMA AdvanceParts ==
  ASSUME TypeOK, Advance
  PROVE  /\ \A j \in Job : /\ row'[j].state = row[j].state
                           /\ row'[j].trigger = row[j].trigger
                           /\ row'[j].type = row[j].type
                           /\ row'[j].enabled = row[j].enabled
         /\ \A j \in Job, t \in 0..Period :
              cache'[<<j, t>>] = (IF t = 0 THEN cache[<<j, t>>] ELSE 0)
                                   + IF t = Period THEN 0 ELSE cache[<<j, t + 1>>]
         /\ ticker'.pc = ticker.pc /\ ticker'.due = ticker.due /\ ticker'.job = ticker.job
         /\ \A h \in Handler :
              /\ handler'[h].pc = handler[h].pc
              /\ handler'[h].job = handler[h].job
              /\ handler'[h].missed = handler[h].missed
              /\ handler'[h].copy.state = handler[h].copy.state
              /\ handler'[h].copy.trigger = handler[h].copy.trigger
              /\ handler'[h].copy.type = handler[h].copy.type
              /\ DOMAIN handler'[h].list = DOMAIN handler[h].list
<1>1. ASSUME NEW j \in Job
      PROVE  /\ row'[j].state = row[j].state
             /\ row'[j].trigger = row[j].trigger
             /\ row'[j].type = row[j].type
             /\ row'[j].enabled = row[j].enabled
  <2>1. row[j] \in Row /\ row'[j] = [row[j] EXCEPT !.next = Nearer(@)]
    BY DEF Advance, TypeOK
  <2> QED BY <2>1 DEF Row
<1>2. ASSUME NEW j \in Job, NEW t \in 0..Period
      PROVE  cache'[<<j, t>>] = (IF t = 0 THEN cache[<<j, t>>] ELSE 0)
                                  + IF t = Period THEN 0 ELSE cache[<<j, t + 1>>]
  <2> DEFINE e == <<j, t>>
  <2>1. e \in DOMAIN cache /\ e[1] = j /\ e[2] = t
    BY DEF TypeOK
  <2>2. cache'[e] = (IF e[2] = 0 THEN cache[e] ELSE 0)
                      + IF e[2] = Period THEN 0 ELSE cache[<<e[1], e[2] + 1>>]
    <3> HIDE DEF e
    <3> QED BY <2>1 DEF Advance
  <2> QED BY <2>1, <2>2
<1>3. ticker'.pc = ticker.pc /\ ticker'.due = ticker.due /\ ticker'.job = ticker.job
  <2>1. ticker \in Ticker
    BY DEF TypeOK
  <2> QED BY <2>1 DEF Advance, Ticker
<1>4. ASSUME NEW h \in Handler
      PROVE  /\ handler'[h].pc = handler[h].pc
             /\ handler'[h].job = handler[h].job
             /\ handler'[h].missed = handler[h].missed
             /\ handler'[h].copy.state = handler[h].copy.state
             /\ handler'[h].copy.trigger = handler[h].copy.trigger
             /\ handler'[h].copy.type = handler[h].copy.type
             /\ DOMAIN handler'[h].list = DOMAIN handler[h].list
  <2> DEFINE q == handler[h]
  <2> DEFINE copy == [q.copy EXCEPT !.next = Nearer(q.copy.next)]
  <2> DEFINE list == [j \in DOMAIN q.list |-> Nearer(q.list[j])]
  <2>1. q \in Request /\ q.copy \in Row
    BY DEF TypeOK, Request
  <2>2. handler'[h] = [q EXCEPT !.copy = copy, !.list = list]
    BY <2>1 DEF Advance, Request, Row
  <2>3. /\ copy.state = q.copy.state
        /\ copy.trigger = q.copy.trigger /\ copy.type = q.copy.type
    BY <2>1 DEF Row
  <2>4. DOMAIN list = DOMAIN q.list
    OBVIOUS
  <2> HIDE DEF q, copy, list
  <2>5. /\ handler'[h].pc = q.pc /\ handler'[h].job = q.job
        /\ handler'[h].missed = q.missed
        /\ handler'[h].copy = copy /\ handler'[h].list = list
    BY <2>1, <2>2 DEF Request
  <2> QED BY <2>3, <2>4, <2>5 DEF q
<1> QED BY <1>1, <1>2, <1>3, <1>4

LEMMA AdvanceKeeps ==
  ASSUME IInv, TypeOK', Advance
  PROVE  IInv'
<1>0. TypeOK /\ ticker \in Ticker
  BY DEF IInv, TypeOK
<1>1. \A j \in Job : ArmedTimer(j)' => ArmedTimer(j)
  BY <1>0, AdvanceParts DEF ArmedTimer, Armed, Live, Timer
<1>2. ASSUME NEW j \in Job, InCache(j) PROVE InCache(j)'
  <2>0. ASSUME NEW t \in 0..Period
        PROVE  cache'[<<j, t>>] = (IF t = 0 THEN cache[<<j, t>>] ELSE 0)
                                    + IF t = Period THEN 0 ELSE cache[<<j, t + 1>>]
    BY <1>0, AdvanceParts
  <2>1. PICK t \in 0..Period : cache[<<j, t>>] > 0
    BY <1>2 DEF InCache
  <2>2. CASE t = 0
    <3>1. 0 \in 0..Period /\ 0 # Period /\ 0 + 1 = 1
      BY TimerJobsAssumption
    <3>2. cache'[<<j, 0>>] = cache[<<j, 0>>] + cache[<<j, 1>>]
      BY <2>0, <3>1
    <3>3. cache[<<j, 1>>] \in Nat /\ cache[<<j, 0>>] \in Nat
      BY <1>0, TimerJobsAssumption DEF TypeOK
    <3> QED BY <2>1, <2>2, <3>2, <3>3 DEF InCache
  <2>3. CASE t # 0
    <3>1. t - 1 \in 0..Period /\ t - 1 # Period /\ (t - 1) + 1 = t
      BY <2>3, TimerJobsAssumption
    <3>2. cache'[<<j, t - 1>>] = (IF t - 1 = 0 THEN cache[<<j, t - 1>>] ELSE 0) + cache[<<j, t>>]
      BY <2>0, <3>1
    <3>3. cache[<<j, t - 1>>] \in Nat /\ cache[<<j, t>>] \in Nat
      BY <1>0, <3>1 DEF TypeOK
    <3>4. cache'[<<j, t - 1>>] > 0
      BY <2>1, <3>2, <3>3
    <3> QED BY <3>1, <3>4 DEF InCache
  <2> QED BY <2>2, <2>3
<1>3. ticker'.pc = ticker.pc /\ ticker'.due = ticker.due /\ ticker'.job = ticker.job
  BY <1>0, AdvanceParts
<1>4. ASSUME NEW h \in Handler
      PROVE  /\ handler'[h].pc = handler[h].pc /\ handler'[h].missed = handler[h].missed
             /\ DOMAIN handler'[h].list = DOMAIN handler[h].list
  BY <1>0, AdvanceParts
<1>5. Scheduled'
  <2>1. \A j \in Job : WillReload(j) => WillReload(j)'
    BY <1>4 DEF WillReload
  <2>2. \A j \in Job : BeingFired(j) => BeingFired(j)'
    BY <1>3 DEF BeingFired
  <2>3. up' = up /\ outrun' = outrun
    BY DEF Advance
  <2> QED BY <1>1, <1>2, <2>1, <2>2, <2>3 DEF IInv, Scheduled, ArmedTimer
<1>6. Listed'
  BY <1>1, <1>4 DEF IInv, Listed
<1>7. Resting'
  BY <1>3 DEF IInv, Resting
<1> QED BY <1>5, <1>6, <1>7 DEF IInv

LEMMA NewKeeps ==
  ASSUME IInv, TypeOK', New
  PROVE  IInv'
<1>1. ListTimerJobs \in Listing
  <2>1. ListTimerJobs \in [{k \in Job : Armed(k) /\ Timer(k)} -> Time]
    BY DEF IInv, ListTimerJobs, TypeOK, Row
  <2> QED BY <2>1, ListingType
<1>2. /\ \A k \in DOMAIN ListTimerJobs : InCache(k)'
      /\ \A k \in Job : ArmedTimer(k)' => ArmedTimer(k)
  BY <1>1, RebuildKeeps DEF New, IInv
<1>3. \A k \in Job : ArmedTimer(k)' => InCache(k)'
  BY <1>2 DEF ListTimerJobs, ArmedTimer
<1> QED BY <1>2, <1>3 DEF New, IInv, Scheduled, Listed, Resting, ArmedTimer

LEMMA IInvNext == IInv /\ [Next]_vars => IInv'
<1> SUFFICES ASSUME IInv, [Next]_vars PROVE IInv'
  OBVIOUS
<1>0. TypeOK'
  BY TypeNext DEF IInv
<1>1. CASE UNCHANGED vars
  BY <1>0, <1>1, StayScheduled DEF vars, ArmedTimer, Armed, Live, Timer
<1>2. CASE Crash
  <2>1. ~up' /\ ticker' = Waiting /\ handler' = [h \in Handler |-> NoRequest]
    BY <1>2 DEF Crash
  <2> QED BY <1>0, <2>1 DEF IInv, Scheduled, Listed, Resting, Waiting, NothingDue, NoRequest
<1>3. CASE Next /\ ~Crash
  BY <1>0, <1>3, NewKeeps, RequestKeeps, RequestStepKeeps, TickerKeeps, EventKeeps,
     AdvanceKeeps DEF Next
<1> QED BY <1>1, <1>2, <1>3

\* While the plugin runs, every enabled timer job is in the cache, being fired
\* or about to be listed by a reload, unless a reload that listed before the
\* job was saved has rebuilt the cache after it (scheduler.go:95, 102).
THEOREM NoTimerLost == Spec => []Scheduled
<1>1. IInv => Scheduled
  BY DEF IInv
<1> QED BY IInvInit, IInvNext, <1>1, PTL DEF Spec

(***************************************************************************)
(* A job that has been created keeps its trigger and its type, and only    *)
(* timer jobs come into the cache, the ticker and the listings, only event *)
(* jobs into what the events fire.                                         *)
(***************************************************************************)
Known(j) == row[j].state # "none"
KnownTimer(j) == Known(j) /\ Timer(j)
KnownEvent(j) == Known(j) /\ ~Timer(j)
Holds(t, j) == t.pc \in {"read", "fired", "append"} /\ t.job = j

CacheKinds(c) == \A j \in Job, t \in 0..Period : c[<<j, t>>] > 0 => KnownTimer(j)

TickerKinds(t) == \A j \in Job : t.due[j] > 0 \/ Holds(t, j) => KnownTimer(j)

RequestKinds(q) ==
  /\ \A j \in DOMAIN q.list : KnownTimer(j)
  /\ q.pc = "read" => /\ Known(q.job)
                      /\ q.copy.state # "none"
                      /\ q.copy.trigger = row[q.job].trigger
                      /\ q.copy.type = row[q.job].type

EventKinds(e) ==
  /\ \A j \in e.todo : KnownEvent(j)
  /\ e.pc = "fired" => KnownEvent(e.job) /\ e.job \notin e.todo
  /\ e.pc = "idle" => e.todo = {}

KInv ==
  /\ TypeOK
  /\ CacheKinds(cache)
  /\ TickerKinds(ticker)
  /\ \A h \in Handler : RequestKinds(handler[h])
  /\ \A d \in Delivery : EventKinds(delivery[d])

KindsStay ==
  \A j \in Job : Known(j) => /\ Known(j)'
                             /\ row'[j].trigger = row[j].trigger
                             /\ row'[j].type = row[j].type

LEMMA KindsInit == Init => KInv
<1> SUFFICES ASSUME Init PROVE KInv
  OBVIOUS
<1>1. CacheKinds(cache)
  BY DEF Init, NoEntries, CacheKinds
<1>2. TickerKinds(ticker)
  BY DEF Init, Waiting, NothingDue, TickerKinds, Holds
<1>3. \A h \in Handler : RequestKinds(handler[h])
  BY DEF Init, NoRequest, NoListing, RequestKinds
<1>4. \A d \in Delivery : EventKinds(delivery[d])
  BY DEF Init, NoEvent, EventKinds
<1> QED BY <1>1, <1>2, <1>3, <1>4, TypeInit DEF KInv

\* What the kinds of the jobs before a step allow, those after it do.
LEMMA KindsLift ==
  ASSUME TypeOK, TypeOK', KindsStay,
         CacheKinds(cache'), TickerKinds(ticker'),
         \A h \in Handler : RequestKinds(handler'[h]),
         \A d \in Delivery : EventKinds(delivery'[d])
  PROVE  KInv'
<1>0. \A j \in Job : /\ KnownTimer(j) => KnownTimer(j)'
                     /\ KnownEvent(j) => KnownEvent(j)'
  BY DEF KindsStay, KnownTimer, KnownEvent, Timer
<1>1. CacheKinds(cache)'
  BY <1>0 DEF CacheKinds
<1>2. TickerKinds(ticker)'
  BY <1>0 DEF TickerKinds
<1>3. ASSUME NEW h \in Handler PROVE RequestKinds(handler[h])'
  <2>1. DOMAIN handler'[h].list \subseteq Job /\ handler'[h].job \in Job
    BY ListingElim DEF TypeOK, Request, Listing
  <2> QED BY <1>0, <2>1 DEF RequestKinds, KindsStay
<1>4. ASSUME NEW d \in Delivery PROVE EventKinds(delivery[d])'
  <2>1. delivery'[d].todo \subseteq Job /\ delivery'[d].job \in Job
    BY DEF TypeOK, Serving
  <2> QED BY <1>0, <2>1 DEF EventKinds
<1> QED BY <1>1, <1>2, <1>3, <1>4 DEF KInv

LEMMA RebuildKinds ==
  ASSUME TypeOK, NEW list \in Listing, Rebuild(list),
         \A j \in DOMAIN list : KnownTimer(j)
  PROVE  KindsStay /\ CacheKinds(cache')
<1>1. PICK again \in [Overdue(list) -> NextFireTime] :
        /\ cache' = [e \in DOMAIN cache |->
                       IF e[1] \in DOMAIN list
                            /\ (IF e[1] \in Overdue(list) THEN again[e[1]] ELSE list[e[1]]) = e[2]
                         THEN 1 ELSE 0]
        /\ row' = [j \in Job |->
                     IF j \in Overdue(list) /\ Live(j)
                       THEN [row[j] EXCEPT !.next = again[j]] ELSE row[j]]
  BY DEF Rebuild
<1>2. ASSUME NEW j \in Job
      PROVE  /\ row'[j].state = row[j].state
             /\ row'[j].trigger = row[j].trigger
             /\ row'[j].type = row[j].type
  <2>1. row[j] \in Row
    BY DEF TypeOK
  <2> QED BY <1>1, <2>1 DEF Row
<1>3. ASSUME NEW j \in Job, NEW t \in 0..Period, cache'[<<j, t>>] > 0
      PROVE  j \in DOMAIN list
  <2>1. <<j, t>> \in DOMAIN cache
    BY DEF TypeOK
  <2> QED BY <1>1, <1>3, <2>1
<1> QED BY <1>2, <1>3 DEF KindsStay, Known, CacheKinds

LEMMA IncrementKinds ==
  ASSUME TypeOK, NEW j \in Job, NEW next, NEW disable \in BOOLEAN,
         IncrementFired(j, next, disable)
  PROVE  KindsStay
<1> SUFFICES ASSUME NEW k \in Job
             PROVE  /\ row'[k].state = row[k].state
                    /\ row'[k].trigger = row[k].trigger
                    /\ row'[k].type = row[k].type
  BY DEF KindsStay, Known
<1>1. row[k] \in Row /\ row[j] \in Row
  BY DEF TypeOK
<1>2. CASE ~Live(j) \/ k # j
  BY <1>2 DEF IncrementFired, TypeOK
<1>3. CASE Live(j) /\ k = j
  <2>1. row'[j] = [row[j] EXCEPT !.next = next, !.enabled = @ /\ ~disable]
    BY <1>3 DEF IncrementFired, TypeOK, Row
  <2> QED BY <1>1, <1>3, <2>1 DEF Row
<1> QED BY <1>2, <1>3

LEMMA SameRowKinds ==
  ASSUME row' = row
  PROVE  KindsStay
BY DEF KindsStay, Known

\* A listing of the timer jobs has timer jobs.
LEMMA ListKinds ==
  ASSUME TypeOK
  PROVE  ListTimerJobs \in Listing /\ \A j \in DOMAIN ListTimerJobs : KnownTimer(j)
<1>1. ListTimerJobs \in [{k \in Job : Armed(k) /\ Timer(k)} -> Time]
  BY DEF ListTimerJobs, TypeOK, Row
<1>2. ListTimerJobs \in Listing
  BY <1>1, ListingType
<1>3. \A j \in DOMAIN ListTimerJobs : KnownTimer(j)
  BY DEF ListTimerJobs, Armed, Live, KnownTimer, Known
<1> QED BY <1>2, <1>3

LEMMA MissedKinds ==
  ASSUME KInv, NEW h \in Handler, NEW j \in Job, NEW k \in Handler
  PROVE  RequestKinds(Missed(h, j)[k])
<1>1. handler[k] \in Request /\ RequestKinds(handler[k])
  BY DEF KInv, TypeOK
<1>2. CASE k # h /\ handler[k].pc = "listed"
  <2>1. Missed(h, j)[k] = [handler[k] EXCEPT !.missed = @ \cup {j}]
    BY <1>2 DEF Missed
  <2> QED BY <1>1, <1>2, <2>1 DEF RequestKinds, Request
<1>3. CASE ~(k # h /\ handler[k].pc = "listed")
  BY <1>1, <1>3 DEF Missed
<1> QED BY <1>2, <1>3

LEMMA RequestKind ==
  ASSUME KInv, TypeOK', NEW h \in Handler, NEW j \in Job,
         \/ CreateJob(h, j) \/ ReadJob(h, j, "read") \/ ReadJob(h, j, "trigger")
         \/ DeleteJob(h, j)
  PROVE  KInv'
<1>0. TypeOK /\ handler[h] \in Request /\ RequestKinds(handler[h])
  BY DEF KInv, TypeOK
<1>1. CASE CreateJob(h, j)
  <2>1. KindsStay
    BY <1>0, <1>1 DEF CreateJob, Save, TypeOK, KindsStay, Known
  <2> DEFINE m == Missed(h, j)
  <2>2. m[h] = handler[h] /\ m \in [Handler -> Request]
    BY <1>0, MissedType DEF Missed
  <2>3. handler' = [m EXCEPT ![h].pc = "reload"]
    BY <1>1 DEF CreateJob
  <2>4. \A k \in Handler : RequestKinds(m[k])
    BY MissedKinds
  <2> HIDE DEF m
  <2>5. \A k \in Handler : RequestKinds(handler'[k])
    BY <1>0, <2>2, <2>3, <2>4 DEF RequestKinds, Request
  <2> QED BY <1>0, <1>1, <2>1, <2>5, KindsLift DEF CreateJob, KInv
<1>2. ASSUME NEW pc \in {"read", "trigger"}, ReadJob(h, j, pc) PROVE KInv'
  <2>1. \A k \in Handler \ {h} : handler'[k] = handler[k]
    BY <1>0, <1>2 DEF ReadJob, TypeOK
  <2>2. handler'[h] = [handler[h] EXCEPT !.pc = pc, !.job = j, !.copy = row[j]]
    BY <1>0, <1>2 DEF ReadJob, TypeOK, Request
  <2>3. RequestKinds(handler'[h])
    <3>1. Known(j)
      BY <1>2 DEF ReadJob, Live, Known
    <3>2. /\ handler'[h].list = handler[h].list /\ handler'[h].job = j
          /\ handler'[h].copy = row[j]
      BY <1>0, <2>2 DEF Request
    <3> QED BY <1>0, <3>1, <3>2 DEF RequestKinds, Known
  <2>4. \A k \in Handler : RequestKinds(handler'[k])
    BY <2>1, <2>3 DEF KInv
  <2> QED BY <1>0, <1>2, <2>4, KindsLift, SameRowKinds DEF ReadJob, KInv
<1>3. CASE DeleteJob(h, j)
  <2>1. KindsStay
    <3> SUFFICES ASSUME NEW k \in Job, Known(k)
                 PROVE  /\ row'[k].state # "none"
                        /\ row'[k].trigger = row[k].trigger
                        /\ row'[k].type = row[k].type
      BY DEF KindsStay, Known
    <3>1. row[k] \in Row
      BY <1>0 DEF TypeOK
    <3> QED BY <1>0, <1>3, <3>1 DEF DeleteJob, TypeOK, Row, Known
  <2>2. \A k \in Handler : RequestKinds(handler'[k])
    <3>1. \A k \in Handler \ {h} : handler'[k] = handler[k]
      BY <1>0, <1>3 DEF DeleteJob, TypeOK
    <3>2. handler'[h].pc = "reload" /\ handler'[h].list = handler[h].list
      BY <1>0, <1>3 DEF DeleteJob, TypeOK, Request
    <3>3. RequestKinds(handler'[h])
      BY <1>0, <3>2 DEF RequestKinds
    <3> QED BY <3>1, <3>3 DEF KInv
  <2> QED BY <1>0, <1>3, <2>1, <2>2, KindsLift DEF DeleteJob, KInv
<1> QED BY <1>1, <1>2, <1>3

LEMMA RequestStepKind ==
  ASSUME KInv, TypeOK', NEW h \in Handler, RequestStep(h)
  PROVE  KInv'
<1>0. /\ TypeOK /\ handler[h] \in Request /\ RequestKinds(handler[h])
      /\ handler[h].job \in Job /\ handler[h].list \in Listing
      /\ \A j \in DOMAIN handler[h].list : KnownTimer(j)
  BY DEF KInv, TypeOK, Request, RequestKinds
<1>n. RequestKinds(NoRequest) /\ RequestKinds([NoRequest EXCEPT !.pc = "reload"])
  BY DEF NoRequest, NoListing, RequestKinds
<1>1. CASE UpdateJob(h)
  <2> DEFINE j == handler[h].job
  <2> DEFINE copy == handler[h].copy
  <2>1. Known(j) /\ copy.trigger = row[j].trigger /\ copy.type = row[j].type
    BY <1>0, <1>1 DEF UpdateJob, RequestKinds
  <2>2. PICK next, enabled : Save(j, [copy EXCEPT !.next = next, !.enabled = enabled])
    BY <1>1 DEF UpdateJob
  <2>3. copy \in Row /\ copy.state # "none"
    BY <1>0, <1>1 DEF UpdateJob, RequestKinds, Request
  <2>4. KindsStay
    BY <1>0, <2>1, <2>2, <2>3 DEF Save, TypeOK, Row, KindsStay, Known
  <2>5. \A k \in Handler : RequestKinds(handler'[k])
    <3> DEFINE m == Missed(h, handler[h].job)
    <3>1. m \in [Handler -> Request] /\ \A k \in Handler : RequestKinds(m[k])
      BY <1>0, MissedType, MissedKinds
    <3>2. handler' = [m EXCEPT ![h] = [NoRequest EXCEPT !.pc = "reload"]]
      BY <1>1 DEF UpdateJob
    <3> HIDE DEF m
    <3> QED BY <1>n, <3>1, <3>2
  <2> QED BY <1>0, <1>1, <2>4, <2>5, KindsLift DEF UpdateJob, KInv
<1>2. CASE FireJob(h)
  <2>1. KindsStay
    BY <1>0, <1>2, IncrementKinds DEF FireJob
  <2>2. \A k \in Handler : RequestKinds(handler'[k])
    BY <1>0, <1>2, <1>n DEF FireJob, KInv, TypeOK
  <2> QED BY <1>0, <1>2, <2>1, <2>2, KindsLift DEF FireJob, KInv
<1>3. CASE ReloadLists(h)
  <2>1. \A k \in Handler \ {h} : handler'[k] = handler[k]
    BY <1>0, <1>3 DEF ReloadLists, TypeOK
  <2>2. handler'[h].pc = "listed" /\ handler'[h].list = ListTimerJobs
    BY <1>0, <1>3 DEF ReloadLists, TypeOK, Request
  <2>3. RequestKinds(handler'[h])
    BY <1>0, <2>2, ListKinds DEF RequestKinds
  <2>4. \A k \in Handler : RequestKinds(handler'[k])
    BY <2>1, <2>3 DEF KInv
  <2> QED BY <1>0, <1>3, <2>4, KindsLift, SameRowKinds DEF ReloadLists, KInv
<1>4. CASE ReloadRebuilds(h)
  <2>1. KindsStay /\ CacheKinds(cache')
    BY <1>0, <1>4, RebuildKinds DEF ReloadRebuilds
  <2>2. \A k \in Handler : RequestKinds(handler'[k])
    BY <1>0, <1>4, <1>n DEF ReloadRebuilds, KInv, TypeOK
  <2> QED BY <1>0, <1>4, <2>1, <2>2, KindsLift DEF ReloadRebuilds, KInv
<1> QED BY <1>1, <1>2, <1>3, <1>4 DEF RequestStep

\* What the ticker has taken, and no more, stays taken.
LEMMA RestHolds ==
  ASSUME TypeOK, NEW due \in [Job -> Nat]
  PROVE  /\ Rest(due).due = due
         /\ Rest(due).pc \in {"wait", "due"}
         /\ Rest(due).pc = "wait" => \A k \in Job : due[k] = 0
         /\ \A k \in Job : ~Holds(Rest(due), k)
BY DEF Rest, TypeOK, Ticker, NothingDue, Holds

LEMMA TickerKind ==
  ASSUME KInv, TypeOK', TickerStep
  PROVE  KInv'
<1>0. /\ TypeOK /\ ticker \in Ticker /\ TickerKinds(ticker) /\ CacheKinds(cache)
      /\ ticker.due \in [Job -> Nat] /\ ticker.job \in Job /\ ticker.next \in Time
  BY DEF KInv, TypeOK, Ticker
<1>l. ASSUME KindsStay, CacheKinds(cache'), TickerKinds(ticker'),
             UNCHANGED <<handler, delivery>>
      PROVE  KInv'
  BY <1>0, <1>l, KindsLift DEF KInv
<1>s. ASSUME TickerKinds(ticker), ticker'.due = ticker.due, ticker'.job = ticker.job,
             ticker.pc \in {"read", "fired", "append"}
      PROVE  TickerKinds(ticker')
  BY <1>s DEF TickerKinds, Holds
<1>r. ASSUME NEW due \in [Job -> Nat], \A k \in Job : due[k] > 0 => KnownTimer(k),
             ticker' = Rest(due)
      PROVE  TickerKinds(ticker')
  BY <1>0, <1>r, RestHolds DEF TickerKinds
<1>1. CASE Tick
  <2> DEFINE due == [k \in Job |-> cache[<<k, 0>>]]
  <2>1. due \in [Job -> Nat] /\ 0 \in 0..Period
    BY <1>0, TimerJobsAssumption DEF TypeOK
  <2>2. \A k \in Job : due[k] > 0 => KnownTimer(k)
    BY <1>0, <2>1 DEF CacheKinds
  <2>3. ticker' = Rest(due)
    BY <1>1 DEF Tick
  <2> HIDE DEF due
  <2>4. TickerKinds(ticker')
    BY <2>1, <2>2, <2>3, <1>r
  <2>5. CacheKinds(cache')
    <3> SUFFICES ASSUME NEW k \in Job, NEW t \in 0..Period, cache'[<<k, t>>] > 0
                 PROVE  cache[<<k, t>>] > 0
      BY <1>0 DEF CacheKinds
    <3>1. <<k, t>> \in DOMAIN cache
      BY <1>0 DEF TypeOK
    <3> QED BY <1>1, <3>1 DEF Tick
  <2> QED BY <1>1, <1>l, <2>4, <2>5, SameRowKinds DEF Tick
<1>2. ASSUME NEW j \in Job, TakeDue(j) PROVE KInv'
  <2> DEFINE left == [ticker.due EXCEPT ![j] = @ - 1]
  <2>1. left \in [Job -> Nat] /\ ticker.due[j] > 0
    BY <1>0, <1>2 DEF TakeDue
  <2>2. \A k \in Job : left[k] > 0 => KnownTimer(k)
    BY <1>0, <2>1 DEF TickerKinds
  <2>3. KnownTimer(j)
    BY <1>0, <2>1 DEF TickerKinds
  <2>4. TickerKinds(ticker')
    <3>1. CASE Armed(j)
      <4>1. ticker' = [ticker EXCEPT !.pc = "read", !.due = left, !.job = j]
        BY <1>2, <3>1 DEF TakeDue
      <4> HIDE DEF left
      <4>2. ticker'.pc = "read" /\ ticker'.due = left /\ ticker'.job = j
        BY <1>0, <4>1 DEF Ticker
      <4> QED BY <2>2, <2>3, <4>2 DEF TickerKinds, Holds
    <3>2. CASE ~Armed(j)
      <4>1. ticker' = Rest(left)
        BY <1>2, <3>2 DEF TakeDue
      <4> HIDE DEF left
      <4> QED BY <2>1, <2>2, <4>1, <1>r
    <3> QED BY <3>1, <3>2
  <2> QED BY <1>0, <1>2, <1>l, <2>4, SameRowKinds DEF TakeDue
<1>3. CASE FireTimerJob
  <2>1. ticker'.due = ticker.due /\ ticker'.job = ticker.job /\ ticker.pc = "read"
    BY <1>0, <1>3 DEF FireTimerJob, Ticker
  <2> QED BY <1>0, <1>3, <1>l, <1>s, <2>1, SameRowKinds DEF FireTimerJob
<1>4. CASE Refire
  <2>0. ticker.pc = "fired"
    BY <1>4 DEF Refire
  <2>1. CASE Once(ticker.job)
    <3>1. /\ IncrementFired(ticker.job, Past, TRUE)
          /\ ticker' = Rest(ticker.due)
      BY <1>4, <2>1 DEF Refire
    <3>2. TickerKinds(ticker')
      BY <1>0, <3>1, <1>r DEF TickerKinds
    <3>3. KindsStay
      BY <1>0, <3>1, IncrementKinds
    <3> QED BY <1>0, <1>4, <1>l, <3>2, <3>3 DEF Refire
  <2>2. CASE ~Once(ticker.job)
    <3>1. PICK d \in NextFireTime :
            /\ IncrementFired(ticker.job, Later(d, ticker.age), FALSE)
            /\ ticker' = [ticker EXCEPT !.pc = "append", !.next = Later(d, ticker.age)]
      BY <1>4, <2>2 DEF Refire
    <3>2. ticker'.due = ticker.due /\ ticker'.job = ticker.job
      BY <1>0, <3>1 DEF Ticker
    <3>3. TickerKinds(ticker')
      BY <1>0, <2>0, <1>s, <3>2
    <3>4. KindsStay
      BY <1>0, <3>1, IncrementKinds
    <3> QED BY <1>0, <1>4, <1>l, <3>3, <3>4 DEF Refire
  <2> QED BY <2>1, <2>2
<1>5. CASE Append
  <2> DEFINE at == IF ticker.next = Past THEN 0 ELSE ticker.next
  <2>1. at \in 0..Period
    BY <1>0, TimerJobsAssumption DEF Time, Past
  <2>2. cache' = [cache EXCEPT ![<<ticker.job, at>>] = @ + 1] /\ ticker' = Rest(ticker.due)
    BY <1>5 DEF Append
  <2>3. KnownTimer(ticker.job)
    BY <1>0, <1>5 DEF Append, TickerKinds, Holds
  <2> HIDE DEF at
  <2>4. CacheKinds(cache')
    <3> SUFFICES ASSUME NEW k \in Job, NEW t \in 0..Period, cache'[<<k, t>>] > 0
                 PROVE  KnownTimer(k)
      BY DEF CacheKinds
    <3>1. CASE k = ticker.job
      BY <2>3, <3>1
    <3>2. CASE k # ticker.job
      <4>1. cache'[<<k, t>>] = cache[<<k, t>>]
        BY <1>0, <2>1, <2>2, <3>2 DEF TypeOK
      <4> QED BY <1>0, <4>1 DEF CacheKinds
    <3> QED BY <3>1, <3>2
  <2>5. TickerKinds(ticker')
    BY <1>0, <2>2, <1>r DEF TickerKinds
  <2> QED BY <1>0, <1>5, <1>l, <2>4, <2>5, SameRowKinds DEF Append
<1> QED BY <1>1, <1>2, <1>3, <1>4, <1>5 DEF TickerStep

LEMMA EventKind ==
  ASSUME KInv, TypeOK', NEW d \in Delivery, Deliver(d) \/ EventStep(d)
  PROVE  KInv'
<1>0. /\ TypeOK /\ delivery[d] \in Serving /\ delivery[d].job \in Job
      /\ EventKinds(delivery[d])
  BY DEF KInv, TypeOK, Serving
<1>l. ASSUME KindsStay, \A e \in Delivery \ {d} : delivery'[e] = delivery[e],
             EventKinds(delivery'[d]), UNCHANGED <<cache, ticker, handler>>
      PROVE  KInv'
  <2>1. \A e \in Delivery : EventKinds(delivery'[e])
    BY <1>l DEF KInv
  <2> QED BY <1>0, <1>l, <2>1, KindsLift DEF KInv
<1>1. CASE Deliver(d)
  <2>1. \A j \in ListEventJobs : KnownEvent(j)
    BY DEF ListEventJobs, Armed, Live, KnownEvent, Known
  <2>2. delivery'[d].pc = "list" /\ delivery'[d].todo = ListEventJobs
    BY <1>0, <1>1 DEF Deliver, TypeOK, Serving
  <2>3. EventKinds(delivery'[d])
    BY <2>1, <2>2 DEF EventKinds
  <2>4. \A e \in Delivery \ {d} : delivery'[e] = delivery[e]
    BY <1>0, <1>1 DEF Deliver, TypeOK
  <2> QED BY <1>1, <1>l, <2>3, <2>4, SameRowKinds DEF Deliver
<1>2. ASSUME NEW j \in Job, FireEventJob(d, j) PROVE KInv'
  <2>1. /\ delivery'[d].pc = "fired" /\ delivery'[d].job = j
        /\ delivery'[d].todo = delivery[d].todo \ {j}
    BY <1>0, <1>2 DEF FireEventJob, TypeOK, Serving
  <2>2. EventKinds(delivery'[d])
    BY <1>0, <1>2, <2>1 DEF FireEventJob, EventKinds
  <2>3. \A e \in Delivery \ {d} : delivery'[e] = delivery[e]
    BY <1>0, <1>2 DEF FireEventJob, TypeOK
  <2> QED BY <1>2, <1>l, <2>2, <2>3, SameRowKinds DEF FireEventJob
<1>3. CASE EventJobFired(d)
  <2>1. KindsStay
    BY <1>0, <1>3, IncrementKinds DEF EventJobFired, Once
  <2>2. /\ delivery'[d].pc = IF delivery[d].todo = {} THEN "idle" ELSE "list"
        /\ delivery'[d].todo = delivery[d].todo
    BY <1>0, <1>3 DEF EventJobFired, TypeOK, Serving
  <2>3. EventKinds(delivery'[d])
    BY <1>0, <2>2 DEF EventKinds
  <2>4. \A e \in Delivery \ {d} : delivery'[e] = delivery[e]
    BY <1>0, <1>3 DEF EventJobFired, TypeOK
  <2> QED BY <1>3, <1>l, <2>1, <2>3, <2>4 DEF EventJobFired
<1> QED BY <1>1, <1>2, <1>3 DEF EventStep

LEMMA AdvanceKind ==
  ASSUME KInv, TypeOK', Advance
  PROVE  KInv'
<1>0. TypeOK /\ CacheKinds(cache) /\ TickerKinds(ticker)
  BY DEF KInv
<1>1. KindsStay
  BY <1>0, AdvanceParts DEF KindsStay, Known
<1>2. CacheKinds(cache')
  <2> SUFFICES ASSUME NEW j \in Job, NEW t \in 0..Period, cache'[<<j, t>>] > 0
               PROVE  KnownTimer(j)
    BY DEF CacheKinds
  <2>1. cache'[<<j, t>>] = (IF t = 0 THEN cache[<<j, t>>] ELSE 0)
                             + IF t = Period THEN 0 ELSE cache[<<j, t + 1>>]
    BY <1>0, AdvanceParts
  <2>2. cache[<<j, t>>] \in Nat
    BY <1>0 DEF TypeOK
  <2>3. CASE cache[<<j, t>>] > 0
    BY <1>0, <2>3 DEF CacheKinds
  <2>4. CASE ~(cache[<<j, t>>] > 0)
    <3>0. cache[<<j, t>>] = 0
      BY <2>2, <2>4
    <3>1. t # Period /\ cache[<<j, t + 1>>] > 0
      <4>1. CASE t = Period
        BY <2>1, <3>0, <4>1
      <4>2. CASE t # Period
        <5>1. <<j, t + 1>> \in Job \X (0..Period)
          BY <4>2, TimerJobsAssumption
        <5>2. cache[<<j, t + 1>>] \in Nat
          BY <1>0, <5>1 DEF TypeOK
        <5> QED BY <2>1, <3>0, <4>2, <5>2
      <4> QED BY <4>1, <4>2
    <3>2. t + 1 \in 0..Period
      BY <3>1, TimerJobsAssumption
    <3> QED BY <1>0, <3>1, <3>2 DEF CacheKinds
  <2> QED BY <2>3, <2>4
<1>3. TickerKinds(ticker')
  BY <1>0, AdvanceParts DEF TickerKinds, Holds
<1>4. \A h \in Handler : RequestKinds(handler'[h])
  <2> SUFFICES ASSUME NEW h \in Handler PROVE RequestKinds(handler'[h])
    OBVIOUS
  <2>1. RequestKinds(handler[h])
    BY DEF KInv
  <2> QED BY <1>0, <2>1, AdvanceParts DEF RequestKinds
<1> QED BY <1>0, <1>1, <1>2, <1>3, <1>4, KindsLift DEF Advance, KInv

LEMMA StartKind ==
  ASSUME KInv, TypeOK', New
  PROVE  KInv'
<1>1. KindsStay /\ CacheKinds(cache')
  BY ListKinds, RebuildKinds DEF New, KInv
<1> QED BY <1>1, KindsLift DEF New, KInv

LEMMA KindsNext == KInv /\ [Next]_vars => KInv'
<1> SUFFICES ASSUME KInv, [Next]_vars PROVE KInv'
  OBVIOUS
<1>0. TypeOK'
  BY TypeNext DEF KInv
<1>1. CASE UNCHANGED vars
  BY <1>0, <1>1, KindsLift, SameRowKinds DEF vars, KInv
<1>2. CASE Crash
  <2>1. CacheKinds(cache')
    BY <1>2 DEF Crash, NoEntries, CacheKinds
  <2>2. TickerKinds(ticker')
    BY <1>2 DEF Crash, Waiting, NothingDue, TickerKinds, Holds
  <2>3. \A h \in Handler : RequestKinds(handler'[h])
    BY <1>2 DEF Crash, NoRequest, NoListing, RequestKinds
  <2>4. \A d \in Delivery : EventKinds(delivery'[d])
    BY <1>2 DEF Crash, NoEvent, EventKinds
  <2> QED BY <1>0, <1>2, <2>1, <2>2, <2>3, <2>4, KindsLift, SameRowKinds DEF Crash, KInv
<1>3. CASE Next /\ ~Crash
  BY <1>0, <1>3, StartKind, RequestKind, RequestStepKind, TickerKind, EventKind,
     AdvanceKind DEF Next
<1> QED BY <1>1, <1>2, <1>3

(***************************************************************************)
(* A job fires as often as it is enabled.  What one ticker fires of a once *)
(* job is recorded before it looks at the job again, so an enabled timer   *)
(* job has fired at most where its firing awaits its record; and an event  *)
(* goroutine fires a job once for each listing it was in, so the firings   *)
(* of a job and those still to come are no more than the goroutines.       *)
(***************************************************************************)
Firing(j) == ticker.pc = "fired" /\ ticker.job = j

TimerCount(j) ==
  /\ fired[j] <= 1
  /\ ticker.pc = "read" /\ ticker.job = j => fired[j] = 0
  /\ Armed(j) => fired[j] = 0 \/ (Once(j) /\ Firing(j))

Fires(j) == {d \in Delivery : delivery[d].pc = "fired" /\ delivery[d].job = j}
WillFire(j) == {d \in Delivery : j \in delivery[d].todo}

EventCount(j) ==
  /\ fired[j] + Cardinality(WillFire(j)) <= Cardinality(Delivery)
  /\ Armed(j) => fired[j] <= IF Once(j) THEN Cardinality(Fires(j)) ELSE 0

Count(j) == /\ ~Known(j) => fired[j] = 0
            /\ KnownTimer(j) => TimerCount(j)
            /\ KnownEvent(j) => EventCount(j)

CInv == KInv /\ \A j \in Job : Count(j)

\* What a step leaves of a row: its kind, and no job is created or enabled.
RowStays(j) ==
  /\ row'[j].state = row[j].state
  /\ row'[j].trigger = row[j].trigger
  /\ row'[j].type = row[j].type
  /\ row'[j].enabled => row[j].enabled

SameKind(j) == /\ Known(j)' <=> Known(j)
               /\ Timer(j)' <=> Timer(j)
               /\ Once(j)' <=> Once(j)

LEMMA SameRowStays ==
  ASSUME row' = row
  PROVE  \A j \in Job : RowStays(j)
BY DEF RowStays

LEMMA RowStaysKinds ==
  ASSUME \A j \in Job : RowStays(j)
  PROVE  KindsStay
BY DEF RowStays, KindsStay, Known

LEMMA RebuildRows ==
  ASSUME TypeOK, NEW list \in Listing, Rebuild(list)
  PROVE  \A j \in Job : RowStays(j)
<1> SUFFICES ASSUME NEW j \in Job PROVE RowStays(j)
  OBVIOUS
<1>1. PICK again : row' = [k \in Job |->
                             IF k \in Overdue(list) /\ Live(k)
                               THEN [row[k] EXCEPT !.next = again[k]] ELSE row[k]]
  BY DEF Rebuild
<1>2. row[j] \in Row
  BY DEF TypeOK
<1> QED BY <1>1, <1>2 DEF RowStays, Row

LEMMA IncrementRows ==
  ASSUME TypeOK, NEW j \in Job, NEW next, NEW disable \in BOOLEAN,
         IncrementFired(j, next, disable)
  PROVE  /\ \A k \in Job : RowStays(k)
         /\ disable => ~Armed(j)'
<1>0. row[j] \in Row
  BY DEF TypeOK
<1>1. CASE ~Live(j)
  BY <1>1 DEF IncrementFired, RowStays, Armed, Live
<1>2. CASE Live(j)
  <2>1. row'[j] = [row[j] EXCEPT !.next = next, !.enabled = @ /\ ~disable]
    BY <1>2 DEF IncrementFired, TypeOK, Row
  <2>2. \A k \in Job \ {j} : row'[k] = row[k]
    BY <1>2 DEF IncrementFired, TypeOK
  <2>3. /\ row'[j].state = row[j].state
        /\ row'[j].trigger = row[j].trigger
        /\ row'[j].type = row[j].type
    BY <1>0, <2>1 DEF Row
  <2>4. row'[j].enabled = (row[j].enabled /\ ~disable)
    BY <1>0, <2>1 DEF Row
  <2>5. RowStays(j) /\ (disable => ~Armed(j)')
    BY <2>3, <2>4 DEF RowStays, Armed
  <2> QED BY <2>2, <2>5 DEF RowStays
<1> QED BY <1>1, <1>2

\* A job's event goroutines are finitely many, and none of those that have
\* just fired it will fire it again.
LEMMA Goroutines ==
  ASSUME KInv, NEW j \in Job
  PROVE  /\ Cardinality(Delivery) \in Nat
         /\ IsFiniteSet(Fires(j)) /\ Cardinality(Fires(j)) \in Nat
         /\ IsFiniteSet(WillFire(j)) /\ Cardinality(WillFire(j)) \in Nat
         /\ Fires(j) \cap WillFire(j) = {}
<1>1. IsFiniteSet(Delivery) /\ Fires(j) \subseteq Delivery /\ WillFire(j) \subseteq Delivery
  BY TimerJobsAssumption DEF Fires, WillFire
<1>2. IsFiniteSet(Fires(j)) /\ IsFiniteSet(WillFire(j))
  BY <1>1, FS_Subset
<1>3. Fires(j) \cap WillFire(j) = {}
  BY DEF Fires, WillFire, KInv, EventKinds
<1> QED BY <1>1, <1>2, <1>3, FS_CardinalityType

LEMMA WillFireType ==
  ASSUME NEW j \in Job
  PROVE  /\ Cardinality(WillFire(j)') \in Nat /\ Cardinality(Delivery) \in Nat
         /\ Cardinality(WillFire(j)') <= Cardinality(Delivery)
         /\ Cardinality(Fires(j)') \in Nat
<1>1. IsFiniteSet(Delivery) /\ WillFire(j)' \subseteq Delivery /\ Fires(j)' \subseteq Delivery
  BY TimerJobsAssumption DEF WillFire, Fires
<1> QED BY <1>1, FS_Subset, FS_CardinalityType

\* A job that has just been enabled has fired no times.
LEMMA CountRestarts ==
  ASSUME NEW j \in Job, fired'[j] = 0
  PROVE  Count(j)'
BY WillFireType DEF Count, TimerCount, EventCount

LEMMA CountStays ==
  ASSUME CInv, NEW j \in Job,
         fired'[j] = fired[j],
         SameKind(j),
         Armed(j)' => Armed(j),
         Once(j) /\ Armed(j)' /\ Firing(j) => Firing(j)',
         ticker'.pc = "read" /\ ticker'.job = j =>
           fired[j] = 0 \/ (ticker.pc = "read" /\ ticker.job = j),
         WillFire(j)' \subseteq WillFire(j),
         Once(j) /\ Armed(j)' => Fires(j)' = Fires(j)
  PROVE  Count(j)'
<1> USE DEF SameKind
<1>0. TypeOK /\ KInv /\ Count(j) /\ fired[j] \in Nat
  BY DEF CInv, KInv, TypeOK
<1>2. KnownTimer(j)' => TimerCount(j)'
  <2> SUFFICES ASSUME KnownTimer(j)' PROVE TimerCount(j)'
    OBVIOUS
  <2>1. TimerCount(j)
    BY <1>0 DEF Count, KnownTimer
  <2> QED BY <2>1 DEF TimerCount
<1>3. KnownEvent(j)' => EventCount(j)'
  <2> SUFFICES ASSUME KnownEvent(j)' PROVE EventCount(j)'
    OBVIOUS
  <2>1. EventCount(j)
    BY <1>0 DEF Count, KnownEvent
  <2>2. Cardinality(WillFire(j)') <= Cardinality(WillFire(j))
    BY <1>0, Goroutines, FS_Subset
  <2>3. fired'[j] + Cardinality(WillFire(j)') <= Cardinality(Delivery)
    BY <1>0, <2>1, <2>2, Goroutines, WillFireType DEF EventCount
  <2>4. Armed(j)' => fired'[j] <= IF Once(j)' THEN Cardinality(Fires(j)') ELSE 0
    BY <2>1 DEF EventCount
  <2> QED BY <2>3, <2>4 DEF EventCount
<1>4. ~Known(j)' => fired'[j] = 0
  BY <1>0 DEF Count
<1> QED BY <1>2, <1>3, <1>4 DEF Count

\* Steps that fire nothing, and that leave the events alone.
LEMMA RowCountStays ==
  ASSUME CInv, NEW j \in Job, RowStays(j),
         UNCHANGED <<fired, delivery>>,
         Once(j) /\ Armed(j)' /\ Firing(j) => Firing(j)',
         ticker'.pc = "read" /\ ticker'.job = j =>
           fired[j] = 0 \/ (ticker.pc = "read" /\ ticker.job = j)
  PROVE  Count(j)'
<1>1. /\ SameKind(j)
      /\ Armed(j)' => Armed(j)
  BY DEF RowStays, SameKind, Known, Timer, Once, Armed, Live
<1>2. WillFire(j)' = WillFire(j) /\ Fires(j)' = Fires(j)
  BY DEF WillFire, Fires
<1> QED BY <1>1, <1>2, CountStays

LEMMA TickerUnmoved ==
  ASSUME ticker' = ticker, NEW j \in Job
  PROVE  /\ Once(j) /\ Armed(j)' /\ Firing(j) => Firing(j)'
         /\ ticker'.pc = "read" /\ ticker'.job = j =>
              fired[j] = 0 \/ (ticker.pc = "read" /\ ticker.job = j)
BY DEF Firing

LEMMA CountInit == Init => CInv
<1> SUFFICES ASSUME Init PROVE CInv
  OBVIOUS
<1>1. ASSUME NEW j \in Job PROVE Count(j)
  <2>1. fired[j] = 0 /\ ~Known(j)
    BY DEF Init, NoRow, Known
  <2> QED BY <2>1 DEF Count, KnownTimer, KnownEvent
<1> QED BY <1>1, KindsInit DEF CInv

\* A save that enables a job starts its count anew, any other leaves it.
LEMMA SaveCounts ==
  ASSUME CInv, NEW j \in Job, NEW r \in Row, Save(j, r),
         r.enabled \/ (/\ Known(j) /\ r.state # "none"
                       /\ r.trigger = row[j].trigger /\ r.type = row[j].type),
         UNCHANGED <<ticker, delivery>>
  PROVE  \A k \in Job : Count(k)'
<1>0. TypeOK
  BY DEF CInv, KInv
<1>1. ASSUME NEW k \in Job, k # j PROVE Count(k)'
  <2>1. RowStays(k) /\ fired'[k] = fired[k]
    BY <1>0, <1>1 DEF Save, TypeOK, RowStays
  <2>2. /\ SameKind(k)
        /\ Armed(k)' => Armed(k)
    BY <2>1 DEF RowStays, SameKind, Known, Timer, Once, Armed, Live
  <2>3. WillFire(k)' = WillFire(k) /\ Fires(k)' = Fires(k)
    BY DEF WillFire, Fires
  <2> QED BY <2>1, <2>2, <2>3, TickerUnmoved, CountStays
<1>2. CASE r.enabled
  <2>1. fired'[j] = 0
    BY <1>0, <1>2 DEF Save, TypeOK
  <2> QED BY <1>1, <2>1, CountRestarts
<1>3. CASE ~r.enabled
  <2>1. row'[j] = r /\ fired' = fired
    BY <1>0, <1>3 DEF Save, TypeOK
  <2>2. SameKind(j) /\ ~Armed(j)'
    BY <1>0, <1>3, <2>1 DEF SameKind, Known, Timer, Once, Armed
  <2>3. WillFire(j)' = WillFire(j) /\ Fires(j)' = Fires(j)
    BY DEF WillFire, Fires
  <2>4. Count(j)'
    BY <2>1, <2>2, <2>3, TickerUnmoved, CountStays
  <2> QED BY <1>1, <2>4
<1> QED BY <1>2, <1>3

LEMMA RequestCounts ==
  ASSUME CInv, NEW h \in Handler, NEW j \in Job,
         \/ CreateJob(h, j) \/ ReadJob(h, j, "read") \/ ReadJob(h, j, "trigger")
         \/ DeleteJob(h, j)
  PROVE  \A k \in Job : Count(k)'
<1>0. TypeOK
  BY DEF CInv, KInv
<1>1. CASE CreateJob(h, j)
  <2>1. PICK r \in Row : r.enabled /\ Save(j, r)
    BY <1>1 DEF CreateJob
  <2> QED BY <1>1, <2>1, SaveCounts DEF CreateJob
<1>2. ASSUME NEW pc, ReadJob(h, j, pc) PROVE \A k \in Job : Count(k)'
  BY <1>2, SameRowStays, RowCountStays, TickerUnmoved DEF ReadJob
<1>3. CASE DeleteJob(h, j)
  <2>1. /\ \A k \in Job \ {j} : row'[k] = row[k]
        /\ Live(j) => row'[j] = [row[j] EXCEPT !.state = "deleted"]
        /\ ~Live(j) => row'[j] = row[j]
    BY <1>0, <1>3 DEF DeleteJob, TypeOK
  <2>2. row[j] \in Row
    BY <1>0 DEF TypeOK
  <2>3. /\ SameKind(j)
        /\ Armed(j)' => Armed(j)
    <3>1. CASE Live(j)
      <4>1. /\ row'[j].state = "deleted" /\ row'[j].trigger = row[j].trigger
            /\ row'[j].type = row[j].type
        BY <2>1, <2>2, <3>1 DEF Row
      <4> QED BY <3>1, <4>1 DEF SameKind, Known, Timer, Once, Armed, Live
    <3>2. CASE ~Live(j)
      BY <2>1, <3>2 DEF SameKind, Known, Timer, Once, Armed, Live
    <3> QED BY <3>1, <3>2
  <2>4. WillFire(j)' = WillFire(j) /\ Fires(j)' = Fires(j)
    BY <1>3 DEF DeleteJob, WillFire, Fires
  <2>5. Count(j)'
    BY <1>3, <2>3, <2>4, TickerUnmoved, CountStays DEF DeleteJob
  <2>6. ASSUME NEW k \in Job, k # j PROVE Count(k)'
    <3>1. RowStays(k)
      BY <2>1, <2>6 DEF RowStays
    <3> QED BY <1>3, <3>1, TickerUnmoved, RowCountStays DEF DeleteJob
  <2> QED BY <2>5, <2>6
<1> QED BY <1>1, <1>2, <1>3

LEMMA RequestStepCounts ==
  ASSUME CInv, NEW h \in Handler, RequestStep(h)
  PROVE  \A k \in Job : Count(k)'
<1>0. /\ TypeOK /\ handler[h] \in Request /\ RequestKinds(handler[h])
      /\ handler[h].job \in Job /\ handler[h].list \in Listing
      /\ handler[h].copy \in Row /\ handler[h].copy.next \in Time
  BY DEF CInv, KInv, TypeOK, Request, Row
<1>s. ASSUME \A k \in Job : RowStays(k), UNCHANGED <<fired, ticker, delivery>>
      PROVE  \A k \in Job : Count(k)'
  BY <1>s, TickerUnmoved, RowCountStays
<1>1. CASE UpdateJob(h)
  <2> DEFINE j == handler[h].job
  <2> DEFINE copy == handler[h].copy
  <2>1. PICK reschedule \in BOOLEAN, enabled \in {<<>>, <<TRUE>>, <<FALSE>>} :
          \E next \in Reset(copy, reschedule, enabled = <<TRUE>>) :
            Save(j, [copy EXCEPT !.next = next,
                                 !.enabled = IF enabled = <<>> THEN @ ELSE enabled[1]])
    BY <1>1 DEF UpdateJob
  <2>2. PICK next \in Reset(copy, reschedule, enabled = <<TRUE>>) :
            Save(j, [copy EXCEPT !.next = next,
                                 !.enabled = IF enabled = <<>> THEN @ ELSE enabled[1]])
    BY <2>1
  <2>3. next \in Time
    BY <1>0, ConstantTypes DEF Reset
  <2> DEFINE e == IF enabled = <<>> THEN copy.enabled ELSE enabled[1]
  <2>4. e \in BOOLEAN
    <3>1. copy.enabled \in BOOLEAN
      BY <1>0 DEF Row
    <3>2. CASE enabled = <<>>
      BY <3>1, <3>2
    <3>3. CASE enabled = <<TRUE>>
      BY <3>3
    <3>4. CASE enabled = <<FALSE>>
      BY <3>4
    <3> QED BY <3>2, <3>3, <3>4
  <2> DEFINE r == [copy EXCEPT !.next = next, !.enabled = e]
  <2>5. Save(j, r)
    BY <2>2
  <2>6. /\ r \in Row /\ r.state = copy.state
        /\ r.trigger = copy.trigger /\ r.type = copy.type
    <3> HIDE DEF e
    <3> QED BY <1>0, <2>3, <2>4 DEF Row
  <2>7. /\ Known(j) /\ copy.state # "none"
        /\ copy.trigger = row[j].trigger /\ copy.type = row[j].type
    BY <1>0, <1>1 DEF UpdateJob, RequestKinds
  <2> HIDE DEF r
  <2> QED BY <1>0, <1>1, <2>5, <2>6, <2>7, SaveCounts DEF UpdateJob
<1>2. CASE FireJob(h)
  <2>1. IncrementFired(handler[h].job, handler[h].copy.next, FALSE)
    BY <1>2 DEF FireJob
  <2>2. \A k \in Job : RowStays(k)
    BY <1>0, <2>1, IncrementRows
  <2> QED BY <1>2, <1>s, <2>2 DEF FireJob
<1>3. CASE ReloadLists(h)
  BY <1>3, <1>s, SameRowStays DEF ReloadLists
<1>4. CASE ReloadRebuilds(h)
  <2>1. \A k \in Job : RowStays(k)
    BY <1>0, <1>4, RebuildRows DEF ReloadRebuilds
  <2> QED BY <1>4, <1>s, <2>1 DEF ReloadRebuilds
<1> QED BY <1>1, <1>2, <1>3, <1>4 DEF RequestStep

LEMMA TickerCounts ==
  ASSUME CInv, TickerStep
  PROVE  \A k \in Job : Count(k)'
<1>0. /\ TypeOK /\ KInv /\ ticker \in Ticker /\ TickerKinds(ticker)
      /\ ticker.due \in [Job -> Nat] /\ ticker.job \in Job
  BY DEF CInv, KInv, TypeOK, Ticker
<1>s. ASSUME \A k \in Job : RowStays(k), UNCHANGED <<fired, delivery>>,
             ticker'.pc # "read", ticker.pc # "fired"
      PROVE  \A k \in Job : Count(k)'
  <2> SUFFICES ASSUME NEW k \in Job PROVE Count(k)'
    OBVIOUS
  <2>1. ~Firing(k)
    BY <1>s DEF Firing
  <2> QED BY <1>s, <2>1, RowCountStays
<1>1. CASE Tick
  <2>1. [k \in Job |-> cache[<<k, 0>>]] \in [Job -> Nat]
    BY <1>0, TimerJobsAssumption DEF TypeOK
  <2>2. ticker'.pc \in {"wait", "due"} /\ ticker.pc = "wait"
    BY <1>0, <1>1, <2>1, RestHolds DEF Tick
  <2> QED BY <1>1, <1>s, <2>2, SameRowStays DEF Tick
<1>2. ASSUME NEW j \in Job, TakeDue(j) PROVE \A k \in Job : Count(k)'
  <2>0. ticker.pc = "due"
    BY <1>2 DEF TakeDue
  <2> DEFINE left == [ticker.due EXCEPT ![j] = @ - 1]
  <2>1. CASE Armed(j)
    <3>1. ticker' = [ticker EXCEPT !.pc = "read", !.due = left, !.job = j]
      BY <1>2, <2>1 DEF TakeDue
    <3> HIDE DEF left
    <3>2. ticker'.job = j
      BY <1>0, <3>1 DEF Ticker
    <3>3. fired[j] = 0
      <4>1. KnownTimer(j)
        BY <1>0, <1>2 DEF TakeDue, TickerKinds
      <4>2. TimerCount(j)
        BY <4>1 DEF CInv, Count
      <4> QED BY <2>0, <2>1, <4>2 DEF TimerCount, Firing
    <3>4. ASSUME NEW k \in Job PROVE Count(k)'
      <4>1. ~Firing(k)
        BY <2>0 DEF Firing
      <4>2. RowStays(k)
        BY <1>2, SameRowStays DEF TakeDue
      <4> QED BY <1>2, <3>2, <3>3, <4>1, <4>2, RowCountStays DEF TakeDue
    <3> QED BY <3>4
  <2>2. CASE ~Armed(j)
    <3>1. ticker' = Rest(left)
      BY <1>2, <2>2 DEF TakeDue
    <3>2. left \in [Job -> Nat]
      BY <1>0, <1>2 DEF TakeDue
    <3> HIDE DEF left
    <3>3. ticker'.pc \in {"wait", "due"}
      BY <1>0, <3>1, <3>2, RestHolds
    <3> QED BY <1>2, <1>s, <2>0, <3>3, SameRowStays DEF TakeDue
  <2> QED BY <2>1, <2>2
<1>3. CASE FireTimerJob
  <2>j. PICK j \in Job : j = ticker.job
    BY <1>0
  <2>1. ticker.pc = "read" /\ ticker'.pc = "fired" /\ ticker'.job = j
    BY <1>0, <1>3, <2>j DEF FireTimerJob, Ticker
  <2>2. \A k \in Job : RowStays(k) /\ ~Firing(k)
    BY <1>3, <2>1, SameRowStays DEF FireTimerJob, Firing
  <2>3. ASSUME NEW k \in Job, fired'[k] = fired[k] PROVE Count(k)'
    <3>1. WillFire(k)' = WillFire(k) /\ Fires(k)' = Fires(k)
      BY <1>3 DEF FireTimerJob, WillFire, Fires
    <3>2. /\ SameKind(k)
          /\ Armed(k)' => Armed(k)
      BY <1>3 DEF FireTimerJob, SameKind, Known, Timer, Once, Armed, Live
    <3> QED BY <2>1, <2>2, <2>3, <3>1, <3>2, CountStays
  <2>4. ASSUME NEW k \in Job, k # j PROVE Count(k)'
    <3>1. fired'[k] = fired[k]
      BY <1>0, <1>3, <2>j, <2>4 DEF FireTimerJob, Counted, TypeOK
    <3> QED BY <2>3, <3>1
  <2>5. Count(j)'
    <3>1. CASE Once(j) \/ ~Armed(j)
      <4>1. KnownTimer(j)
        BY <1>0, <2>j, <2>1 DEF TickerKinds, Holds
      <4>2. fired[j] = 0
        BY <1>0, <2>j, <2>1, <4>1 DEF CInv, Count, TimerCount
      <4>3. fired'[j] = 1
        BY <1>0, <1>3, <2>j, <3>1, <4>2 DEF FireTimerJob, Counted, TypeOK
      <4>4. KnownTimer(j)' /\ (Once(j)' \/ ~Armed(j)') /\ Known(j)'
        BY <1>3, <3>1, <4>1 DEF FireTimerJob, KnownTimer, SameKind, Known, Timer, Once, Armed, Live
      <4>5. Firing(j)'
        BY <2>1 DEF Firing
      <4>6. TimerCount(j)'
        BY <2>1, <4>3, <4>4, <4>5 DEF TimerCount
      <4> QED BY <4>4, <4>6 DEF Count, KnownTimer, KnownEvent
    <3>2. CASE ~(Once(j) \/ ~Armed(j))
      BY <1>0, <1>3, <2>j, <2>3, <3>2 DEF FireTimerJob, Counted
    <3> QED BY <3>1, <3>2
  <2> QED BY <2>4, <2>5
<1>4. CASE Refire
  <2>j. PICK j \in Job : j = ticker.job
    BY <1>0
  <2>0. ticker.pc = "fired"
    BY <1>4 DEF Refire
  <2>1. /\ \A k \in Job : RowStays(k)
        /\ Once(j) => ~Armed(j)'
        /\ ticker'.pc # "read"
    <3>1. CASE Once(j)
      <4>1. IncrementFired(j, Past, TRUE) /\ ticker' = Rest(ticker.due)
        BY <1>4, <2>j, <3>1 DEF Refire
      <4>2. (\A k \in Job : RowStays(k)) /\ ~Armed(j)'
        BY <1>0, <4>1, IncrementRows
      <4>3. ticker'.pc # "read"
        BY <1>0, <4>1, RestHolds
      <4> QED BY <4>2, <4>3
    <3>2. CASE ~Once(j)
      <4>1. PICK d \in NextFireTime :
              /\ IncrementFired(j, Later(d, ticker.age), FALSE)
              /\ ticker' = [ticker EXCEPT !.pc = "append", !.next = Later(d, ticker.age)]
        BY <1>4, <2>j, <3>2 DEF Refire
      <4>2. \A k \in Job : RowStays(k)
        BY <1>0, <4>1, IncrementRows
      <4>3. ticker'.pc # "read"
        BY <1>0, <4>1 DEF Ticker
      <4> QED BY <3>2, <4>2, <4>3
    <3> QED BY <3>1, <3>2
  <2>2. ASSUME NEW k \in Job PROVE Count(k)'
    <3>1. RowStays(k) /\ (Firing(k) => k = j)
      BY <2>j, <2>1 DEF Firing
    <3> QED BY <1>4, <2>1, <3>1, RowCountStays DEF Refire
  <2> QED BY <2>2
<1>5. CASE Append
  <2>1. ticker'.pc \in {"wait", "due"} /\ ticker.pc = "append"
    BY <1>0, <1>5, RestHolds DEF Append
  <2> QED BY <1>5, <1>s, <2>1, SameRowStays DEF Append
<1> QED BY <1>1, <1>2, <1>3, <1>4, <1>5 DEF TickerStep

LEMMA EventCounts ==
  ASSUME CInv, NEW d \in Delivery, Deliver(d) \/ EventStep(d)
  PROVE  \A k \in Job : Count(k)'
<1>0. /\ TypeOK /\ KInv /\ delivery[d] \in Serving /\ delivery[d].job \in Job
      /\ EventKinds(delivery[d])
  BY DEF CInv, KInv, TypeOK, Serving
<1>1. CASE Deliver(d)
  <2>0. /\ \A e \in Delivery \ {d} : delivery'[e] = delivery[e]
        /\ delivery'[d].pc = "list" /\ delivery'[d].todo = ListEventJobs
        /\ delivery[d].pc = "idle" /\ delivery[d].todo = {}
    BY <1>0, <1>1 DEF Deliver, TypeOK, Serving, EventKinds
  <2> SUFFICES ASSUME NEW j \in Job PROVE Count(j)'
    OBVIOUS
  <2>1. Fires(j)' = Fires(j) /\ d \notin Fires(j)
    BY <2>0 DEF Fires
  <2>2. CASE j \notin ListEventJobs
    <3>1. WillFire(j)' = WillFire(j)
      BY <2>0, <2>2 DEF WillFire
    <3>2. /\ SameKind(j)
          /\ Armed(j)' => Armed(j)
      BY <1>1 DEF Deliver, SameKind, Known, Timer, Once, Armed, Live
    <3> QED BY <1>1, <2>1, <3>1, <3>2, TickerUnmoved, CountStays DEF Deliver
  <2>3. CASE j \in ListEventJobs
    <3>1. KnownEvent(j) /\ Armed(j)
      BY <2>3 DEF ListEventJobs, KnownEvent, Known, Armed, Live
    <3>2. EventCount(j)
      BY <3>1 DEF CInv, Count
    <3>3. WillFire(j)' = WillFire(j) \cup {d} /\ d \notin WillFire(j)
      BY <2>0, <2>3 DEF WillFire
    <3>4. fired[j] + Cardinality(WillFire(j)') <= Cardinality(Delivery)
      <4>1. Cardinality(WillFire(j)') <= Cardinality(Delivery)
        BY WillFireType
      <4>2. CASE ~Once(j)
        <5>1. fired[j] <= 0 /\ fired[j] \in Nat
          BY <1>0, <3>1, <3>2, <4>2 DEF EventCount, TypeOK
        <5> QED BY <4>1, <5>1, WillFireType
      <4>3. CASE Once(j)
        <5> DEFINE S == WillFire(j) \cup {d}
        <5>1. IsFiniteSet(S) /\ Cardinality(S) \in Nat
          BY <1>0, Goroutines, FS_AddElement, FS_CardinalityType
        <5>2. Fires(j) \cap S = {}
          BY <1>0, <2>1, Goroutines
        <5>3. Cardinality(Fires(j) \cup S) = Cardinality(Fires(j)) + Cardinality(S)
          <6>1. Cardinality(Fires(j) \cap S) = 0
            BY <5>2, FS_EmptySet
          <6>2. Cardinality(Fires(j) \cup S)
                  = Cardinality(Fires(j)) + Cardinality(S) - Cardinality(Fires(j) \cap S)
            BY <1>0, <5>1, Goroutines, FS_Union
          <6> QED BY <1>0, <5>1, <6>1, <6>2, Goroutines
        <5>4. Cardinality(Fires(j) \cup S) <= Cardinality(Delivery)
          <6>1. Fires(j) \cup S \subseteq Delivery
            BY DEF Fires, WillFire
          <6> QED BY <6>1, TimerJobsAssumption, FS_Subset
        <5>5. fired[j] <= Cardinality(Fires(j)) /\ fired[j] \in Nat
          BY <1>0, <3>1, <3>2, <4>3 DEF EventCount, TypeOK
        <5> HIDE DEF S
        <5>6. fired[j] + Cardinality(S) <= Cardinality(Delivery)
          BY <1>0, <5>1, <5>3, <5>4, <5>5, Goroutines
        <5> QED BY <3>3, <5>6 DEF S
      <4> QED BY <4>2, <4>3
    <3>5. /\ Known(j)' /\ ~Timer(j)' /\ (Once(j)' <=> Once(j))
          /\ fired'[j] = fired[j]
      BY <1>1, <3>1 DEF Deliver, KnownEvent, Known, Timer, Once
    <3>6. EventCount(j)'
      <4>1. fired'[j] <= IF Once(j)' THEN Cardinality(Fires(j)') ELSE 0
        BY <2>1, <3>1, <3>2, <3>5 DEF EventCount
      <4> QED BY <3>4, <3>5, <4>1 DEF EventCount
    <3> QED BY <3>5, <3>6 DEF Count, KnownTimer
  <2> QED BY <2>2, <2>3
<1>2. ASSUME NEW j \in Job, FireEventJob(d, j) PROVE \A k \in Job : Count(k)'
  <2>0. /\ \A e \in Delivery \ {d} : delivery'[e] = delivery[e]
        /\ delivery'[d].pc = "fired" /\ delivery'[d].todo = delivery[d].todo \ {j}
        /\ delivery'[d].job = j
        /\ delivery[d].pc = "list" /\ j \in delivery[d].todo
    BY <1>0, <1>2 DEF FireEventJob, TypeOK, Serving
  <2>1. ASSUME NEW k \in Job
        PROVE  /\ SameKind(k)
               /\ Armed(k)' <=> Armed(k)
    BY <1>2 DEF FireEventJob, SameKind, Known, Timer, Once, Armed, Live
  <2>2. ASSUME NEW k \in Job, k # j PROVE Count(k)'
    <3>1. WillFire(k)' = WillFire(k) /\ Fires(k)' = Fires(k)
      BY <2>0, <2>2 DEF WillFire, Fires
    <3>2. fired'[k] = fired[k]
      BY <1>0, <1>2, <2>2 DEF FireEventJob, Counted, TypeOK
    <3> QED BY <1>2, <2>1, <3>1, <3>2, TickerUnmoved, CountStays DEF FireEventJob
  <2>3. Count(j)'
    <3>1. KnownEvent(j) /\ KnownEvent(j)'
      BY <1>0, <2>0, <2>1 DEF EventKinds, KnownEvent, SameKind
    <3>2. EventCount(j) /\ fired[j] \in Nat
      BY <1>0, <3>1 DEF CInv, Count, TypeOK
    <3>3. WillFire(j)' = WillFire(j) \ {d} /\ d \in WillFire(j)
      BY <2>0 DEF WillFire
    <3>4. Cardinality(WillFire(j)') = Cardinality(WillFire(j)) - 1
      BY <1>0, <3>3, Goroutines, FS_RemoveElement
    <3>5. Fires(j)' = Fires(j) \cup {d} /\ d \notin Fires(j)
      BY <2>0 DEF Fires
    <3>6. Cardinality(Fires(j)') = Cardinality(Fires(j)) + 1
      BY <1>0, <3>5, Goroutines, FS_AddElement
    <3>7. fired'[j] = IF Once(j) \/ ~Armed(j) THEN fired[j] + 1 ELSE fired[j]
      BY <1>0, <1>2 DEF FireEventJob, Counted, TypeOK
    <3>8. fired'[j] + Cardinality(WillFire(j)') <= Cardinality(Delivery)
      BY <1>0, <3>2, <3>4, <3>7, Goroutines DEF EventCount
    <3>9. Armed(j)' => fired'[j] <= IF Once(j)' THEN Cardinality(Fires(j)') ELSE 0
      <4> SUFFICES ASSUME Armed(j)'
                   PROVE  fired'[j] <= IF Once(j)' THEN Cardinality(Fires(j)') ELSE 0
        OBVIOUS
      <4>1. Armed(j) /\ (Once(j)' <=> Once(j))
        BY <2>1 DEF SameKind
      <4>2. CASE Once(j)
        <5>1. fired[j] <= Cardinality(Fires(j)) /\ Cardinality(Fires(j)) \in Nat
          BY <1>0, <3>2, <4>1, <4>2, Goroutines DEF EventCount
        <5> QED BY <3>2, <3>6, <3>7, <4>1, <4>2, <5>1
      <4>3. CASE ~Once(j)
        BY <3>2, <3>7, <4>1, <4>3 DEF EventCount
      <4> QED BY <4>2, <4>3
    <3>10. EventCount(j)'
      BY <3>8, <3>9 DEF EventCount
    <3> QED BY <3>1, <3>10 DEF Count, KnownTimer, KnownEvent
  <2> QED BY <2>2, <2>3
<1>3. CASE EventJobFired(d)
  <2>j. PICK j \in Job : j = delivery[d].job
    BY <1>0
  <2>0. /\ \A e \in Delivery \ {d} : delivery'[e] = delivery[e]
        /\ delivery'[d].pc # "fired" /\ delivery'[d].todo = delivery[d].todo
        /\ delivery[d].pc = "fired"
    BY <1>0, <1>3 DEF EventJobFired, TypeOK, Serving
  <2>1. (\A k \in Job : RowStays(k)) /\ (Once(j) => ~Armed(j)')
    BY <1>0, <1>3, <2>j, IncrementRows DEF EventJobFired, Once
  <2>2. ASSUME NEW k \in Job PROVE Count(k)'
    <3>1. WillFire(k)' = WillFire(k)
      BY <2>0 DEF WillFire
    <3>2. k # j => Fires(k)' = Fires(k)
      BY <2>j, <2>0 DEF Fires
    <3>3. /\ SameKind(k)
          /\ Armed(k)' => Armed(k)
      BY <2>1 DEF RowStays, SameKind, Known, Timer, Once, Armed, Live
    <3> QED BY <1>3, <2>1, <3>1, <3>2, <3>3, TickerUnmoved, CountStays DEF EventJobFired
  <2> QED BY <2>2
<1> QED BY <1>1, <1>2, <1>3 DEF EventStep

LEMMA CrashCounts ==
  ASSUME CInv, Crash
  PROVE  \A k \in Job : Count(k)'
<1>0. TypeOK /\ KInv
  BY DEF CInv, KInv
<1> SUFFICES ASSUME NEW j \in Job PROVE Count(j)'
  OBVIOUS
<1> DEFINE flying == \/ Firing(j)
                     \/ \E d \in Delivery : delivery[d].pc = "fired" /\ delivery[d].job = j
<1>1. fired'[j] = IF flying THEN 0 ELSE fired[j]
  BY DEF Crash, Firing
<1>2. CASE flying
  BY <1>1, <1>2, CountRestarts
<1>3. CASE ~flying
  <2>1. WillFire(j)' = {} /\ Fires(j)' = {} /\ Fires(j) = {} /\ ~Firing(j)
    BY <1>3 DEF Crash, WillFire, Fires, NoEvent
  <2>2. ticker'.pc = "wait"
    BY DEF Crash, Waiting
  <2>3. /\ SameKind(j)
        /\ Armed(j)' => Armed(j)
    BY DEF Crash, SameKind, Known, Timer, Once, Armed, Live
  <2>4. fired'[j] = fired[j]
    BY <1>1, <1>3
  <2> QED BY <2>1, <2>2, <2>3, <2>4, CountStays
<1> QED BY <1>2, <1>3

LEMMA CountNext == CInv /\ [Next]_vars => CInv'
<1> SUFFICES ASSUME CInv, [Next]_vars PROVE CInv'
  OBVIOUS
<1>0. TypeOK /\ KInv'
  BY KindsNext DEF CInv, KInv
<1>s. ASSUME \A k \in Job : RowStays(k), UNCHANGED <<fired, delivery>>,
             ticker'.pc = ticker.pc, ticker'.job = ticker.job
      PROVE  \A k \in Job : Count(k)'
  BY <1>s, RowCountStays DEF Firing
<1>1. CASE UNCHANGED vars
  BY <1>0, <1>1, <1>s, SameRowStays DEF vars, CInv
<1>2. CASE New
  <2>1. \A k \in Job : RowStays(k)
    BY <1>0, <1>2, ListKinds, RebuildRows DEF New
  <2> QED BY <1>0, <1>2, <1>s, <2>1 DEF New, CInv
<1>3. CASE Advance
  <2>1. (\A k \in Job : RowStays(k)) /\ ticker'.pc = ticker.pc /\ ticker'.job = ticker.job
    BY <1>0, <1>3, AdvanceParts DEF RowStays
  <2> QED BY <1>0, <1>3, <1>s, <2>1 DEF Advance, CInv
<1>4. CASE Next /\ ~New /\ ~Advance
  BY <1>0, <1>4, RequestCounts, RequestStepCounts, TickerCounts, EventCounts, CrashCounts
     DEF Next, CInv
<1> QED BY <1>1, <1>2, <1>3, <1>4

\* A once job fires once for each time it is saved enabled, a repeat job that
\* is disabled or deleted no more, but for firings on their way: a timer job
\* has one of them at most, an event job as many as events are served at once
\* (scheduler.go:104, 168, 183, 225).
THEOREM FiresOncePerEnabling == Spec => []FiresAsEnabled
<1>1. CInv => FiresAsEnabled
  <2> SUFFICES ASSUME CInv, NEW j \in Job PROVE fired[j] <= AtOnce(j)
    BY DEF FiresAsEnabled
  <2>0. KInv /\ Count(j) /\ fired[j] \in Nat
    BY DEF CInv, KInv, TypeOK
  <2>1. CASE ~Known(j)
    <3>1. fired[j] = 0
      BY <2>0, <2>1 DEF Count
    <3> QED BY <2>0, <3>1, Goroutines DEF AtOnce
  <2>2. CASE KnownTimer(j)
    BY <2>0, <2>2 DEF Count, TimerCount, AtOnce, KnownTimer
  <2>3. CASE KnownEvent(j)
    <3>1. fired[j] + Cardinality(WillFire(j)) <= Cardinality(Delivery)
      BY <2>0, <2>3 DEF Count, EventCount
    <3>2. fired[j] <= Cardinality(Delivery)
      BY <2>0, <3>1, Goroutines
    <3> QED BY <2>3, <3>2 DEF AtOnce, KnownEvent
  <2> QED BY <2>1, <2>2, <2>3 DEF KnownTimer, KnownEvent
<1> QED BY CountInit, CountNext, <1>1, PTL DEF Spec

(***************************************************************************)
(* How many entries a job gets.  Every request that is under way may add   *)
(* an entry when it rebuilds, so the entries of a job and the requests     *)
(* under way are together one more than the requests so far, at most.      *)
(***************************************************************************)
Busy == {h \in Handler : handler[h].pc # "idle"}
Held(j) == IF Holds(ticker, j) THEN 1 ELSE 0

\* A plugin that does not run has nothing in memory.
Down == ~up => cache = NoEntries /\ ticker = Waiting /\ Busy = {}

Bound(j) ==
  /\ IsFiniteSet(Cached(j))
  /\ Cardinality(Cached(j)) + ticker.due[j] + Held(j) + Cardinality(Busy) <= requests + 1

NInv == IInv /\ Down /\ \A j \in Job : Bound(j)

LEMMA SplitCardinality ==
  ASSUME NEW S, NEW C, NEW Z, IsFiniteSet(C), IsFiniteSet(Z),
         S = C \cup Z, C \cap Z = {}
  PROVE  Cardinality(S) = Cardinality(C) + Cardinality(Z)
<1>1. Cardinality(C \cap Z) = 0
  BY FS_EmptySet
<1>2. Cardinality(C \cup Z) = Cardinality(C) + Cardinality(Z) - Cardinality(C \cap Z)
  BY FS_Union
<1>3. Cardinality(C) \in Nat /\ Cardinality(Z) \in Nat
  BY FS_CardinalityType
<1> QED BY <1>1, <1>2, <1>3

LEMMA CachedPair ==
  ASSUME NEW j \in Job
  PROVE  /\ \A e \in Cached(j) : /\ e = <<e[1], e[2]>> /\ e[1] \in 0..Period
                                 /\ e[2] \in 1..cache[<<j, e[1]>>]
         /\ \A t \in 0..Period : \A n \in 1..cache[<<j, t>>] : <<t, n>> \in Cached(j)
<1>1. ASSUME NEW e \in Cached(j)
      PROVE  /\ e = <<e[1], e[2]>> /\ e[1] \in 0..Period
             /\ e[2] \in 1..cache[<<j, e[1]>>]
  <2>1. PICK t \in 0..Period : e \in {t} \X (1..cache[<<j, t>>])
    BY DEF Cached
  <2>2. PICK n \in 1..cache[<<j, t>>] : e = <<t, n>>
    BY <2>1
  <2> QED BY <2>2
<1>2. ASSUME NEW t \in 0..Period, NEW n \in 1..cache[<<j, t>>]
      PROVE  <<t, n>> \in Cached(j)
  <2>1. <<t, n>> \in {t} \X (1..cache[<<j, t>>])
    OBVIOUS
  <2> QED BY <2>1 DEF Cached
<1> QED BY <1>1, <1>2

\* The requests that a step of one request leaves under way.
LEMMA BusyType ==
  /\ IsFiniteSet(Busy) /\ Cardinality(Busy) \in Nat
  /\ IsFiniteSet(Busy') /\ Cardinality(Busy') \in Nat
<1>1. IsFiniteSet(Handler) /\ Busy \subseteq Handler /\ Busy' \subseteq Handler
  BY TimerJobsAssumption DEF Busy
<1> QED BY <1>1, FS_Subset, FS_CardinalityType

LEMMA BusyStep ==
  ASSUME NEW h \in Handler, \A k \in Handler \ {h} : handler'[k].pc = handler[k].pc
  PROVE  /\ handler[h].pc = "idle" => Cardinality(Busy') <= Cardinality(Busy) + 1
         /\ handler[h].pc # "idle" => Cardinality(Busy') <= Cardinality(Busy)
         /\ handler[h].pc # "idle" /\ handler'[h].pc = "idle" =>
              Cardinality(Busy') = Cardinality(Busy) - 1
<1>1. CASE handler[h].pc = "idle"
  <2>1. Busy' \subseteq Busy \cup {h}
    BY DEF Busy
  <2>2. /\ IsFiniteSet(Busy \cup {h}) /\ Cardinality(Busy \cup {h}) \in Nat
        /\ Cardinality(Busy \cup {h}) <= Cardinality(Busy) + 1
    <3>1. /\ IsFiniteSet(Busy \cup {h})
          /\ Cardinality(Busy \cup {h})
               = IF h \in Busy THEN Cardinality(Busy) ELSE Cardinality(Busy) + 1
      BY BusyType, FS_AddElement
    <3> QED BY <3>1, BusyType
  <2>3. Cardinality(Busy') <= Cardinality(Busy \cup {h})
    BY <2>1, <2>2, FS_Subset
  <2> QED BY <1>1, <2>2, <2>3, BusyType
<1>2. CASE handler[h].pc # "idle"
  <2>1. Busy' \subseteq Busy
    BY <1>2 DEF Busy
  <2>2. Cardinality(Busy') <= Cardinality(Busy)
    BY <2>1, BusyType, FS_Subset
  <2>3. ASSUME handler'[h].pc = "idle" PROVE Cardinality(Busy') = Cardinality(Busy) - 1
    <3>1. Busy' = Busy \ {h} /\ h \in Busy
      BY <1>2, <2>3 DEF Busy
    <3> QED BY <3>1, BusyType, FS_RemoveElement
  <2> QED BY <1>2, <2>2, <2>3
<1> QED BY <1>1, <1>2

LEMMA BoundParts ==
  ASSUME NInv, NEW j \in Job
  PROVE  /\ TypeOK /\ Bound(j)
         /\ Cardinality(Cached(j)) \in Nat /\ ticker.due[j] \in Nat
         /\ Held(j) \in {0, 1} /\ requests \in Nat
<1>1. TypeOK /\ Bound(j) /\ ticker \in Ticker /\ requests \in Nat
  BY TimerJobsAssumption DEF NInv, IInv, TypeOK
<1>2. Cardinality(Cached(j)) \in Nat
  BY <1>1, FS_CardinalityType DEF Bound
<1> QED BY <1>1, <1>2 DEF Ticker, Held

LEMMA SameBusy ==
  ASSUME NInv, Busy' = Busy, requests' = requests
  PROVE  Cardinality(Busy') - requests' <= Cardinality(Busy) - requests
BY BusyType, TimerJobsAssumption DEF NInv, IInv, TypeOK

\* A step that adds no entry and no request under way that is not counted.
LEMMA BoundStays ==
  ASSUME NInv, TypeOK', NEW j \in Job,
         IsFiniteSet(Cached(j)'),
         Cardinality(Cached(j)') + ticker'.due[j] + Held(j)'
           <= Cardinality(Cached(j)) + ticker.due[j] + Held(j),
         Cardinality(Busy') - requests' <= Cardinality(Busy) - requests
  PROVE  Bound(j)'
<1>1. /\ Bound(j) /\ Cardinality(Cached(j)) \in Nat /\ ticker.due[j] \in Nat
      /\ Held(j) \in {0, 1} /\ requests \in Nat
  BY BoundParts
<1>2. Cardinality(Cached(j)') \in Nat
  BY FS_CardinalityType
<1>3. ticker'.due[j] \in Nat /\ Held(j)' \in {0, 1} /\ requests' \in Nat
  BY TimerJobsAssumption DEF TypeOK, Ticker, Held
<1>4. Cardinality(Cached(j)') + ticker'.due[j] + Held(j)' + Cardinality(Busy') <= requests' + 1
  BY <1>1, <1>2, <1>3, BusyType DEF Bound
<1> QED BY <1>4 DEF Bound

\* The same where the cache and the ticker stay.
LEMMA BoundRequest ==
  ASSUME NInv, TypeOK', UNCHANGED <<cache, ticker>>,
         Cardinality(Busy') - requests' <= Cardinality(Busy) - requests
  PROVE  \A j \in Job : Bound(j)'
<1> SUFFICES ASSUME NEW j \in Job PROVE Bound(j)'
  OBVIOUS
<1>1. Cached(j)' = Cached(j) /\ Held(j)' = Held(j)
  BY DEF Cached, Held
<1>2. /\ Cardinality(Cached(j)) \in Nat /\ ticker.due[j] \in Nat
      /\ Held(j) \in {0, 1} /\ IsFiniteSet(Cached(j))
  BY BoundParts DEF Bound
<1> QED BY <1>1, <1>2, BoundStays

\* A rebuilt cache has one entry of a job at most.
LEMMA RebuildEntries ==
  ASSUME TypeOK, NEW list \in Listing, Rebuild(list), NEW j \in Job
  PROVE  /\ IsFiniteSet(Cached(j)') /\ Cardinality(Cached(j)') \in Nat
         /\ Cardinality(Cached(j)') <= 1
<1>1. PICK again \in [Overdue(list) -> NextFireTime] :
        cache' = [e \in DOMAIN cache |->
                    IF e[1] \in DOMAIN list
                         /\ (IF e[1] \in Overdue(list) THEN again[e[1]] ELSE list[e[1]]) = e[2]
                      THEN 1 ELSE 0]
  BY DEF Rebuild
<1> DEFINE at == IF j \in Overdue(list) THEN again[j] ELSE list[j]
<1>2. ASSUME NEW t \in 0..Period
      PROVE  cache'[<<j, t>>] = IF j \in DOMAIN list /\ at = t THEN 1 ELSE 0
  <2>1. <<j, t>> \in DOMAIN cache
    BY DEF TypeOK
  <2> QED BY <1>1, <2>1
<1>3. Cached(j)' \subseteq {<<at, 1>>}
  <2> SUFFICES ASSUME NEW e \in Cached(j)' PROVE e = <<at, 1>>
    OBVIOUS
  <2>1. PICK t \in 0..Period : e \in {t} \X (1..cache'[<<j, t>>])
    BY DEF Cached
  <2>2. PICK n \in 1..cache'[<<j, t>>] : e = <<t, n>>
    BY <2>1
  <2>3. cache'[<<j, t>>] = 1 /\ at = t
    <3> HIDE DEF at
    <3> QED BY <1>2, <2>2
  <2> QED BY <2>2, <2>3
<1>4. IsFiniteSet({<<at, 1>>}) /\ Cardinality({<<at, 1>>}) = 1
  BY FS_Singleton
<1> QED BY <1>3, <1>4, FS_Subset, FS_CardinalityType

LEMMA NInvInit == Init => NInv
<1> SUFFICES ASSUME Init PROVE NInv
  OBVIOUS
<1>1. Busy = {} /\ Down
  BY DEF Init, Busy, NoRequest, Down
<1>2. ASSUME NEW j \in Job PROVE Bound(j)
  <2>1. Cached(j) = {}
    <3> SUFFICES ASSUME NEW t \in 0..Period PROVE {t} \X (1..cache[<<j, t>>]) = {}
      BY DEF Cached
    <3>1. cache[<<j, t>>] = 0
      BY DEF Init, NoEntries
    <3> QED BY <3>1
  <2>2. ticker.due[j] = 0 /\ Held(j) = 0 /\ requests = 0
    BY DEF Init, Waiting, NothingDue, Held, Holds
  <2> QED BY <1>1, <2>1, <2>2, FS_EmptySet DEF Bound
<1> QED BY <1>1, <1>2, IInvInit DEF NInv

LEMMA StartEntries ==
  ASSUME NInv, TypeOK', New
  PROVE  \A j \in Job : Bound(j)'
<1> SUFFICES ASSUME NEW j \in Job PROVE Bound(j)'
  OBVIOUS
<1>0. TypeOK /\ requests \in Nat /\ ~up
  BY BoundParts DEF New
<1>1. /\ IsFiniteSet(Cached(j)') /\ Cardinality(Cached(j)') \in Nat
      /\ Cardinality(Cached(j)') <= 1
  BY <1>0, ListKinds, RebuildEntries DEF New
<1>2. ticker' = Waiting /\ Busy' = {} /\ requests' = requests
  BY <1>0 DEF NInv, Down, New, Busy
<1>3. ticker'.due[j] = 0 /\ Held(j)' = 0
  BY <1>2 DEF Waiting, NothingDue, Held, Holds
<1>4. Cardinality(Busy') = 0
  BY <1>2, FS_EmptySet
<1>5. Cardinality(Cached(j)') + ticker'.due[j] + Held(j)' + Cardinality(Busy') <= requests' + 1
  BY <1>0, <1>1, <1>2, <1>3, <1>4
<1> QED BY <1>1, <1>5 DEF Bound

LEMMA RequestEntries ==
  ASSUME NInv, TypeOK', NEW h \in Handler, NEW j \in Job,
         \/ CreateJob(h, j) \/ ReadJob(h, j, "read") \/ ReadJob(h, j, "trigger")
         \/ DeleteJob(h, j)
  PROVE  \A k \in Job : Bound(k)'
<1>0. TypeOK /\ requests \in Nat
  BY BoundParts
<1>1. requests' = requests + 1 /\ handler[h].pc = "idle" /\ UNCHANGED <<cache, ticker>>
  BY DEF CreateJob, ReadJob, DeleteJob, Arrive
<1>2. ASSUME NEW k \in Handler \ {h} PROVE handler'[k].pc = handler[k].pc
  <2>1. CASE CreateJob(h, j)
    <3> DEFINE m == Missed(h, j)
    <3>1. handler' = [m EXCEPT ![h].pc = "reload"]
      BY <2>1 DEF CreateJob
    <3>2. m[k].pc = handler[k].pc
      BY <1>0 DEF Missed, TypeOK, Request
    <3>3. m \in [Handler -> Request]
      BY <1>0, MissedType
    <3> HIDE DEF m
    <3> QED BY <3>1, <3>2, <3>3
  <2>2. CASE ReadJob(h, j, "read") \/ ReadJob(h, j, "trigger") \/ DeleteJob(h, j)
    BY <1>0, <2>2 DEF ReadJob, DeleteJob, TypeOK
  <2> QED BY <2>1, <2>2
<1>3. Cardinality(Busy') <= Cardinality(Busy) + 1
  BY <1>1, <1>2, BusyStep
<1> QED BY <1>0, <1>1, <1>3, BusyType, BoundRequest

LEMMA RequestStepEntries ==
  ASSUME NInv, TypeOK', NEW h \in Handler, RequestStep(h)
  PROVE  \A k \in Job : Bound(k)'
<1>0. TypeOK /\ requests \in Nat /\ handler[h].job \in Job /\ handler[h].list \in Listing
  BY BoundParts, TimerJobsAssumption DEF TypeOK, Request, NInv, IInv
<1>1. requests' = requests /\ handler[h].pc # "idle" /\ ticker' = ticker
  BY DEF RequestStep, UpdateJob, FireJob, ReloadLists, ReloadRebuilds
<1>2. ASSUME NEW k \in Handler \ {h} PROVE handler'[k].pc = handler[k].pc
  <2>1. CASE UpdateJob(h)
    <3> DEFINE m == Missed(h, handler[h].job)
    <3>1. handler' = [m EXCEPT ![h] = [NoRequest EXCEPT !.pc = "reload"]]
      BY <2>1 DEF UpdateJob
    <3>2. m[k].pc = handler[k].pc
      BY <1>0 DEF Missed, TypeOK, Request
    <3>3. m \in [Handler -> Request]
      BY <1>0, MissedType
    <3> HIDE DEF m
    <3> QED BY <3>1, <3>2, <3>3
  <2>2. CASE FireJob(h) \/ ReloadLists(h) \/ ReloadRebuilds(h)
    BY <1>0, <2>2 DEF FireJob, ReloadLists, ReloadRebuilds, TypeOK
  <2> QED BY <2>1, <2>2 DEF RequestStep
<1>3. CASE ~ReloadRebuilds(h)
  <2>1. cache' = cache
    BY <1>3 DEF RequestStep, UpdateJob, FireJob, ReloadLists
  <2>2. Cardinality(Busy') <= Cardinality(Busy)
    BY <1>1, <1>2, BusyStep
  <2> QED BY <1>0, <1>1, <2>1, <2>2, BusyType, BoundRequest
<1>4. CASE ReloadRebuilds(h)
  <2>1. handler'[h].pc = "idle"
    BY <1>0, <1>4 DEF ReloadRebuilds, TypeOK, NoRequest
  <2>2. Cardinality(Busy') = Cardinality(Busy) - 1
    BY <1>1, <1>2, <2>1, BusyStep
  <2>3. ASSUME NEW k \in Job PROVE Bound(k)'
    <3>1. /\ IsFiniteSet(Cached(k)') /\ Cardinality(Cached(k)') \in Nat
          /\ Cardinality(Cached(k)') <= 1
      BY <1>0, <1>4, RebuildEntries DEF ReloadRebuilds
    <3>2. Held(k)' = Held(k)
      BY <1>1 DEF Held
    <3>3. /\ Cardinality(Cached(k)) + ticker.due[k] + Held(k) + Cardinality(Busy) <= requests + 1
          /\ Cardinality(Cached(k)) \in Nat /\ ticker.due[k] \in Nat /\ Held(k) \in {0, 1}
      BY BoundParts DEF Bound
    <3>4. Cardinality(Cached(k)') + ticker'.due[k] + Held(k)' + Cardinality(Busy')
            <= requests' + 1
      BY <1>0, <1>1, <2>2, <3>1, <3>2, <3>3, BusyType
    <3> QED BY <3>1, <3>4 DEF Bound
  <2> QED BY <2>3
<1> QED BY <1>3, <1>4

\* What is due at a tick leaves the cache.
LEMMA TickEntries ==
  ASSUME NInv, TypeOK', Tick
  PROVE  \A j \in Job : Bound(j)'
<1> SUFFICES ASSUME NEW j \in Job PROVE Bound(j)'
  OBVIOUS
<1>0. /\ TypeOK /\ Bound(j) /\ ticker.pc = "wait"
      /\ ticker.due[j] = 0 /\ Held(j) = 0
  BY BoundParts DEF Tick, NInv, IInv, Resting, Held, Holds
<1> DEFINE c == cache[<<j, 0>>]
<1> DEFINE Z == {0} \X (1..c)
<1> DEFINE C == Cached(j)'
<1>1. c \in Nat /\ 0 \in 0..Period
  BY <1>0, TimerJobsAssumption DEF TypeOK
<1>2. IsFiniteSet(Z) /\ Cardinality(Z) = c
  <2>1. IsFiniteSet({0}) /\ Cardinality({0}) = 1
    BY FS_Singleton
  <2>2. IsFiniteSet(1..c) /\ Cardinality(1..c) = c
    <3>1. IsFiniteSet(1..c) /\ Cardinality(1..c) = IF 1 > c THEN 0 ELSE c - 1 + 1
      <4> HIDE DEF c
      <4> QED BY <1>1, FS_Interval
    <3> HIDE DEF c
    <3> QED BY <1>1, <3>1
  <2>3. IsFiniteSet(Z) /\ Cardinality(Z) = Cardinality({0}) * Cardinality(1..c)
    BY <2>1, <2>2, FS_Product
  <2>4. Cardinality(Z) = 1 * c
    BY <2>1, <2>2, <2>3
  <2> HIDE DEF c, Z
  <2> QED BY <1>1, <2>3, <2>4
<1>3. ASSUME NEW t \in 0..Period
      PROVE  cache'[<<j, t>>] = IF t = 0 THEN 0 ELSE cache[<<j, t>>]
  <2>1. <<j, t>> \in DOMAIN cache
    BY <1>0 DEF TypeOK
  <2> QED BY <2>1 DEF Tick
<1>4. C \cup Z = Cached(j)
  <2>1. ASSUME NEW e \in C PROVE e \in Cached(j)
    <3>1. PICK t \in 0..Period : e \in {t} \X (1..cache'[<<j, t>>])
      BY DEF Cached
    <3>2. PICK n \in 1..cache'[<<j, t>>] : e = <<t, n>>
      BY <3>1
    <3>3. n \in 1..cache[<<j, t>>]
      BY <1>3, <3>2
    <3> QED BY <3>2, <3>3, CachedPair
  <2>2. ASSUME NEW e \in Z PROVE e \in Cached(j)
    BY <1>1 DEF Cached
  <2>3. ASSUME NEW e \in Cached(j) PROVE e \in C \cup Z
    <3>1. e = <<e[1], e[2]>> /\ e[1] \in 0..Period /\ e[2] \in 1..cache[<<j, e[1]>>]
      BY CachedPair
    <3>2. CASE e[1] = 0
      BY <3>1, <3>2
    <3>3. CASE e[1] # 0
      <4>1. e[2] \in 1..cache'[<<j, e[1]>>]
        BY <1>3, <3>1, <3>3
      <4>2. e \in {e[1]} \X (1..cache'[<<j, e[1]>>])
        BY <3>1, <4>1
      <4> QED BY <3>1, <4>2 DEF Cached
    <3> QED BY <3>2, <3>3
  <2> QED BY <2>1, <2>2, <2>3
<1>5. C \cap Z = {}
  <2> SUFFICES ASSUME NEW e \in C, e \in Z PROVE FALSE
    OBVIOUS
  <2>1. PICK t \in 0..Period : e \in {t} \X (1..cache'[<<j, t>>])
    BY DEF Cached
  <2>2. t = 0
    BY <2>1
  <2>3. cache'[<<j, t>>] = 0
    BY <1>3, <2>2
  <2> QED BY <2>1, <2>3
<1>6. IsFiniteSet(C) /\ Cardinality(C) \in Nat
  BY <1>0, <1>4, FS_Subset, FS_CardinalityType DEF Bound
<1>7. Cardinality(Cached(j)) = Cardinality(C) + c
  <2> HIDE DEF C, Z, c
  <2> QED BY <1>2, <1>4, <1>5, <1>6, SplitCardinality
<1>8. ticker'.due[j] = c /\ Held(j)' = 0
  <2> DEFINE due == [k \in Job |-> cache[<<k, 0>>]]
  <2>1. due \in [Job -> Nat] /\ due[j] = c
    BY <1>0, TimerJobsAssumption DEF TypeOK
  <2>2. ticker' = Rest(due)
    BY DEF Tick
  <2> HIDE DEF due
  <2> QED BY <1>0, <2>1, <2>2, RestHolds DEF Held
<1>9. Busy' = Busy /\ requests' = requests
  BY DEF Tick, Busy
<1> HIDE DEF C, c
<1>10. Cardinality(C) + ticker'.due[j] + Held(j)'
         <= Cardinality(Cached(j)) + ticker.due[j] + Held(j)
  BY <1>0, <1>1, <1>6, <1>7, <1>8
<1> QED BY <1>0, <1>6, <1>9, <1>10, BoundStays, SameBusy DEF C

\* An entry that is appended is the one the ticker held.
LEMMA AppendEntries ==
  ASSUME NInv, TypeOK', Append
  PROVE  \A j \in Job : Bound(j)'
<1> SUFFICES ASSUME NEW j \in Job PROVE Bound(j)'
  OBVIOUS
<1>0. /\ TypeOK /\ Bound(j) /\ ticker.pc = "append" /\ ticker \in Ticker
      /\ ticker.due \in [Job -> Nat] /\ ticker.job \in Job /\ ticker.next \in Time
      /\ Cardinality(Cached(j)) \in Nat
  BY BoundParts DEF Append, TypeOK, Ticker
<1>1. ticker'.due[j] = ticker.due[j] /\ Held(j)' = 0
  BY <1>0, RestHolds DEF Append, Held
<1>2. Held(j) = IF ticker.job = j THEN 1 ELSE 0
  BY <1>0 DEF Held, Holds
<1> DEFINE at == IF ticker.next = Past THEN 0 ELSE ticker.next
<1>3. at \in 0..Period /\ cache' = [cache EXCEPT ![<<ticker.job, at>>] = @ + 1]
  BY <1>0, TimerJobsAssumption DEF Append, Time, Past
<1> HIDE DEF at
<1>4. Busy' = Busy /\ requests' = requests
  BY DEF Append, Busy
<1>5. CASE ticker.job # j
  <2>1. \A t \in 0..Period : cache'[<<j, t>>] = cache[<<j, t>>]
    BY <1>0, <1>3, <1>5 DEF TypeOK
  <2>2. Cached(j)' = Cached(j)
    BY <2>1 DEF Cached
  <2> QED BY <1>0, <1>1, <1>2, <1>4, <1>5, <2>2, BoundStays, SameBusy DEF Bound
<1>6. CASE ticker.job = j
  <2> DEFINE last == <<at, cache[<<j, at>>] + 1>>
  <2>1. Cached(j)' \subseteq Cached(j) \cup {last}
    <3> SUFFICES ASSUME NEW e \in Cached(j)', e \notin Cached(j) PROVE e = last
      OBVIOUS
    <3>1. PICK t \in 0..Period : e \in {t} \X (1..cache'[<<j, t>>])
      BY DEF Cached
    <3>2. PICK n \in 1..cache'[<<j, t>>] : e = <<t, n>>
      BY <3>1
    <3>3. n \notin 1..cache[<<j, t>>]
      BY <3>2, CachedPair
    <3>4. cache[<<j, t>>] \in Nat
      BY <1>0 DEF TypeOK
    <3>5. t = at /\ cache'[<<j, t>>] = cache[<<j, t>>] + 1
      BY <1>0, <1>3, <1>6, <3>2, <3>3 DEF TypeOK
    <3>6. n = cache[<<j, t>>] + 1
      BY <3>2, <3>3, <3>4, <3>5
    <3> QED BY <3>2, <3>5, <3>6
  <2> HIDE DEF last
  <2>2. /\ IsFiniteSet(Cached(j) \cup {last})
        /\ Cardinality(Cached(j) \cup {last}) \in Nat
        /\ Cardinality(Cached(j) \cup {last}) <= Cardinality(Cached(j)) + 1
    <3>1. IsFiniteSet(Cached(j))
      BY <1>0 DEF Bound
    <3>2. /\ IsFiniteSet(Cached(j) \cup {last})
          /\ Cardinality(Cached(j) \cup {last})
               = IF last \in Cached(j) THEN Cardinality(Cached(j)) ELSE Cardinality(Cached(j)) + 1
      BY <3>1, FS_AddElement
    <3> QED BY <1>0, <3>2
  <2>3. /\ IsFiniteSet(Cached(j)') /\ Cardinality(Cached(j)') \in Nat
        /\ Cardinality(Cached(j)') <= Cardinality(Cached(j)) + 1
    BY <1>0, <2>1, <2>2, FS_Subset, FS_CardinalityType
  <2>4. Cardinality(Cached(j)') + ticker'.due[j] + Held(j)'
          <= Cardinality(Cached(j)) + ticker.due[j] + Held(j)
    BY <1>0, <1>1, <1>2, <1>6, <2>3
  <2> QED BY <1>4, <2>3, <2>4, BoundStays, SameBusy
<1> QED BY <1>5, <1>6

\* The other steps of the ticker hold what was due or drop it.
LEMMA TickerEntries ==
  ASSUME NInv, TypeOK', TickerStep
  PROVE  \A j \in Job : Bound(j)'
<1>0. /\ TypeOK /\ ticker \in Ticker /\ ticker.due \in [Job -> Nat] /\ ticker.job \in Job
  BY DEF NInv, IInv, TypeOK, Ticker
<1>s. ASSUME NEW j \in Job, UNCHANGED <<cache, handler, requests>>,
             ticker'.due[j] + Held(j)' <= ticker.due[j] + Held(j)
      PROVE  Bound(j)'
  <2>1. Cached(j)' = Cached(j) /\ Busy' = Busy
    BY <1>s DEF Cached, Busy
  <2>2. /\ Cardinality(Cached(j)) \in Nat /\ ticker.due[j] \in Nat
        /\ Held(j) \in {0, 1} /\ IsFiniteSet(Cached(j))
    BY BoundParts DEF Bound
  <2>3. ticker'.due[j] \in Nat /\ Held(j)' \in {0, 1}
    BY DEF TypeOK, Ticker, Held
  <2>4. Cardinality(Cached(j)') + ticker'.due[j] + Held(j)'
          <= Cardinality(Cached(j)) + ticker.due[j] + Held(j)
    BY <1>s, <2>1, <2>2, <2>3
  <2> QED BY <1>s, <2>1, <2>2, <2>4, BoundStays, SameBusy
<1>1. ASSUME NEW k \in Job, TakeDue(k) PROVE \A j \in Job : Bound(j)'
  <2> SUFFICES ASSUME NEW j \in Job PROVE Bound(j)'
    OBVIOUS
  <2> DEFINE left == [ticker.due EXCEPT ![k] = @ - 1]
  <2>1. left \in [Job -> Nat] /\ ticker.due[k] > 0 /\ ticker.pc = "due"
    BY <1>0, <1>1 DEF TakeDue
  <2>2. /\ left[j] = IF j = k THEN ticker.due[j] - 1 ELSE ticker.due[j]
        /\ ticker.due[j] \in Nat
    BY <1>0
  <2>3. Held(j) = 0
    BY <2>1 DEF Held, Holds
  <2>4. ticker'.due[j] + Held(j)' <= ticker.due[j] + Held(j)
    <3>1. CASE Armed(k)
      <4>1. ticker' = [ticker EXCEPT !.pc = "read", !.due = left, !.job = k]
        BY <1>1, <3>1 DEF TakeDue
      <4> HIDE DEF left
      <4>2. ticker'.pc = "read" /\ ticker'.due = left /\ ticker'.job = k
        BY <1>0, <4>1 DEF Ticker
      <4>3. Held(j)' = IF j = k THEN 1 ELSE 0
        BY <4>2 DEF Held, Holds
      <4> QED BY <2>2, <2>3, <4>2, <4>3
    <3>2. CASE ~Armed(k)
      <4>1. ticker' = Rest(left)
        BY <1>1, <3>2 DEF TakeDue
      <4> HIDE DEF left
      <4>2. ticker'.due = left /\ Held(j)' = 0
        BY <1>0, <2>1, <4>1, RestHolds DEF Held
      <4> QED BY <2>2, <2>3, <4>2
    <3> QED BY <3>1, <3>2
  <2> QED BY <1>1, <1>s, <2>4 DEF TakeDue
<1>2. CASE FireTimerJob
  <2> SUFFICES ASSUME NEW j \in Job PROVE Bound(j)'
    OBVIOUS
  <2>1. /\ ticker.pc = "read" /\ ticker'.pc = "fired"
        /\ ticker'.due = ticker.due /\ ticker'.job = ticker.job
    BY <1>0, <1>2 DEF FireTimerJob, Ticker
  <2>2. Held(j)' = Held(j) /\ ticker.due[j] \in Nat /\ Held(j) \in {0, 1}
    BY <1>0, <2>1 DEF Held, Holds
  <2> QED BY <1>2, <1>s, <2>1, <2>2 DEF FireTimerJob
<1>3. CASE Refire
  <2> SUFFICES ASSUME NEW j \in Job PROVE Bound(j)'
    OBVIOUS
  <2>0. ticker.pc = "fired" /\ ticker.due[j] \in Nat /\ Held(j) \in {0, 1}
    BY <1>0, <1>3 DEF Refire, Held
  <2>1. ticker'.due = ticker.due /\ (Held(j)' = 0 \/ Held(j)' = Held(j))
    <3>1. CASE Once(ticker.job)
      <4>1. ticker' = Rest(ticker.due)
        BY <1>3, <3>1 DEF Refire
      <4> QED BY <1>0, <4>1, RestHolds DEF Held
    <3>2. CASE ~Once(ticker.job)
      <4>1. PICK d \in NextFireTime :
              ticker' = [ticker EXCEPT !.pc = "append", !.next = Later(d, ticker.age)]
        BY <1>3, <3>2 DEF Refire
      <4>2. ticker'.pc = "append" /\ ticker'.due = ticker.due /\ ticker'.job = ticker.job
        BY <1>0, <4>1 DEF Ticker
      <4> QED BY <2>0, <4>2 DEF Held, Holds
    <3> QED BY <3>1, <3>2
  <2>2. ticker'.due[j] + Held(j)' <= ticker.due[j] + Held(j)
    BY <2>0, <2>1
  <2> QED BY <1>3, <1>s, <2>2 DEF Refire
<1> QED BY <1>1, <1>2, <1>3, TickEntries, AppendEntries DEF TickerStep

\* As time passes every entry moves one unit nearer, and those of the next
\* unit join those that are overdue.
LEMMA AdvanceEntries ==
  ASSUME NInv, TypeOK', Advance
  PROVE  \A j \in Job : Bound(j)'
<1> SUFFICES ASSUME NEW j \in Job PROVE Bound(j)'
  OBVIOUS
<1>0. TypeOK /\ Bound(j) /\ Cardinality(Cached(j)) \in Nat /\ ticker.due[j] \in Nat
      /\ Held(j) \in {0, 1}
  BY BoundParts
<1> DEFINE c(t) == cache[<<j, t>>]
<1>1. ASSUME NEW t \in 0..Period PROVE c(t) \in Nat
  BY <1>0 DEF TypeOK
<1>2. ASSUME NEW t \in 0..Period
      PROVE  cache'[<<j, t>>] = (IF t = 0 THEN c(t) ELSE 0)
                                  + IF t = Period THEN 0 ELSE c(t + 1)
  BY <1>0, AdvanceParts
<1> DEFINE from(e) == IF e[1] = 0 /\ e[2] <= c(0) THEN e
                      ELSE IF e[1] = 0 THEN <<1, e[2] - c(0)>>
                      ELSE <<e[1] + 1, e[2]>>
<1> DEFINE f == [e \in Cached(j)' |-> from(e)]
<1>3. ASSUME NEW e \in Cached(j)'
      PROVE  /\ e = <<e[1], e[2]>> /\ e[1] \in 0..Period /\ e[2] \in Nat \ {0}
             /\ e[2] <= cache'[<<j, e[1]>>]
  <2>1. PICK t \in 0..Period : e \in {t} \X (1..cache'[<<j, t>>])
    BY DEF Cached
  <2>2. PICK n \in 1..cache'[<<j, t>>] : e = <<t, n>>
    BY <2>1
  <2>3. cache'[<<j, t>>] \in Nat
    BY DEF TypeOK
  <2> QED BY <2>2, <2>3
<1>c. c(0) \in Nat
  BY <1>1, TimerJobsAssumption
<1>4. ASSUME NEW e \in Cached(j)' PROVE from(e) \in Cached(j)
  <2>1. /\ e = <<e[1], e[2]>> /\ e[1] \in 0..Period /\ e[2] \in Nat \ {0}
        /\ e[2] <= cache'[<<j, e[1]>>]
    BY <1>3
  <2>2. cache'[<<j, e[1]>>] = (IF e[1] = 0 THEN c(e[1]) ELSE 0)
                                 + IF e[1] = Period THEN 0 ELSE c(e[1] + 1)
    BY <1>2, <2>1
  <2>3. CASE e[1] = 0 /\ e[2] <= c(0)
    <3>1. from(e) = <<0, e[2]>> /\ e[2] \in 1..c(0) /\ 0 \in 0..Period
      BY <1>c, <2>1, <2>3
    <3> QED BY <3>1, CachedPair
  <2>4. CASE e[1] = 0 /\ ~(e[2] <= c(0))
    <3>1. 1 \in 0..Period /\ 0 # Period /\ c(1) \in Nat
      BY <1>1, TimerJobsAssumption
    <3>2. cache'[<<j, e[1]>>] = c(0) + c(1)
      BY <2>2, <2>4, <3>1
    <3> DEFINE n == e[2] - c(0)
    <3>3. from(e) = <<1, n>>
      BY <2>4
    <3>4. n \in 1..c(1)
      BY <1>c, <2>1, <2>4, <3>1, <3>2
    <3> HIDE DEF n
    <3> QED BY <3>1, <3>3, <3>4, CachedPair
  <2>5. CASE e[1] # 0
    <3>1. e[1] # Period
      BY <2>1, <2>2, <2>5
    <3>2. e[1] + 1 \in 0..Period
      BY <2>1, <3>1, TimerJobsAssumption
    <3>3. c(e[1] + 1) \in Nat
      BY <1>1, <3>2
    <3>4. e[2] \in 1..c(e[1] + 1)
      BY <2>1, <2>2, <2>5, <3>1, <3>3
    <3>5. from(e) = <<e[1] + 1, e[2]>>
      BY <2>5
    <3> DEFINE t == e[1] + 1
    <3> HIDE DEF t
    <3>6. <<t, e[2]>> \in Cached(j)
      BY <3>2, <3>4, CachedPair DEF t
    <3> QED BY <3>5, <3>6 DEF t
  <2> QED BY <2>3, <2>4, <2>5
<1>5. ASSUME NEW e1 \in Cached(j)', NEW e2 \in Cached(j)', from(e1) = from(e2)
      PROVE  e1 = e2
  <2>0. ASSUME NEW e \in Cached(j)'
        PROVE  e = <<e[1], e[2]>> /\ e[1] \in Nat /\ e[2] \in Nat \ {0}
    <3>1. e = <<e[1], e[2]>> /\ e[1] \in 0..Period /\ e[2] \in Nat \ {0}
      BY <1>3
    <3> HIDE DEF from, f
    <3> QED BY <3>1
  <2>1. /\ e1 = <<e1[1], e1[2]>> /\ e1[1] \in Nat /\ e1[2] \in Nat \ {0}
        /\ e2 = <<e2[1], e2[2]>> /\ e2[1] \in Nat /\ e2[2] \in Nat \ {0}
    <3> HIDE DEF from, f
    <3> QED BY <2>0
  <2>2. from(e1)[1] = from(e2)[1] /\ from(e1)[2] = from(e2)[2]
    BY <1>5
  <2>3. ASSUME NEW e \in Cached(j)'
        PROVE  /\ from(e)[1] = IF e[1] = 0 /\ e[2] <= c(0) THEN 0 ELSE e[1] + 1
               /\ from(e)[2] = IF e[1] = 0 /\ ~(e[2] <= c(0)) THEN e[2] - c(0) ELSE e[2]
    <3>1. CASE e[1] = 0 /\ e[2] <= c(0)
      BY <1>3, <3>1
    <3>2. CASE e[1] = 0 /\ ~(e[2] <= c(0))
      BY <1>3, <3>2
    <3>3. CASE e[1] # 0
      BY <1>3, <3>3
    <3> QED BY <3>1, <3>2, <3>3
  <2> DEFINE c0 == c(0)
  <2>4. /\ (IF e1[1] = 0 /\ e1[2] <= c0 THEN 0 ELSE e1[1] + 1)
             = IF e2[1] = 0 /\ e2[2] <= c0 THEN 0 ELSE e2[1] + 1
        /\ (IF e1[1] = 0 /\ ~(e1[2] <= c0) THEN e1[2] - c0 ELSE e1[2])
             = IF e2[1] = 0 /\ ~(e2[2] <= c0) THEN e2[2] - c0 ELSE e2[2]
    BY <2>2, <2>3
  <2>5. c0 \in Nat
    BY <1>c
  <2> HIDE DEF c0
  <2>6. e1[1] = e2[1] /\ e1[2] = e2[2]
    BY <2>1, <2>4, <2>5
  <2> QED BY <2>1, <2>6
<1>6. f \in Injection(Cached(j)', Cached(j))
  <2> HIDE DEF from
  <2> QED BY <1>4, <1>5 DEF Injection, IsInjective
<1>7. IsFiniteSet(Cached(j)') /\ Cardinality(Cached(j)') <= Cardinality(Cached(j))
  <2> HIDE DEF f
  <2> QED BY <1>0, <1>6, FS_Injection DEF Bound
<1>8. ticker'.due[j] = ticker.due[j] /\ Held(j)' = Held(j)
  BY <1>0, AdvanceParts DEF Held, Holds
<1>9. Busy' = Busy /\ requests' = requests
  <2>1. \A h \in Handler : handler'[h].pc = handler[h].pc
    BY <1>0, AdvanceParts
  <2> QED BY <2>1 DEF Advance, Busy
<1>10. Cardinality(Cached(j)') \in Nat
  BY <1>7, FS_CardinalityType
<1>11. Cardinality(Cached(j)') + ticker'.due[j] + Held(j)'
         <= Cardinality(Cached(j)) + ticker.due[j] + Held(j)
  BY <1>0, <1>7, <1>8, <1>10
<1> QED BY <1>7, <1>9, <1>11, BoundStays, SameBusy

LEMMA CrashEntries ==
  ASSUME NInv, TypeOK', Crash
  PROVE  \A j \in Job : Bound(j)'
<1> SUFFICES ASSUME NEW j \in Job PROVE Bound(j)'
  OBVIOUS
<1>1. Cached(j)' = {}
  <2> SUFFICES ASSUME NEW t \in 0..Period PROVE {t} \X (1..cache'[<<j, t>>]) = {}
    BY DEF Cached
  <2>1. cache'[<<j, t>>] = 0
    BY DEF Crash, NoEntries
  <2> QED BY <2>1
<1>2. Busy' = {} /\ ticker'.due[j] = 0 /\ Held(j)' = 0
  BY DEF Crash, Busy, NoRequest, Waiting, NothingDue, Held, Holds
<1>3. requests' \in Nat
  BY TimerJobsAssumption DEF TypeOK
<1>4. IsFiniteSet(Cached(j)') /\ Cardinality(Cached(j)') = 0 /\ Cardinality(Busy') = 0
  BY <1>1, <1>2, FS_EmptySet
<1> QED BY <1>2, <1>3, <1>4 DEF Bound

LEMMA DownNext == NInv /\ [Next]_vars => Down'
<1> SUFFICES ASSUME NInv, [Next]_vars, ~up'
             PROVE  cache' = NoEntries /\ ticker' = Waiting /\ Busy' = {}
  BY DEF Down
<1>0. TypeOK
  BY DEF NInv, IInv
<1>1. CASE UNCHANGED vars
  BY <1>1 DEF vars, NInv, Down, Busy
<1>2. CASE Crash
  BY <1>2 DEF Crash, Busy, NoRequest
<1>3. CASE Next /\ ~Crash
  <2>1. ~up
    BY <1>3 DEF Next, New, CreateJob, ReadJob, DeleteJob, RequestStep, UpdateJob, FireJob,
                ReloadLists, ReloadRebuilds, TickerStep, Tick, TakeDue, FireTimerJob, Refire,
                Append, Deliver, EventStep, FireEventJob, EventJobFired, Advance, Arrive
  <2>2. cache = NoEntries /\ ticker = Waiting /\ Busy = {}
    BY <2>1 DEF NInv, Down
  <2>3. ticker.pc = "wait" /\ ticker.next = Past /\ \A j \in Job : ticker.due[j] = 0
    BY <2>2 DEF Waiting, NothingDue
  <2>4. \A h \in Handler : handler[h].pc = "idle"
    BY <2>2 DEF Busy
  <2>5. CASE \E d \in Delivery : Deliver(d) \/ EventStep(d)
    BY <2>2, <2>5 DEF Deliver, EventStep, FireEventJob, EventJobFired, Busy
  <2>6. CASE Advance
    <3>1. Busy' = {}
      BY <1>0, <2>4, <2>6, AdvanceParts DEF Busy
    <3>2. ticker' = Waiting
      <4>1. ticker \in Ticker
        BY <1>0 DEF TypeOK
      <4>2. Nearer(Past) = Past
        BY DEF Nearer, Later, Past
      <4>3. ticker' = [ticker EXCEPT !.next = Past, !.age = ticker.age]
        BY <2>3, <2>6, <4>1, <4>2 DEF Advance, Ticker
      <4> QED BY <2>2, <2>3, <4>1, <4>3 DEF Ticker, Waiting
    <3>3. cache' = NoEntries
      <4>1. ASSUME NEW j \in Job, NEW t \in 0..Period PROVE cache'[<<j, t>>] = 0
        <5>1. \A s \in 0..Period : cache[<<j, s>>] = 0
          BY <2>2 DEF NoEntries
        <5>2. cache'[<<j, t>>] = (IF t = 0 THEN cache[<<j, t>>] ELSE 0)
                                   + IF t = Period THEN 0 ELSE cache[<<j, t + 1>>]
          BY <1>0, <2>6, AdvanceParts
        <5>3. t # Period => t + 1 \in 0..Period
          BY TimerJobsAssumption
        <5> QED BY <5>1, <5>2, <5>3
      <4>2. cache' = [e \in Job \X (0..Period) |-> cache'[e]]
        BY <1>0, <2>6 DEF Advance, TypeOK
      <4>3. \A e \in Job \X (0..Period) : cache'[e] = 0
        BY <4>1
      <4> QED BY <4>2, <4>3 DEF NoEntries
    <3> QED BY <3>1, <3>2, <3>3
  <2>7. CASE TickerStep
    <3>1. CASE Tick
      BY <2>1, <3>1 DEF Tick
    <3> QED BY <2>3, <2>7, <3>1 DEF TickerStep, TakeDue, FireTimerJob, Refire, Append
  <2>8. CASE \E h \in Handler : RequestStep(h)
    BY <2>4, <2>8 DEF RequestStep, UpdateJob, FireJob, ReloadLists, ReloadRebuilds
  <2>9. CASE New
    BY <2>9, ~up' DEF New
  <2>10. CASE \E h \in Handler, j \in Job :
                CreateJob(h, j) \/ ReadJob(h, j, "read") \/ ReadJob(h, j, "trigger")
                  \/ DeleteJob(h, j)
    BY <2>1, <2>10 DEF CreateJob, ReadJob, DeleteJob, Arrive
  <2> QED BY <1>3, <2>5, <2>6, <2>7, <2>8, <2>9, <2>10 DEF Next
<1> QED BY <1>1, <1>2, <1>3

LEMMA NInvNext == NInv /\ [Next]_vars => NInv'
<1> SUFFICES ASSUME NInv, [Next]_vars PROVE NInv'
  OBVIOUS
<1>0. TypeOK' /\ IInv'
  BY TypeNext, IInvNext DEF NInv, IInv
<1>d. Down'
  BY DownNext
<1>1. \A j \in Job : Bound(j)'
  <2>1. CASE UNCHANGED vars
    BY <1>0, <2>1, SameBusy, BoundRequest DEF vars, Busy
  <2>2. CASE \E d \in Delivery : Deliver(d) \/ EventStep(d)
    <3>1. UNCHANGED <<cache, ticker, handler, requests>>
      BY <2>2 DEF Deliver, EventStep, FireEventJob, EventJobFired
    <3>2. Busy' = Busy
      BY <3>1 DEF Busy
    <3> QED BY <1>0, <3>1, <3>2, SameBusy, BoundRequest
  <2>3. CASE Next /\ ~\E d \in Delivery : Deliver(d) \/ EventStep(d)
    BY <1>0, <2>3, StartEntries, RequestEntries, RequestStepEntries, TickerEntries,
       AdvanceEntries, CrashEntries DEF Next
  <2> QED BY <2>1, <2>2, <2>3
<1> QED BY <1>0, <1>d, <1>1 DEF NInv

\* A job has no more entries, in the cache and taken from it, than there have
\* been requests, and one: a rebuild during a firing adds one, and nothing
\* else does, however long the plugin runs (scheduler.go:104, 183).
THEOREM EntriesFollowRequests == Spec => []EntriesBounded
<1>1. NInv => EntriesBounded
  <2> SUFFICES ASSUME NInv, NEW j \in Job PROVE Entries(j) <= requests + 1
    BY DEF EntriesBounded
  <2>1. /\ Cardinality(Cached(j)) + ticker.due[j] + Held(j) + Cardinality(Busy) <= requests + 1
        /\ Cardinality(Cached(j)) \in Nat /\ ticker.due[j] \in Nat
        /\ Held(j) \in {0, 1} /\ requests \in Nat
    BY BoundParts DEF Bound
  <2>2. Entries(j) = Cardinality(Cached(j)) + ticker.due[j] + Held(j)
    BY DEF Entries, Held, Holds
  <2> QED BY <2>1, <2>2, BusyType
<1> QED BY NInvInit, NInvNext, <1>1, PTL DEF Spec
=============================================================================
