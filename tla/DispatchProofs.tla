----------------------------- MODULE DispatchProofs ----------------------------
(***************************************************************************)
(* What holds of the dispatch queue for any number of agents, cards,       *)
(* entries, events and goroutines: the types, the limits, that an entry is *)
(* dispatched exactly while one goroutine works on it, and that triages    *)
(* are not queued twice but by events served at once.                      *)
(***************************************************************************)
EXTENDS Dispatch, FiniteSetTheorems, WellFoundedInduction, TLAPS

(***************************************************************************)
(* The constants of the model have their types.                            *)
(***************************************************************************)
LEMMA ConstantTypes ==
  /\ NoCard \in Card /\ NoAgent \in Agent /\ NoOne \in Delivery
  /\ NoEvent \in Serving /\ Idle \in Working /\ Waiting \in Ticker
<1>1. NoCard \in Card /\ NoAgent \in Agent /\ NoOne \in Delivery
  BY DispatchAssumption DEF NoCard, NoAgent, NoOne
<1>2. 0 \in 0..MaxAttempts
  BY DispatchAssumption
<1>3. Idle \in Working
  BY <1>2 DEF Idle, Working, Phase
<1> QED BY <1>1, <1>3 DEF NoEvent, Serving, Waiting, Ticker

\* The entries are as many as the length of the table.
LEMMA IdOf ==
  ASSUME entry \in Seq(Entry)
  PROVE  /\ Id \subseteq Nat \ {0} /\ DOMAIN entry = Id /\ Len(entry) \in Nat
         /\ \A e \in Id : entry[e] \in Entry
BY DEF Id

\* A status that changes leaves the table as long as it is, and every other
\* field of every entry.
LEMMA StatusKeeps ==
  ASSUME entry \in Seq(Entry), NEW e \in Nat,
         NEW status \in {"pending", "dispatched", "completed", "failed"},
         UpdateDispatchStatus(e, status)
  PROVE  /\ entry' \in Seq(Entry) /\ Id' = Id
         /\ \A f \in Id : /\ entry'[f].status = IF f = e THEN status ELSE entry[f].status
                          /\ entry'[f].kind = entry[f].kind
                          /\ entry'[f].card = entry[f].card
                          /\ entry'[f].agent = entry[f].agent
                          /\ entry'[f].by = entry[f].by
<1>1. /\ DOMAIN entry = Id /\ Len(entry) \in Nat /\ Id = 1..Len(entry)
      /\ \A f \in Id : entry[f] \in Entry
  BY IdOf DEF Id
<1>2. /\ entry' = [entry EXCEPT ![e].status = status] /\ DOMAIN entry' = Id
      /\ \A f \in Id : entry'[f] = IF f = e THEN [entry[f] EXCEPT !.status = status]
                                   ELSE entry[f]
  BY <1>1 DEF UpdateDispatchStatus
<1>3. \A f \in Id : /\ entry'[f] \in Entry
                    /\ entry'[f].status = IF f = e THEN status ELSE entry[f].status
                    /\ entry'[f].kind = entry[f].kind
                    /\ entry'[f].card = entry[f].card
                    /\ entry'[f].agent = entry[f].agent
                    /\ entry'[f].by = entry[f].by
  BY <1>1, <1>2 DEF Entry
<1>4. entry' \in Seq(Entry)
  <2>1. entry' \in [1..Len(entry) -> Entry]
    BY <1>1, <1>2, <1>3
  <2> QED BY <1>1, <2>1
<1>5. Id' = Id
  BY <1>1, <1>2, <1>4 DEF Id
<1> QED BY <1>3, <1>4, <1>5

\* A new entry is pending, and the ones before it stay.
LEMMA CreateKeeps ==
  ASSUME entry \in Seq(Entry), NEW kind \in {"triage", "reply"}, NEW c \in Card,
         NEW a \in Agent, NEW d \in Delivery, CreateDispatchEntry(kind, c, a, d)
  PROVE  /\ entry' \in Seq(Entry) /\ Id' = Id \cup {Len(entry) + 1}
         /\ Len(entry) + 1 \notin Id
         /\ \A e \in Id : entry'[e] = entry[e]
         /\ entry'[Len(entry) + 1] = [status |-> "pending", kind |-> kind, card |-> c,
                                      agent |-> a, by |-> d]
<1> DEFINE n == [status |-> "pending", kind |-> kind, card |-> c, agent |-> a, by |-> d]
<1>1. n \in Entry
  BY DEF Entry
<1>2. entry' = Append(entry, n)
  BY DEF CreateDispatchEntry
<1> HIDE DEF n
<1>3. entry' \in Seq(Entry) /\ Len(entry') = Len(entry) + 1 /\ Len(entry) \in Nat
  BY <1>1, <1>2
<1>4. \A e \in Id : entry'[e] = entry[e]
  BY <1>1, <1>2 DEF Id
<1>5. entry'[Len(entry) + 1] = n
  BY <1>1, <1>2
<1> QED BY <1>3, <1>4, <1>5 DEF Id, n

(***************************************************************************)
(* Type correctness.  An entry is closed before the first attempt, and is  *)
(* evaluated only where another attempt is left.                           *)
(***************************************************************************)
Counted ==
  \A g \in Runner : /\ AtWork(g) => runner[g].attempt = 0
                    /\ runner[g].pc = "evaluate" => runner[g].attempt < MaxAttempts

TInv == TypeOK /\ Counted

LEMMA TypeInit == Init => TInv
<1> SUFFICES ASSUME Init PROVE TInv
  OBVIOUS
<1>1. entry \in Seq(Entry) /\ col \in [Card -> Column]
  BY DispatchAssumption DEF Init
<1>2. 0 \in 0..MaxRetries /\ 0 \in 0..MaxCrashes
  BY DispatchAssumption
<1>3. Counted
  BY DEF Init, Counted, Idle, AtWork
<1> QED BY <1>1, <1>2, <1>3, ConstantTypes DEF Init, TypeOK, TInv

LEMMA MoveType ==
  ASSUME TypeOK, NEW g \in Runner, NEW name, MoveCard(g, name)
  PROVE  col' \in [Card -> Column]
BY DEF MoveCard, TypeOK

\* A goroutine that is given another state.
LEMMA PhaseType ==
  ASSUME TInv, NEW g \in Runner, NEW w \in Working, runner' = [runner EXCEPT ![g] = w],
         w.pc \in {"ask", "close"} => w.attempt = 0,
         w.pc = "evaluate" => w.attempt < MaxAttempts
  PROVE  runner' \in [Runner -> Working] /\ Counted'
BY DEF TInv, TypeOK, Counted, AtWork

LEMMA AttemptType ==
  ASSUME TInv, NEW g \in Runner, NEW execute \in BOOLEAN, Attempt(g, execute),
         runner[g].attempt < MaxAttempts
  PROVE  runner' \in [Runner -> Working] /\ Counted' /\ col' \in [Card -> Column]
<1>0. runner[g] \in Working /\ runner \in [Runner -> Working]
  BY DEF TInv, TypeOK
<1>1. CASE execute
  <2> DEFINE w == [runner[g] EXCEPT !.pc = "implement", !.attempt = @ + 1]
  <2>1. runner[g].attempt + 1 \in 0..MaxAttempts
    BY <1>0, DispatchAssumption DEF Working
  <2>2. w \in Working /\ w.pc = "implement"
    BY <1>0, <2>1 DEF Working, Phase
  <2>3. runner' = [runner EXCEPT ![g] = w]
    BY <1>0, <1>1 DEF Attempt, Working
  <2> HIDE DEF w
  <2>4. col' \in [Card -> Column]
    BY <1>1, MoveType DEF Attempt, TInv
  <2> QED BY <1>0, <2>2, <2>3, <2>4 DEF TInv, Counted, AtWork
<1>2. CASE ~execute
  <2>1. Idle \in Working /\ Idle.pc = "idle"
    BY ConstantTypes DEF Idle
  <2>2. runner' = [runner EXCEPT ![g] = Idle] /\ UNCHANGED col
    BY <1>2 DEF Attempt
  <2> QED BY <2>1, <2>2, PhaseType DEF TInv, TypeOK
<1> QED BY <1>1, <1>2

LEMMA RunnerType ==
  ASSUME TInv, NEW g \in Runner, RunnerStep(g) \/ Expire(g)
  PROVE  TInv'
<1>0. /\ runner \in [Runner -> Working] /\ runner[g] \in Working /\ runner[g].id \in Nat
      /\ runner[g].execute \in BOOLEAN /\ entry \in Seq(Entry) /\ TypeOK
  BY DEF TInv, TypeOK, Working
<1>i. Idle.pc = "idle" /\ Idle \in Working
  BY ConstantTypes DEF Idle
<1>l. ASSUME NEW name, LeaveLoop(g, name) PROVE TInv'
  <2>1. col' \in [Card -> Column]
    BY <1>0, <1>l, MoveType DEF LeaveLoop
  <2>2. runner' \in [Runner -> Working] /\ Counted'
    BY <1>i, <1>l, PhaseType DEF LeaveLoop
  <2> QED BY <1>l, <2>1, <2>2 DEF LeaveLoop, TInv, TypeOK
<1>1. CASE AskFails(g)
  <2>1. entry' \in Seq(Entry)
    BY <1>0, <1>1, StatusKeeps DEF AskFails
  <2>2. runner' \in [Runner -> Working] /\ Counted'
    BY <1>1, <1>i, PhaseType DEF AskFails
  <2> QED BY <1>1, <2>1, <2>2 DEF AskFails, TInv, TypeOK
<1>2. CASE CompleteDispatch(g)
  <2>1. entry' \in Seq(Entry)
    BY <1>0, <1>2, StatusKeeps DEF CompleteDispatch
  <2>2. runner[g].attempt < MaxAttempts
    BY <1>2, DispatchAssumption DEF CompleteDispatch, TInv, Counted, AtWork
  <2>3. runner' \in [Runner -> Working] /\ Counted' /\ col' \in [Card -> Column]
    BY <1>0, <1>2, <2>2, AttemptType DEF CompleteDispatch
  <2> QED BY <1>2, <2>1, <2>3 DEF CompleteDispatch, TInv, TypeOK
<1>3. CASE LoopFails(g)
  BY <1>3, <1>l DEF LoopFails
<1>4. CASE Continue(g)
  <2>1. runner' \in [Runner -> Working] /\ Counted' /\ col' \in [Card -> Column]
    BY <1>4, AttemptType DEF Continue, TInv, Counted
  <2> QED BY <1>4, <2>1 DEF Continue, TInv, TypeOK
<1>5. ASSUME NEW action \in Answer, Verdict(g, action) PROVE TInv'
  <2> DEFINE x == action \in {"execute", "reopen"}
  <2> DEFINE w == [runner[g] EXCEPT !.pc = "close", !.execute = x]
  <2>1. w \in Working /\ w.attempt = runner[g].attempt /\ w.pc = "close"
    <3>1. x \in BOOLEAN
      OBVIOUS
    <3> HIDE DEF x
    <3> QED BY <1>0, <3>1 DEF Working, Phase
  <2>2. runner' = [runner EXCEPT ![g] = w]
    BY <1>0, <1>5 DEF Verdict, Working
  <2>3. runner[g].attempt = 0
    BY <1>5 DEF Verdict, TInv, Counted, AtWork
  <2>4. runner' \in [Runner -> Working] /\ Counted'
    <3> HIDE DEF w
    <3> QED BY <2>1, <2>2, <2>3, PhaseType
  <2>5. col' \in [Card -> Column]
    BY <1>0, <1>5, MoveType DEF Verdict, TypeOK
  <2> QED BY <1>5, <2>4, <2>5 DEF Verdict, TInv, TypeOK
<1>6. ASSUME NEW action \in Answer, Implemented(g, action) PROVE TInv'
  <2> DEFINE w == [runner[g] EXCEPT !.pc = "test"]
  <2>1. w \in Working /\ w.pc = "test" /\ runner' = [runner EXCEPT ![g] = w]
    BY <1>0, <1>6 DEF Implemented, Working, Phase
  <2>2. runner' \in [Runner -> Working] /\ Counted'
    <3> HIDE DEF w
    <3> QED BY <2>1, PhaseType
  <2>3. col' \in [Card -> Column]
    BY <1>0, <1>6, MoveType DEF Implemented
  <2> QED BY <1>6, <2>2, <2>3 DEF Implemented, TInv, TypeOK
<1>7. ASSUME NEW action \in Answer, TestsFail(g, action) PROVE TInv'
  <2>1. CASE runner[g].attempt < MaxAttempts
    <3> DEFINE w == [runner[g] EXCEPT !.pc = "evaluate"]
    <3>1. /\ w \in Working /\ w.pc = "evaluate" /\ w.attempt < MaxAttempts
          /\ runner' = [runner EXCEPT ![g] = w]
      BY <1>0, <1>7, <2>1 DEF TestsFail, Working, Phase
    <3>2. runner' \in [Runner -> Working] /\ Counted'
      <4> HIDE DEF w
      <4> QED BY <3>1, PhaseType
    <3> QED BY <1>7, <2>1, <3>2 DEF TestsFail, TInv, TypeOK
  <2>2. CASE ~(runner[g].attempt < MaxAttempts)
    BY <1>7, <1>l, <2>2 DEF TestsFail
  <2> QED BY <2>1, <2>2
<1>8. ASSUME NEW action \in Answer, GiveUp(g, action) PROVE TInv'
  BY <1>8, <1>l DEF GiveUp
<1>9. CASE TestsPass(g)
  BY <1>9, <1>l DEF TestsPass
<1>10. CASE Expire(g)
  <2> DEFINE w == [runner[g] EXCEPT !.timely = FALSE]
  <2>1. /\ w \in Working /\ w.pc = runner[g].pc /\ w.attempt = runner[g].attempt
        /\ runner' = [runner EXCEPT ![g] = w]
    BY <1>0, <1>10 DEF Expire, Working
  <2>2. runner' \in [Runner -> Working] /\ Counted'
    <3> HIDE DEF w
    <3> QED BY <2>1, PhaseType DEF TInv, Counted, AtWork
  <2> QED BY <1>10, <2>2 DEF Expire, TInv, TypeOK
<1> QED BY <1>1, <1>2, <1>3, <1>4, <1>5, <1>6, <1>7, <1>8, <1>9, <1>10 DEF RunnerStep

LEMMA TableType ==
  ASSUME TInv, InitDispatch
  PROVE  TInv'
<1>1. ASSUME NEW e \in Id PROVE entry'[e] \in Entry
  <2>1. entry[e] \in Entry
    BY IdOf DEF TInv, TypeOK
  <2> QED BY <2>1 DEF InitDispatch, Entry
<1>2. entry' \in Seq(Entry)
  <2>1. entry' \in [1..Len(entry) -> Entry] /\ Len(entry) \in Nat
    BY <1>1, IdOf DEF InitDispatch, Id, TInv, TypeOK
  <2> QED BY <2>1
<1> QED BY <1>2 DEF InitDispatch, TInv, TypeOK, Counted, AtWork

LEMMA EventType ==
  ASSUME TInv, NEW d \in Delivery, NEW c \in Card, NEW a \in Agent,
         HandleAssign(d, c, a) \/ CreateTriage(d) \/ HandleComment(c, a)
  PROVE  TInv'
<1>0. entry \in Seq(Entry) /\ delivery \in [Delivery -> Serving]
      /\ delivery[d].card \in Card /\ delivery[d].agent \in Agent
  BY DEF TInv, TypeOK, Serving
<1>1. CASE HandleAssign(d, c, a)
  <2>1. [pc |-> "create", card |-> c, agent |-> a] \in Serving
    BY DEF Serving
  <2> QED BY <1>1, <2>1 DEF HandleAssign, TInv, TypeOK, Counted, AtWork
<1>2. CASE CreateTriage(d)
  <2>1. entry' \in Seq(Entry)
    BY <1>0, <1>2, CreateKeeps DEF CreateTriage
  <2>2. delivery' \in [Delivery -> Serving]
    BY <1>0, <1>2, ConstantTypes DEF CreateTriage
  <2> QED BY <1>2, <2>1, <2>2 DEF CreateTriage, TInv, TypeOK, Counted, AtWork
<1>3. CASE HandleComment(c, a)
  <2>1. entry' \in Seq(Entry)
    BY <1>0, <1>3, CreateKeeps, ConstantTypes DEF HandleComment
  <2> QED BY <1>3, <2>1 DEF HandleComment, TInv, TypeOK, Counted, AtWork
<1> QED BY <1>1, <1>2, <1>3

\* The oldest pending entry of an agent is one of them.
LEMMA NextIsPending ==
  ASSUME entry \in Seq(Entry), NEW a \in Agent, With("pending", {a}) # {}
  PROVE  GetNextPending(a) \in With("pending", {a})
<1> DEFINE P == With("pending", {a})
<1> DEFINE R == OpToRel(<, Nat)
<1>1. P \subseteq Nat
  BY IdOf DEF With
<1>2. \E e \in P : \A f \in P : <<f, e>> \notin R
  BY <1>1, NatLessThanWellFounded, WFMin
<1>r. \A x, y \in Nat : x < y => <<x, y>> \in R
  BY Zenon DEF OpToRel
<1> HIDE DEF P, R
<1>3. \E e \in P : \A f \in P : e <= f
  <2>1. PICK e \in P : \A f \in P : <<f, e>> \notin R
    BY <1>2
  <2>2. ASSUME NEW f \in P PROVE e <= f
    <3>1. e \in Nat /\ f \in Nat
      BY <1>1
    <3>2. ~(f < e)
      BY <1>r, <2>1, <3>1
    <3> QED BY <3>1, <3>2
  <2> QED BY <2>2
<1>4. (CHOOSE e \in P : \A f \in P : e <= f) \in P
  BY <1>3
<1> QED BY <1>4 DEF GetNextPending, P

LEMMA NextAgentType ==
  ASSUME TypeOK, NEW todo \in SUBSET Agent
  PROVE  NextAgent(todo) \in Ticker
<1>1. ticker \in Ticker
  BY DEF TypeOK
<1> QED BY <1>1, ConstantTypes DEF NextAgent, Ticker

LEMMA TickerType ==
  ASSUME TInv, TickerStep
  PROVE  TInv'
<1>0. /\ TypeOK /\ entry \in Seq(Entry) /\ ticker \in Ticker /\ ticker.todo \in SUBSET Agent
      /\ ticker.agent \in Agent
  BY DEF TInv, TypeOK, Ticker
<1>1. CASE Tick
  <2>1. ticker' \in Ticker
    BY <1>0, <1>1 DEF Tick, Ticker, ListPendingAgents
  <2> QED BY <1>1, <2>1 DEF Tick, TInv, TypeOK, Counted, AtWork
<1>2. ASSUME NEW a \in Agent, CheckAgent(a) PROVE TInv'
  <2>1. ticker.todo \ {a} \in SUBSET Agent
    BY <1>0
  <2>2. [pc |-> "take", todo |-> ticker.todo \ {a}, agent |-> a] \in Ticker
    BY <2>1 DEF Ticker
  <2>3. ticker' \in Ticker
    BY <1>0, <1>2, <2>1, <2>2, NextAgentType DEF CheckAgent
  <2> QED BY <1>2, <2>3 DEF CheckAgent, TInv, TypeOK, Counted, AtWork
<1>3. CASE TakeNext
  <2> DEFINE a == ticker.agent
  <2> DEFINE g == CHOOSE f \in Runner : runner[f].pc = "idle"
  <2>1. g \in Runner
    BY <1>3 DEF TakeNext
  <2>2. ticker' \in Ticker
    BY <1>0, <1>3, NextAgentType DEF TakeNext
  <2>3. CASE With("pending", {a}) = {}
    BY <1>3, <2>2, <2>3 DEF TakeNext, TInv, TypeOK, Counted, AtWork
  <2>4. CASE With("pending", {a}) # {}
    <3> DEFINE e == GetNextPending(a)
    <3> DEFINE w == [Idle EXCEPT !.pc = "ask", !.id = e]
    <3>1. e \in Nat
      BY <1>0, <2>4, NextIsPending, IdOf DEF With
    <3>2. UpdateDispatchStatus(e, "dispatched") /\ runner' = [runner EXCEPT ![g] = w]
      BY <1>3, <2>4 DEF TakeNext
    <3> HIDE DEF e
    <3>3. w \in Working /\ w.pc = "ask" /\ w.attempt = 0
      BY <3>1, ConstantTypes DEF Working, Phase, Idle
    <3> HIDE DEF g, w
    <3>4. entry' \in Seq(Entry)
      BY <1>0, <3>1, <3>2, StatusKeeps
    <3>5. runner' \in [Runner -> Working] /\ Counted'
      BY <2>1, <3>2, <3>3, PhaseType
    <3> QED BY <1>3, <2>2, <3>4, <3>5 DEF TakeNext, TInv, TypeOK
  <2> QED BY <2>3, <2>4
<1> QED BY <1>1, <1>2, <1>3 DEF TickerStep

LEMMA AdminType ==
  ASSUME TInv, NEW a \in Admin, (\E e \in Id : ReadFailed(a, e)) \/ RetryDispatch(a)
  PROVE  TInv'
<1>0. entry \in Seq(Entry) /\ admin \in [Admin -> Nat]
  BY DEF TInv, TypeOK
<1>1. ASSUME NEW e \in Id, ReadFailed(a, e) PROVE TInv'
  <2>1. admin' \in [Admin -> Nat]
    BY <1>0, <1>1, IdOf DEF ReadFailed
  <2>2. retries' \in 0..MaxRetries
    BY <1>1, DispatchAssumption DEF ReadFailed, TInv, TypeOK
  <2> QED BY <1>1, <2>1, <2>2 DEF ReadFailed, TInv, TypeOK, Counted, AtWork
<1>2. CASE RetryDispatch(a)
  <2>1. entry' \in Seq(Entry)
    BY <1>0, <1>2, StatusKeeps DEF RetryDispatch
  <2> QED BY <1>0, <1>2, <2>1 DEF RetryDispatch, TInv, TypeOK, Counted, AtWork
<1> QED BY <1>1, <1>2

LEMMA CrashType ==
  ASSUME TInv, Crash
  PROVE  TInv'
<1>1. crashes' \in 0..MaxCrashes
  BY DispatchAssumption DEF Crash, TInv, TypeOK
<1>2. runner' \in [Runner -> Working] /\ delivery' \in [Delivery -> Serving]
      /\ ticker' \in Ticker /\ admin' \in [Admin -> Nat]
  BY ConstantTypes DEF Crash
<1>3. Counted'
  BY DEF Crash, Counted, AtWork, Idle
<1> QED BY <1>1, <1>2, <1>3 DEF Crash, TInv, TypeOK

LEMMA TypeNext == TInv /\ [Next]_vars => TInv'
<1> SUFFICES ASSUME TInv, [Next]_vars PROVE TInv'
  OBVIOUS
<1>1. CASE UNCHANGED vars
  BY <1>1 DEF vars, TInv, TypeOK, Counted, AtWork
<1>2. CASE Next
  <2>1. ASSUME NEW d \in Delivery, CreateTriage(d) PROVE TInv'
    BY <2>1, EventType, ConstantTypes
  <2>2. ASSUME NEW c \in Card, NEW a \in Agent, HandleComment(c, a) PROVE TInv'
    BY <2>2, EventType, ConstantTypes
  <2> QED BY <1>2, <2>1, <2>2, TableType, EventType, TickerType, RunnerType, AdminType,
             CrashType DEF Next
<1> QED BY <1>1, <1>2

\* The entries and what the goroutines hold always have their types, and no
\* more attempts are made than allowed (dispatch.go:351).
THEOREM TypeCorrect == Spec => []TypeOK
<1>1. TInv => TypeOK
  BY DEF TInv
<1> QED BY TypeInit, TypeNext, <1>1, PTL DEF Spec

(***************************************************************************)
(* One goroutine for each dispatched entry, where requests to retry come   *)
(* one at a time.                                                          *)
(***************************************************************************)
Dispatched(e) == entry[e].status = "dispatched"
WorksOn(g, e) == AtWork(g) /\ runner[g].id = e

Owned ==
  /\ \A g \in Runner : AtWork(g) => runner[g].id \in Id /\ Dispatched(runner[g].id)
  /\ \A g, h \in Runner : AtWork(g) /\ AtWork(h) /\ runner[g].id = runner[h].id => g = h
  /\ up => \A e \in Id : Dispatched(e) => \E g \in Runner : WorksOn(g, e)
Stopped == ~up => ticker.pc = "wait" /\ \A g \in Runner : runner[g].pc = "idle"
Rejected ==
  \A a \in Admin : admin[a] # 0 => admin[a] \in Id /\ entry[admin[a]].status = "failed"

WInv == TInv /\ Owned /\ Stopped /\ Rejected

OneAdmin == \A a, b \in Admin : a = b

LEMMA WInvInit == Init => WInv
BY TypeInit DEF Init, WInv, Owned, Stopped, Rejected, AtWork, Idle, Waiting, Id

LEMMA WInvOneRunner == WInv => OneRunner
<1> SUFFICES ASSUME WInv, up, NEW e \in Id
             PROVE  Cardinality({g \in Runner : AtWork(g) /\ runner[g].id = e})
                      = IF entry[e].status = "dispatched" THEN 1 ELSE 0
  BY DEF OneRunner
<1> DEFINE S == {g \in Runner : AtWork(g) /\ runner[g].id = e}
<1>1. CASE Dispatched(e)
  <2>1. PICK g \in Runner : WorksOn(g, e)
    BY <1>1 DEF WInv, Owned
  <2>2. S = {g}
    BY <2>1 DEF WInv, Owned, WorksOn
  <2> QED BY <1>1, <2>2, FS_Singleton DEF Dispatched
<1>2. CASE ~Dispatched(e)
  <2>1. S = {}
    BY <1>2 DEF WInv, Owned
  <2> QED BY <1>2, <2>1, FS_EmptySet DEF Dispatched
<1> QED BY <1>1, <1>2

\* Steps that leave the table and who works on what.
LEMMA WorkStays ==
  ASSUME WInv, TInv', UNCHANGED <<entry, up>>,
         ticker' = ticker \/ up, admin' = admin,
         \A g \in Runner : /\ AtWork(g)' <=> AtWork(g)
                           /\ AtWork(g) => runner'[g].id = runner[g].id
                           /\ ~up => runner'[g].pc = runner[g].pc
  PROVE  WInv'
<1>1. Id' = Id /\ up' = up /\ entry' = entry
  BY DEF Id
<1>2. Owned'
  BY <1>1 DEF WInv, Owned, Dispatched, WorksOn
<1>3. Stopped'
  BY <1>1 DEF WInv, Stopped
<1>4. Rejected'
  BY <1>1 DEF WInv, Rejected
<1> QED BY <1>2, <1>3, <1>4 DEF WInv

\* A goroutine that is at work closes its entry.
LEMMA WorkCloses ==
  ASSUME WInv, TInv', NEW g \in Runner, AtWork(g), ~AtWork(g)',
         NEW status \in {"completed", "failed"}, UpdateDispatchStatus(runner[g].id, status),
         \A h \in Runner \ {g} : runner'[h] = runner[h],
         UNCHANGED <<up, admin>>
  PROVE  WInv'
<1> DEFINE e == runner[g].id
<1>0. e \in Id /\ Dispatched(e) /\ e \in Nat /\ up
  BY IdOf DEF WInv, TInv, TypeOK, Owned, Stopped, AtWork
<1>1. /\ Id' = Id
      /\ \A f \in Id : entry'[f].status = IF f = e THEN status ELSE entry[f].status
  BY <1>0, StatusKeeps DEF WInv, TInv, TypeOK
<1> HIDE DEF e
<1>2. \A h \in Runner \ {g} : (AtWork(h)' <=> AtWork(h)) /\ (AtWork(h) => runner[h].id # e)
  BY DEF WInv, Owned, AtWork, e
<1>3. \A f \in Id : Dispatched(f)' <=> Dispatched(f) /\ f # e
  BY <1>1 DEF Dispatched
<1>4. Owned'
  <2>1. ASSUME NEW h \in Runner, AtWork(h)'
        PROVE  h # g /\ runner'[h].id \in Id' /\ Dispatched(runner[h].id)'
    <3>1. h # g /\ AtWork(h) /\ runner'[h] = runner[h]
      BY <1>2, <2>1
    <3>2. runner[h].id \in Id /\ Dispatched(runner[h].id) /\ runner[h].id # e
      BY <1>2, <3>1 DEF WInv, Owned
    <3> QED BY <1>1, <3>1, <3>2 DEF Dispatched
  <2>3. ASSUME NEW f \in Id, Dispatched(f)' PROVE \E h \in Runner : WorksOn(h, f)'
    <3>1. PICK h \in Runner : WorksOn(h, f)
      BY <1>0, <1>3, <2>3 DEF WInv, Owned
    <3>2. h # g
      BY <1>3, <2>3, <3>1 DEF WorksOn, e
    <3> QED BY <1>2, <3>1, <3>2 DEF WorksOn
  <2>4. \A h, k \in Runner : AtWork(h)' /\ AtWork(k)' /\ runner'[h].id = runner'[k].id => h = k
    BY <1>2, <2>1 DEF WInv, Owned
  <2> QED BY <1>1, <2>1, <2>3, <2>4 DEF Owned
<1>5. Stopped'
  BY <1>0 DEF Stopped
<1>6. Rejected'
  BY <1>0, <1>1 DEF WInv, Rejected, Dispatched
<1> QED BY <1>4, <1>5, <1>6 DEF WInv

LEMMA RunnerWorks ==
  ASSUME WInv, TInv', NEW g \in Runner, RunnerStep(g) \/ Expire(g)
  PROVE  WInv'
<1>0. /\ runner \in [Runner -> Working] /\ runner[g] \in Working
      /\ runner' \in [Runner -> Working] /\ Idle.pc = "idle"
  BY DEF WInv, TInv, TypeOK, Idle
<1>u. ASSUME runner[g].pc # "idle" PROVE up
  BY <1>u DEF WInv, Stopped
\* In the loop nobody is at work on an entry.
<1>l. ASSUME ~AtWork(g), runner[g].pc # "idle", ~AtWork(g)',
             \A h \in Runner \ {g} : runner'[h] = runner[h],
             UNCHANGED <<entry, up, ticker, admin>>
      PROVE  WInv'
  <2>1. \A h \in Runner : AtWork(h)' <=> AtWork(h)
    BY <1>l DEF AtWork
  <2>2. \A h \in Runner : AtWork(h) => runner'[h].id = runner[h].id
    BY <1>l
  <2> QED BY <1>l, <1>u, <2>1, <2>2, WorkStays
<1>i. ASSUME NEW name, LeaveLoop(g, name), InLoop(g) PROVE WInv'
  <2>1. ~AtWork(g) /\ ~AtWork(g)' /\ runner[g].pc # "idle"
    BY <1>0, <1>i DEF LeaveLoop, AtWork, InLoop
  <2>2. \A h \in Runner \ {g} : runner'[h] = runner[h]
    BY <1>0, <1>i DEF LeaveLoop
  <2> QED BY <1>i, <1>l, <2>1, <2>2 DEF LeaveLoop
<1>1. CASE AskFails(g)
  <2>1. AtWork(g) /\ ~AtWork(g)' /\ \A h \in Runner \ {g} : runner'[h] = runner[h]
    BY <1>0, <1>1 DEF AskFails, AtWork
  <2> QED BY <1>1, <2>1, WorkCloses DEF AskFails
<1>a. ASSUME NEW execute \in BOOLEAN, Attempt(g, execute)
      PROVE  ~AtWork(g)' /\ \A h \in Runner \ {g} : runner'[h] = runner[h]
  <2>1. CASE execute
    BY <1>0, <1>a, <2>1 DEF Attempt, AtWork, Working
  <2>2. CASE ~execute
    BY <1>0, <1>a, <2>2 DEF Attempt, AtWork
  <2> QED BY <2>1, <2>2
<1>2. CASE CompleteDispatch(g)
  <2>1. runner[g].execute \in BOOLEAN
    BY <1>0 DEF Working
  <2>2. AtWork(g) /\ ~AtWork(g)' /\ \A h \in Runner \ {g} : runner'[h] = runner[h]
    BY <1>2, <1>a, <2>1 DEF CompleteDispatch, AtWork
  <2> QED BY <1>2, <2>2, WorkCloses DEF CompleteDispatch
<1>3. CASE LoopFails(g)
  BY <1>3, <1>i DEF LoopFails, InLoop
<1>4. CASE Continue(g)
  <2>1. ~AtWork(g)' /\ \A h \in Runner \ {g} : runner'[h] = runner[h]
    BY <1>4, <1>a DEF Continue
  <2> QED BY <1>4, <1>l, <2>1 DEF Continue, AtWork
<1>5. ASSUME NEW action \in Answer, Verdict(g, action) PROVE WInv'
  <2>1. /\ \A h \in Runner \ {g} : runner'[h] = runner[h]
        /\ runner'[g].pc = "close" /\ runner'[g].id = runner[g].id /\ runner[g].pc = "ask"
    BY <1>0, <1>5 DEF Verdict, Working
  <2>2. \A h \in Runner : (AtWork(h)' <=> AtWork(h)) /\ runner'[h].id = runner[h].id
    BY <2>1 DEF AtWork
  <2> QED BY <1>5, <1>u, <2>1, <2>2, WorkStays DEF Verdict
<1>6. ASSUME NEW action \in Answer, Implemented(g, action) PROVE WInv'
  <2>1. ~AtWork(g)' /\ \A h \in Runner \ {g} : runner'[h] = runner[h]
    BY <1>0, <1>6 DEF Implemented, AtWork, Working
  <2> QED BY <1>6, <1>l, <2>1 DEF Implemented, AtWork
<1>7. ASSUME NEW action \in Answer, TestsFail(g, action) PROVE WInv'
  <2>1. CASE runner[g].attempt < MaxAttempts
    <3>1. ~AtWork(g)' /\ \A h \in Runner \ {g} : runner'[h] = runner[h]
      BY <1>0, <1>7, <2>1 DEF TestsFail, AtWork, Working
    <3> QED BY <1>7, <1>l, <2>1, <3>1 DEF TestsFail, AtWork
  <2>2. CASE ~(runner[g].attempt < MaxAttempts)
    BY <1>7, <1>i, <2>2 DEF TestsFail, InLoop
  <2> QED BY <2>1, <2>2
<1>8. ASSUME NEW action \in Answer, GiveUp(g, action) PROVE WInv'
  BY <1>8, <1>i DEF GiveUp
<1>9. CASE TestsPass(g)
  BY <1>9, <1>i DEF TestsPass, InLoop
<1>10. CASE Expire(g)
  <2>1. /\ \A h \in Runner \ {g} : runner'[h] = runner[h]
        /\ runner'[g].pc = runner[g].pc /\ runner'[g].id = runner[g].id
    BY <1>0, <1>10 DEF Expire, Working
  <2>2. \A h \in Runner : (AtWork(h)' <=> AtWork(h)) /\ runner'[h].id = runner[h].id
    BY <2>1 DEF AtWork
  <2> QED BY <1>10, <1>u, <2>1, <2>2, WorkStays DEF Expire
<1> QED BY <1>1, <1>2, <1>3, <1>4, <1>5, <1>6, <1>7, <1>8, <1>9, <1>10 DEF RunnerStep

LEMMA EventWorks ==
  ASSUME WInv, TInv', NEW d \in Delivery, NEW c \in Card, NEW a \in Agent,
         HandleAssign(d, c, a) \/ CreateTriage(d) \/ HandleComment(c, a)
  PROVE  WInv'
<1>0. entry \in Seq(Entry) /\ delivery[d].card \in Card /\ delivery[d].agent \in Agent
  BY DEF WInv, TInv, TypeOK, Serving
<1>1. CASE HandleAssign(d, c, a)
  BY <1>1, WorkStays DEF HandleAssign, AtWork
<1>2. ASSUME NEW kind \in {"triage", "reply"}, NEW x \in Card, NEW b \in Agent,
             NEW f \in Delivery, CreateDispatchEntry(kind, x, b, f),
             UNCHANGED <<up, ticker, runner, admin>>
      PROVE  WInv'
  <2> DEFINE n == Len(entry) + 1
  <2>1. /\ Id' = Id \cup {n} /\ n \notin Id /\ entry'[n].status = "pending"
        /\ \A e \in Id : entry'[e] = entry[e]
    <3>1. /\ Id' = Id \cup {n} /\ n \notin Id /\ \A e \in Id : entry'[e] = entry[e]
          /\ entry'[n] = [status |-> "pending", kind |-> kind, card |-> x, agent |-> b,
                          by |-> f]
      BY <1>0, <1>2, CreateKeeps
    <3> QED BY <3>1
  <2> HIDE DEF n
  <2>2. \A g \in Runner : AtWork(g)' <=> AtWork(g)
    BY <1>2 DEF AtWork
  <2>3. Owned'
    BY <1>2, <2>1, <2>2 DEF WInv, Owned, Dispatched, WorksOn
  <2> QED BY <1>2, <2>1, <2>3 DEF WInv, Stopped, Rejected
<1>3. CASE CreateTriage(d)
  BY <1>0, <1>2, <1>3 DEF CreateTriage
<1>4. CASE HandleComment(c, a)
  BY <1>2, <1>4, ConstantTypes DEF HandleComment
<1> QED BY <1>1, <1>3, <1>4

LEMMA TickerWorks ==
  ASSUME WInv, TInv', TickerStep
  PROVE  WInv'
<1>0. /\ TypeOK /\ entry \in Seq(Entry) /\ ticker.agent \in Agent
      /\ runner \in [Runner -> Working]
  BY DEF WInv, TInv, TypeOK, Ticker
<1>u. ASSUME ticker.pc # "wait" PROVE up
  BY <1>u DEF WInv, Stopped
<1>1. CASE Tick
  BY <1>1, WorkStays DEF Tick, AtWork
<1>2. ASSUME NEW a \in Agent, CheckAgent(a) PROVE WInv'
  BY <1>2, <1>u, WorkStays DEF CheckAgent, AtWork
<1>3. CASE TakeNext
  <2> DEFINE a == ticker.agent
  <2>0. PICK g \in Runner : g = (CHOOSE f \in Runner : runner[f].pc = "idle")
    BY <1>3 DEF TakeNext
  <2>1. runner[g].pc = "idle" /\ up
    BY <1>3, <1>u, <2>0 DEF TakeNext
  <2>2. CASE With("pending", {a}) = {}
    BY <1>3, <2>1, <2>2, WorkStays DEF TakeNext, AtWork
  <2>3. CASE With("pending", {a}) # {}
    <3>0. PICK e \in Nat : e = GetNextPending(a)
      BY <1>0, <2>3, NextIsPending, IdOf DEF With
    <3> DEFINE w == [Idle EXCEPT !.pc = "ask", !.id = e]
    <3>1. e \in Id /\ entry[e].status = "pending" /\ e \in Nat
      BY <1>0, <2>3, <3>0, NextIsPending, IdOf DEF With
    <3>2. /\ UpdateDispatchStatus(e, "dispatched") /\ runner' = [runner EXCEPT ![g] = w]
          /\ up' = up /\ admin' = admin
      BY <1>3, <2>0, <2>3, <3>0 DEF TakeNext
    <3>3. w.pc = "ask" /\ w.id = e
      BY DEF Idle
    <3> HIDE DEF w
    <3>4. /\ Id' = Id
          /\ \A f \in Id : entry'[f].status = IF f = e THEN "dispatched" ELSE entry[f].status
      BY <1>0, <3>1, <3>2, StatusKeeps
    <3>5. runner'[g] = w /\ \A h \in Runner \ {g} : runner'[h] = runner[h]
      BY <1>0, <2>1, <3>2
    <3>6. ~AtWork(g) /\ AtWork(g)' /\ \A h \in Runner \ {g} : (AtWork(h)' <=> AtWork(h))
      BY <2>1, <3>3, <3>5 DEF AtWork
    <3>7. \A f \in Id : Dispatched(f)' <=> Dispatched(f) \/ f = e
      BY <3>4 DEF Dispatched
    <3>8. \A h \in Runner : AtWork(h) => h # g /\ runner[h].id \in Id /\ runner[h].id # e
      BY <3>1, <3>6 DEF WInv, Owned, Dispatched
    <3>9. Owned'
      <4>1. \A h \in Runner : AtWork(h)' => runner'[h].id \in Id
                                            /\ entry'[runner'[h].id].status = "dispatched"
        <5>1. runner'[g].id = e /\ entry'[e].status = "dispatched"
          BY <3>1, <3>3, <3>4, <3>5
        <5>2. ASSUME NEW h \in Runner \ {g}, AtWork(h)'
              PROVE  /\ runner'[h] = runner[h] /\ runner[h].id \in Id
                     /\ entry[runner[h].id].status = "dispatched"
          BY <3>5, <3>6, <5>2 DEF WInv, Owned, Dispatched
        <5>3. ASSUME NEW h \in Runner, AtWork(h)'
              PROVE  runner'[h].id \in Id /\ entry'[runner'[h].id].status = "dispatched"
          <6>1. CASE h = g
            BY <3>1, <5>1, <6>1
          <6>2. CASE h # g
            <7>1. /\ runner'[h] = runner[h] /\ runner[h].id \in Id
                  /\ entry[runner[h].id].status = "dispatched"
              BY <5>2, <5>3, <6>2
            <7> QED BY <3>4, <7>1
          <6> QED BY <6>1, <6>2
        <5> QED BY <5>3
      <4>2. \A h, k \in Runner : AtWork(h)' /\ AtWork(k)' /\ runner'[h].id = runner'[k].id
                                  => h = k
        BY <3>3, <3>5, <3>6, <3>8 DEF WInv, Owned
      <4>3. ASSUME NEW f \in Id, Dispatched(f)' PROVE \E h \in Runner : WorksOn(h, f)'
        <5>1. CASE f = e
          BY <2>1, <3>3, <3>5, <3>6, <5>1 DEF WorksOn
        <5>2. CASE f # e
          <6>1. PICK h \in Runner : WorksOn(h, f)
            BY <2>1, <3>7, <4>3, <5>2 DEF WInv, Owned
          <6> QED BY <3>5, <3>6, <6>1 DEF WorksOn
        <5> QED BY <5>1, <5>2
      <4> QED BY <3>4, <4>1, <4>2, <4>3 DEF Owned, Dispatched
    <3>10. Rejected'
      BY <3>1, <3>2, <3>4 DEF WInv, Rejected
    <3>11. Stopped'
      BY <2>1, <3>2 DEF Stopped
    <3> QED BY <3>9, <3>10, <3>11 DEF WInv
  <2> QED BY <2>2, <2>3
<1> QED BY <1>1, <1>2, <1>3 DEF TickerStep

LEMMA AdminWorks ==
  ASSUME OneAdmin, WInv, TInv', NEW a \in Admin,
         (\E e \in Id : ReadFailed(a, e)) \/ RetryDispatch(a)
  PROVE  WInv'
<1>0. entry \in Seq(Entry) /\ admin \in [Admin -> Nat]
  BY DEF WInv, TInv, TypeOK
<1>1. ASSUME NEW e \in Id, ReadFailed(a, e) PROVE WInv'
  <2>1. Id' = Id /\ entry' = entry /\ up' = up /\ runner' = runner /\ ticker' = ticker
    BY <1>1 DEF ReadFailed, Id
  <2>2. Rejected'
    BY <1>0, <1>1, <2>1 DEF ReadFailed, WInv, Rejected
  <2>3. Owned' /\ Stopped'
    BY <2>1 DEF WInv, Owned, Stopped, Dispatched, WorksOn, AtWork
  <2> QED BY <2>2, <2>3 DEF WInv
<1>2. CASE RetryDispatch(a)
  <2> DEFINE e == admin[a]
  <2>1. e \in Id /\ entry[e].status = "failed" /\ e \in Nat
    BY <1>0, <1>2 DEF RetryDispatch, WInv, Rejected
  <2>2. /\ UpdateDispatchStatus(e, "pending") /\ admin' = [admin EXCEPT ![a] = 0]
        /\ up' = up /\ runner' = runner /\ ticker' = ticker
    BY <1>2 DEF RetryDispatch
  <2> HIDE DEF e
  <2>3. /\ Id' = Id
        /\ \A f \in Id : entry'[f].status = IF f = e THEN "pending" ELSE entry[f].status
    BY <1>0, <2>1, <2>2, StatusKeeps
  <2>4. \A b \in Admin : admin'[b] = 0
    BY <1>0, <2>2 DEF OneAdmin
  <2>5. \A f \in Id : Dispatched(f)' <=> Dispatched(f)
    BY <2>1, <2>3 DEF Dispatched
  <2>6. \A g \in Runner : AtWork(g)' <=> AtWork(g)
    BY <2>2 DEF AtWork
  <2>7. Owned'
    BY <2>1, <2>2, <2>3, <2>5, <2>6 DEF WInv, Owned, WorksOn, Dispatched
  <2> QED BY <2>2, <2>4, <2>7 DEF WInv, Stopped, Rejected
<1> QED BY <1>1, <1>2

LEMMA WInvNext == ASSUME OneAdmin PROVE WInv /\ [Next]_vars => WInv'
<1> SUFFICES ASSUME WInv, [Next]_vars PROVE WInv'
  OBVIOUS
<1>0. TInv'
  BY TypeNext DEF WInv
<1>1. CASE UNCHANGED vars
  BY <1>0, <1>1, WorkStays DEF vars, AtWork
<1>2. CASE InitDispatch
  <2>1. \A g \in Runner : ~AtWork(g) /\ ~AtWork(g)'
    BY <1>2 DEF InitDispatch, WInv, Stopped, AtWork
  <2>2. entry \in Seq(Entry)
    BY DEF WInv, TInv, TypeOK
  <2>3. DOMAIN entry' = Id /\ Id' = Id
    BY <1>0, <1>2, <2>2, IdOf DEF InitDispatch, TInv, TypeOK, Id
  <2>4. \A e \in Id : /\ entry'[e].status # "dispatched"
                      /\ entry[e].status = "failed" => entry'[e].status = "failed"
    BY <1>2, <2>2, IdOf DEF InitDispatch, Entry
  <2>5. Owned' /\ Stopped'
    BY <1>2, <2>1, <2>3, <2>4 DEF InitDispatch, Owned, Stopped, Dispatched
  <2>6. Rejected'
    BY <1>2, <2>3, <2>4 DEF InitDispatch, WInv, Rejected
  <2> QED BY <1>0, <2>5, <2>6 DEF WInv
<1>3. CASE Crash
  <2>1. /\ ~up' /\ entry' = entry /\ Id' = Id /\ ticker'.pc = "wait"
        /\ \A g \in Runner : runner'[g].pc = "idle"
        /\ \A a \in Admin : admin'[a] = 0
    BY <1>3 DEF Crash, Waiting, Idle, Id
  <2> QED BY <1>0, <2>1 DEF WInv, Owned, Stopped, Rejected, AtWork
<1>4. CASE Next /\ ~InitDispatch /\ ~Crash
  <2>1. ASSUME NEW d \in Delivery, CreateTriage(d) PROVE WInv'
    BY <1>0, <2>1, EventWorks, ConstantTypes
  <2>2. ASSUME NEW c \in Card, NEW a \in Agent, HandleComment(c, a) PROVE WInv'
    BY <1>0, <2>2, EventWorks, ConstantTypes
  <2> QED BY <1>0, <1>4, <2>1, <2>2, EventWorks, TickerWorks, RunnerWorks, AdminWorks DEF Next
<1> QED BY <1>1, <1>2, <1>3, <1>4

\* While the plugin runs, an entry is dispatched exactly while one goroutine
\* works on it, if requests to retry come one at a time (dispatch.go:202, 98).
THEOREM OneAtWork == ASSUME OneAdmin PROVE Spec => []OneRunner
<1>1. WInv /\ [Next]_vars => WInv'
  BY WInvNext
<1> QED BY WInvInit, WInvOneRunner, <1>1, PTL DEF Spec

(***************************************************************************)
(* The limits.  What the tick has counted can only have shrunk when it     *)
(* marks an entry.                                                         *)
(***************************************************************************)
InFlight(agents) == With("dispatched", agents)

Allowed == ticker.pc = "take" => CanDispatch(ticker.agent)

LInv == TInv /\ LimitKept /\ Allowed

LEMMA FlightFinite ==
  ASSUME entry \in Seq(Entry), NEW agents
  PROVE  IsFiniteSet(InFlight(agents)) /\ Cardinality(InFlight(agents)) \in Nat
<1>1. Len(entry) \in Nat /\ InFlight(agents) \in SUBSET (1..Len(entry))
  BY DEF InFlight, With, Id
<1>2. IsFiniteSet(1..Len(entry))
  BY <1>1, FS_Interval
<1>3. IsFiniteSet(InFlight(agents))
  BY <1>1, <1>2, FS_Subset
<1> QED BY <1>3, FS_CardinalityType

LEMMA LInvInit == Init => LInv
<1> SUFFICES ASSUME Init PROVE LInv
  OBVIOUS
<1>1. \A agents : With("dispatched", agents) = {}
  BY DEF Init, With, Id
<1>2. LimitKept
  BY <1>1, FS_EmptySet, DispatchAssumption DEF LimitKept, CountInFlight
<1> QED BY <1>2, TypeInit DEF LInv, Allowed, Init, Waiting

\* Steps that dispatch nothing.
LEMMA Shrinks ==
  ASSUME LInv, TInv',
         \A e \in Id' : entry'[e].status = "dispatched" =>
           e \in Id /\ entry[e].status = "dispatched" /\ entry'[e].agent = entry[e].agent,
         ticker'.pc = "take" => CanDispatch(ticker'.agent)
  PROVE  LInv'
<1>0. entry \in Seq(Entry) /\ entry' \in Seq(Entry)
  BY DEF LInv, TInv, TypeOK
<1>1. \A agents : InFlight(agents)' \subseteq InFlight(agents)
  BY DEF InFlight, With
<1>2. ASSUME NEW agents
      PROVE  /\ Cardinality(InFlight(agents)') <= Cardinality(InFlight(agents))
             /\ Cardinality(InFlight(agents)') \in Nat
             /\ Cardinality(InFlight(agents)) \in Nat
  <2>1. IsFiniteSet(InFlight(agents)) /\ Cardinality(InFlight(agents)) \in Nat
    BY <1>0, FlightFinite
  <2>2. /\ IsFiniteSet(InFlight(agents)')
        /\ Cardinality(InFlight(agents)') <= Cardinality(InFlight(agents))
    BY <1>1, <2>1, FS_Subset
  <2> QED BY <2>1, <2>2, FS_CardinalityType
<1>3. \A a \in Agent : CanDispatch(a) => CanDispatch(a)'
  <2> SUFFICES ASSUME NEW a \in Agent, CanDispatch(a) PROVE CanDispatch(a)'
    OBVIOUS
  <2>1. CASE a \in Limited
    BY <1>2, <2>1, DispatchAssumption DEF CanDispatch, CountInFlight, InFlight
  <2>2. CASE a \notin Limited
    BY <1>2, <2>2, DispatchAssumption DEF CanDispatch, CountAllInFlight, InFlight
  <2> QED BY <2>1, <2>2
<1>4. LimitKept'
  <2>1. ASSUME NEW a \in Limited PROVE (CountInFlight(a) <= AgentLimit)'
    BY <1>2, DispatchAssumption DEF LInv, LimitKept, CountInFlight, InFlight
  <2>2. ASSUME GlobalLimit > 0
        PROVE  Cardinality(With("dispatched", Agent \ Limited)') <= GlobalLimit
    BY <1>2, <2>2, DispatchAssumption DEF LInv, LimitKept, InFlight
  <2> QED BY <2>1, <2>2 DEF LimitKept
<1>5. Allowed'
  <2> SUFFICES ASSUME ticker'.pc = "take" PROVE CanDispatch(ticker.agent)'
    BY DEF Allowed
  <2>1. PICK a \in Agent : a = ticker'.agent
    BY DEF TInv, TypeOK, Ticker
  <2>2. CanDispatch(a)
    BY <2>1
  <2>3. CanDispatch(a)'
    BY <1>3, <2>2
  <2> QED BY <2>1, <2>3 DEF CanDispatch, CountInFlight, CountAllInFlight
<1> QED BY <1>4, <1>5 DEF LInv

LEMMA TakeNextKeepsLimits ==
  ASSUME LInv, TInv', TakeNext
  PROVE  LInv'
<1>0. /\ entry \in Seq(Entry) /\ entry' \in Seq(Entry) /\ ticker \in Ticker
      /\ ticker.pc = "take"
  BY DEF LInv, TInv, TypeOK, TakeNext
<1>1. ticker'.pc # "take"
  BY <1>0 DEF TakeNext, NextAgent, Ticker
<1>2. PICK a \in Agent : a = ticker.agent
  BY <1>0 DEF Ticker
<1>3. CASE With("pending", {a}) = {}
  BY <1>1, <1>2, <1>3, Shrinks DEF TakeNext, Id
<1>4. CASE With("pending", {a}) # {}
  <2>1. PICK e \in Nat : e = GetNextPending(a)
    BY <1>0, <1>4, NextIsPending, IdOf DEF With
  <2>2. e \in Id /\ entry[e].agent = a
    BY <1>0, <1>4, <2>1, NextIsPending DEF With
  <2>3. UpdateDispatchStatus(e, "dispatched")
    BY <1>2, <1>4, <2>1 DEF TakeNext
  <2>4. /\ Id' = Id
        /\ \A f \in Id : /\ entry'[f].status = IF f = e THEN "dispatched" ELSE entry[f].status
                         /\ entry'[f].agent = entry[f].agent
    BY <1>0, <2>3, StatusKeeps
  <2>5. ASSUME NEW agents
        PROVE  /\ a \in agents => InFlight(agents)' \subseteq InFlight(agents) \cup {e}
               /\ a \notin agents => InFlight(agents)' \subseteq InFlight(agents)
    BY <2>2, <2>4 DEF InFlight, With
  <2>6. ASSUME NEW agents
        PROVE  /\ Cardinality(InFlight(agents)) \in Nat
               /\ Cardinality(InFlight(agents)') \in Nat
               /\ Cardinality(InFlight(agents)') <= Cardinality(InFlight(agents)) + 1
               /\ a \notin agents =>
                    Cardinality(InFlight(agents)') <= Cardinality(InFlight(agents))
    <3>1. IsFiniteSet(InFlight(agents)) /\ Cardinality(InFlight(agents)) \in Nat
      BY <1>0, FlightFinite
    <3>2. /\ IsFiniteSet(InFlight(agents) \cup {e})
          /\ Cardinality(InFlight(agents) \cup {e}) \in Nat
          /\ Cardinality(InFlight(agents) \cup {e}) <= Cardinality(InFlight(agents)) + 1
      <4> DEFINE S == InFlight(agents)
      <4> HIDE DEF S
      <4>1. IsFiniteSet(S) /\ Cardinality(S) \in Nat
        BY <3>1 DEF S
      <4>2. IsFiniteSet(S \cup {e})
            /\ Cardinality(S \cup {e}) = IF e \in S THEN Cardinality(S) ELSE Cardinality(S) + 1
        BY <4>1, FS_AddElement
      <4> QED BY <4>1, <4>2 DEF S
    <3>3. /\ InFlight(agents)' \subseteq InFlight(agents) \cup {e}
          /\ a \notin agents => InFlight(agents)' \subseteq InFlight(agents)
      BY <2>5
    <3>4. /\ IsFiniteSet(InFlight(agents)')
          /\ Cardinality(InFlight(agents)') <= Cardinality(InFlight(agents) \cup {e})
      BY <3>2, <3>3, FS_Subset
    <3>5. a \notin agents =>
            Cardinality(InFlight(agents)') <= Cardinality(InFlight(agents))
      BY <3>1, <3>3, FS_Subset
    <3>6. Cardinality(InFlight(agents)') \in Nat
      BY <3>4, FS_CardinalityType
    <3> QED BY <3>1, <3>2, <3>4, <3>5, <3>6
  <2>7. CanDispatch(a)
    BY <1>0, <1>2 DEF LInv, Allowed
  <2>8. ASSUME NEW b \in Limited PROVE Cardinality(InFlight({b})') <= AgentLimit
    <3>1. Cardinality(InFlight({b})) <= AgentLimit
      BY DEF LInv, LimitKept, CountInFlight, InFlight
    <3>2. CASE b = a
      <4>1. Cardinality(InFlight({b})) < AgentLimit
        BY <2>7, <3>2 DEF CanDispatch, CountInFlight, InFlight
      <4> QED BY <2>6, <4>1, DispatchAssumption
    <3>3. CASE b # a
      <4>1. Cardinality(InFlight({b})') <= Cardinality(InFlight({b}))
        BY <2>6, <3>3
      <4> QED BY <2>6, <3>1, <4>1, DispatchAssumption
    <3> QED BY <3>2, <3>3
  <2>9. ASSUME GlobalLimit > 0, NEW rest, rest = Agent \ Limited
        PROVE  Cardinality(InFlight(rest)') <= GlobalLimit
    <3>1. Cardinality(InFlight(rest)) <= GlobalLimit
      BY <2>9 DEF LInv, LimitKept, InFlight
    <3>2. CASE a \in rest
      <4>1. Cardinality(InFlight(Agent)) < GlobalLimit
        BY <2>7, <2>9, <3>2 DEF CanDispatch, CountAllInFlight, InFlight
      <4>2. InFlight(rest) \subseteq InFlight(Agent)
        BY <2>9 DEF InFlight, With
      <4>3. Cardinality(InFlight(rest)) <= Cardinality(InFlight(Agent))
        BY <1>0, <4>2, FlightFinite, FS_Subset
      <4>4. Cardinality(InFlight(Agent)) \in Nat
        BY <1>0, FlightFinite
      <4> QED BY <2>6, <4>1, <4>3, <4>4, DispatchAssumption
    <3>3. CASE a \notin rest
      <4>1. Cardinality(InFlight(rest)') <= Cardinality(InFlight(rest))
        BY <2>6, <3>3
      <4> QED BY <2>6, <3>1, <4>1, DispatchAssumption
    <3> QED BY <3>2, <3>3
  <2>10. LimitKept'
    BY <2>8, <2>9 DEF LimitKept, CountInFlight, InFlight
  <2> QED BY <1>1, <2>10 DEF LInv, Allowed
<1> QED BY <1>3, <1>4

\* What every other step does to the entries: none becomes dispatched.
LEMMA LInvNext == LInv /\ [Next]_vars => LInv'
<1> SUFFICES ASSUME LInv, [Next]_vars PROVE LInv'
  OBVIOUS
<1>0. /\ TInv' /\ entry \in Seq(Entry) /\ ticker \in Ticker
      /\ \A a \in Admin : admin[a] \in Nat
      /\ \A g \in Runner : runner[g].id \in Nat
      /\ \A d \in Delivery : delivery[d].card \in Card /\ delivery[d].agent \in Agent
  BY TypeNext DEF LInv, TInv, TypeOK, Working, Serving
<1>s. ASSUME UNCHANGED <<entry, ticker>> PROVE LInv'
  BY <1>0, <1>s, Shrinks DEF LInv, Allowed, Id
<1>u. ASSUME NEW e \in Nat, NEW status \in {"pending", "completed", "failed"},
             UpdateDispatchStatus(e, status), UNCHANGED ticker
      PROVE  LInv'
  <2>1. /\ Id' = Id
        /\ \A f \in Id : /\ entry'[f].status = IF f = e THEN status ELSE entry[f].status
                         /\ entry'[f].agent = entry[f].agent
    BY <1>0, <1>u, StatusKeeps
  <2> QED BY <1>0, <1>u, <2>1, Shrinks DEF LInv, Allowed
<1>c. ASSUME NEW kind \in {"triage", "reply"}, NEW c \in Card, NEW a \in Agent,
             NEW d \in Delivery, CreateDispatchEntry(kind, c, a, d), UNCHANGED ticker
      PROVE  LInv'
  <2>1. /\ Id' = Id \cup {Len(entry) + 1} /\ \A e \in Id : entry'[e] = entry[e]
        /\ entry'[Len(entry) + 1] = [status |-> "pending", kind |-> kind, card |-> c,
                                     agent |-> a, by |-> d]
    BY <1>0, <1>c, CreateKeeps
  <2> QED BY <1>0, <1>c, <2>1, Shrinks DEF LInv, Allowed
<1>1. CASE UNCHANGED vars
  BY <1>1, <1>s DEF vars
<1>2. CASE InitDispatch
  <2>1. DOMAIN entry' = Id /\ Id' = Id
    BY <1>0, <1>2, IdOf DEF InitDispatch, TInv, TypeOK, Id
  <2>2. \A e \in Id : entry'[e].status # "dispatched"
    BY <1>0, <1>2, IdOf DEF InitDispatch, Entry
  <2> QED BY <1>0, <1>2, <2>1, <2>2, Shrinks DEF InitDispatch, LInv, Allowed
<1>3. ASSUME NEW d \in Delivery, NEW c \in Card, NEW a \in Agent, HandleAssign(d, c, a)
      PROVE  LInv'
  BY <1>3, <1>s DEF HandleAssign
<1>4. ASSUME NEW d \in Delivery, CreateTriage(d) PROVE LInv'
  BY <1>0, <1>4, <1>c DEF CreateTriage
<1>5. ASSUME NEW c \in Card, NEW a \in Agent, HandleComment(c, a) PROVE LInv'
  BY <1>5, <1>c, ConstantTypes DEF HandleComment
<1>6. CASE Tick
  <2>1. ticker'.pc # "take"
    BY <1>0, <1>6 DEF Tick, Ticker
  <2> QED BY <1>0, <1>6, <2>1, Shrinks DEF Tick, Id
<1>7. ASSUME NEW a \in Agent, CheckAgent(a) PROVE LInv'
  <2>1. ticker'.pc = "take" => CanDispatch(ticker'.agent)
    <3>1. CASE CanDispatch(a)
      BY <1>7, <3>1 DEF CheckAgent
    <3>2. CASE ~CanDispatch(a)
      BY <1>0, <1>7, <3>2 DEF CheckAgent, NextAgent, Ticker
    <3> QED BY <3>1, <3>2
  <2> QED BY <1>0, <1>7, <2>1, Shrinks DEF CheckAgent, Id
<1>8. CASE TakeNext
  BY <1>0, <1>8, TakeNextKeepsLimits
<1>9. ASSUME NEW g \in Runner, RunnerStep(g) \/ Expire(g) PROVE LInv'
  <2>1. CASE AskFails(g)
    BY <1>0, <1>u, <2>1 DEF AskFails
  <2>2. CASE CompleteDispatch(g)
    BY <1>0, <1>u, <2>2 DEF CompleteDispatch
  <2>3. CASE ~AskFails(g) /\ ~CompleteDispatch(g)
    <3>1. UNCHANGED <<entry, ticker>>
      BY <1>9, <2>3 DEF RunnerStep, Expire, LoopFails, Continue, Verdict, Implemented,
                        TestsFail, GiveUp, TestsPass, LeaveLoop
    <3> QED BY <1>s, <3>1
  <2> QED BY <2>1, <2>2, <2>3
<1>10. ASSUME NEW a \in Admin, NEW e \in Id, ReadFailed(a, e) PROVE LInv'
  BY <1>10, <1>s DEF ReadFailed
<1>11. ASSUME NEW a \in Admin, RetryDispatch(a) PROVE LInv'
  BY <1>0, <1>11, <1>u DEF RetryDispatch
<1>12. CASE Crash
  BY <1>0, <1>12, Shrinks DEF Crash, Waiting, Id
<1> QED BY <1>1, <1>2, <1>3, <1>4, <1>5, <1>6, <1>7, <1>8, <1>9, <1>10, <1>11, <1>12
        DEF Next, TickerStep

\* No agent with a limit has more entries dispatched than it, nor the others
\* together more than the global one (dispatch.go:211).
THEOREM WithinLimits == Spec => []LimitKept
<1>1. LInv => LimitKept
  BY DEF LInv
<1> QED BY LInvInit, LInvNext, <1>1, PTL DEF Spec

(***************************************************************************)
(* Duplicates.                                                             *)
(***************************************************************************)
ActiveTriage(e) == Active(e) /\ entry[e].kind = "triage"

\* A goroutine that found no active entry has queued no active triage itself.
Unqueued ==
  \A d \in Delivery, e \in Id :
    /\ delivery[d].pc = "create" /\ ActiveTriage(e) /\ retries = 0
    /\ entry[e].card = delivery[d].card /\ entry[e].agent = delivery[d].agent
    => entry[e].by # d
Unretried == retries = 0 => \A a \in Admin : admin[a] = 0

DInv == TInv /\ DedupKept /\ Unqueued /\ Unretried

LEMMA DInvInit == Init => DInv
BY TypeInit DEF Init, DInv, DedupKept, Unqueued, Unretried, Id

\* Steps after which no entry is active that was not, or a retry has been made.
LEMMA StaysQueued ==
  ASSUME DInv, TInv', Unretried', Id' = Id, retries' >= retries,
         \A e \in Id : /\ Active(e)' => Active(e) \/ retries' > 0
                       /\ entry'[e].kind = entry[e].kind /\ entry'[e].card = entry[e].card
                       /\ entry'[e].agent = entry[e].agent /\ entry'[e].by = entry[e].by,
         \A d \in Delivery : delivery'[d].pc = "create" =>
           \/ delivery'[d] = delivery[d]
           \/ ~HasPendingOrDispatched(delivery'[d].card, delivery'[d].agent)
  PROVE  DInv'
<1>0. retries \in Nat /\ retries' \in Nat
  BY DispatchAssumption DEF DInv, TInv, TypeOK
<1>1. retries' > 0 \/ (retries' = 0 /\ retries = 0)
  BY <1>0
<1>2. CASE retries' > 0
  BY <1>0, <1>2 DEF DInv, DedupKept, Unqueued
<1>3. CASE retries' = 0 /\ retries = 0
  <2>1. \A e \in Id : Active(e)' => Active(e)
    BY <1>3
  <2>2. DedupKept'
    BY <1>3, <2>1 DEF DInv, DedupKept
  <2>3. Unqueued'
    BY <1>3, <2>1 DEF DInv, Unqueued, ActiveTriage, HasPendingOrDispatched
  <2> QED BY <2>2, <2>3 DEF DInv
<1> QED BY <1>1, <1>2, <1>3

\* Steps that leave the table.
LEMMA TableStays ==
  ASSUME DInv, TInv', UNCHANGED <<entry, delivery, retries, admin>>
  PROVE  DInv'
<1>1. retries \in Nat
  BY DispatchAssumption DEF DInv, TInv, TypeOK
<1> QED BY <1>1, StaysQueued DEF DInv, Unretried, Id, Active

\* Steps that set the status of an entry, but make none active.
LEMMA StatusQueued ==
  ASSUME DInv, TInv', NEW e \in Nat, NEW status \in {"dispatched", "completed", "failed"},
         status = "dispatched" => Active(e), UpdateDispatchStatus(e, status),
         UNCHANGED <<delivery, retries, admin>>
  PROVE  DInv'
<1>0. entry \in Seq(Entry) /\ retries \in Nat
  BY DispatchAssumption DEF DInv, TInv, TypeOK
<1>1. /\ Id' = Id
      /\ \A f \in Id : /\ entry'[f].status = IF f = e THEN status ELSE entry[f].status
                       /\ entry'[f].kind = entry[f].kind /\ entry'[f].card = entry[f].card
                       /\ entry'[f].agent = entry[f].agent /\ entry'[f].by = entry[f].by
  BY <1>0, StatusKeeps
<1>2. \A f \in Id : Active(f)' => Active(f)
  BY <1>1 DEF Active
<1>3. Unretried'
  BY DEF DInv, Unretried
<1> QED BY <1>0, <1>1, <1>2, <1>3, StaysQueued

LEMMA CreateQueued ==
  ASSUME DInv, TInv', NEW kind \in {"triage", "reply"}, NEW c \in Card, NEW a \in Agent,
         NEW d \in Delivery, CreateDispatchEntry(kind, c, a, d),
         UNCHANGED <<retries, admin>>,
         \/ kind = "reply" /\ delivery' = delivery
         \/ /\ delivery[d] = [pc |-> "create", card |-> c, agent |-> a]
            /\ delivery' = [delivery EXCEPT ![d] = NoEvent]
  PROVE  DInv'
<1>0. entry \in Seq(Entry) /\ retries \in Nat /\ delivery \in [Delivery -> Serving]
  BY DispatchAssumption DEF DInv, TInv, TypeOK
<1>1. PICK n \in Nat : n = Len(entry) + 1
  BY <1>0
<1>2. /\ Id' = Id \cup {n} /\ n \notin Id /\ \A e \in Id : entry'[e] = entry[e]
      /\ entry'[n] = [status |-> "pending", kind |-> kind, card |-> c, agent |-> a, by |-> d]
  BY <1>0, <1>1, CreateKeeps
<1>3. \A e \in Id : (Active(e)' <=> Active(e)) /\ (ActiveTriage(e)' <=> ActiveTriage(e))
  BY <1>2 DEF Active, ActiveTriage
<1>4. \A f \in Delivery : delivery'[f].pc = "create" => delivery'[f] = delivery[f]
  BY <1>0 DEF NoEvent
<1>5. ActiveTriage(n)' => /\ delivery[d] = [pc |-> "create", card |-> c, agent |-> a]
                          /\ delivery'[d].pc # "create"
  BY <1>0, <1>2 DEF ActiveTriage, NoEvent
<1>6. Unqueued'
  <2> SUFFICES ASSUME NEW f \in Delivery, NEW e \in Id',
                      delivery'[f].pc = "create", ActiveTriage(e)', retries = 0,
                      entry'[e].card = delivery'[f].card, entry'[e].agent = delivery'[f].agent
               PROVE  entry'[e].by # f
    BY DEF Unqueued
  <2>1. CASE e = n
    BY <1>2, <1>5, <2>1
  <2>2. CASE e # n
    BY <1>2, <1>3, <1>4, <2>2 DEF DInv, Unqueued
  <2> QED BY <2>1, <2>2
<1>7. ASSUME NEW e \in Id, ActiveTriage(e), ActiveTriage(n)', retries = 0,
             entry[e].card = c, entry[e].agent = a
      PROVE  entry[e].by # d
  <2>1. delivery[d].pc = "create" /\ delivery[d].card = c /\ delivery[d].agent = a
    BY <1>5, <1>7
  <2> QED BY <1>7, <2>1 DEF DInv, Unqueued
<1>8. DedupKept'
  <2> SUFFICES ASSUME NEW e \in Id', NEW f \in Id', e # f, Active(e)', Active(f)',
                      entry'[e].kind = "triage", entry'[f].kind = "triage",
                      entry'[e].card = entry'[f].card, entry'[e].agent = entry'[f].agent,
                      ~(retries > 0)
               PROVE  entry'[e].by # entry'[f].by
    BY DEF DedupKept
  <2>0. retries = 0 /\ ActiveTriage(e)' /\ ActiveTriage(f)'
    BY <1>0 DEF ActiveTriage
  <2>1. CASE e = n
    BY <1>2, <1>3, <1>7, <2>0, <2>1
  <2>2. CASE f = n
    BY <1>2, <1>3, <1>7, <2>0, <2>2
  <2>3. CASE e # n /\ f # n
    BY <1>2, <1>3, <2>3 DEF DInv, DedupKept
  <2> QED BY <2>1, <2>2, <2>3
<1>9. Unretried'
  BY DEF DInv, Unretried
<1> QED BY <1>6, <1>8, <1>9 DEF DInv

LEMMA DInvNext == DInv /\ [Next]_vars => DInv'
<1> SUFFICES ASSUME DInv, [Next]_vars PROVE DInv'
  OBVIOUS
<1>0. /\ TInv' /\ TypeOK /\ entry \in Seq(Entry) /\ retries \in Nat
      /\ delivery \in [Delivery -> Serving] /\ admin \in [Admin -> Nat]
      /\ \A g \in Runner : runner[g].id \in Nat
      /\ \A d \in Delivery : /\ delivery[d] \in Serving
                             /\ delivery[d].card \in Card /\ delivery[d].agent \in Agent
  BY TypeNext, DispatchAssumption DEF DInv, TInv, TypeOK, Working, Serving
<1>1. CASE UNCHANGED vars
  BY <1>0, <1>1, TableStays DEF vars
<1>2. CASE InitDispatch
  <2>1. DOMAIN entry' = Id /\ Id' = Id
    BY <1>0, <1>2, IdOf DEF InitDispatch, TInv, TypeOK, Id
  <2>2. \A e \in Id : /\ Active(e)' => Active(e)
                      /\ entry'[e].kind = entry[e].kind /\ entry'[e].card = entry[e].card
                      /\ entry'[e].agent = entry[e].agent /\ entry'[e].by = entry[e].by
    <3> SUFFICES ASSUME NEW e \in Id
                 PROVE  /\ Active(e)' => Active(e)
                        /\ entry'[e].kind = entry[e].kind /\ entry'[e].card = entry[e].card
                        /\ entry'[e].agent = entry[e].agent /\ entry'[e].by = entry[e].by
      OBVIOUS
    <3>1. entry[e] \in Entry
      BY <1>0, IdOf
    <3>2. entry'[e] = IF entry[e].status = "dispatched"
                        THEN [entry[e] EXCEPT !.status = "pending"] ELSE entry[e]
      BY <1>2 DEF InitDispatch
    <3> QED BY <3>1, <3>2 DEF Active, Entry
  <2>3. Unretried'
    BY <1>2 DEF InitDispatch, DInv, Unretried
  <2> QED BY <1>0, <1>2, <2>1, <2>2, <2>3, StaysQueued DEF InitDispatch
<1>3. ASSUME NEW d \in Delivery, NEW c \in Card, NEW a \in Agent, HandleAssign(d, c, a)
      PROVE  DInv'
  <2>1. /\ Id' = Id /\ entry' = entry /\ retries' = retries
        /\ ~HasPendingOrDispatched(c, a)
        /\ delivery' = [delivery EXCEPT ![d] = [pc |-> "create", card |-> c, agent |-> a]]
    BY <1>3 DEF HandleAssign, Id
  <2>2. \A f \in Delivery : \/ delivery'[f] = delivery[f]
                           \/ delivery'[f] = [pc |-> "create", card |-> c, agent |-> a]
    BY <1>0, <2>1
  <2>3. \A f \in Delivery : delivery'[f].pc = "create" =>
           \/ delivery'[f] = delivery[f]
           \/ ~HasPendingOrDispatched(delivery'[f].card, delivery'[f].agent)
    BY <2>1, <2>2
  <2>4. Unretried'
    BY <1>3 DEF HandleAssign, DInv, Unretried
  <2> QED BY <1>0, <2>1, <2>3, <2>4, StaysQueued DEF Active
<1>4. ASSUME NEW d \in Delivery, CreateTriage(d) PROVE DInv'
  <2>1. delivery[d] = [pc |-> "create", card |-> delivery[d].card, agent |-> delivery[d].agent]
    BY <1>0, <1>4 DEF CreateTriage, Serving
  <2> QED BY <1>0, <1>4, <2>1, CreateQueued DEF CreateTriage
<1>5. ASSUME NEW c \in Card, NEW a \in Agent, HandleComment(c, a) PROVE DInv'
  BY <1>0, <1>5, CreateQueued, ConstantTypes DEF HandleComment
<1>6. CASE TickerStep
  <2>1. CASE Tick \/ \E a \in Agent : CheckAgent(a)
    BY <1>0, <2>1, TableStays DEF Tick, CheckAgent
  <2>2. CASE TakeNext
    <3>1. PICK a \in Agent : a = ticker.agent
      BY <1>0 DEF TypeOK, Ticker
    <3>2. CASE With("pending", {a}) = {}
      BY <1>0, <2>2, <3>1, <3>2, TableStays DEF TakeNext
    <3>3. CASE With("pending", {a}) # {}
      <4>1. PICK e \in Nat : e = GetNextPending(a)
        BY <1>0, <3>3, NextIsPending, IdOf DEF With
      <4>2. Active(e)
        BY <1>0, <3>3, <4>1, NextIsPending DEF With, Active
      <4>3. UpdateDispatchStatus(e, "dispatched") /\ UNCHANGED <<delivery, retries, admin>>
        BY <2>2, <3>1, <3>3, <4>1 DEF TakeNext
      <4> QED BY <1>0, <4>2, <4>3, StatusQueued
    <3> QED BY <3>2, <3>3
  <2> QED BY <1>6, <2>1, <2>2 DEF TickerStep
<1>7. ASSUME NEW g \in Runner, RunnerStep(g) \/ Expire(g) PROVE DInv'
  <2>1. CASE AskFails(g)
    BY <1>0, <2>1, StatusQueued DEF AskFails
  <2>2. CASE CompleteDispatch(g)
    BY <1>0, <2>2, StatusQueued DEF CompleteDispatch
  <2>3. CASE ~AskFails(g) /\ ~CompleteDispatch(g)
    <3>1. UNCHANGED <<entry, delivery, retries, admin>>
      BY <1>7, <2>3 DEF RunnerStep, Expire, LoopFails, Continue, Verdict, Implemented,
                        TestsFail, GiveUp, TestsPass, LeaveLoop
    <3> QED BY <1>0, <3>1, TableStays
  <2> QED BY <2>1, <2>2, <2>3
<1>8. ASSUME NEW a \in Admin, NEW e \in Id, ReadFailed(a, e) PROVE DInv'
  <2>1. /\ Id' = Id /\ entry' = entry /\ delivery' = delivery /\ retries' = retries + 1
        /\ Unretried'
    BY <1>0, <1>8 DEF ReadFailed, Id, Unretried
  <2> QED BY <1>0, <2>1, StaysQueued DEF Active
<1>9. ASSUME NEW a \in Admin, RetryDispatch(a) PROVE DInv'
  <2>1. retries > 0
    BY <1>0, <1>9 DEF RetryDispatch, DInv, Unretried
  <2>2. UpdateDispatchStatus(admin[a], "pending") /\ UNCHANGED <<delivery, retries>>
    BY <1>9 DEF RetryDispatch
  <2>3. /\ Id' = Id
        /\ \A f \in Id : /\ entry'[f].kind = entry[f].kind /\ entry'[f].card = entry[f].card
                         /\ entry'[f].agent = entry[f].agent /\ entry'[f].by = entry[f].by
    BY <1>0, <2>2, StatusKeeps
  <2>4. Unretried'
    BY <1>0, <2>1, <2>2 DEF Unretried
  <2> QED BY <1>0, <2>1, <2>2, <2>3, <2>4, StaysQueued
<1>10. CASE Crash
  <2>1. /\ Id' = Id /\ entry' = entry /\ retries' = retries /\ Unretried'
        /\ \A d \in Delivery : delivery'[d].pc # "create"
    BY <1>0, <1>10 DEF Crash, Id, Unretried, NoEvent
  <2> QED BY <1>0, <2>1, StaysQueued DEF Active
<1> QED BY <1>1, <1>2, <1>3, <1>4, <1>5, <1>6, <1>7, <1>8, <1>9, <1>10 DEF Next

\* Two active triages of a card by one agent come from two goroutines that
\* served assign events at once, or one of them was retried (dispatch.go:124).
THEOREM NoDuplicates == Spec => []DedupKept
<1>1. DInv => DedupKept
  BY DEF DInv
<1> QED BY DInvInit, DInvNext, <1>1, PTL DEF Spec
=============================================================================
