-------------------------------- MODULE Dispatch -------------------------------
(***************************************************************************)
(* The dispatch queue of the task scheduler plugin.  Events of the task    *)
(* tracker put entries into a table: a triage for a card that is assigned  *)
(* to an agent, a reply for a comment on it.  The tick of the scheduler    *)
(* marks entries as dispatched, within the limits, and starts a goroutine  *)
(* for each, which asks the agent, moves the card and closes the entry; an *)
(* agent that answers "execute" or "reopen" is then led through a loop of  *)
(* attempts.                                                               *)
(*                                                                         *)
(* An entry is its number in the order of creation.  The relay answers a   *)
(* chat itself only on a channel that is mapped to a workspace; on others  *)
(* its answer has no text, which counts as "reply" (constant Answer).      *)
(***************************************************************************)
EXTENDS Naturals, Sequences, FiniteSets

CONSTANTS
  Agent, Card, Delivery, Admin, Runner,
  Column,       \* the names of the columns of the board
  MoveFails,    \* may the tracker fail to move a card
  Answer,       \* the actions an agent may answer with
  Limited,      \* agents with a limit of their own
  AgentLimit,   \* that limit
  GlobalLimit,  \* the limit for all other agents, 0 for none
  MaxAttempts,  \* attempts of the execution loop
  MaxEntries,   \* bound on the entries
  MaxRetries,   \* bound on the manual retries
  MaxCrashes    \* bound on the times the plugin stops

Actions == {"plan", "execute", "continue", "replan", "stop", "reply", "done",
            "reopen", "new_task"}

ASSUME DispatchAssumption ==
  /\ Agent # {} /\ Card # {} /\ Delivery # {}
  /\ IsFiniteSet(Runner)
  /\ Limited \subseteq Agent
  /\ Answer \subseteq Actions
  /\ "Backlog" \in Column
  /\ MoveFails \in BOOLEAN
  /\ AgentLimit \in Nat /\ GlobalLimit \in Nat /\ MaxAttempts \in Nat \ {0}
  /\ MaxEntries \in Nat /\ MaxRetries \in Nat /\ MaxCrashes \in Nat

VARIABLES
  entry,        \* the table, in the order of creation
  col,          \* the column every card is in
  up,           \* does the plugin run
  delivery,     \* the goroutines that serve assign events
  ticker,       \* the agents the current tick has still to look at
  runner,       \* the goroutines that work on entries
  admin,        \* requests to retry an entry
  retries,      \* retries so far
  crashes       \* stops so far

vars == <<entry, col, up, delivery, ticker, runner, admin, retries, crashes>>

\* by is the goroutine that queued a triage.
Entry == [status : {"pending", "dispatched", "completed", "failed"},
          kind : {"triage", "reply"}, card : Card, agent : Agent, by : Delivery]
Id == 1..Len(entry)

NoCard == CHOOSE c \in Card : TRUE
NoAgent == CHOOSE a \in Agent : TRUE
NoOne == CHOOSE d \in Delivery : TRUE

Serving == [pc : {"idle", "create"}, card : Card, agent : Agent]
NoEvent == [pc |-> "idle", card |-> NoCard, agent |-> NoAgent]

\* A goroutine asks for a verdict, closes its entry, and may go on to the
\* loop, if the verdict was to execute; timely says whether its five minutes
\* have not passed.
Phase == {"idle", "ask", "close", "implement", "test", "evaluate"}
Working == [pc : Phase, id : Nat, execute : BOOLEAN, attempt : 0..MaxAttempts,
            timely : BOOLEAN]
Idle == [pc |-> "idle", id |-> 0, execute |-> FALSE, attempt |-> 0,
         timely |-> TRUE]
InLoop(g) == runner[g].pc \in {"implement", "test", "evaluate"}
AtWork(g) == runner[g].pc \in {"ask", "close"}

Ticker == [pc : {"wait", "next", "take"}, todo : SUBSET Agent, agent : Agent]
Waiting == [pc |-> "wait", todo |-> {}, agent |-> NoAgent]

Init ==
  /\ entry = <<>>
  /\ col = [c \in Card |-> "Backlog"]
  /\ up = FALSE
  /\ delivery = [d \in Delivery |-> NoEvent]
  /\ ticker = Waiting
  /\ runner = [g \in Runner |-> Idle]
  /\ admin = [a \in Admin |-> 0]
  /\ retries = 0
  /\ crashes = 0

(***************************************************************************)
(* The table.                                                              *)
(***************************************************************************)
With(status, agents) ==
  {e \in Id : entry[e].status = status /\ entry[e].agent \in agents}
CountInFlight(a) == Cardinality(With("dispatched", {a}))
CountAllInFlight == Cardinality(With("dispatched", Agent))
Active(e) == entry[e].status \in {"pending", "dispatched"}
HasPendingOrDispatched(c, a) ==
  \E e \in Id : Active(e) /\ entry[e].card = c /\ entry[e].agent = a
UpdateDispatchStatus(e, status) == entry' = [entry EXCEPT ![e].status = status]
CreateDispatchEntry(kind, c, a, d) ==
  /\ Len(entry) < MaxEntries
  /\ entry' = Append(entry, [status |-> "pending", kind |-> kind, card |-> c,
                             agent |-> a, by |-> d])

\* The oldest one.
GetNextPending(a) ==
  CHOOSE e \in With("pending", {a}) : \A f \in With("pending", {a}) : e <= f

(***************************************************************************)
(* Start, and the events of the tracker.                                   *)
(***************************************************************************)
\* Mutant: what a run before left as dispatched stays so.
InitDispatchKeeps ==
  /\ ~up
  /\ up' = TRUE
  /\ UNCHANGED <<entry, col, delivery, ticker, runner, admin, retries, crashes>>

\* What a run before left as dispatched is pending again.
InitDispatch ==
  /\ ~up
  /\ up' = TRUE
  /\ entry' = [e \in Id |-> IF entry[e].status = "dispatched"
                              THEN [entry[e] EXCEPT !.status = "pending"]
                              ELSE entry[e]]
  /\ UNCHANGED <<col, delivery, ticker, runner, admin, retries, crashes>>

\* Mutant: only an entry that is still pending counts as a duplicate.
HandleAssignPending(d, c, a) ==
  /\ up
  /\ delivery[d].pc = "idle"
  /\ ~\E e \in With("pending", {a}) : entry[e].card = c
  /\ Len(entry) < MaxEntries
  /\ delivery' = [delivery EXCEPT ![d] = [pc |-> "create", card |-> c, agent |-> a]]
  /\ UNCHANGED <<entry, col, up, ticker, runner, admin, retries, crashes>>

\* The test for an active entry and the creation are two queries.
HandleAssign(d, c, a) ==
  /\ up
  /\ delivery[d].pc = "idle"
  /\ ~HasPendingOrDispatched(c, a)
  /\ Len(entry) < MaxEntries
  /\ delivery' = [delivery EXCEPT ![d] = [pc |-> "create", card |-> c, agent |-> a]]
  /\ UNCHANGED <<entry, col, up, ticker, runner, admin, retries, crashes>>

CreateTriage(d) ==
  /\ delivery[d].pc = "create"
  /\ CreateDispatchEntry("triage", delivery[d].card, delivery[d].agent, d)
  /\ delivery' = [delivery EXCEPT ![d] = NoEvent]
  /\ UNCHANGED <<col, up, ticker, runner, admin, retries, crashes>>

\* Comments of agents have no author and are skipped; every other queues.
HandleComment(c, a) ==
  /\ up
  /\ CreateDispatchEntry("reply", c, a, NoOne)
  /\ UNCHANGED <<col, up, delivery, ticker, runner, admin, retries, crashes>>

(***************************************************************************)
(* processDispatchQueue: one entry at most for each agent with pending     *)
(* ones.                                                                   *)
(***************************************************************************)
ListPendingAgents == {a \in Agent : With("pending", {a}) # {}}

Tick ==
  /\ up
  /\ ticker.pc = "wait"
  /\ ListPendingAgents # {}
  /\ ticker' = [ticker EXCEPT !.pc = "next", !.todo = ListPendingAgents]
  /\ UNCHANGED <<entry, col, up, delivery, runner, admin, retries, crashes>>

\* Mutant: only an agent without a limit of its own is counted.
CanDispatchGlobal(a) ==
  a \in Limited \/ (GlobalLimit > 0 => CountAllInFlight < GlobalLimit)

CanDispatch(a) ==
  IF a \in Limited THEN CountInFlight(a) < AgentLimit
  ELSE GlobalLimit > 0 => CountAllInFlight < GlobalLimit

NextAgent(todo) == [ticker EXCEPT !.pc = IF todo = {} THEN "wait" ELSE "next",
                                  !.todo = todo, !.agent = NoAgent]

CheckAgent(a) ==
  /\ ticker.pc = "next"
  /\ a \in ticker.todo
  /\ ticker' = IF CanDispatch(a)
                 THEN [pc |-> "take", todo |-> ticker.todo \ {a}, agent |-> a]
                 ELSE NextAgent(ticker.todo \ {a})
  /\ UNCHANGED <<entry, col, up, delivery, runner, admin, retries, crashes>>

\* Mutant: an entry that no goroutine is there for is marked all the same.
TakeNextMarks ==
  LET a == ticker.agent
  IN /\ ticker.pc = "take"
     /\ IF With("pending", {a}) = {}
          THEN UNCHANGED entry
          ELSE UpdateDispatchStatus(GetNextPending(a), "dispatched")
     /\ ticker' = NextAgent(ticker.todo)
     /\ UNCHANGED <<col, up, delivery, runner, admin, retries, crashes>>

\* The entry is marked before its goroutine starts.
TakeNext ==
  LET a == ticker.agent
      g == CHOOSE f \in Runner : runner[f].pc = "idle"
  IN /\ ticker.pc = "take"
     /\ \E f \in Runner : runner[f].pc = "idle"
     /\ IF With("pending", {a}) = {}
          THEN UNCHANGED <<entry, runner>>
          ELSE LET e == GetNextPending(a)
               IN /\ UpdateDispatchStatus(e, "dispatched")
                  /\ runner' = [runner EXCEPT ![g] = [Idle EXCEPT !.pc = "ask", !.id = e]]
     /\ ticker' = NextAgent(ticker.todo)
     /\ UNCHANGED <<col, up, delivery, admin, retries, crashes>>

(***************************************************************************)
(* executeDispatch and runExecutionLoop.  A step is an answer of the agent *)
(* with what follows up to the next question.                              *)
(***************************************************************************)
CardOf(g) == entry[runner[g].id].card

\* A column the board does not have, a goroutine whose time is over and a call
\* that fails leave the card where it is; nobody is told.
MoveCard(g, name) ==
  \/ runner[g].timely /\ name \in Column /\ col' = [col EXCEPT ![CardOf(g)] = name]
  \/ (MoveFails \/ ~runner[g].timely \/ name \notin Column) /\ UNCHANGED col

\* The column an answer moves the card to before the entry is closed.
Target == [plan |-> "Todo", replan |-> "Todo", stop |-> "Failed", done |-> "Done",
           reopen |-> "In Progress"]

Verdict(g, action) ==
  /\ runner[g].pc = "ask"
  /\ runner[g].timely
  /\ IF action \in DOMAIN Target THEN MoveCard(g, Target[action]) ELSE UNCHANGED col
  /\ runner' = [runner EXCEPT ![g].pc = "close",
                               ![g].execute = action \in {"execute", "reopen"}]
  /\ UNCHANGED <<entry, up, delivery, ticker, admin, retries, crashes>>

\* The card cannot be fetched, or the relay does not answer in time.
AskFails(g) ==
  /\ runner[g].pc = "ask"
  /\ UpdateDispatchStatus(runner[g].id, "failed")
  /\ runner' = [runner EXCEPT ![g] = Idle]
  /\ UNCHANGED <<col, up, delivery, ticker, admin, retries, crashes>>

\* Mutant: attempts are not counted.
AttemptUncounted(g, execute) ==
  IF execute
    THEN /\ MoveCard(g, "In Progress")
         /\ runner' = [runner EXCEPT ![g].pc = "implement"]
    ELSE /\ runner' = [runner EXCEPT ![g] = Idle]
         /\ UNCHANGED col

Attempt(g, execute) ==
  IF execute
    THEN /\ MoveCard(g, "In Progress")
         /\ runner' = [runner EXCEPT ![g].pc = "implement", ![g].attempt = @ + 1]
    ELSE /\ runner' = [runner EXCEPT ![g] = Idle]
         /\ UNCHANGED col

\* The entry is complete before the loop begins.
CompleteDispatch(g) ==
  /\ runner[g].pc = "close"
  /\ UpdateDispatchStatus(runner[g].id, "completed")
  /\ Attempt(g, runner[g].execute)
  /\ UNCHANGED <<up, delivery, ticker, admin, retries, crashes>>

LeaveLoop(g, name) ==
  /\ MoveCard(g, name)
  /\ runner' = [runner EXCEPT ![g] = Idle]
  /\ UNCHANGED <<entry, up, delivery, ticker, admin, retries, crashes>>

\* stop and replan end the loop from wherever they come.
GiveUp(g, action) ==
  /\ InLoop(g)
  /\ runner[g].timely
  /\ action \in {"stop", "replan"}
  /\ LeaveLoop(g, Target[action])

LoopFails(g) ==
  /\ runner[g].pc \in {"implement", "test"}
  /\ LeaveLoop(g, "Failed")

Implemented(g, action) ==
  /\ runner[g].pc = "implement"
  /\ runner[g].timely
  /\ action \notin {"stop", "replan"}
  /\ MoveCard(g, "In Review")
  /\ runner' = [runner EXCEPT ![g].pc = "test"]
  /\ UNCHANGED <<entry, up, delivery, ticker, admin, retries, crashes>>

TestsPass(g) ==
  /\ runner[g].pc = "test"
  /\ runner[g].timely
  /\ LeaveLoop(g, "Done")

TestsFail(g, action) ==
  /\ runner[g].pc = "test"
  /\ runner[g].timely
  /\ action \notin {"stop", "replan", "done"}
  /\ IF runner[g].attempt < MaxAttempts
       THEN /\ runner' = [runner EXCEPT ![g].pc = "evaluate"]
            /\ UNCHANGED <<entry, col, up, delivery, ticker, admin, retries, crashes>>
       ELSE LeaveLoop(g, "Failed")

\* Any other evaluation, and one that fails, leads to the next attempt.
Continue(g) ==
  /\ runner[g].pc = "evaluate"
  /\ Attempt(g, TRUE)
  /\ UNCHANGED <<entry, up, delivery, ticker, admin, retries, crashes>>

Expire(g) ==
  /\ runner[g].pc # "idle"
  /\ runner[g].timely
  /\ runner' = [runner EXCEPT ![g].timely = FALSE]
  /\ UNCHANGED <<entry, col, up, delivery, ticker, admin, retries, crashes>>

(***************************************************************************)
(* RetryDispatch, in its read and its write; crashes.                      *)
(***************************************************************************)
ReadFailed(a, e) ==
  /\ up
  /\ admin[a] = 0
  /\ retries < MaxRetries
  /\ entry[e].status = "failed"
  /\ admin' = [admin EXCEPT ![a] = e]
  /\ retries' = retries + 1
  /\ UNCHANGED <<entry, col, up, delivery, ticker, runner, crashes>>

RetryDispatch(a) ==
  /\ admin[a] # 0
  /\ UpdateDispatchStatus(admin[a], "pending")
  /\ admin' = [admin EXCEPT ![a] = 0]
  /\ UNCHANGED <<col, up, delivery, ticker, runner, retries, crashes>>

Crash ==
  /\ up
  /\ crashes < MaxCrashes
  /\ crashes' = crashes + 1
  /\ up' = FALSE
  /\ delivery' = [d \in Delivery |-> NoEvent]
  /\ ticker' = Waiting
  /\ runner' = [g \in Runner |-> Idle]
  /\ admin' = [a \in Admin |-> 0]
  /\ UNCHANGED <<entry, col, retries>>

TickerStep == Tick \/ (\E a \in Agent : CheckAgent(a)) \/ TakeNext

\* The agent answers, or its call fails.
RunnerStep(g) ==
  \/ AskFails(g) \/ CompleteDispatch(g) \/ LoopFails(g) \/ Continue(g)
  \/ \E action \in Answer : \/ Verdict(g, action) \/ Implemented(g, action)
                            \/ TestsFail(g, action) \/ GiveUp(g, action)
  \/ "done" \in Answer /\ TestsPass(g)

Next ==
  \/ InitDispatch
  \/ \E d \in Delivery : (\E c \in Card, a \in Agent : HandleAssign(d, c, a))
                           \/ CreateTriage(d)
  \/ \E c \in Card, a \in Agent : HandleComment(c, a)
  \/ TickerStep
  \/ \E g \in Runner : RunnerStep(g) \/ Expire(g)
  \/ \E a \in Admin : (\E e \in Id : ReadFailed(a, e)) \/ RetryDispatch(a)
  \/ Crash

Spec == Init /\ [][Next]_vars

\* The kernel restarts the plugin, its ticker ticks, goroutines run, and every
\* call they make returns, with an error if need be.
FairSpec ==
  /\ Spec
  /\ WF_vars(InitDispatch) /\ WF_vars(TickerStep)
  /\ \A d \in Delivery : WF_vars(CreateTriage(d))
  /\ \A g \in Runner : WF_vars(RunnerStep(g))
  /\ \A a \in Admin : WF_vars(RetryDispatch(a))

(***************************************************************************)
(* Properties.                                                             *)
(***************************************************************************)
TypeOK ==
  /\ entry \in Seq(Entry)
  /\ col \in [Card -> Column]
  /\ up \in BOOLEAN
  /\ delivery \in [Delivery -> Serving]
  /\ ticker \in Ticker
  /\ runner \in [Runner -> Working]
  /\ admin \in [Admin -> Nat]
  /\ retries \in 0..MaxRetries
  /\ crashes \in 0..MaxCrashes

\* No agent with a limit has more entries dispatched than it, nor the agents
\* without more than the global limit, whatever events, closings, retries and
\* restarts come between the count and the mark (scheduler/dispatch.go:211).
LimitKept ==
  /\ \A a \in Limited : CountInFlight(a) <= AgentLimit
  /\ GlobalLimit > 0 =>
       Cardinality(With("dispatched", Agent \ Limited)) <= GlobalLimit

\* While the plugin runs, an entry is dispatched exactly while one goroutine
\* works on it: none is worked on twice, and none is left without, so that it
\* would use up the limit for ever (dispatch.go:202, 98; one administrator).
OneRunner ==
  up => \A e \in Id :
          Cardinality({g \in Runner : AtWork(g) /\ runner[g].id = e})
            = IF entry[e].status = "dispatched" THEN 1 ELSE 0

\* A card has two active triages by an agent only where two assign events were
\* served at once, or an entry was retried (dispatch.go:124).
DedupKept ==
  \A e, f \in Id :
    /\ e # f /\ Active(e) /\ Active(f)
    /\ entry[e].kind = "triage" /\ entry[f].kind = "triage"
    /\ entry[e].card = entry[f].card /\ entry[e].agent = entry[f].agent
    => entry[e].by # entry[f].by \/ retries > 0

\* Again and again every entry is completed or failed, however often the
\* plugin restarts on the way.
QueueEmpties == []<>(\A e \in Id : ~Active(e))

\* Every goroutine returns, the ones that are in the loop as well.
AllReturn == \A g \in Runner : []<>(runner[g].pc = "idle")
==============================================================================
