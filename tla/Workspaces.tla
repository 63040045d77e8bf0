------------------------------- MODULE Workspaces -------------------------------
(***************************************************************************)
(* Workspaces: the containers that the kernel runs for the workspace       *)
(* manager.  A request to the manager becomes one or more calls of the     *)
(* kernel, whose handler reads the row of the container, works with Docker *)
(* and writes its copy of the row back.  Nothing keeps two handlers off    *)
(* one container, and a caller that waits too long gives up and goes on    *)
(* while its handler still works.  Beside them are the health monitor, an  *)
(* administrator, and the start and the end of the kernel.                 *)
(***************************************************************************)
EXTENDS Integers, FiniteSets

CONSTANTS
  Container,    \* identities of containers; each is created once
  NoContainer,
  Request,      \* requests that the manager serves
  Call,         \* handlers of the kernel
  NoCall,       \* neither handler nor call
  MaxStarts,    \* bound on the Docker containers that are made
  MaxRequests,  \* bound on the requests
  MaxExtras     \* bound on what goes wrong or comes from elsewhere: timeouts,
                \* errors of Docker, containers that die, forced deletions,
                \* stops of the manager and of the kernel

ASSUME WorkspacesAssumption ==
  /\ NoContainer \notin Container
  /\ NoCall \notin Call
  /\ Request \cap (Call \cup Container) = {}
  /\ Call \cap Container = {}
  /\ {MaxStarts, MaxRequests, MaxExtras} \subseteq Nat

VARIABLES
  row,        \* the kernel's table of managed containers
  dock,       \* Docker's container under the name of a managed container
  handler,    \* the kernel's handlers
  listed,     \* what the monitor has read and not checked yet
  kernel,     \* does the kernel run: starting, up, closing, down
  recovery,   \* rows that are to be recovered after the kernel's start
  request,    \* the manager's handlers
  record,     \* workspaces the manager has a record of
  created,    \* containers that a row was made for
  removed,    \* containers whose row has been deleted
  disturbed,  \* accidents and overlaps on a container: none, since its start, before
  starts,     \* Docker containers so far
  requests,   \* requests so far
  extras      \* see MaxExtras

system == <<kernel, recovery, listed>>
manager == <<request, record>>
history == <<created, removed>>
bounds == <<starts, requests, extras>>
vars == <<row, dock, handler, system, manager, history, disturbed, bounds>>

(***************************************************************************)
(* Rows, containers, handlers and requests.                                *)
(***************************************************************************)
NoId == 0
Id == 0..MaxStarts

\* The environment, command and mounts of a container, by the request that put
\* them together; 0 is what it was created with.  An update that has none of them
\* sends nothing.  Its image and user, always sent, are left out.
Version == 0..MaxRequests
Nothing == 0

NoRow == [status |-> "none", cid |-> NoId, config |-> 0]
Row == [status : {"none", "running", "stopped"}, cid : Id, config : Version]
Rows == {m \in Container : row[m] # NoRow}

Absent == [id |-> NoId, running |-> FALSE, config |-> 0]
Runs(m) == dock[m].running

NoHandler == [op |-> "none", pc |-> "idle", m |-> NoContainer, mc |-> NoRow,
              ctx |-> FALSE]
Starting == {"create", "start", "recover"}
Step(op) ==
  CASE op = "create" -> {"insert", "remove", "make", "run", "save", "ready", "failed"}
    [] op = "start" -> {"remove", "make", "run", "save", "ready", "failed"}
    [] op = "recover" -> {"remove", "make", "run", "save", "ready", "failed"}
    [] op = "stop" -> {"halt", "save", "ready", "failed"}
    [] op = "delete" -> {"halt", "drop", "ready", "failed"}
    [] op = "force" -> {"halt", "drop", "ready"}
Serving == [op : Starting \cup {"stop", "delete", "force"},
            pc : {"insert", "remove", "make", "run", "save", "halt", "drop", "ready", "failed"},
            m : Container, mc : Row, ctx : BOOLEAN]

NoRequest == [op |-> "none", pc |-> "idle", m |-> NoContainer, call |-> NoCall,
              config |-> 0, stopped |-> FALSE, alone |-> FALSE]
Asking == [op : {"create", "rebuild", "stop", "start", "delete"},
           pc : {"idle", "create", "put", "stop", "update", "again", "start", "delete",
                 "forget"},
           m : Container, call : Call \cup {NoCall}, config : Version,
           stopped : BOOLEAN, alone : BOOLEAN]

Init ==
  /\ row = [m \in Container |-> NoRow]
  /\ dock = [m \in Container |-> Absent]
  /\ handler = [k \in Call |-> NoHandler]
  /\ listed = [m \in Container |-> NoId]
  /\ kernel = "up"
  /\ recovery = [m \in Container |-> NoRow]
  /\ request = [r \in Request |-> NoRequest]
  /\ record = {}
  /\ created = {}
  /\ removed = {}
  /\ disturbed = [m \in Container |-> "never"]
  /\ starts = 0
  /\ requests = 0
  /\ extras = 0

Extra == extras < MaxExtras /\ extras' = extras + 1

Handlers(m) == {k \in Call : handler[k].m = m}
Requests(m) == {r \in Request : request[r].m = m /\ request[r] # NoRequest}
Waits(r, k) == request[r].call = k

\* What works on a container: requests, handlers that nobody waits for, and the
\* recovery that has it listed.
Users(m) ==
  Requests(m) \cup {k \in Handlers(m) : \A r \in Request : ~Waits(r, k)}
    \cup {x \in {m} : recovery[x] # NoRow}
Idle(m) == Users(m) = {}

Disturb(ms) ==
  disturbed' = [m \in Container |-> IF m \in ms THEN "now" ELSE disturbed[m]]
Undisturbed == {m \in Container : disturbed[m] # "now"}

(***************************************************************************)
(* Calls of the kernel.  A handler begins by reading the row; what that    *)
(* alone decides is its answer.                                            *)
(***************************************************************************)
First(op, m) ==
  CASE op = "create" -> "insert"
    [] op = "start" -> IF row[m] = NoRow THEN "failed"
                       ELSE IF row[m].status = "running" THEN "ready" ELSE "remove"
    [] op = "stop" -> IF row[m] = NoRow THEN "failed"
                      ELSE IF row[m].status = "stopped" THEN "ready"
                      ELSE IF row[m].cid = NoId THEN "save" ELSE "halt"
    [] op \in {"delete", "force"} -> IF row[m] = NoRow THEN "failed"
                                     ELSE IF row[m].cid = NoId THEN "drop" ELSE "halt"

Free == {k \in Call : handler[k] = NoHandler}
FreeCall == CHOOSE k \in Free : TRUE

Serve(op, pc, m, mc) ==
  handler' = [handler EXCEPT ![FreeCall] =
                [op |-> op, pc |-> pc, m |-> m, mc |-> mc, ctx |-> TRUE]]

\* Whoever comes to a container that others work on overlaps them.
Overlaps(m, others) == Disturb({x \in {m} : others # {}})
Crowded(m) == [r \in Request |-> [request[r] EXCEPT !.alone = @ /\ request[r].m # m]]

\* Mutant: a deletion that failed forgets the workspace all the same.
AfterForgets(q, ok) ==
  CASE q.op = "create" /\ ok -> [q EXCEPT !.call = NoCall, !.pc = "put"]
    [] q.op = "delete" -> [q EXCEPT !.call = NoCall, !.pc = "forget"]
    [] q.op = "rebuild" /\ q.pc = "stop" ->
         [q EXCEPT !.call = NoCall, !.pc = "update", !.stopped = ok]
    [] OTHER -> NoRequest

\* The request goes on when its call is answered, or ends.
After(q, ok) ==
  CASE q.op = "create" /\ ok -> [q EXCEPT !.call = NoCall, !.pc = "put"]
    [] q.op = "delete" /\ ok -> [q EXCEPT !.call = NoCall, !.pc = "forget"]
    [] q.op = "rebuild" /\ q.pc = "stop" ->
         [q EXCEPT !.call = NoCall, !.pc = "update", !.stopped = ok]
    [] OTHER -> NoRequest

Answered(k, ok) ==
  request' = [r \in Request |-> IF Waits(r, k) THEN After(request[r], ok) ELSE request[r]]

(***************************************************************************)
(* The kernel's handlers.                                                  *)
(***************************************************************************)
At(k, pc) == kernel # "down" /\ handler[k].pc = pc
Go(k, pc) == handler' = [handler EXCEPT ![k].pc = pc]

CreateRow(k) ==
  /\ At(k, "insert")
  /\ LET mc == [NoRow EXCEPT !.status = "stopped"]
     IN /\ row' = [row EXCEPT ![handler[k].m] = mc]
        /\ handler' = [handler EXCEPT ![k].mc = mc, ![k].pc = "remove"]
  /\ UNCHANGED <<dock, system, manager, history, disturbed, bounds>>

\* Mutant: whatever has the name is left to be found by the creation.
RemoveStaleNot(k) ==
  /\ At(k, "remove")
  /\ Go(k, "make")
  /\ UNCHANGED <<row, dock, system, manager, history, disturbed, bounds>>

\* A container of that name is removed; a call that nobody waits for any more
\* may do nothing.
RemoveStale(k) ==
  /\ At(k, "remove")
  /\ \/ dock' = [dock EXCEPT ![handler[k].m] = Absent]
     \/ ~handler[k].ctx /\ UNCHANGED dock
  /\ Go(k, "make")
  /\ UNCHANGED <<row, system, manager, history, disturbed, bounds>>

Made(k) ==
  /\ dock[handler[k].m] = Absent
  /\ starts < MaxStarts
  /\ starts' = starts + 1
  /\ dock' = [dock EXCEPT ![handler[k].m] =
                [id |-> starts + 1, running |-> FALSE, config |-> handler[k].mc.config]]

MakeContainer(k) ==
  /\ At(k, "make")
  /\ handler[k].ctx
  /\ Made(k)
  /\ handler' = [handler EXCEPT ![k].pc = "run", ![k].mc.cid = starts + 1]
  /\ UNCHANGED <<row, system, manager, history, disturbed, requests, extras>>

RunContainer(k) ==
  /\ At(k, "run")
  /\ handler[k].ctx
  /\ dock[handler[k].m].id = handler[k].mc.cid
  /\ dock' = [dock EXCEPT ![handler[k].m].running = TRUE]
  /\ Go(k, "save")
  /\ UNCHANGED <<row, system, manager, history, disturbed, bounds>>

\* A container that cannot be created has no row; one that cannot be recovered
\* is stopped; one that cannot be started again is left as it is.
Undo(k) ==
  LET m == handler[k].m
  IN /\ row' = CASE handler[k].op = "create" -> [row EXCEPT ![m] = NoRow]
                 [] handler[k].op = "recover" /\ row[m] # NoRow ->
                      [row EXCEPT ![m].status = "stopped"]
                 [] OTHER -> row
     /\ removed' = IF handler[k].op = "create" THEN removed \cup {m} ELSE removed
     /\ Go(k, "failed")

\* The name is taken, or the caller is gone: the container may be there then.
MakeFails(k) ==
  /\ At(k, "make")
  /\ \/ dock[handler[k].m] # Absent /\ UNCHANGED <<dock, starts>>
     \/ ~handler[k].ctx /\ Made(k)
     \/ ~handler[k].ctx /\ UNCHANGED <<dock, starts>>
  /\ Undo(k)
  /\ UNCHANGED <<system, manager, created, disturbed, requests, extras>>

\* The container is gone, or cannot be run; it may run if the caller is gone.
RunFails(k) ==
  /\ At(k, "run")
  /\ \/ dock[handler[k].m].id # handler[k].mc.cid /\ UNCHANGED <<dock, extras>>
     \/ ~handler[k].ctx /\ UNCHANGED <<dock, extras>>
     \/ /\ ~handler[k].ctx
        /\ dock[handler[k].m].id = handler[k].mc.cid
        /\ dock' = [dock EXCEPT ![handler[k].m].running = TRUE]
        /\ UNCHANGED extras
     \/ Extra /\ UNCHANGED dock
  /\ Undo(k)
  /\ UNCHANGED <<system, manager, created, disturbed, starts, requests>>

\* The row is written whole, and inserted anew where it has been deleted; the
\* recovery only writes the identity of the container.
SaveStarted(k) ==
  /\ At(k, "save")
  /\ handler[k].op \in Starting
  /\ LET m == handler[k].m
         saved == [handler[k].mc EXCEPT !.status = "running"]
     IN /\ row' = IF handler[k].op # "recover" THEN [row EXCEPT ![m] = saved]
                  ELSE IF row[m] = NoRow THEN row
                  ELSE [row EXCEPT ![m].cid = saved.cid]
        /\ disturbed' = IF /\ \E r \in Request : Waits(r, k) /\ request[r].alone
                           /\ handler[k].op = "start" /\ disturbed[m] = "now"
                           /\ m \notin removed
                          THEN [disturbed EXCEPT ![m] = "past"] ELSE disturbed
  /\ Go(k, "ready")
  /\ UNCHANGED <<dock, system, manager, history, bounds>>

\* StopPlugin: the container is stopped and removed, unless it is gone.
HaltContainer(k) ==
  /\ At(k, "halt")
  /\ handler[k].ctx
  /\ dock' = IF dock[handler[k].m].id = handler[k].mc.cid
               THEN [dock EXCEPT ![handler[k].m] = Absent] ELSE dock
  /\ Go(k, IF handler[k].op = "stop" THEN "save" ELSE "drop")
  /\ UNCHANGED <<row, system, manager, history, disturbed, bounds>>

\* The container cannot be removed, or the caller is gone; it may have been
\* stopped.  A forced deletion goes on, and leaves it to itself.
HaltFails(k) ==
  LET m == handler[k].m
  IN /\ At(k, "halt")
     /\ \/ Extra
        \/ ~handler[k].ctx /\ UNCHANGED extras
     /\ \/ UNCHANGED dock
        \/ dock[m].id = handler[k].mc.cid /\ dock' = [dock EXCEPT ![m].running = FALSE]
     /\ Go(k, IF handler[k].op = "force" THEN "drop" ELSE "failed")
     /\ Disturb({x \in {m} : handler[k].op = "force"})
     /\ UNCHANGED <<row, system, manager, history, starts, requests>>

SaveStopped(k) ==
  /\ At(k, "save")
  /\ handler[k].op = "stop"
  /\ row' = [row EXCEPT ![handler[k].m] =
               [handler[k].mc EXCEPT !.status = "stopped", !.cid = NoId]]
  /\ Go(k, "ready")
  /\ UNCHANGED <<dock, system, manager, history, disturbed, bounds>>

\* Mutant: the row of a deleted container is only marked.
DropRowMarks(k) ==
  /\ At(k, "drop")
  /\ row' = [row EXCEPT ![handler[k].m] = [NoRow EXCEPT !.status = "stopped"]]
  /\ removed' = removed \cup {handler[k].m}
  /\ Go(k, "ready")
  /\ UNCHANGED <<dock, system, manager, created, disturbed, bounds>>

DropRow(k) ==
  /\ At(k, "drop")
  /\ row' = [row EXCEPT ![handler[k].m] = NoRow]
  /\ removed' = removed \cup {handler[k].m}
  /\ Go(k, "ready")
  /\ UNCHANGED <<dock, system, manager, created, disturbed, bounds>>

\* A started container is given time to get ready before the answer.
Respond(k) ==
  /\ kernel # "down"
  /\ handler[k].pc \in {"ready", "failed"}
  /\ Answered(k, handler[k].pc = "ready")
  /\ handler' = [handler EXCEPT ![k] = NoHandler]
  /\ UNCHANGED <<row, dock, system, record, history, disturbed, bounds>>

\* The caller gives up: the manager after ten seconds, an administrator at will.
TimeOut(k) ==
  /\ handler[k].ctx
  /\ handler[k].op # "recover"
  /\ Extra
  /\ Answered(k, FALSE)
  /\ handler' = [handler EXCEPT ![k].ctx = FALSE]
  /\ Disturb({handler[k].m})
  /\ UNCHANGED <<row, dock, system, record, history, starts, requests>>

\* An administrator deletes the container, or disables the manager.
ForceDelete(m) ==
  /\ kernel # "down"
  /\ row[m] # NoRow
  /\ Free # {}
  /\ Extra
  /\ Serve("force", First("force", m), m, row[m])
  /\ Overlaps(m, Users(m))
  /\ request' = Crowded(m)
  /\ UNCHANGED <<row, dock, system, record, history, starts, requests>>

(***************************************************************************)
(* The manager's handlers.                                                 *)
(***************************************************************************)
\* While a request waits, every call it makes is under way.
CallKernel(r, q, op) ==
  /\ kernel \in {"starting", "up"}
  /\ Free # {}
  /\ Serve(op, First(op, q.m), q.m, row[q.m])
  /\ LET others == Users(q.m) \ {r}
     IN /\ Overlaps(q.m, others)
        /\ request' = [Crowded(q.m) EXCEPT ![r] =
                         [q EXCEPT !.call = FreeCall, !.pc = op,
                                   !.alone = @ /\ others = {}]]

Begins ==
  /\ \E r \in Request : request[r] = NoRequest
  /\ requests < MaxRequests
  /\ requests' = requests + 1

FreeRequest == CHOOSE r \in Request : request[r] = NoRequest
Asked(op, m) == [NoRequest EXCEPT !.op = op, !.m = m, !.alone = TRUE]

CreateWorkspace(m) ==
  /\ Begins
  /\ m \notin created
  /\ created' = created \cup {m}
  /\ CallKernel(FreeRequest, Asked("create", m), "create")
  /\ UNCHANGED <<row, dock, system, record, removed, starts, extras>>

PutRecord(r) ==
  /\ request[r].pc = "put"
  /\ record' = record \cup {request[r].m}
  /\ request' = [request EXCEPT ![r] = NoRequest]
  /\ UNCHANGED <<row, dock, handler, system, history, disturbed, bounds>>

\* Start and restart: stop, update and start.  The workspace must be known here
\* and to the kernel.  The update is put together first, from the schema, the
\* options and the disks that resolve; what of it is empty is not sent.
RebuildWorkspace(m) ==
  /\ Begins
  /\ m \in record
  /\ row[m] # NoRow
  /\ \E config \in {Nothing, requests'} :
       CallKernel(FreeRequest, [Asked("rebuild", m) EXCEPT !.config = config], "stop")
  /\ UNCHANGED <<row, dock, system, record, history, starts, extras>>

\* Mutant: the container is started with what the row held.
UpdateContainerSkips(r) ==
  /\ request[r].pc = "update"
  /\ request' = [request EXCEPT ![r].pc = "again"]
  /\ UNCHANGED <<row, dock, handler, system, record, history, disturbed, bounds>>

\* The answer to the stop is not looked at.  What is not sent stays as it is in the
\* row.  A row that is gone ends the request.
Updated(kept, sent) == IF sent = Nothing THEN kept ELSE sent
UpdateContainer(r) ==
  /\ request[r].pc = "update"
  /\ LET m == request[r].m
         c == Updated(row[m].config, request[r].config)
     IN IF kernel # "down" /\ row[m] # NoRow
          THEN /\ row' = [row EXCEPT ![m].config = c]
               /\ request' = [request EXCEPT ![r].pc = "again", ![r].config = c]
          ELSE request' = [request EXCEPT ![r] = NoRequest] /\ UNCHANGED row
  /\ UNCHANGED <<dock, handler, system, record, history, disturbed, bounds>>

StartAgain(r) ==
  /\ request[r].pc = "again"
  /\ \/ CallKernel(r, request[r], "start")
     \/ /\ kernel = "down"
        /\ request' = [request EXCEPT ![r] = NoRequest]
        /\ UNCHANGED <<handler, disturbed>>
  /\ UNCHANGED <<row, dock, system, record, history, bounds>>

\* StopWorkspace, and the tool that starts what is stopped.
StopWorkspace(m) ==
  /\ Begins
  /\ m \in Rows
  /\ CallKernel(FreeRequest, Asked("stop", m), "stop")
  /\ UNCHANGED <<row, dock, system, record, history, starts, extras>>

ToolStartWorkspace(m) ==
  /\ Begins
  /\ m \in Rows
  /\ CallKernel(FreeRequest, Asked("start", m), "start")
  /\ UNCHANGED <<row, dock, system, record, history, starts, extras>>

DeleteWorkspace(m) ==
  /\ Begins
  /\ m \in Rows
  /\ CallKernel(FreeRequest, Asked("delete", m), "delete")
  /\ UNCHANGED <<row, dock, system, record, history, starts, extras>>

ForgetWorkspace(r) ==
  /\ request[r].pc = "forget"
  /\ record' = record \ {request[r].m}
  /\ request' = [request EXCEPT ![r] = NoRequest]
  /\ UNCHANGED <<row, dock, handler, system, history, disturbed, bounds>>

(***************************************************************************)
(* The monitor, the start and the end of the kernel, and accidents.        *)
(***************************************************************************)
MonitorLists ==
  /\ kernel \in {"starting", "up"}
  /\ \A m \in Container : listed[m] = NoId
  /\ \E m \in Container : row[m].status = "running"
  /\ listed' = [m \in Container |-> IF row[m].status = "running" THEN row[m].cid ELSE NoId]
  /\ UNCHANGED <<row, dock, handler, kernel, recovery, manager, history, disturbed, bounds>>

\* Mutant: any container under the name will do.
HealthyByName(m) == dock[m].id # NoId

\* Only the status is written, of what may have been started anew meanwhile.  A
\* container that cannot be looked at counts as stopped.
Healthy(m) == dock[m].id = listed[m] /\ Runs(m)
MonitorChecks(m) ==
  /\ listed[m] # NoId
  /\ listed' = [listed EXCEPT ![m] = NoId]
  /\ \/ Healthy(m) /\ UNCHANGED <<row, disturbed, extras>>
     \/ /\ IF Healthy(m) THEN Extra ELSE UNCHANGED extras
        /\ row' = [row EXCEPT ![m].status = IF row[m] = NoRow THEN @ ELSE "stopped"]
        /\ Disturb({x \in {m} : Runs(x) \/ Users(x) # {}})
  /\ UNCHANGED <<dock, handler, kernel, recovery, manager, history, starts, requests>>

\* Requests of the manager end with it; handlers lose their callers.
ManagerEnds ==
  /\ request' = [r \in Request |-> NoRequest]
  /\ handler' = [k \in Call |->
                   IF \E r \in Request : Waits(r, k)
                     THEN [handler[k] EXCEPT !.ctx = FALSE]
                     ELSE handler[k]]
Interrupted == {m \in Container : Users(m) # {}}

ManagerStops ==
  /\ Extra
  /\ ManagerEnds
  /\ Disturb({m \in Container : Requests(m) # {}})
  /\ UNCHANGED <<row, dock, system, record, history, starts, requests>>

\* The manager is stopped first.  An error of Docker is ignored.
StopAllPlugins ==
  /\ kernel \in {"starting", "up"}
  /\ Extra
  /\ kernel' = "closing"
  /\ listed' = [m \in Container |-> NoId]
  /\ ManagerEnds
  /\ LET Running == {m \in Container : row[m].status = "running" /\ row[m].cid # NoId}
         Held(m) == m \in Running /\ dock[m].id = row[m].cid
     IN \E left \in SUBSET Running :
          /\ dock' = [m \in Container |-> IF Held(m) /\ m \notin left THEN Absent
                                          ELSE dock[m]]
          /\ row' = [m \in Container |->
                       IF m \in Running
                         THEN [row[m] EXCEPT !.status = "stopped", !.cid = NoId]
                         ELSE row[m]]
          /\ Disturb(Interrupted \cup left)
  /\ UNCHANGED <<recovery, record, history, starts, requests>>

KernelStops ==
  /\ kernel # "down"
  /\ kernel = "closing" \/ extras < MaxExtras
  /\ extras' = IF kernel = "closing" THEN extras ELSE extras + 1
  /\ kernel' = "down"
  /\ recovery' = [m \in Container |-> NoRow]
  /\ listed' = [m \in Container |-> NoId]
  /\ handler' = [k \in Call |-> NoHandler]
  /\ request' = [r \in Request |->
                   IF request[r].call # NoCall THEN After(request[r], FALSE) ELSE request[r]]
  /\ Disturb(Interrupted)
  /\ UNCHANGED <<row, dock, record, history, starts, requests>>

Boot ==
  /\ kernel = "down"
  /\ kernel' = "starting"
  /\ UNCHANGED <<row, dock, handler, listed, recovery, manager, history, disturbed, bounds>>

\* Once the plugins are started, what ran when the kernel stopped is recovered,
\* one container after another.
RecoverManagedContainers ==
  /\ kernel = "starting"
  /\ kernel' = "up"
  /\ recovery' = [m \in Container |-> IF row[m].status = "running" THEN row[m] ELSE NoRow]
  /\ Disturb({m \in Interrupted : row[m].status = "running"})
  /\ UNCHANGED <<row, dock, handler, listed, manager, history, bounds>>

Recover(m) ==
  /\ kernel # "down"
  /\ recovery[m] # NoRow
  /\ \A k \in Call : handler[k].op # "recover"
  /\ Free # {}
  /\ recovery' = [recovery EXCEPT ![m] = NoRow]
  /\ Serve("recover", "remove", m, recovery[m])
  /\ Overlaps(m, Users(m) \ {m})
  /\ request' = Crowded(m)
  /\ UNCHANGED <<row, dock, kernel, listed, record, history, bounds>>

ContainerDies(m) ==
  /\ Runs(m)
  /\ Extra
  /\ dock' = [dock EXCEPT ![m].running = FALSE]
  /\ UNCHANGED <<row, handler, system, manager, history, disturbed, starts, requests>>

(***************************************************************************)
(* The specification.                                                      *)
(***************************************************************************)
Handle(k) ==
  \/ CreateRow(k) \/ RemoveStale(k) \/ MakeContainer(k) \/ MakeFails(k)
  \/ RunContainer(k) \/ RunFails(k) \/ SaveStarted(k)
  \/ HaltContainer(k) \/ HaltFails(k) \/ SaveStopped(k) \/ DropRow(k) \/ Respond(k)
GoOn(r) == PutRecord(r) \/ UpdateContainer(r) \/ StartAgain(r) \/ ForgetWorkspace(r)
Ask(m) ==
  \/ CreateWorkspace(m) \/ RebuildWorkspace(m) \/ StopWorkspace(m)
  \/ ToolStartWorkspace(m) \/ DeleteWorkspace(m)

Next ==
  \/ \E k \in Call : Handle(k) \/ TimeOut(k)
  \/ \E r \in Request : GoOn(r)
  \/ \E m \in Container :
       \/ Ask(m) \/ ForceDelete(m)
       \/ MonitorChecks(m) \/ Recover(m) \/ ContainerDies(m)
  \/ MonitorLists \/ ManagerStops \/ StopAllPlugins \/ KernelStops \/ Boot
  \/ RecoverManagedContainers

Spec == Init /\ [][Next]_vars

\* Handlers go on while their process runs; the monitor looks again and again.
FairSpec ==
  /\ Spec
  /\ \A k \in Call : WF_vars(Handle(k))
  /\ \A m \in Container : WF_vars(MonitorChecks(m))
  /\ WF_vars(MonitorLists)

(***************************************************************************)
(* Properties.                                                             *)
(***************************************************************************)
\* Everything has its type, and a handler is at a step of its operation.
TypeOK ==
  /\ row \in [Container -> Row]
  /\ \A m \in Container : row[m].status = "none" => row[m] = NoRow
  /\ dock \in [Container -> [id : Id, running : BOOLEAN, config : Version]]
  /\ handler \in [Call -> Serving \cup {NoHandler}]
  /\ \A k \in Call : handler[k] # NoHandler => handler[k].pc \in Step(handler[k].op)
  /\ listed \in [Container -> Id]
  /\ kernel \in {"starting", "up", "closing", "down"}
  /\ recovery \in [Container -> Row]
  /\ request \in [Request -> Asking \cup {NoRequest}]
  /\ record \subseteq Container
  /\ created \subseteq Container
  /\ removed \subseteq Container
  /\ disturbed \in [Container -> {"never", "now", "past"}]
  /\ starts \in Id
  /\ requests \in 0..MaxRequests
  /\ extras \in 0..MaxExtras

\* A container that runs is the one its row names, and the row says that it runs,
\* when nothing works on it and nothing overlapped or went wrong since its start.
\* A start that ran alone makes good whatever was before.
Tracked ==
  \A m \in Undisturbed :
    Idle(m) /\ Runs(m) => row[m].status = "running" /\ row[m].cid = dock[m].id

\* A workspace that has been deleted stays deleted, unless others worked on it
\* meanwhile.
DeletedGone ==
  \A m \in removed \cap Undisturbed : Idle(m) => row[m] = NoRow /\ ~Runs(m)

\* The manager has a record of every workspace the kernel has, unless a creation
\* was given up or others worked on it.
Recorded ==
  \A m \in Rows : disturbed[m] = "never" /\ Requests(m) = {} => m \in record

\* A restart that succeeds leaves a container made from what its own update wrote
\* into the row, what was kept of the row included, if the stop it does not look
\* at succeeded and nobody worked on the workspace meanwhile.
Succeeds(r) == \E k \in Call : Waits(r, k) /\ handler[k].pc = "ready"
RestartApplies ==
  [][\A r \in Request :
       (/\ request[r].op = "rebuild" /\ request[r].stopped /\ request[r].alone
        /\ Succeeds(r) /\ request'[r] = NoRequest)
         => dock[request[r].m].config = request[r].config]_vars

\* A row that names a container that does not run, or another one, does not say
\* for ever that it runs.
Corrected ==
  \A m \in Container :
    (row[m].status = "running" /\ ~(Runs(m) /\ row[m].cid = dock[m].id))
      ~> \/ row[m].status # "running"
         \/ Runs(m) /\ row[m].cid = dock[m].id
         \/ kernel \in {"closing", "down"}
=============================================================================
