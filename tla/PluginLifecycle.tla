--------------------------- MODULE PluginLifecycle ---------------------------
(***************************************************************************)
(* The life of one plugin: its row in the kernel's database, the Docker    *)
(* containers created for it, the SDK process in each container, and the   *)
(* kernel goroutines that act on all three.  A kernel operation reads the  *)
(* row once, talks to Docker for seconds, and writes some columns back, so *)
(* every operation is split at the points where another goroutine can run. *)
(*                                                                         *)
(* Docker names are deterministic: a container holds the "primary" or the  *)
(* "candidate" name of the plugin, and the host a plugin registers is its  *)
(* container's name, not its id.                                           *)
(***************************************************************************)
EXTENDS Naturals, FiniteSets

CONSTANTS
  Container,          \* Docker container ids
  NoContainer,        \* the empty string in an id column
  Image,              \* images the plugin can run
  NoImage,            \* the empty string in an image column
  Admin,              \* goroutines serving administrator requests
  Background,         \* which of the kernel's own goroutines run
  Requests,           \* the requests administrators issue
  RestartThreshold,   \* monitor: failed checks before a restart
  RollbackThreshold,  \* monitor: failed checks before a candidate rollback
  Slow,               \* may boots and heartbeats outlast a monitor tick
  Faults,             \* the kinds of fault that may happen
  MaxRequests,        \* bound on administrator requests and shutdowns
  MaxFaults           \* bound on faults

Operations == {"enable", "disable", "restart", "devmode", "install",
               "uninstall", "deploy", "promote", "rollback"}
FaultKinds == {"crash", "hang", "docker", "kernel"}

ASSUME LifecycleAssumption ==
  /\ NoContainer \notin Container
  /\ NoImage \notin Image
  /\ Admin \cap {"monitor", "boot", "shutdown"} = {}
  /\ Background \subseteq {"monitor", "boot", "shutdown"}
  /\ Requests \subseteq Operations
  /\ Faults \subseteq FaultKinds
  /\ RestartThreshold \in Nat \ {0}
  /\ RollbackThreshold \in Nat \ {0}
  /\ Slow \in BOOLEAN
  /\ MaxRequests \in Nat
  /\ MaxFaults \in Nat

VARIABLES
  row,        \* the plugin's row in the database
  ctr,        \* Docker: the container behind each id
  req,        \* requests each container's SDK has in flight to the kernel
  loc,        \* each kernel goroutine: its operation, place, row copy
  fails,      \* monitor: unhealthyCounts for this plugin
  cfails,     \* monitor: candidateUnhealthyCounts for this plugin
  kernel,     \* the kernel process: up, stopping (SIGTERM) or down
  requests,   \* administrator requests and shutdowns so far
  faults      \* faults that happened so far

vars == <<row, ctr, req, loc, fails, cfails, kernel, requests, faults>>

Actor == Admin \cup Background
Slot == {"primary", "candidate"}
NoHost == "none"
Seen == {"zero", "fresh", "stale"}     \* last_seen: never, within 90s, older
Status == {"stopped", "running", "unhealthy", "error"}

\* The columns of models.Plugin that the lifecycle reads or writes.
Row == [installed : BOOLEAN, enabled : BOOLEAN, status : Status,
        cid : Container \cup {NoContainer}, cids : BOOLEAN,
        host : Slot \cup {NoHost}, seen : Seen,
        image : Image \cup {NoImage}, pimage : Image \cup {NoImage},
        ccid : Container \cup {NoContainer}, cimage : Image \cup {NoImage},
        chost : Slot \cup {NoHost}, chealthy : BOOLEAN, cseen : Seen]

NoRow == [installed |-> FALSE, enabled |-> FALSE, status |-> "stopped",
          cid |-> NoContainer, cids |-> FALSE, host |-> NoHost,
          seen |-> "zero", image |-> NoImage, pimage |-> NoImage,
          ccid |-> NoContainer, cimage |-> NoImage, chost |-> NoHost,
          chealthy |-> FALSE, cseen |-> "zero"]

\* A row as RegisterPlugin creates it.
InstalledRow(img) == [NoRow EXCEPT !.installed = TRUE, !.image = img]

\* none: no such container.  boot, live, hung: its process is starting,
\* registered and heartbeating, or stuck.  exited: the process died and the
\* restart policy will start it again.  term: it got SIGTERM and may still
\* deregister.  down: stopped for good but not removed yet.
State == {"none", "boot", "live", "hung", "exited", "term", "down"}

Docker == [st : State, slot : Slot, image : Image \cup {NoImage}]

Kinds == {"register", "heartbeat", "deregister"}

Op == Operations \cup {"none", "boot", "discard", "shutdown", "monitor",
                       "autorestart", "autorollback"}
Place == {"idle", "read", "stop", "remove", "stop2", "remove2", "clear", "stale",
          "create", "commit", "fail", "exit", "check", "restart", "cand", "ccheck"}

\* A goroutine: its operation, its place in it, the columns it read and the
\* container it created.
Loc == [op : Op, pc : Place, copy : Row, new : Container \cup {NoContainer}]

Idle == [op |-> "none", pc |-> "idle", copy |-> NoRow, new |-> NoContainer]
Exiting == [op |-> "shutdown", pc |-> "exit", copy |-> NoRow, new |-> NoContainer]

------------------------------------------------------------------------------
(* Docker.                                                                 *)

\* The container that holds a name, if any: at most one does.
Holder(s) == {c \in Container : ctr[c].st # "none" /\ ctr[c].slot = s}

\* An id is recycled only when nothing in the system refers to it, so a
\* finite set of ids stands for Docker's supply of fresh ones.
Referenced == {row.cid, row.ccid}
              \cup UNION {{loc[t].copy.cid, loc[t].copy.ccid, loc[t].new} :
                          t \in Actor}
FreshIds == {c \in Container :
               ctr[c].st = "none" /\ req[c] = {} /\ c \notin Referenced}

NewId == CHOOSE c \in FreshIds : TRUE

\* A container that is removed: only its name matters, to late requests.
Removed(k) == [k EXCEPT !.st = "none", !.image = NoImage]

\* SIGTERM: a responsive process shuts down and may deregister first.
Terminated(s) == IF s \in {"boot", "live", "term"} THEN "term" ELSE "down"

\* What ContainerInspect can answer about an id.
HealthCheck(c) ==
  CASE ctr[c].st = "none"                     -> {"gone"}
    [] ctr[c].st \in {"boot", "live", "hung"} -> {"up"}
    [] ctr[c].st = "term"                     -> {"up", "down"}
    [] OTHER                                  -> {"down"}

------------------------------------------------------------------------------
(* The database.  An UPDATE of a row that is gone changes nothing.         *)

Update(r) == row' = IF row.installed THEN r ELSE row

ClearCandidate(r) ==
  [r EXCEPT !.ccid = NoContainer, !.cimage = NoImage, !.chost = NoHost,
            !.chealthy = FALSE, !.cseen = "zero"]

------------------------------------------------------------------------------
Init ==
  /\ \E img \in Image, e \in BOOLEAN :
       row = [InstalledRow(img) EXCEPT !.enabled = e]
  /\ ctr = [c \in Container |->
              [st |-> "none", slot |-> "primary", image |-> NoImage]]
  /\ req = [c \in Container |-> {}]
  /\ loc = [t \in Actor |->
              IF t = "boot" THEN [Idle EXCEPT !.op = "boot", !.pc = "read"]
                            ELSE Idle]
  /\ fails = 0
  /\ cfails = 0
  /\ kernel = "up"
  /\ requests = 0
  /\ faults = 0

------------------------------------------------------------------------------
(* Administrator requests: each handler reads the row and decides.         *)

\* The handler's First(&plugin): the copy it works on from here.
Begin(a, op, pc, copy) ==
  /\ kernel # "down"
  /\ loc[a] = Idle
  /\ requests < MaxRequests
  /\ requests' = requests + 1
  /\ row.installed
  /\ loc' = [loc EXCEPT ![a] = [op |-> op, pc |-> pc, copy |-> copy,
                                new |-> NoContainer]]
  /\ UNCHANGED <<row, ctr, req, fails, cfails, kernel, faults>>

\* Where a restart starts: it stops the pod only if the row knows of one.
StopFirst(r) == IF r.cid # NoContainer \/ r.cids THEN "stop" ELSE "stale"

\* The columns an operation uses after its first step.
ImageOf(r) == [NoRow EXCEPT !.image = r.image]
Deployed(r) == [ImageOf(r) EXCEPT !.cid = r.cid, !.ccid = r.ccid,
                                  !.cimage = r.cimage, !.chost = r.chost]

Enable(a) ==
  /\ "enable" \in Requests
  /\ ~(row.enabled /\ row.cid # NoContainer)
  /\ Begin(a, "enable", "stale", ImageOf(row))

\* Mutant: stops the pod only if the plugin was last seen running.
DisableIfRunning(a) ==
  /\ "disable" \in Requests
  /\ Begin(a, "disable", IF row.status = "running" THEN "stop" ELSE "commit", NoRow)

Disable(a) ==
  /\ "disable" \in Requests
  /\ Begin(a, "disable", IF row.cid # NoContainer THEN "stop" ELSE "commit", NoRow)

Restart(a) ==
  /\ "restart" \in Requests
  /\ Begin(a, "restart", StopFirst(row), ImageOf(row))

SetDevMode(a) ==
  /\ "devmode" \in Requests
  /\ row.enabled
  /\ Begin(a, "devmode", StopFirst(row), ImageOf(row))

Uninstall(a) ==
  /\ "uninstall" \in Requests
  /\ Begin(a, "uninstall", "stop", NoRow)

Install(a) ==
  /\ "install" \in Requests
  /\ kernel # "down"
  /\ loc[a] = Idle
  /\ requests < MaxRequests
  /\ requests' = requests + 1
  /\ ~row.installed
  /\ \E img \in Image : row' = InstalledRow(img)
  /\ UNCHANGED <<ctr, req, loc, fails, cfails, kernel, faults>>

\* The copy carries the candidate's image from here on.
DeployCandidate(a) ==
  /\ "deploy" \in Requests
  /\ row.ccid = NoContainer
  /\ \E img \in Image : Begin(a, "deploy", "stale", [NoRow EXCEPT !.image = img])

PromoteCandidate(a) ==
  /\ "promote" \in Requests
  /\ row.ccid # NoContainer
  /\ row.chost # NoHost
  /\ Begin(a, "promote", IF row.cid # NoContainer THEN "stop" ELSE "commit",
           Deployed(row))

\* Mutant: clears the candidate columns and never stops its container.
DiscardOnlyRow(a) ==
  /\ "rollback" \in Requests
  /\ row.ccid # NoContainer
  /\ row.pimage = NoImage
  /\ Begin(a, "discard", "commit", Deployed(row))

\* Scenario 1: a candidate and nothing promoted before it.
DiscardCandidate(a) ==
  /\ "rollback" \in Requests
  /\ row.ccid # NoContainer
  /\ row.pimage = NoImage
  /\ Begin(a, "discard", "stop", Deployed(row))

\* Scenario 2: restart from the previous image.
RollbackPromoted(a) ==
  /\ "rollback" \in Requests
  /\ row.pimage # NoImage
  /\ Begin(a, "rollback",
           IF row.cid # NoContainer THEN "stop"
           ELSE IF row.ccid # NoContainer THEN "stop2" ELSE "stale",
           [Deployed(row) EXCEPT !.image = row.pimage])

------------------------------------------------------------------------------
(* The Docker half of an operation, shared by all of them.                 *)

\* A shutdown cancels the monitor's context: its Docker calls fail from then.
Cancelled(t) == t = "monitor" /\ kernel = "stopping"

DockerFault(t) ==
  \/ Cancelled(t) /\ UNCHANGED faults
  \/ "docker" \in Faults /\ faults < MaxFaults /\ faults' = faults + 1

\* StopPluginPod works by the primary name; StopPlugin by the id that was
\* in the row when the operation read it.
Victims(t) ==
  LET op == loc[t].op
      r  == loc[t].copy
  IN CASE op = "promote"                    -> {r.cid} \cap Container
       [] op \in {"discard", "autorollback"} -> {r.ccid} \cap Container
       [] op = "rollback" -> (IF loc[t].pc \in {"stop", "remove"}
                                THEN {r.cid} ELSE {r.ccid}) \cap Container
       [] OTHER -> Holder("primary")

\* ContainerStop: the process is told to terminate.
Stop(t) ==
  /\ loc[t].pc \in {"stop", "stop2"}
  /\ ctr' = [c \in Container |->
               IF c \in Victims(t) /\ ctr[c].st # "none"
                 THEN [ctr[c] EXCEPT !.st = Terminated(ctr[c].st)] ELSE ctr[c]]
  /\ loc' = [loc EXCEPT ![t].pc = IF loc[t].pc = "stop" THEN "remove" ELSE "remove2"]
  /\ UNCHANGED <<row, req, fails, cfails, kernel, requests, faults>>

AfterRemove(t) ==
  LET op == loc[t].op
  IN CASE op \in {"restart", "boot"} -> "clear"
       [] op \in {"devmode", "autorestart"} -> "stale"
       [] op = "rollback" -> IF loc[t].pc = "remove" /\ loc[t].copy.ccid # NoContainer
                               THEN "stop2" ELSE "stale"
       [] OTHER -> "commit"

\* ContainerRemove with Force: whatever holds the name, or has the id, now.
Remove(t) ==
  /\ loc[t].pc \in {"remove", "remove2"}
  /\ ctr' = [c \in Container |->
               IF c \in Victims(t) THEN Removed(ctr[c]) ELSE ctr[c]]
  /\ loc' = [loc EXCEPT ![t].pc = AfterRemove(t)]
  /\ UNCHANGED <<row, req, fails, cfails, kernel, requests, faults>>

\* Docker refuses the removal: Disable and Uninstall give up with a 500 and
\* write nothing, a shutdown skips the plugin, the others ignore the error.
RemoveFails(t) ==
  /\ DockerFault(t)
  /\ loc[t].pc \in {"remove", "remove2"}
  /\ loc' = CASE loc[t].op \in {"disable", "uninstall"} -> [loc EXCEPT ![t] = Idle]
              [] loc[t].op = "shutdown" -> [loc EXCEPT ![t] = Exiting]
              [] OTHER -> [loc EXCEPT ![t].pc = AfterRemove(t)]
  /\ UNCHANGED <<row, ctr, req, fails, cfails, kernel, requests>>

\* Restart forgets the address after stopping the pod; the boot path resets
\* the registration before it starts the new container.
Clear(t) ==
  /\ loc[t].pc = "clear"
  /\ Update(IF loc[t].op = "restart"
              THEN [row EXCEPT !.host = NoHost]
              ELSE [row EXCEPT !.cid = NoContainer, !.status = "running",
                               !.host = NoHost, !.seen = "zero"])
  /\ loc' = [loc EXCEPT ![t].pc = "stale"]
  /\ UNCHANGED <<ctr, req, fails, cfails, kernel, requests, faults>>

\* Mutant: a candidate is started without the suffix to its name.
SameSlot(op) == "primary"

SlotOf(op) == IF op = "deploy" THEN "candidate" ELSE "primary"

\* StartPlugin first force-removes whatever holds the name it wants.
RemoveStale(t) ==
  /\ loc[t].pc = "stale"
  /\ ctr' = [c \in Container |->
               IF c \in Holder(SlotOf(loc[t].op))
                 THEN Removed(ctr[c]) ELSE ctr[c]]
  /\ loc' = [loc EXCEPT ![t].pc = "create"]
  /\ UNCHANGED <<row, req, fails, cfails, kernel, requests, faults>>

\* ContainerCreate and ContainerStart, if nobody took the name meanwhile.
Create(t) ==
  /\ loc[t].pc = "create"
  /\ ~Cancelled(t)
  /\ Holder(SlotOf(loc[t].op)) = {}
  /\ FreshIds # {}
  /\ LET c == NewId IN
       /\ ctr' = [ctr EXCEPT ![c] = [st |-> "boot", slot |-> SlotOf(loc[t].op),
                                     image |-> loc[t].copy.image]]
       /\ loc' = [loc EXCEPT ![t].pc = "commit", ![t].new = c]
  /\ UNCHANGED <<row, req, fails, cfails, kernel, requests, faults>>

\* Enable and Deploy return an error and write nothing, the others go on to
\* record the failure.
Failed(t) == IF loc[t].op \in {"enable", "deploy"}
               THEN [loc EXCEPT ![t] = Idle]
               ELSE [loc EXCEPT ![t].pc = "fail"]

\* The name is taken, or Docker does not create the container.
CreateFails(t) ==
  /\ loc[t].pc = "create"
  /\ \/ Holder(SlotOf(loc[t].op)) # {} /\ UNCHANGED faults
     \/ DockerFault(t)
  /\ loc' = Failed(t)
  /\ UNCHANGED <<row, ctr, req, fails, cfails, kernel, requests>>

\* ContainerStart fails: the container just created keeps the name.
StartFails(t) ==
  /\ DockerFault(t)
  /\ loc[t].pc = "create"
  /\ Holder(SlotOf(loc[t].op)) = {}
  /\ FreshIds # {}
  /\ ctr' = [ctr EXCEPT ![NewId] = [st |-> "down", slot |-> SlotOf(loc[t].op),
                                     image |-> loc[t].copy.image]]
  /\ loc' = Failed(t)
  /\ UNCHANGED <<row, req, fails, cfails, kernel, requests>>

------------------------------------------------------------------------------
(* The write at the end of an operation.                                   *)

Finish(t, op, r) ==
  /\ loc[t].pc = "commit"
  /\ loc[t].op = op
  /\ Update(r)
  /\ loc' = [loc EXCEPT ![t] = Idle]
  /\ UNCHANGED <<ctr, req, fails, cfails, kernel, requests, faults>>

Started(t) == [row EXCEPT !.cid = loc[t].new, !.cids = TRUE, !.status = "running"]

FinishEnable(t)  == Finish(t, "enable", [Started(t) EXCEPT !.enabled = TRUE])
FinishRestart(t) == Finish(t, "restart", Started(t))
FinishDevMode(t) == Finish(t, "devmode", Started(t))

FinishDisable(t) ==
  Finish(t, "disable", [row EXCEPT !.cid = NoContainer, !.status = "stopped",
                                   !.enabled = FALSE, !.host = NoHost])

FinishUninstall(t) == Finish(t, "uninstall", NoRow)

\* Mutant: records the plugin's image as the candidate's.
FinishDeployRowImage(t) ==
  Finish(t, "deploy", [ClearCandidate(row) EXCEPT !.ccid = loc[t].new,
                                                  !.cimage = row.image])

FinishDeploy(t) ==
  Finish(t, "deploy", [ClearCandidate(row) EXCEPT !.ccid = loc[t].new,
                                                  !.cimage = loc[t].copy.image])

FinishPromote(t) ==
  LET p == loc[t].copy
  IN Finish(t, "promote",
            [ClearCandidate(row) EXCEPT
               !.pimage = p.image, !.cid = p.ccid, !.image = p.cimage,
               !.host = p.chost, !.status = "running", !.seen = "fresh"])

FinishDiscard(t) == Finish(t, "discard", ClearCandidate(row))

\* Mutant: restarts from the previous image but keeps the newer one's name.
FinishRollbackKeepImage(t) ==
  Finish(t, "rollback",
         [ClearCandidate(row) EXCEPT
            !.cid = loc[t].new, !.status = "running",
            !.host = NoHost, !.seen = "zero", !.pimage = NoImage])

FinishRollback(t) ==
  Finish(t, "rollback",
         [ClearCandidate(row) EXCEPT
            !.cid = loc[t].new, !.image = loc[t].copy.image, !.status = "running",
            !.host = NoHost, !.seen = "zero", !.pimage = NoImage])

FinishBoot(t) ==
  Finish(t, "boot", [row EXCEPT !.cid = loc[t].new, !.cids = TRUE])

\* A start that failed is recorded in the row; the monitor then goes on to
\* the candidates.
RecordFailure(t) ==
  /\ loc[t].pc = "fail"
  /\ Update([row EXCEPT !.cid = NoContainer, !.status = "error"])
  /\ loc' = IF loc[t].op = "autorestart"
              THEN [loc EXCEPT ![t] = [Idle EXCEPT !.op = "monitor", !.pc = "cand"]]
              ELSE [loc EXCEPT ![t] = Idle]
  /\ UNCHANGED <<ctr, req, fails, cfails, kernel, requests, faults>>

------------------------------------------------------------------------------
(* The boot orchestrator.                                                  *)

BootRead ==
  /\ "boot" \in Background
  /\ loc["boot"].pc = "read"
  /\ loc' = IF row.installed /\ row.enabled
              THEN [loc EXCEPT !["boot"].copy = ImageOf(row),
                               !["boot"].pc = IF row.cid # NoContainer \/ row.cids
                                                THEN "stop" ELSE "clear"]
              ELSE [loc EXCEPT !["boot"] = Idle]
  /\ UNCHANGED <<row, ctr, req, fails, cfails, kernel, requests, faults>>

\* SIGTERM: StopAllPlugins stops an enabled plugin with a container while the
\* HTTP servers, and a boot in progress, still run; the monitor has stopped.
Shutdown ==
  /\ "shutdown" \in Background
  /\ kernel = "up"
  /\ kernel' = "stopping"
  /\ requests < MaxRequests
  /\ requests' = requests + 1
  /\ loc' = [loc EXCEPT !["shutdown"] =
               IF row.installed /\ row.enabled /\ row.cid # NoContainer
                 THEN [Exiting EXCEPT !.pc = "stop"]
                 ELSE Exiting]
  /\ UNCHANGED <<row, ctr, req, fails, cfails, faults>>

FinishShutdown(t) ==
  /\ loc[t].pc = "commit"
  /\ loc[t].op = "shutdown"
  /\ Update([row EXCEPT !.cid = NoContainer, !.status = "stopped"])
  /\ loc' = [loc EXCEPT ![t] = Exiting]
  /\ UNCHANGED <<ctr, req, fails, cfails, kernel, requests, faults>>

------------------------------------------------------------------------------
(* The health monitor.                                                     *)

Count(n, max) == IF n < max THEN n + 1 ELSE max

\* What checkPlugins looks at in the row it read.
Checkable(r) == [NoRow EXCEPT !.cid = r.cid, !.status = r.status,
                              !.host = r.host, !.seen = r.seen]

\* Unless they are slow, the kernel's boot, a container's boot and a round of
\* heartbeats are over when the monitor's 30 second timer fires.
Settled ==
  /\ "boot" \in Background => loc["boot"] = Idle
  /\ row.installed => \A c \in Container : ctr[c].st # "boot"
  /\ row.installed /\ row.host = NoHost =>
       \A c \in Holder("primary") : ctr[c].st # "live"

\* checkAll begins: checkPlugins reads the row if the plugin is enabled.
MonitorTick ==
  /\ "monitor" \in Background
  /\ kernel = "up"
  /\ loc["monitor"] = Idle
  /\ Slow \/ Settled
  /\ loc' = [loc EXCEPT !["monitor"] =
               IF row.installed /\ row.enabled
                 THEN [Idle EXCEPT !.op = "monitor", !.pc = "check", !.copy = Checkable(row)]
                 ELSE [Idle EXCEPT !.op = "monitor", !.pc = "cand"]]
  /\ UNCHANGED <<row, ctr, req, fails, cfails, kernel, requests, faults>>

\* One check of the plugin ends: the columns written, the counter, and
\* whether a restart follows.
Checked(r, n, restart) ==
  /\ Update(r)
  /\ fails' = n
  /\ loc' = [loc EXCEPT !["monitor"] =
               [Idle EXCEPT !.op = "monitor",
                            !.pc = IF restart THEN "restart" ELSE "cand"]]
  /\ UNCHANGED <<ctr, req, cfails, kernel, requests, faults>>

\* setStatus writes only when the status read differs.
WithStatus(r, s) == IF loc["monitor"].copy.status = s THEN r ELSE [r EXCEPT !.status = s]
Forget(r) == [r EXCEPT !.status = "stopped", !.host = NoHost]

Checking ==
  /\ "monitor" \in Background
  /\ loc["monitor"].pc = "check"

\* What Docker tells the monitor, whose context a shutdown cancels.
Inspect(c) == IF kernel = "up" THEN HealthCheck(c) ELSE {"gone"}
Resolved == IF kernel = "up" THEN Holder("primary") ELSE {}

HasNoContainer(p) == p.cid = NoContainer /\ p.status # "running"
HeartbeatStale(p) == p.host # NoHost /\ p.seen = "stale"

\* Case 1: no container at all.
CheckNoContainer ==
  LET p == loc["monitor"].copy
      n == Count(fails, RestartThreshold)
  IN /\ Checking
     /\ HasNoContainer(p)
     /\ Checked(row, n, n = RestartThreshold)

\* Mutant: a stuck container is only marked unhealthy.
CheckStaleNoForce ==
  LET p == loc["monitor"].copy
      n == Count(fails, RestartThreshold)
  IN /\ Checking
     /\ ~HasNoContainer(p)
     /\ HeartbeatStale(p)
     /\ \E h \in IF p.cid = NoContainer THEN {"up"} ELSE Inspect(p.cid) :
          IF h # "up" THEN Checked(Forget(row), n, TRUE)
                      ELSE Checked(WithStatus(row, "unhealthy"), n, FALSE)

\* Case 2: registered, but the heartbeats stopped.
CheckStale ==
  LET p == loc["monitor"].copy
      n == Count(fails, RestartThreshold)
  IN /\ Checking
     /\ ~HasNoContainer(p)
     /\ HeartbeatStale(p)
     /\ \E h \in IF p.cid = NoContainer THEN {"up"} ELSE Inspect(p.cid) :
          IF h # "up" \/ n = RestartThreshold
            THEN Checked(Forget(row), n, TRUE)
            ELSE Checked(WithStatus(row, "unhealthy"), n, FALSE)

\* Case 3: what Docker says of the container in the row.
CheckContainer ==
  LET p == loc["monitor"].copy
      n == Count(fails, RestartThreshold)
      again == n = RestartThreshold
  IN /\ Checking
     /\ ~HasNoContainer(p)
     /\ ~HeartbeatStale(p)
     /\ IF p.cid = NoContainer THEN Checked(row, fails, FALSE)
        ELSE \E h \in Inspect(p.cid) :
          CASE h = "gone" /\ Resolved # {} ->
                 \* Reconcile the stale id with the container of that name.
                 \E c \in Resolved : \E actual \in HealthCheck(c) :
                   IF actual = "up" /\ p.host # NoHost
                     THEN Checked(WithStatus([row EXCEPT !.cid = c], "running"), 0, FALSE)
                     ELSE Checked([row EXCEPT !.cid = c], fails, FALSE)
            [] h = "gone" /\ Resolved = {} ->
                 IF again THEN Checked([Forget(row) EXCEPT !.cid = NoContainer], n, TRUE)
                          ELSE Checked(WithStatus(row, "error"), n, FALSE)
            [] h = "up" /\ p.host = NoHost ->
                 Checked(IF again THEN Forget(row) ELSE row, n, again)
            [] h = "up" /\ p.host # NoHost ->
                 Checked(WithStatus(row, "running"), 0, FALSE)
            [] h = "down" ->
                 Checked(IF again THEN Forget(row) ELSE WithStatus(row, "unhealthy"),
                         n, again)

\* Orchestrator.RestartPlugin reads the row again and refuses a disabled one.
AutoRestart ==
  /\ "monitor" \in Background
  /\ loc["monitor"].pc = "restart"
  /\ loc' = [loc EXCEPT !["monitor"] =
               IF row.installed /\ row.enabled
                 THEN [Idle EXCEPT !.op = "autorestart", !.pc = StopFirst(row),
                            !.copy = ImageOf(row)]
                 ELSE [Idle EXCEPT !.op = "monitor", !.pc = "cand"]]
  /\ UNCHANGED <<row, ctr, req, fails, cfails, kernel, requests, faults>>

\* The orchestrator forgets the registration only now, after the start.
FinishAutoRestart(t) ==
  /\ loc[t].pc = "commit"
  /\ loc[t].op = "autorestart"
  /\ Update([Started(t) EXCEPT !.host = NoHost, !.seen = "zero"])
  /\ fails' = 0
  /\ loc' = [loc EXCEPT ![t] = [Idle EXCEPT !.op = "monitor", !.pc = "cand"]]
  /\ UNCHANGED <<ctr, req, cfails, kernel, requests, faults>>

\* checkCandidates reads the row of every plugin with a registered candidate.
CheckCandidates ==
  /\ "monitor" \in Background
  /\ loc["monitor"].pc = "cand"
  /\ IF row.installed /\ row.chost # NoHost
       THEN /\ loc' = [loc EXCEPT !["monitor"] =
                         [Idle EXCEPT !.op = "monitor", !.pc = "ccheck", !.copy = row]]
            /\ UNCHANGED cfails
       ELSE /\ loc' = [loc EXCEPT !["monitor"] = Idle]
            /\ cfails' = 0
  /\ UNCHANGED <<row, ctr, req, fails, kernel, requests, faults>>

CheckCandidate ==
  LET p == loc["monitor"].copy
      n == Count(cfails, RollbackThreshold)
  IN /\ "monitor" \in Background
     /\ loc["monitor"].pc = "ccheck"
     /\ Update(IF p.cseen = "stale" /\ p.chealthy THEN [row EXCEPT !.chealthy = FALSE] ELSE row)
     /\ cfails' = CASE p.cseen = "zero"  -> cfails
                    [] p.cseen = "stale" -> n
                    [] p.cseen = "fresh" -> 0
     /\ loc' = [loc EXCEPT !["monitor"] =
                  IF p.cseen = "stale" /\ n = RollbackThreshold
                    THEN [Idle EXCEPT !.op = "autorollback", !.copy = p,
                            !.pc = IF p.ccid # NoContainer THEN "stop" ELSE "commit"]
                    ELSE Idle]
     /\ UNCHANGED <<ctr, req, fails, kernel, requests, faults>>

\* Save writes every column of the copy read before the container was
\* stopped, and inserts the row if it is gone.
FinishAutoRollback(t) ==
  /\ loc[t].pc = "commit"
  /\ loc[t].op = "autorollback"
  /\ row' = ClearCandidate(loc[t].copy)
  /\ cfails' = 0
  /\ loc' = [loc EXCEPT ![t] = Idle]
  /\ UNCHANGED <<ctr, req, fails, kernel, requests, faults>>

------------------------------------------------------------------------------
(* The SDK in each container, and the handlers of its requests.  A request *)
(* in flight outlives the container that sent it.                          *)

Send(c, kind) ==
  /\ kind \notin req[c]
  /\ req' = [req EXCEPT ![c] = @ \cup {kind}]
  /\ UNCHANGED <<row, loc, fails, cfails, kernel, requests, faults>>

SendRegister(c) ==
  /\ ctr[c].st = "boot"
  /\ req[c] = {}
  /\ Send(c, "register")
  /\ UNCHANGED ctr

SendHeartbeat(c) ==
  /\ ctr[c].st = "live"
  /\ req[c] = {}
  /\ Send(c, "heartbeat")
  /\ UNCHANGED ctr

\* Stop deregisters once, whatever kind of container this is.
SendDeregister(c) ==
  /\ ctr[c].st = "term"
  /\ Send(c, "deregister")
  /\ ctr' = [ctr EXCEPT ![c].st = "down"]

Handle(c, kind) == kernel # "down" /\ kind \in req[c]

IsCandidate(c) == ctr[c].slot = "candidate"

\* Mutant: the candidate flag of the request is ignored.
SelfRegisterAnyone(c) ==
  /\ Handle(c, "register")
  /\ Update([row EXCEPT !.host = ctr[c].slot, !.status = "running", !.seen = "fresh"])
  /\ req' = [req EXCEPT ![c] = @ \ {"register"}]
  /\ ctr' = IF ctr[c].st = "boot" /\ row.installed
              THEN [ctr EXCEPT ![c].st = "live"] ELSE ctr
  /\ UNCHANGED <<loc, fails, cfails, kernel, requests, faults>>

SelfRegister(c) ==
  /\ Handle(c, "register")
  /\ Update(IF IsCandidate(c)
              THEN [row EXCEPT !.chost = ctr[c].slot, !.chealthy = TRUE, !.cseen = "fresh"]
              ELSE [row EXCEPT !.host = ctr[c].slot, !.status = "running", !.seen = "fresh"])
  /\ req' = [req EXCEPT ![c] = @ \ {"register"}]
  /\ ctr' = IF ctr[c].st = "boot" /\ row.installed
              THEN [ctr EXCEPT ![c].st = "live"] ELSE ctr
  /\ UNCHANGED <<loc, fails, cfails, kernel, requests, faults>>

\* Mutant: the reply never asks for a new registration.
HeartbeatNoRecovery(c) ==
  /\ Handle(c, "heartbeat")
  /\ Update(IF IsCandidate(c)
              THEN [row EXCEPT !.chealthy = TRUE, !.cseen = "fresh"]
              ELSE [row EXCEPT !.status = "running", !.seen = "fresh"])
  /\ req' = [req EXCEPT ![c] = @ \ {"heartbeat"}]
  /\ UNCHANGED <<ctr, loc, fails, cfails, kernel, requests, faults>>

\* The reply asks for a new registration if the row has no address, and a
\* live SDK sends one at once.
Heartbeat(c) ==
  /\ Handle(c, "heartbeat")
  /\ Update(IF IsCandidate(c)
              THEN [row EXCEPT !.chealthy = TRUE, !.cseen = "fresh"]
              ELSE [row EXCEPT !.status = "running", !.seen = "fresh"])
  /\ req' = [req EXCEPT ![c] =
               (@ \ {"heartbeat"}) \cup
               (IF row.installed /\ row.host = NoHost /\ ctr[c].st = "live"
                  THEN {"register"} ELSE {})]
  /\ UNCHANGED <<ctr, loc, fails, cfails, kernel, requests, faults>>

\* The request does not say whether a candidate sent it.
Deregister(c) ==
  /\ Handle(c, "deregister")
  /\ Update([row EXCEPT !.status = "stopped", !.host = NoHost])
  /\ req' = [req EXCEPT ![c] = @ \ {"deregister"}]
  /\ UNCHANGED <<ctr, loc, fails, cfails, kernel, requests, faults>>

------------------------------------------------------------------------------
(* Time, the restart policy and faults.                                    *)

\* 90 seconds pass without a heartbeat: with a heartbeat every 30 seconds
\* that needs the process, or the kernel, to be unable to complete one.
Unheard(s) == kernel = "down" \/ \A c \in Holder(s) : ctr[c].st # "live"

Age ==
  /\ row.seen = "fresh"
  /\ Unheard("primary")
  /\ row' = [row EXCEPT !.seen = "stale"]
  /\ UNCHANGED <<ctr, req, loc, fails, cfails, kernel, requests, faults>>

CandidateAge ==
  /\ row.cseen = "fresh"
  /\ Unheard("candidate")
  /\ row' = [row EXCEPT !.cseen = "stale"]
  /\ UNCHANGED <<ctr, req, loc, fails, cfails, kernel, requests, faults>>

Become(c, from, to) ==
  /\ ctr[c].st \in from
  /\ ctr' = [ctr EXCEPT ![c].st = to]
  /\ UNCHANGED <<row, req, loc, fails, cfails, kernel, requests>>

\* Docker's restart policy "unless-stopped".
DockerRestart(c) == Become(c, {"exited"}, "boot") /\ UNCHANGED faults

Fault(kind) ==
  /\ kind \in Faults
  /\ faults < MaxFaults
  /\ faults' = faults + 1

Crash(c) == Fault("crash") /\ Become(c, {"boot", "live", "hung"}, "exited")
Hang(c)  == Fault("hang") /\ Become(c, {"live"}, "hung")
Recover(c) == Become(c, {"hung"}, "live") /\ UNCHANGED faults

\* The kernel dies: its goroutines, its counters and its connections go.
Die ==
  /\ kernel' = "down"
  /\ loc' = [t \in Actor |-> Idle]
  /\ req' = [c \in Container |-> {}]
  /\ fails' = 0
  /\ cfails' = 0
  /\ UNCHANGED <<row, ctr, requests>>

KernelCrash == kernel # "down" /\ Fault("kernel") /\ Die

\* The process exits once the HTTP servers have drained, or after 30 seconds.
Exit ==
  /\ "shutdown" \in Background
  /\ loc["shutdown"] = Exiting
  /\ Die
  /\ UNCHANGED faults

KernelBoot ==
  /\ kernel = "down"
  /\ kernel' = "up"
  /\ loc' = [t \in Actor |->
               IF t = "boot" THEN [Idle EXCEPT !.op = "boot", !.pc = "read"] ELSE Idle]
  /\ UNCHANGED <<row, ctr, req, fails, cfails, requests, faults>>

------------------------------------------------------------------------------
Request(a) ==
  \/ Enable(a) \/ Disable(a) \/ Restart(a) \/ SetDevMode(a)
  \/ Install(a) \/ Uninstall(a)
  \/ DeployCandidate(a) \/ PromoteCandidate(a)
  \/ DiscardCandidate(a) \/ RollbackPromoted(a)

\* The next step of an operation in progress.
Advance(t) ==
  \/ Stop(t) \/ Remove(t) \/ Clear(t) \/ RemoveStale(t) \/ Create(t)
  \/ CreateFails(t) \/ StartFails(t) \/ RecordFailure(t)
  \/ FinishEnable(t) \/ FinishDisable(t) \/ FinishRestart(t) \/ FinishDevMode(t)
  \/ FinishUninstall(t) \/ FinishDeploy(t) \/ FinishPromote(t)
  \/ FinishDiscard(t) \/ FinishRollback(t) \/ FinishBoot(t)
  \/ FinishAutoRestart(t) \/ FinishAutoRollback(t) \/ FinishShutdown(t)

MonitorStep ==
  \/ MonitorTick \/ CheckNoContainer \/ CheckStale \/ CheckContainer
  \/ AutoRestart \/ CheckCandidates \/ CheckCandidate

Sdk(c) == SendRegister(c) \/ SendHeartbeat(c) \/ SendDeregister(c)
Serve(c) == SelfRegister(c) \/ Heartbeat(c) \/ Deregister(c)

Disturb ==
  \/ \E t \in Actor : RemoveFails(t)
  \/ \E c \in Container : Crash(c) \/ Hang(c) \/ Recover(c)
  \/ KernelCrash

Next ==
  \/ \E a \in Admin : Request(a)
  \/ \E t \in Actor : Advance(t)
  \/ BootRead
  \/ MonitorStep
  \/ \E c \in Container : Sdk(c) \/ Serve(c) \/ DockerRestart(c)
  \/ Age \/ CandidateAge
  \/ Disturb
  \/ Shutdown \/ Exit \/ KernelBoot

Spec == Init /\ [][Next]_vars

\* Goroutines, HTTP calls and timers make progress, Docker restarts what
\* crashed, and a kernel that is down is started again.  Nobody has to issue
\* a request, nothing has to fail, and a stuck process need not recover.
Fairness ==
  /\ \A t \in Actor : WF_vars(Advance(t))
  /\ WF_vars(BootRead) /\ WF_vars(MonitorStep)
  /\ WF_vars(Exit) /\ WF_vars(KernelBoot)
  /\ WF_vars(Age) /\ WF_vars(CandidateAge)
  /\ \A c \in Container :
       /\ WF_vars(SendRegister(c)) /\ WF_vars(SendHeartbeat(c))
       /\ WF_vars(SelfRegister(c)) /\ WF_vars(Heartbeat(c)) /\ WF_vars(Deregister(c))
       /\ WF_vars(DockerRestart(c))

FairSpec == Spec /\ Fairness

------------------------------------------------------------------------------
(* What the lifecycle promises.                                            *)

TypeOK ==
  /\ row \in Row
  /\ ctr \in [Container -> Docker]
  /\ req \in [Container -> SUBSET Kinds]
  /\ loc \in [Actor -> Loc]
  /\ fails \in 0..RestartThreshold
  /\ cfails \in 0..RollbackThreshold
  /\ kernel \in {"up", "stopping", "down"}
  /\ requests \in 0..MaxRequests
  /\ faults \in 0..MaxFaults

Exists(c) == c \in Container /\ ctr[c].st # "none"
Quiet == \A t \in Actor : loc[t] \in {Idle, Exiting}

\* While a candidate's container exists, the row tells the truth about the
\* image it runs.
CandidateImageAgrees == Exists(row.ccid) => ctr[row.ccid].image = row.cimage

\* Between operations, the container the row names as the plugin's runs the
\* image the row names.
ImageAgrees == Quiet /\ Exists(row.cid) => ctr[row.cid].image = row.image

\* Between operations, every container that exists is one the row names.
NoOrphan == Quiet => \A c \in Container : Exists(c) => c \in {row.cid, row.ccid}

\* A disabled plugin has no container of its own.
DisabledStopped == Quiet /\ ~row.enabled => Holder("primary") = {}

\* The plugin's address never leads to an un-promoted candidate.
CandidateIsolated == \A c \in Holder(row.host) : c # row.ccid

\* Deploying, discarding and rolling back a candidate leave the container of
\* the stable version alone.
StableUntouched ==
  [][\A t \in Actor :
       /\ loc[t].op \in {"deploy", "discard", "autorollback"}
       /\ loc'[t] # loc[t]
       /\ Exists(row.cid)
       => ctr'[row.cid] = ctr[row.cid]]_vars

\* A live container the row names is eventually heard and addressable.
PrimaryHeard ==
  \A c \in Container :
    row.cid = c /\ ctr[c].st = "live"
      ~> \/ row.cid # c \/ ctr[c].st # "live"
         \/ row.seen = "fresh" /\ row.host # NoHost

Serving ==
  /\ row.status = "running" /\ row.host # NoHost
  /\ \E c \in Holder(row.host) : ctr[c].st = "live"

\* Once requests and faults cease, an enabled plugin ends up serving.
SelfHeals == <>[](row.enabled => Serving)
==============================================================================
