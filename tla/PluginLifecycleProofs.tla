------------------------ MODULE PluginLifecycleProofs ------------------------
(***************************************************************************)
(* What holds of the lifecycle for any containers, images and              *)
(* administrators: the types and the candidate's image without             *)
(* restriction; that a candidate gets no traffic and costs the stable      *)
(* version nothing, before a promotion; and the row's image, its           *)
(* containers and a disabled plugin's rest, for one administrator at a     *)
(* time.  A restriction is a named definition and a hypothesis.            *)
(***************************************************************************)
EXTENDS PluginLifecycle, TLAPS

------------------------------------------------------------------------------
(* Types.                                                                  *)

\* The values an operation starts or ends with have their types.
LEMMA ConstantTypes ==
  /\ NoRow \in Row
  /\ Idle \in Loc /\ Exiting \in Loc
  /\ \A img \in Image : InstalledRow(img) \in Row
  /\ \A r \in Row : /\ ClearCandidate(r) \in Row /\ ImageOf(r) \in Row
                    /\ Deployed(r) \in Row /\ Checkable(r) \in Row
                    /\ Forget(r) \in Row
<1>1. NoRow \in Row
  BY DEF NoRow, Row, NoHost, Seen, Status
<1>2. Idle \in Loc /\ Exiting \in Loc
  <2>1. Idle \in Loc
    BY <1>1 DEF Idle, Loc, Op, Place
  <2>2. Exiting \in Loc
    BY <1>1 DEF Exiting, Loc, Op, Place
  <2> QED BY <2>1, <2>2
<1>3. \A img \in Image : InstalledRow(img) \in Row
  BY <1>1 DEF InstalledRow, Row
<1>4. ASSUME NEW r \in Row
      PROVE  /\ ClearCandidate(r) \in Row /\ ImageOf(r) \in Row
             /\ Deployed(r) \in Row /\ Checkable(r) \in Row
             /\ Forget(r) \in Row
  <2>1. ClearCandidate(r) \in Row
    BY DEF ClearCandidate, Row, NoHost, Seen
  <2>2. ImageOf(r) \in Row
    BY <1>1 DEF ImageOf, Row
  <2>3. Deployed(r) \in Row
    BY <2>2 DEF Deployed, Row
  <2>4. Checkable(r) \in Row
    BY <1>1 DEF Checkable, Row
  <2>5. Forget(r) \in Row
    BY DEF Forget, Row, Status, NoHost
  <2> QED BY <2>1, <2>2, <2>3, <2>4, <2>5
<1> QED BY <1>1, <1>2, <1>3, <1>4

\* A row that has just been registered at a host has its type.
LEMMA RegisteredType ==
  ASSUME NEW r \in Row, NEW h \in Slot \cup {NoHost}
  PROVE  [r EXCEPT !.host = h, !.status = "running", !.seen = "fresh"] \in Row
BY DEF Row, Status, Seen

\* A row that takes over another row's candidate has its type.
LEMMA PromotedType ==
  ASSUME NEW r \in Row, NEW p \in Row
  PROVE  [[r EXCEPT !.pimage = p.image, !.cid = p.ccid, !.image = p.cimage]
            EXCEPT !.host = p.chost, !.status = "running", !.seen = "fresh"] \in Row
<1>1. /\ p.image \in Image \cup {NoImage} /\ p.ccid \in Container \cup {NoContainer}
      /\ p.cimage \in Image \cup {NoImage} /\ p.chost \in Slot \cup {NoHost}
  BY DEF Row
<1> DEFINE s == [r EXCEPT !.pimage = p.image, !.cid = p.ccid, !.image = p.cimage]
<1>2. s \in Row
  BY <1>1 DEF Row
<1> HIDE DEF s
<1>3. [s EXCEPT !.host = p.chost, !.status = "running", !.seen = "fresh"] \in Row
  BY <1>1, <1>2, RegisteredType
<1> QED BY <1>3 DEF s

\* A row that is back on a container of its previous image has its type.
LEMMA RolledBackType ==
  ASSUME NEW r \in Row, NEW n \in Container \cup {NoContainer}, NEW i \in Image \cup {NoImage}
  PROVE  [[r EXCEPT !.cid = n, !.image = i, !.status = "running"]
            EXCEPT !.host = NoHost, !.seen = "zero", !.pimage = NoImage] \in Row
<1> DEFINE s == [r EXCEPT !.cid = n, !.image = i, !.status = "running"]
<1>1. s \in Row
  BY DEF Row, Status
<1> HIDE DEF s
<1>2. [s EXCEPT !.host = NoHost, !.seen = "zero", !.pimage = NoImage] \in Row
  BY <1>1 DEF Row, Seen
<1> QED BY <1>2 DEF s

\* An operation begins: a well-typed copy keeps the types.
LEMMA BeginType ==
  ASSUME TypeOK, NEW a \in Admin, NEW op \in Op, NEW pc \in Place,
         NEW copy \in Row, Begin(a, op, pc, copy)
  PROVE  TypeOK'
<1>1. a \in Actor
  BY DEF Actor
<1>2. loc' \in [Actor -> Loc]
  BY <1>1 DEF TypeOK, Begin, Loc
<1>3. requests' \in 0..MaxRequests
  BY LifecycleAssumption DEF TypeOK, Begin
<1> QED BY <1>2, <1>3 DEF TypeOK, Begin

\* An operation ends: a well-typed row keeps the types.
LEMMA FinishType ==
  ASSUME TypeOK, NEW t \in Actor, NEW op, NEW r \in Row, Finish(t, op, r)
  PROVE  TypeOK'
<1>1. loc' \in [Actor -> Loc]
  BY ConstantTypes DEF TypeOK, Finish
<1>2. row' \in Row
  BY DEF TypeOK, Finish, Update
<1> QED BY <1>1, <1>2 DEF TypeOK, Finish
\* One check of the monitor ends: well-typed columns and counter keep the types.
LEMMA CheckedType ==
  ASSUME TypeOK, NEW r \in Row, NEW n \in 0..RestartThreshold, NEW restart \in BOOLEAN,
         Checked(r, n, restart), "monitor" \in Actor
  PROVE  TypeOK'
<1>1. [Idle EXCEPT !.op = "monitor", !.pc = IF restart THEN "restart" ELSE "cand"] \in Loc
  BY ConstantTypes DEF Loc, Op, Place
<1>2. loc' \in [Actor -> Loc]
  BY <1>1 DEF TypeOK, Checked
<1>3. row' \in Row
  BY DEF TypeOK, Checked, Update
<1> QED BY <1>2, <1>3 DEF TypeOK, Checked

\* The monitor's counters stay within their thresholds.
LEMMA CountType ==
  ASSUME NEW max \in Nat \ {0}, NEW n \in 0..max
  PROVE  Count(n, max) \in 0..max
BY DEF Count

LEMMA BackgroundActor ==
  /\ "boot" \in Background => "boot" \in Actor
  /\ "monitor" \in Background => "monitor" \in Actor
  /\ "shutdown" \in Background => "shutdown" \in Actor
BY DEF Actor

\* An administrator's request keeps the types.
LEMMA RequestType ==
  ASSUME TypeOK, NEW a \in Admin, Request(a)
  PROVE  TypeOK'
<1> row \in Row
  BY DEF TypeOK
<1>1. StopFirst(row) \in Place
  BY DEF StopFirst, Place
<1>2. CASE Enable(a)
  BY <1>2, BeginType, ConstantTypes DEF Enable, Op, Operations, Place
<1>3. CASE Disable(a)
  BY <1>3, BeginType, ConstantTypes DEF Disable, Op, Operations, Place
<1>4. CASE Restart(a)
  BY <1>4, <1>1, BeginType, ConstantTypes DEF Restart, Op, Operations
<1>5. CASE SetDevMode(a)
  BY <1>5, <1>1, BeginType, ConstantTypes DEF SetDevMode, Op, Operations
<1>6. CASE Install(a)
  BY <1>6, ConstantTypes, LifecycleAssumption DEF Install, TypeOK
<1>7. CASE Uninstall(a)
  BY <1>7, BeginType, ConstantTypes DEF Uninstall, Op, Operations, Place
<1>8. CASE DeployCandidate(a)
  <2>1. PICK img \in Image : Begin(a, "deploy", "stale", [NoRow EXCEPT !.image = img])
    BY <1>8 DEF DeployCandidate
  <2>2. [NoRow EXCEPT !.image = img] \in Row
    BY ConstantTypes DEF Row
  <2> QED BY <2>1, <2>2, BeginType DEF Op, Operations, Place
<1>9. CASE PromoteCandidate(a)
  BY <1>9, BeginType, ConstantTypes DEF PromoteCandidate, Op, Operations, Place
<1>10. CASE DiscardCandidate(a)
  BY <1>10, BeginType, ConstantTypes DEF DiscardCandidate, Op, Place
<1>11. CASE RollbackPromoted(a)
  <2>1. [Deployed(row) EXCEPT !.image = row.pimage] \in Row
    BY ConstantTypes DEF Row
  <2> QED BY <1>11, <2>1, BeginType DEF RollbackPromoted, Op, Operations, Place
<1> QED BY <1>2, <1>3, <1>4, <1>5, <1>6, <1>7, <1>8, <1>9, <1>10, <1>11 DEF Request

\* The next step of an operation in progress keeps the types.
LEMMA AdvanceType ==
  ASSUME TypeOK, NEW t \in Actor, Advance(t)
  PROVE  TypeOK'
<1> row \in Row /\ loc[t] \in Loc /\ ctr \in [Container -> Docker]
  BY DEF TypeOK
<1> loc[t].new \in Container \cup {NoContainer} /\ loc[t].copy \in Row
  BY DEF Loc
<1>1. ASSUME NEW pc \in Place
      PROVE  [loc EXCEPT ![t].pc = pc] \in [Actor -> Loc]
  BY DEF TypeOK, Loc
<1>2. Failed(t) \in [Actor -> Loc]
  BY <1>1, ConstantTypes DEF Failed, TypeOK, Place
<1>3. AfterRemove(t) \in Place
  BY DEF AfterRemove, Place
<1>4. SlotOf(loc[t].op) \in Slot
  BY DEF SlotOf, Slot
<1>5. loc[t].copy.image \in Image \cup {NoImage}
  BY DEF Row
<1>6. ASSUME NEW k \in Docker
      PROVE  /\ Removed(k) \in Docker
             /\ [k EXCEPT !.st = Terminated(k.st)] \in Docker
  BY DEF Docker, Removed, Terminated, State
<1>7. Started(t) \in Row
  BY DEF Started, Row, Status
<1>8. CASE Stop(t)
  <2>1. loc' \in [Actor -> Loc]
    BY <1>8, <1>1 DEF Stop, Place
  <2>2. ctr' \in [Container -> Docker]
    BY <1>8, <1>6 DEF Stop
  <2> QED BY <1>8, <2>1, <2>2 DEF Stop, TypeOK
<1>9. CASE Remove(t)
  <2>1. loc' \in [Actor -> Loc]
    BY <1>9, <1>1, <1>3 DEF Remove
  <2>2. ctr' \in [Container -> Docker]
    BY <1>9, <1>6 DEF Remove
  <2> QED BY <1>9, <2>1, <2>2 DEF Remove, TypeOK
<1>10. CASE Clear(t)
  <2>1. loc' \in [Actor -> Loc]
    BY <1>10, <1>1 DEF Clear, Place
  <2>2. row' \in Row
    <3>1. [row EXCEPT !.host = NoHost] \in Row
      BY DEF Row
    <3>2. [row EXCEPT !.cid = NoContainer, !.status = "running",
                      !.host = NoHost, !.seen = "zero"] \in Row
      BY DEF Row, Status, Seen
    <3> QED BY <1>10, <3>1, <3>2 DEF Clear, Update
  <2> QED BY <1>10, <2>1, <2>2 DEF Clear, TypeOK
<1>11. CASE RemoveStale(t)
  <2>1. loc' \in [Actor -> Loc]
    BY <1>11, <1>1 DEF RemoveStale, Place
  <2>2. ctr' \in [Container -> Docker]
    BY <1>11, <1>6 DEF RemoveStale
  <2> QED BY <1>11, <2>1, <2>2 DEF RemoveStale, TypeOK
<1>12. ASSUME FreshIds # {}
       PROVE  NewId \in Container
  BY <1>12 DEF NewId, FreshIds
<1>13. CASE Create(t)
  <2>1. NewId \in Container
    BY <1>12, <1>13 DEF Create
  <2>2. loc' \in [Actor -> Loc]
    BY <1>13, <2>1 DEF Create, TypeOK, Loc, Place
  <2>3. ctr' \in [Container -> Docker]
    BY <1>13, <1>4, <1>5 DEF Create, Docker, State
  <2> QED BY <1>13, <2>2, <2>3 DEF Create, TypeOK
<1>14. CASE CreateFails(t)
  BY <1>14, <1>2, LifecycleAssumption DEF CreateFails, DockerFault, TypeOK
<1>15. CASE StartFails(t)
  <2>1. ctr' \in [Container -> Docker]
    BY <1>15, <1>4, <1>5 DEF StartFails, Docker, State
  <2> QED BY <1>15, <2>1, <1>2, LifecycleAssumption DEF StartFails, DockerFault, TypeOK
<1>16. CASE RecordFailure(t)
  <2>1. [row EXCEPT !.cid = NoContainer, !.status = "error"] \in Row
    BY DEF Row, Status
  <2>2. row' \in Row
    BY <1>16, <2>1 DEF RecordFailure, Update
  <2>3. [Idle EXCEPT !.op = "monitor", !.pc = "cand"] \in Loc
    BY ConstantTypes DEF Loc, Op, Place
  <2>4. loc' \in [Actor -> Loc]
    BY <1>16, <2>3, ConstantTypes DEF RecordFailure, TypeOK
  <2> QED BY <1>16, <2>2, <2>4 DEF RecordFailure, TypeOK
<1>17. CASE FinishEnable(t)
  <2>1. [Started(t) EXCEPT !.enabled = TRUE] \in Row
    BY <1>7 DEF Row
  <2> QED BY <1>17, <2>1, FinishType DEF FinishEnable
<1>18. CASE FinishDisable(t)
  <2>1. [row EXCEPT !.cid = NoContainer, !.status = "stopped",
                    !.enabled = FALSE, !.host = NoHost] \in Row
    BY DEF Row, Status
  <2> QED BY <1>18, <2>1, FinishType DEF FinishDisable
<1>19. CASE FinishRestart(t)
  BY <1>19, <1>7, FinishType DEF FinishRestart
<1>20. CASE FinishDevMode(t)
  BY <1>20, <1>7, FinishType DEF FinishDevMode
<1>21. CASE FinishUninstall(t)
  BY <1>21, ConstantTypes, FinishType DEF FinishUninstall
<1>22. CASE FinishDeploy(t)
  <2> DEFINE r == ClearCandidate(row)
  <2> r \in Row
    BY ConstantTypes
  <2> HIDE DEF r
  <2>1. [r EXCEPT !.ccid = loc[t].new, !.cimage = loc[t].copy.image] \in Row
    BY <1>5 DEF Row
  <2> QED BY <1>22, <2>1, FinishType DEF FinishDeploy, r
<1>23. CASE FinishPromote(t)
  <2> DEFINE p == loc[t].copy
  <2> DEFINE r == ClearCandidate(row)
  <2> r \in Row /\ p \in Row
    BY ConstantTypes
  <2> HIDE DEF r, p
  <2>1. [[r EXCEPT !.pimage = p.image, !.cid = p.ccid, !.image = p.cimage]
           EXCEPT !.host = p.chost, !.status = "running", !.seen = "fresh"] \in Row
    BY PromotedType
  <2> QED BY <1>23, <2>1, FinishType DEF FinishPromote, p, r
<1>24. CASE FinishDiscard(t)
  BY <1>24, ConstantTypes, FinishType DEF FinishDiscard
<1>25. CASE FinishRollback(t)
  <2> DEFINE r == ClearCandidate(row)
  <2> DEFINE n == loc[t].new
  <2> DEFINE i == loc[t].copy.image
  <2> r \in Row
    BY ConstantTypes
  <2> n \in Container \cup {NoContainer} /\ i \in Image \cup {NoImage}
    BY <1>5 DEF Row
  <2> HIDE DEF r, n, i
  <2>1. [[r EXCEPT !.cid = n, !.image = i, !.status = "running"]
           EXCEPT !.host = NoHost, !.seen = "zero", !.pimage = NoImage] \in Row
    BY RolledBackType
  <2> QED BY <1>25, <2>1, FinishType DEF FinishRollback, r, n, i
<1>26. CASE FinishBoot(t)
  <2>1. [row EXCEPT !.cid = loc[t].new, !.cids = TRUE] \in Row
    BY DEF Row
  <2> QED BY <1>26, <2>1, FinishType DEF FinishBoot
<1>27. CASE FinishAutoRestart(t)
  <2>1. [Started(t) EXCEPT !.host = NoHost, !.seen = "zero"] \in Row
    BY <1>7 DEF Row, Seen
  <2>2. row' \in Row
    BY <1>27, <2>1 DEF FinishAutoRestart, Update
  <2>3. [Idle EXCEPT !.op = "monitor", !.pc = "cand"] \in Loc
    BY ConstantTypes DEF Loc, Op, Place
  <2>4. loc' \in [Actor -> Loc]
    BY <1>27, <2>3 DEF FinishAutoRestart, TypeOK
  <2> QED BY <1>27, <2>2, <2>4, LifecycleAssumption DEF FinishAutoRestart, TypeOK
<1>28. CASE FinishAutoRollback(t)
  <2>1. row' \in Row
    BY <1>28, ConstantTypes DEF FinishAutoRollback
  <2>2. loc' \in [Actor -> Loc]
    BY <1>28, ConstantTypes DEF FinishAutoRollback, TypeOK
  <2> QED BY <1>28, <2>1, <2>2, LifecycleAssumption DEF FinishAutoRollback, TypeOK
<1>29. CASE FinishShutdown(t)
  <2>1. [row EXCEPT !.cid = NoContainer, !.status = "stopped"] \in Row
    BY DEF Row, Status
  <2>2. row' \in Row
    BY <1>29, <2>1 DEF FinishShutdown, Update
  <2>3. loc' \in [Actor -> Loc]
    BY <1>29, ConstantTypes DEF FinishShutdown, TypeOK
  <2> QED BY <1>29, <2>2, <2>3 DEF FinishShutdown, TypeOK
<1> QED
  BY <1>8, <1>9, <1>10, <1>11, <1>13, <1>14, <1>15, <1>16, <1>17, <1>18, <1>19,
     <1>20, <1>21, <1>22, <1>23, <1>24, <1>25, <1>26, <1>27, <1>28, <1>29 DEF Advance

\* A step of the monitor keeps the types.
LEMMA MonitorType ==
  ASSUME TypeOK, MonitorStep
  PROVE  TypeOK'
<1>1. "monitor" \in Background
  BY DEF MonitorStep, MonitorTick, CheckNoContainer, CheckStale, CheckContainer,
         Checking, AutoRestart, CheckCandidates, CheckCandidate
<1>2. "monitor" \in Actor
  BY <1>1, BackgroundActor
<1> DEFINE p == loc["monitor"].copy
           n == Count(fails, RestartThreshold)
<1>3. row \in Row /\ fails \in 0..RestartThreshold /\ n \in 0..RestartThreshold
  BY LifecycleAssumption, CountType DEF TypeOK
<1>4. p \in Row
  BY <1>2 DEF TypeOK, Loc
<1> HIDE DEF p, n
<1>5. ASSUME NEW r \in Row, NEW s \in Status
      PROVE  WithStatus(r, s) \in Row
  BY <1>5 DEF WithStatus, Row
<1>6. ASSUME NEW r \in Row
      PROVE  Forget(r) \in Row /\ [Forget(r) EXCEPT !.cid = NoContainer] \in Row
  <2>1. Forget(r) \in Row
    BY ConstantTypes
  <2> QED BY <2>1 DEF Row
<1>7. {"running", "unhealthy", "error"} \subseteq Status
  BY DEF Status
<1>8. CASE MonitorTick
  <2>1. [Idle EXCEPT !.op = "monitor", !.pc = "check", !.copy = Checkable(row)] \in Loc
    BY <1>3, ConstantTypes DEF Loc, Op, Place
  <2>2. [Idle EXCEPT !.op = "monitor", !.pc = "cand"] \in Loc
    BY ConstantTypes DEF Loc, Op, Place
  <2> QED BY <1>8, <2>1, <2>2 DEF MonitorTick, TypeOK
<1>9. CASE CheckNoContainer
  BY <1>9, <1>2, <1>3, CheckedType DEF CheckNoContainer, n
<1>10. CASE CheckStale
  <2>1. \/ Checked(Forget(row), n, TRUE)
        \/ Checked(WithStatus(row, "unhealthy"), n, FALSE)
    BY <1>10 DEF CheckStale, n
  <2> QED BY <2>1, <1>2, <1>3, <1>5, <1>6, <1>7, CheckedType
<1>11. CASE CheckContainer
  <2>1. \E r \in Row, k \in {0, n, fails}, b \in BOOLEAN : Checked(r, k, b)
    <3>1. CASE p.cid = NoContainer
      BY <1>11, <3>1, <1>3 DEF CheckContainer, p
    <3>2. CASE p.cid # NoContainer
      <4> DEFINE again == n = RestartThreshold
      <4>1. PICK h \in Inspect(p.cid) :
              CASE h = "gone" /\ Resolved # {} ->
                     \E c \in Resolved : \E actual \in HealthCheck(c) :
                       IF actual = "up" /\ p.host # NoHost
                         THEN Checked(WithStatus([row EXCEPT !.cid = c], "running"), 0, FALSE)
                         ELSE Checked([row EXCEPT !.cid = c], fails, FALSE)
                [] h = "gone" /\ Resolved = {} ->
                     IF again THEN Checked([Forget(row) EXCEPT !.cid = NoContainer], n, TRUE)
                              ELSE Checked(WithStatus(row, "error"), n, FALSE)
                [] h = "up" /\ p.host = NoHost ->
                     Checked(IF again THEN Forget(row) ELSE row, n, again)
                [] h = "up" /\ p.host # NoHost ->
                     Checked(WithStatus(row, "running"), 0, FALSE)
                [] h = "down" ->
                     Checked(IF again THEN Forget(row) ELSE WithStatus(row, "unhealthy"),
                             n, again)
        BY <1>11, <3>2 DEF CheckContainer, p, n
      <4>2. h \in {"gone", "up", "down"}
        BY DEF Inspect, HealthCheck
      <4>3. ASSUME NEW c \in Resolved
            PROVE  [row EXCEPT !.cid = c] \in Row
        BY <1>3 DEF Resolved, Holder, Row
      <4>4. CASE h = "gone" /\ Resolved # {}
        <5>1. PICK c \in Resolved :
                \/ Checked(WithStatus([row EXCEPT !.cid = c], "running"), 0, FALSE)
                \/ Checked([row EXCEPT !.cid = c], fails, FALSE)
          BY <4>1, <4>4
        <5> QED BY <5>1, <4>3, <1>5, <1>7
      <4>5. CASE h = "gone" /\ Resolved = {}
        BY <4>1, <4>5, <1>3, <1>5, <1>6, <1>7
      <4>6. CASE h = "up"
        BY <4>1, <4>6, <1>3, <1>5, <1>6, <1>7
      <4>7. CASE h = "down"
        BY <4>1, <4>7, <1>3, <1>5, <1>6, <1>7
      <4> QED BY <4>2, <4>4, <4>5, <4>6, <4>7
    <3> QED BY <3>1, <3>2
  <2> QED BY <2>1, <1>2, <1>3, LifecycleAssumption, CheckedType
<1>12. CASE AutoRestart
  <2>1. StopFirst(row) \in Place
    BY DEF StopFirst, Place
  <2>2. [Idle EXCEPT !.op = "autorestart", !.pc = StopFirst(row),
                     !.copy = ImageOf(row)] \in Loc
    BY <2>1, <1>3, ConstantTypes DEF Loc, Op
  <2>3. [Idle EXCEPT !.op = "monitor", !.pc = "cand"] \in Loc
    BY ConstantTypes DEF Loc, Op, Place
  <2> QED BY <1>12, <2>2, <2>3 DEF AutoRestart, TypeOK
<1>13. CASE CheckCandidates
  <2>1. [Idle EXCEPT !.op = "monitor", !.pc = "ccheck", !.copy = row] \in Loc
    BY <1>3, ConstantTypes DEF Loc, Op, Place
  <2> QED BY <1>13, <2>1, ConstantTypes, LifecycleAssumption DEF CheckCandidates, TypeOK
<1>14. CASE CheckCandidate
  <2>1. \A pc \in {"stop", "commit"} :
          [Idle EXCEPT !.op = "autorollback", !.copy = p, !.pc = pc] \in Loc
    BY <1>4, ConstantTypes DEF Loc, Op, Place
  <2>2. loc' \in [Actor -> Loc]
    BY <1>14, <2>1, ConstantTypes DEF CheckCandidate, TypeOK, p
  <2>3. [row EXCEPT !.chealthy = FALSE] \in Row
    BY <1>3 DEF Row
  <2>4. row' \in Row
    BY <1>14, <2>3, <1>3 DEF CheckCandidate, Update
  <2>5. cfails' \in 0..RollbackThreshold
    <3>1. p.cseen \in {"zero", "fresh", "stale"}
      BY <1>4 DEF Row, Seen
    <3> QED BY <1>14, <3>1, CountType, LifecycleAssumption DEF CheckCandidate, TypeOK, p
  <2> QED BY <1>14, <2>2, <2>4, <2>5 DEF CheckCandidate, TypeOK
<1> QED BY <1>8, <1>9, <1>10, <1>11, <1>12, <1>13, <1>14 DEF MonitorStep

\* A request to the kernel is sent, or served, or lost: the types are kept.
LEMMA SdkType ==
  ASSUME TypeOK, NEW c \in Container, Sdk(c)
  PROVE  TypeOK'
<1>1. ASSUME NEW kind \in Kinds, Send(c, kind)
      PROVE  req' \in [Container -> SUBSET Kinds]
  BY <1>1 DEF Send, TypeOK
<1>2. CASE SendRegister(c)
  BY <1>2, <1>1 DEF SendRegister, Send, TypeOK, Kinds
<1>3. CASE SendHeartbeat(c)
  BY <1>3, <1>1 DEF SendHeartbeat, Send, TypeOK, Kinds
<1>4. CASE SendDeregister(c)
  <2>1. ctr' \in [Container -> Docker]
    BY <1>4 DEF SendDeregister, TypeOK, Docker, State
  <2> QED BY <1>4, <1>1, <2>1 DEF SendDeregister, Send, TypeOK, Kinds
<1> QED BY <1>2, <1>3, <1>4 DEF Sdk

LEMMA ServeType ==
  ASSUME TypeOK, NEW c \in Container, Serve(c)
  PROVE  TypeOK'
<1> row \in Row /\ ctr[c] \in Docker
  BY DEF TypeOK
<1>1. ctr[c].slot \in Slot
  BY DEF Docker
<1>2. CASE SelfRegister(c)
  <2>1. [row EXCEPT !.chost = ctr[c].slot, !.chealthy = TRUE, !.cseen = "fresh"] \in Row
    BY <1>1 DEF Row, Seen
  <2>2. [row EXCEPT !.host = ctr[c].slot, !.status = "running", !.seen = "fresh"] \in Row
    BY <1>1, RegisteredType
  <2>3. row' \in Row
    BY <1>2, <2>1, <2>2 DEF SelfRegister, Update
  <2>4. ctr' \in [Container -> Docker]
    BY <1>2 DEF SelfRegister, TypeOK, Docker, State
  <2>5. req' \in [Container -> SUBSET Kinds]
    BY <1>2 DEF SelfRegister, TypeOK
  <2> QED BY <1>2, <2>3, <2>4, <2>5 DEF SelfRegister, TypeOK
<1>3. CASE Heartbeat(c)
  <2>1. /\ [row EXCEPT !.chealthy = TRUE, !.cseen = "fresh"] \in Row
        /\ [row EXCEPT !.status = "running", !.seen = "fresh"] \in Row
    BY DEF Row, Seen, Status
  <2>2. row' \in Row
    BY <1>3, <2>1 DEF Heartbeat, Update
  <2>3. req' \in [Container -> SUBSET Kinds]
    BY <1>3 DEF Heartbeat, TypeOK, Kinds
  <2> QED BY <1>3, <2>2, <2>3 DEF Heartbeat, TypeOK
<1>4. CASE Deregister(c)
  <2>1. [row EXCEPT !.status = "stopped", !.host = NoHost] \in Row
    BY DEF Row, Status
  <2>2. row' \in Row
    BY <1>4, <2>1 DEF Deregister, Update
  <2>3. req' \in [Container -> SUBSET Kinds]
    BY <1>4 DEF Deregister, TypeOK
  <2> QED BY <1>4, <2>2, <2>3 DEF Deregister, TypeOK
<1> QED BY <1>2, <1>3, <1>4 DEF Serve

\* Time, the restart policy and faults keep the types.
LEMMA BecomeType ==
  ASSUME TypeOK, NEW c \in Container, NEW from, NEW to \in State, Become(c, from, to),
         faults' \in 0..MaxFaults
  PROVE  TypeOK'
<1>1. ctr' \in [Container -> Docker]
  BY DEF Become, TypeOK, Docker
<1> QED BY <1>1 DEF Become, TypeOK

LEMMA AgeType ==
  ASSUME TypeOK, Age \/ CandidateAge
  PROVE  TypeOK'
<1>1. /\ [row EXCEPT !.seen = "stale"] \in Row
      /\ [row EXCEPT !.cseen = "stale"] \in Row
  BY DEF TypeOK, Row, Seen
<1> QED BY <1>1 DEF Age, CandidateAge, TypeOK

LEMMA DieType ==
  ASSUME TypeOK, Die, faults' \in 0..MaxFaults
  PROVE  TypeOK'
BY ConstantTypes, LifecycleAssumption DEF Die, TypeOK

LEMMA DisturbType ==
  ASSUME TypeOK, Disturb
  PROVE  TypeOK'
<1>1. faults \in 0..MaxFaults /\ MaxFaults \in Nat
  BY LifecycleAssumption DEF TypeOK
<1>2. ASSUME NEW kind, Fault(kind)
      PROVE  faults' \in 0..MaxFaults
  BY <1>1, <1>2 DEF Fault
<1>3. ASSUME NEW t \in Actor, RemoveFails(t)
      PROVE  TypeOK'
  <2>1. faults' \in 0..MaxFaults
    BY <1>1, <1>3 DEF RemoveFails, DockerFault
  <2>2. AfterRemove(t) \in Place
    BY DEF AfterRemove, Place
  <2>3. [loc EXCEPT ![t].pc = AfterRemove(t)] \in [Actor -> Loc]
    BY <2>2 DEF TypeOK, Loc
  <2>4. loc' \in [Actor -> Loc]
    BY <1>3, <2>3, ConstantTypes DEF RemoveFails, TypeOK
  <2> QED BY <1>3, <2>1, <2>4 DEF RemoveFails, TypeOK
<1>4. ASSUME NEW c \in Container, Crash(c) \/ Hang(c) \/ Recover(c)
      PROVE  TypeOK'
  BY <1>1, <1>2, <1>4, BecomeType DEF Crash, Hang, Recover, State
<1>5. CASE KernelCrash
  BY <1>2, <1>5, DieType DEF KernelCrash
<1> QED BY <1>3, <1>4, <1>5 DEF Disturb

\* The kernel's start and its end keep the types.
LEMMA KernelType ==
  ASSUME TypeOK, BootRead \/ Shutdown \/ Exit \/ KernelBoot
  PROVE  TypeOK'
<1> row \in Row
  BY DEF TypeOK
<1>1. CASE BootRead
  <2>1. "boot" \in Actor
    BY <1>1, BackgroundActor DEF BootRead
  <2>2. loc' \in [Actor -> Loc]
    BY <1>1, <2>1, ConstantTypes DEF BootRead, TypeOK, Loc, Place
  <2> QED BY <1>1, <2>2 DEF BootRead, TypeOK
<1>2. CASE Shutdown
  <2>1. [Exiting EXCEPT !.pc = "stop"] \in Loc
    BY ConstantTypes DEF Loc, Place
  <2>2. loc' \in [Actor -> Loc]
    BY <1>2, <2>1, ConstantTypes DEF Shutdown, TypeOK
  <2>3. requests' \in 0..MaxRequests
    BY <1>2, LifecycleAssumption DEF Shutdown, TypeOK
  <2> QED BY <1>2, <2>2, <2>3 DEF Shutdown, TypeOK
<1>3. CASE Exit
  BY <1>3, DieType DEF Exit, TypeOK
<1>4. CASE KernelBoot
  <2>1. [Idle EXCEPT !.op = "boot", !.pc = "read"] \in Loc
    BY ConstantTypes DEF Loc, Op, Place
  <2>2. loc' \in [Actor -> Loc]
    BY <1>4, <2>1, ConstantTypes DEF KernelBoot, TypeOK
  <2> QED BY <1>4, <2>2 DEF KernelBoot, TypeOK
<1> QED BY <1>1, <1>2, <1>3, <1>4

LEMMA InitType == Init => TypeOK
<1> SUFFICES ASSUME Init PROVE TypeOK
  OBVIOUS
<1>1. row \in Row
  BY ConstantTypes DEF Init, Row
<1>2. [Idle EXCEPT !.op = "boot", !.pc = "read"] \in Loc
  BY ConstantTypes DEF Loc, Op, Place
<1>3. loc \in [Actor -> Loc]
  BY <1>2, ConstantTypes DEF Init
<1>4. ctr \in [Container -> Docker]
  BY DEF Init, Docker, State, Slot
<1> QED BY <1>1, <1>3, <1>4, LifecycleAssumption DEF Init, TypeOK

LEMMA NextType == TypeOK /\ [Next]_vars => TypeOK'
<1> SUFFICES ASSUME TypeOK, [Next]_vars PROVE TypeOK'
  OBVIOUS
<1>1. CASE \E a \in Admin : Request(a)
  BY <1>1, RequestType
<1>2. CASE \E t \in Actor : Advance(t)
  BY <1>2, AdvanceType
<1>3. CASE MonitorStep
  BY <1>3, MonitorType
<1>4. CASE \E c \in Container : Sdk(c) \/ Serve(c) \/ DockerRestart(c)
  <2>1. PICK c \in Container : Sdk(c) \/ Serve(c) \/ DockerRestart(c)
    BY <1>4
  <2>2. CASE DockerRestart(c)
    BY <2>2, BecomeType DEF DockerRestart, State, TypeOK
  <2> QED BY <2>1, <2>2, SdkType, ServeType
<1>5. CASE Age \/ CandidateAge
  BY <1>5, AgeType
<1>6. CASE Disturb
  BY <1>6, DisturbType
<1>7. CASE BootRead \/ Shutdown \/ Exit \/ KernelBoot
  BY <1>7, KernelType
<1>8. CASE UNCHANGED vars
  BY <1>8 DEF vars, TypeOK
<1> QED BY <1>1, <1>2, <1>3, <1>4, <1>5, <1>6, <1>7, <1>8 DEF Next

\* Every row, container, request in flight and goroutine has its type, and
\* the monitor's counters never pass their thresholds.
THEOREM TypeCorrect == Spec => []TypeOK
BY InitType, NextType, PTL DEF Spec

------------------------------------------------------------------------------
(* The image of a candidate.  The row's claim is not inductive alone: a     *)
(* deployment writes the container it created and the image it was asked   *)
(* for, long after it read the row, and goroutines carry copies of the     *)
(* candidate's columns that they may act on or write back.                 *)

Carries(c, img) == Exists(c) => ctr[c].image = img

\* A deployment that is about to write knows what it created.
DeployKnows(t) ==
  loc[t].op = "deploy" =>
    /\ loc[t].pc \in {"stale", "create", "commit"}
    /\ loc[t].pc = "commit" => Carries(loc[t].new, loc[t].copy.image)

ImagesKnown ==
  /\ Carries(row.ccid, row.cimage)
  /\ \A t \in Actor : Carries(loc[t].copy.ccid, loc[t].copy.cimage)
  /\ \A t \in Actor : DeployKnows(t)

IInv == TypeOK /\ ImagesKnown

\* What all but a few steps keep: containers that exist existed with the same
\* image, ...
ContainersKept ==
  \A c \in Container :
    ctr'[c].st # "none" => ctr[c].st # "none" /\ ctr'[c].image = ctr[c].image

\* ... the row's candidate columns stay or are cleared, ...
RowKept == row'.ccid = NoContainer \/ (row'.ccid = row.ccid /\ row'.cimage = row.cimage)

\* ... a copy's are empty, as before, or just read from the row, and only a
\* deployment already there is about to write.
LocKept(t) ==
  /\ \/ loc'[t].copy.ccid = NoContainer
     \/ loc'[t].copy = loc[t].copy
     \/ loc'[t].copy.ccid = row.ccid /\ loc'[t].copy.cimage = row.cimage
  /\ loc'[t].op = "deploy" =>
       \/ loc'[t].pc \in {"stale", "create"}
       \/ loc'[t] = loc[t]

Kept == ContainersKept /\ RowKept /\ \A t \in Actor : LocKept(t)

LEMMA KeptImages ==
  ASSUME IInv, Kept
  PROVE  ImagesKnown'
<1>1. ASSUME NEW c, NEW img, Carries(c, img)
      PROVE  Carries(c, img)'
  BY <1>1 DEF Carries, Exists, Kept, ContainersKept
<1>2. Carries(NoContainer, NoImage)' /\ \A img : Carries(NoContainer, img)'
  BY LifecycleAssumption DEF Carries, Exists
<1>3. Carries(row.ccid, row.cimage)'
  BY <1>1, <1>2 DEF IInv, ImagesKnown, Kept, RowKept
<1>4. ASSUME NEW t \in Actor
      PROVE  Carries(loc[t].copy.ccid, loc[t].copy.cimage)'
  BY <1>1, <1>2, <1>4 DEF IInv, ImagesKnown, Kept, LocKept
<1>5. ASSUME NEW t \in Actor
      PROVE  DeployKnows(t)'
  BY <1>1, <1>5 DEF IInv, ImagesKnown, Kept, LocKept, DeployKnows
<1> QED BY <1>3, <1>4, <1>5 DEF ImagesKnown

\* The candidate columns of the values an operation starts or ends with.
LEMMA CandidateColumns ==
  /\ NoRow.ccid = NoContainer
  /\ Idle.copy.ccid = NoContainer /\ Exiting.copy.ccid = NoContainer
  /\ \A img : InstalledRow(img).ccid = NoContainer
  /\ \A r \in Row : /\ ClearCandidate(r).ccid = NoContainer
                    /\ ImageOf(r).ccid = NoContainer
                    /\ Deployed(r).ccid = r.ccid /\ Deployed(r).cimage = r.cimage
                    /\ Checkable(r).ccid = NoContainer
                    /\ Forget(r).ccid = r.ccid /\ Forget(r).cimage = r.cimage
<1>1. NoRow.ccid = NoContainer
  BY DEF NoRow
<1>2. Idle.copy.ccid = NoContainer /\ Exiting.copy.ccid = NoContainer
  BY <1>1 DEF Idle, Exiting
<1>3. \A img : InstalledRow(img).ccid = NoContainer
  BY DEF InstalledRow, NoRow
<1>4. ASSUME NEW r \in Row
      PROVE  ClearCandidate(r).ccid = NoContainer
  BY DEF ClearCandidate, Row
<1>5. ASSUME NEW r \in Row
      PROVE  ImageOf(r).ccid = NoContainer
  BY DEF ImageOf, NoRow
<1>6. ASSUME NEW r \in Row
      PROVE  Deployed(r).ccid = r.ccid /\ Deployed(r).cimage = r.cimage
  BY DEF Deployed, ImageOf, NoRow
<1>7. ASSUME NEW r \in Row
      PROVE  Checkable(r).ccid = NoContainer
  BY DEF Checkable, NoRow
<1>8. ASSUME NEW r \in Row
      PROVE  Forget(r).ccid = r.ccid /\ Forget(r).cimage = r.cimage
  BY DEF Forget, Row
<1> QED BY <1>1, <1>2, <1>3, <1>4, <1>5, <1>6, <1>7, <1>8

\* An operation that begins knows no more of the candidate than the row.
LEMMA BeginKept ==
  ASSUME TypeOK, NEW a \in Admin, NEW op, NEW pc, NEW copy, Begin(a, op, pc, copy),
         op = "deploy" => pc = "stale",
         copy.ccid = NoContainer \/ (copy.ccid = row.ccid /\ copy.cimage = row.cimage)
  PROVE  Kept
<1>1. ASSUME NEW t \in Actor
      PROVE  LocKept(t)
  <2>1. CASE t = a
    <3>1. loc'[t] = [op |-> op, pc |-> pc, copy |-> copy, new |-> NoContainer]
      BY <2>1, <1>1 DEF Begin, TypeOK
    <3> QED BY <3>1 DEF LocKept
  <2>2. CASE t # a
    <3>1. loc'[t] = loc[t]
      BY <2>2, <1>1 DEF Begin, TypeOK
    <3> QED BY <3>1 DEF LocKept
  <2> QED BY <2>1, <2>2
<1> QED BY <1>1 DEF Begin, Kept, ContainersKept, RowKept

LEMMA RequestKept ==
  ASSUME TypeOK, NEW a \in Admin, Request(a)
  PROVE  Kept
<1> row \in Row
  BY DEF TypeOK
<1>1. CASE Enable(a) \/ Disable(a) \/ Restart(a) \/ SetDevMode(a) \/ Uninstall(a)
  BY <1>1, BeginKept, CandidateColumns DEF Enable, Disable, Restart, SetDevMode, Uninstall
<1>2. CASE Install(a)
  BY <1>2, CandidateColumns DEF Install, Kept, ContainersKept, RowKept, LocKept
<1>3. CASE DeployCandidate(a)
  <2>1. PICK img \in Image : Begin(a, "deploy", "stale", [NoRow EXCEPT !.image = img])
    BY <1>3 DEF DeployCandidate
  <2>2. [NoRow EXCEPT !.image = img].ccid = NoContainer
    BY DEF NoRow
  <2> QED BY <2>1, <2>2, BeginKept
<1>4. CASE PromoteCandidate(a) \/ DiscardCandidate(a)
  BY <1>4, BeginKept, CandidateColumns DEF PromoteCandidate, DiscardCandidate
<1>5. CASE RollbackPromoted(a)
  <2> DEFINE d == Deployed(row)
             e == [d EXCEPT !.image = row.pimage]
  <2>1. d \in Row /\ d.ccid = row.ccid /\ d.cimage = row.cimage
    BY ConstantTypes, CandidateColumns
  <2> HIDE DEF d
  <2>2. e.ccid = row.ccid /\ e.cimage = row.cimage
    BY <2>1 DEF Row
  <2>3. \E pc : Begin(a, "rollback", pc, e)
    BY <1>5 DEF RollbackPromoted, d
  <2> HIDE DEF e
  <2> QED BY <2>2, <2>3, BeginKept
<1> QED BY <1>1, <1>2, <1>3, <1>4, <1>5 DEF Request

\* A step that leaves the containers' images, the candidate columns and every
\* goroutine but one alone, whose goroutine keeps its copy or drops it.
LEMMA OneKept ==
  ASSUME TypeOK, NEW t \in Actor, NEW l, ContainersKept, RowKept,
         loc' = [loc EXCEPT ![t] = l],
         l.op = "deploy" => l.pc \in {"stale", "create"},
         \/ l.copy.ccid = NoContainer
         \/ l.copy = loc[t].copy
         \/ l.copy.ccid = row.ccid /\ l.copy.cimage = row.cimage
  PROVE  Kept
<1>1. ASSUME NEW u \in Actor
      PROVE  LocKept(u)
  <2>1. CASE u = t
    BY <2>1 DEF LocKept, TypeOK
  <2>2. CASE u # t
    BY <2>2, <1>1 DEF LocKept, TypeOK
  <2> QED BY <2>1, <2>2
<1> QED BY <1>1 DEF Kept

\* A goroutine that only moves on: to "commit" it cannot be a deployment.
LEMMA MoveKept ==
  ASSUME TypeOK, NEW t \in Actor, NEW pc, ContainersKept, RowKept,
         loc' = [loc EXCEPT ![t].pc = pc],
         loc[t].op = "deploy" => pc \in {"stale", "create"}
  PROVE  Kept
<1> DEFINE l == [loc[t] EXCEPT !.pc = pc]
<1>1. loc[t] \in Loc
  BY DEF TypeOK
<1>2. l.op = loc[t].op /\ l.pc = pc /\ l.copy = loc[t].copy
  BY <1>1 DEF Loc
<1>3. loc' = [loc EXCEPT ![t] = l]
  BY DEF TypeOK
<1> HIDE DEF l
<1> QED BY <1>2, <1>3, OneKept

LEMMA FinishKept ==
  ASSUME TypeOK, NEW t \in Actor, NEW op, NEW r, Finish(t, op, r),
         r.ccid = NoContainer \/ (r.ccid = row.ccid /\ r.cimage = row.cimage)
  PROVE  Kept
<1>1. ContainersKept /\ RowKept
  BY DEF Finish, Update, ContainersKept, RowKept
<1>2. Idle.op # "deploy" /\ loc' = [loc EXCEPT ![t] = Idle]
  BY DEF Finish, Idle
<1> QED BY <1>1, <1>2, OneKept, CandidateColumns

\* Every step of an operation but the creation of a container and the write
\* of a deployment is of this kind.
LEMMA AdvanceKept ==
  ASSUME IInv, NEW t \in Actor, Advance(t),
         ~Create(t), ~StartFails(t), ~FinishDeploy(t)
  PROVE  Kept
<1> TypeOK /\ row \in Row /\ loc[t] \in Loc /\ loc[t].copy \in Row
    /\ loc[t].new \in Container \cup {NoContainer}
  BY DEF IInv, TypeOK, Loc
<1>1. loc[t].op = "deploy" => loc[t].pc \in {"stale", "create", "commit"}
  BY DEF IInv, ImagesKnown, DeployKnows
<1>2. Started(t).ccid = row.ccid /\ Started(t).cimage = row.cimage
  BY DEF Started, Row
<1>3. Idle.op # "deploy" /\ Exiting.op # "deploy"
      /\ [Idle EXCEPT !.op = "monitor", !.pc = "cand"].op # "deploy"
      /\ [Idle EXCEPT !.op = "monitor", !.pc = "cand"].copy = Idle.copy
  BY DEF Idle, Exiting
<1>4. CASE Stop(t)
  <2>1. ContainersKept
    BY <1>4 DEF Stop, TypeOK, Docker, ContainersKept
  <2>2. RowKept
    BY <1>4 DEF Stop, RowKept
  <2>3. \E pc : loc' = [loc EXCEPT ![t].pc = pc]
    BY <1>4 DEF Stop
  <2> QED BY <1>1, <1>4, <2>1, <2>2, <2>3, MoveKept DEF Stop
<1>5. CASE Remove(t)
  <2>1. ContainersKept
    BY <1>5 DEF Remove, Removed, TypeOK, Docker, ContainersKept
  <2>2. RowKept
    BY <1>5 DEF Remove, RowKept
  <2> QED BY <1>1, <1>5, <2>1, <2>2, MoveKept DEF Remove
<1>6. CASE Clear(t)
  <2>1. ContainersKept
    BY <1>6 DEF Clear, ContainersKept
  <2>2. RowKept
    BY <1>6 DEF Clear, Update, RowKept, Row
  <2> QED BY <1>1, <1>6, <2>1, <2>2, MoveKept DEF Clear
<1>7. CASE RemoveStale(t)
  <2>1. ContainersKept
    BY <1>7 DEF RemoveStale, Removed, TypeOK, Docker, ContainersKept
  <2>2. RowKept
    BY <1>7 DEF RemoveStale, RowKept
  <2> QED BY <1>7, <2>1, <2>2, MoveKept DEF RemoveStale
<1>8. CASE CreateFails(t)
  <2>1. ContainersKept /\ RowKept
    BY <1>8 DEF CreateFails, ContainersKept, RowKept
  <2>2. CASE loc[t].op = "deploy"
    BY <1>8, <2>1, <2>2, <1>3, OneKept, CandidateColumns DEF CreateFails, Failed
  <2>3. CASE loc[t].op = "enable"
    BY <1>8, <2>1, <2>3, <1>3, OneKept, CandidateColumns DEF CreateFails, Failed
  <2>4. CASE loc[t].op \notin {"enable", "deploy"}
    BY <1>8, <2>1, <2>4, MoveKept DEF CreateFails, Failed
  <2> QED BY <2>2, <2>3, <2>4
<1>9. CASE RecordFailure(t)
  <2>1. ContainersKept
    BY <1>9 DEF RecordFailure, ContainersKept
  <2>2. RowKept
    BY <1>9 DEF RecordFailure, Update, RowKept, Row
  <2> QED BY <1>9, <2>1, <2>2, <1>3, OneKept, CandidateColumns DEF RecordFailure
<1>10. CASE FinishEnable(t)
  <2>1. Started(t) \in Row
    BY DEF Started, Row, Status
  <2>2. /\ [Started(t) EXCEPT !.enabled = TRUE].ccid = row.ccid
        /\ [Started(t) EXCEPT !.enabled = TRUE].cimage = row.cimage
    BY <1>2, <2>1 DEF Row
  <2> QED BY <1>10, <2>2, FinishKept DEF FinishEnable
<1>11. CASE FinishRestart(t) \/ FinishDevMode(t)
  BY <1>11, <1>2, FinishKept DEF FinishRestart, FinishDevMode
<1>12. CASE FinishDisable(t)
  <2> DEFINE r == [row EXCEPT !.cid = NoContainer, !.status = "stopped",
                              !.enabled = FALSE, !.host = NoHost]
  <2>1. r.ccid = row.ccid /\ r.cimage = row.cimage
    BY DEF Row
  <2>2. Finish(t, "disable", r)
    BY <1>12 DEF FinishDisable
  <2> HIDE DEF r
  <2> QED BY <2>1, <2>2, FinishKept
<1>13. CASE FinishUninstall(t)
  BY <1>13, CandidateColumns, FinishKept DEF FinishUninstall
<1>14. CASE FinishDiscard(t)
  BY <1>14, CandidateColumns, FinishKept DEF FinishDiscard
<1>15. CASE FinishPromote(t) \/ FinishRollback(t)
  <2> DEFINE r == ClearCandidate(row)
  <2>1. r \in Row /\ r.ccid = NoContainer
    BY ConstantTypes, CandidateColumns
  <2> HIDE DEF r
  <2>2. CASE FinishPromote(t)
    <3> DEFINE p == loc[t].copy
               s == [r EXCEPT !.pimage = p.image, !.cid = p.ccid, !.image = p.cimage,
                              !.host = p.chost, !.status = "running", !.seen = "fresh"]
    <3>1. Finish(t, "promote", s)
      BY <2>2 DEF FinishPromote, r
    <3>2. s.ccid = NoContainer
      BY <2>1 DEF Row
    <3> HIDE DEF s
    <3> QED BY <3>1, <3>2, FinishKept
  <2>3. CASE FinishRollback(t)
    <3> DEFINE s == [r EXCEPT !.cid = loc[t].new, !.image = loc[t].copy.image,
                              !.status = "running", !.host = NoHost,
                              !.seen = "zero", !.pimage = NoImage]
    <3>1. Finish(t, "rollback", s)
      BY <2>3 DEF FinishRollback, r
    <3>2. s.ccid = NoContainer
      BY <2>1 DEF Row
    <3> HIDE DEF s
    <3> QED BY <3>1, <3>2, FinishKept
  <2> QED BY <1>15, <2>2, <2>3
<1>16. CASE FinishBoot(t)
  <2>1. /\ [row EXCEPT !.cid = loc[t].new, !.cids = TRUE].ccid = row.ccid
        /\ [row EXCEPT !.cid = loc[t].new, !.cids = TRUE].cimage = row.cimage
    BY DEF Row
  <2> QED BY <1>16, <2>1, FinishKept DEF FinishBoot
<1>17. CASE FinishAutoRestart(t)
  <2> DEFINE s == [Started(t) EXCEPT !.host = NoHost, !.seen = "zero"]
  <2>1. s.ccid = row.ccid /\ s.cimage = row.cimage
    BY <1>2 DEF Started, Row
  <2> HIDE DEF s
  <2>2. ContainersKept /\ RowKept
    BY <1>17, <2>1 DEF FinishAutoRestart, Update, ContainersKept, RowKept, s
  <2> QED BY <1>17, <2>2, <1>3, OneKept, CandidateColumns DEF FinishAutoRestart
<1>18. CASE FinishAutoRollback(t)
  <2>1. ContainersKept /\ RowKept
    BY <1>18, CandidateColumns DEF FinishAutoRollback, ContainersKept, RowKept
  <2> QED BY <1>18, <2>1, <1>3, OneKept, CandidateColumns DEF FinishAutoRollback
<1>19. CASE FinishShutdown(t)
  <2>1. /\ [row EXCEPT !.cid = NoContainer, !.status = "stopped"].ccid = row.ccid
        /\ [row EXCEPT !.cid = NoContainer, !.status = "stopped"].cimage = row.cimage
    BY DEF Row
  <2>2. ContainersKept /\ RowKept
    BY <1>19, <2>1 DEF FinishShutdown, Update, ContainersKept, RowKept
  <2> QED BY <1>19, <2>2, <1>3, OneKept, CandidateColumns DEF FinishShutdown
<1> QED
  BY <1>4, <1>5, <1>6, <1>7, <1>8, <1>9, <1>10, <1>11, <1>12, <1>13, <1>14, <1>15,
     <1>16, <1>17, <1>18, <1>19 DEF Advance

\* A step of the monitor is of this kind: what it writes to the row is not
\* about the candidate.
LEMMA CheckedKept ==
  ASSUME TypeOK, "monitor" \in Actor, NEW r, NEW n, NEW restart, Checked(r, n, restart),
         r.ccid = row.ccid /\ r.cimage = row.cimage
  PROVE  Kept
<1> DEFINE l == [Idle EXCEPT !.op = "monitor", !.pc = IF restart THEN "restart" ELSE "cand"]
<1>1. l.op # "deploy" /\ l.copy = Idle.copy
  BY DEF Idle
<1>2. loc' = [loc EXCEPT !["monitor"] = l]
  BY DEF Checked
<1>3. ContainersKept /\ RowKept
  BY DEF Checked, Update, ContainersKept, RowKept
<1> HIDE DEF l
<1> QED BY <1>1, <1>2, <1>3, OneKept, CandidateColumns

LEMMA MonitorKept ==
  ASSUME TypeOK, MonitorStep
  PROVE  Kept
<1>1. "monitor" \in Background
  BY DEF MonitorStep, MonitorTick, CheckNoContainer, CheckStale, CheckContainer,
         Checking, AutoRestart, CheckCandidates, CheckCandidate
<1>2. "monitor" \in Actor
  BY <1>1, BackgroundActor
<1>3. row \in Row
  BY DEF TypeOK
<1> DEFINE Same(r) == r.ccid = row.ccid /\ r.cimage = row.cimage
<1>4. /\ Same(row) /\ Same(Forget(row))
      /\ Same([Forget(row) EXCEPT !.cid = NoContainer])
      /\ \A c : Same([row EXCEPT !.cid = c])
  <2>1. Same(Forget(row))
    BY <1>3, CandidateColumns
  <2>2. Forget(row) \in Row
    BY <1>3, ConstantTypes
  <2> QED BY <1>3, <2>1, <2>2 DEF Row
<1>5. ASSUME NEW r, r = row \/ \E c : r = [row EXCEPT !.cid = c], NEW s
      PROVE  Same(WithStatus(r, s))
  BY <1>3, <1>5 DEF WithStatus, Row
<1>6. CASE CheckNoContainer \/ CheckStale \/ CheckContainer
  <2>1. \E r, n, b : Checked(r, n, b) /\ Same(r)
    <3> DEFINE p == loc["monitor"].copy
               n == Count(fails, RestartThreshold)
               again == n = RestartThreshold
    <3> HIDE DEF n
    <3>1. CASE CheckNoContainer
      BY <3>1, <1>4 DEF CheckNoContainer, n
    <3>2. CASE CheckStale
      <4>1. \/ Checked(Forget(row), n, TRUE)
            \/ Checked(WithStatus(row, "unhealthy"), n, FALSE)
        BY <3>2 DEF CheckStale, n
      <4> QED BY <4>1, <1>4, <1>5
    <3>3. CASE CheckContainer
      <4>1. CASE p.cid = NoContainer
        BY <3>3, <4>1, <1>4 DEF CheckContainer
      <4>2. CASE p.cid # NoContainer
        <5>1. PICK h \in Inspect(p.cid) :
                CASE h = "gone" /\ Resolved # {} ->
                       \E c \in Resolved : \E actual \in HealthCheck(c) :
                         IF actual = "up" /\ p.host # NoHost
                           THEN Checked(WithStatus([row EXCEPT !.cid = c], "running"), 0, FALSE)
                           ELSE Checked([row EXCEPT !.cid = c], fails, FALSE)
                  [] h = "gone" /\ Resolved = {} ->
                       IF again THEN Checked([Forget(row) EXCEPT !.cid = NoContainer], n, TRUE)
                                ELSE Checked(WithStatus(row, "error"), n, FALSE)
                  [] h = "up" /\ p.host = NoHost ->
                       Checked(IF again THEN Forget(row) ELSE row, n, again)
                  [] h = "up" /\ p.host # NoHost ->
                       Checked(WithStatus(row, "running"), 0, FALSE)
                  [] h = "down" ->
                       Checked(IF again THEN Forget(row) ELSE WithStatus(row, "unhealthy"),
                               n, again)
          BY <3>3, <4>2 DEF CheckContainer, n
        <5>2. h \in {"gone", "up", "down"}
          BY DEF Inspect, HealthCheck
        <5>3. CASE h = "gone" /\ Resolved # {}
          <6>1. PICK c \in Resolved :
                  \/ Checked(WithStatus([row EXCEPT !.cid = c], "running"), 0, FALSE)
                  \/ Checked([row EXCEPT !.cid = c], fails, FALSE)
            BY <5>1, <5>3
          <6> QED BY <6>1, <1>4, <1>5
        <5>4. CASE h = "gone" /\ Resolved = {}
          BY <5>1, <5>4, <1>4, <1>5
        <5>5. CASE h = "up"
          BY <5>1, <5>5, <1>4, <1>5
        <5>6. CASE h = "down"
          BY <5>1, <5>6, <1>4, <1>5
        <5> QED BY <5>2, <5>3, <5>4, <5>5, <5>6
      <4> QED BY <4>1, <4>2
    <3> QED BY <1>6, <3>1, <3>2, <3>3
  <2> QED BY <1>2, <2>1, CheckedKept
<1>7. CASE MonitorTick \/ AutoRestart \/ CheckCandidates
  <2>1. ContainersKept /\ RowKept
    BY <1>7 DEF MonitorTick, AutoRestart, CheckCandidates, ContainersKept, RowKept
  <2>2. \E l : /\ loc' = [loc EXCEPT !["monitor"] = l]
               /\ l.op # "deploy"
               /\ l.copy.ccid = NoContainer \/ l.copy = row
    <3> DEFINE a == [Idle EXCEPT !.op = "monitor", !.pc = "check", !.copy = Checkable(row)]
               b == [Idle EXCEPT !.op = "monitor", !.pc = "cand"]
               c == [Idle EXCEPT !.op = "autorestart", !.pc = StopFirst(row),
                                 !.copy = ImageOf(row)]
               d == [Idle EXCEPT !.op = "monitor", !.pc = "ccheck", !.copy = row]
    <3>1. /\ a.op # "deploy" /\ a.copy = Checkable(row)
          /\ b.op # "deploy" /\ b.copy = Idle.copy
      BY DEF Idle
    <3>2. /\ c.op # "deploy" /\ c.copy = ImageOf(row)
          /\ d.op # "deploy" /\ d.copy = row
          /\ Idle.op # "deploy"
      BY DEF Idle
    <3>3. \E l \in {a, b, c, d, Idle} : loc' = [loc EXCEPT !["monitor"] = l]
      BY <1>7 DEF MonitorTick, AutoRestart, CheckCandidates
    <3> HIDE DEF a, b, c, d
    <3>4. PICK l \in {a, b, c, d, Idle} : loc' = [loc EXCEPT !["monitor"] = l]
      BY <3>3
    <3>5. l.op # "deploy" /\ (l.copy.ccid = NoContainer \/ l.copy = row)
      BY <1>3, <3>1, <3>2, CandidateColumns
    <3> QED BY <3>4, <3>5
  <2> QED BY <1>2, <2>1, <2>2, OneKept
<1>8. CASE CheckCandidate
  <2> DEFINE p == loc["monitor"].copy
  <2>1. ContainersKept /\ RowKept
    BY <1>3, <1>8 DEF CheckCandidate, Update, ContainersKept, RowKept, Row
  <2>2. \E l : /\ loc' = [loc EXCEPT !["monitor"] = l]
               /\ l.op # "deploy"
               /\ l.copy = Idle.copy \/ l.copy = p
    <3> DEFINE a == [Idle EXCEPT !.op = "autorollback", !.copy = p,
                       !.pc = IF p.ccid # NoContainer THEN "stop" ELSE "commit"]
    <3>1. a.op # "deploy" /\ a.copy = p /\ Idle.op # "deploy"
      BY DEF Idle
    <3>2. \E l \in {a, Idle} : loc' = [loc EXCEPT !["monitor"] = l]
      BY <1>8 DEF CheckCandidate
    <3> HIDE DEF a
    <3> QED BY <3>1, <3>2
  <2> QED BY <1>2, <2>1, <2>2, OneKept, CandidateColumns
<1> QED BY <1>6, <1>7, <1>8 DEF MonitorStep

\* So is a step of a container, of the clock, of a fault or of the kernel.
LEMMA OtherKept ==
  ASSUME TypeOK,
         \/ \E c \in Container : Sdk(c) \/ Serve(c) \/ DockerRestart(c)
         \/ Age \/ CandidateAge
         \/ \E c \in Container : Crash(c) \/ Hang(c) \/ Recover(c)
         \/ KernelCrash \/ Exit \/ KernelBoot \/ Shutdown
         \/ UNCHANGED vars
  PROVE  Kept
<1> row \in Row /\ ctr \in [Container -> Docker]
  BY DEF TypeOK
<1> DEFINE LocUnchanged == UNCHANGED loc
<1>1. LocUnchanged => \A t \in Actor : LocKept(t)
  BY DEF LocKept
<1>2. Die => Kept
  BY CandidateColumns DEF Die, Kept, ContainersKept, RowKept, LocKept, Idle
<1>3. ASSUME NEW c \in Container, NEW from, NEW to, Become(c, from, to),
             "none" \notin from
      PROVE  Kept
  BY <1>1, <1>3 DEF Become, Kept, ContainersKept, RowKept, Docker
<1>4. ASSUME NEW c \in Container, Sdk(c)
      PROVE  Kept
  BY <1>1, <1>4 DEF Sdk, SendRegister, SendHeartbeat, SendDeregister, Send,
                    Kept, ContainersKept, RowKept, Docker
<1>5. ASSUME NEW c \in Container, Serve(c)
      PROVE  Kept
  <2>1. ContainersKept
    <3>1. CASE SelfRegister(c)
      <4>1. ctr' = ctr \/ (ctr[c].st = "boot" /\ ctr' = [ctr EXCEPT ![c].st = "live"])
        BY <3>1 DEF SelfRegister
      <4> QED BY <4>1 DEF ContainersKept, Docker
    <3>2. CASE Heartbeat(c) \/ Deregister(c)
      BY <3>2 DEF Heartbeat, Deregister, ContainersKept
    <3> QED BY <1>5, <3>1, <3>2 DEF Serve
  <2>2. RowKept
    BY <1>5 DEF Serve, SelfRegister, Heartbeat, Deregister, Update, RowKept, Row
  <2>3. LocUnchanged
    BY <1>5 DEF Serve, SelfRegister, Heartbeat, Deregister
  <2> QED BY <1>1, <2>1, <2>2, <2>3 DEF Kept
<1>6. CASE Age \/ CandidateAge
  BY <1>1, <1>6 DEF Age, CandidateAge, Kept, ContainersKept, RowKept, Row
<1>7. CASE KernelBoot
  <2>1. ContainersKept /\ RowKept
    BY <1>7 DEF KernelBoot, ContainersKept, RowKept
  <2>2. ASSUME NEW t \in Actor
        PROVE  LocKept(t)
    BY <1>7, CandidateColumns DEF KernelBoot, LocKept, Idle
  <2> QED BY <2>1, <2>2 DEF Kept
<1>8. CASE Shutdown
  <2>1. ContainersKept /\ RowKept
    BY <1>8 DEF Shutdown, ContainersKept, RowKept
  <2>2. "shutdown" \in Actor
    BY <1>8, BackgroundActor DEF Shutdown
  <2> DEFINE s == [Exiting EXCEPT !.pc = "stop"]
  <2>3. s.op # "deploy" /\ s.copy = Exiting.copy /\ Exiting.op # "deploy"
    BY DEF Exiting
  <2>4. \E l \in {s, Exiting} : loc' = [loc EXCEPT !["shutdown"] = l]
    BY <1>8 DEF Shutdown
  <2> HIDE DEF s
  <2>5. PICK l \in {s, Exiting} : loc' = [loc EXCEPT !["shutdown"] = l]
    BY <2>4
  <2>6. l.op # "deploy" /\ l.copy.ccid = NoContainer
    BY <2>3, CandidateColumns
  <2> QED BY <2>1, <2>2, <2>5, <2>6, OneKept
<1>9. CASE UNCHANGED vars
  BY <1>1, <1>9 DEF vars, Kept, ContainersKept, RowKept
<1> QED
  BY <1>2, <1>3, <1>4, <1>5, <1>6, <1>7, <1>8, <1>9
     DEF KernelCrash, Exit, Crash, Hang, Recover, DockerRestart

LEMMA BootReadKept ==
  ASSUME IInv, BootRead
  PROVE  Kept
<1> TypeOK /\ row \in Row
  BY DEF IInv, TypeOK
<1>1. "boot" \in Actor
  BY BackgroundActor DEF BootRead
<1>2. ContainersKept /\ RowKept
  BY DEF BootRead, ContainersKept, RowKept
<1>3. loc["boot"] \in Loc /\ loc["boot"].op # "deploy"
  BY <1>1 DEF IInv, ImagesKnown, DeployKnows, BootRead, TypeOK
<1>4. CASE row.installed /\ row.enabled
  <2> DEFINE l == [loc["boot"] EXCEPT !.copy = ImageOf(row),
                     !.pc = IF row.cid # NoContainer \/ row.cids THEN "stop" ELSE "clear"]
  <2>1. l.op # "deploy" /\ l.copy = ImageOf(row)
    BY <1>3 DEF Loc
  <2>2. loc' = [loc EXCEPT !["boot"] = l]
    BY <1>1, <1>4 DEF BootRead, TypeOK
  <2> HIDE DEF l
  <2> QED BY <1>1, <1>2, <2>1, <2>2, OneKept, CandidateColumns
<1>5. CASE ~(row.installed /\ row.enabled)
  <2>1. loc' = [loc EXCEPT !["boot"] = Idle] /\ Idle.op # "deploy"
    BY <1>5 DEF BootRead, Idle
  <2> QED BY <1>1, <1>2, <2>1, OneKept, CandidateColumns
<1> QED BY <1>4, <1>5

LEMMA RemoveFailsKept ==
  ASSUME IInv, NEW t \in Actor, RemoveFails(t)
  PROVE  Kept
<1> TypeOK
  BY DEF IInv
<1>1. loc[t].op # "deploy"
  BY DEF IInv, ImagesKnown, DeployKnows, RemoveFails
<1>2. ContainersKept /\ RowKept
  BY DEF RemoveFails, ContainersKept, RowKept
<1>3. \/ loc' = [loc EXCEPT ![t] = Idle]
      \/ loc' = [loc EXCEPT ![t] = Exiting]
      \/ loc' = [loc EXCEPT ![t].pc = AfterRemove(t)]
  BY DEF RemoveFails
<1>4. Idle.op # "deploy" /\ Exiting.op # "deploy"
  BY DEF Idle, Exiting
<1> QED BY <1>1, <1>2, <1>3, <1>4, OneKept, MoveKept, CandidateColumns

\* The remaining steps: a container is created under an id that nothing
\* refers to, and a deployment writes what it created.
LEMMA NewContainer ==
  ASSUME IInv, NEW new \in FreshIds, NEW s, NEW slot, NEW img,
         ctr' = [ctr EXCEPT ![new] = [st |-> s, slot |-> slot, image |-> img]]
  PROVE  /\ new \in Container /\ new \notin Referenced
         /\ Carries(new, img)'
         /\ \A c, i : c # new /\ Carries(c, i) => Carries(c, i)'
<1>1. new \in Container /\ new \notin Referenced
  BY DEF FreshIds
<1>2. ctr'[new].image = img
  BY <1>1 DEF IInv, TypeOK
<1>3. \A c \in Container : c # new => ctr'[c] = ctr[c]
  BY DEF IInv, TypeOK
<1> QED BY <1>1, <1>2, <1>3 DEF Carries, Exists

LEMMA FreshReferences ==
  ASSUME NEW c, c \notin Referenced
  PROVE  /\ c # row.ccid
         /\ \A t \in Actor : c # loc[t].copy.ccid /\ c # loc[t].new
BY DEF Referenced

LEMMA CreateImages ==
  ASSUME IInv, NEW t \in Actor, Create(t) \/ StartFails(t)
  PROVE  ImagesKnown'
<1> TypeOK /\ loc[t] \in Loc
  BY DEF IInv, TypeOK
<1>1. PICK new \in FreshIds : new = NewId
  BY DEF Create, StartFails, NewId
<1>2. PICK img : img = loc[t].copy.image
  OBVIOUS
<1>3. \E s, slot :
        ctr' = [ctr EXCEPT ![new] = [st |-> s, slot |-> slot, image |-> img]]
  BY <1>1, <1>2 DEF Create, StartFails
<1>4. /\ new \in Container /\ new \notin Referenced
      /\ Carries(new, img)'
      /\ \A c, i : c # new /\ Carries(c, i) => Carries(c, i)'
  BY <1>3, NewContainer
<1>5. /\ new # row.ccid
      /\ \A u \in Actor : new # loc[u].copy.ccid /\ new # loc[u].new
  BY <1>4, FreshReferences
<1>6. /\ \A u \in Actor : u # t => loc'[u] = loc[u]
      /\ \/ loc'[t] = Idle
         \/ loc'[t] = [loc[t] EXCEPT !.pc = "fail"] /\ loc[t].op # "deploy"
         \/ loc'[t] = [loc[t] EXCEPT !.pc = "commit", !.new = new]
  BY <1>1 DEF Create, StartFails, Failed, TypeOK
<1>7. Carries(row.ccid, row.cimage)'
  <2>1. UNCHANGED row
    BY DEF Create, StartFails
  <2> QED BY <2>1, <1>4, <1>5 DEF IInv, ImagesKnown, Carries, Exists
<1>8. ASSUME NEW u \in Actor
      PROVE  Carries(loc[u].copy.ccid, loc[u].copy.cimage)'
  <2>1. loc'[u].copy = loc[u].copy \/ loc'[u].copy = Idle.copy
    BY <1>6 DEF Loc
  <2>2. CASE loc'[u].copy = loc[u].copy
    BY <2>2, <1>4, <1>5 DEF IInv, ImagesKnown, Carries
  <2>3. CASE loc'[u].copy = Idle.copy
    BY <2>3, CandidateColumns, LifecycleAssumption DEF Carries, Exists
  <2> QED BY <2>1, <2>2, <2>3
<1>9. ASSUME NEW u \in Actor
      PROVE  DeployKnows(u)'
  <2>1. CASE u # t
    <3>1. loc'[u] = loc[u] /\ new # loc[u].new
      BY <2>1, <1>5, <1>6
    <3>2. DeployKnows(u)
      BY DEF IInv, ImagesKnown
    <3>3. PICK d, i : d = loc[u].new /\ i = loc[u].copy.image
      OBVIOUS
    <3>4. Carries(d, i) => Carries(d, i)'
      BY <3>1, <3>3, <1>4
    <3> QED BY <3>1, <3>2, <3>3, <3>4 DEF DeployKnows
  <2>2. CASE loc'[u] = Idle
    BY <2>2 DEF DeployKnows, Idle
  <2>3. CASE u = t /\ loc'[t] = [loc[t] EXCEPT !.pc = "fail"] /\ loc[t].op # "deploy"
    BY <2>3 DEF DeployKnows, Loc
  <2>4. CASE u = t /\ loc'[t] = [loc[t] EXCEPT !.pc = "commit", !.new = new]
    <3>1. loc'[t].pc = "commit" /\ loc'[t].new = new /\ loc'[t].copy.image = img
      BY <2>4, <1>2 DEF Loc
    <3> QED BY <2>4, <3>1, <1>4 DEF DeployKnows, Carries
  <2> QED BY <1>6, <2>1, <2>2, <2>3, <2>4
<1> QED BY <1>7, <1>8, <1>9 DEF ImagesKnown

LEMMA DeployImages ==
  ASSUME IInv, NEW t \in Actor, FinishDeploy(t)
  PROVE  ImagesKnown'
<1> TypeOK /\ row \in Row /\ loc[t] \in Loc
  BY DEF IInv, TypeOK
<1> DEFINE r == ClearCandidate(row)
           s == [r EXCEPT !.ccid = loc[t].new, !.cimage = loc[t].copy.image]
<1>1. r \in Row
  BY ConstantTypes
<1> HIDE DEF r
<1>2. s.ccid = loc[t].new /\ s.cimage = loc[t].copy.image
  BY <1>1 DEF Row
<1>3. loc[t].pc = "commit" /\ loc[t].op = "deploy" /\ UNCHANGED ctr
      /\ loc' = [loc EXCEPT ![t] = Idle]
  BY DEF FinishDeploy, Finish
<1>4. row' = s \/ row' = row
  BY DEF FinishDeploy, Finish, Update, r
<1> HIDE DEF s
<1>5. \A c, i : Carries(c, i)' <=> Carries(c, i)
  BY <1>3 DEF Carries, Exists
<1>6. Carries(row.ccid, row.cimage)'
  BY <1>2, <1>3, <1>4, <1>5 DEF IInv, ImagesKnown, DeployKnows, Carries
<1>7. ASSUME NEW u \in Actor
      PROVE  Carries(loc[u].copy.ccid, loc[u].copy.cimage)' /\ DeployKnows(u)'
  <2>1. CASE u = t
    <3>1. loc'[u] = Idle
      BY <1>3, <2>1 DEF TypeOK
    <3> QED BY <3>1, CandidateColumns, LifecycleAssumption
            DEF Carries, Exists, DeployKnows, Idle
  <2>2. CASE u # t
    <3>1. loc'[u] = loc[u]
      BY <1>3, <2>2 DEF TypeOK
    <3> QED BY <3>1, <1>3, <1>7 DEF IInv, ImagesKnown, DeployKnows, Carries, Exists
  <2> QED BY <2>1, <2>2
<1> QED BY <1>6, <1>7 DEF ImagesKnown

LEMMA InitImages == Init => IInv
<1> SUFFICES ASSUME Init PROVE ImagesKnown
  BY InitType DEF IInv
<1>1. \A c, i : Carries(c, i)
  BY DEF Init, Carries, Exists
<1>2. \A t \in Actor : loc[t].op # "deploy"
  BY DEF Init, Idle
<1> QED BY <1>1, <1>2 DEF ImagesKnown, DeployKnows

LEMMA NextImages == IInv /\ [Next]_vars => IInv'
<1> SUFFICES ASSUME IInv, [Next]_vars PROVE ImagesKnown'
  BY NextType DEF IInv
<1> TypeOK
  BY DEF IInv
<1>1. CASE \E a \in Admin : Request(a)
  BY <1>1, RequestKept, KeptImages
<1>2. CASE \E t \in Actor : Advance(t)
  <2>1. PICK t \in Actor : Advance(t)
    BY <1>2
  <2>2. CASE Create(t) \/ StartFails(t)
    BY <2>2, CreateImages
  <2>3. CASE FinishDeploy(t)
    BY <2>3, DeployImages
  <2>4. CASE ~Create(t) /\ ~StartFails(t) /\ ~FinishDeploy(t)
    BY <2>1, <2>4, AdvanceKept, KeptImages
  <2> QED BY <2>2, <2>3, <2>4
<1>3. CASE MonitorStep
  BY <1>3, MonitorKept, KeptImages
<1>4. CASE BootRead
  BY <1>4, BootReadKept, KeptImages
<1>5. CASE Disturb
  <2>1. CASE \E t \in Actor : RemoveFails(t)
    BY <2>1, RemoveFailsKept, KeptImages
  <2>2. CASE \/ \E c \in Container : Crash(c) \/ Hang(c) \/ Recover(c)
             \/ KernelCrash
    BY <2>2, OtherKept, KeptImages
  <2> QED BY <1>5, <2>1, <2>2 DEF Disturb
<1>6. CASE \/ \E c \in Container : Sdk(c) \/ Serve(c) \/ DockerRestart(c)
           \/ Age \/ CandidateAge \/ Shutdown \/ Exit \/ KernelBoot
           \/ UNCHANGED vars
  BY <1>6, OtherKept, KeptImages
<1> QED BY <1>1, <1>2, <1>3, <1>4, <1>5, <1>6 DEF Next

\* Whatever requests, crashes and restarts interleave, while the container
\* the row names as its candidate exists, the row names the image it runs:
\* promoting the candidate never records an image that is not running.
THEOREM CandidateImage == Spec => []CandidateImageAgrees
<1>1. IInv => CandidateImageAgrees
  BY DEF IInv, ImagesKnown, Carries, CandidateImageAgrees
<1> QED BY <1>1, InitImages, NextImages, PTL DEF Spec
------------------------------------------------------------------------------
(* The two names of a plugin's containers.  While nothing is promoted, the  *)
(* row's own container has the primary name and its candidate the other:   *)
(* so do the columns that goroutines copied long ago, and what they have   *)
(* created and not yet written.                                            *)

NoPromotion == "promote" \notin Requests

Primary(c) == Exists(c) => ctr[c].slot = "primary"
Second(c)  == Exists(c) => ctr[c].slot = "candidate"

\* The columns of a row, or of a copy of it.
Sound(r) ==
  /\ r.host # "candidate"
  /\ r.pimage = NoImage
  /\ Primary(r.cid)
  /\ Second(r.ccid)

\* A goroutine that works on the candidate never comes to a step that acts on
\* the primary name.
Steady(l) ==
  /\ Sound(l.copy)
  /\ IF l.op = "deploy" THEN Second(l.new) ELSE Primary(l.new)
  /\ l.op \notin {"promote", "rollback"}
  /\ l.op = "deploy" => l.pc \in {"stale", "create", "commit"}
  /\ l.op \in {"discard", "autorollback"} => l.pc \in {"stop", "remove", "commit"}

Apart == Sound(row) /\ \A t \in Actor : Steady(loc[t])
AInv == TypeOK /\ Apart

\* Containers that exist existed, under the same name.
Shrinks ==
  \A c \in Container :
    ctr'[c].st # "none" => ctr[c].st # "none" /\ ctr'[c].slot = ctr[c].slot

LEMMA ColumnsSound ==
  /\ Sound(NoRow) /\ Sound(Idle.copy) /\ Sound(Exiting.copy)
  /\ \A img : Sound(InstalledRow(img)) /\ Sound([NoRow EXCEPT !.image = img])
  /\ \A r \in Row : Sound(ImageOf(r))
  /\ \A r \in Row : Sound(r) => /\ Sound(ClearCandidate(r)) /\ Sound(Deployed(r))
                                /\ Sound(Checkable(r)) /\ Sound(Forget(r))
<1> USE DEF NoHost
<1>1. Primary(NoContainer) /\ Second(NoContainer)
  BY LifecycleAssumption DEF Primary, Second, Exists
<1>2. Sound(NoRow) /\ Sound(Idle.copy) /\ Sound(Exiting.copy)
  BY <1>1 DEF Sound, NoRow, Idle, Exiting
<1>3. ASSUME NEW img
      PROVE  Sound(InstalledRow(img)) /\ Sound([NoRow EXCEPT !.image = img])
  BY <1>1 DEF Sound, InstalledRow, NoRow
<1>4. ASSUME NEW r \in Row
      PROVE  Sound(ImageOf(r))
  BY <1>1 DEF Sound, ImageOf, NoRow
<1>5. ASSUME NEW r \in Row, Sound(r)
      PROVE  Sound(ClearCandidate(r))
  BY <1>1, <1>5 DEF Sound, ClearCandidate, Row
<1>6. ASSUME NEW r \in Row, Sound(r)
      PROVE  Sound(Deployed(r))
  BY <1>1, <1>6 DEF Sound, Deployed, ImageOf, NoRow
<1>7. ASSUME NEW r \in Row, Sound(r)
      PROVE  Sound(Checkable(r))
  BY <1>1, <1>7 DEF Sound, Checkable, NoRow
<1>8. ASSUME NEW r \in Row, Sound(r)
      PROVE  Sound(Forget(r))
  BY <1>1, <1>8 DEF Sound, Forget, Row
<1> QED BY <1>2, <1>3, <1>4, <1>5, <1>6, <1>7, <1>8

\* What was true of columns and goroutines stays true when containers go.
LEMMA ShrinksSound ==
  ASSUME Shrinks
  PROVE  /\ \A c : (Primary(c) => Primary(c)') /\ (Second(c) => Second(c)')
         /\ \A r \in Row : Sound(r) => Sound(r)'
BY DEF Shrinks, Primary, Second, Exists, Sound

\* A step that creates nothing keeps the names apart, if what it writes to the
\* row and to its own goroutine keeps them apart.
LEMMA ApartStep ==
  ASSUME AInv, Shrinks, Sound(row'),
         \A t \in Actor : loc'[t] = loc[t] \/ Steady(loc'[t])
  PROVE  Apart'
<1>1. \A c : (Primary(c) => Primary(c)') /\ (Second(c) => Second(c)')
  BY ShrinksSound
<1>2. Sound(row)'
  BY <1>1 DEF Sound
<1>3. ASSUME NEW t \in Actor
      PROVE  Steady(loc[t])'
  <2>1. Steady(loc'[t])
    <3>1. CASE loc'[t] = loc[t]
      BY <3>1 DEF AInv, Apart
    <3> QED BY <3>1
  <2> QED BY <2>1, <1>1 DEF Steady, Sound
<1> QED BY <1>2, <1>3 DEF Apart

LEMMA ApartOne ==
  ASSUME AInv, Shrinks, Sound(row'), NEW t \in Actor, NEW l, Steady(l),
         loc' = [loc EXCEPT ![t] = l]
  PROVE  Apart'
<1>1. \A u \in Actor : loc'[u] = loc[u] \/ Steady(loc'[u])
  BY DEF AInv, TypeOK
<1> QED BY <1>1, ApartStep

LEMMA ApartMove ==
  ASSUME AInv, Shrinks, Sound(row'), NEW t \in Actor, NEW pc,
         loc' = [loc EXCEPT ![t].pc = pc],
         loc[t].op = "deploy" => pc \in {"stale", "create", "commit"},
         loc[t].op \in {"discard", "autorollback"} => pc \in {"stop", "remove", "commit"}
  PROVE  Apart'
<1> DEFINE l == [loc[t] EXCEPT !.pc = pc]
<1>1. loc[t] \in Loc /\ Steady(loc[t])
  BY DEF AInv, Apart, TypeOK
<1>2. l.op = loc[t].op /\ l.pc = pc /\ l.copy = loc[t].copy /\ l.new = loc[t].new
  BY <1>1 DEF Loc
<1>3. loc' = [loc EXCEPT ![t] = l]
  BY DEF AInv, TypeOK
<1> HIDE DEF l
<1>4. Steady(l)
  BY <1>1, <1>2 DEF Steady
<1> QED BY <1>3, <1>4, ApartOne

\* A goroutine that has ended, or works for the monitor and holds nothing.
LEMMA AtRest ==
  /\ Steady(Idle) /\ Steady(Exiting)
  /\ \A pc : Steady([Idle EXCEPT !.op = "monitor", !.pc = pc])
<1>1. Primary(NoContainer)
  BY LifecycleAssumption DEF Primary, Exists
<1>2. Sound(NoRow)
  BY ColumnsSound
<1> QED BY <1>1, <1>2 DEF Steady, Idle, Exiting

LEMMA BeginApart ==
  ASSUME AInv, NEW a \in Admin, NEW op, NEW pc, NEW copy, Begin(a, op, pc, copy),
         Sound(copy), op \notin {"promote", "rollback"},
         op = "deploy" => pc = "stale",
         op \in {"discard", "autorollback"} => pc = "stop"
  PROVE  Apart'
<1> DEFINE l == [op |-> op, pc |-> pc, copy |-> copy, new |-> NoContainer]
<1>1. Primary(NoContainer) /\ Second(NoContainer)
  BY LifecycleAssumption DEF Primary, Second, Exists
<1>2. Steady(l)
  BY <1>1 DEF Steady
<1>3. loc' = [loc EXCEPT ![a] = l] /\ a \in Actor /\ UNCHANGED <<row, ctr>>
  BY DEF Begin, Actor
<1> HIDE DEF l
<1>4. Shrinks /\ Sound(row')
  BY <1>3 DEF Shrinks, AInv, Apart
<1> QED BY <1>2, <1>3, <1>4, ApartOne

LEMMA RequestApart ==
  ASSUME NoPromotion, AInv, NEW a \in Admin, Request(a)
  PROVE  Apart'
<1> row \in Row /\ Sound(row)
  BY DEF AInv, Apart, TypeOK
<1>1. CASE Enable(a) \/ Disable(a) \/ Restart(a) \/ SetDevMode(a) \/ Uninstall(a)
  BY <1>1, BeginApart, ColumnsSound DEF Enable, Disable, Restart, SetDevMode, Uninstall
<1>2. CASE Install(a)
  <2>1. Shrinks /\ Sound(row') /\ UNCHANGED loc
    BY <1>2, ColumnsSound DEF Install, Shrinks
  <2> QED BY <2>1, ApartStep
<1>3. CASE DeployCandidate(a)
  BY <1>3, BeginApart, ColumnsSound DEF DeployCandidate
<1>4. CASE PromoteCandidate(a)
  BY <1>4 DEF PromoteCandidate, NoPromotion
<1>5. CASE DiscardCandidate(a)
  BY <1>5, BeginApart, ColumnsSound DEF DiscardCandidate
<1>6. CASE RollbackPromoted(a)
  BY <1>6 DEF RollbackPromoted, Sound
<1> QED BY <1>1, <1>2, <1>3, <1>4, <1>5, <1>6 DEF Request

LEMMA FinishApart ==
  ASSUME AInv, NEW t \in Actor, NEW op, NEW r, Finish(t, op, r), Sound(r)
  PROVE  Apart'
<1>1. Shrinks /\ Sound(row')
  BY DEF Finish, Update, Shrinks, AInv, Apart
<1> QED BY <1>1, ApartOne, AtRest DEF Finish

\* Every step of an operation but the creation of a container.
LEMMA AdvanceApart ==
  ASSUME AInv, NEW t \in Actor, Advance(t), ~Create(t), ~StartFails(t)
  PROVE  Apart'
<1> TypeOK /\ row \in Row /\ Sound(row) /\ loc[t] \in Loc /\ loc[t].copy \in Row
    /\ Steady(loc[t]) /\ Sound(loc[t].copy)
  BY DEF AInv, Apart, Steady, TypeOK, Loc
<1> Primary(NoContainer) /\ Second(NoContainer)
  BY LifecycleAssumption DEF Primary, Second, Exists
<1>1. UNCHANGED row => Sound(row')
  OBVIOUS
<1>2. UNCHANGED ctr => Shrinks
  BY DEF Shrinks
<1>3. CASE Stop(t)
  <2>1. Shrinks
    BY <1>3 DEF Stop, TypeOK, Docker, Shrinks
  <2>2. loc' = [loc EXCEPT ![t].pc = IF loc[t].pc = "stop" THEN "remove" ELSE "remove2"]
        /\ UNCHANGED row
    BY <1>3 DEF Stop
  <2>3. loc[t].op # "deploy" /\ (loc[t].op \in {"discard", "autorollback"} => loc[t].pc = "stop")
    BY <1>3 DEF Stop, Steady
  <2> QED BY <1>1, <2>1, <2>2, <2>3, ApartMove
<1>4. CASE Remove(t)
  <2>1. Shrinks
    BY <1>4 DEF Remove, Removed, TypeOK, Docker, Shrinks
  <2>2. loc[t].op # "deploy"
    BY <1>4 DEF Remove, Steady
  <2>3. loc[t].op \in {"discard", "autorollback"} => AfterRemove(t) = "commit"
    BY DEF AfterRemove
  <2> QED BY <1>1, <1>4, <2>1, <2>2, <2>3, ApartMove DEF Remove
<1>5. CASE Clear(t)
  <2>1. Sound([row EXCEPT !.host = NoHost])
    BY DEF Sound, Row, NoHost
  <2>2. Sound([row EXCEPT !.cid = NoContainer, !.status = "running",
                          !.host = NoHost, !.seen = "zero"])
    BY DEF Sound, Row, NoHost
  <2>3. Sound(row') /\ Shrinks
    BY <1>2, <1>5, <2>1, <2>2 DEF Clear, Update
  <2>4. loc[t].op # "deploy" /\ loc[t].op \notin {"discard", "autorollback"}
    BY <1>5 DEF Clear, Steady
  <2> QED BY <1>5, <2>3, <2>4, ApartMove DEF Clear
<1>6. CASE RemoveStale(t)
  <2>1. Shrinks
    BY <1>6 DEF RemoveStale, Removed, TypeOK, Docker, Shrinks
  <2>2. loc[t].op \notin {"discard", "autorollback"}
    BY <1>6 DEF RemoveStale, Steady
  <2> QED BY <1>1, <1>6, <2>1, <2>2, ApartMove DEF RemoveStale
<1>7. CASE CreateFails(t)
  <2>1. loc[t].op \notin {"discard", "autorollback"}
    BY <1>7 DEF CreateFails, Steady
  <2>2. CASE loc[t].op \in {"enable", "deploy"}
    BY <1>1, <1>2, <1>7, <2>2, AtRest, ApartOne DEF CreateFails, Failed
  <2>3. CASE loc[t].op \notin {"enable", "deploy"}
    BY <1>1, <1>2, <1>7, <2>1, <2>3, ApartMove DEF CreateFails, Failed
  <2> QED BY <2>2, <2>3
<1>8. CASE RecordFailure(t)
  <2>1. Sound([row EXCEPT !.cid = NoContainer, !.status = "error"])
    BY DEF Sound, Row
  <2>2. Sound(row') /\ Shrinks
    BY <1>2, <1>8, <2>1 DEF RecordFailure, Update
  <2> QED BY <1>8, <2>2, AtRest, ApartOne DEF RecordFailure
<1>9. loc[t].op # "deploy" => Primary(loc[t].new)
  BY DEF Steady
<1> DEFINE s == Started(t)
<1>10. s \in Row /\ (loc[t].op # "deploy" => Sound(s))
  BY <1>9 DEF Started, Sound, Row, Loc, Status
<1> HIDE DEF s
<1>11. CASE FinishEnable(t)
  <2>1. loc[t].op = "enable"
    BY <1>11 DEF FinishEnable, Finish
  <2>2. Sound([s EXCEPT !.enabled = TRUE])
    BY <1>10, <2>1 DEF Sound, Row
  <2> QED BY <1>11, <2>2, FinishApart DEF FinishEnable, s
<1>12. CASE FinishRestart(t) \/ FinishDevMode(t)
  <2>1. loc[t].op \in {"restart", "devmode"}
    BY <1>12 DEF FinishRestart, FinishDevMode, Finish
  <2> QED BY <1>10, <1>12, <2>1, FinishApart DEF FinishRestart, FinishDevMode, s
<1>13. CASE FinishDisable(t)
  <2> DEFINE r == [row EXCEPT !.cid = NoContainer, !.status = "stopped",
                              !.enabled = FALSE, !.host = NoHost]
  <2>1. Sound(r)
    BY DEF Sound, Row, NoHost
  <2>2. Finish(t, "disable", r)
    BY <1>13 DEF FinishDisable
  <2> HIDE DEF r
  <2> QED BY <2>1, <2>2, FinishApart
<1>14. CASE FinishUninstall(t)
  BY <1>14, ColumnsSound, FinishApart DEF FinishUninstall
<1>15. CASE FinishDeploy(t)
  <2> DEFINE r == ClearCandidate(row)
             d == [r EXCEPT !.ccid = loc[t].new, !.cimage = loc[t].copy.image]
  <2>1. r \in Row /\ Sound(r)
    BY ConstantTypes, ColumnsSound
  <2>2. Second(loc[t].new)
    BY <1>15 DEF FinishDeploy, Finish, Steady
  <2>3. Finish(t, "deploy", d)
    BY <1>15 DEF FinishDeploy
  <2> HIDE DEF r
  <2>4. Sound(d)
    BY <2>1, <2>2 DEF Sound, Row
  <2> HIDE DEF d
  <2> QED BY <2>3, <2>4, FinishApart
<1>16. CASE FinishPromote(t) \/ FinishRollback(t)
  BY <1>16 DEF FinishPromote, FinishRollback, Finish, Steady
<1>17. CASE FinishDiscard(t)
  BY <1>17, ColumnsSound, FinishApart DEF FinishDiscard
<1>18. CASE FinishBoot(t)
  <2>1. loc[t].op = "boot"
    BY <1>18 DEF FinishBoot, Finish
  <2>2. Sound([row EXCEPT !.cid = loc[t].new, !.cids = TRUE])
    BY <1>9, <2>1 DEF Sound, Row
  <2> QED BY <1>18, <2>2, FinishApart DEF FinishBoot
<1>19. CASE FinishAutoRestart(t)
  <2>1. loc[t].op = "autorestart"
    BY <1>19 DEF FinishAutoRestart
  <2>2. Sound([s EXCEPT !.host = NoHost, !.seen = "zero"])
    BY <1>10, <2>1 DEF Sound, Row, NoHost
  <2>3. Sound(row') /\ Shrinks
    BY <1>2, <1>19, <2>2 DEF FinishAutoRestart, Update, s
  <2> QED BY <1>19, <2>3, AtRest, ApartOne DEF FinishAutoRestart
<1>20. CASE FinishAutoRollback(t)
  <2>1. Sound(row') /\ Shrinks
    BY <1>2, <1>20, ColumnsSound DEF FinishAutoRollback
  <2> QED BY <1>20, <2>1, AtRest, ApartOne DEF FinishAutoRollback
<1>21. CASE FinishShutdown(t)
  <2>1. Sound([row EXCEPT !.cid = NoContainer, !.status = "stopped"])
    BY DEF Sound, Row
  <2>2. Sound(row') /\ Shrinks
    BY <1>2, <1>21, <2>1 DEF FinishShutdown, Update
  <2> QED BY <1>21, <2>2, AtRest, ApartOne DEF FinishShutdown
<1> QED
  BY <1>3, <1>4, <1>5, <1>6, <1>7, <1>8, <1>11, <1>12, <1>13, <1>14, <1>15, <1>16,
     <1>17, <1>18, <1>19, <1>20, <1>21 DEF Advance

LEMMA CheckedApart ==
  ASSUME AInv, "monitor" \in Actor, NEW r, NEW n, NEW restart, Checked(r, n, restart), Sound(r)
  PROVE  Apart'
<1>1. Shrinks /\ Sound(row')
  BY DEF Checked, Update, Shrinks, AInv, Apart
<1> QED BY <1>1, AtRest, ApartOne DEF Checked

\* What a check writes to the row: the row itself, without an address, or with
\* the container that holds the primary name.
LEMMA CheckWrites ==
  ASSUME AInv, CheckNoContainer \/ CheckStale \/ CheckContainer
  PROVE  \E r, n, b : Checked(r, n, b) /\ Sound(r)
<1> row \in Row /\ Sound(row)
  BY DEF AInv, Apart, TypeOK
<1> DEFINE p == loc["monitor"].copy
           n == Count(fails, RestartThreshold)
           again == n = RestartThreshold
<1> HIDE DEF n
<1>1. Primary(NoContainer) /\ \A c \in Resolved : Primary(c)
  BY LifecycleAssumption DEF Resolved, Holder, Primary, Exists
<1>2. Forget(row) \in Row /\ Sound(Forget(row))
  BY ConstantTypes, ColumnsSound
<1>3. Sound([Forget(row) EXCEPT !.cid = NoContainer])
  BY <1>1, <1>2 DEF Sound, Row
<1>4. ASSUME NEW c \in Resolved
      PROVE  [row EXCEPT !.cid = c] \in Row /\ Sound([row EXCEPT !.cid = c])
  <2>1. c \in Container
    BY DEF Resolved, Holder
  <2> QED BY <1>1, <2>1 DEF Sound, Row
<1>5. ASSUME NEW r \in Row, Sound(r), NEW s
      PROVE  Sound(WithStatus(r, s))
  BY <1>5 DEF WithStatus, Row, Sound
<1>6. CASE CheckNoContainer
  BY <1>6 DEF CheckNoContainer
<1>7. CASE CheckStale
  <2>1. \/ Checked(Forget(row), n, TRUE)
        \/ Checked(WithStatus(row, "unhealthy"), n, FALSE)
    BY <1>7 DEF CheckStale, n
  <2> QED BY <2>1, <1>2, <1>5
<1>8. CASE CheckContainer
  <2>1. CASE p.cid = NoContainer
    BY <1>8, <2>1 DEF CheckContainer
  <2>2. CASE p.cid # NoContainer
    <3>1. PICK h \in Inspect(p.cid) :
            CASE h = "gone" /\ Resolved # {} ->
                   \E c \in Resolved : \E actual \in HealthCheck(c) :
                     IF actual = "up" /\ p.host # NoHost
                       THEN Checked(WithStatus([row EXCEPT !.cid = c], "running"), 0, FALSE)
                       ELSE Checked([row EXCEPT !.cid = c], fails, FALSE)
              [] h = "gone" /\ Resolved = {} ->
                   IF again THEN Checked([Forget(row) EXCEPT !.cid = NoContainer], n, TRUE)
                            ELSE Checked(WithStatus(row, "error"), n, FALSE)
              [] h = "up" /\ p.host = NoHost ->
                   Checked(IF again THEN Forget(row) ELSE row, n, again)
              [] h = "up" /\ p.host # NoHost ->
                   Checked(WithStatus(row, "running"), 0, FALSE)
              [] h = "down" ->
                   Checked(IF again THEN Forget(row) ELSE WithStatus(row, "unhealthy"),
                           n, again)
      BY <1>8, <2>2 DEF CheckContainer, n
    <3>2. h \in {"gone", "up", "down"}
      BY DEF Inspect, HealthCheck
    <3>3. CASE h = "gone" /\ Resolved # {}
      <4>1. PICK c \in Resolved :
              \/ Checked(WithStatus([row EXCEPT !.cid = c], "running"), 0, FALSE)
              \/ Checked([row EXCEPT !.cid = c], fails, FALSE)
        BY <3>1, <3>3
      <4> QED BY <4>1, <1>4, <1>5
    <3>4. CASE h = "gone" /\ Resolved = {}
      BY <3>1, <3>4, <1>3, <1>5
    <3>5. CASE h = "up"
      BY <3>1, <3>5, <1>2, <1>5
    <3>6. CASE h = "down"
      BY <3>1, <3>6, <1>2, <1>5
    <3> QED BY <3>2, <3>3, <3>4, <3>5, <3>6
  <2> QED BY <2>1, <2>2
<1> QED BY <1>6, <1>7, <1>8

LEMMA MonitorApart ==
  ASSUME AInv, MonitorStep
  PROVE  Apart'
<1>1. "monitor" \in Background
  BY DEF MonitorStep, MonitorTick, CheckNoContainer, CheckStale, CheckContainer,
         Checking, AutoRestart, CheckCandidates, CheckCandidate
<1>2. "monitor" \in Actor
  BY <1>1, BackgroundActor
<1>3. row \in Row /\ Sound(row) /\ Sound(loc["monitor"].copy)
  BY <1>2 DEF AInv, Apart, Steady, TypeOK
<1>4. Primary(NoContainer)
  BY LifecycleAssumption DEF Primary, Exists
<1>5. CASE CheckNoContainer \/ CheckStale \/ CheckContainer
  BY <1>2, <1>5, CheckWrites, CheckedApart
<1>6. CASE MonitorTick \/ AutoRestart \/ CheckCandidates
  <2>1. Shrinks /\ Sound(row')
    BY <1>3, <1>6 DEF MonitorTick, AutoRestart, CheckCandidates, Shrinks
  <2>2. \E l : loc' = [loc EXCEPT !["monitor"] = l] /\ Steady(l)
    <3> DEFINE a == [Idle EXCEPT !.op = "monitor", !.pc = "check", !.copy = Checkable(row)]
               b == [Idle EXCEPT !.op = "monitor", !.pc = "cand"]
               c == [Idle EXCEPT !.op = "autorestart", !.pc = StopFirst(row),
                                 !.copy = ImageOf(row)]
               d == [Idle EXCEPT !.op = "monitor", !.pc = "ccheck", !.copy = row]
    <3>1. Steady(a) /\ Steady(c)
      BY <1>3, <1>4, ColumnsSound DEF Steady, Idle
    <3>2. Steady(b) /\ Steady(Idle)
      BY AtRest
    <3>3. Steady(d)
      BY <1>3, <1>4 DEF Steady, Idle
    <3>4. \E l \in {a, b, c, d, Idle} : loc' = [loc EXCEPT !["monitor"] = l]
      BY <1>6 DEF MonitorTick, AutoRestart, CheckCandidates
    <3> HIDE DEF a, b, c, d
    <3> QED BY <3>1, <3>2, <3>3, <3>4
  <2> QED BY <1>2, <2>1, <2>2, ApartOne
<1>7. CASE CheckCandidate
  <2> DEFINE p == loc["monitor"].copy
             a == [Idle EXCEPT !.op = "autorollback", !.copy = p,
                     !.pc = IF p.ccid # NoContainer THEN "stop" ELSE "commit"]
  <2>1. Sound([row EXCEPT !.chealthy = FALSE])
    BY <1>3 DEF Sound, Row
  <2>2. Shrinks /\ Sound(row')
    BY <1>3, <1>7, <2>1 DEF CheckCandidate, Update, Shrinks
  <2>3. Steady(a) /\ Steady(Idle)
    BY <1>3, <1>4, AtRest DEF Steady, Idle
  <2>4. \E l \in {a, Idle} : loc' = [loc EXCEPT !["monitor"] = l]
    BY <1>7 DEF CheckCandidate
  <2> HIDE DEF a
  <2> QED BY <1>2, <2>2, <2>3, <2>4, ApartOne
<1> QED BY <1>5, <1>6, <1>7 DEF MonitorStep

LEMMA BootReadApart ==
  ASSUME AInv, BootRead
  PROVE  Apart'
<1>1. "boot" \in Actor
  BY BackgroundActor DEF BootRead
<1>2. Shrinks /\ Sound(row') /\ row \in Row
  BY DEF BootRead, Shrinks, AInv, Apart, TypeOK
<1>3. loc["boot"] \in Loc /\ Steady(loc["boot"])
      /\ loc["boot"].op \notin {"deploy", "discard", "autorollback"}
  BY <1>1 DEF AInv, Apart, Steady, TypeOK, BootRead
<1>4. CASE row.installed /\ row.enabled
  <2> DEFINE l == [loc["boot"] EXCEPT !.copy = ImageOf(row),
                     !.pc = IF row.cid # NoContainer \/ row.cids THEN "stop" ELSE "clear"]
  <2>1. l.op = loc["boot"].op /\ l.new = loc["boot"].new /\ l.copy = ImageOf(row)
    BY <1>3 DEF Loc
  <2>2. loc' = [loc EXCEPT !["boot"] = l]
    BY <1>1, <1>4 DEF BootRead, AInv, TypeOK
  <2> HIDE DEF l
  <2>3. Steady(l)
    BY <1>2, <1>3, <2>1, ColumnsSound DEF Steady
  <2> QED BY <1>1, <1>2, <2>2, <2>3, ApartOne
<1>5. CASE ~(row.installed /\ row.enabled)
  BY <1>1, <1>2, <1>5, AtRest, ApartOne DEF BootRead
<1> QED BY <1>4, <1>5

LEMMA RemoveFailsApart ==
  ASSUME AInv, NEW t \in Actor, RemoveFails(t)
  PROVE  Apart'
<1>1. loc[t].op # "deploy"
  BY DEF AInv, Apart, Steady, RemoveFails
<1>2. Shrinks /\ Sound(row')
  BY DEF RemoveFails, Shrinks, AInv, Apart
<1>3. loc[t].op \in {"discard", "autorollback"} => AfterRemove(t) = "commit"
  BY DEF AfterRemove
<1>4. \/ loc' = [loc EXCEPT ![t] = Idle]
      \/ loc' = [loc EXCEPT ![t] = Exiting]
      \/ loc' = [loc EXCEPT ![t].pc = AfterRemove(t)]
  BY DEF RemoveFails
<1> QED BY <1>1, <1>2, <1>3, <1>4, AtRest, ApartOne, ApartMove

LEMMA OtherApart ==
  ASSUME AInv,
         \/ \E c \in Container : Sdk(c) \/ Serve(c) \/ DockerRestart(c)
         \/ Age \/ CandidateAge
         \/ \E c \in Container : Crash(c) \/ Hang(c) \/ Recover(c)
         \/ KernelCrash \/ Exit \/ KernelBoot \/ Shutdown
         \/ UNCHANGED vars
  PROVE  Apart'
<1> row \in Row /\ Sound(row) /\ ctr \in [Container -> Docker]
  BY DEF AInv, Apart, TypeOK
<1>1. UNCHANGED ctr => Shrinks
  BY DEF Shrinks
<1>2. CASE KernelCrash \/ Exit
  <2>1. Die
    BY <1>2 DEF KernelCrash, Exit
  <2> QED BY <1>1, <2>1, AtRest, ApartStep DEF Die
<1>3. ASSUME NEW c \in Container, NEW from, NEW to, Become(c, from, to),
             "none" \notin from
      PROVE  Apart'
  <2>1. Shrinks
    BY <1>3 DEF Become, Shrinks, Docker
  <2> QED BY <1>3, <2>1, ApartStep DEF Become
<1>4. ASSUME NEW c \in Container, Sdk(c)
      PROVE  Apart'
  <2>1. Shrinks
    BY <1>4 DEF Sdk, SendRegister, SendHeartbeat, SendDeregister, Shrinks, Docker
  <2>2. UNCHANGED <<row, loc>>
    BY <1>4 DEF Sdk, SendRegister, SendHeartbeat, SendDeregister, Send
  <2> QED BY <2>1, <2>2, ApartStep
<1>5. ASSUME NEW c \in Container, Serve(c)
      PROVE  Apart'
  <2>1. ctr[c].slot \in Slot
    BY DEF Docker
  <2>2. Shrinks
    <3>1. CASE SelfRegister(c)
      <4>1. ctr' = ctr \/ (ctr[c].st = "boot" /\ ctr' = [ctr EXCEPT ![c].st = "live"])
        BY <3>1 DEF SelfRegister
      <4> QED BY <4>1 DEF Shrinks, Docker
    <3>2. CASE Heartbeat(c) \/ Deregister(c)
      BY <1>1, <3>2 DEF Heartbeat, Deregister
    <3> QED BY <1>5, <3>1, <3>2 DEF Serve
  <2>3. Sound(row')
    <3>1. CASE SelfRegister(c)
      BY <2>1, <3>1 DEF SelfRegister, Update, IsCandidate, Slot, Sound, Row
    <3>2. CASE Heartbeat(c)
      BY <3>2 DEF Heartbeat, Update, Sound, Row
    <3>3. CASE Deregister(c)
      BY <3>3 DEF Deregister, Update, Sound, Row, NoHost
    <3> QED BY <1>5, <3>1, <3>2, <3>3 DEF Serve
  <2>4. UNCHANGED loc
    BY <1>5 DEF Serve, SelfRegister, Heartbeat, Deregister
  <2> QED BY <2>2, <2>3, <2>4, ApartStep
<1>6. CASE Age \/ CandidateAge
  <2>1. Sound(row')
    BY <1>6 DEF Age, CandidateAge, Sound, Row
  <2> QED BY <1>1, <1>6, <2>1, ApartStep DEF Age, CandidateAge
<1>7. CASE KernelBoot
  <2>1. Steady([Idle EXCEPT !.op = "boot", !.pc = "read"])
    BY AtRest DEF Steady, Idle
  <2>2. \A t \in Actor : Steady(loc'[t])
    BY <1>7, <2>1, AtRest DEF KernelBoot
  <2> QED BY <1>1, <1>7, <2>2, ApartStep DEF KernelBoot
<1>8. CASE Shutdown
  <2>1. "shutdown" \in Actor
    BY <1>8, BackgroundActor DEF Shutdown
  <2> DEFINE s == [Exiting EXCEPT !.pc = "stop"]
  <2>2. Steady(s) /\ Steady(Exiting)
    BY AtRest DEF Steady, Exiting
  <2>3. \E l \in {s, Exiting} : loc' = [loc EXCEPT !["shutdown"] = l]
    BY <1>8 DEF Shutdown
  <2> HIDE DEF s
  <2> QED BY <1>1, <1>8, <2>1, <2>2, <2>3, ApartOne DEF Shutdown
<1>9. CASE UNCHANGED vars
  BY <1>1, <1>9, ApartStep DEF vars
<1> QED
  BY <1>2, <1>3, <1>4, <1>5, <1>6, <1>7, <1>8, <1>9
     DEF Crash, Hang, Recover, DockerRestart

\* A container is created under an id that nothing refers to, with the name
\* that belongs to the operation.
LEMMA CreateApart ==
  ASSUME AInv, NEW t \in Actor, Create(t) \/ StartFails(t)
  PROVE  Apart'
<1> TypeOK /\ loc[t] \in Loc /\ Steady(loc[t])
  BY DEF AInv, Apart, TypeOK
<1>1. PICK new \in FreshIds : new = NewId
  BY DEF Create, StartFails, NewId
<1>2. PICK slot : slot = SlotOf(loc[t].op)
  OBVIOUS
<1>3. \E s, img :
        ctr' = [ctr EXCEPT ![new] = [st |-> s, slot |-> slot, image |-> img]]
  BY <1>1, <1>2 DEF Create, StartFails
<1>4. new \in Container /\ new \notin Referenced
  BY DEF FreshIds
<1>5. ctr'[new].slot = slot /\ \A c \in Container : c # new => ctr'[c] = ctr[c]
  BY <1>3, <1>4 DEF TypeOK
<1>6. \A c : c # new => /\ Primary(c) => Primary(c)'
                        /\ Second(c) => Second(c)'
  BY <1>5 DEF Primary, Second, Exists
<1>7. IF loc[t].op = "deploy" THEN Second(new)' ELSE Primary(new)'
  BY <1>2, <1>5 DEF SlotOf, Primary, Second
<1>8. /\ new # row.cid /\ new # row.ccid
      /\ \A u \in Actor : new # loc[u].copy.cid /\ new # loc[u].copy.ccid /\ new # loc[u].new
  BY <1>4 DEF Referenced
<1>9. Sound(row)'
  <2>1. UNCHANGED row
    BY DEF Create, StartFails
  <2> QED BY <2>1, <1>6, <1>8 DEF AInv, Apart, Sound
<1>10. /\ \A u \in Actor : u # t => loc'[u] = loc[u]
       /\ \/ loc'[t] = Idle
          \/ loc'[t] = [loc[t] EXCEPT !.pc = "fail"] /\ loc[t].op \notin {"enable", "deploy"}
          \/ loc'[t] = [loc[t] EXCEPT !.pc = "commit", !.new = new]
       /\ loc[t].pc = "create"
  BY <1>1 DEF Create, StartFails, Failed, TypeOK
<1>11. Primary(NoContainer)' /\ Second(NoContainer)'
  BY LifecycleAssumption DEF Primary, Second, Exists
<1>12. ASSUME NEW u \in Actor
       PROVE  Steady(loc[u])'
  <2>1. Steady(loc[u])
    BY DEF AInv, Apart
  <2>2. Sound(loc[u].copy)'
    <3>1. CASE loc'[u].copy = loc[u].copy
      BY <1>6, <1>8, <2>1, <3>1 DEF Steady, Sound
    <3>2. CASE loc'[u] = Idle
      BY <1>11, <3>2 DEF Sound, Idle, NoRow, NoHost
    <3>3. loc'[u].copy = loc[u].copy \/ loc'[u] = Idle
      <4>1. /\ [loc[t] EXCEPT !.pc = "fail"].copy = loc[t].copy
            /\ [loc[t] EXCEPT !.pc = "commit", !.new = new].copy = loc[t].copy
        BY DEF Loc
      <4> QED BY <1>10, <4>1
    <3> QED BY <3>1, <3>2, <3>3
  <2>3. CASE u # t
    <3>1. loc'[u] = loc[u] /\ new # loc[u].new
      BY <2>3, <1>8, <1>10
    <3>2. IF loc[u].op = "deploy" THEN Second(loc[u].new)' ELSE Primary(loc[u].new)'
      <4>1. PICK d : d = loc[u].new
        OBVIOUS
      <4>2. /\ Primary(d) => Primary(d)'
            /\ Second(d) => Second(d)'
        BY <1>6, <3>1, <4>1
      <4>3. IF loc[u].op = "deploy" THEN Second(d) ELSE Primary(d)
        BY <2>1, <4>1 DEF Steady
      <4> QED BY <3>1, <4>1, <4>2, <4>3 DEF Primary, Second
    <3> QED BY <2>1, <2>2, <3>1, <3>2 DEF Steady
  <2>4. CASE loc'[u] = Idle
    BY <2>2, <2>4, <1>11 DEF Steady, Idle, Primary, Second
  <2>5. CASE u = t /\ loc'[t] = [loc[t] EXCEPT !.pc = "fail"]
                   /\ loc[t].op \notin {"enable", "deploy"}
    <3>1. loc'[t].op = loc[t].op /\ loc'[t].new = loc[t].new
      BY <2>5 DEF Loc
    <3>2. loc[t].op \notin {"discard", "autorollback", "deploy"} /\ Primary(loc[t].new)
      BY <1>10, <2>5 DEF Steady
    <3>3. Primary(loc[t].new)'
      <4>1. PICK d : d = loc[t].new
        OBVIOUS
      <4>2. Primary(d) => Primary(d)'
        BY <1>6, <1>8, <4>1
      <4> QED BY <3>1, <3>2, <4>1, <4>2 DEF Primary
    <3> QED BY <2>1, <2>2, <2>5, <3>1, <3>2, <3>3 DEF Steady
  <2>6. CASE u = t /\ loc'[t] = [loc[t] EXCEPT !.pc = "commit", !.new = new]
    <3>1. loc'[t].op = loc[t].op /\ loc'[t].pc = "commit" /\ loc'[t].new = new
      BY <2>6 DEF Loc
    <3>2. IF loc[t].op = "deploy" THEN Second(loc[t].new)' ELSE Primary(loc[t].new)'
      BY <1>7, <3>1 DEF Primary, Second
    <3> QED BY <2>1, <2>2, <2>6, <3>1, <3>2 DEF Steady
  <2> QED BY <1>10, <2>3, <2>4, <2>5, <2>6
<1> QED BY <1>9, <1>12 DEF Apart

LEMMA InitApart == Init => AInv
<1> SUFFICES ASSUME Init PROVE Apart
  BY InitType DEF AInv
<1>1. \A c : Primary(c) /\ Second(c)
  BY DEF Init, Primary, Second, Exists
<1>2. Sound(row)
  BY <1>1 DEF Init, InstalledRow, NoRow, Sound, NoHost
<1>3. \A t \in Actor : Steady(loc[t])
  BY <1>1 DEF Init, Idle, NoRow, Steady, Sound, NoHost
<1> QED BY <1>2, <1>3 DEF Apart

LEMMA NextApart == NoPromotion /\ AInv /\ [Next]_vars => AInv'
<1> SUFFICES ASSUME NoPromotion, AInv, [Next]_vars PROVE Apart'
  BY NextType DEF AInv
<1>1. CASE \E a \in Admin : Request(a)
  BY <1>1, RequestApart
<1>2. CASE \E t \in Actor : Advance(t)
  BY <1>2, CreateApart, AdvanceApart
<1>3. CASE MonitorStep
  BY <1>3, MonitorApart
<1>4. CASE BootRead
  BY <1>4, BootReadApart
<1>5. CASE Disturb
  BY <1>5, RemoveFailsApart, OtherApart DEF Disturb
<1>6. CASE \/ \E c \in Container : Sdk(c) \/ Serve(c) \/ DockerRestart(c)
           \/ Age \/ CandidateAge \/ Shutdown \/ Exit \/ KernelBoot
           \/ UNCHANGED vars
  BY <1>6, OtherApart
<1> QED BY <1>1, <1>2, <1>3, <1>4, <1>5, <1>6 DEF Next

\* The address of a plugin never leads to its candidate before a promotion:
\* with any number of administrators, whatever the monitor, the boot and
\* failures do (deploy.go:14, plugin_registration.go:132).
THEOREM AddressIsolated ==
  ASSUME NoPromotion
  PROVE  Spec => []CandidateIsolated
<1>1. AInv => CandidateIsolated
  <2> SUFFICES ASSUME AInv, NEW c \in Holder(row.host), c = row.ccid
               PROVE  FALSE
    BY DEF CandidateIsolated
  <2>1. c \in Container /\ ctr[c].st # "none" /\ ctr[c].slot = row.host
    BY DEF Holder
  <2>2. ctr[c].slot = "candidate" /\ row.host # "candidate"
    BY <2>1 DEF AInv, Apart, Sound, Second, Exists
  <2> QED BY <2>1, <2>2
<1>2. NoPromotion /\ AInv /\ [Next]_vars => AInv'
  BY NextApart
<1> QED BY <1>1, <1>2, InitApart, NoPromotion, PTL DEF Spec

\* A step of a goroutine that works on the candidate leaves the row's own
\* container alone: its stop and its removal go by the id it copied, and the
\* name it frees is the candidate's.
LEMMA StableStep ==
  ASSUME AInv, [Next]_vars, NEW t \in Actor,
         loc[t].op \in {"deploy", "discard", "autorollback"}, loc'[t] # loc[t],
         Exists(row.cid)
  PROVE  ctr'[row.cid] = ctr[row.cid]
<1>1. row.cid \in Container /\ ctr[row.cid].slot = "primary" /\ ctr[row.cid].st # "none"
  BY DEF Exists, AInv, Apart, Sound, Primary
<1>2. loc[t] \in Loc /\ Steady(loc[t]) /\ ctr \in [Container -> Docker] /\ loc \in [Actor -> Loc]
  BY DEF AInv, Apart, TypeOK
<1>3. row.cid \notin Victims(t) \/ loc[t].op = "deploy"
  <2>1. loc[t].op \in {"discard", "autorollback"} => Victims(t) = {loc[t].copy.ccid} \cap Container
    BY DEF Victims
  <2>2. row.cid # loc[t].copy.ccid
    BY <1>1, <1>2 DEF Steady, Sound, Second, Exists
  <2> QED BY <2>1, <2>2
<1>4. row.cid \notin FreshIds
  BY <1>1 DEF FreshIds
<1>5. ASSUME NEW u \in Actor, Stop(u) \/ Remove(u) \/ RemoveStale(u) \/ Create(u) \/ StartFails(u)
      PROVE  ctr'[row.cid] = ctr[row.cid]
  <2>1. u = t
    BY <1>2, <1>5 DEF Stop, Remove, RemoveStale, Create, StartFails, Failed
  <2>2. CASE Stop(t) \/ Remove(t)
    <3>1. row.cid \notin Victims(t)
      BY <2>2, <1>2, <1>3 DEF Stop, Remove, Steady
    <3> QED BY <1>1, <2>2, <3>1 DEF Stop, Remove
  <2>3. CASE RemoveStale(t)
    <3>1. loc[t].op = "deploy"
      BY <2>3, <1>2 DEF RemoveStale, Steady
    <3>2. row.cid \notin Holder(SlotOf(loc[t].op))
      BY <1>1, <3>1 DEF SlotOf, Holder
    <3> QED BY <1>1, <2>3, <3>2 DEF RemoveStale
  <2>4. CASE Create(t) \/ StartFails(t)
    <3>1. NewId # row.cid
      BY <2>4, <1>4 DEF Create, StartFails, NewId
    <3>2. PICK new : new = NewId
      OBVIOUS
    <3>3. \E k : ctr' = [ctr EXCEPT ![new] = k]
      BY <2>4, <3>2 DEF Create, StartFails
    <3> QED BY <1>1, <1>2, <3>1, <3>2, <3>3
  <2> QED BY <1>5, <2>1, <2>2, <2>3, <2>4
<1>6. CASE UNCHANGED ctr
  BY <1>6
<1>7. CASE UNCHANGED loc
  BY <1>7
<1>8. (\E a \in Admin : Request(a)) => UNCHANGED ctr
  BY DEF Request, Enable, Disable, Restart, SetDevMode, Install, Uninstall, DeployCandidate,
         PromoteCandidate, DiscardCandidate, RollbackPromoted, Begin
<1>9. ASSUME NEW u \in Actor, Advance(u),
             ~(Stop(u) \/ Remove(u) \/ RemoveStale(u) \/ Create(u) \/ StartFails(u))
      PROVE  UNCHANGED ctr
  BY <1>9 DEF Advance, Clear, CreateFails, RecordFailure, FinishEnable, FinishDisable,
              FinishRestart, FinishDevMode, FinishUninstall, FinishDeploy, FinishPromote,
              FinishDiscard, FinishRollback, FinishBoot, FinishAutoRestart,
              FinishAutoRollback, FinishShutdown, Finish
<1>10. MonitorStep => UNCHANGED ctr
  <2>1. CheckNoContainer \/ CheckStale \/ CheckContainer => UNCHANGED ctr
    BY CheckWrites DEF Checked
  <2> QED BY <2>1 DEF MonitorStep, MonitorTick, AutoRestart, CheckCandidates, CheckCandidate
<1>11. BootRead \/ Age \/ CandidateAge \/ Shutdown \/ Exit \/ KernelBoot => UNCHANGED ctr
  BY DEF BootRead, Age, CandidateAge, Shutdown, Exit, Die, KernelBoot
<1>12. Disturb => UNCHANGED ctr \/ UNCHANGED loc
  BY DEF Disturb, RemoveFails, Crash, Hang, Recover, Become, KernelCrash, Die
<1>13. (\E c \in Container : Sdk(c) \/ Serve(c) \/ DockerRestart(c)) => UNCHANGED loc
  BY DEF Sdk, SendRegister, SendHeartbeat, SendDeregister, Send, Serve, SelfRegister,
         Heartbeat, Deregister, DockerRestart, Become
<1>14. UNCHANGED vars => UNCHANGED loc
  BY DEF vars
<1> QED
  BY <1>5, <1>6, <1>7, <1>8, <1>9, <1>10, <1>11, <1>12, <1>13, <1>14 DEF Next

\* Deploying, discarding and rolling back a candidate leave the container of
\* the stable version as it is (deploy.go:14, 192, monitor.go:343): in any order with
\* the steps of other administrators, the monitor and the boot.
THEOREM StableLeftAlone ==
  ASSUME NoPromotion
  PROVE  Spec => StableUntouched
<1>1. AInv /\ [Next]_vars =>
        [\A t \in Actor :
           /\ loc[t].op \in {"deploy", "discard", "autorollback"}
           /\ loc'[t] # loc[t]
           /\ Exists(row.cid)
           => ctr'[row.cid] = ctr[row.cid]]_vars
  BY StableStep
<1>2. NoPromotion /\ AInv /\ [Next]_vars => AInv'
  BY NextApart
<1> QED BY <1>1, <1>2, InitApart, NoPromotion, PTL DEF Spec, StableUntouched

------------------------------------------------------------------------------
(* The image of the plugin's own container, when one administrator works at *)
(* a time and neither the monitor nor the boot does.  Two operations at     *)
(* once, one of which rolls back, leave the row with the image of the one   *)
(* and the container of the other.                                          *)

OneAdmin == \A a, b \in Admin : a = b
Unattended == Background \subseteq {"shutdown"}

\* The operations that start the image they read in the row.
StartsOwn == {"enable", "restart", "devmode"}

\* What a goroutine t in the state l has created runs the image it read, and
\* that is the row's unless it is about to change it.
Works(t, l, img) ==
  /\ l.op \in Operations \cup {"none", "discard", "shutdown"}
  /\ l.op \notin {"none", "shutdown"} => t \in Admin
  /\ l.op \in StartsOwn => l.copy.image = img
  /\ l.op \in StartsOwn \cup {"rollback"} => Carries(l.new, l.copy.image)

OwnImage ==
  /\ Carries(row.cid, row.image)
  /\ \A t \in Actor : Works(t, loc[t], row.image)

BInv == IInv /\ OwnImage

LEMMA OwnRest ==
  /\ \A img : Carries(NoContainer, img)
  /\ \A t, img : Works(t, Idle, img) /\ Works(t, Exiting, img)
BY LifecycleAssumption DEF Carries, Exists, Works, Idle, Exiting, StartsOwn

\* A step of one goroutine that creates nothing, and that changes the row's
\* image only if it is the administrator's.
LEMMA OwnStep ==
  ASSUME OneAdmin, BInv, ContainersKept, Carries(row'.cid, row'.image),
         NEW t \in Actor, NEW l, loc' = [loc EXCEPT ![t] = l], Works(t, l, row'.image),
         row'.image = row.image \/ t \in Admin
  PROVE  OwnImage'
<1>1. \A c, img : Carries(c, img) => Carries(c, img)'
  BY DEF Carries, Exists, ContainersKept
<1>2. Carries(row.cid, row.image)'
  BY <1>1 DEF Carries, Exists, ContainersKept
<1>3. ASSUME NEW u \in Actor
      PROVE  Works(u, loc'[u], row'.image)
  <2>1. CASE u = t
    BY <2>1 DEF BInv, IInv, TypeOK
  <2>2. CASE u # t
    <3>1. loc'[u] = loc[u] /\ Works(u, loc[u], row.image)
      BY <2>2 DEF BInv, IInv, OwnImage, TypeOK
    <3>2. CASE row'.image = row.image
      BY <3>1, <3>2
    <3>3. CASE t \in Admin
      BY <2>2, <3>1, <3>3 DEF OneAdmin, Works, StartsOwn
    <3> QED BY <3>2, <3>3
  <2> QED BY <2>1, <2>2
<1>4. ASSUME NEW u \in Actor
      PROVE  Works(u, loc[u], row.image)'
  BY <1>1, <1>3 DEF Works, Carries, Exists, ContainersKept
<1> QED BY <1>2, <1>4 DEF OwnImage

\* The same when no goroutine moves and the row's image stays.
LEMMA OwnSame ==
  ASSUME BInv, ContainersKept, UNCHANGED loc, row'.cid = row.cid, row'.image = row.image
  PROVE  OwnImage'
BY DEF BInv, OwnImage, Works, Carries, Exists, ContainersKept

LEMMA OwnMove ==
  ASSUME OneAdmin, BInv, ContainersKept, Carries(row'.cid, row'.image), NEW t \in Actor,
         NEW pc, loc' = [loc EXCEPT ![t].pc = pc], row'.image = row.image
  PROVE  OwnImage'
<1> DEFINE l == [loc[t] EXCEPT !.pc = pc]
<1>1. loc[t] \in Loc /\ Works(t, loc[t], row.image)
  BY DEF BInv, IInv, OwnImage, TypeOK
<1>2. l.op = loc[t].op /\ l.copy = loc[t].copy /\ l.new = loc[t].new
  BY <1>1 DEF Loc
<1>3. loc' = [loc EXCEPT ![t] = l]
  BY DEF BInv, IInv, TypeOK
<1> HIDE DEF l
<1>4. Works(t, l, row'.image)
  BY <1>1, <1>2 DEF Works
<1> QED BY <1>3, <1>4, OwnStep

LEMMA BeginOwn ==
  ASSUME OneAdmin, BInv, NEW a \in Admin, NEW op \in Operations \cup {"discard"}, NEW pc,
         NEW copy, Begin(a, op, pc, copy), op \in StartsOwn => copy.image = row.image
  PROVE  OwnImage'
<1> DEFINE l == [op |-> op, pc |-> pc, copy |-> copy, new |-> NoContainer]
<1>1. Works(a, l, row.image)
  BY OwnRest DEF Works
<1>2. a \in Actor /\ loc' = [loc EXCEPT ![a] = l] /\ UNCHANGED <<row, ctr>>
  BY DEF Begin, Actor
<1> HIDE DEF l
<1>3. ContainersKept /\ Carries(row'.cid, row'.image)
  BY <1>2 DEF ContainersKept, BInv, OwnImage
<1> QED BY <1>1, <1>2, <1>3, OwnStep

LEMMA RequestOwn ==
  ASSUME OneAdmin, BInv, NEW a \in Admin, Request(a)
  PROVE  OwnImage'
<1> USE DEF Operations
<1>1. ImageOf(row).image = row.image
  BY DEF ImageOf, NoRow
<1>2. CASE Enable(a) \/ Disable(a) \/ Restart(a) \/ SetDevMode(a) \/ Uninstall(a)
  BY <1>1, <1>2, BeginOwn DEF Enable, Disable, Restart, SetDevMode, Uninstall, StartsOwn
<1>3. CASE Install(a)
  <2>1. PICK img \in Image : row' = InstalledRow(img)
    BY <1>3 DEF Install
  <2>2. Carries(row'.cid, row'.image)
    BY <2>1, OwnRest DEF InstalledRow, NoRow
  <2>3. a \in Actor /\ loc' = [loc EXCEPT ![a] = Idle] /\ ContainersKept
    BY <1>3 DEF Install, Actor, BInv, IInv, TypeOK, ContainersKept
  <2> QED BY <2>2, <2>3, OwnRest, OwnStep
<1>4. CASE DeployCandidate(a) \/ PromoteCandidate(a) \/ DiscardCandidate(a)
  BY <1>4, BeginOwn DEF DeployCandidate, PromoteCandidate, DiscardCandidate, StartsOwn
<1>5. CASE RollbackPromoted(a)
  BY <1>5, BeginOwn DEF RollbackPromoted, StartsOwn
<1> QED BY <1>2, <1>3, <1>4, <1>5 DEF Request

LEMMA FinishOwn ==
  ASSUME OneAdmin, BInv, NEW t \in Actor, NEW op, NEW r, Finish(t, op, r),
         Carries(r.cid, r.image), r.image = row.image \/ t \in Admin
  PROVE  OwnImage'
<1>1. ContainersKept /\ loc' = [loc EXCEPT ![t] = Idle] /\ (row' = r \/ row' = row)
  BY DEF Finish, Update, ContainersKept
<1>2. Carries(row'.cid, row'.image) /\ (row'.image = row.image \/ t \in Admin)
  BY <1>1 DEF BInv, OwnImage
<1> QED BY <1>1, <1>2, OwnRest, OwnStep

\* The writes at the end of the operations.
LEMMA FinishesOwn ==
  ASSUME OneAdmin, BInv, NEW t \in Actor,
         \/ FinishEnable(t) \/ FinishDisable(t) \/ FinishRestart(t) \/ FinishDevMode(t)
         \/ FinishUninstall(t) \/ FinishDeploy(t) \/ FinishPromote(t)
         \/ FinishDiscard(t) \/ FinishRollback(t) \/ FinishBoot(t)
         \/ FinishAutoRestart(t) \/ FinishAutoRollback(t) \/ FinishShutdown(t)
  PROVE  OwnImage'
<1> row \in Row /\ loc[t] \in Loc /\ loc[t].copy \in Row /\ Works(t, loc[t], row.image)
    /\ Carries(row.cid, row.image)
  BY DEF BInv, IInv, OwnImage, TypeOK, Loc
<1> USE DEF Operations
<1>1. loc[t].op \in StartsOwn => Carries(loc[t].new, row.image)
  BY DEF Works
<1> DEFINE s == Started(t)
<1>2. s \in Row /\ s.cid = loc[t].new /\ s.image = row.image
  BY DEF Started, Row, Loc, Status
<1> HIDE DEF s
<1> DEFINE r == ClearCandidate(row)
<1>3. r \in Row /\ r.cid = row.cid /\ r.image = row.image
  BY ConstantTypes DEF ClearCandidate, Row
<1> HIDE DEF r
<1>4. CASE FinishEnable(t)
  <2>1. loc[t].op = "enable"
    BY <1>4 DEF FinishEnable, Finish
  <2> DEFINE e == [s EXCEPT !.enabled = TRUE]
  <2>2. e.cid = loc[t].new /\ e.image = row.image
    BY <1>2 DEF Row
  <2>3. Finish(t, "enable", e)
    BY <1>4 DEF FinishEnable, s
  <2> HIDE DEF e
  <2> QED BY <1>1, <2>1, <2>2, <2>3, FinishOwn DEF StartsOwn
<1>5. CASE FinishRestart(t) \/ FinishDevMode(t)
  <2>1. \E op \in {"restart", "devmode"} : Finish(t, op, s) /\ loc[t].op = op
    BY <1>5 DEF FinishRestart, FinishDevMode, Finish, s
  <2> QED BY <1>1, <1>2, <2>1, FinishOwn DEF StartsOwn
<1>6. CASE FinishDisable(t)
  <2> DEFINE d == [row EXCEPT !.cid = NoContainer, !.status = "stopped",
                              !.enabled = FALSE, !.host = NoHost]
  <2>1. d.cid = NoContainer /\ d.image = row.image
    BY DEF Row
  <2>2. Finish(t, "disable", d)
    BY <1>6 DEF FinishDisable
  <2> HIDE DEF d
  <2> QED BY <2>1, <2>2, OwnRest, FinishOwn
<1>7. CASE FinishUninstall(t)
  <2>1. loc[t].op = "uninstall" /\ Finish(t, "uninstall", NoRow)
    BY <1>7 DEF FinishUninstall, Finish
  <2>2. t \in Admin /\ NoRow.cid = NoContainer
    BY <2>1 DEF Works, NoRow
  <2> QED BY <2>1, <2>2, OwnRest, FinishOwn
<1>8. CASE FinishDeploy(t)
  <2> DEFINE d == [r EXCEPT !.ccid = loc[t].new, !.cimage = loc[t].copy.image]
  <2>1. d.cid = row.cid /\ d.image = row.image
    BY <1>3 DEF Row
  <2>2. Finish(t, "deploy", d)
    BY <1>8 DEF FinishDeploy, r
  <2> HIDE DEF d
  <2> QED BY <2>1, <2>2, FinishOwn
<1>9. CASE FinishPromote(t)
  <2> DEFINE p == loc[t].copy
             d == [r EXCEPT !.pimage = p.image, !.cid = p.ccid, !.image = p.cimage,
                            !.host = p.chost, !.status = "running", !.seen = "fresh"]
  <2>1. d.cid = p.ccid /\ d.image = p.cimage
    BY <1>3 DEF Row
  <2>2. Finish(t, "promote", d) /\ loc[t].op = "promote"
    BY <1>9 DEF FinishPromote, Finish, r
  <2>3. Carries(p.ccid, p.cimage) /\ t \in Admin
    BY <2>2 DEF BInv, IInv, ImagesKnown, Works
  <2> HIDE DEF d
  <2> QED BY <2>1, <2>2, <2>3, FinishOwn
<1>10. CASE FinishDiscard(t)
  BY <1>3, <1>10, FinishOwn DEF FinishDiscard, r
<1>11. CASE FinishRollback(t)
  <2> DEFINE d == [r EXCEPT !.cid = loc[t].new, !.image = loc[t].copy.image,
                            !.status = "running", !.host = NoHost,
                            !.seen = "zero", !.pimage = NoImage]
  <2>1. d.cid = loc[t].new /\ d.image = loc[t].copy.image
    BY <1>3 DEF Row
  <2>2. Finish(t, "rollback", d) /\ loc[t].op = "rollback"
    BY <1>11 DEF FinishRollback, Finish, r
  <2>3. Carries(loc[t].new, loc[t].copy.image) /\ t \in Admin
    BY <2>2 DEF Works
  <2> HIDE DEF d
  <2> QED BY <2>1, <2>2, <2>3, FinishOwn
<1>12. CASE FinishBoot(t) \/ FinishAutoRestart(t) \/ FinishAutoRollback(t)
  BY <1>12 DEF FinishBoot, FinishAutoRestart, FinishAutoRollback, Finish, Works
<1>13. CASE FinishShutdown(t)
  <2> DEFINE d == [row EXCEPT !.cid = NoContainer, !.status = "stopped"]
  <2>1. d.cid = NoContainer /\ d.image = row.image
    BY DEF Row
  <2>2. row' = d \/ row' = row
    BY <1>13 DEF FinishShutdown, Update
  <2> HIDE DEF d
  <2>3. Carries(row'.cid, row'.image) /\ row'.image = row.image /\ ContainersKept
    BY <1>13, <2>1, <2>2, OwnRest DEF FinishShutdown, ContainersKept
  <2> QED BY <1>13, <2>3, OwnRest, OwnStep DEF FinishShutdown
<1> QED
  BY <1>4, <1>5, <1>6, <1>7, <1>8, <1>9, <1>10, <1>11, <1>12, <1>13

LEMMA AdvanceOwn ==
  ASSUME OneAdmin, BInv, NEW t \in Actor, Advance(t), ~Create(t), ~StartFails(t)
  PROVE  OwnImage'
<1> row \in Row /\ ctr \in [Container -> Docker] /\ Carries(row.cid, row.image)
  BY DEF BInv, IInv, OwnImage, TypeOK
<1>1. CASE Stop(t)
  <2>1. ContainersKept /\ UNCHANGED row
    BY <1>1 DEF Stop, Docker, ContainersKept
  <2> QED BY <1>1, <2>1, OwnMove DEF Stop
<1>2. CASE Remove(t)
  <2>1. ContainersKept /\ UNCHANGED row
    BY <1>2 DEF Remove, Removed, Docker, ContainersKept
  <2> QED BY <1>2, <2>1, OwnMove DEF Remove
<1>3. CASE Clear(t)
  <2>1. ContainersKept
    BY <1>3 DEF Clear, ContainersKept
  <2>2. row'.image = row.image /\ (row'.cid = row.cid \/ row'.cid = NoContainer)
    BY <1>3 DEF Clear, Update, Row
  <2>3. Carries(row'.cid, row'.image)
    BY <2>2, OwnRest
  <2> QED BY <1>3, <2>1, <2>2, <2>3, OwnMove DEF Clear
<1>4. CASE RemoveStale(t)
  <2>1. ContainersKept /\ UNCHANGED row
    BY <1>4 DEF RemoveStale, Removed, Docker, ContainersKept
  <2> QED BY <1>4, <2>1, OwnMove DEF RemoveStale
<1>5. CASE CreateFails(t)
  <2>1. ContainersKept /\ UNCHANGED row
    BY <1>5 DEF CreateFails, ContainersKept
  <2>2. loc' = [loc EXCEPT ![t] = Idle] \/ loc' = [loc EXCEPT ![t].pc = "fail"]
    BY <1>5 DEF CreateFails, Failed
  <2> QED BY <2>1, <2>2, OwnRest, OwnStep, OwnMove
<1>6. CASE RecordFailure(t)
  <2>1. ContainersKept
    BY <1>6 DEF RecordFailure, ContainersKept
  <2>2. row'.image = row.image /\ (row'.cid = row.cid \/ row'.cid = NoContainer)
    BY <1>6 DEF RecordFailure, Update, Row
  <2>3. Carries(row'.cid, row'.image)
    BY <2>2, OwnRest
  <2>4. loc[t].op # "autorestart"
    BY DEF BInv, OwnImage, Works, Operations
  <2> QED BY <1>6, <2>1, <2>2, <2>3, <2>4, OwnRest, OwnStep DEF RecordFailure
<1> QED
  BY <1>1, <1>2, <1>3, <1>4, <1>5, <1>6, FinishesOwn DEF Advance

\* A container is created under an id that nothing refers to, with the image
\* the operation read.
LEMMA CreateOwn ==
  ASSUME BInv, NEW t \in Actor, Create(t) \/ StartFails(t)
  PROVE  OwnImage'
<1> IInv /\ TypeOK /\ loc[t] \in Loc
  BY DEF BInv, IInv, TypeOK
<1>1. PICK new \in FreshIds : new = NewId
  BY DEF Create, StartFails, NewId
<1>2. PICK img : img = loc[t].copy.image
  OBVIOUS
<1>3. \E s, slot :
        ctr' = [ctr EXCEPT ![new] = [st |-> s, slot |-> slot, image |-> img]]
  BY <1>1, <1>2 DEF Create, StartFails
<1>4. /\ new \in Container /\ new \notin Referenced
      /\ Carries(new, img)'
      /\ \A c, i : c # new /\ Carries(c, i) => Carries(c, i)'
  BY <1>3, NewContainer
<1>5. new # row.cid /\ \A u \in Actor : new # loc[u].new
  BY <1>4 DEF Referenced
<1>6. /\ \A u \in Actor : u # t => loc'[u] = loc[u]
      /\ \/ loc'[t] = Idle
         \/ loc'[t] = [loc[t] EXCEPT !.pc = "fail"]
         \/ loc'[t] = [loc[t] EXCEPT !.pc = "commit", !.new = new]
  BY <1>1 DEF Create, StartFails, Failed, TypeOK
<1>7. UNCHANGED row
  BY DEF Create, StartFails
<1>8. Carries(row.cid, row.image)'
  BY <1>4, <1>5, <1>7 DEF BInv, OwnImage, Carries, Exists
<1>9. ASSUME NEW u \in Actor
      PROVE  Works(u, loc[u], row.image)'
  <2>1. Works(u, loc[u], row.image)
    BY DEF BInv, OwnImage
  <2>2. CASE loc'[u] = loc[u]
    <3>1. PICK d, i : d = loc[u].new /\ i = loc[u].copy.image
      OBVIOUS
    <3>2. Carries(d, i) => Carries(d, i)'
      BY <1>4, <1>5, <3>1
    <3> QED BY <1>7, <2>1, <2>2, <3>1, <3>2 DEF Works, Carries
  <2>3. CASE loc'[u] = Idle
    BY <2>3 DEF Works, Idle, StartsOwn
  <2>4. CASE u = t /\ loc'[t] = [loc[t] EXCEPT !.pc = "fail"]
    <3>1. loc'[t].op = loc[t].op /\ loc'[t].copy = loc[t].copy /\ loc'[t].new = loc[t].new
      BY <2>4 DEF Loc
    <3>2. PICK d : d = loc[u].new
      OBVIOUS
    <3>3. Carries(d, img) => Carries(d, img)'
      BY <1>4, <1>5, <3>2
    <3> QED BY <1>2, <1>7, <2>1, <2>4, <3>1, <3>2, <3>3 DEF Works, Carries
  <2>5. CASE u = t /\ loc'[t] = [loc[t] EXCEPT !.pc = "commit", !.new = new]
    <3>1. loc'[t].op = loc[t].op /\ loc'[t].copy = loc[t].copy /\ loc'[t].new = new
      BY <2>5 DEF Loc
    <3> QED BY <1>2, <1>4, <1>7, <2>1, <2>5, <3>1 DEF Works, Carries
  <2> QED BY <1>6, <2>2, <2>3, <2>4, <2>5
<1> QED BY <1>8, <1>9 DEF OwnImage

LEMMA OtherOwn ==
  ASSUME OneAdmin, Unattended, BInv,
         \/ \E c \in Container : Sdk(c) \/ Serve(c) \/ DockerRestart(c)
         \/ Age \/ CandidateAge \/ Shutdown \/ Exit \/ KernelBoot \/ Disturb
         \/ UNCHANGED vars
  PROVE  OwnImage'
<1> TypeOK /\ IInv /\ row \in Row /\ Carries(row.cid, row.image)
  BY DEF BInv, IInv, OwnImage, TypeOK
<1>1. ASSUME ContainersKept, UNCHANGED row, \A t \in Actor : loc'[t] = Idle
      PROVE  OwnImage'
  <2>1. Carries(row.cid, row.image)'
    BY <1>1 DEF Carries, Exists, ContainersKept
  <2> QED BY <1>1, <2>1 DEF OwnImage, Works, Idle, StartsOwn
<1>2. CASE \E c \in Container : \/ Sdk(c) \/ Serve(c) \/ DockerRestart(c)
                                \/ Crash(c) \/ Hang(c) \/ Recover(c)
  <2>1. ContainersKept
    BY <1>2, OtherKept DEF Kept
  <2>2. UNCHANGED loc /\ row'.cid = row.cid /\ row'.image = row.image
    BY <1>2 DEF Sdk, SendRegister, SendHeartbeat, SendDeregister, Send, Serve, SelfRegister,
                Heartbeat, Deregister, DockerRestart, Crash, Hang, Recover, Become,
                Update, Row
  <2> QED BY <2>1, <2>2, OwnSame
<1>3. CASE Age \/ CandidateAge \/ UNCHANGED vars
  <2>1. ContainersKept
    BY <1>3, OtherKept DEF Kept
  <2>2. UNCHANGED loc /\ row'.cid = row.cid /\ row'.image = row.image
    BY <1>3 DEF Age, CandidateAge, vars, Row
  <2> QED BY <2>1, <2>2, OwnSame
<1>4. CASE Exit \/ KernelCrash
  BY <1>1, <1>4 DEF Exit, KernelCrash, Die, ContainersKept
<1>5. CASE KernelBoot
  <2>1. "boot" \notin Actor
    BY LifecycleAssumption DEF Actor, Unattended
  <2>2. \A t \in Actor : loc'[t] = Idle
    BY <1>5, <2>1 DEF KernelBoot
  <2> QED BY <1>1, <1>5, <2>2 DEF KernelBoot, ContainersKept
<1>6. CASE Shutdown
  <2>1. "shutdown" \in Actor
    BY <1>6, BackgroundActor DEF Shutdown
  <2> DEFINE s == [Exiting EXCEPT !.pc = "stop"]
  <2>2. s.op = "shutdown"
    BY DEF Exiting
  <2>3. \A img : Works("shutdown", s, img)
    BY <2>2 DEF Works, StartsOwn
  <2>4. \E l \in {s, Exiting} : loc' = [loc EXCEPT !["shutdown"] = l]
    BY <1>6 DEF Shutdown
  <2> HIDE DEF s
  <2>5. ContainersKept /\ UNCHANGED row
    BY <1>6 DEF Shutdown, ContainersKept
  <2> QED BY <2>1, <2>3, <2>4, <2>5, OwnRest, OwnStep
<1>7. ASSUME NEW t \in Actor, RemoveFails(t)
      PROVE  OwnImage'
  <2>1. ContainersKept /\ UNCHANGED row
    BY <1>7 DEF RemoveFails, ContainersKept
  <2>2. \/ loc' = [loc EXCEPT ![t] = Idle]
        \/ loc' = [loc EXCEPT ![t] = Exiting]
        \/ loc' = [loc EXCEPT ![t].pc = AfterRemove(t)]
    BY <1>7 DEF RemoveFails
  <2> QED BY <2>1, <2>2, OwnRest, OwnStep, OwnMove
<1> QED BY <1>2, <1>3, <1>4, <1>5, <1>6, <1>7 DEF Disturb

LEMMA InitOwn == Unattended /\ Init => BInv
<1> SUFFICES ASSUME Unattended, Init PROVE OwnImage
  BY InitImages DEF BInv
<1>1. Carries(row.cid, row.image)
  BY DEF Init, Carries, Exists
<1>2. "boot" \notin Actor
  BY LifecycleAssumption DEF Actor, Unattended
<1>3. \A t \in Actor : loc[t] = Idle
  BY <1>2 DEF Init
<1> QED BY <1>1, <1>3, OwnRest DEF OwnImage

LEMMA NextOwn == OneAdmin /\ Unattended /\ BInv /\ [Next]_vars => BInv'
<1> SUFFICES ASSUME OneAdmin, Unattended, BInv, [Next]_vars PROVE OwnImage'
  BY NextImages DEF BInv
<1>1. ~MonitorStep /\ ~BootRead
  BY DEF Unattended, MonitorStep, MonitorTick, CheckNoContainer, CheckStale, CheckContainer,
         Checking, AutoRestart, CheckCandidates, CheckCandidate, BootRead
<1>2. CASE \E a \in Admin : Request(a)
  BY <1>2, RequestOwn
<1>3. CASE \E t \in Actor : Advance(t)
  BY <1>3, CreateOwn, AdvanceOwn
<1> QED BY <1>1, <1>2, <1>3, OtherOwn DEF Next

\* With one administrator and none of the kernel's own restarts, the container
\* the row names runs the image the row names, whatever is promoted, rolled
\* back, refused by Docker or cut off by the kernel's end (deploy.go:139, 231).
THEOREM ImageTruthful ==
  ASSUME OneAdmin, Unattended
  PROVE  Spec => []ImageAgrees
<1>1. BInv => ImageAgrees
  BY DEF BInv, OwnImage, Carries, ImageAgrees
<1>2. OneAdmin /\ Unattended /\ BInv /\ [Next]_vars => BInv'
  BY NextOwn
<1>3. Unattended /\ Init => BInv
  BY InitOwn
<1> QED BY <1>1, <1>2, <1>3, OneAdmin, Unattended, PTL DEF Spec

------------------------------------------------------------------------------
(* Containers nobody knows of.  One administrator alone, with nothing      *)
(* promoted, and with Docker and the kernel at work: an operation that     *)
(* loses a container from the row has removed it first, but for the        *)
(* candidate of a plugin that is uninstalled.                              *)

Alone == OneAdmin /\ Background = {}
Reliable == Faults \subseteq {"crash", "hang"}
Undisturbed == Alone /\ Reliable /\ NoPromotion
NoRestarts == "restart" \notin Requests
NoUninstalls == "uninstall" \notin Requests

\* The steps an operation goes through.
Places(op) ==
  CASE op = "none" -> {"idle"}
    [] op \in {"enable", "deploy"} -> {"stale", "create", "commit"}
    [] op \in {"disable", "uninstall", "discard"} -> {"stop", "remove", "commit"}
    [] op = "restart" -> {"stop", "remove", "clear", "stale", "create", "commit"}
    [] op = "devmode" -> {"stop", "remove", "stale", "create", "commit"}
    [] OTHER -> {}

\* What a goroutine has removed before it creates or writes.
Clean(l) ==
  /\ l.pc \in Places(l.op)
  /\ IF l.op = "none" THEN l = Idle ELSE row.installed
  /\ l.op = "uninstall" => ~NoUninstalls
  /\ l.pc # "commit" \/ l.op \in {"disable", "uninstall", "discard"} => l.new = NoContainer
  /\ l.op \in StartsOwn /\ l.pc \in {"create", "commit"} => Holder("primary") \subseteq {l.new}
  /\ l.op \in {"disable", "uninstall"} /\ l.pc = "commit" => Holder("primary") = {}
  /\ l.op = "deploy" => row.ccid = NoContainer
  /\ l.op = "discard" => l.copy.ccid = row.ccid
  /\ l.op = "discard" /\ l.pc = "commit" => ~Exists(row.ccid)

Accounted ==
  \A c \in Container :
    Exists(c) => c \in {row.cid, row.ccid} \/ \E t \in Actor : c = loc[t].new

\* The same of the plugin's own container, through uninstallations too.
Owned ==
  /\ \A c \in Holder("primary") : c = row.cid \/ \E t \in Actor : c = loc[t].new
  /\ ~row.installed => row.cid = NoContainer

\* A disabled plugin's container is one that is being enabled.
Off ==
  /\ ~row.enabled => \A c \in Holder("primary") : \E t \in Actor : c = loc[t].new
  /\ \A t \in Actor : /\ loc[t].op = "devmode" => row.enabled
                      /\ loc[t].op # "restart"

Tidy ==
  /\ kernel = "up"
  /\ NoUninstalls => row.installed /\ Accounted
  /\ Owned
  /\ \A t \in Actor : Clean(loc[t])
  /\ NoRestarts => Off

TInv == AInv /\ Tidy

\* With a single goroutine, what holds of it and of its step.
LEMMA Single ==
  ASSUME Undisturbed, NEW t \in Actor
  PROVE  /\ \A u \in Actor : u = t
         /\ ~DockerFault(t)
BY LifecycleAssumption DEF Undisturbed, Alone, OneAdmin, Reliable, Actor, DockerFault, Cancelled

LEMMA TidyAt ==
  ASSUME Undisturbed, TInv, NEW t \in Actor
  PROVE  /\ Clean(loc[t])
         /\ NoUninstalls => /\ row.installed
                            /\ \A c \in Container :
                                 Exists(c) => c \in {row.cid, row.ccid, loc[t].new}
         /\ Holder("primary") \subseteq {row.cid, loc[t].new}
         /\ ~row.installed => row.cid = NoContainer
         /\ NoRestarts => /\ ~row.enabled => Holder("primary") \subseteq {loc[t].new}
                          /\ loc[t].op = "devmode" => row.enabled
                          /\ loc[t].op # "restart"
         /\ \A c \in Holder("primary") : c # row.ccid
         /\ Exists(row.cid) => row.cid \in Holder("primary")
         /\ NoContainer \notin Container
<1>1. \A u \in Actor : u = t
  BY Single
<1>2. \A c \in Holder("primary") : c # row.ccid
  BY DEF TInv, AInv, Apart, Sound, Second, Exists, Holder
<1>3. Exists(row.cid) => row.cid \in Holder("primary")
  BY DEF TInv, AInv, Apart, Sound, Primary, Exists, Holder
<1>4. Clean(loc[t]) /\ (NoRestarts => Off) /\ Owned
      /\ (NoUninstalls => row.installed /\ Accounted)
  BY DEF TInv, Tidy
<1>5. Holder("primary") \subseteq {row.cid, loc[t].new}
      /\ (~row.installed => row.cid = NoContainer)
  BY <1>1, <1>4 DEF Owned
<1>6. NoUninstalls => \A c \in Container : Exists(c) => c \in {row.cid, row.ccid, loc[t].new}
  BY <1>1, <1>4 DEF Accounted
<1>7. NoRestarts => /\ ~row.enabled => Holder("primary") \subseteq {loc[t].new}
                    /\ loc[t].op = "devmode" => row.enabled
                    /\ loc[t].op # "restart"
  BY <1>1, <1>4 DEF Off
<1> QED BY <1>2, <1>3, <1>4, <1>5, <1>6, <1>7, LifecycleAssumption

LEMMA TidyStep ==
  ASSUME Undisturbed, TInv, NEW t \in Actor, NEW l, loc' = [loc EXCEPT ![t] = l],
         kernel' = kernel, ~row'.installed => row'.cid = NoContainer,
         NoUninstalls => /\ row'.installed
                         /\ \A c \in Container :
                              Exists(c)' => c \in {row'.cid, row'.ccid, l.new},
         Holder("primary")' \subseteq {row'.cid, l.new},
         Clean(l)',
         NoRestarts => /\ ~row'.enabled => Holder("primary")' \subseteq {l.new}
                       /\ l.op = "devmode" => row'.enabled
                       /\ l.op # "restart"
  PROVE  Tidy'
<1>1. loc'[t] = l /\ \A u \in Actor : loc'[u] = l
  BY Single DEF TInv, AInv, TypeOK
<1>2. NoUninstalls => row'.installed /\ Accounted'
  BY <1>1 DEF Accounted
<1>3. \A u \in Actor : Clean(loc[u])'
  BY <1>1 DEF Clean
<1>4. NoRestarts => Off'
  BY <1>1 DEF Off
<1>5. Owned'
  BY <1>1 DEF Owned
<1> QED BY <1>2, <1>3, <1>4, <1>5 DEF Tidy, TInv

\* A step that moves no goroutine, creates nothing and leaves the row's
\* containers and its switch alone.
LEMMA TidySame ==
  ASSUME TInv, Shrinks, UNCHANGED <<loc, kernel>>,
         row'.cid = row.cid, row'.ccid = row.ccid, row'.enabled = row.enabled,
         row'.installed = row.installed
  PROVE  Tidy'
<1>1. \A c : Exists(c)' => Exists(c)
  BY DEF Shrinks, Exists
<1>2. Holder("primary")' \subseteq Holder("primary")
  BY DEF Shrinks, Holder
<1>3. (NoUninstalls => row'.installed /\ Accounted') /\ Owned'
  BY <1>1, <1>2 DEF TInv, Tidy, Accounted, Owned
<1>4. \A t \in Actor : Clean(loc[t])'
  BY <1>1, <1>2 DEF TInv, Tidy, Clean
<1>5. NoRestarts => Off'
  BY <1>2 DEF TInv, Tidy, Off
<1> QED BY <1>3, <1>4, <1>5 DEF Tidy, TInv

\* A request begins where its operation begins, and creates nothing yet.
LEMMA BeginTidy ==
  ASSUME Undisturbed, TInv, NEW a \in Admin, NEW op, NEW pc, NEW copy, Begin(a, op, pc, copy),
         pc \in Places(op), op # "none", pc # "create",
         pc = "commit" => op = "disable" /\ row.cid = NoContainer,
         op = "deploy" => row.ccid = NoContainer,
         op = "discard" => copy.ccid = row.ccid,
         op = "devmode" => row.enabled,
         op = "restart" => ~NoRestarts,
         op = "uninstall" => ~NoUninstalls
  PROVE  Tidy'
<1> DEFINE m == [op |-> op, pc |-> pc, copy |-> copy, new |-> NoContainer]
<1>1. a \in Actor /\ loc[a] = Idle /\ loc' = [loc EXCEPT ![a] = m]
      /\ row.installed /\ UNCHANGED <<row, ctr, kernel>>
  BY DEF Begin, Actor
<1>2. loc[a].new = NoContainer
  BY <1>1 DEF Idle
<1>3. /\ NoUninstalls => \A c \in Container : Exists(c) => c \in {row.cid, row.ccid}
      /\ Holder("primary") \subseteq {row.cid} /\ Holder("primary") \subseteq Container
      /\ NoContainer \notin Container
  BY <1>1, <1>2, TidyAt DEF Exists, Holder
<1>4. pc = "commit" => Holder("primary") = {}
  BY <1>3
<1>5. PICK l : l = m
  OBVIOUS
<1>6. l.op = op /\ l.pc = pc /\ l.copy = copy /\ l.new = NoContainer
  BY <1>5
<1>7. Clean(l)'
  BY <1>1, <1>4, <1>6 DEF Clean, Holder
<1>8. Exists(row.cid)' <=> Exists(row.cid)
  BY <1>1 DEF Exists
<1>9. NoRestarts => /\ ~row'.enabled => Holder("primary")' \subseteq {l.new}
                    /\ l.op = "devmode" => row'.enabled
                    /\ l.op # "restart"
  BY <1>1, <1>2, <1>6, TidyAt DEF Holder
<1>10. NoUninstalls => \A c \in Container : Exists(c)' => c \in {row'.cid, row'.ccid, l.new}
  BY <1>1, <1>3 DEF Exists
<1>11. Holder("primary")' \subseteq {row'.cid, l.new}
  BY <1>1, <1>3 DEF Holder
<1> QED BY <1>1, <1>5, <1>7, <1>9, <1>10, <1>11, TidyStep DEF TInv, Tidy

\* A plugin is installed with a new row, when nothing holds its name.
LEMMA InstallTidy ==
  ASSUME Undisturbed, TInv, NEW a \in Admin, Install(a)
  PROVE  Tidy'
<1>1. /\ a \in Actor /\ loc[a] = Idle /\ ~row.installed
      /\ loc' = [loc EXCEPT ![a] = Idle] /\ UNCHANGED <<ctr, kernel>>
  BY DEF Install, Actor, TInv, AInv, TypeOK
<1>2. row'.installed /\ row'.cid = NoContainer /\ ~row'.enabled
  BY DEF Install, InstalledRow, NoRow
<1>3. PICK l : l = Idle
  OBVIOUS
<1>4. l.op = "none" /\ l.pc = "idle" /\ l.new = NoContainer
  BY <1>3 DEF Idle
<1>5. Clean(l)'
  BY <1>3, <1>4 DEF Clean, Places, StartsOwn
<1>6. Holder("primary") = {}
  <2>1. Holder("primary") \subseteq {NoContainer} /\ NoContainer \notin Container
    BY <1>1, TidyAt DEF Idle
  <2> QED BY <2>1 DEF Holder
<1>7. Holder("primary")' = {}
  BY <1>1, <1>6 DEF Holder
<1>8. ~NoUninstalls
  BY <1>1, TidyAt
<1> QED BY <1>1, <1>2, <1>3, <1>4, <1>5, <1>7, <1>8, TidyStep

LEMMA RequestTidy ==
  ASSUME Undisturbed, TInv, NEW a \in Admin, Request(a)
  PROVE  Tidy'
<1> row \in Row /\ Sound(row)
  BY DEF TInv, Tidy, AInv, Apart, TypeOK
<1>1. StopFirst(row) \in {"stop", "stale"}
  BY DEF StopFirst
<1>2. CASE Enable(a)
  BY <1>2, BeginTidy DEF Enable, Places
<1>3. CASE Disable(a)
  <2>1. CASE row.cid # NoContainer
    BY <1>3, <2>1, BeginTidy DEF Disable, Places
  <2>2. CASE row.cid = NoContainer
    BY <1>3, <2>2, BeginTidy DEF Disable, Places
  <2> QED BY <2>1, <2>2
<1>4. CASE Restart(a)
  BY <1>1, <1>4, BeginTidy DEF Restart, Places, NoRestarts
<1>5. CASE SetDevMode(a)
  BY <1>1, <1>5, BeginTidy DEF SetDevMode, Places
<1>6. CASE Uninstall(a)
  BY <1>6, BeginTidy DEF Uninstall, Places, NoUninstalls
<1>10. CASE Install(a)
  BY <1>10, InstallTidy
<1>7. CASE DeployCandidate(a)
  BY <1>7, BeginTidy DEF DeployCandidate, Places
<1>8. CASE PromoteCandidate(a) \/ RollbackPromoted(a)
  BY <1>8 DEF PromoteCandidate, RollbackPromoted, Undisturbed, NoPromotion, Sound
<1>9. CASE DiscardCandidate(a)
  BY <1>9, BeginTidy, CandidateColumns DEF DiscardCandidate, Places
<1> QED BY <1>2, <1>3, <1>4, <1>5, <1>6, <1>7, <1>8, <1>9, <1>10 DEF Request

\* Where a goroutine is, and what it holds, once it has moved on.
LEMMA Moved ==
  ASSUME TInv, NEW t \in Actor, NEW pc, loc' = [loc EXCEPT ![t].pc = pc]
  PROVE  \E l : /\ loc' = [loc EXCEPT ![t] = l]
                /\ l.op = loc[t].op /\ l.pc = pc
                /\ l.copy = loc[t].copy /\ l.new = loc[t].new
<1>1. loc[t] \in Loc /\ loc \in [Actor -> Loc]
  BY DEF TInv, AInv, TypeOK
<1> DEFINE m == [loc[t] EXCEPT !.pc = pc]
<1>2. /\ loc' = [loc EXCEPT ![t] = m]
      /\ m.op = loc[t].op /\ m.pc = pc /\ m.copy = loc[t].copy /\ m.new = loc[t].new
  BY <1>1 DEF Loc
<1> QED BY <1>2

\* A stop or a removal: of the container with the primary name, or of the
\* candidate that the row names.
LEMMA StopsTidy ==
  ASSUME Undisturbed, TInv, NEW t \in Actor, Stop(t) \/ Remove(t) \/ RemoveStale(t)
  PROVE  Tidy'
<1> TypeOK /\ ctr \in [Container -> Docker] /\ Clean(loc[t])
  BY TidyAt DEF TInv, AInv, TypeOK
<1>1. Shrinks /\ UNCHANGED <<row, kernel>>
  <2>1. CASE Stop(t)
    BY <2>1 DEF Stop, Docker, Shrinks
  <2>2. CASE Remove(t)
    BY <2>2 DEF Remove, Removed, Docker, Shrinks
  <2>3. CASE RemoveStale(t)
    BY <2>3 DEF RemoveStale, Removed, Docker, Shrinks
  <2> QED BY <2>1, <2>2, <2>3
<1>2. (\A c : Exists(c)' => Exists(c)) /\ Holder("primary")' \subseteq Holder("primary")
  BY <1>1 DEF Shrinks, Exists, Holder
<1>3. PICK pc : loc' = [loc EXCEPT ![t].pc = pc]
                /\ \/ Stop(t) /\ pc = IF loc[t].pc = "stop" THEN "remove" ELSE "remove2"
                   \/ Remove(t) /\ pc = AfterRemove(t)
                   \/ RemoveStale(t) /\ pc = "create"
  BY DEF Stop, Remove, RemoveStale
<1>4. PICK l : /\ loc' = [loc EXCEPT ![t] = l]
               /\ l.op = loc[t].op /\ l.pc = pc
               /\ l.copy = loc[t].copy /\ l.new = loc[t].new
  BY <1>3, Moved
<1>5. loc[t].op # "none" /\ loc[t].pc # "commit" /\ loc[t].new = NoContainer
  BY DEF Stop, Remove, RemoveStale, Clean, Idle
<1>6. Clean(l)'
  <2>1. CASE Stop(t)
    <3>1. loc[t].pc = "stop"
          /\ loc[t].op \in {"disable", "uninstall", "discard", "restart", "devmode"}
      BY <2>1 DEF Stop, Clean, Places
    <3>2. pc = "remove"
      BY <2>1, <3>1, <1>3 DEF Remove, RemoveStale
    <3> QED BY <1>1, <1>4, <1>5, <3>1, <3>2 DEF Clean, Places
  <2>2. CASE Remove(t)
    <3>1. loc[t].pc = "remove"
          /\ loc[t].op \in {"disable", "uninstall", "discard", "restart", "devmode"}
      BY <2>2 DEF Remove, Clean, Places
    <3>2. pc = AfterRemove(t)
      BY <2>2, <3>1, <1>3 DEF Stop, RemoveStale
    <3>3. CASE loc[t].op \in {"disable", "uninstall"}
      <4>1. pc = "commit" /\ Victims(t) = Holder("primary")
        BY <3>2, <3>3 DEF AfterRemove, Victims
      <4>2. Holder("primary")' = {}
        BY <2>2, <4>1 DEF Remove, Removed, Holder, Docker
      <4> QED BY <1>1, <1>4, <1>5, <3>3, <4>1, <4>2 DEF Clean, Places, StartsOwn
    <3>4. CASE loc[t].op = "discard"
      <4>1. pc = "commit" /\ Victims(t) = {row.ccid} \cap Container
        BY <3>2, <3>4 DEF AfterRemove, Victims, Clean
      <4>2. ~Exists(row.ccid)'
        BY <1>1, <2>2, <4>1 DEF Remove, Removed, Exists, Docker
      <4>3. l.copy.ccid = row'.ccid
        BY <1>1, <1>4, <3>4 DEF Clean
      <4> QED BY <1>1, <1>4, <1>5, <3>4, <4>1, <4>2, <4>3 DEF Clean, Places, StartsOwn
    <3>5. CASE loc[t].op \in {"restart", "devmode"}
      <4>1. pc = IF loc[t].op = "restart" THEN "clear" ELSE "stale"
        BY <3>2, <3>5 DEF AfterRemove
      <4> QED BY <1>1, <1>4, <1>5, <3>5, <4>1 DEF Clean, Places
    <3> QED BY <3>1, <3>3, <3>4, <3>5
  <2>3. CASE RemoveStale(t)
    <3>1. loc[t].pc = "stale" /\ loc[t].op \in {"enable", "restart", "devmode", "deploy"}
      BY <2>3 DEF RemoveStale, Clean, Places
    <3>2. pc = "create"
      BY <2>3, <3>1, <1>3 DEF Stop, Remove
    <3>3. loc[t].op # "deploy" => Holder("primary")' = {}
      BY <2>3 DEF RemoveStale, SlotOf, Removed, Holder, Docker
    <3> QED BY <1>1, <1>4, <1>5, <3>1, <3>2, <3>3 DEF Clean, Places, StartsOwn
  <2> QED BY <2>1, <2>2, <2>3
<1>7. /\ NoUninstalls => /\ row'.installed
                         /\ \A c \in Container :
                              Exists(c)' => c \in {row'.cid, row'.ccid, l.new}
      /\ Holder("primary")' \subseteq {row'.cid, l.new}
      /\ ~row'.installed => row'.cid = NoContainer
  BY <1>1, <1>2, <1>4, TidyAt
<1>8. NoRestarts => /\ ~row'.enabled => Holder("primary")' \subseteq {l.new}
                    /\ l.op = "devmode" => row'.enabled
                    /\ l.op # "restart"
  BY <1>1, <1>2, <1>4, TidyAt
<1> QED BY <1>1, <1>4, <1>6, <1>7, <1>8, TidyStep DEF TInv, Tidy

\* An operation creates a container when it has removed the one of that name.
LEMMA CreateTidy ==
  ASSUME Undisturbed, TInv, NEW t \in Actor, Create(t)
  PROVE  Tidy'
<1> TypeOK /\ ctr \in [Container -> Docker] /\ loc[t] \in Loc /\ loc \in [Actor -> Loc]
    /\ Clean(loc[t])
  BY TidyAt DEF TInv, AInv, TypeOK
<1>1. PICK new \in FreshIds : new = NewId
  BY DEF Create, NewId
<1>2. PICK slot : slot = SlotOf(loc[t].op)
  OBVIOUS
<1>3. \E s, img : ctr' = [ctr EXCEPT ![new] = [st |-> s, slot |-> slot, image |-> img]]
  BY <1>1, <1>2 DEF Create
<1>4. new \in Container /\ UNCHANGED <<row, kernel>>
  BY DEF FreshIds, Create
<1>5. ctr'[new].slot = slot /\ \A c \in Container : c # new => ctr'[c] = ctr[c]
  BY <1>3, <1>4
<1>6. loc[t].pc = "create" /\ loc[t].op \in {"enable", "restart", "devmode", "deploy"}
      /\ loc[t].new = NoContainer
  BY DEF Create, Clean, Places
<1> DEFINE m == [loc[t] EXCEPT !.pc = "commit", !.new = new]
<1>7. m.op = loc[t].op /\ m.pc = "commit" /\ m.copy = loc[t].copy /\ m.new = new
  BY DEF Loc
<1>8. loc' = [loc EXCEPT ![t] = m]
  BY <1>1 DEF Create
<1> HIDE DEF m
<1>9. PICK l : l = m
  OBVIOUS
<1>10. Holder("primary")' \subseteq Holder("primary") \cup IF slot = "primary" THEN {new} ELSE {}
  BY <1>5 DEF Holder
<1>11. slot = IF loc[t].op = "deploy" THEN "candidate" ELSE "primary"
  BY <1>2 DEF SlotOf
<1>12. Holder("primary") \subseteq Container
  BY DEF Holder
<1>13. loc[t].op # "deploy" => Holder("primary") = {}
  BY <1>6, <1>12, TidyAt DEF Clean, StartsOwn
<1>14. Clean(l)'
  BY <1>4, <1>6, <1>7, <1>9, <1>10, <1>11, <1>13 DEF Clean, Places, StartsOwn
<1>15. NoUninstalls => \A c \in Container : Exists(c)' => c \in {row'.cid, row'.ccid, l.new}
  <2> SUFFICES ASSUME NoUninstalls, NEW c \in Container, Exists(c)', c # new
               PROVE  c \in {row.cid, row.ccid}
    BY <1>4, <1>7, <1>9
  <2>1. Exists(c)
    BY <1>5 DEF Exists
  <2> QED BY <1>6, <2>1, TidyAt
<1>16. NoRestarts => /\ ~row'.enabled => Holder("primary")' \subseteq {l.new}
                     /\ l.op = "devmode" => row'.enabled
                     /\ l.op # "restart"
  <2>1. NoRestarts /\ ~row.enabled => Holder("primary") = {}
    BY <1>6, <1>12, TidyAt
  <2> QED BY <1>4, <1>7, <1>9, <1>10, <2>1, TidyAt
<1>17. Holder("primary")' \subseteq {row'.cid, l.new}
  BY <1>4, <1>6, <1>7, <1>9, <1>10, <1>12, TidyAt
<1> QED BY <1>4, <1>8, <1>9, <1>14, <1>15, <1>16, <1>17, TidyAt, TidyStep

\* The write at the end of an operation: what the row loses is gone, and what
\* the operation created is in it.
LEMMA FinishTidy ==
  ASSUME Undisturbed, TInv, NEW t \in Actor, NEW op, NEW r, Finish(t, op, r),
         op \in Operations \cup {"discard"},
         ~r.installed => r.cid = NoContainer,
         NoUninstalls => r.installed /\ \A c \in Container : Exists(c) => c \in {r.cid, r.ccid},
         Holder("primary") \subseteq {r.cid},
         NoRestarts /\ ~r.enabled => Holder("primary") = {}
  PROVE  Tidy'
<1>0. row.installed
  BY TidyAt DEF Finish, Clean, Operations
<1>1. UNCHANGED <<ctr, kernel>> /\ row' = r /\ loc' = [loc EXCEPT ![t] = Idle]
  BY <1>0 DEF Finish, Update
<1>2. PICK l : l = Idle
  OBVIOUS
<1>3. l.op = "none" /\ l.pc = "idle" /\ l.new = NoContainer
  BY <1>2 DEF Idle
<1>4. Clean(l)'
  BY <1>2, <1>3 DEF Clean, Places, StartsOwn
<1>5. NoUninstalls => \A c \in Container : Exists(c)' => c \in {row'.cid, row'.ccid, l.new}
  BY <1>1 DEF Exists
<1>6. NoRestarts => /\ ~row'.enabled => Holder("primary")' \subseteq {l.new}
                    /\ l.op = "devmode" => row'.enabled
                    /\ l.op # "restart"
  BY <1>1, <1>3 DEF Holder
<1>7. Holder("primary")' \subseteq {row'.cid, l.new}
  BY <1>1 DEF Holder
<1> QED BY <1>1, <1>2, <1>4, <1>5, <1>6, <1>7, TidyStep

LEMMA FinishesTidy ==
  ASSUME Undisturbed, TInv, NEW t \in Actor,
         \/ FinishEnable(t) \/ FinishDisable(t) \/ FinishRestart(t) \/ FinishDevMode(t)
         \/ FinishUninstall(t) \/ FinishDeploy(t) \/ FinishPromote(t)
         \/ FinishDiscard(t) \/ FinishRollback(t) \/ FinishBoot(t)
         \/ FinishAutoRestart(t) \/ FinishAutoRollback(t) \/ FinishShutdown(t)
  PROVE  Tidy'
<1> row \in Row /\ loc[t] \in Loc /\ Clean(loc[t]) /\ Steady(loc[t])
  BY TidyAt DEF TInv, Tidy, AInv, Apart, TypeOK
<1>1. /\ NoUninstalls =>
           \A c \in Container : Exists(c) => c \in {row.cid, row.ccid, loc[t].new}
      /\ Holder("primary") \subseteq {row.cid, loc[t].new}
  BY TidyAt
<1>2. /\ Exists(row.cid) => row.cid \in Holder("primary")
      /\ NoContainer \notin Container
      /\ Holder("primary") \subseteq Container
  BY TidyAt DEF Holder
<1>3. /\ loc[t].pc = "commit"
      /\ loc[t].op \in {"enable", "disable", "restart", "devmode", "uninstall", "deploy",
                        "discard"}
      /\ row.installed
  BY DEF Clean, Places, Finish, FinishEnable, FinishDisable, FinishRestart, FinishDevMode,
         FinishUninstall, FinishDeploy, FinishPromote, FinishDiscard, FinishRollback,
         FinishBoot, FinishAutoRestart, FinishAutoRollback, FinishShutdown
<1> DEFINE s == Started(t)
<1>4. s \in Row /\ s.cid = loc[t].new /\ s.ccid = row.ccid /\ s.enabled = row.enabled /\ s.installed
  BY <1>3 DEF Started, Row, Status, Loc
<1> HIDE DEF s
<1> DEFINE r == ClearCandidate(row)
<1>5. r \in Row /\ r.cid = row.cid /\ r.ccid = NoContainer /\ r.enabled = row.enabled /\ r.installed
  BY <1>3, ConstantTypes DEF ClearCandidate, Row
<1> HIDE DEF r
<1>o. Operations \cup {"discard"}
        = {"enable", "disable", "restart", "devmode", "install", "uninstall", "deploy",
           "promote", "rollback", "discard"}
  BY DEF Operations
<1>6. ASSUME loc[t].op \in StartsOwn
      PROVE  /\ Holder("primary") \subseteq {loc[t].new}
             /\ NoUninstalls =>
                  \A c \in Container : Exists(c) => c \in {loc[t].new, row.ccid}
  <2>1. Holder("primary") \subseteq {loc[t].new}
    BY <1>3, <1>6 DEF Clean
  <2> QED BY <1>1, <1>2, <2>1
<1>7. CASE FinishEnable(t)
  <2> DEFINE d == [s EXCEPT !.enabled = TRUE]
  <2>1. d.cid = loc[t].new /\ d.ccid = row.ccid /\ d.enabled /\ d.installed
    BY <1>4 DEF Row
  <2>2. Finish(t, "enable", d) /\ loc[t].op \in StartsOwn
    BY <1>7 DEF FinishEnable, Finish, s, StartsOwn
  <2> HIDE DEF d
  <2> QED BY <1>o, <1>6, <2>1, <2>2, FinishTidy
<1>8. CASE FinishRestart(t) \/ FinishDevMode(t)
  <2>1. PICK op \in {"restart", "devmode"} : Finish(t, op, s) /\ loc[t].op = op
    BY <1>8 DEF FinishRestart, FinishDevMode, Finish, s
  <2>2. NoRestarts => s.enabled
    BY <1>4, <2>1, TidyAt
  <2> QED BY <1>o, <1>4, <1>6, <2>1, <2>2, FinishTidy DEF StartsOwn
<1>9. CASE FinishDisable(t)
  <2> DEFINE d == [row EXCEPT !.cid = NoContainer, !.status = "stopped",
                              !.enabled = FALSE, !.host = NoHost]
  <2>1. d.cid = NoContainer /\ d.ccid = row.ccid /\ d.installed
    BY <1>3 DEF Row
  <2>2. Finish(t, "disable", d) /\ loc[t].op = "disable"
    BY <1>9 DEF FinishDisable, Finish
  <2>3. Holder("primary") = {} /\ loc[t].new = NoContainer
    BY <1>3, <2>2 DEF Clean
  <2> HIDE DEF d
  <2> QED BY <1>o, <1>1, <1>2, <2>1, <2>2, <2>3, FinishTidy
<1>12. CASE FinishUninstall(t)
  <2>1. Finish(t, "uninstall", NoRow) /\ loc[t].op = "uninstall"
    BY <1>12 DEF FinishUninstall, Finish
  <2>2. Holder("primary") = {} /\ ~NoUninstalls
    BY <1>3, <2>1 DEF Clean
  <2>3. PICK d : d = NoRow
    OBVIOUS
  <2>4. d.cid = NoContainer
    BY <2>3 DEF NoRow
  <2> QED BY <1>o, <2>1, <2>2, <2>3, <2>4, FinishTidy
<1>10. CASE FinishDeploy(t)
  <2> DEFINE d == [r EXCEPT !.ccid = loc[t].new, !.cimage = loc[t].copy.image]
  <2>1. d.cid = row.cid /\ d.ccid = loc[t].new /\ d.enabled = row.enabled /\ d.installed
    BY <1>5 DEF Row
  <2>2. Finish(t, "deploy", d) /\ loc[t].op = "deploy"
    BY <1>10 DEF FinishDeploy, Finish, r
  <2>3. row.ccid = NoContainer
    BY <2>2 DEF Clean
  <2>4. /\ Holder("primary") \subseteq {row.cid}
        /\ NoRestarts /\ ~row.enabled => Holder("primary") = {}
    <3>1. Second(loc[t].new)
      BY <2>2 DEF Steady
    <3>2. loc[t].new \notin Holder("primary")
      BY <3>1 DEF Second, Exists, Holder
    <3> QED BY <1>1, <3>2, TidyAt
  <2> HIDE DEF d
  <2> QED BY <1>o, <1>1, <1>2, <2>1, <2>2, <2>3, <2>4, FinishTidy
<1>11. CASE FinishDiscard(t)
  <2>1. Finish(t, "discard", r) /\ loc[t].op = "discard"
    BY <1>11 DEF FinishDiscard, Finish, r
  <2>2. ~Exists(row.ccid) /\ loc[t].new = NoContainer
    BY <1>3, <2>1 DEF Clean
  <2>3. NoRestarts /\ ~row.enabled => Holder("primary") = {}
    BY <1>2, <2>2, TidyAt
  <2> QED BY <1>o, <1>1, <1>2, <1>5, <2>1, <2>2, <2>3, FinishTidy
<1> QED
  BY <1>3, <1>7, <1>8, <1>9, <1>10, <1>11, <1>12
     DEF FinishPromote, FinishRollback, FinishBoot, FinishAutoRestart,
         FinishAutoRollback, FinishShutdown, Finish

LEMMA AdvanceTidy ==
  ASSUME Undisturbed, TInv, NEW t \in Actor, Advance(t)
  PROVE  Tidy'
<1> TypeOK /\ row \in Row /\ loc[t] \in Loc /\ Clean(loc[t])
  BY TidyAt DEF TInv, Tidy, AInv, TypeOK
<1>1. ~StartFails(t)
  BY Single DEF StartFails
<1>2. CASE Clear(t)
  <2>1. /\ loc[t].op = "restart" /\ loc[t].pc = "clear" /\ loc[t].new = NoContainer
        /\ row.installed
    BY <1>2 DEF Clear, Clean, Places
  <2>2. row' = [row EXCEPT !.host = NoHost] /\ UNCHANGED <<ctr, kernel>>
    BY <1>2, <2>1 DEF Clear, Update
  <2>3. /\ row'.cid = row.cid /\ row'.ccid = row.ccid /\ row'.enabled = row.enabled
        /\ row'.installed
    BY <2>1, <2>2 DEF Row
  <2>8. PICK pc \in {"stale"} : loc' = [loc EXCEPT ![t].pc = pc]
    BY <1>2 DEF Clear
  <2>4. PICK l : /\ loc' = [loc EXCEPT ![t] = l]
                 /\ l.op = loc[t].op /\ l.pc = pc
                 /\ l.copy = loc[t].copy /\ l.new = loc[t].new
    BY <2>8, Moved
  <2>5. Clean(l)'
    BY <2>1, <2>3, <2>4 DEF Clean, Places
  <2>6. /\ NoUninstalls => \A c \in Container : Exists(c)' => c \in {row'.cid, row'.ccid, l.new}
        /\ Holder("primary")' \subseteq {row'.cid, l.new}
    BY <2>2, <2>3, <2>4, TidyAt DEF Exists, Holder
  <2>7. NoRestarts => FALSE
    BY <2>1, TidyAt
  <2> QED BY <2>2, <2>3, <2>4, <2>5, <2>6, <2>7, TidyStep
<1>3. CASE CreateFails(t)
  <2>1. loc[t].pc = "create" /\ loc[t].op \in {"enable", "restart", "devmode", "deploy"}
        /\ loc[t].new = NoContainer /\ UNCHANGED <<row, ctr, kernel>>
    BY <1>3 DEF CreateFails, Clean, Places
  <2>2. Holder(SlotOf(loc[t].op)) # {}
    BY <1>3, Single DEF CreateFails
  <2>3. loc[t].op = "deploy"
    <3>1. loc[t].op # "deploy" => Holder("primary") # {} /\ Holder("primary") \subseteq Container
      BY <2>2 DEF SlotOf, Holder
    <3>2. loc[t].op # "deploy" => Holder("primary") \subseteq {NoContainer}
      BY <2>1 DEF Clean, StartsOwn
    <3> QED BY <3>1, <3>2, TidyAt
  <2>4. loc' = [loc EXCEPT ![t] = Idle]
    BY <1>3, <2>3 DEF CreateFails, Failed
  <2>5. PICK l : l = Idle
    OBVIOUS
  <2>6. l.op = "none" /\ l.pc = "idle" /\ l.new = NoContainer
    BY <2>5 DEF Idle
  <2>7. Clean(l)'
    BY <2>5, <2>6 DEF Clean, Places, StartsOwn
  <2>8. /\ NoUninstalls => /\ row'.installed
                           /\ \A c \in Container :
                                Exists(c)' => c \in {row'.cid, row'.ccid, l.new}
        /\ Holder("primary")' \subseteq {row'.cid, l.new}
        /\ ~row'.installed => row'.cid = NoContainer
    BY <2>1, <2>6, TidyAt DEF Exists, Holder
  <2>9. NoRestarts => /\ ~row'.enabled => Holder("primary")' \subseteq {l.new}
                      /\ l.op = "devmode" => row'.enabled
                      /\ l.op # "restart"
    BY <2>1, <2>6, TidyAt DEF Holder
  <2> QED BY <2>1, <2>4, <2>5, <2>7, <2>8, <2>9, TidyStep
<1>4. CASE RecordFailure(t)
  BY <1>4 DEF RecordFailure, Clean, Places
<1> QED
  BY <1>1, <1>2, <1>3, <1>4, StopsTidy, CreateTidy, FinishesTidy DEF Advance

\* The rest runs only when something fails, or changes no container's name.
LEMMA OtherTidy ==
  ASSUME Undisturbed, TInv,
         \/ \E c \in Container : Sdk(c) \/ Serve(c) \/ DockerRestart(c)
         \/ Age \/ CandidateAge \/ Shutdown \/ Exit \/ KernelBoot \/ Disturb
         \/ UNCHANGED vars
  PROVE  Tidy'
<1> row \in Row /\ ctr \in [Container -> Docker]
  BY DEF TInv, Tidy, AInv, TypeOK
<1>1. ~Shutdown /\ ~Exit /\ ~KernelBoot /\ ~KernelCrash /\ \A t \in Actor : ~RemoveFails(t)
  BY Single DEF Undisturbed, Alone, Reliable, TInv, Tidy, Shutdown, Exit, KernelBoot, KernelCrash,
                Fault, RemoveFails
<1>2. ASSUME NEW c \in Container, NEW from, NEW to, Become(c, from, to), "none" \notin from
      PROVE  Tidy'
  <2>1. Shrinks
    BY <1>2 DEF Become, Shrinks, Docker
  <2> QED BY <1>2, <2>1, TidySame DEF Become
<1>3. ASSUME NEW c \in Container, Sdk(c)
      PROVE  Tidy'
  <2>1. Shrinks
    BY <1>3 DEF Sdk, SendRegister, SendHeartbeat, SendDeregister, Shrinks, Docker
  <2>2. UNCHANGED <<row, loc, kernel>>
    BY <1>3 DEF Sdk, SendRegister, SendHeartbeat, SendDeregister, Send
  <2> QED BY <2>1, <2>2, TidySame
<1>4. ASSUME NEW c \in Container, Serve(c)
      PROVE  Tidy'
  <2>1. Shrinks
    <3>1. CASE SelfRegister(c)
      <4>1. ctr' = ctr \/ (ctr[c].st = "boot" /\ ctr' = [ctr EXCEPT ![c].st = "live"])
        BY <3>1 DEF SelfRegister
      <4> QED BY <4>1 DEF Shrinks, Docker
    <3>2. CASE Heartbeat(c) \/ Deregister(c)
      BY <3>2 DEF Heartbeat, Deregister, Shrinks
    <3> QED BY <1>4, <3>1, <3>2 DEF Serve
  <2>2. /\ UNCHANGED <<loc, kernel>>
        /\ row'.cid = row.cid /\ row'.ccid = row.ccid /\ row'.enabled = row.enabled
        /\ row'.installed = row.installed
    BY <1>4 DEF Serve, SelfRegister, Heartbeat, Deregister, Update, Row
  <2> QED BY <2>1, <2>2, TidySame
<1>5. CASE Age \/ CandidateAge \/ UNCHANGED vars
  <2>1. /\ UNCHANGED <<ctr, loc, kernel>>
        /\ row'.cid = row.cid /\ row'.ccid = row.ccid /\ row'.enabled = row.enabled
        /\ row'.installed = row.installed
    BY <1>5 DEF Age, CandidateAge, vars, Row
  <2> QED BY <2>1, TidySame DEF Shrinks
<1> QED
  BY <1>1, <1>2, <1>3, <1>4, <1>5 DEF Disturb, Crash, Hang, Recover, DockerRestart

LEMMA InitTidy == Undisturbed /\ Init => TInv
<1> SUFFICES ASSUME Undisturbed, Init PROVE Tidy
  BY InitApart DEF TInv
<1>1. \A c : ~Exists(c) /\ \A s : Holder(s) = {}
  BY DEF Init, Exists, Holder
<1>2. "boot" \notin Actor
  BY LifecycleAssumption DEF Actor, Undisturbed, Alone
<1>3. \A t \in Actor : loc[t] = Idle
  BY <1>2 DEF Init
<1>4. Clean(Idle) /\ Idle.op = "none"
  BY DEF Clean, Idle, Places, StartsOwn
<1>5. row.installed
  BY DEF Init, InstalledRow, NoRow
<1> QED BY <1>1, <1>3, <1>4, <1>5 DEF Tidy, Accounted, Owned, Off, Init

LEMMA NextTidy == Undisturbed /\ TInv /\ [Next]_vars => TInv'
<1> SUFFICES ASSUME Undisturbed, TInv, [Next]_vars PROVE Tidy'
  BY NextApart DEF TInv, Undisturbed
<1>1. ~MonitorStep /\ ~BootRead
  BY DEF Undisturbed, Alone, MonitorStep, MonitorTick, CheckNoContainer, CheckStale,
         CheckContainer, Checking, AutoRestart, CheckCandidates, CheckCandidate, BootRead
<1>2. CASE \E a \in Admin : Request(a)
  BY <1>2, RequestTidy
<1>3. CASE \E t \in Actor : Advance(t)
  BY <1>3, AdvanceTidy
<1> QED BY <1>1, <1>2, <1>3, OtherTidy DEF Next

LEMMA TidyAlways ==
  ASSUME Undisturbed
  PROVE  Spec => []TInv
<1>1. Undisturbed /\ Init => TInv
  BY InitTidy
<1>2. Undisturbed /\ TInv /\ [Next]_vars => TInv'
  BY NextTidy
<1> QED BY <1>1, <1>2, Undisturbed, PTL DEF Spec

\* Between operations, every container that exists is the plugin's own or its
\* candidate, in the row, and can be stopped: as long as nothing is promoted or
\* uninstalled, and Docker and the kernel do as they are told (plugins.go:572, 646,
\* deploy.go:76, 192).
THEOREM NothingOrphaned ==
  ASSUME Undisturbed, NoUninstalls
  PROVE  Spec => []NoOrphan
<1>1. NoUninstalls /\ TInv => NoOrphan
  <2> SUFFICES ASSUME NoUninstalls, TInv, Quiet, NEW c \in Container, Exists(c)
               PROVE  c \in {row.cid, row.ccid}
    BY DEF NoOrphan
  <2>1. \A t \in Actor : loc[t].new = NoContainer
    BY DEF Quiet, Idle, Exiting
  <2> QED BY <2>1, LifecycleAssumption DEF TInv, Tidy, Accounted
<1> QED BY <1>1, NoUninstalls, TidyAlways, PTL

\* A plugin that is disabled has no container of its own, through deployments,
\* uninstallations and installations, unless restarts are asked for, which start a
\* disabled plugin too (plugins.go:646, 685).
THEOREM DisabledStays ==
  ASSUME Undisturbed, NoRestarts
  PROVE  Spec => []DisabledStopped
<1>1. NoRestarts /\ TInv => DisabledStopped
  <2> SUFFICES ASSUME NoRestarts, TInv, Quiet, ~row.enabled, NEW c \in Holder("primary")
               PROVE  FALSE
    BY DEF DisabledStopped, Holder
  <2>1. c \in Container /\ \A t \in Actor : loc[t].new = NoContainer
    BY DEF Quiet, Idle, Exiting, Holder
  <2> QED BY <2>1, LifecycleAssumption DEF TInv, Tidy, Off
<1> QED BY <1>1, NoRestarts, TidyAlways, PTL

=============================================================================
