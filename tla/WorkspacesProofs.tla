---------------------------- MODULE WorkspacesProofs ----------------------------
(***************************************************************************)
(* What holds of the managed containers for any number of containers,      *)
(* requests, handlers and accidents: the types; that a restart that had    *)
(* its workspace to itself runs it with what its own update wrote; that    *)
(* what runs is what its row says, that the deleted is gone and that what  *)
(* has a row has a record, where nobody overlapped and nothing failed.     *)
(***************************************************************************)
EXTENDS Workspaces, TLAPS

Op == Starting \cup {"stop", "delete", "force"}

(***************************************************************************)
(* Type correctness.                                                       *)
(***************************************************************************)
LEMMA ConstantTypes ==
  /\ NoRow \in Row
  /\ 0 \in Id /\ 0 \in Version
  /\ \A k \in Call : NoCall # k
  /\ \A m \in Container : NoContainer # m
BY WorkspacesAssumption DEF NoRow, Row, Id, Version, NoId

LEMMA TypeInit == Init => TypeOK
BY ConstantTypes, WorkspacesAssumption DEF Init, TypeOK, Absent, NoId, NoHandler, NoRow

\* A handler at one of its steps serves a container; a request that waits or
\* goes on asks for one.
LEMMA ServingAt ==
  ASSUME TypeOK, NEW k \in Call, handler[k].pc # "idle"
  PROVE  handler[k] \in Serving /\ handler[k].pc \in Step(handler[k].op)
BY DEF TypeOK, NoHandler

LEMMA AskingAt ==
  ASSUME TypeOK, NEW r \in Request,
         \/ request[r].call # NoCall
         \/ request[r].pc # "idle"
         \/ request[r] # NoRequest
  PROVE  request[r] \in Asking
BY DEF TypeOK, NoRequest

LEMMA FirstStep ==
  ASSUME NEW m, NEW op \in {"create", "start", "stop", "delete"}
  PROVE  First(op, m) \in Step(op)
BY DEF First, Step

LEMMA FreeCallType ==
  ASSUME Free # {}
  PROVE  FreeCall \in Call /\ handler[FreeCall] = NoHandler
BY DEF Free, FreeCall

LEMMA ServeType ==
  ASSUME TypeOK, Free # {}, NEW op \in Op, NEW pc \in Step(op), NEW m \in Container,
         NEW mc \in Row, Serve(op, pc, m, mc)
  PROVE  /\ handler' \in [Call -> Serving \cup {NoHandler}]
         /\ \A k \in Call : handler'[k] # NoHandler => handler'[k].pc \in Step(handler'[k].op)
<1> DEFINE h == [op |-> op, pc |-> pc, m |-> m, mc |-> mc, ctx |-> TRUE]
<1>1. pc \in {"insert", "remove", "make", "run", "save", "halt", "drop", "ready", "failed"}
  BY DEF Step, Op, Starting
<1>2. h \in Serving
  BY <1>1 DEF Serving, Op
<1>3. h.pc \in Step(h.op)
  OBVIOUS
<1>4. handler' = [handler EXCEPT ![FreeCall] = h]
  BY DEF Serve
<1> HIDE DEF h
<1> QED BY <1>2, <1>3, <1>4, FreeCallType DEF TypeOK

\* A handler that goes on from one of its steps to another.
LEMMA GoType ==
  ASSUME TypeOK, NEW k \in Call, handler[k].pc # "idle",
         NEW h \in Serving, h.op = handler[k].op, h.pc \in Step(h.op),
         handler' = [handler EXCEPT ![k] = h]
  PROVE  /\ handler' \in [Call -> Serving \cup {NoHandler}]
         /\ \A j \in Call : handler'[j] # NoHandler => handler'[j].pc \in Step(handler'[j].op)
BY DEF TypeOK

LEMMA GoAsExcept ==
  ASSUME TypeOK, NEW k \in Call, handler[k].pc # "idle", NEW pc \in Step(handler[k].op),
         Go(k, pc)
  PROVE  /\ handler' \in [Call -> Serving \cup {NoHandler}]
         /\ \A j \in Call : handler'[j] # NoHandler => handler'[j].pc \in Step(handler'[j].op)
<1> DEFINE h == [handler[k] EXCEPT !.pc = pc]
<1>0. handler[k] \in Serving
  BY ServingAt
<1>1. pc \in {"insert", "remove", "make", "run", "save", "halt", "drop", "ready", "failed"}
  BY <1>0 DEF Step, Serving, Starting
<1>2. h \in Serving /\ h.op = handler[k].op /\ h.pc = pc
  BY <1>0, <1>1 DEF Serving
<1>3. handler' = [handler EXCEPT ![k] = h]
  BY DEF Go
<1> HIDE DEF h
<1> QED BY <1>2, <1>3, GoType

LEMMA DisturbType ==
  ASSUME TypeOK, NEW ms, Disturb(ms)
  PROVE  disturbed' \in [Container -> {"never", "now", "past"}]
BY DEF Disturb, TypeOK

LEMMA ExtraType ==
  ASSUME TypeOK, Extra
  PROVE  extras' \in 0..MaxExtras
BY WorkspacesAssumption DEF Extra, TypeOK

LEMMA AfterType ==
  ASSUME NEW q \in Asking, NEW ok \in BOOLEAN
  PROVE  After(q, ok) \in Asking \cup {NoRequest}
<1> USE DEF Asking
<1>1. [q EXCEPT !.call = NoCall, !.pc = "put"] \in Asking
  OBVIOUS
<1>2. [q EXCEPT !.call = NoCall, !.pc = "forget"] \in Asking
  OBVIOUS
<1>3. [q EXCEPT !.call = NoCall, !.pc = "update", !.stopped = ok] \in Asking
  OBVIOUS
<1> QED BY <1>1, <1>2, <1>3 DEF After

LEMMA AnsweredType ==
  ASSUME TypeOK, NEW k \in Call, NEW ok \in BOOLEAN, Answered(k, ok)
  PROVE  request' \in [Request -> Asking \cup {NoRequest}]
<1>1. ASSUME NEW r \in Request, Waits(r, k)
      PROVE  After(request[r], ok) \in Asking \cup {NoRequest}
  BY <1>1, ConstantTypes, AskingAt, AfterType DEF Waits
<1> QED BY <1>1 DEF Answered, TypeOK

LEMMA CrowdedType ==
  ASSUME TypeOK, NEW m
  PROVE  /\ Crowded(m) \in [Request -> Asking \cup {NoRequest}]
         /\ \A r \in Request :
              Crowded(m)[r] = [request[r] EXCEPT !.alone = @ /\ request[r].m # m]
<1>1. ASSUME NEW r \in Request
      PROVE  [request[r] EXCEPT !.alone = @ /\ request[r].m # m] \in Asking \cup {NoRequest}
  <2>1. CASE request[r] = NoRequest
    <3>1. (request[r].alone /\ request[r].m # m) = FALSE
      BY <2>1 DEF NoRequest
    <3>2. request[r] \in [op : {"none"}, pc : {"idle"}, m : {NoContainer}, call : {NoCall},
                          config : {0}, stopped : {FALSE}, alone : {FALSE}]
      BY <2>1 DEF NoRequest
    <3>3. [request[r] EXCEPT !.alone = FALSE] = request[r]
      BY <3>2
    <3> QED BY <2>1, <3>1, <3>3
  <2>2. CASE request[r] \in Asking
    BY <2>2 DEF Asking
  <2> QED BY <2>1, <2>2 DEF TypeOK
<1> QED BY <1>1 DEF Crowded

LEMMA CallKernelType ==
  ASSUME TypeOK, NEW r \in Request, NEW q \in Asking,
         NEW op \in {"create", "start", "stop", "delete"}, CallKernel(r, q, op)
  PROVE  /\ handler' \in [Call -> Serving \cup {NoHandler}]
         /\ \A k \in Call : handler'[k] # NoHandler => handler'[k].pc \in Step(handler'[k].op)
         /\ request' \in [Request -> Asking \cup {NoRequest}]
         /\ disturbed' \in [Container -> {"never", "now", "past"}]
<1>1. q.m \in Container /\ row[q.m] \in Row
  BY DEF Asking, TypeOK
<1>2. /\ handler' \in [Call -> Serving \cup {NoHandler}]
      /\ \A k \in Call : handler'[k] # NoHandler => handler'[k].pc \in Step(handler'[k].op)
  BY <1>1, FirstStep, ServeType DEF CallKernel, Op, Starting
<1>3. PICK b \in BOOLEAN :
        request' = [Crowded(q.m) EXCEPT ![r] =
                      [q EXCEPT !.call = FreeCall, !.pc = op, !.alone = b]]
  BY DEF CallKernel, Asking
<1>4. [q EXCEPT !.call = FreeCall, !.pc = op, !.alone = b] \in Asking
  BY FreeCallType DEF CallKernel, Asking
<1>5. request' \in [Request -> Asking \cup {NoRequest}]
  BY <1>3, <1>4, CrowdedType
<1> QED BY <1>2, <1>5, DisturbType DEF CallKernel, Overlaps

LEMMA AskedType ==
  ASSUME NEW op \in {"create", "rebuild", "stop", "start", "delete"}, NEW m \in Container
  PROVE  /\ Asked(op, m) \in Asking
         /\ Asked(op, m).op = op /\ Asked(op, m).m = m
         /\ ~Asked(op, m).stopped /\ Asked(op, m).call = NoCall
<1> DEFINE q == NoRequest
<1>1. q \in [op : {"none"}, pc : {"idle"}, m : {NoContainer}, call : {NoCall},
             config : {0}, stopped : {FALSE}, alone : {FALSE}]
  BY DEF NoRequest
<1>2. Asked(op, m) = [q EXCEPT !.op = op, !.m = m, !.alone = TRUE]
  BY DEF Asked
<1> HIDE DEF q
<1>3. Asked(op, m) \in [op : {op}, pc : {"idle"}, m : {m}, call : {NoCall},
                        config : {0}, stopped : {FALSE}, alone : {TRUE}]
  BY <1>1, <1>2
<1> QED BY <1>3, ConstantTypes DEF Asking

(***************************************************************************)
(* The types, part by part.                                                *)
(***************************************************************************)
RowType ==
  /\ row \in [Container -> Row]
  /\ \A m \in Container : row[m].status = "none" => row[m] = NoRow
DockType == dock \in [Container -> [id : Id, running : BOOLEAN, config : Version]]
HandlerType ==
  /\ handler \in [Call -> Serving \cup {NoHandler}]
  /\ \A k \in Call : handler[k] # NoHandler => handler[k].pc \in Step(handler[k].op)
SystemType ==
  /\ listed \in [Container -> Id]
  /\ kernel \in {"starting", "up", "closing", "down"}
  /\ recovery \in [Container -> Row]
RequestType == request \in [Request -> Asking \cup {NoRequest}]
ManagerType == record \subseteq Container
HistoryType ==
  /\ created \subseteq Container
  /\ removed \subseteq Container
DisturbedType == disturbed \in [Container -> {"never", "now", "past"}]
BoundsType ==
  /\ starts \in Id
  /\ requests \in 0..MaxRequests
  /\ extras \in 0..MaxExtras

LEMMA NextParts ==
  ASSUME RowType', DockType', HandlerType', SystemType', RequestType',
         ManagerType', HistoryType', DisturbedType', BoundsType'
  PROVE  TypeOK'
BY DEF TypeOK, RowType, DockType, HandlerType, SystemType, RequestType, ManagerType,
   HistoryType, DisturbedType, BoundsType

LEMMA SameParts ==
  ASSUME TypeOK
  PROVE  /\ UNCHANGED row => RowType'
         /\ UNCHANGED dock => DockType'
         /\ UNCHANGED handler => HandlerType'
         /\ UNCHANGED system => SystemType'
         /\ UNCHANGED request => RequestType'
         /\ UNCHANGED record => ManagerType'
         /\ UNCHANGED history => HistoryType'
         /\ UNCHANGED disturbed => DisturbedType'
         /\ UNCHANGED bounds => BoundsType'
BY DEF TypeOK, RowType, DockType, HandlerType, SystemType, RequestType, ManagerType,
   HistoryType, DisturbedType, BoundsType, system, history, bounds

LEMMA RowSet ==
  ASSUME TypeOK, NEW m \in Container, NEW r \in Row, r.status = "none" => r = NoRow,
         row' = [row EXCEPT ![m] = r]
  PROVE  RowType'
BY DEF TypeOK, RowType

LEMMA RowFields ==
  ASSUME NEW r \in Row, NEW status \in {"running", "stopped"}, NEW cid \in Id
  PROVE  /\ [r EXCEPT !.status = status] \in Row
         /\ [r EXCEPT !.status = status].status = status
         /\ [r EXCEPT !.cid = cid] \in Row
         /\ [r EXCEPT !.cid = cid].status = r.status
BY DEF Row

LEMMA DockSet ==
  ASSUME TypeOK, NEW m \in Container,
         NEW d \in [id : Id, running : BOOLEAN, config : Version],
         dock' = [dock EXCEPT ![m] = d]
  PROVE  DockType'
BY DEF TypeOK, DockType

LEMMA AbsentType == Absent \in [id : Id, running : BOOLEAN, config : Version]
BY ConstantTypes DEF Absent, NoId

LEMMA DockRuns ==
  ASSUME TypeOK, NEW m \in Container, NEW b \in BOOLEAN,
         dock' = [dock EXCEPT ![m].running = b]
  PROVE  DockType'
<1> DEFINE d == [dock[m] EXCEPT !.running = b]
<1>1. d \in [id : Id, running : BOOLEAN, config : Version]
  BY DEF TypeOK
<1>2. dock' = [dock EXCEPT ![m] = d]
  OBVIOUS
<1> HIDE DEF d
<1> QED BY <1>1, <1>2, DockSet

LEMMA HandlerSet ==
  ASSUME TypeOK, NEW k \in Call, handler[k].pc # "idle",
         NEW h \in Serving, h.op = handler[k].op, h.pc \in Step(h.op),
         handler' = [handler EXCEPT ![k] = h]
  PROVE  HandlerType'
BY GoType DEF HandlerType

LEMMA HandlerGoes ==
  ASSUME TypeOK, NEW k \in Call, handler[k].pc # "idle", NEW pc \in Step(handler[k].op),
         Go(k, pc)
  PROVE  HandlerType'
BY GoAsExcept DEF HandlerType

LEMMA MadeType ==
  ASSUME TypeOK, NEW k \in Call, handler[k] \in Serving, Made(k)
  PROVE  DockType' /\ starts' \in Id /\ starts + 1 \in Id
<1> DEFINE d == [id |-> starts + 1, running |-> FALSE, config |-> handler[k].mc.config]
<1>1. starts' \in Id /\ starts + 1 \in Id
  BY WorkspacesAssumption DEF Made, TypeOK, Id
<1>2. d \in [id : Id, running : BOOLEAN, config : Version] /\ handler[k].m \in Container
  BY <1>1 DEF Serving, Row
<1>3. dock' = [dock EXCEPT ![handler[k].m] = d]
  BY DEF Made
<1> HIDE DEF d
<1> QED BY <1>1, <1>2, <1>3, DockSet

LEMMA UndoType ==
  ASSUME TypeOK, NEW k \in Call, handler[k].pc \in {"make", "run"}, Undo(k)
  PROVE  RowType' /\ removed' \subseteq Container /\ HandlerType'
<1>1. handler[k] \in Serving /\ handler[k].pc \in Step(handler[k].op)
  BY ServingAt
<1>2. handler[k].op \in Starting /\ handler[k].m \in Container
  BY <1>1 DEF Serving, Step, Starting
<1>3. HandlerType'
  <2>1. "failed" \in Step(handler[k].op)
    BY <1>2 DEF Step, Starting
  <2> QED BY <2>1, HandlerGoes DEF Undo
<1>4. RowType'
  <2>1. CASE handler[k].op = "create"
    <3>1. row' = [row EXCEPT ![handler[k].m] = NoRow]
      BY <2>1 DEF Undo
    <3> QED BY <3>1, <1>2, ConstantTypes, RowSet
  <2>2. CASE handler[k].op = "recover" /\ row[handler[k].m] # NoRow
    <3> DEFINE r == [row[handler[k].m] EXCEPT !.status = "stopped"]
    <3>1. r \in Row /\ r.status = "stopped"
      BY <1>2, RowFields DEF TypeOK
    <3>2. row' = [row EXCEPT ![handler[k].m] = r]
      BY <2>2 DEF Undo
    <3> HIDE DEF r
    <3> QED BY <3>1, <3>2, <1>2, RowSet
  <2>3. CASE handler[k].op # "create" /\ ~(handler[k].op = "recover" /\ row[handler[k].m] # NoRow)
    <3>1. row' = row
      BY <2>3 DEF Undo
    <3> QED BY <3>1, SameParts
  <2> QED BY <2>1, <2>2, <2>3
<1>5. removed' \subseteq Container
  BY <1>2 DEF Undo, TypeOK
<1> QED BY <1>3, <1>4, <1>5

LEMMA HandleType ==
  ASSUME TypeOK, NEW k \in Call, Handle(k)
  PROVE  TypeOK'
<1> USE DEF At
<1>0. /\ handler[k].pc # "idle"
      /\ handler[k] \in Serving
      /\ handler[k].pc \in Step(handler[k].op)
  <2>1. handler[k].pc # "idle"
    BY DEF Handle, CreateRow, RemoveStale, MakeContainer, MakeFails, RunContainer, RunFails,
       SaveStarted, HaltContainer, HaltFails, SaveStopped, DropRow, Respond
  <2> QED BY <2>1, ServingAt
<1>m. /\ handler[k].m \in Container
      /\ handler[k].mc \in Row
      /\ handler[k].op \in Starting \cup {"stop", "delete", "force"}
  BY <1>0 DEF Serving
<1> DEFINE m == handler[k].m
<1>1. CASE CreateRow(k)
  <2> DEFINE mc == [NoRow EXCEPT !.status = "stopped"]
             h == [handler[k] EXCEPT !.mc = mc, !.pc = "remove"]
  <2>1. mc \in Row /\ mc.status = "stopped"
    BY RowFields, ConstantTypes
  <2>2. handler' = [handler EXCEPT ![k] = h]
    BY <1>1 DEF CreateRow
  <2>3. row' = [row EXCEPT ![m] = mc]
    BY <1>1 DEF CreateRow
  <2> HIDE DEF mc
  <2>4. h \in Serving /\ h.op = handler[k].op /\ h.pc = "remove"
    BY <1>0, <2>1 DEF Serving
  <2> HIDE DEF h
  <2>5. "remove" \in Step(handler[k].op)
    BY <1>0, <1>1, <1>m DEF CreateRow, Step, Starting
  <2>6. HandlerType'
    BY <2>2, <2>4, <2>5, <1>0, HandlerSet
  <2>7. RowType'
    BY <1>m, <2>1, <2>3, RowSet
  <2> QED BY <1>1, <2>6, <2>7, NextParts, SameParts DEF CreateRow, manager
<1>2. CASE RemoveStale(k)
  <2>1. "make" \in Step(handler[k].op)
    BY <1>0, <1>2, <1>m DEF RemoveStale, Step, Starting
  <2>2. HandlerType'
    BY <1>0, <1>2, <2>1, HandlerGoes DEF RemoveStale
  <2>3. DockType'
    BY <1>2, <1>m, AbsentType, DockSet, SameParts DEF RemoveStale
  <2> QED BY <1>2, <2>2, <2>3, NextParts, SameParts DEF RemoveStale, manager
<1>3. CASE MakeContainer(k)
  <2> DEFINE h == [handler[k] EXCEPT !.pc = "run", !.mc.cid = starts + 1]
  <2>1. DockType' /\ starts' \in Id /\ starts + 1 \in Id
    BY <1>0, <1>3, MadeType DEF MakeContainer
  <2>2. handler' = [handler EXCEPT ![k] = h]
    BY <1>3 DEF MakeContainer
  <2>3. h \in Serving /\ h.op = handler[k].op /\ h.pc = "run"
    <3> DEFINE mc == [handler[k].mc EXCEPT !.cid = starts + 1]
    <3>1. mc \in Row
      BY <1>m, <2>1, RowFields
    <3>2. h = [handler[k] EXCEPT !.pc = "run", !.mc = mc]
      BY <1>0 DEF Serving
    <3> HIDE DEF mc
    <3> QED BY <1>0, <3>1, <3>2 DEF Serving
  <2> HIDE DEF h
  <2>4. "run" \in Step(handler[k].op)
    BY <1>0, <1>3, <1>m DEF MakeContainer, Step, Starting
  <2>5. HandlerType'
    BY <1>0, <2>2, <2>3, <2>4, HandlerSet
  <2>6. BoundsType'
    BY <1>3, <2>1 DEF MakeContainer, BoundsType, TypeOK
  <2> QED BY <1>3, <2>1, <2>5, <2>6, NextParts, SameParts DEF MakeContainer, manager
<1>4. CASE MakeFails(k)
  <2>1. RowType' /\ removed' \subseteq Container /\ HandlerType'
    BY <1>4, UndoType DEF MakeFails
  <2>2. DockType' /\ starts' \in Id
    BY <1>0, <1>4, MadeType, SameParts DEF MakeFails, TypeOK
  <2>3. BoundsType' /\ HistoryType'
    BY <1>4, <2>1, <2>2 DEF MakeFails, BoundsType, HistoryType, TypeOK
  <2> QED BY <1>4, <2>1, <2>2, <2>3, NextParts, SameParts DEF MakeFails, manager
<1>5. CASE RunContainer(k)
  <2>1. "save" \in Step(handler[k].op)
    BY <1>0, <1>5, <1>m DEF RunContainer, Step, Starting
  <2>2. HandlerType'
    BY <1>0, <1>5, <2>1, HandlerGoes DEF RunContainer
  <2>3. DockType'
    BY <1>5, <1>m, DockRuns DEF RunContainer
  <2> QED BY <1>5, <2>2, <2>3, NextParts, SameParts DEF RunContainer, manager
<1>6. CASE RunFails(k)
  <2>1. RowType' /\ removed' \subseteq Container /\ HandlerType'
    BY <1>6, UndoType DEF RunFails
  <2>2. DockType'
    BY <1>6, <1>m, DockRuns, SameParts DEF RunFails
  <2>3. extras' \in 0..MaxExtras
    BY <1>6, ExtraType DEF RunFails, TypeOK
  <2>4. BoundsType' /\ HistoryType'
    BY <1>6, <2>1, <2>3 DEF RunFails, BoundsType, HistoryType, TypeOK
  <2> QED BY <1>6, <2>1, <2>2, <2>4, NextParts, SameParts DEF RunFails, manager
<1>7. CASE SaveStarted(k)
  <2> DEFINE saved == [handler[k].mc EXCEPT !.status = "running"]
             r == [row[m] EXCEPT !.cid = saved.cid]
  <2>1. saved \in Row /\ saved.status = "running" /\ saved.cid \in Id
    <3>1. saved \in Row /\ saved.status = "running"
      BY <1>m, ConstantTypes, RowFields
    <3> HIDE DEF saved
    <3> QED BY <3>1 DEF Row
  <2>2. \/ row' = [row EXCEPT ![m] = saved]
        \/ UNCHANGED row
        \/ row[m] # NoRow /\ row' = [row EXCEPT ![m] = r]
    BY <1>7 DEF SaveStarted
  <2>3. row[m] # NoRow => r \in Row /\ r.status # "none"
    <3>1. row[m] \in Row /\ (row[m].status = "none" => row[m] = NoRow)
      BY <1>m DEF TypeOK
    <3> HIDE DEF saved
    <3> QED BY <2>1, <3>1, RowFields
  <2> HIDE DEF saved, r
  <2>4. RowType'
    BY <1>m, <2>1, <2>2, <2>3, RowSet, SameParts
  <2>5. DisturbedType'
    BY <1>7 DEF SaveStarted, DisturbedType, TypeOK
  <2>6. "ready" \in Step(handler[k].op)
    BY <1>m DEF Step, Starting
  <2>7. HandlerType'
    BY <1>0, <1>7, <2>6, HandlerGoes DEF SaveStarted
  <2> QED BY <1>7, <2>4, <2>5, <2>7, NextParts, SameParts DEF SaveStarted, manager
<1>8. CASE HaltContainer(k)
  <2>1. (IF handler[k].op = "stop" THEN "save" ELSE "drop") \in Step(handler[k].op)
    BY <1>0, <1>8, <1>m DEF HaltContainer, Step, Starting
  <2>2. HandlerType'
    BY <1>0, <1>8, <2>1, HandlerGoes DEF HaltContainer
  <2>3. DockType'
    BY <1>8, <1>m, AbsentType, DockSet, SameParts DEF HaltContainer
  <2> QED BY <1>8, <2>2, <2>3, NextParts, SameParts DEF HaltContainer, manager
<1>9. CASE HaltFails(k)
  <2>1. (IF handler[k].op = "force" THEN "drop" ELSE "failed") \in Step(handler[k].op)
    BY <1>0, <1>9, <1>m DEF HaltFails, Step, Starting
  <2>2. HandlerType'
    BY <1>0, <1>9, <2>1, HandlerGoes DEF HaltFails
  <2>3. DockType'
    BY <1>9, <1>m, DockRuns, SameParts DEF HaltFails
  <2>4. DisturbedType'
    BY <1>9, DisturbType DEF HaltFails, DisturbedType
  <2>5. BoundsType'
    BY <1>9, ExtraType DEF HaltFails, BoundsType, TypeOK
  <2> QED BY <1>9, <2>2, <2>3, <2>4, <2>5, NextParts, SameParts DEF HaltFails, manager
<1>10. CASE SaveStopped(k)
  <2> DEFINE r == [handler[k].mc EXCEPT !.status = "stopped", !.cid = NoId]
  <2>1. r \in Row /\ r.status = "stopped"
    <3>1. NoId \in Id
      BY ConstantTypes DEF NoId
    <3> QED BY <1>m, <3>1 DEF Row
  <2>2. row' = [row EXCEPT ![m] = r]
    BY <1>10 DEF SaveStopped
  <2> HIDE DEF r
  <2>3. RowType'
    BY <1>m, <2>1, <2>2, RowSet
  <2>4. "ready" \in Step(handler[k].op)
    BY <1>m DEF Step, Starting
  <2>5. HandlerType'
    BY <1>0, <1>10, <2>4, HandlerGoes DEF SaveStopped
  <2> QED BY <1>10, <2>3, <2>5, NextParts, SameParts DEF SaveStopped, manager
<1>11. CASE DropRow(k)
  <2>1. RowType'
    BY <1>11, <1>m, ConstantTypes, RowSet DEF DropRow
  <2>2. "ready" \in Step(handler[k].op)
    BY <1>m DEF Step, Starting
  <2>3. HandlerType'
    BY <1>0, <1>11, <2>2, HandlerGoes DEF DropRow
  <2>4. HistoryType'
    BY <1>11, <1>m DEF DropRow, HistoryType, TypeOK
  <2> QED BY <1>11, <2>1, <2>3, <2>4, NextParts, SameParts DEF DropRow, manager
<1>12. CASE Respond(k)
  <2>1. HandlerType'
    BY <1>12 DEF Respond, HandlerType, TypeOK
  <2>2. RequestType'
    BY <1>12, AnsweredType DEF Respond, RequestType
  <2> QED BY <1>12, <2>1, <2>2, NextParts, SameParts DEF Respond
<1> QED
  BY <1>1, <1>2, <1>3, <1>4, <1>5, <1>6, <1>7, <1>8, <1>9, <1>10, <1>11, <1>12 DEF Handle

LEMMA CallType ==
  ASSUME TypeOK, NEW r \in Request, NEW q \in Asking,
         NEW op \in {"create", "start", "stop", "delete"}, CallKernel(r, q, op)
  PROVE  HandlerType' /\ RequestType' /\ DisturbedType'
BY CallKernelType DEF HandlerType, RequestType, DisturbedType

LEMMA FreeRequestType ==
  ASSUME TypeOK, Begins
  PROVE  /\ FreeRequest \in Request /\ request[FreeRequest] = NoRequest
         /\ requests' \in 0..MaxRequests
BY WorkspacesAssumption DEF Begins, FreeRequest, TypeOK

LEMMA AskType ==
  ASSUME TypeOK, NEW m \in Container, Ask(m)
  PROVE  TypeOK'
<1>1. CASE CreateWorkspace(m)
  <2>1. HandlerType' /\ RequestType' /\ DisturbedType'
    BY <1>1, FreeRequestType, AskedType, CallType DEF CreateWorkspace
  <2>2. BoundsType' /\ HistoryType'
    BY <1>1, FreeRequestType DEF CreateWorkspace, BoundsType, HistoryType, TypeOK
  <2> QED BY <1>1, <2>1, <2>2, NextParts, SameParts DEF CreateWorkspace
<1>2. CASE RebuildWorkspace(m)
  <2>0. PICK sent \in Version :
          CallKernel(FreeRequest, [Asked("rebuild", m) EXCEPT !.config = sent], "stop")
    BY <1>2, FreeRequestType, ConstantTypes DEF RebuildWorkspace, Nothing, Version
  <2> DEFINE a == Asked("rebuild", m)
             q == [a EXCEPT !.config = sent]
  <2>1. a \in Asking
    BY AskedType
  <2> HIDE DEF a
  <2>2. q \in Asking
    BY <2>1 DEF Asking, TypeOK
  <2>3. CallKernel(FreeRequest, q, "stop")
    BY <2>0 DEF a
  <2> HIDE DEF q
  <2>4. HandlerType' /\ RequestType' /\ DisturbedType'
    BY <1>2, <2>2, <2>3, FreeRequestType, CallType DEF RebuildWorkspace
  <2>5. BoundsType'
    BY <1>2, FreeRequestType DEF RebuildWorkspace, BoundsType, TypeOK
  <2> QED BY <1>2, <2>4, <2>5, NextParts, SameParts DEF RebuildWorkspace
<1>3. CASE StopWorkspace(m)
  <2>1. HandlerType' /\ RequestType' /\ DisturbedType'
    BY <1>3, FreeRequestType, AskedType, CallType DEF StopWorkspace
  <2>2. BoundsType'
    BY <1>3, FreeRequestType DEF StopWorkspace, BoundsType, TypeOK
  <2> QED BY <1>3, <2>1, <2>2, NextParts, SameParts DEF StopWorkspace
<1>4. CASE ToolStartWorkspace(m)
  <2>1. HandlerType' /\ RequestType' /\ DisturbedType'
    BY <1>4, FreeRequestType, AskedType, CallType DEF ToolStartWorkspace
  <2>2. BoundsType'
    BY <1>4, FreeRequestType DEF ToolStartWorkspace, BoundsType, TypeOK
  <2> QED BY <1>4, <2>1, <2>2, NextParts, SameParts DEF ToolStartWorkspace
<1>5. CASE DeleteWorkspace(m)
  <2>1. HandlerType' /\ RequestType' /\ DisturbedType'
    BY <1>5, FreeRequestType, AskedType, CallType DEF DeleteWorkspace
  <2>2. BoundsType'
    BY <1>5, FreeRequestType DEF DeleteWorkspace, BoundsType, TypeOK
  <2> QED BY <1>5, <2>1, <2>2, NextParts, SameParts DEF DeleteWorkspace
<1> QED BY <1>1, <1>2, <1>3, <1>4, <1>5 DEF Ask

\* A request ends, or goes on to another step.
LEMMA RequestEnds ==
  ASSUME TypeOK, NEW r \in Request, request' = [request EXCEPT ![r] = NoRequest]
  PROVE  RequestType'
BY DEF RequestType, TypeOK

LEMMA GoOnType ==
  ASSUME TypeOK, NEW r \in Request, GoOn(r)
  PROVE  TypeOK'
<1>0. request[r] \in Asking /\ request[r].m \in Container /\ request[r].config \in Version
  <2>1. request[r].pc # "idle"
    BY DEF GoOn, PutRecord, UpdateContainer, StartAgain, ForgetWorkspace
  <2> QED BY <2>1, AskingAt DEF Asking
<1>1. CASE PutRecord(r)
  BY <1>0, <1>1, NextParts, SameParts, RequestEnds
     DEF PutRecord, ManagerType, TypeOK
<1>2. CASE UpdateContainer(r)
  <2> DEFINE m == request[r].m
             d == Updated(row[m].config, request[r].config)
             c == [row[m] EXCEPT !.config = d]
             q == [request[r] EXCEPT !.pc = "again", !.config = d]
  <2>1. CASE kernel # "down" /\ row[m] # NoRow
    <3>1. row[m] \in Row /\ row[m].status # "none"
      BY <1>0, <2>1 DEF TypeOK
    <3>0. d \in Version
      BY <1>0, <3>1 DEF Updated, Row
    <3> HIDE DEF d
    <3>2. c \in Row /\ c.status # "none"
      BY <3>0, <3>1 DEF Row
    <3>3. q \in Asking
      BY <1>0, <3>0 DEF Asking
    <3>4. row' = [row EXCEPT ![m] = c] /\ request' = [request EXCEPT ![r] = q]
      BY <1>2, <2>1 DEF UpdateContainer, d
    <3> HIDE DEF c, q
    <3>5. RowType'
      BY <1>0, <3>2, <3>4, RowSet
    <3>6. RequestType'
      BY <3>3, <3>4 DEF RequestType, TypeOK
    <3> QED BY <1>2, <3>5, <3>6, NextParts, SameParts DEF UpdateContainer
  <2>2. CASE ~(kernel # "down" /\ row[m] # NoRow)
    BY <1>2, <2>2, RequestEnds, NextParts, SameParts DEF UpdateContainer
  <2> QED BY <2>1, <2>2
<1>3. CASE StartAgain(r)
  <2>1. HandlerType' /\ RequestType' /\ DisturbedType'
    BY <1>0, <1>3, CallType, RequestEnds, SameParts DEF StartAgain
  <2> QED BY <1>3, <2>1, NextParts, SameParts DEF StartAgain
<1>4. CASE ForgetWorkspace(r)
  BY <1>0, <1>4, NextParts, SameParts, RequestEnds
     DEF ForgetWorkspace, ManagerType, TypeOK
<1> QED BY <1>1, <1>2, <1>3, <1>4 DEF GoOn

LEMMA TimeOutType ==
  ASSUME TypeOK, NEW k \in Call, TimeOut(k)
  PROVE  TypeOK'
<1>1. handler[k] \in Serving
  BY DEF TimeOut, TypeOK, NoHandler
<1> DEFINE h == [handler[k] EXCEPT !.ctx = FALSE]
<1>2. h \in Serving /\ h.op = handler[k].op /\ h.pc = handler[k].pc
  BY <1>1 DEF Serving
<1>3. handler' = [handler EXCEPT ![k] = h]
  BY DEF TimeOut
<1>4. h # NoHandler /\ handler[k] # NoHandler
  BY <1>1, <1>2, ConstantTypes DEF Serving, NoHandler
<1> HIDE DEF h
<1>5. HandlerType'
  BY <1>2, <1>3, <1>4 DEF HandlerType, TypeOK
<1>6. RequestType'
  BY AnsweredType DEF TimeOut, RequestType
<1>7. DisturbedType' /\ BoundsType'
  BY DisturbType, ExtraType DEF TimeOut, DisturbedType, BoundsType, TypeOK
<1> QED BY <1>5, <1>6, <1>7, NextParts, SameParts DEF TimeOut

LEMMA ServedType ==
  ASSUME TypeOK, Free # {}, NEW op \in Op, NEW pc \in Step(op), NEW m \in Container,
         NEW mc \in Row, Serve(op, pc, m, mc)
  PROVE  HandlerType'
BY ServeType DEF HandlerType

LEMMA CrowdType ==
  ASSUME TypeOK, NEW m \in Container, NEW others, request' = Crowded(m), Overlaps(m, others)
  PROVE  RequestType' /\ DisturbedType'
BY CrowdedType, DisturbType DEF Overlaps, RequestType, DisturbedType

LEMMA ManagerEndsType ==
  ASSUME TypeOK, ManagerEnds
  PROVE  HandlerType' /\ RequestType'
<1>1. ASSUME NEW k \in Call, \E r \in Request : Waits(r, k)
      PROVE  /\ [handler[k] EXCEPT !.ctx = FALSE] \in Serving \cup {NoHandler}
             /\ [handler[k] EXCEPT !.ctx = FALSE] # NoHandler =>
                  [handler[k] EXCEPT !.ctx = FALSE].pc \in Step([handler[k] EXCEPT !.ctx = FALSE].op)
  <2> DEFINE h == [handler[k] EXCEPT !.ctx = FALSE]
  <2>1. CASE handler[k] = NoHandler
    <3>1. handler[k] \in [op : {"none"}, pc : {"idle"}, m : {NoContainer}, mc : {NoRow},
                          ctx : {FALSE}]
      BY <2>1 DEF NoHandler
    <3>2. h = handler[k]
      BY <3>1
    <3> QED BY <2>1, <3>2
  <2>2. CASE handler[k] \in Serving
    <3>1. h \in Serving /\ h.op = handler[k].op /\ h.pc = handler[k].pc
      BY <2>2 DEF Serving
    <3>2. handler[k] # NoHandler
      BY <2>2, ConstantTypes DEF Serving, NoHandler
    <3> HIDE DEF h
    <3>3. h.pc \in Step(h.op)
      BY <3>1, <3>2 DEF TypeOK
    <3> QED BY <3>1, <3>3 DEF h
  <2> QED BY <2>1, <2>2 DEF TypeOK
<1>2. HandlerType'
  <2> DEFINE Lost(k) == \E r \in Request : Waits(r, k)
             h(k) == [handler[k] EXCEPT !.ctx = FALSE]
  <2>1. \A k \in Call : Lost(k) => /\ h(k) \in Serving \cup {NoHandler}
                                   /\ h(k) # NoHandler => h(k).pc \in Step(h(k).op)
    BY <1>1
  <2>2. handler' = [k \in Call |-> IF Lost(k) THEN h(k) ELSE handler[k]]
    BY DEF ManagerEnds
  <2> HIDE DEF Lost, h
  <2> QED BY <2>1, <2>2 DEF HandlerType, TypeOK
<1> QED BY <1>2 DEF ManagerEnds, RequestType

LEMMA MonitorType ==
  ASSUME TypeOK, MonitorLists \/ \E m \in Container : MonitorChecks(m)
  PROVE  TypeOK'
<1>1. CASE MonitorLists
  <2>1. SystemType'
    BY <1>1, ConstantTypes DEF MonitorLists, SystemType, TypeOK, Row, NoId
  <2> QED BY <1>1, <2>1, NextParts, SameParts DEF MonitorLists, manager
<1>2. ASSUME NEW m \in Container, MonitorChecks(m) PROVE TypeOK'
  <2>1. SystemType'
    BY <1>2, ConstantTypes DEF MonitorChecks, SystemType, TypeOK, NoId
  <2>2. RowType' /\ DisturbedType' /\ BoundsType'
    <3>1. CASE UNCHANGED <<row, disturbed, extras>>
      BY <1>2, <3>1, SameParts DEF MonitorChecks, bounds
    <3>2. CASE /\ IF Healthy(m) THEN Extra ELSE UNCHANGED extras
               /\ row' = [row EXCEPT ![m].status = IF row[m] = NoRow THEN @ ELSE "stopped"]
               /\ Disturb({x \in {m} : Runs(x) \/ Users(x) # {}})
      <4> DEFINE r == [row[m] EXCEPT !.status = "stopped"]
      <4>1. row[m] \in Row
        BY DEF TypeOK
      <4>2. r \in Row /\ r.status = "stopped"
        BY <4>1, ConstantTypes, RowFields
      <4>3. \/ row' = [row EXCEPT ![m] = r]
            \/ row' = row
        <5>1. CASE row[m] = NoRow
          <6>1. row' = [row EXCEPT ![m].status = row[m].status]
            BY <3>2, <5>1
          <6>2. [row[m] EXCEPT !.status = row[m].status] = row[m]
            BY <4>1 DEF Row
          <6> QED BY <6>1, <6>2 DEF TypeOK
        <5>2. CASE row[m] # NoRow
          BY <3>2, <5>2
        <5> QED BY <5>1, <5>2
      <4> HIDE DEF r
      <4>4. RowType'
        BY <4>2, <4>3, RowSet, SameParts
      <4>5. extras' \in 0..MaxExtras
        BY <3>2, ExtraType DEF TypeOK
      <4>6. DisturbedType'
        BY <3>2, DisturbType DEF DisturbedType
      <4> QED BY <1>2, <4>4, <4>5, <4>6 DEF MonitorChecks, BoundsType, TypeOK
    <3> QED BY <1>2, <3>1, <3>2 DEF MonitorChecks
  <2> QED BY <1>2, <2>1, <2>2, NextParts, SameParts DEF MonitorChecks, manager
<1> QED BY <1>1, <1>2

LEMMA StopAllType ==
  ASSUME TypeOK, StopAllPlugins
  PROVE  TypeOK'
<1> DEFINE Running == {m \in Container : row[m].status = "running" /\ row[m].cid # NoId}
           Held(m) == m \in Running /\ dock[m].id = row[m].cid
           r(m) == [row[m] EXCEPT !.status = "stopped", !.cid = NoId]
<1>1. PICK left \in SUBSET Running :
        /\ dock' = [m \in Container |-> IF Held(m) /\ m \notin left THEN Absent ELSE dock[m]]
        /\ row' = [m \in Container |-> IF m \in Running THEN r(m) ELSE row[m]]
        /\ Disturb(Interrupted \cup left)
  BY DEF StopAllPlugins
<1>2. ASSUME NEW m \in Container PROVE r(m) \in Row /\ r(m).status = "stopped"
  <2>1. row[m] \in Row /\ NoId \in Id
    BY ConstantTypes DEF TypeOK, NoId
  <2> QED BY <2>1 DEF Row
<1>3. RowType'
  <2> HIDE DEF r, Running
  <2> QED BY <1>1, <1>2 DEF RowType, TypeOK
<1>4. DockType'
  <2> HIDE DEF Held
  <2> QED BY <1>1, AbsentType DEF DockType, TypeOK
<1>5. SystemType'
  BY ConstantTypes DEF StopAllPlugins, SystemType, TypeOK, NoId
<1>6. DisturbedType' /\ BoundsType'
  BY <1>1, DisturbType, ExtraType DEF StopAllPlugins, DisturbedType, BoundsType, TypeOK
<1> QED BY <1>3, <1>4, <1>5, <1>6, ManagerEndsType, NextParts, SameParts DEF StopAllPlugins

LEMMA KernelStopsType ==
  ASSUME TypeOK, KernelStops
  PROVE  TypeOK'
<1>1. HandlerType' /\ SystemType' /\ DisturbedType'
  BY ConstantTypes, DisturbType
     DEF KernelStops, HandlerType, SystemType, DisturbedType, NoId
<1>2. RequestType'
  <2>1. ASSUME NEW r \in Request, request[r].call # NoCall
        PROVE  After(request[r], FALSE) \in Asking \cup {NoRequest}
    BY <2>1, AskingAt, AfterType
  <2> QED BY <2>1 DEF KernelStops, RequestType, TypeOK
<1>3. BoundsType'
  BY WorkspacesAssumption DEF KernelStops, BoundsType, TypeOK
<1> QED BY <1>1, <1>2, <1>3, NextParts, SameParts DEF KernelStops

LEMMA SystemStepType ==
  ASSUME TypeOK,
         \/ ManagerStops \/ Boot \/ RecoverManagedContainers
         \/ \E m \in Container : \/ ForceDelete(m)
                                 \/ Recover(m) \/ ContainerDies(m)
  PROVE  TypeOK'
<1>1. CASE ManagerStops
  <2>1. DisturbedType' /\ BoundsType'
    BY <1>1, DisturbType, ExtraType DEF ManagerStops, DisturbedType, BoundsType, TypeOK
  <2> QED BY <1>1, <2>1, ManagerEndsType, NextParts, SameParts DEF ManagerStops
<1>2. CASE Boot
  <2>1. SystemType'
    BY <1>2 DEF Boot, SystemType, TypeOK
  <2> QED BY <1>2, <2>1, NextParts, SameParts DEF Boot, manager
<1>3. CASE RecoverManagedContainers
  <2>1. SystemType' /\ DisturbedType'
    BY <1>3, ConstantTypes, DisturbType
       DEF RecoverManagedContainers, SystemType, DisturbedType, TypeOK
  <2> QED BY <1>3, <2>1, NextParts, SameParts DEF RecoverManagedContainers, manager
<1>4. ASSUME NEW m \in Container, ForceDelete(m) PROVE TypeOK'
  <2>1. First("force", m) \in Step("force")
    BY <1>4 DEF ForceDelete, First, Step
  <2>2. HandlerType'
    BY <1>4, <2>1, ServedType DEF ForceDelete, Op, TypeOK
  <2>3. RequestType' /\ DisturbedType'
    BY <1>4, CrowdType DEF ForceDelete
  <2>4. BoundsType'
    BY <1>4, ExtraType DEF ForceDelete, BoundsType, TypeOK
  <2> QED BY <1>4, <2>2, <2>3, <2>4, NextParts, SameParts DEF ForceDelete
<1>5. ASSUME NEW m \in Container, Recover(m) PROVE TypeOK'
  <2>1. "remove" \in Step("recover")
    BY DEF Step
  <2>2. HandlerType'
    BY <1>5, <2>1, ServedType DEF Recover, Op, Starting, TypeOK
  <2>3. RequestType' /\ DisturbedType'
    BY <1>5, CrowdType DEF Recover
  <2>4. SystemType'
    BY <1>5, ConstantTypes DEF Recover, SystemType, TypeOK
  <2> QED BY <1>5, <2>2, <2>3, <2>4, NextParts, SameParts DEF Recover
<1>6. ASSUME NEW m \in Container, ContainerDies(m) PROVE TypeOK'
  <2>1. BoundsType'
    BY <1>6, ExtraType DEF ContainerDies, BoundsType, TypeOK
  <2> QED BY <1>6, <2>1, DockRuns, NextParts, SameParts DEF ContainerDies, manager
<1> QED BY <1>1, <1>2, <1>3, <1>4, <1>5, <1>6

LEMMA StayType ==
  ASSUME TypeOK, UNCHANGED vars
  PROVE  TypeOK'
BY NextParts, SameParts DEF vars, manager

LEMMA TypeNext == TypeOK /\ [Next]_vars => TypeOK'
BY HandleType, TimeOutType, GoOnType, AskType, MonitorType, StopAllType, KernelStopsType,
   SystemStepType, StayType DEF Next

\* Everything has its type: no handler is at a step its operation does not have,
\* and no row says what the kernel cannot read back (models/managed_container.go:17).
THEOREM TypeCorrect == Spec => []TypeOK
BY TypeInit, TypeNext, PTL DEF Spec

(***************************************************************************)
(* Restarts.  The property is not inductive: it needs to know, at every    *)
(* step of a restart, what the steps before it have left, and that whoever *)
(* could have changed it would have been noticed.                          *)
(***************************************************************************)
\* A request that waits does so for a handler of its own, for its container.
Waited ==
  \A r \in Request :
    IF request[r].call = NoCall
      THEN request[r].pc \notin {"create", "stop", "start", "delete"}
      ELSE LET h == handler[request[r].call]
           IN /\ h # NoHandler
              /\ h.m = request[r].m
              /\ h.op = request[r].pc
              /\ \A s \in Request : request[s].call = request[r].call => s = r

\* The steps of a restart; the answer to its stop is known after it.
Rebuilding ==
  \A r \in Request :
    request[r].op = "rebuild" =>
      /\ request[r].pc \in {"stop", "update", "again", "start"}
      /\ request[r].pc = "stop" => ~request[r].stopped

\* A request that nobody overlapped: no other request, and no handler but the one
\* it waits for, is at its container.
Alone(r) ==
  /\ request[r].alone
  /\ request[r].pc \in {"update", "again"} => request[r].stopped

Apart ==
  \A r \in Request :
    Alone(r) =>
      /\ \A s \in Request : request[s].m = request[r].m => s = r
      /\ \A k \in Call : handler[k].m = request[r].m => request[r].call = k

\* Between the stop and the start the row does not say that it runs.
Halted(r) ==
  /\ request[r].pc = "stop" /\ handler[request[r].call].pc = "ready"
       => row[request[r].m].status # "running"
  /\ request[r].pc \in {"update", "again"} => row[request[r].m].status # "running"

\* From the update on, what it wrote is in the row, in the handler's copy of it
\* and at last in the container.
Applied(r) ==
  /\ request[r].pc = "again" => row[request[r].m].config = request[r].config
  /\ request[r].pc = "start" =>
       /\ handler[request[r].call].mc.config = request[r].config
       /\ handler[request[r].call].pc \in {"run", "save", "ready"}
            => dock[request[r].m].config = request[r].config

Uninterrupted(r) ==
  /\ request[r].op = "rebuild"
  /\ Alone(r)
  /\ request[r].pc = "stop" \/ request[r].stopped
Restarted == \A r \in Request : Uninterrupted(r) => Halted(r) /\ Applied(r)

IInv ==
  /\ TypeOK
  /\ Waited
  /\ Rebuilding
  /\ Apart
  /\ Restarted

\* The steps of a handler touch its container only, and no request.
Works(k) ==
  /\ UNCHANGED request
  /\ handler[k] # NoHandler /\ handler'[k] # NoHandler
  /\ handler'[k].m = handler[k].m /\ handler'[k].op = handler[k].op
  /\ \A j \in Call : j # k => handler'[j] = handler[j]
  /\ \A m \in Container :
       m # handler[k].m => row'[m] = row[m] /\ dock'[m] = dock[m]

LEMMA IInvInit == Init => IInv
<1> SUFFICES ASSUME Init PROVE IInv
  OBVIOUS
<1>1. \A r \in Request : request[r].call = NoCall /\ request[r].pc = "idle"
                         /\ request[r].op = "none" /\ ~request[r].alone
  BY DEF Init, NoRequest
<1> QED BY <1>1, TypeInit
        DEF IInv, Waited, Rebuilding, Apart, Alone, Restarted, Uninterrupted

\* What follows from the invariant about a request that nobody overlapped.
LEMMA AloneAt ==
  ASSUME IInv, NEW r \in Request, Alone(r)
  PROVE  request[r] \in Asking /\ request[r].m \in Container
<1>1. request[r] # NoRequest
  BY DEF Alone, NoRequest
<1> QED BY <1>1, AskingAt DEF IInv, Asking

LEMMA AtContainer ==
  ASSUME IInv, NEW k \in Call, handler[k].m \in Container
  PROVE  handler[k] \in Serving /\ handler[k] # NoHandler
BY ConstantTypes DEF IInv, TypeOK, NoHandler

\* A handler that works leaves the requests apart.
LEMMA WorksApart ==
  ASSUME IInv, NEW k \in Call, Works(k)
  PROVE  Waited' /\ Rebuilding' /\ Apart'
<1>1. \A j \in Call : /\ handler'[j].m = handler[j].m /\ handler'[j].op = handler[j].op
                      /\ handler[j] # NoHandler => handler'[j] # NoHandler
  BY DEF Works
<1>2. \A r \in Request : request'[r] = request[r]
  BY DEF Works
<1>3. \A r \in Request : request[r].call \in Call \cup {NoCall}
  BY DEF IInv, TypeOK, Asking, NoRequest
<1>4. Waited'
  BY <1>1, <1>2, <1>3 DEF IInv, Waited
<1>5. Rebuilding'
  BY <1>2 DEF IInv, Rebuilding
<1>6. Apart'
  BY <1>1, <1>2 DEF IInv, Apart, Alone
<1> QED BY <1>4, <1>5, <1>6

\* It disturbs the restart that waits for it at most.
LEMMA WorksElsewhere ==
  ASSUME IInv, NEW k \in Call, Works(k), handler[k] \in Serving,
         NEW r \in Request, Uninterrupted(r)', request[r].call # k
  PROVE  Halted(r)' /\ Applied(r)'
<1>1. request'[r] = request[r] /\ Uninterrupted(r) /\ Alone(r)
  BY DEF Works, Uninterrupted, Alone
<1>2. request[r].m \in Container /\ request[r].call \in Call \cup {NoCall}
  BY <1>1, AloneAt DEF Asking
<1>3. handler[k].m # request[r].m
  BY <1>1 DEF IInv, Apart
<1>4. row'[request[r].m] = row[request[r].m] /\ dock'[request[r].m] = dock[request[r].m]
  BY <1>2, <1>3 DEF Works
<1>5. request[r].pc \in {"stop", "start"} => handler'[request[r].call] = handler[request[r].call]
  BY <1>2 DEF Works, IInv, Waited
<1>6. Halted(r) /\ Applied(r)
  BY <1>1 DEF IInv, Restarted
<1> QED BY <1>1, <1>4, <1>5, <1>6 DEF Halted, Applied

\* The restart that waits for a handler waits for its stop or its start.
LEMMA WaitsFor ==
  ASSUME IInv, NEW k \in Call, NEW r \in Request, Uninterrupted(r), request[r].call = k
  PROVE  /\ request[r].m = handler[k].m /\ request[r].m \in Container
         /\ request[r].pc = handler[k].op
         /\ \/ request[r].pc = "stop"
            \/ request[r].pc = "start" /\ request[r].stopped
         /\ handler[k] \in Serving
         /\ handler[k].pc \in Step(handler[k].op)
<1>1. request[r].call # NoCall
  BY ConstantTypes
<1>2. handler[k] # NoHandler /\ request[r].m = handler[k].m /\ request[r].pc = handler[k].op
  BY <1>1 DEF IInv, Waited
<1>3. handler[k] \in Serving /\ handler[k].pc \in Step(handler[k].op)
  BY <1>2 DEF IInv, TypeOK
<1>4. handler[k].op \notin {"update", "again"}
  BY <1>3 DEF Serving, Starting
<1>5. request[r].pc \in {"stop", "start"}
  BY <1>2, <1>4 DEF IInv, Rebuilding, Uninterrupted
<1> QED BY <1>2, <1>3, <1>5, AloneAt DEF Uninterrupted

\* A handler keeps its operation, its container and its copy of the row, but for
\* the identity of the container it makes.
LEMMA HandlerWorks ==
  ASSUME TypeOK, NEW k \in Call, Handle(k), ~Respond(k)
  PROVE  /\ Works(k)
         /\ handler[k] \in Serving
         /\ handler[k].op # "create" => handler'[k].mc.config = handler[k].mc.config
<1> USE DEF At
<1>0. handler[k] \in Serving /\ handler[k].pc \in Step(handler[k].op)
  <2>1. handler[k].pc # "idle"
    BY DEF Handle, CreateRow, RemoveStale, MakeContainer, MakeFails, RunContainer, RunFails,
       SaveStarted, HaltContainer, HaltFails, SaveStopped, DropRow
  <2> QED BY <2>1, ServingAt
<1>1. UNCHANGED request
  BY DEF Handle, CreateRow, RemoveStale, MakeContainer, MakeFails, RunContainer, RunFails,
     SaveStarted, HaltContainer, HaltFails, SaveStopped, DropRow, manager
<1>2. \A m \in Container :
        m # handler[k].m => row'[m] = row[m] /\ dock'[m] = dock[m]
  <2>1. \A m \in Container : m # handler[k].m => row'[m] = row[m]
    BY DEF TypeOK, Handle, CreateRow, RemoveStale, MakeContainer, MakeFails, Undo, RunContainer,
       RunFails, SaveStarted, HaltContainer, HaltFails, SaveStopped, DropRow
  <2>2. \A m \in Container : m # handler[k].m => dock'[m] = dock[m]
    BY DEF TypeOK, Handle, CreateRow, RemoveStale, Made, MakeContainer, MakeFails, RunContainer,
       RunFails, SaveStarted, HaltContainer, HaltFails, SaveStopped, DropRow
  <2> QED BY <2>1, <2>2
<1>3. /\ handler'[k].m = handler[k].m /\ handler'[k].op = handler[k].op
      /\ handler[k].op # "create" => handler'[k].mc.config = handler[k].mc.config
      /\ \A j \in Call : j # k => handler'[j] = handler[j]
  <2>1. CASE CreateRow(k)
    <3>1. handler[k].op = "create"
      BY <1>0, <2>1 DEF CreateRow, Step, Serving, Starting
    <3> QED BY <1>0, <2>1, <3>1 DEF CreateRow, TypeOK, Serving
  <2>2. CASE ~CreateRow(k)
    <3>1. \/ \E pc : Go(k, pc)
          \/ handler' = [handler EXCEPT ![k].pc = "run", ![k].mc.cid = starts + 1]
      <4>1. CASE MakeContainer(k)
        BY <4>1 DEF MakeContainer
      <4>2. CASE RemoveStale(k)
        BY <4>2 DEF RemoveStale
      <4>3. CASE MakeFails(k) \/ RunFails(k)
        BY <4>3 DEF MakeFails, RunFails, Undo
      <4>4. CASE RunContainer(k) \/ SaveStarted(k) \/ SaveStopped(k) \/ DropRow(k)
        BY <4>4 DEF RunContainer, SaveStarted, SaveStopped, DropRow
      <4>5. CASE HaltContainer(k)
        BY <4>5 DEF HaltContainer
      <4>6. CASE HaltFails(k)
        BY <4>6 DEF HaltFails
      <4> QED BY <2>2, <4>1, <4>2, <4>3, <4>4, <4>5, <4>6 DEF Handle
    <3> QED BY <1>0, <3>1 DEF Go, TypeOK, Serving, Row
  <2> QED BY <2>1, <2>2
<1>4. handler[k] # NoHandler /\ handler'[k] # NoHandler
  BY <1>0, <1>3, ConstantTypes DEF Serving, NoHandler
<1> QED BY <1>0, <1>1, <1>2, <1>3, <1>4 DEF Works

\* The steps of a stop leave no row that runs, those of a start use the
\* row they have read.
LEMMA HandleKeeps ==
  ASSUME IInv, NEW k \in Call, Handle(k), ~Respond(k)
  PROVE  IInv'
<1> USE DEF At
<1>0. TypeOK'
  BY HandleType DEF IInv
<1>1. /\ Works(k)
      /\ handler[k] \in Serving
      /\ handler[k].op # "create" => handler'[k].mc.config = handler[k].mc.config
  BY HandlerWorks DEF IInv
<1>2. Waited' /\ Rebuilding' /\ Apart'
  BY <1>1, WorksApart
<1>3. ASSUME NEW r \in Request, Uninterrupted(r)', request[r].call = k
      PROVE  Halted(r)' /\ Applied(r)'
  <2>0. request'[r] = request[r] /\ Uninterrupted(r)
    BY <1>1, <1>3 DEF Works, Uninterrupted, Alone
  <2>1. /\ request[r].m = handler[k].m /\ request[r].m \in Container
        /\ request[r].pc = handler[k].op
        /\ \/ request[r].pc = "stop"
           \/ request[r].pc = "start" /\ request[r].stopped
        /\ handler[k].pc \in Step(handler[k].op)
    BY <1>3, <2>0, WaitsFor
  <2>2. Halted(r) /\ Applied(r)
    BY <2>0 DEF IInv, Restarted
  <2>3. TypeOK
    BY DEF IInv
  <2>4. CASE request[r].pc = "stop"
    <3>1. handler[k].pc \in {"halt", "save", "ready", "failed"}
      BY <2>1, <2>4 DEF Step
    <3>2. HaltContainer(k) \/ HaltFails(k) \/ SaveStopped(k)
      BY <2>1, <2>4, <3>1
         DEF Handle, CreateRow, RemoveStale, MakeContainer, MakeFails, RunContainer, RunFails,
         SaveStarted, DropRow, Starting
    <3>3. CASE HaltContainer(k)
      <4>1. handler'[k].pc = "save"
        BY <1>1, <2>1, <2>3, <2>4, <3>3 DEF HaltContainer, Go, TypeOK, Serving
      <4> QED BY <1>3, <2>0, <2>4, <4>1 DEF Halted, Applied
    <3>4. CASE HaltFails(k)
      <4>1. handler'[k].pc = "failed"
        BY <1>1, <2>1, <2>3, <2>4, <3>4 DEF HaltFails, Go, TypeOK, Serving
      <4> QED BY <1>3, <2>0, <2>4, <4>1 DEF Halted, Applied
    <3>5. CASE SaveStopped(k)
      <4>1. row'[request[r].m].status = "stopped"
        BY <1>1, <2>1, <2>3, <3>5 DEF SaveStopped, TypeOK, Serving, Row
      <4> QED BY <2>0, <2>4, <4>1 DEF Halted, Applied
    <3> QED BY <3>2, <3>3, <3>4, <3>5
  <2>5. CASE request[r].pc = "start"
    <3>1. handler[k].pc \in {"remove", "make", "run", "save", "ready", "failed"}
      BY <2>1, <2>5 DEF Step
    <3>2. \/ RemoveStale(k) \/ MakeContainer(k) \/ MakeFails(k)
          \/ RunContainer(k) \/ RunFails(k) \/ SaveStarted(k)
      BY <2>1, <2>5, <3>1
         DEF Handle, CreateRow, HaltContainer, HaltFails, SaveStopped, DropRow
    <3>3. handler'[k].mc.config = request[r].config
      BY <1>1, <1>3, <2>1, <2>2, <2>5 DEF Applied
    <3>4. handler'[k].pc \in {"run", "save", "ready"} =>
            dock'[request[r].m].config = request[r].config
      <4>1. CASE RemoveStale(k)
        <5>1. handler'[k].pc = "make"
          BY <1>1, <2>3, <4>1 DEF RemoveStale, Go, TypeOK, Serving
        <5> QED BY <5>1
      <4>2. CASE MakeContainer(k)
        <5>1. dock'[request[r].m].config = handler[k].mc.config
          BY <2>1, <2>3, <4>2 DEF MakeContainer, Made, TypeOK
        <5> QED BY <1>1, <2>1, <2>5, <3>3, <5>1
      <4>3. CASE MakeFails(k) \/ RunFails(k)
        <5>1. handler'[k].pc = "failed"
          BY <1>1, <2>3, <4>3 DEF MakeFails, RunFails, Undo, Go, TypeOK, Serving
        <5> QED BY <5>1
      <4>4. CASE RunContainer(k)
        <5>1. dock'[request[r].m].config = dock[request[r].m].config
          BY <2>1, <2>3, <4>4 DEF RunContainer, TypeOK
        <5> QED BY <1>3, <2>2, <2>5, <4>4, <5>1 DEF RunContainer, Applied
      <4>5. CASE SaveStarted(k)
        BY <1>3, <2>2, <2>5, <4>5 DEF SaveStarted, Applied
      <4> QED BY <3>2, <4>1, <4>2, <4>3, <4>4, <4>5
    <3> QED BY <1>3, <2>0, <2>5, <3>3, <3>4 DEF Halted, Applied
  <2> QED BY <2>1, <2>4, <2>5
<1>4. Restarted'
  <2>1. ASSUME NEW r \in Request, Uninterrupted(r)' PROVE Halted(r)' /\ Applied(r)'
    <3>1. CASE request[r].call = k
      BY <1>3, <2>1, <3>1
    <3>2. CASE request[r].call # k
      BY <1>1, <2>1, <3>2, WorksElsewhere
    <3> QED BY <3>1, <3>2
  <2> QED BY <2>1 DEF Restarted
<1> QED BY <1>0, <1>2, <1>4 DEF IInv

\* Nothing to say when every request has ended.
LEMMA EndedKeeps ==
  ASSUME TypeOK', \A r \in Request : request'[r] = NoRequest
  PROVE  IInv'
<1>1. \A r \in Request : /\ request'[r].call = NoCall /\ request'[r].pc = "idle"
                         /\ request'[r].op = "none" /\ ~request'[r].alone
  BY DEF NoRequest
<1> QED BY <1>1
        DEF IInv, Waited, Rebuilding, Apart, Alone, Restarted, Uninterrupted

\* Nothing that a restart relies on changes.
LEMMA QuietKeeps ==
  ASSUME IInv, TypeOK',
         \A r \in Request : request'[r] = request[r],
         \A k \in Call : handler'[k] = handler[k],
         \A m \in Container :
           /\ row'[m].status = "running" => row[m].status = "running"
           /\ row'[m].config = row[m].config
           /\ dock'[m].config = dock[m].config
  PROVE  IInv'
<1>1. \A r \in Request : request[r].call \in Call \cup {NoCall}
  BY DEF IInv, TypeOK, Asking, NoRequest
<1>2. Waited' /\ Rebuilding' /\ Apart'
  BY <1>1 DEF IInv, Waited, Rebuilding, Apart, Alone
<1>3. ASSUME NEW r \in Request, Uninterrupted(r)' PROVE Halted(r)' /\ Applied(r)'
  <2>1. Uninterrupted(r) /\ Alone(r)
    BY <1>3 DEF Uninterrupted, Alone
  <2>2. Halted(r) /\ Applied(r) /\ request[r].m \in Container
    BY <2>1, AloneAt DEF IInv, Restarted
  <2>3. request[r].pc \in {"stop", "start"} => request[r].call \in Call
    BY <1>1 DEF IInv, Waited
  <2> QED BY <2>2, <2>3 DEF Halted, Applied
<1> QED BY <1>2, <1>3 DEF IInv, Restarted

\* Requests end, or have their answer and go on; the handlers that others wait
\* for stay as they are.
LEMMA EndKeeps ==
  ASSUME IInv, TypeOK',
         UNCHANGED <<row, dock>>,
         \A k \in Call : \/ handler'[k] = NoHandler
                         \/ /\ handler[k] # NoHandler
                            /\ handler'[k] # NoHandler
                            /\ handler'[k].op = handler[k].op
                            /\ handler'[k].pc = handler[k].pc
                            /\ handler'[k].m = handler[k].m
                            /\ handler'[k].mc = handler[k].mc,
         \A r \in Request :
           \/ /\ request'[r] = request[r]
              /\ request[r].call \in Call => handler'[request[r].call] # NoHandler
           \/ request'[r] = NoRequest
           \/ /\ request'[r].call = NoCall
              /\ request'[r].op = request[r].op
              /\ request'[r].m = request[r].m
              /\ request'[r].alone = request[r].alone
              /\ request'[r].config = request[r].config
              /\ \/ request'[r].op # "rebuild" /\ request'[r].pc \in {"put", "forget"}
                 \/ /\ request'[r].pc = "update"
                    /\ request'[r].stopped /\ Alone(r) => row[request[r].m].status # "running"
              /\ Alone(r)' => /\ Alone(r)
                              /\ \A k \in Call : request[r].call = k => handler'[k] = NoHandler
  PROVE  IInv'
<1>0. /\ NoRequest.call = NoCall /\ NoRequest.pc = "idle" /\ NoRequest.op = "none"
      /\ ~NoRequest.alone /\ NoRequest.m = NoContainer
      /\ NoHandler.m = NoContainer
  BY DEF NoRequest, NoHandler
<1>1. \A r \in Request : request[r].call \in Call \cup {NoCall}
  BY DEF IInv, TypeOK, Asking, NoRequest
<1>2. Waited'
  <2>1. ASSUME NEW r \in Request
        PROVE  IF request'[r].call = NoCall
                 THEN request'[r].pc \notin {"create", "stop", "start", "delete"}
                 ELSE /\ handler'[request'[r].call] # NoHandler
                      /\ handler'[request'[r].call].m = request'[r].m
                      /\ handler'[request'[r].call].op = request'[r].pc
                      /\ \A s \in Request : request'[s].call = request'[r].call => s = r
    <3>1. CASE request'[r].call = NoCall
      BY <1>0, <3>1 DEF IInv, Waited
    <3>2. CASE request'[r].call # NoCall
      <4>1. /\ request'[r] = request[r] /\ request[r].call \in Call
            /\ handler'[request[r].call] # NoHandler
        BY <1>0, <1>1, <3>2
      <4>2. \A s \in Request : request'[s].call = request[r].call => request[s].call = request[r].call
        BY <1>0, <3>2, <4>1
      <4> QED BY <3>2, <4>1, <4>2 DEF IInv, Waited
    <3> QED BY <3>1, <3>2
  <2> QED BY <2>1 DEF Waited
<1>3. Rebuilding'
  BY <1>0 DEF IInv, Rebuilding
<1>4. ASSUME NEW r \in Request, Alone(r)'
      PROVE  /\ Alone(r)
             /\ request'[r].m = request[r].m
             /\ \/ request'[r] = request[r]
                \/ \A k \in Call : request[r].call = k => handler'[k] = NoHandler
  BY <1>0, <1>4 DEF Alone
<1>5. Apart'
  <2>1. ASSUME NEW r \in Request, Alone(r)'
        PROVE  /\ \A s \in Request : request'[s].m = request'[r].m => s = r
               /\ \A k \in Call : handler'[k].m = request'[r].m => request'[r].call = k
    <3>1. Alone(r) /\ request'[r].m = request[r].m /\ request[r].m \in Container
      BY <1>4, <2>1, AloneAt
    <3>2. \A s \in Request : request'[s].m = request[r].m => request[s].m = request[r].m
      BY <1>0, <3>1, ConstantTypes
    <3>3. ASSUME NEW k \in Call, handler'[k].m = request[r].m PROVE request'[r].call = k
      <4>1. handler'[k] # NoHandler /\ handler[k].m = request[r].m
        BY <1>0, <3>1, <3>3, ConstantTypes
      <4>2. request[r].call = k
        BY <3>1, <4>1 DEF IInv, Apart
      <4> QED BY <1>4, <2>1, <4>1, <4>2
    <3> QED BY <3>1, <3>2, <3>3 DEF IInv, Apart
  <2> QED BY <2>1 DEF Apart
<1>6. Restarted'
  <2>1. ASSUME NEW r \in Request, Uninterrupted(r)' PROVE Halted(r)' /\ Applied(r)'
    <3>0. CASE request'[r] # request[r]
      <4>1. /\ request'[r].pc = "update" /\ request'[r].stopped
            /\ request'[r].m = request[r].m
            /\ row[request[r].m].status # "running"
        BY <1>0, <1>4, <2>1, <3>0 DEF Uninterrupted
      <4> QED BY <4>1 DEF Halted, Applied
    <3>1. SUFFICES ASSUME request'[r] = request[r] PROVE Halted(r)' /\ Applied(r)'
      BY <3>0
    <3>2. Halted(r) /\ Applied(r)
      BY <2>1, <3>1 DEF IInv, Restarted, Uninterrupted, Alone
    <3>3. ASSUME request[r].pc \in {"stop", "start"}
          PROVE  /\ handler'[request[r].call].pc = handler[request[r].call].pc
                 /\ handler'[request[r].call].mc = handler[request[r].call].mc
      <4>1. request[r].call \in Call /\ handler[request[r].call] # NoHandler
        BY <1>1, <3>3 DEF IInv, Waited
      <4>2. handler'[request[r].call] # NoHandler
        BY <1>0, <2>1, <3>1, <4>1, ConstantTypes DEF Uninterrupted
      <4> QED BY <4>1, <4>2
    <3> QED BY <3>1, <3>2, <3>3 DEF Halted, Applied
  <2> QED BY <2>1 DEF Restarted
<1> QED BY <1>2, <1>3, <1>5, <1>6 DEF IInv

\* How a request goes on with its answer.
LEMMA AfterCases ==
  ASSUME NEW q \in Asking, NEW ok \in BOOLEAN
  PROVE  \/ After(q, ok) = NoRequest
         \/ /\ After(q, ok).call = NoCall
            /\ After(q, ok).op = q.op
            /\ After(q, ok).m = q.m
            /\ After(q, ok).alone = q.alone
            /\ After(q, ok).config = q.config
            /\ \/ q.op # "rebuild" /\ ok /\ After(q, ok).pc \in {"put", "forget"}
               \/ /\ q.op = "rebuild" /\ q.pc = "stop"
                  /\ After(q, ok).pc = "update" /\ After(q, ok).stopped = ok
BY DEF After, Asking

LEMMA RespondKeeps ==
  ASSUME IInv, NEW k \in Call, Respond(k)
  PROVE  IInv'
<1> DEFINE ok == handler[k].pc = "ready"
<1>0. TypeOK'
  BY HandleType DEF IInv, Handle
<1>1. TypeOK /\ handler[k].pc \in {"ready", "failed"}
  BY DEF IInv, Respond
<1>2. handler[k] # NoHandler
  BY <1>1 DEF NoHandler
<1>3. /\ UNCHANGED <<row, dock>>
      /\ handler' = [handler EXCEPT ![k] = NoHandler]
      /\ \A r \in Request :
           request'[r] = IF request[r].call = k THEN After(request[r], ok) ELSE request[r]
  BY DEF Respond, Answered, Waits
<1>4. \A j \in Call : handler'[j] = IF j = k THEN NoHandler ELSE handler[j]
  BY <1>1, <1>3 DEF TypeOK
<1>5. ASSUME NEW r \in Request, request[r].call # k
      PROVE  /\ request'[r] = request[r]
             /\ request[r].call \in Call => handler'[request[r].call] # NoHandler
  <2>1. request'[r] = request[r]
    BY <1>3, <1>5
  <2>2. request[r].call \in Call => handler[request[r].call] # NoHandler
    BY ConstantTypes DEF IInv, Waited
  <2> QED BY <1>4, <1>5, <2>1, <2>2
<1>6. ASSUME NEW r \in Request, request[r].call = k
      PROVE  \/ request'[r] = NoRequest
             \/ /\ request'[r].call = NoCall
                /\ request'[r].op = request[r].op
                /\ request'[r].m = request[r].m
                /\ request'[r].alone = request[r].alone
                /\ request'[r].config = request[r].config
                /\ \/ request'[r].op # "rebuild" /\ request'[r].pc \in {"put", "forget"}
                   \/ /\ request'[r].pc = "update"
                      /\ request'[r].stopped /\ Alone(r) =>
                           row[request[r].m].status # "running"
                /\ Alone(r)' => Alone(r)
  <2>1. request[r].call # NoCall /\ request[r] \in Asking
    BY <1>1, <1>6, ConstantTypes, AskingAt
  <2>2. request'[r] = After(request[r], ok)
    BY <1>3, <1>6
  <2>3. request[r].pc = handler[k].op
    BY <1>6, <2>1 DEF IInv, Waited
  <2>4. request[r].pc \notin {"update", "again"}
    BY <1>1, <1>2, <2>3 DEF TypeOK, Serving, Starting
  <2>5. CASE request'[r] = NoRequest
    BY <2>5
  <2>6. CASE request'[r] # NoRequest
    <3> HIDE DEF ok
    <3>1. ok \in BOOLEAN
      BY DEF ok
    <3>2. /\ request'[r].call = NoCall
          /\ request'[r].op = request[r].op
          /\ request'[r].m = request[r].m
          /\ request'[r].alone = request[r].alone
          /\ request'[r].config = request[r].config
          /\ \/ request[r].op # "rebuild" /\ request'[r].pc \in {"put", "forget"}
             \/ /\ request[r].op = "rebuild" /\ request[r].pc = "stop"
                /\ request'[r].pc = "update" /\ request'[r].stopped = ok
      BY <2>1, <2>2, <2>6, <3>1, AfterCases
    <3>3. Alone(r)' => Alone(r)
      BY <2>4, <3>2 DEF Alone
    <3>4. ASSUME request[r].op = "rebuild", request[r].pc = "stop", ok,
                 request'[r].pc = "update"
          PROVE  row[request[r].m].status # "running" \/ ~Alone(r)
      <4>1. Alone(r) => Uninterrupted(r)
        BY <3>4 DEF Uninterrupted
      <4>2. Alone(r) => Halted(r)
        BY <4>1 DEF IInv, Restarted
      <4> QED BY <1>6, <3>4, <4>2 DEF Halted, ok
    <3> QED BY <3>2, <3>3, <3>4
  <2> QED BY <2>5, <2>6
<1> QED BY <1>0, <1>1, <1>2, <1>3, <1>4, <1>5, <1>6, EndKeeps

\* A request that is refused ends, or goes on without its stop.
LEMMA RefusedCases ==
  ASSUME NEW q \in Asking
  PROVE  \/ After(q, FALSE) = NoRequest
         \/ /\ After(q, FALSE).call = NoCall
            /\ After(q, FALSE).op = q.op
            /\ After(q, FALSE).m = q.m
            /\ After(q, FALSE).alone = q.alone
            /\ After(q, FALSE).config = q.config
            /\ After(q, FALSE).pc = "update" /\ ~After(q, FALSE).stopped
BY AfterCases

LEMMA TimeOutKeeps ==
  ASSUME IInv, NEW k \in Call, TimeOut(k)
  PROVE  IInv'
<1>0. TypeOK /\ TypeOK'
  BY TimeOutType DEF IInv
<1>1. handler[k] \in Serving
  BY <1>0 DEF TimeOut, TypeOK, NoHandler
<1>2. UNCHANGED <<row, dock>>
  BY DEF TimeOut
<1>3. \A j \in Call : \/ handler'[j] = handler[j]
                      \/ /\ handler[j] # NoHandler
                         /\ handler'[j] # NoHandler
                         /\ handler'[j].op = handler[j].op
                         /\ handler'[j].pc = handler[j].pc
                         /\ handler'[j].m = handler[j].m
                         /\ handler'[j].mc = handler[j].mc
  <2> DEFINE h == [handler[k] EXCEPT !.ctx = FALSE]
  <2>1. /\ h.op = handler[k].op /\ h.pc = handler[k].pc /\ h.m = handler[k].m
        /\ h.mc = handler[k].mc /\ h \in Serving
    BY <1>1 DEF Serving
  <2>2. handler' = [handler EXCEPT ![k] = h]
    BY DEF TimeOut
  <2>3. h # NoHandler /\ handler[k] # NoHandler
    BY <1>1, <2>1, ConstantTypes DEF Serving, NoHandler
  <2> HIDE DEF h
  <2> QED BY <1>0, <2>1, <2>2, <2>3 DEF TypeOK
<1>4. ASSUME NEW r \in Request
      PROVE  \/ /\ request'[r] = request[r]
                /\ request[r].call \in Call => handler'[request[r].call] # NoHandler
             \/ request'[r] = NoRequest
             \/ /\ request'[r].call = NoCall
                /\ request'[r].op = request[r].op
                /\ request'[r].m = request[r].m
                /\ request'[r].alone = request[r].alone
                /\ request'[r].config = request[r].config
                /\ request'[r].pc = "update" /\ ~request'[r].stopped
  <2>1. CASE request[r].call = k
    <3>1. request'[r] = After(request[r], FALSE)
      BY <2>1 DEF TimeOut, Answered, Waits
    <3>2. request[r] \in Asking
      BY <1>0, <2>1, ConstantTypes, AskingAt
    <3> QED BY <3>1, <3>2, RefusedCases
  <2>2. CASE request[r].call # k
    <3>1. request'[r] = request[r]
      BY <2>2 DEF TimeOut, Answered, Waits
    <3>2. request[r].call \in Call => handler[request[r].call] # NoHandler
      BY ConstantTypes DEF IInv, Waited
    <3> QED BY <1>3, <3>1, <3>2
  <2> QED BY <2>1, <2>2
<1>5. \A r \in Request : request'[r].pc = "update" /\ ~request'[r].stopped => ~Alone(r)'
  BY DEF Alone
<1>6. \A j \in Call : \/ handler'[j] = NoHandler
                      \/ /\ handler[j] # NoHandler
                         /\ handler'[j] # NoHandler
                         /\ handler'[j].op = handler[j].op
                         /\ handler'[j].pc = handler[j].pc
                         /\ handler'[j].m = handler[j].m
                         /\ handler'[j].mc = handler[j].mc
  BY <1>3
<1> QED BY <1>0, <1>2, <1>4, <1>5, <1>6, EndKeeps

LEMMA KernelStopsKeeps ==
  ASSUME IInv, KernelStops
  PROVE  IInv'
<1>0. TypeOK /\ TypeOK'
  BY KernelStopsType DEF IInv
<1>1. UNCHANGED <<row, dock>> /\ \A k \in Call : handler'[k] = NoHandler
  BY DEF KernelStops
<1>2. ASSUME NEW r \in Request
      PROVE  \/ /\ request'[r] = request[r]
                /\ request[r].call \in Call => handler'[request[r].call] # NoHandler
             \/ request'[r] = NoRequest
             \/ /\ request'[r].call = NoCall
                /\ request'[r].op = request[r].op
                /\ request'[r].m = request[r].m
                /\ request'[r].alone = request[r].alone
                /\ request'[r].config = request[r].config
                /\ request'[r].pc = "update" /\ ~request'[r].stopped
  <2>1. CASE request[r].call # NoCall
    BY <1>0, <2>1, AskingAt, RefusedCases DEF KernelStops
  <2>2. CASE request[r].call = NoCall
    BY <2>2, ConstantTypes DEF KernelStops
  <2> QED BY <2>1, <2>2
<1>3. \A r \in Request : request'[r].pc = "update" /\ ~request'[r].stopped => ~Alone(r)'
  BY DEF Alone
<1> QED BY <1>0, <1>1, <1>2, <1>3, EndKeeps

\* A request that goes on, or ends, without touching what others rely on.
LEMMA GoesKeeps ==
  ASSUME IInv, NEW r \in Request, PutRecord(r) \/ ForgetWorkspace(r) \/ UpdateContainer(r)
  PROVE  IInv'
<1>0. TypeOK /\ TypeOK'
  BY GoOnType DEF IInv, GoOn
<1>1. /\ request[r].pc \in {"put", "forget", "update"}
      /\ UNCHANGED <<dock, handler>>
  BY DEF PutRecord, ForgetWorkspace, UpdateContainer, system, manager
<1>2. request[r] \in Asking /\ request[r].m \in Container
  BY <1>0, <1>1, AskingAt DEF Asking
<1>3. request[r].call = NoCall
  <2>1. SUFFICES ASSUME request[r].call # NoCall PROVE FALSE
    OBVIOUS
  <2>2. request[r].call \in Call
    BY <1>2, <2>1 DEF Asking
  <2>3. handler[request[r].call] # NoHandler /\ handler[request[r].call].op = request[r].pc
    BY <2>1 DEF IInv, Waited
  <2> QED BY <1>0, <1>1, <2>2, <2>3 DEF TypeOK, Serving, Starting
<1>4. CASE request' = [request EXCEPT ![r] = NoRequest] /\ UNCHANGED row
  <2>1. \A s \in Request : request'[s] = IF s = r THEN NoRequest ELSE request[s]
    BY <1>0, <1>4 DEF TypeOK
  <2>2. \A s \in Request : request[s].call \in Call => handler[request[s].call] # NoHandler
    BY ConstantTypes DEF IInv, Waited
  <2> QED BY <1>0, <1>1, <1>4, <2>1, <2>2, EndKeeps
<1>5. CASE UpdateContainer(r) /\ kernel # "down" /\ row[request[r].m] # NoRow
  <2> DEFINE m == request[r].m
             c == Updated(row[m].config, request[r].config)
  <2>1. /\ row' = [row EXCEPT ![m].config = c]
        /\ request' = [request EXCEPT ![r].pc = "again", ![r].config = c]
        /\ request[r].pc = "update"
    BY <1>5 DEF UpdateContainer
  <2> HIDE DEF c
  <2>2. /\ \A s \in Request : s # r => request'[s] = request[s]
        /\ \A s \in Request : request'[s].m = request[s].m /\ request'[s].call = request[s].call
        /\ \A s \in Request : /\ request'[s].alone = request[s].alone
                              /\ request'[s].stopped = request[s].stopped
                              /\ request'[s].op = request[s].op
        /\ request'[r].pc = "again" /\ request'[r].config = c
    BY <1>0, <1>2, <2>1 DEF TypeOK, Asking
  <2>3. /\ row'[m].config = c /\ row'[m].status = row[m].status
        /\ \A n \in Container : n # m => row'[n] = row[n]
    BY <1>0, <1>2, <2>1 DEF TypeOK, Row
  <2>4. \A s \in Request : Alone(s)' => Alone(s)
    BY <2>1, <2>2 DEF Alone
  <2>5. Waited'
    BY <1>1, <1>3, <2>2 DEF IInv, Waited
  <2>6. Rebuilding' /\ Apart'
    <3>1. Rebuilding'
      BY <2>2 DEF IInv, Rebuilding
    <3>2. Apart'
      BY <1>1, <2>2, <2>4 DEF IInv, Apart
    <3> QED BY <3>1, <3>2
  <2>7. ASSUME NEW s \in Request, Uninterrupted(s)' PROVE Halted(s)' /\ Applied(s)'
    <3>1. Uninterrupted(s) /\ Alone(s)
      BY <2>1, <2>2, <2>4, <2>7 DEF Uninterrupted
    <3>2. Halted(s) /\ Applied(s) /\ request[s].m \in Container
      BY <3>1, AloneAt DEF IInv, Restarted
    <3>3. CASE s = r
      <4>1. /\ request'[r].pc = "again" /\ request'[r].m = m
            /\ row'[m].status # "running" /\ row'[m].config = request'[r].config
        BY <2>1, <2>2, <2>3, <3>2, <3>3 DEF Halted
      <4> QED BY <3>3, <4>1 DEF Halted, Applied
    <3>4. CASE s # r
      <4>1. request[s].m # m
        BY <3>1, <3>4 DEF IInv, Apart
      <4>2. row'[request[s].m] = row[request[s].m] /\ request'[s] = request[s]
        BY <2>2, <2>3, <3>2, <3>4, <4>1
      <4> QED BY <1>1, <3>2, <4>2 DEF Halted, Applied
    <3> QED BY <3>3, <3>4
  <2> QED BY <1>0, <2>5, <2>6, <2>7 DEF IInv, Restarted
<1> QED
  BY <1>4, <1>5 DEF PutRecord, ForgetWorkspace, UpdateContainer

\* Nobody waits for a handler that is free.
LEMMA FreeUnwaited ==
  ASSUME IInv, Free # {}
  PROVE  /\ FreeCall \in Call /\ handler[FreeCall] = NoHandler
         /\ \A r \in Request : request[r].call # FreeCall
BY FreeCallType, ConstantTypes DEF IInv, Waited

\* Whoever is at a container is not alone there once another handler comes.
LEMMA CrowdedFields ==
  ASSUME TypeOK, NEW m
  PROVE  \A r \in Request :
           /\ Crowded(m)[r].m = request[r].m
           /\ Crowded(m)[r].call = request[r].call
           /\ Crowded(m)[r].op = request[r].op
           /\ Crowded(m)[r].pc = request[r].pc
           /\ Crowded(m)[r].config = request[r].config
           /\ Crowded(m)[r].stopped = request[r].stopped
           /\ Crowded(m)[r].alone => request[r].alone /\ request[r].m # m
<1> SUFFICES ASSUME NEW r \in Request
             PROVE  /\ Crowded(m)[r].m = request[r].m
                    /\ Crowded(m)[r].call = request[r].call
                    /\ Crowded(m)[r].op = request[r].op
                    /\ Crowded(m)[r].pc = request[r].pc
                    /\ Crowded(m)[r].config = request[r].config
                    /\ Crowded(m)[r].stopped = request[r].stopped
                    /\ Crowded(m)[r].alone => request[r].alone /\ request[r].m # m
  OBVIOUS
<1>1. PICK b \in BOOLEAN : /\ Crowded(m)[r] = [request[r] EXCEPT !.alone = b]
                           /\ b => request[r].alone /\ request[r].m # m
  BY DEF Crowded, TypeOK, Asking, NoRequest
<1>2. CASE request[r] \in Asking
  BY <1>1, <1>2 DEF Asking
<1>3. CASE request[r] = NoRequest
  <2>1. request[r] \in [op : {"none"}, pc : {"idle"}, m : {NoContainer}, call : {NoCall},
                        config : {0}, stopped : {FALSE}, alone : {FALSE}]
    BY <1>3 DEF NoRequest
  <2> QED BY <1>1, <2>1
<1> QED BY <1>2, <1>3 DEF TypeOK

LEMMA JoinKeeps ==
  ASSUME IInv, NEW m \in Container, ForceDelete(m) \/ Recover(m)
  PROVE  IInv'
<1>0. TypeOK /\ TypeOK'
  BY SystemStepType DEF IInv
<1>1. /\ Free # {}
      /\ request' = Crowded(m)
      /\ UNCHANGED <<row, dock>>
  BY DEF ForceDelete, Recover
<1>2. PICK h : h.m = m /\ handler' = [handler EXCEPT ![FreeCall] = h]
  BY DEF ForceDelete, Recover, Serve
<1>3. /\ FreeCall \in Call
      /\ \A r \in Request : request[r].call # FreeCall
  BY <1>1, FreeUnwaited
<1>4. \A k \in Call : /\ k # FreeCall => handler'[k] = handler[k]
                      /\ k = FreeCall => handler'[k].m = m
  BY <1>0, <1>2 DEF TypeOK
<1>5. \A r \in Request :
         /\ request'[r].m = request[r].m
         /\ request'[r].call = request[r].call
         /\ request'[r].op = request[r].op
         /\ request'[r].pc = request[r].pc
         /\ request'[r].config = request[r].config
         /\ request'[r].stopped = request[r].stopped
         /\ request'[r].alone => request[r].alone /\ request[r].m # m
  BY <1>0, <1>1, CrowdedFields
<1>6. \A r \in Request : request[r].call \in Call \cup {NoCall}
  BY <1>0 DEF TypeOK, Asking, NoRequest
<1>7. Waited'
  BY <1>3, <1>4, <1>5, <1>6 DEF IInv, Waited
<1>8. Rebuilding'
  BY <1>5 DEF IInv, Rebuilding
<1>9. \A r \in Request : Alone(r)' => Alone(r) /\ request[r].m # m
  BY <1>5 DEF Alone
<1>10. Apart'
  BY <1>4, <1>5, <1>9 DEF IInv, Apart
<1>11. Restarted'
  <2>1. ASSUME NEW r \in Request, Uninterrupted(r)' PROVE Halted(r)' /\ Applied(r)'
    <3>1. Halted(r) /\ Applied(r)
      BY <1>5, <1>9, <2>1 DEF IInv, Restarted, Uninterrupted
    <3>2. request[r].pc \in {"stop", "start"} =>
            handler'[request[r].call] = handler[request[r].call]
      BY <1>3, <1>4, <1>6 DEF IInv, Waited
    <3> QED BY <1>1, <1>5, <3>1, <3>2 DEF Halted, Applied
  <2> QED BY <2>1 DEF Restarted
<1> QED BY <1>0, <1>7, <1>8, <1>10, <1>11 DEF IInv

\* A call of the kernel for a request: a new one, or a restart after its stop.
LEMMA CallKeeps ==
  ASSUME IInv, TypeOK', UNCHANGED <<row, dock>>,
         NEW r \in Request, NEW q \in Asking,
         NEW op \in {"create", "start", "stop", "delete"},
         CallKernel(r, q, op),
         request[r] = NoRequest \/ request[r] = q, request[r].call = NoCall,
         q.op = "rebuild" => \/ op = "stop" /\ ~q.stopped
                             \/ op = "start" /\ q.pc = "again" /\ request[r] = q
  PROVE  IInv'
<1> DEFINE m == q.m
           others == Users(m) \ {r}
           h == [op |-> op, pc |-> First(op, m), m |-> m, mc |-> row[m], ctx |-> TRUE]
<1>0. TypeOK /\ Free # {} /\ m \in Container
  BY DEF IInv, CallKernel, Asking
<1>1. /\ FreeCall \in Call
      /\ handler[FreeCall] = NoHandler
      /\ \A s \in Request : request[s].call # FreeCall
  BY <1>0, FreeUnwaited
<1>2. handler' = [handler EXCEPT ![FreeCall] = h]
  BY DEF CallKernel, Serve
<1>3. request' = [Crowded(m) EXCEPT ![r] =
                    [q EXCEPT !.call = FreeCall, !.pc = op, !.alone = @ /\ others = {}]]
  BY DEF CallKernel
<1>4. /\ h.op = op /\ h.pc = First(op, m) /\ h.m = m /\ h.mc = row[m] /\ h # NoHandler
      /\ handler'[FreeCall] = h
      /\ \A k \in Call : k # FreeCall => handler'[k] = handler[k]
  <2>1. h # NoHandler
    BY <1>0, ConstantTypes DEF NoHandler
  <2> QED BY <1>0, <1>1, <1>2, <2>1 DEF TypeOK
<1> HIDE DEF h
<1>5. \A s \in Request : s # r =>
        /\ request'[s].m = request[s].m
        /\ request'[s].call = request[s].call
        /\ request'[s].op = request[s].op
        /\ request'[s].pc = request[s].pc
        /\ request'[s].config = request[s].config
        /\ request'[s].stopped = request[s].stopped
        /\ request'[s].alone => request[s].alone /\ request[s].m # m
  <2>1. \A s \in Request : s # r => request'[s] = Crowded(m)[s]
    BY <1>0, <1>3, CrowdedType
  <2> QED BY <1>0, <2>1, CrowdedFields
<1>6. /\ request'[r].m = m /\ request'[r].call = FreeCall /\ request'[r].op = q.op
      /\ request'[r].pc = op /\ request'[r].config = q.config
      /\ request'[r].stopped = q.stopped
      /\ request'[r].alone => q.alone /\ others = {}
  <2>1. PICK b \in BOOLEAN :
          /\ request' = [Crowded(m) EXCEPT ![r] =
                           [q EXCEPT !.call = FreeCall, !.pc = op, !.alone = b]]
          /\ b => q.alone /\ others = {}
    BY <1>3 DEF Asking
  <2>2. request'[r] = [q EXCEPT !.call = FreeCall, !.pc = op, !.alone = b]
    BY <1>0, <2>1, CrowdedType
  <2> DEFINE n == [q EXCEPT !.call = FreeCall, !.pc = op, !.alone = b]
  <2>3. /\ n.m = q.m /\ n.call = FreeCall /\ n.op = q.op /\ n.pc = op
        /\ n.config = q.config /\ n.stopped = q.stopped /\ n.alone = b
    BY DEF Asking
  <2> HIDE DEF n, others
  <2> QED BY <2>1, <2>2, <2>3 DEF n
<1>7. \A s \in Request : request[s].call \in Call \cup {NoCall}
  BY <1>0 DEF TypeOK, Asking, NoRequest
<1>8. Waited'
  <2>1. ASSUME NEW s \in Request
        PROVE  IF request'[s].call = NoCall
                 THEN request'[s].pc \notin {"create", "stop", "start", "delete"}
                 ELSE /\ handler'[request'[s].call] # NoHandler
                      /\ handler'[request'[s].call].m = request'[s].m
                      /\ handler'[request'[s].call].op = request'[s].pc
                      /\ \A t \in Request : request'[t].call = request'[s].call => t = s
    <3>1. CASE s = r
      BY <1>1, <1>4, <1>5, <1>6, <3>1
    <3>2. CASE s # r
      BY <1>1, <1>4, <1>5, <1>6, <1>7, <3>2 DEF IInv, Waited
    <3> QED BY <3>1, <3>2
  <2> QED BY <2>1 DEF Waited
<1>9. Rebuilding'
  BY <1>5, <1>6 DEF IInv, Rebuilding
<1>10. \A s \in Request : s # r /\ Alone(s)' => Alone(s) /\ request[s].m # m
  BY <1>5 DEF Alone
<1>11. ASSUME others = {}
       PROVE  /\ \A s \in Request : request[s].m = m => s = r
              /\ \A k \in Call : handler[k].m # m
  <2>1. Users(m) \subseteq {r}
    BY <1>11
  <2>2. ASSUME NEW s \in Request, request[s].m = m PROVE s = r
    <3>1. request[s] # NoRequest
      BY <1>0, <2>2, ConstantTypes DEF NoRequest
    <3> QED BY <2>1, <2>2, <3>1 DEF Users, Requests
  <2>3. ASSUME NEW k \in Call, handler[k].m = m PROVE FALSE
    <3>1. k # r
      BY WorkspacesAssumption
    <3>2. PICK s \in Request : request[s].call = k
      BY <2>1, <2>3, <3>1 DEF Users, Handlers, Waits
    <3>3. request[s].m = m
      BY <2>3, <3>2, ConstantTypes DEF IInv, Waited
    <3> QED BY <2>2, <3>2, <3>3, ConstantTypes
  <2> QED BY <2>2, <2>3
<1>12. Apart'
  <2>1. ASSUME NEW s \in Request, Alone(s)'
        PROVE  /\ \A t \in Request : request'[t].m = request'[s].m => t = s
               /\ \A k \in Call : handler'[k].m = request'[s].m => request'[s].call = k
    <3>1. CASE s = r
      <4>1. others = {}
        BY <1>6, <2>1, <3>1 DEF Alone
      <4> QED BY <1>4, <1>5, <1>6, <1>11, <3>1, <4>1
    <3>2. CASE s # r
      BY <1>4, <1>5, <1>6, <1>10, <2>1, <3>2 DEF IInv, Apart
    <3> QED BY <3>1, <3>2
  <2> QED BY <2>1 DEF Apart
<1>13. Restarted'
  <2>1. ASSUME NEW s \in Request, Uninterrupted(s)' PROVE Halted(s)' /\ Applied(s)'
    <3>1. CASE s # r
      <4>1. Halted(s) /\ Applied(s)
        BY <1>5, <1>10, <2>1, <3>1 DEF IInv, Restarted, Uninterrupted
      <4>2. request[s].pc \in {"stop", "start"} =>
              handler'[request[s].call] = handler[request[s].call]
        BY <1>1, <1>4, <1>7 DEF IInv, Waited
      <4> QED BY <1>5, <3>1, <4>1, <4>2 DEF Halted, Applied
    <3>2. CASE s = r
      <4>1. q.op = "rebuild"
        BY <1>6, <2>1, <3>2 DEF Uninterrupted
      <4>2. CASE op = "stop"
        <5>1. h.pc = "ready" => row[m].status # "running"
          BY <1>4, <4>2 DEF First, NoRow
        <5> QED BY <1>4, <1>6, <3>2, <4>2, <5>1 DEF Halted, Applied
      <4>3. CASE op = "start" /\ q.pc = "again" /\ request[r] = q
        <5>1. Uninterrupted(r)
          BY <1>6, <2>1, <3>2, <4>1, <4>3 DEF Uninterrupted, Alone
        <5>2. row[m].status # "running" /\ row[m].config = q.config
          BY <4>3, <5>1 DEF IInv, Restarted, Halted, Applied
        <5>3. h.pc \in {"failed", "remove"}
          BY <1>4, <4>3, <5>2 DEF First
        <5> QED BY <1>4, <1>6, <3>2, <4>3, <5>2, <5>3 DEF Halted, Applied
      <4> QED BY <4>1, <4>2, <4>3
    <3> QED BY <3>1, <3>2
  <2> QED BY <2>1 DEF Restarted
<1> QED BY <1>8, <1>9, <1>12, <1>13 DEF IInv

LEMMA AskKeeps ==
  ASSUME IInv, NEW m \in Container, Ask(m)
  PROVE  IInv'
<1>0. TypeOK /\ TypeOK'
  BY AskType DEF IInv
<1>1. /\ FreeRequest \in Request /\ request[FreeRequest] = NoRequest
      /\ UNCHANGED <<row, dock>>
      /\ NoRequest.call = NoCall
  BY <1>0, FreeRequestType DEF Ask, CreateWorkspace, RebuildWorkspace, StopWorkspace,
     ToolStartWorkspace, DeleteWorkspace, NoRequest
<1>2. CASE RebuildWorkspace(m)
  <2>0. PICK sent \in Version :
          CallKernel(FreeRequest, [Asked("rebuild", m) EXCEPT !.config = sent], "stop")
    BY <1>0, <1>2, FreeRequestType, ConstantTypes DEF RebuildWorkspace, Nothing, Version
  <2> DEFINE a == Asked("rebuild", m)
             q == [a EXCEPT !.config = sent]
  <2>1. a \in Asking /\ a.op = "rebuild" /\ ~a.stopped
    BY AskedType
  <2>2. CallKernel(FreeRequest, q, "stop")
    BY <2>0
  <2> HIDE DEF a
  <2>3. q \in Asking /\ q.op = "rebuild" /\ ~q.stopped
    BY <1>0, <2>1 DEF Asking, TypeOK
  <2> HIDE DEF q
  <2> QED BY <1>0, <1>1, <2>2, <2>3, CallKeeps
<1>3. CASE ~RebuildWorkspace(m)
  <2>1. PICK op \in {"create", "start", "stop", "delete"} :
          CallKernel(FreeRequest, Asked(op, m), op)
    BY <1>3 DEF Ask, CreateWorkspace, StopWorkspace, ToolStartWorkspace, DeleteWorkspace
  <2>2. Asked(op, m) \in Asking /\ Asked(op, m).op # "rebuild"
    BY AskedType
  <2> QED BY <1>0, <1>1, <2>1, <2>2, CallKeeps
<1> QED BY <1>2, <1>3

LEMMA StartAgainKeeps ==
  ASSUME IInv, NEW r \in Request, StartAgain(r)
  PROVE  IInv'
<1>0. TypeOK /\ TypeOK'
  BY GoOnType DEF IInv, GoOn
<1>1. request[r] \in Asking /\ request[r].pc = "again"
  BY <1>0, AskingAt DEF StartAgain
<1>2. request[r].call = NoCall
  <2>1. SUFFICES ASSUME request[r].call # NoCall PROVE FALSE
    OBVIOUS
  <2>2. request[r].call \in Call
    BY <1>1, <2>1 DEF Asking
  <2>3. handler[request[r].call] # NoHandler /\ handler[request[r].call].op = request[r].pc
    BY <2>1 DEF IInv, Waited
  <2> QED BY <1>0, <1>1, <2>2, <2>3 DEF TypeOK, Serving, Starting
<1>3. CASE CallKernel(r, request[r], "start")
  BY <1>0, <1>1, <1>2, <1>3, CallKeeps DEF StartAgain
<1>4. CASE request' = [request EXCEPT ![r] = NoRequest] /\ UNCHANGED handler
  <2>1. \A s \in Request : request'[s] = IF s = r THEN NoRequest ELSE request[s]
    BY <1>0, <1>4 DEF TypeOK
  <2>2. \A s \in Request : request[s].call \in Call => handler[request[s].call] # NoHandler
    BY ConstantTypes DEF IInv, Waited
  <2>3. UNCHANGED <<row, dock>>
    BY DEF StartAgain
  <2> QED BY <1>0, <1>4, <2>1, <2>2, <2>3, EndKeeps
<1> QED BY <1>3, <1>4 DEF StartAgain

LEMMA ElseKeeps ==
  ASSUME IInv,
         \/ MonitorLists \/ Boot \/ RecoverManagedContainers \/ UNCHANGED vars
         \/ \E m \in Container : \/ MonitorChecks(m)
                                 \/ ContainerDies(m)
  PROVE  IInv'
<1>0. TypeOK /\ TypeOK'
  BY MonitorType, SystemStepType, StayType DEF IInv
<1>1. UNCHANGED <<handler, request>>
  BY DEF MonitorLists, Boot, RecoverManagedContainers, MonitorChecks,
     ContainerDies, vars, manager
<1>2. CASE UNCHANGED <<row, dock>>
  BY <1>0, <1>1, <1>2, QuietKeeps
<1>3. ASSUME NEW m \in Container, MonitorChecks(m), row' # row PROVE IInv'
  <2>1. row' = [row EXCEPT ![m].status = IF row[m] = NoRow THEN @ ELSE "stopped"]
    BY <1>3 DEF MonitorChecks
  <2>2. \A n \in Container : /\ row'[n].status = "running" => row[n].status = "running"
                             /\ row'[n].config = row[n].config
    BY <1>0, <2>1 DEF TypeOK, Row
  <2> QED BY <1>0, <1>1, <1>3, <2>2, QuietKeeps DEF MonitorChecks
<1>4. ASSUME NEW m \in Container, ContainerDies(m) PROVE IInv'
  <2>1. dock' = [dock EXCEPT ![m].running = FALSE] /\ UNCHANGED row
    BY <1>4 DEF ContainerDies
  <2>2. \A n \in Container : dock'[n].config = dock[n].config
    BY <1>0, <2>1 DEF TypeOK
  <2> QED BY <1>0, <1>1, <2>1, <2>2, QuietKeeps
<1> QED
  BY <1>2, <1>3, <1>4 DEF MonitorLists, Boot, RecoverManagedContainers, 
     MonitorChecks, vars

LEMMA IInvNext == IInv /\ [Next]_vars => IInv'
<1> SUFFICES ASSUME IInv, [Next]_vars PROVE IInv'
  OBVIOUS
<1>1. ASSUME NEW k \in Call, Handle(k) \/ TimeOut(k) PROVE IInv'
  BY <1>1, HandleKeeps, RespondKeeps, TimeOutKeeps
<1>2. ASSUME NEW r \in Request, GoOn(r) PROVE IInv'
  BY <1>2, GoesKeeps, StartAgainKeeps DEF GoOn
<1>3. ASSUME NEW m \in Container, Ask(m) \/ ForceDelete(m) \/ Recover(m) PROVE IInv'
  BY <1>3, AskKeeps, JoinKeeps
<1>4. CASE ManagerStops \/ StopAllPlugins
  <2>1. TypeOK'
    BY <1>4, TypeNext DEF IInv, Next
  <2>2. \A r \in Request : request'[r] = NoRequest
    BY <1>4 DEF ManagerStops, StopAllPlugins, ManagerEnds
  <2> QED BY <2>1, <2>2, EndedKeeps
<1>5. CASE KernelStops
  BY <1>5, KernelStopsKeeps
<1> QED BY <1>1, <1>2, <1>3, <1>4, <1>5, ElseKeeps DEF Next

\* A restart ends with success where its handler is ready, whoever ends it.
LEMMA SucceedsApplied ==
  ASSUME IInv, NEW r \in Request, request[r].op = "rebuild", request[r].stopped,
         request[r].alone, Succeeds(r)
  PROVE  dock[request[r].m].config = request[r].config
<1>1. PICK k \in Call : request[r].call = k /\ handler[k].pc = "ready"
  BY DEF Succeeds, Waits
<1>2. Uninterrupted(r)
  BY DEF Uninterrupted, Alone
<1>3. request[r].pc = "start" /\ request[r].stopped
  BY <1>1, <1>2, WaitsFor DEF IInv, Rebuilding
<1>4. Applied(r)
  BY <1>2 DEF IInv, Restarted
<1> QED BY <1>1, <1>3, <1>4 DEF Applied

\* A restart that succeeds leaves a container made from what its own update wrote
\* into the row, what was kept of the row included, if its stop succeeded, whose
\* answer it does not look at, and nobody worked on the workspace meanwhile
\* (workspaces.go:887-907, managed_containers.go:349-374, 410).
THEOREM RestartsApply == Spec => RestartApplies
<1>1. IInv => \A r \in Request :
         (/\ request[r].op = "rebuild" /\ request[r].stopped /\ request[r].alone
          /\ Succeeds(r) /\ request'[r] = NoRequest)
           => dock[request[r].m].config = request[r].config
  BY SucceedsApplied
<1>2. Spec => []IInv
  BY IInvInit, IInvNext, PTL DEF Spec
<1> QED BY <1>1, <1>2, PTL DEF RestartApplies

(***************************************************************************)
(* Rows, containers and records.  That an undisturbed container is as its  *)
(* row says is not inductive: at every step of a handler it needs what the *)
(* steps before have left, and that the handler works alone.  Three        *)
(* strengthenings are proved, each from the one before.                    *)
(***************************************************************************)
\* A container that no row was made for is known to nobody.
Untouched(m) ==
  /\ row[m] = NoRow /\ ~Runs(m) /\ recovery[m] = NoRow /\ m \notin removed
  /\ \A k \in Call : handler[k].m # m
  /\ \A r \in Request : request[r].m # m
Fresh == \A m \in Container : m \notin created => Untouched(m)

\* A handler that somebody waits for has its caller.
Attended == \A r \in Request : request[r].call # NoCall => handler[request[r].call].ctx

\* The step of a request tells what it is for; a workspace is forgotten once
\* its row is gone.
Purposeful ==
  \A r \in Request :
    /\ request[r].op = "create" <=> request[r].pc \in {"create", "put"}
    /\ request[r].op = "delete" <=> request[r].pc \in {"delete", "forget"}
    /\ request[r].pc = "forget" => request[r].m \in removed

\* A deletion that is done, and a creation that failed, have removed the row.
Concluded ==
  \A k \in Call :
    \/ handler[k].op = "delete" /\ handler[k].pc = "ready"
    \/ handler[k].op = "create" /\ handler[k].pc = "failed"
    => handler[k].m \in removed

\* What runs, and what is about to run, has an identity.
Named ==
  /\ \A m \in Container : Runs(m) => dock[m].id # NoId
  /\ \A k \in Call : handler[k].pc = "run" => handler[k].mc.cid # NoId

LInv == IInv /\ Fresh /\ Attended /\ Purposeful /\ Concluded /\ Named

\* What a handler that starts a container has made of it so far.
Saves(k) == handler[k].pc = "save" /\ handler[k].op \in Starting
Prepared(k) ==
  /\ handler[k].pc \in {"make", "run"} => ~Runs(handler[k].m)
  /\ Saves(k) /\ Runs(handler[k].m) => dock[handler[k].m].id = handler[k].mc.cid

\* A start that nobody overlapped has put away whatever was there before.
Restores(r) ==
  /\ request[r].alone
  /\ request[r].pc = "start"
  /\ handler[request[r].call].pc \in {"remove", "make", "run", "save"}
StartsAlone ==
  \A r \in Request :
    Restores(r) =>
      /\ Prepared(request[r].call)
      /\ recovery[request[r].m] = NoRow
      /\ row[request[r].m].status # "running"

SInv == LInv /\ StartsAlone

\* One user at most: a request with the handler it waits for, a handler of the
\* administrator or of the recovery, or the recovery that has it listed.
Single(m) ==
  /\ \A r, s \in Request : request[r].m = m /\ request[s].m = m => r = s
  /\ \A k, l \in Call : handler[k].m = m /\ handler[l].m = m => k = l
  /\ \A k \in Call : handler[k].m = m =>
       /\ handler[k].ctx
       /\ \A r \in Request : request[r].m = m => request[r].call = k
       /\ \/ handler[k].op \in {"recover", "force"}
          \/ \E r \in Request : request[r].m = m /\ request[r].call = k
  /\ recovery[m] # NoRow =>
       /\ \A k \in Call : handler[k].m # m
       /\ \A r \in Request : request[r].m # m

\* The row says what runs, but for the time between a start and its record.
Good(m) == Runs(m) => row[m].status = "running" /\ row[m].cid = dock[m].id
Settled(m) ==
  /\ (\A k \in Call : handler[k].m = m => ~Saves(k)) => Good(m)
  /\ recovery[m] # NoRow => row[m].status = "running"
  /\ m \in removed => row[m] = NoRow /\ ~Runs(m)
  /\ disturbed[m] = "never" /\ row[m] # NoRow =>
       \/ m \in record
       \/ \E r \in Request : request[r].m = m /\ request[r].op = "create"

\* What holds at each step of a handler that works alone.
Stage(k) ==
  LET h == handler[k]
      m == h.m
  IN /\ Prepared(k)
     /\ h.pc \in {"insert", "drop"} => ~Runs(m)
     /\ h.pc = "save" /\ h.op = "stop" => ~Runs(m)
     /\ h.pc = "halt" => h.mc.cid = row[m].cid
     /\ h.pc = "insert" => m \notin removed
     /\ h.pc \notin {"insert", "ready", "failed"} => row[m] # NoRow
     /\ h.op = "recover" /\ h.pc \notin {"ready", "failed"} => row[m].status = "running"

Calm(m) ==
  /\ Single(m)
  /\ Settled(m)
  /\ \A k \in Call : handler[k].m = m => Stage(k)

QInv == SInv /\ \A m \in Container : disturbed[m] # "now" => Calm(m)

\* What a step of a handler does to its container and to itself.
HandlerStep(k) ==
  LET h == handler[k]
      n == handler'[k]
      m == h.m
  IN \/ /\ h.pc = "insert" /\ n.pc = "remove" /\ h.op = "create"
        /\ row'[m].status = "stopped"
        /\ dock'[m] = dock[m] /\ UNCHANGED <<removed, disturbed>>
     \/ /\ h.pc = "remove" /\ n.pc = "make" /\ h.op \in Starting
        /\ row'[m] = row[m] /\ UNCHANGED <<removed, disturbed>>
        /\ ~dock'[m].running \/ (~h.ctx /\ dock'[m] = dock[m])
     \/ /\ h.pc = "make" /\ n.pc = "run" /\ h.op \in Starting
        /\ n.mc.cid # NoId
        /\ row'[m] = row[m] /\ UNCHANGED <<removed, disturbed>>
        /\ ~dock'[m].running
     \/ /\ h.pc \in {"make", "run"} /\ n.pc = "failed" /\ h.op \in Starting
        /\ h.ctx => dock'[m] = dock[m]
        /\ dock'[m].running => \/ dock'[m] = dock[m]
                               \/ h.pc = "run" /\ dock'[m].id = h.mc.cid
        /\ UNCHANGED disturbed
        /\ h.op = "create" => row'[m] = NoRow /\ removed' = removed \cup {m}
        /\ h.op # "create" =>
             /\ UNCHANGED removed
             /\ \/ row'[m] = row[m]
                \/ h.op = "recover" /\ row[m] # NoRow /\ row'[m].status = "stopped"
     \/ /\ h.pc = "run" /\ n.pc = "save" /\ h.op \in Starting
        /\ n.mc = h.mc
        /\ row'[m] = row[m] /\ UNCHANGED <<removed, disturbed>>
        /\ dock'[m].running /\ dock'[m].id = h.mc.cid
     \/ /\ h.pc = "save" /\ n.pc = "ready" /\ h.op \in Starting
        /\ h.op # "recover" => row'[m].status = "running" /\ row'[m].cid = h.mc.cid
        /\ h.op = "recover" =>
             \/ row[m] = NoRow /\ row'[m] = NoRow
             \/ row[m] # NoRow /\ row'[m].status = row[m].status /\ row'[m].cid = h.mc.cid
        /\ dock'[m] = dock[m] /\ UNCHANGED removed
        /\ \/ UNCHANGED disturbed
           \/ /\ \E r \in Request : request[r].call = k /\ request[r].alone
              /\ h.op = "start" /\ m \notin removed
              /\ disturbed'[m] = "past"
     \/ /\ h.pc = "halt" /\ n.mc = h.mc
        /\ \/ n.pc = "save" /\ h.op = "stop"
           \/ n.pc = "drop" /\ h.op \in {"delete", "force"}
        /\ \/ dock[m].id = h.mc.cid /\ ~dock'[m].running
           \/ dock[m].id # h.mc.cid /\ dock'[m] = dock[m]
        /\ row'[m] = row[m] /\ UNCHANGED <<removed, disturbed>>
     \/ /\ h.pc = "halt" /\ n.mc = h.mc
        /\ \/ h.op = "force" /\ n.pc = "drop" /\ disturbed'[m] = "now"
           \/ h.op \in {"stop", "delete"} /\ n.pc = "failed" /\ UNCHANGED disturbed
        /\ dock'[m].running => dock'[m] = dock[m]
        /\ row'[m] = row[m] /\ UNCHANGED removed
     \/ /\ h.pc = "save" /\ n.pc = "ready" /\ h.op = "stop"
        /\ row'[m].status = "stopped"
        /\ dock'[m] = dock[m] /\ UNCHANGED <<removed, disturbed>>
     \/ /\ h.pc = "drop" /\ n.pc = "ready" /\ h.op \in {"delete", "force"}
        /\ row'[m] = NoRow /\ removed' = removed \cup {m}
        /\ dock'[m] = dock[m] /\ UNCHANGED disturbed

LEMMA HandlerSteps ==
  ASSUME TypeOK, NEW k \in Call, Handle(k), ~Respond(k)
  PROVE  /\ HandlerStep(k)
         /\ Works(k) /\ handler[k] \in Serving /\ handler[k].m \in Container
         /\ handler'[k].ctx = handler[k].ctx
         /\ \A m \in Container : m # handler[k].m => disturbed'[m] = disturbed[m]
         /\ removed' \in {removed, removed \cup {handler[k].m}}
         /\ UNCHANGED <<recovery, record, created, kernel>>
<1> USE DEF At
<1>0. handler[k] \in Serving /\ handler[k].pc \in Step(handler[k].op)
  <2>1. handler[k].pc # "idle"
    BY DEF Handle, CreateRow, RemoveStale, MakeContainer, MakeFails, RunContainer, RunFails,
       SaveStarted, HaltContainer, HaltFails, SaveStopped, DropRow
  <2> QED BY <2>1, ServingAt
<1> DEFINE m == handler[k].m
<1>m. m \in Container /\ handler[k].mc \in Row
      /\ handler[k].op \in Starting \cup {"stop", "delete", "force"}
  BY <1>0 DEF Serving
<1>w. Works(k)
  BY HandlerWorks
<1>g. ASSUME NEW pc, Go(k, pc)
      PROVE  handler'[k].pc = pc /\ handler'[k].mc = handler[k].mc /\ handler'[k].ctx = handler[k].ctx
  BY <1>0, <1>g DEF Go, TypeOK, Serving
<1>r. /\ row[m] \in Row
      /\ dock[m] \in [id : Id, running : BOOLEAN, config : Version]
      /\ ~Absent.running
  BY <1>m DEF TypeOK, Absent
<1>1. CASE CreateRow(k)
  <2> DEFINE mc == [NoRow EXCEPT !.status = "stopped"]
  <2>1. mc.status = "stopped"
    BY DEF NoRow
  <2>2. row'[m] = mc /\ handler'[k].pc = "remove" /\ handler'[k].ctx = handler[k].ctx
    BY <1>0, <1>1, <1>m DEF CreateRow, TypeOK, Serving
  <2>3. handler[k].op = "create"
    BY <1>0, <1>1, <1>m DEF CreateRow, Step, Starting
  <2> HIDE DEF mc
  <2> QED BY <1>1, <1>w, <1>0, <1>m, <2>1, <2>2, <2>3
          DEF CreateRow, HandlerStep, system, manager, history
<1>2. CASE RemoveStale(k)
  <2>1. handler[k].op \in Starting
    BY <1>0, <1>2, <1>m DEF RemoveStale, Step, Starting
  <2>2. ~dock'[m].running \/ (~handler[k].ctx /\ dock'[m] = dock[m])
    BY <1>2, <1>m, <1>r DEF RemoveStale, TypeOK
  <2> QED BY <1>2, <1>w, <1>0, <1>m, <1>g, <2>1, <2>2
          DEF RemoveStale, HandlerStep, system, manager, history
<1>3. CASE MakeContainer(k)
  <2>1. handler[k].op \in Starting
    BY <1>0, <1>3, <1>m DEF MakeContainer, Step, Starting
  <2>2. ~dock'[m].running
    BY <1>3, <1>m DEF MakeContainer, Made, TypeOK
  <2>3. /\ handler'[k].pc = "run" /\ handler'[k].ctx = handler[k].ctx
        /\ handler'[k].mc.cid = starts + 1
    BY <1>3, <1>0, <1>m DEF MakeContainer, TypeOK, Serving, Row
  <2>4. starts + 1 # NoId
    BY WorkspacesAssumption DEF NoId, TypeOK, Id
  <2> QED BY <1>3, <1>w, <1>0, <1>m, <2>1, <2>2, <2>3, <2>4
          DEF MakeContainer, HandlerStep, system, manager, history
<1>4. CASE MakeFails(k) \/ RunFails(k)
  <2>1. /\ handler[k].op \in Starting /\ handler[k].pc \in {"make", "run"}
        /\ Go(k, "failed") /\ Undo(k)
        /\ UNCHANGED <<system, manager, created, disturbed>>
    BY <1>0, <1>4, <1>m DEF MakeFails, RunFails, Undo, Step, Starting
  <2>2. /\ handler[k].ctx => dock'[m] = dock[m]
        /\ dock'[m].running => \/ dock'[m] = dock[m]
                               \/ handler[k].pc = "run" /\ dock'[m].id = handler[k].mc.cid
    BY <1>4, <1>m, <1>r DEF MakeFails, RunFails, Made, TypeOK
  <2>3. /\ handler[k].op = "create" => row'[m] = NoRow /\ removed' = removed \cup {m}
        /\ handler[k].op # "create" =>
             /\ UNCHANGED removed
             /\ \/ row'[m] = row[m]
                \/ /\ handler[k].op = "recover" /\ row[m] # NoRow
                   /\ row'[m].status = "stopped"
    BY <1>m, <1>r, <2>1 DEF Undo, TypeOK, Row
  <2> QED BY <1>w, <1>0, <1>m, <1>g, <2>1, <2>2, <2>3
          DEF HandlerStep, system, manager
<1>5. CASE RunContainer(k)
  <2>1. handler[k].op \in Starting
    BY <1>0, <1>5, <1>m DEF RunContainer, Step, Starting
  <2>2. dock'[m].running /\ dock'[m].id = handler[k].mc.cid
    BY <1>5, <1>m, <1>r DEF RunContainer, TypeOK
  <2> QED BY <1>5, <1>w, <1>0, <1>m, <1>g, <2>1, <2>2
          DEF RunContainer, HandlerStep, system, manager, history
<1>6. CASE SaveStarted(k)
  <2> DEFINE saved == [handler[k].mc EXCEPT !.status = "running"]
  <2>1. saved.status = "running" /\ saved.cid = handler[k].mc.cid
    BY <1>m DEF Row
  <2> HIDE DEF saved
  <2>2. row' = IF handler[k].op # "recover" THEN [row EXCEPT ![m] = saved]
               ELSE IF row[m] = NoRow THEN row
               ELSE [row EXCEPT ![m].cid = saved.cid]
    BY <1>6 DEF SaveStarted, saved
  <2>3. /\ handler[k].op # "recover" =>
             row'[m].status = "running" /\ row'[m].cid = handler[k].mc.cid
        /\ handler[k].op = "recover" =>
             \/ row[m] = NoRow /\ row'[m] = NoRow
             \/ /\ row[m] # NoRow /\ row'[m].status = row[m].status
                /\ row'[m].cid = handler[k].mc.cid
    BY <1>m, <1>r, <2>1, <2>2 DEF TypeOK, Row
  <2>4. /\ \/ UNCHANGED disturbed
           \/ /\ \E r \in Request : request[r].call = k /\ request[r].alone
              /\ handler[k].op = "start" /\ m \notin removed
              /\ disturbed'[m] = "past"
        /\ \A n \in Container : n # m => disturbed'[n] = disturbed[n]
    BY <1>6, <1>m DEF SaveStarted, TypeOK, Waits
  <2> QED BY <1>6, <1>w, <1>0, <1>m, <1>g, <2>3, <2>4
          DEF SaveStarted, HandlerStep, system, manager, history
<1>7. CASE HaltContainer(k)
  <2>1. handler[k].op \in {"stop", "delete", "force"}
    BY <1>0, <1>7, <1>m DEF HaltContainer, Step, Starting
  <2>2. \/ dock[m].id = handler[k].mc.cid /\ ~dock'[m].running
        \/ dock[m].id # handler[k].mc.cid /\ dock'[m] = dock[m]
    BY <1>7, <1>m, <1>r DEF HaltContainer, TypeOK
  <2>3. handler'[k].pc = IF handler[k].op = "stop" THEN "save" ELSE "drop"
    BY <1>7, <1>g DEF HaltContainer
  <2>4. handler'[k].mc = handler[k].mc /\ handler'[k].ctx = handler[k].ctx
    BY <1>7, <1>g DEF HaltContainer
  <2> QED BY <1>7, <1>w, <1>0, <1>m, <2>1, <2>2, <2>3, <2>4
          DEF HaltContainer, HandlerStep, system, manager, history
<1>8. CASE HaltFails(k)
  <2>1. handler[k].op \in {"stop", "delete", "force"}
    BY <1>0, <1>8, <1>m DEF HaltFails, Step, Starting
  <2>2. dock'[m].running => dock'[m] = dock[m]
    BY <1>8, <1>m, <1>r DEF HaltFails, TypeOK
  <2>3. handler'[k].pc = IF handler[k].op = "force" THEN "drop" ELSE "failed"
    BY <1>8, <1>g DEF HaltFails
  <2>4. handler'[k].mc = handler[k].mc /\ handler'[k].ctx = handler[k].ctx
    BY <1>8, <1>g DEF HaltFails
  <2>5. \A n \in Container :
          disturbed'[n] = IF n = m /\ handler[k].op = "force" THEN "now" ELSE disturbed[n]
    BY <1>8 DEF HaltFails, Disturb
  <2>6. handler[k].op # "force" => UNCHANGED disturbed
    BY <1>8 DEF HaltFails, Disturb, TypeOK
  <2> QED BY <1>8, <1>w, <1>0, <1>m, <2>1, <2>2, <2>3, <2>4, <2>5, <2>6
          DEF HaltFails, HandlerStep, system, manager, history
<1>9. CASE SaveStopped(k)
  <2>1. row'[m].status = "stopped"
    BY <1>9, <1>m DEF SaveStopped, TypeOK, Row
  <2> QED BY <1>9, <1>w, <1>0, <1>m, <1>g, <2>1
          DEF SaveStopped, HandlerStep, system, manager, history
<1>10. CASE DropRow(k)
  <2>1. row'[m] = NoRow
    BY <1>10, <1>m DEF DropRow, TypeOK
  <2>2. handler[k].op \in {"delete", "force"}
    BY <1>0, <1>10, <1>m DEF DropRow, Step, Starting
  <2> QED BY <1>10, <1>w, <1>0, <1>m, <1>g, <2>1, <2>2
          DEF DropRow, HandlerStep, system, manager, history
<1> QED
  BY <1>1, <1>2, <1>3, <1>4, <1>5, <1>6, <1>7, <1>8, <1>9, <1>10 DEF Handle

\* A request that has its answer ends, or goes on.
Continues(r, ok) ==
  \/ request'[r] = NoRequest
  \/ /\ request'[r].call = NoCall
     /\ request'[r].op = request[r].op /\ request'[r].m = request[r].m
     /\ \/ request[r].op = "create" /\ ok /\ request'[r].pc = "put"
        \/ request[r].op = "delete" /\ ok /\ request'[r].pc = "forget"
        \/ request[r].op = "rebuild" /\ request'[r].pc = "update"

LEMMA ContinuesAfter ==
  ASSUME NEW r \in Request, request[r] \in Asking, NEW ok \in BOOLEAN,
         request'[r] = After(request[r], ok)
  PROVE  Continues(r, ok)
<1> DEFINE q == request[r]
<1>1. \/ After(q, ok) = NoRequest
      \/ /\ After(q, ok).call = NoCall
         /\ After(q, ok).op = q.op /\ After(q, ok).m = q.m
         /\ \/ q.op = "create" /\ ok /\ After(q, ok).pc = "put"
            \/ q.op = "delete" /\ ok /\ After(q, ok).pc = "forget"
            \/ q.op = "rebuild" /\ After(q, ok).pc = "update"
  BY DEF After, Asking
<1> QED BY <1>1 DEF Continues

LEMMA NoOne ==
  /\ NoRequest.call = NoCall /\ NoRequest.pc = "idle" /\ NoRequest.op = "none"
  /\ NoRequest.m = NoContainer /\ ~NoRequest.alone
  /\ NoHandler.m = NoContainer /\ NoHandler.pc = "idle" /\ NoHandler.op = "none"
  /\ \A m \in Container : NoContainer # m
  /\ \A k \in Call : NoCall # k
  /\ NoRow.status = "none" /\ NoRow.cid = NoId
  /\ ~Absent.running
BY ConstantTypes DEF NoRequest, NoHandler, NoRow, Absent

LEMMA CallTypes ==
  ASSUME TypeOK, NEW r \in Request
  PROVE  request[r].call \in Call \cup {NoCall}
BY DEF TypeOK, Asking, NoRequest

\* A request that waits does so for a handler that is at its container.
LEMMA WaitsAt ==
  ASSUME IInv, NEW r \in Request, request[r].call # NoCall
  PROVE  /\ request[r].call \in Call
         /\ handler[request[r].call] \in Serving
         /\ handler[request[r].call].m = request[r].m
         /\ handler[request[r].call].op = request[r].pc
         /\ request[r].m \in Container
         /\ request[r].pc \in Op
         /\ request[r].op # "none"
<1>1. request[r].call \in Call
  BY CallTypes DEF IInv
<1>2. /\ handler[request[r].call] # NoHandler
      /\ handler[request[r].call].m = request[r].m
      /\ handler[request[r].call].op = request[r].pc
  BY DEF IInv, Waited
<1>3. handler[request[r].call] \in Serving
  BY <1>1, <1>2 DEF IInv, TypeOK
<1>4. request[r] # NoRequest
  BY DEF NoRequest
<1>5. request[r] \in Asking
  BY <1>4, AskingAt DEF IInv
<1> QED BY <1>1, <1>2, <1>3, <1>5 DEF Serving, Op, Asking

\* A request at a container asks for it.
LEMMA RequestAt ==
  ASSUME TypeOK, NEW r \in Request, request[r].m \in Container
  PROVE  request[r] \in Asking /\ request[r] # NoRequest
BY NoOne DEF TypeOK

LEMMA HandlerAt ==
  ASSUME TypeOK, NEW k \in Call, handler[k].m \in Container
  PROVE  handler[k] \in Serving /\ handler[k] # NoHandler /\ handler[k].pc \in Step(handler[k].op)
BY NoOne DEF TypeOK

\* Nobody but x is at a container.
LEMMA Unshared ==
  ASSUME IInv, NEW m \in Container, NEW x, x \notin Call, Users(m) \ {x} = {}
  PROVE  /\ \A s \in Request : request[s].m = m => s = x
         /\ \A k \in Call : handler[k].m = m => \E s \in Request : s = x /\ request[s].call = k
         /\ recovery[m] # NoRow => m = x
<1>1. ASSUME NEW s \in Request, request[s].m = m PROVE s = x
  <2>1. request[s] # NoRequest
    BY <1>1, RequestAt DEF IInv
  <2> QED BY <1>1, <2>1 DEF Users, Requests
<1>2. ASSUME NEW k \in Call, handler[k].m = m
      PROVE  \E s \in Request : s = x /\ request[s].call = k
  <2>1. PICK s \in Request : request[s].call = k
    BY <1>2 DEF Users, Handlers, Waits
  <2>2. request[s].m = m
    BY <1>2, <2>1, WaitsAt, NoOne
  <2> QED BY <1>1, <2>1, <2>2
<1>3. recovery[m] # NoRow => m = x
  BY DEF Users
<1> QED BY <1>1, <1>2, <1>3

LEMMA Deserted ==
  ASSUME IInv, NEW m \in Container, Users(m) = {}
  PROVE  /\ \A s \in Request : request[s].m # m
         /\ \A k \in Call : handler[k].m # m
         /\ recovery[m] = NoRow
<1>1. m \notin Call /\ m \notin Request /\ Users(m) \ {m} = {}
  BY WorkspacesAssumption
<1>2. recovery[m] = NoRow
  BY DEF Users
<1> QED BY <1>1, <1>2, Unshared

(***************************************************************************)
(* What a step may do without any of this mattering: end handlers and      *)
(* requests, stop containers, give up rows that run.                       *)
(***************************************************************************)
Lets(r) ==
  \/ request'[r] = NoRequest
  \/ /\ request'[r] = request[r]
     /\ request[r].call # NoCall => handler'[request[r].call].ctx
  \/ /\ request'[r].call = NoCall
     /\ request'[r].m = request[r].m /\ request'[r].op = request[r].op
     /\ (request[r].op = "create") <=> (request'[r].pc = "put")
     /\ (request[r].op = "delete") <=> (request'[r].pc = "forget")
     /\ request'[r].pc \notin {"create", "delete", "start"}
     /\ request'[r].pc = "forget" => request[r].m \in removed

Loosens ==
  /\ \A m \in Container :
       /\ row[m] = NoRow => row'[m] = NoRow
       /\ row'[m].status = "running" => row[m].status = "running"
       /\ dock'[m].running => dock[m].running /\ dock'[m].id = dock[m].id
       /\ recovery'[m] # NoRow => recovery[m] # NoRow \/ row[m].status = "running"
  /\ UNCHANGED history
  /\ \A k \in Call :
       \/ handler'[k] = NoHandler
       \/ /\ handler'[k].m = handler[k].m /\ handler'[k].op = handler[k].op
          /\ handler'[k].pc = handler[k].pc /\ handler'[k].mc = handler[k].mc
  /\ \A r \in Request : Lets(r)

LEMMA LoosensKeeps ==
  ASSUME LInv, IInv', Loosens
  PROVE  LInv'
<1>1. Fresh'
  <2>1. ASSUME NEW m \in Container, m \notin created PROVE Untouched(m)'
    <3>1. Untouched(m)
      BY <2>1 DEF LInv, Fresh
    <3>2. row'[m] = NoRow /\ ~dock'[m].running /\ recovery'[m] = NoRow /\ m \notin removed'
      BY <3>1, NoOne DEF Loosens, Untouched, Runs, history
    <3>3. \A k \in Call : handler'[k].m # m
      BY <3>1, NoOne DEF Loosens, Untouched
    <3>4. \A r \in Request : request'[r].m # m
      BY <3>1, NoOne DEF Loosens, Untouched, Lets
    <3> QED BY <3>2, <3>3, <3>4 DEF Untouched, Runs
  <2> QED BY <2>1 DEF Loosens, history, Fresh
<1>2. Attended'
  BY NoOne DEF LInv, Attended, Loosens, Lets
<1>3. Purposeful'
  BY NoOne DEF LInv, Purposeful, Loosens, Lets, history
<1>4. Concluded'
  BY NoOne DEF LInv, Concluded, Loosens, history
<1>5. Named'
  BY NoOne DEF LInv, Named, Loosens, Runs
<1> QED BY <1>1, <1>2, <1>3, <1>4, <1>5 DEF LInv

LEMMA LoosensStarts ==
  ASSUME SInv, IInv', Loosens
  PROVE  StartsAlone'
<1> SUFFICES ASSUME NEW r \in Request, Restores(r)'
             PROVE  /\ Prepared(request[r].call)'
                    /\ recovery'[request'[r].m] = NoRow
                    /\ row'[request'[r].m].status # "running"
  BY DEF StartsAlone
<1>1. request'[r] = request[r]
  BY NoOne DEF Restores, Loosens, Lets
<1>2. request[r].call # NoCall
  BY <1>1 DEF Restores, SInv, LInv, IInv, Waited
<1> DEFINE k == request[r].call
<1>3. k \in Call /\ request[r].m \in Container /\ handler[k].m = request[r].m
  BY <1>2, WaitsAt DEF SInv, LInv
<1>4. /\ handler'[k].m = handler[k].m /\ handler'[k].op = handler[k].op
      /\ handler'[k].pc = handler[k].pc /\ handler'[k].mc = handler[k].mc
  BY <1>1, <1>3, NoOne DEF Restores, Loosens
<1>5. Restores(r)
  BY <1>1, <1>4 DEF Restores
<1>6. /\ Prepared(k) /\ recovery[request[r].m] = NoRow
      /\ row[request[r].m].status # "running"
  BY <1>5 DEF SInv, StartsAlone
<1>7. /\ dock'[request[r].m].running =>
           dock[request[r].m].running /\ dock'[request[r].m].id = dock[request[r].m].id
      /\ recovery'[request[r].m] = NoRow /\ row'[request[r].m].status # "running"
  BY <1>3, <1>6 DEF Loosens
<1>8. Prepared(k)'
  BY <1>1, <1>3, <1>4, <1>6, <1>7 DEF Prepared, Saves, Runs
<1> QED BY <1>1, <1>7, <1>8

(***************************************************************************)
(* The steps of the handlers.                                              *)
(***************************************************************************)
LEMMA StepKeeps ==
  ASSUME LInv, IInv', NEW k \in Call, Handle(k), ~Respond(k)
  PROVE  LInv'
<1> DEFINE m == handler[k].m
<1>0. TypeOK /\ IInv
  BY DEF LInv, IInv
<1>1. /\ HandlerStep(k)
      /\ Works(k) /\ handler[k] \in Serving /\ m \in Container
      /\ handler'[k].ctx = handler[k].ctx
      /\ removed' \in {removed, removed \cup {m}}
      /\ UNCHANGED <<recovery, created>>
  BY <1>0, HandlerSteps
<1>2. /\ UNCHANGED request
      /\ handler'[k].m = m /\ handler'[k].op = handler[k].op
      /\ \A j \in Call : j # k => handler'[j] = handler[j]
      /\ \A n \in Container : n # m => row'[n] = row[n] /\ dock'[n] = dock[n]
  BY <1>1 DEF Works
<1> HIDE DEF m
<1>3. Fresh'
  <2>1. ASSUME NEW n \in Container, n \notin created PROVE Untouched(n)'
    <3>1. Untouched(n)
      BY <2>1 DEF LInv, Fresh
    <3>2. n # m
      BY <3>1 DEF Untouched, m
    <3>3. \A j \in Call : handler'[j].m # n
      BY <1>2, <3>1, <3>2 DEF Untouched
    <3> QED BY <1>1, <1>2, <3>1, <3>2, <3>3 DEF Untouched, Runs
  <2> QED BY <1>1, <2>1 DEF Fresh
<1>4. Attended'
  <2>1. \A j \in Call : handler'[j].ctx = handler[j].ctx
    BY <1>1, <1>2
  <2>2. \A r \in Request : request[r].call # NoCall => request[r].call \in Call
    BY <1>0, CallTypes
  <2> QED BY <1>2, <2>1, <2>2 DEF LInv, Attended
<1>5. Purposeful'
  <2>1. removed \subseteq removed'
    BY <1>1
  <2> QED BY <1>2, <2>1 DEF LInv, Purposeful
<1>6. Concluded'
  <2>1. removed \subseteq removed'
    BY <1>1
  <2>2. ASSUME \/ handler'[k].op = "delete" /\ handler'[k].pc = "ready"
               \/ handler'[k].op = "create" /\ handler'[k].pc = "failed"
        PROVE  m \in removed'
    BY <1>1, <1>2, <2>2 DEF HandlerStep, m, Starting
  <2>3. \A j \in Call : j # k =>
          (\/ handler'[j].op = "delete" /\ handler'[j].pc = "ready"
           \/ handler'[j].op = "create" /\ handler'[j].pc = "failed"
           => handler'[j].m \in removed')
    BY <1>2, <2>1 DEF LInv, Concluded
  <2> QED BY <1>2, <2>2, <2>3 DEF Concluded
<1>7. Named'
  <2>1. Named
    BY DEF LInv
  <2>2. dock'[m].running => dock'[m].id # NoId
    BY <1>1, <2>1 DEF HandlerStep, Named, Runs, m
  <2>3. handler'[k].pc = "run" => handler'[k].mc.cid # NoId
    BY <1>1 DEF HandlerStep
  <2>4. \A n \in Container : dock'[n].running => dock'[n].id # NoId
    BY <1>2, <2>1, <2>2 DEF Named, Runs
  <2>5. \A j \in Call : handler'[j].pc = "run" => handler'[j].mc.cid # NoId
    BY <1>2, <2>1, <2>3 DEF Named
  <2> QED BY <2>4, <2>5 DEF Named, Runs
<1> QED BY <1>3, <1>4, <1>5, <1>6, <1>7 DEF LInv

LEMMA StepStarts ==
  ASSUME SInv, IInv', NEW k \in Call, Handle(k), ~Respond(k)
  PROVE  StartsAlone'
<1>0. TypeOK /\ IInv
  BY DEF SInv, LInv, IInv
<1> SUFFICES ASSUME NEW r \in Request, Restores(r)'
             PROVE  /\ Prepared(request[r].call)'
                    /\ recovery'[request'[r].m] = NoRow
                    /\ row'[request'[r].m].status # "running"
  BY DEF StartsAlone
<1> DEFINE j == request[r].call
           m == request[r].m
<1>1. /\ HandlerStep(k)
      /\ Works(k) /\ handler[k] \in Serving /\ handler[k].m \in Container
      /\ UNCHANGED recovery
  BY <1>0, HandlerSteps
<1>2. /\ UNCHANGED request
      /\ handler'[k].m = handler[k].m /\ handler'[k].op = handler[k].op
      /\ \A l \in Call : l # k => handler'[l] = handler[l]
      /\ \A n \in Container : n # handler[k].m => row'[n] = row[n] /\ dock'[n] = dock[n]
  BY <1>1 DEF Works
<1>3. /\ request[r].alone /\ request[r].pc = "start"
      /\ handler'[j].pc \in {"remove", "make", "run", "save"}
  BY <1>2 DEF Restores
<1>4. request[r].call # NoCall
  BY <1>0, <1>3 DEF IInv, Waited
<1>5. j \in Call /\ m \in Container /\ handler[j].m = m /\ handler[j].op = "start"
  BY <1>0, <1>3, <1>4, WaitsAt
<1>6. handler[j].ctx
  BY <1>4 DEF SInv, LInv, Attended
<1>7. CASE k = j
  <2>1. handler[j].pc \in {"remove", "make", "run"}
    BY <1>1, <1>3, <1>5, <1>7 DEF HandlerStep
  <2>2. /\ Prepared(j) /\ recovery[m] = NoRow /\ row[m].status # "running"
    BY <1>3, <2>1 DEF SInv, StartsAlone, Restores
  <2>3. row'[m] = row[m]
    BY <1>1, <1>3, <1>5, <1>7 DEF HandlerStep
  <2>4. /\ handler'[j].pc \in {"make", "run"} => ~dock'[m].running
        /\ handler'[j].pc = "save" => dock'[m].id = handler'[j].mc.cid
    BY <1>1, <1>3, <1>5, <1>6, <1>7 DEF HandlerStep
  <2>5. Prepared(j)'
    BY <1>2, <1>5, <1>7, <2>4 DEF Prepared, Saves, Runs
  <2> QED BY <1>1, <1>2, <2>2, <2>3, <2>5
<1>8. CASE k # j
  <2>1. Alone(r)
    BY <1>3 DEF Alone
  <2>2. handler[k].m # m
    BY <1>0, <1>8, <2>1 DEF IInv, Apart
  <2>3. handler'[j] = handler[j] /\ row'[m] = row[m] /\ dock'[m] = dock[m]
    BY <1>2, <1>5, <1>8, <2>2
  <2>4. /\ Prepared(j) /\ recovery[m] = NoRow /\ row[m].status # "running"
    BY <1>3, <2>3 DEF SInv, StartsAlone, Restores
  <2>5. Prepared(j)'
    BY <1>2, <1>5, <2>3, <2>4 DEF Prepared, Saves, Runs
  <2> QED BY <1>1, <1>2, <2>3, <2>4, <2>5
<1> QED BY <1>7, <1>8

(***************************************************************************)
(* A handler begins, for a request or for nobody.                          *)
(***************************************************************************)
\* It begins at m for r, if r is a request, among others.
Served(r, m, op, pc, mc, others) ==
  /\ FreeCall \in Call /\ handler[FreeCall] = NoHandler
  /\ \A s \in Request : request[s].call # FreeCall
  /\ handler'[FreeCall].op = op /\ handler'[FreeCall].pc = pc
  /\ handler'[FreeCall].m = m /\ handler'[FreeCall].mc = mc /\ handler'[FreeCall].ctx
  /\ \A k \in Call : k # FreeCall => handler'[k] = handler[k]
  /\ \A s \in Request : s # r =>
       /\ request'[s].m = request[s].m /\ request'[s].call = request[s].call
       /\ request'[s].op = request[s].op /\ request'[s].pc = request[s].pc
       /\ request'[s].alone => request[s].alone /\ request[s].m # m
  /\ r \in Request =>
       /\ request'[r].m = m /\ request'[r].call = FreeCall /\ request'[r].pc = op
       /\ request'[r].alone => others = {}
  /\ \A n \in Container :
       disturbed'[n] = IF n = m /\ others # {} THEN "now" ELSE disturbed[n]

LEMMA OverlapsAt ==
  ASSUME NEW m \in Container, NEW others, Overlaps(m, others)
  PROVE  \A n \in Container :
           disturbed'[n] = IF n = m /\ others # {} THEN "now" ELSE disturbed[n]
BY DEF Overlaps, Disturb

LEMMA ServeAt ==
  ASSUME IInv, Free # {}, NEW op, NEW pc, NEW m, NEW mc, Serve(op, pc, m, mc)
  PROVE  /\ FreeCall \in Call /\ handler[FreeCall] = NoHandler
         /\ \A s \in Request : request[s].call # FreeCall
         /\ handler'[FreeCall].op = op /\ handler'[FreeCall].pc = pc
         /\ handler'[FreeCall].m = m /\ handler'[FreeCall].mc = mc /\ handler'[FreeCall].ctx
         /\ \A k \in Call : k # FreeCall => handler'[k] = handler[k]
BY FreeUnwaited DEF Serve, IInv, TypeOK

LEMMA JoinServes ==
  ASSUME IInv, NEW m \in Container, ForceDelete(m) \/ Recover(m)
  PROVE  /\ UNCHANGED <<row, dock, record, history>>
         /\ \/ /\ row[m] # NoRow /\ UNCHANGED recovery
               /\ Served(m, m, "force", First("force", m), row[m], Users(m))
            \/ /\ recovery[m] # NoRow /\ recovery' = [recovery EXCEPT ![m] = NoRow]
               /\ Served(m, m, "recover", "remove", recovery[m], Users(m) \ {m})
<1>0. TypeOK /\ m \notin Request
  BY WorkspacesAssumption DEF IInv
<1>1. ASSUME request' = Crowded(m)
      PROVE  \A s \in Request :
               /\ request'[s].m = request[s].m /\ request'[s].call = request[s].call
               /\ request'[s].op = request[s].op /\ request'[s].pc = request[s].pc
               /\ request'[s].alone => request[s].alone /\ request[s].m # m
  BY <1>0, <1>1, CrowdedFields
<1>2. CASE ForceDelete(m)
  <2>1. /\ Free # {} /\ Serve("force", First("force", m), m, row[m])
        /\ Overlaps(m, Users(m)) /\ request' = Crowded(m) /\ row[m] # NoRow
        /\ UNCHANGED <<row, dock, record, history, recovery>>
    BY <1>2 DEF ForceDelete, system
  <2> QED BY <1>0, <1>1, <2>1, ServeAt, OverlapsAt DEF Served
<1>3. CASE Recover(m)
  <2>1. /\ Free # {} /\ Serve("recover", "remove", m, recovery[m])
        /\ Overlaps(m, Users(m) \ {m}) /\ request' = Crowded(m)
        /\ recovery[m] # NoRow /\ recovery' = [recovery EXCEPT ![m] = NoRow]
        /\ UNCHANGED <<row, dock, record, history>>
    BY <1>3 DEF Recover
  <2> QED BY <1>0, <1>1, <2>1, ServeAt, OverlapsAt DEF Served
<1> QED BY <1>2, <1>3

\* A call of the kernel by a request, a new one or a restart after its stop.
Calls(r, q, op) ==
  /\ CallKernel(r, q, op)
  /\ request[r].call = NoCall
  /\ \/ request[r] = NoRequest
     \/ request[r] = q /\ q.pc = "again"
  /\ (q.op = "create") <=> (op = "create")
  /\ (q.op = "delete") <=> (op = "delete")
  /\ UNCHANGED <<row, dock, recovery, record, removed>>
  /\ \/ op = "create" /\ q.m \notin created /\ created' = created \cup {q.m}
     \/ op # "create" /\ q.m \in created /\ created' = created

LEMMA CallServes ==
  ASSUME IInv, NEW r \in Request, NEW q \in Asking, NEW op, CallKernel(r, q, op)
  PROVE  /\ Served(r, q.m, op, First(op, q.m), row[q.m], Users(q.m) \ {r})
         /\ request'[r].op = q.op
         /\ q.m \in Container
<1> DEFINE m == q.m
           others == Users(m) \ {r}
<1>0. TypeOK /\ m \in Container
  BY DEF IInv, Asking
<1>1. /\ Free # {} /\ Serve(op, First(op, m), m, row[m])
      /\ Overlaps(m, others)
      /\ request' = [Crowded(m) EXCEPT ![r] =
                       [q EXCEPT !.call = FreeCall, !.pc = op, !.alone = @ /\ others = {}]]
  BY DEF CallKernel
<1> HIDE DEF others
<1>2. \A s \in Request : s # r =>
        /\ request'[s].m = request[s].m /\ request'[s].call = request[s].call
        /\ request'[s].op = request[s].op /\ request'[s].pc = request[s].pc
        /\ request'[s].alone => request[s].alone /\ request[s].m # m
  <2>1. \A s \in Request : s # r => request'[s] = Crowded(m)[s]
    BY <1>0, <1>1, CrowdedType
  <2> QED BY <1>0, <2>1, CrowdedFields
<1>3. /\ request'[r].m = m /\ request'[r].call = FreeCall /\ request'[r].op = q.op
      /\ request'[r].pc = op
      /\ request'[r].alone => others = {}
  <2>1. PICK b \in BOOLEAN :
          /\ request' = [Crowded(m) EXCEPT ![r] =
                           [q EXCEPT !.call = FreeCall, !.pc = op, !.alone = b]]
          /\ b => others = {}
    BY <1>1 DEF Asking
  <2>2. request'[r] = [q EXCEPT !.call = FreeCall, !.pc = op, !.alone = b]
    BY <1>0, <2>1, CrowdedType
  <2> DEFINE n == [q EXCEPT !.call = FreeCall, !.pc = op, !.alone = b]
  <2>3. n.m = q.m /\ n.call = FreeCall /\ n.op = q.op /\ n.pc = op /\ n.alone = b
    BY DEF Asking
  <2> HIDE DEF n
  <2> QED BY <2>1, <2>2, <2>3 DEF n
<1> QED BY <1>0, <1>1, <1>2, <1>3, ServeAt, OverlapsAt DEF Served, others

LEMMA ServedKeeps ==
  ASSUME LInv, IInv', NEW r, NEW m, NEW op, NEW pc, NEW mc, NEW others,
         Served(r, m, op, pc, mc, others),
         UNCHANGED <<row, dock, removed>>, created \subseteq created', m \in created',
         \A n \in Container : recovery[n] = NoRow => recovery'[n] = NoRow,
         pc # "run", op = "delete" => pc # "ready", op = "create" => pc # "failed",
         r \in Request =>
           /\ (request'[r].op = "create") <=> (op = "create")
           /\ (request'[r].op = "delete") <=> (op = "delete")
           /\ op \notin {"put", "forget"}
  PROVE  LInv'
<1>0. TypeOK /\ FreeCall \in Call /\ NoCall # FreeCall
  BY NoOne DEF LInv, IInv, Served
<1>1. Fresh'
  <2>1. ASSUME NEW n \in Container, n \notin created' PROVE Untouched(n)'
    <3>1. Untouched(n) /\ n # m
      BY <2>1 DEF LInv, Fresh
    <3>2. \A k \in Call : handler'[k].m # n
      BY <3>1 DEF Untouched, Served
    <3>3. \A s \in Request : request'[s].m # n
      BY <3>1 DEF Untouched, Served
    <3> QED BY <3>1, <3>2, <3>3 DEF Untouched, Runs
  <2> QED BY <2>1 DEF Fresh
<1>2. Attended'
  <2>1. ASSUME NEW s \in Request, request'[s].call # NoCall
        PROVE  handler'[request'[s].call].ctx
    <3>1. CASE s = r
      BY <3>1 DEF Served
    <3>2. CASE s # r
      <4>1. request'[s].call = request[s].call /\ request[s].call \in Call
        BY <1>0, <2>1, <3>2, CallTypes DEF Served
      <4>2. handler'[request[s].call] = handler[request[s].call]
        BY <4>1 DEF Served
      <4> QED BY <2>1, <4>1, <4>2 DEF LInv, Attended
    <3> QED BY <3>1, <3>2
  <2> QED BY <2>1 DEF Attended
<1>3. Purposeful'
  <2>1. ASSUME NEW s \in Request
        PROVE  /\ (request'[s].op = "create") <=> (request'[s].pc \in {"create", "put"})
               /\ (request'[s].op = "delete") <=> (request'[s].pc \in {"delete", "forget"})
               /\ request'[s].pc = "forget" => request'[s].m \in removed'
    <3>1. CASE s = r
      BY <3>1 DEF Served
    <3>2. CASE s # r
      <4>1. /\ request'[s].m = request[s].m
            /\ request'[s].op = request[s].op /\ request'[s].pc = request[s].pc
        BY <3>2 DEF Served
      <4> QED BY <4>1 DEF LInv, Purposeful
    <3> QED BY <3>1, <3>2
  <2> QED BY <2>1 DEF Purposeful
<1>4. Concluded'
  BY DEF LInv, Concluded, Served
<1>5. Named'
  BY DEF LInv, Named, Served, Runs
<1> QED BY <1>1, <1>2, <1>3, <1>4, <1>5 DEF LInv

LEMMA ServedStarts ==
  ASSUME SInv, IInv', NEW r, NEW m \in Container, NEW op, NEW pc, NEW mc, NEW others,
         Served(r, m, op, pc, mc, others),
         UNCHANGED <<row, dock>>,
         \A n \in Container : recovery[n] = NoRow => recovery'[n] = NoRow,
         r \in Request /\ op = "start" /\ others = {} =>
           /\ pc \in {"failed", "ready", "remove"}
           /\ pc = "remove" => recovery[m] = NoRow /\ row[m].status # "running"
  PROVE  StartsAlone'
<1>0. IInv /\ TypeOK
  BY DEF SInv, LInv, IInv
<1>1. ASSUME NEW s \in Request, Restores(s)'
      PROVE  /\ Prepared(request[s].call)'
             /\ recovery'[request'[s].m] = NoRow
             /\ row'[request'[s].m].status # "running"
  <2>1. CASE s = r
    <3>1. /\ request'[s].m = m /\ request'[s].call = FreeCall /\ op = "start" /\ others = {}
          /\ handler'[FreeCall].pc = pc
      BY <1>1, <2>1 DEF Served, Restores
    <3>2. pc = "remove"
      BY <1>1, <2>1, <3>1 DEF Restores
    <3>3. Prepared(request[s].call)'
      BY <3>1, <3>2 DEF Prepared, Saves
    <3> QED BY <2>1, <3>1, <3>2, <3>3
  <2>2. CASE s # r
    <3>1. /\ request'[s].m = request[s].m /\ request'[s].call = request[s].call
          /\ request'[s].pc = request[s].pc /\ request[s].alone /\ request[s].pc = "start"
          /\ request[s].call # FreeCall
      BY <1>1, <2>2 DEF Served, Restores
    <3>2. request[s].call # NoCall
      BY <1>0, <3>1 DEF IInv, Waited
    <3>3. /\ request[s].call \in Call /\ request[s].m \in Container
          /\ handler[request[s].call].m = request[s].m
      BY <1>0, <3>2, WaitsAt
    <3>4. handler'[request[s].call] = handler[request[s].call]
      BY <3>1, <3>3 DEF Served
    <3>5. Restores(s)
      BY <1>1, <3>1, <3>4 DEF Restores
    <3>6. /\ Prepared(request[s].call) /\ recovery[request[s].m] = NoRow
          /\ row[request[s].m].status # "running"
      BY <3>5 DEF SInv, StartsAlone
    <3>7. Prepared(request[s].call)'
      BY <3>1, <3>3, <3>4, <3>6 DEF Prepared, Saves, Runs
    <3> QED BY <3>1, <3>3, <3>6, <3>7
  <2> QED BY <2>1, <2>2
<1> QED BY <1>1 DEF StartsAlone

LEMMA FirstCases ==
  ASSUME TypeOK, NEW m \in Container
  PROVE  /\ First("create", m) = "insert"
         /\ First("start", m) \in {"failed", "ready", "remove"}
         /\ First("start", m) = "remove" => row[m] # NoRow /\ row[m].status # "running"
         /\ First("stop", m) \in {"failed", "ready", "save", "halt"}
         /\ First("stop", m) = "save" => row[m] # NoRow /\ row[m].cid = NoId
         /\ First("stop", m) = "halt" => row[m] # NoRow
         /\ \A op \in {"delete", "force"} :
              /\ First(op, m) \in {"failed", "drop", "halt"}
              /\ First(op, m) = "drop" => row[m] # NoRow /\ row[m].cid = NoId
              /\ First(op, m) = "halt" => row[m] # NoRow
BY DEF First

LEMMA AskCalls ==
  ASSUME LInv, NEW m \in Container, Ask(m)
  PROVE  \E r \in Request, q \in Asking, op \in {"create", "start", "stop", "delete"} :
           q.m = m /\ Calls(r, q, op)
<1>0. TypeOK
  BY DEF LInv, IInv
<1>1. /\ FreeRequest \in Request /\ request[FreeRequest] = NoRequest
      /\ UNCHANGED <<row, dock, recovery, record, removed>>
      /\ request[FreeRequest].call = NoCall
  BY <1>0, FreeRequestType, NoOne DEF Ask, CreateWorkspace, RebuildWorkspace, StopWorkspace,
     ToolStartWorkspace, DeleteWorkspace, system, history
<1>2. CASE RebuildWorkspace(m)
  <2>0. PICK sent \in Version :
          CallKernel(FreeRequest, [Asked("rebuild", m) EXCEPT !.config = sent], "stop")
    BY <1>0, <1>2, FreeRequestType, ConstantTypes DEF RebuildWorkspace, Nothing, Version
  <2> DEFINE a == Asked("rebuild", m)
             q == [a EXCEPT !.config = sent]
  <2>1. a \in Asking /\ a.op = "rebuild" /\ a.m = m
    BY AskedType
  <2>2. CallKernel(FreeRequest, q, "stop") /\ row[m] # NoRow /\ created' = created
    BY <1>2, <2>0 DEF RebuildWorkspace, history
  <2> HIDE DEF a
  <2>3. q \in Asking /\ q.op = "rebuild" /\ q.m = m
    BY <1>0, <2>1 DEF Asking, TypeOK
  <2> HIDE DEF q
  <2>4. m \in created
    BY <2>2 DEF LInv, Fresh, Untouched
  <2>5. Calls(FreeRequest, q, "stop")
    BY <1>1, <2>2, <2>3, <2>4 DEF Calls
  <2> QED BY <1>1, <2>3, <2>5
<1>3. CASE CreateWorkspace(m)
  <2>1. Asked("create", m) \in Asking /\ Asked("create", m).op = "create"
        /\ Asked("create", m).m = m
    BY AskedType
  <2>2. Calls(FreeRequest, Asked("create", m), "create")
    BY <1>1, <1>3, <2>1 DEF CreateWorkspace, Calls
  <2> QED BY <1>1, <2>1, <2>2
<1>4. CASE StopWorkspace(m) \/ ToolStartWorkspace(m) \/ DeleteWorkspace(m)
  <2>1. PICK op \in {"start", "stop", "delete"} :
          CallKernel(FreeRequest, Asked(op, m), op) /\ m \in Rows /\ created' = created
    BY <1>4 DEF StopWorkspace, ToolStartWorkspace, DeleteWorkspace, history
  <2>2. Asked(op, m) \in Asking /\ Asked(op, m).op = op /\ Asked(op, m).m = m
    BY AskedType
  <2>3. m \in created
    BY <2>1 DEF LInv, Fresh, Untouched, Rows
  <2>4. Calls(FreeRequest, Asked(op, m), op)
    BY <1>1, <2>1, <2>2, <2>3 DEF Calls
  <2> QED BY <1>1, <2>2, <2>4
<1> QED BY <1>2, <1>3, <1>4 DEF Ask

LEMMA AgainCalls ==
  ASSUME LInv, NEW r \in Request, StartAgain(r)
  PROVE  \/ request[r] \in Asking /\ Calls(r, request[r], "start")
         \/ /\ request' = [request EXCEPT ![r] = NoRequest]
            /\ UNCHANGED <<row, dock, recovery, record, handler, history, disturbed>>
<1>0. IInv /\ TypeOK
  BY DEF LInv, IInv
<1>1. /\ request[r].pc = "again"
      /\ UNCHANGED <<row, dock, recovery, record, history>>
  BY DEF StartAgain, system
<1>2. request[r] \in Asking /\ request[r].m \in Container
  BY <1>0, <1>1, AskingAt DEF Asking
<1>3. request[r].call = NoCall
  BY <1>0, <1>1, WaitsAt DEF Op, Starting
<1>4. request[r].op \notin {"create", "delete"}
  BY <1>1 DEF LInv, Purposeful
<1>5. request[r].m \in created
  BY <1>2 DEF LInv, Fresh, Untouched
<1>6. CASE CallKernel(r, request[r], "start")
  BY <1>1, <1>2, <1>3, <1>4, <1>5, <1>6 DEF Calls, history
<1>7. CASE ~CallKernel(r, request[r], "start")
  BY <1>1, <1>7 DEF StartAgain
<1> QED BY <1>6, <1>7

LEMMA CallsKeeps ==
  ASSUME SInv, IInv', NEW r \in Request, NEW q \in Asking,
         NEW op \in {"create", "start", "stop", "delete"}, Calls(r, q, op)
  PROVE  SInv'
<1> DEFINE others == Users(q.m) \ {r}
<1>0. IInv /\ TypeOK /\ LInv
  BY DEF SInv, LInv, IInv
<1>1. /\ Served(r, q.m, op, First(op, q.m), row[q.m], others)
      /\ request'[r].op = q.op /\ q.m \in Container
  BY <1>0, CallServes DEF Calls
<1>2. r \notin Call /\ r # q.m
  BY <1>1, WorkspacesAssumption
<1>3. others = {} => recovery[q.m] = NoRow
  BY <1>0, <1>1, <1>2, Unshared
<1> HIDE DEF others
<1>4. /\ UNCHANGED <<row, dock, removed, recovery>>
      /\ created \subseteq created' /\ q.m \in created'
      /\ (request'[r].op = "create") <=> (op = "create")
      /\ (request'[r].op = "delete") <=> (op = "delete")
  BY <1>1 DEF Calls
<1>5. /\ First(op, q.m) # "run"
      /\ op = "delete" => First(op, q.m) # "ready"
      /\ op = "create" => First(op, q.m) # "failed"
      /\ op = "start" => First(op, q.m) \in {"failed", "ready", "remove"}
      /\ op = "start" /\ First(op, q.m) = "remove" => row[q.m].status # "running"
  BY <1>0, <1>1, FirstCases
<1> DEFINE pc == First(op, q.m)
           mc == row[q.m]
<1>6. LInv'
  <2> HIDE DEF pc, mc
  <2> SUFFICES ASSUME Served(r, q.m, op, pc, mc, others), pc # "run",
                      op = "delete" => pc # "ready", op = "create" => pc # "failed"
               PROVE  LInv'
    BY <1>1, <1>5 DEF pc, mc
  <2> QED BY <1>0, <1>4, ServedKeeps
<1>7. StartsAlone'
  <2> HIDE DEF pc, mc
  <2>1. Served(r, q.m, op, pc, mc, others)
    BY <1>1 DEF pc, mc
  <2>2. op = "start" /\ others = {} =>
           /\ pc \in {"failed", "ready", "remove"}
           /\ pc = "remove" => recovery[q.m] = NoRow /\ row[q.m].status # "running"
    BY <1>3, <1>5 DEF pc
  <2> QED BY <1>1, <1>4, <2>1, <2>2, ServedStarts
<1> QED BY <1>6, <1>7 DEF SInv

LEMMA JoinsKeep ==
  ASSUME SInv, IInv', NEW m \in Container, ForceDelete(m) \/ Recover(m)
  PROVE  SInv'
<1>0. IInv /\ TypeOK /\ LInv /\ m \notin Request
  BY WorkspacesAssumption DEF SInv, LInv, IInv
<1>1. UNCHANGED <<row, dock, removed, created>>
  BY <1>0, JoinServes DEF history
<1>2. m \in created
  BY <1>0, JoinServes DEF LInv, Fresh, Untouched
<1>3. \A n \in Container : recovery[n] = NoRow => recovery'[n] = NoRow
  BY <1>0, JoinServes DEF TypeOK
<1>4. PICK op, pc, mc, others :
        /\ Served(m, m, op, pc, mc, others)
        /\ pc # "run" /\ op \notin {"delete", "create"}
  <2>1. First("force", m) # "run"
    BY <1>0, FirstCases
  <2>2. \/ Served(m, m, "force", First("force", m), row[m], Users(m))
        \/ Served(m, m, "recover", "remove", recovery[m], Users(m) \ {m})
    BY <1>0, JoinServes
  <2>3. /\ "force" \notin {"delete", "create"} /\ "recover" \notin {"delete", "create"}
        /\ "remove" # "run"
    OBVIOUS
  <2> QED BY <2>1, <2>2, <2>3, Zenon
<1>5. LInv'
  BY <1>0, <1>1, <1>2, <1>3, <1>4, ServedKeeps
<1>6. StartsAlone'
  BY <1>0, <1>1, <1>3, <1>4, ServedStarts
<1> QED BY <1>5, <1>6 DEF SInv

(***************************************************************************)
(* The other steps only let go.                                            *)
(***************************************************************************)
LEMMA ContinuesLets ==
  ASSUME NEW r \in Request, NEW ok \in BOOLEAN, Continues(r, ok),
         ok /\ request[r].op = "delete" => request[r].m \in removed
  PROVE  Lets(r)
BY DEF Continues, Lets

\* Who still waits has a handler with its caller.
LEMMA StaysLets ==
  ASSUME LInv, NEW r \in Request, request'[r] = request[r],
         request[r].call \in Call => handler'[request[r].call] = handler[request[r].call]
  PROVE  Lets(r)
<1>1. request[r].call # NoCall => request[r].call \in Call
  BY CallTypes DEF LInv, IInv
<1> QED BY <1>1 DEF LInv, Attended, Lets

LEMMA RespondLoosens ==
  ASSUME LInv, NEW k \in Call, Respond(k)
  PROVE  /\ Loosens
         /\ UNCHANGED <<row, dock, recovery, record, history, disturbed>>
         /\ \A j \in Call : handler'[j] = IF j = k THEN NoHandler ELSE handler[j]
         /\ \A r \in Request :
              /\ request[r].call # k => request'[r] = request[r]
              /\ request[r].call = k =>
                   \/ Continues(r, TRUE)
                   \/ Continues(r, FALSE) /\ handler[k].pc = "failed"
<1>0. IInv /\ TypeOK
  BY DEF LInv, IInv
<1> DEFINE ok == handler[k].pc = "ready"
<1>1. /\ UNCHANGED <<row, dock, recovery, record, history, disturbed>>
      /\ handler' = [handler EXCEPT ![k] = NoHandler]
      /\ handler[k].pc \in {"ready", "failed"}
      /\ \A r \in Request :
           request'[r] = IF request[r].call = k THEN After(request[r], ok) ELSE request[r]
  BY DEF Respond, Answered, Waits, system
<1>2. \A j \in Call : handler'[j] = IF j = k THEN NoHandler ELSE handler[j]
  BY <1>0, <1>1 DEF TypeOK
<1>3. ASSUME NEW r \in Request, request[r].call = k
      PROVE  /\ Lets(r)
             /\ Continues(r, TRUE) \/ (Continues(r, FALSE) /\ handler[k].pc = "failed")
  <2>1. /\ request[r].m = handler[k].m /\ request[r].pc = handler[k].op /\ request[r].pc \in Op
    BY <1>0, <1>3, WaitsAt, NoOne
  <2>2. request[r] \in Asking
    BY <1>0, <1>3, AskingAt, NoOne
  <2>3. ASSUME ok, request[r].op = "delete" PROVE request[r].m \in removed
    <3>1. request[r].pc = "delete"
      BY <2>1, <2>3 DEF LInv, Purposeful, Op, Starting
    <3> QED BY <2>1, <2>3, <3>1 DEF LInv, Concluded
  <2>4. request'[r] = After(request[r], ok)
    BY <1>1, <1>3
  <2>5. ok \in BOOLEAN
    OBVIOUS
  <2>6. ~ok => handler[k].pc = "failed"
    BY <1>1
  <2> HIDE DEF ok
  <2>7. Continues(r, ok)
    BY <2>2, <2>4, <2>5, ContinuesAfter
  <2>8. Lets(r)
    BY <2>3, <2>5, <2>7, ContinuesLets
  <2> QED BY <2>5, <2>6, <2>7, <2>8
<1>4. ASSUME NEW r \in Request, request[r].call # k PROVE Lets(r) /\ request'[r] = request[r]
  BY <1>1, <1>2, <1>4, StaysLets
<1>5. Loosens
  BY <1>1, <1>2, <1>3, <1>4 DEF Loosens, Runs
<1> QED BY <1>1, <1>2, <1>3, <1>4, <1>5

LEMMA TimeOutLoosens ==
  ASSUME LInv, NEW k \in Call, TimeOut(k)
  PROVE  /\ Loosens
         /\ UNCHANGED <<row, dock, recovery, record, history>>
         /\ \A j \in Call : j # k => handler'[j] = handler[j]
         /\ handler'[k].m = handler[k].m
         /\ \A r \in Request :
              /\ request[r].call # k => request'[r] = request[r]
              /\ request[r].call = k => Continues(r, FALSE)
         /\ \A m \in Container :
              disturbed'[m] = IF m = handler[k].m THEN "now" ELSE disturbed[m]
<1>0. IInv /\ TypeOK
  BY DEF LInv, IInv
<1>1. /\ UNCHANGED <<row, dock, recovery, record, history>>
      /\ handler' = [handler EXCEPT ![k].ctx = FALSE]
      /\ \A r \in Request :
           request'[r] = IF request[r].call = k THEN After(request[r], FALSE) ELSE request[r]
      /\ \A m \in Container :
           disturbed'[m] = IF m = handler[k].m THEN "now" ELSE disturbed[m]
  BY DEF TimeOut, Answered, Waits, system, Disturb
<1>2. handler[k] \in Serving
  BY <1>0 DEF TimeOut, TypeOK, NoHandler
<1>3. /\ \A j \in Call : j # k => handler'[j] = handler[j]
      /\ handler'[k].m = handler[k].m /\ handler'[k].op = handler[k].op
      /\ handler'[k].pc = handler[k].pc /\ handler'[k].mc = handler[k].mc
  BY <1>0, <1>1, <1>2 DEF TypeOK, Serving
<1>4. ASSUME NEW r \in Request, request[r].call = k PROVE Lets(r) /\ Continues(r, FALSE)
  <2>1. request[r] \in Asking
    BY <1>0, <1>4, AskingAt, NoOne
  <2>2. Continues(r, FALSE)
    BY <1>1, <1>4, <2>1, ContinuesAfter
  <2> QED BY <2>2, ContinuesLets
<1>5. ASSUME NEW r \in Request, request[r].call # k PROVE Lets(r) /\ request'[r] = request[r]
  BY <1>1, <1>3, <1>5, StaysLets
<1>6. Loosens
  BY <1>1, <1>3, <1>4, <1>5 DEF Loosens, Runs
<1> QED BY <1>1, <1>3, <1>4, <1>5, <1>6

LEMMA KernelStopsLoosens ==
  ASSUME LInv, KernelStops
  PROVE  /\ Loosens
         /\ UNCHANGED <<row, dock, record, history>>
         /\ \A m \in Container : recovery'[m] = NoRow
         /\ \A k \in Call : handler'[k] = NoHandler
         /\ \A m \in Container :
              disturbed'[m] = IF Users(m) # {} THEN "now" ELSE disturbed[m]
<1>0. IInv /\ TypeOK
  BY DEF LInv, IInv
<1>1. /\ UNCHANGED <<row, dock, record, history>>
      /\ \A m \in Container : recovery'[m] = NoRow
      /\ \A k \in Call : handler'[k] = NoHandler
      /\ \A m \in Container : disturbed'[m] = IF Users(m) # {} THEN "now" ELSE disturbed[m]
      /\ \A r \in Request :
           request'[r] = IF request[r].call # NoCall THEN After(request[r], FALSE) ELSE request[r]
  BY DEF KernelStops, Disturb, Interrupted
<1>2. ASSUME NEW r \in Request PROVE Lets(r)
  <2>1. CASE request[r].call # NoCall
    <3>1. request[r] \in Asking
      BY <1>0, <2>1, AskingAt
    <3>2. Continues(r, FALSE)
      BY <1>1, <2>1, <3>1, ContinuesAfter
    <3> QED BY <3>2, ContinuesLets
  <2>2. CASE request[r].call = NoCall
    BY <1>1, <2>2 DEF Lets
  <2> QED BY <2>1, <2>2
<1>3. Loosens
  BY <1>1, <1>2, NoOne DEF Loosens, Runs
<1> QED BY <1>1, <1>3

LEMMA GoesLoosens ==
  ASSUME LInv, NEW r \in Request, PutRecord(r) \/ ForgetWorkspace(r) \/ UpdateContainer(r)
  PROVE  /\ Loosens
         /\ UNCHANGED <<dock, recovery, history, disturbed, handler>>
         /\ request[r].call = NoCall /\ request[r].m \in Container
         /\ \A s \in Request : s # r => request'[s] = request[s]
         /\ \A m \in Container :
              /\ m # request[r].m => row'[m] = row[m] /\ (m \in record => m \in record')
              /\ row'[m].status = row[m].status /\ row'[m].cid = row[m].cid
              /\ (row'[m] = NoRow) <=> (row[m] = NoRow)
         /\ \/ request[r].op = "create" /\ request[r].m \in record' /\ UNCHANGED row
               /\ request'[r] = NoRequest
            \/ request[r].m \in removed /\ UNCHANGED row /\ request'[r] = NoRequest
            \/ /\ request[r].op # "create" /\ UNCHANGED record
               /\ request'[r].m \in {request[r].m, NoContainer}
               /\ request'[r].call = NoCall
<1>0. IInv /\ TypeOK
  BY DEF LInv, IInv
<1>1. /\ request[r].pc \in {"put", "forget", "update"}
      /\ UNCHANGED <<dock, recovery, history, disturbed, handler>>
  BY DEF PutRecord, ForgetWorkspace, UpdateContainer, system, manager
<1>2. request[r] \in Asking /\ request[r].m \in Container
  BY <1>0, <1>1, AskingAt DEF Asking
<1>3. request[r].call = NoCall
  BY <1>0, <1>1, WaitsAt DEF Op, Starting
<1> DEFINE m == request[r].m
<1>4. CASE UpdateContainer(r) /\ kernel # "down" /\ row[m] # NoRow
  <2> DEFINE c == Updated(row[m].config, request[r].config)
  <2>1. /\ row' = [row EXCEPT ![m].config = c]
        /\ request' = [request EXCEPT ![r].pc = "again", ![r].config = c]
        /\ request[r].pc = "update" /\ UNCHANGED record
    BY <1>4 DEF UpdateContainer
  <2>2. /\ \A s \in Request : s # r => request'[s] = request[s]
        /\ request'[r].m = m /\ request'[r].op = request[r].op
        /\ request'[r].call = NoCall /\ request'[r].pc = "again"
    BY <1>0, <1>2, <1>3, <2>1 DEF TypeOK, Asking
  <2>3. \A n \in Container :
          /\ n # m => row'[n] = row[n]
          /\ row'[n].status = row[n].status /\ row'[n].cid = row[n].cid
    BY <1>0, <1>2, <2>1 DEF TypeOK, Row
  <2>4. \A n \in Container : (row'[n] = NoRow) <=> (row[n] = NoRow)
    <3>1. row[m].status # "none"
      BY <1>0, <1>2, <1>4 DEF TypeOK
    <3>2. row'[m] # NoRow
      BY <1>2, <2>3, <3>1, NoOne
    <3> QED BY <1>4, <2>3, <3>2
  <2>5. request[r].op \notin {"create", "delete"}
    BY <2>1 DEF LInv, Purposeful
  <2>6. Lets(r)
    BY <2>2, <2>5 DEF Lets
  <2>7. \A s \in Request : s # r => Lets(s)
    BY <1>1, <2>2, StaysLets
  <2>8. Loosens
    BY <1>1, <2>3, <2>4, <2>6, <2>7 DEF Loosens, Runs
  <2> QED BY <1>1, <1>2, <1>3, <2>1, <2>2, <2>3, <2>4, <2>5, <2>8
<1>5. CASE ~(UpdateContainer(r) /\ kernel # "down" /\ row[m] # NoRow)
  <2>1. /\ request' = [request EXCEPT ![r] = NoRequest] /\ UNCHANGED row
        /\ \/ request[r].pc = "put" /\ record' = record \cup {m}
           \/ request[r].pc = "forget" /\ record' = record \ {m}
           \/ request[r].pc = "update" /\ UNCHANGED record
    BY <1>5 DEF PutRecord, ForgetWorkspace, UpdateContainer
  <2>2. /\ \A s \in Request : s # r => request'[s] = request[s]
        /\ request'[r] = NoRequest
    BY <1>0, <2>1 DEF TypeOK
  <2>3. /\ request[r].pc = "put" => request[r].op = "create"
        /\ request[r].pc = "forget" => m \in removed
        /\ request[r].pc = "update" => request[r].op # "create"
    BY DEF LInv, Purposeful
  <2>4. Lets(r)
    BY <2>2 DEF Lets
  <2>5. \A s \in Request : s # r => Lets(s)
    BY <1>1, <2>2, StaysLets
  <2>6. Loosens
    BY <1>1, <2>1, <2>4, <2>5 DEF Loosens, Runs
  <2> QED BY <1>1, <1>2, <1>3, <2>1, <2>2, <2>3, <2>6, NoOne
<1> QED BY <1>4, <1>5

LEMMA EndsLoosens ==
  ASSUME LInv, ManagerEnds, UNCHANGED history,
         \A m \in Container :
           /\ row[m] = NoRow => row'[m] = NoRow
           /\ row'[m].status = "running" => row[m].status = "running"
           /\ dock'[m].running => dock[m].running /\ dock'[m].id = dock[m].id
           /\ recovery'[m] = recovery[m]
  PROVE  Loosens
<1>1. \A k \in Call : /\ handler'[k].m = handler[k].m /\ handler'[k].op = handler[k].op
                      /\ handler'[k].pc = handler[k].pc /\ handler'[k].mc = handler[k].mc
  <2> SUFFICES ASSUME NEW k \in Call
               PROVE  /\ handler'[k].m = handler[k].m /\ handler'[k].op = handler[k].op
                      /\ handler'[k].pc = handler[k].pc /\ handler'[k].mc = handler[k].mc
    OBVIOUS
  <2>1. handler'[k] \in {handler[k], [handler[k] EXCEPT !.ctx = FALSE]}
    BY DEF ManagerEnds
  <2>2. handler[k] \in Serving \cup {NoHandler}
    BY DEF LInv, IInv, TypeOK
  <2> QED BY <2>1, <2>2 DEF Serving, NoHandler
<1>2. \A r \in Request : Lets(r)
  BY DEF ManagerEnds, Lets
<1> QED BY <1>1, <1>2 DEF Loosens

LEMMA StopAllSteps ==
  ASSUME TypeOK, StopAllPlugins
  PROVE  /\ ManagerEnds /\ UNCHANGED <<recovery, record, history>>
         /\ \A m \in Container :
              /\ \/ row'[m] = row[m] /\ dock'[m] = dock[m]
                 \/ /\ row[m].status = "running" /\ row'[m].status = "stopped"
                    /\ \/ ~dock'[m].running
                       \/ dock[m].id # row[m].cid /\ dock'[m] = dock[m]
                       \/ disturbed'[m] = "now" /\ dock'[m] = dock[m]
              /\ \/ disturbed'[m] = disturbed[m] /\ Users(m) = {}
                 \/ disturbed'[m] = "now"
<1> DEFINE Running == {m \in Container : row[m].status = "running" /\ row[m].cid # NoId}
           Held(m) == m \in Running /\ dock[m].id = row[m].cid
           r(m) == [row[m] EXCEPT !.status = "stopped", !.cid = NoId]
<1>1. PICK left \in SUBSET Running :
        /\ dock' = [m \in Container |-> IF Held(m) /\ m \notin left THEN Absent ELSE dock[m]]
        /\ row' = [m \in Container |-> IF m \in Running THEN r(m) ELSE row[m]]
        /\ Disturb(Interrupted \cup left)
  BY DEF StopAllPlugins
<1>2. ManagerEnds /\ UNCHANGED <<recovery, record, history>>
  BY DEF StopAllPlugins
<1>3. \A m \in Container :
        disturbed'[m] = IF Users(m) # {} \/ m \in left THEN "now" ELSE disturbed[m]
  BY <1>1 DEF Disturb, Interrupted
<1>4. ASSUME NEW m \in Container, m \in Running
      PROVE  /\ row[m].status = "running" /\ row'[m].status = "stopped"
             /\ \/ ~dock'[m].running
                \/ dock[m].id # row[m].cid /\ dock'[m] = dock[m]
                \/ disturbed'[m] = "now" /\ dock'[m] = dock[m]
  <2>1. r(m).status = "stopped"
    BY DEF TypeOK, Row
  <2> HIDE DEF r
  <2>2. row'[m] = r(m)
    BY <1>1, <1>4
  <2>3. dock'[m] = IF dock[m].id = row[m].cid /\ m \notin left THEN Absent ELSE dock[m]
    BY <1>1, <1>4
  <2>4. m \in left => disturbed'[m] = "now"
    BY <1>3
  <2> QED BY <1>4, <2>1, <2>2, <2>3, <2>4, NoOne
<1>5. ASSUME NEW m \in Container, m \notin Running
      PROVE  row'[m] = row[m] /\ dock'[m] = dock[m]
  BY <1>1, <1>5
<1> HIDE DEF Running
<1> QED BY <1>2, <1>3, <1>4, <1>5

LEMMA MonitorSteps ==
  ASSUME TypeOK, NEW m \in Container, MonitorChecks(m)
  PROVE  /\ UNCHANGED <<dock, handler, recovery, request, record, history>>
         /\ \A n \in Container : n # m => row'[n] = row[n] /\ disturbed'[n] = disturbed[n]
         /\ \/ UNCHANGED <<row, disturbed>>
            \/ /\ \/ row[m] # NoRow /\ row'[m].status = "stopped"
                  \/ row'[m] = row[m]
               /\ \/ disturbed'[m] = "now"
                  \/ disturbed'[m] = disturbed[m] /\ ~Runs(m) /\ Users(m) = {}
<1>1. UNCHANGED <<dock, handler, recovery, request, record, history>>
  BY DEF MonitorChecks, manager
<1>2. CASE UNCHANGED <<row, disturbed>>
  BY <1>1, <1>2
<1>3. CASE /\ row' = [row EXCEPT ![m].status = IF row[m] = NoRow THEN @ ELSE "stopped"]
           /\ Disturb({x \in {m} : Runs(x) \/ Users(x) # {}})
  <2>1. \A n \in Container : n # m => row'[n] = row[n] /\ disturbed'[n] = disturbed[n]
    BY <1>3 DEF Disturb, TypeOK
  <2>2. disturbed'[m] = IF Runs(m) \/ Users(m) # {} THEN "now" ELSE disturbed[m]
    BY <1>3 DEF Disturb
  <2>3. \/ row[m] # NoRow /\ row'[m].status = "stopped"
        \/ row'[m] = row[m]
    <3>1. row[m] \in Row
      BY DEF TypeOK
    <3>2. CASE row[m] = NoRow
      <4>1. row' = [row EXCEPT ![m].status = row[m].status]
        BY <1>3, <3>2
      <4> QED BY <3>1, <4>1 DEF TypeOK, Row
    <3>3. CASE row[m] # NoRow
      <4>1. row' = [row EXCEPT ![m].status = "stopped"]
        BY <1>3, <3>3
      <4> QED BY <3>1, <3>3, <4>1 DEF TypeOK, Row
    <3> QED BY <3>2, <3>3
  <2> QED BY <1>1, <2>1, <2>2, <2>3
<1> QED BY <1>2, <1>3 DEF MonitorChecks

LEMMA RecoverySteps ==
  ASSUME TypeOK, RecoverManagedContainers
  PROVE  /\ UNCHANGED <<row, dock, handler, request, record, history>>
         /\ \A m \in Container :
              /\ recovery'[m] = IF row[m].status = "running" THEN row[m] ELSE NoRow
              /\ \/ disturbed'[m] = "now"
                 \/ /\ disturbed'[m] = disturbed[m]
                    /\ row[m].status = "running" => Users(m) = {}
BY DEF RecoverManagedContainers, Disturb, Interrupted, manager

LEMMA DiesSteps ==
  ASSUME TypeOK, NEW m \in Container, ContainerDies(m)
  PROVE  /\ UNCHANGED <<row, handler, recovery, request, record, history, disturbed>>
         /\ \A n \in Container : n # m => dock'[n] = dock[n]
         /\ dock[m].running /\ ~dock'[m].running
BY DEF ContainerDies, system, manager, TypeOK, Runs

\* Steps that are not at any container.
Aside == MonitorLists \/ Boot \/ UNCHANGED vars
LEMMA AsideSteps ==
  ASSUME Aside
  PROVE  UNCHANGED <<row, dock, handler, recovery, request, record, history, disturbed>>
BY DEF Aside, MonitorLists, Boot, vars, system, manager

LEMMA ElseLoosens ==
  ASSUME LInv,
         \/ Aside \/ RecoverManagedContainers \/ ManagerStops \/ StopAllPlugins
         \/ \E m \in Container : MonitorChecks(m) \/ ContainerDies(m)
  PROVE  Loosens
<1>0. TypeOK
  BY DEF LInv, IInv
<1>1. ASSUME UNCHANGED <<handler, request>> PROVE \A r \in Request : Lets(r)
  BY <1>1 DEF LInv, Attended, Lets
<1>2. CASE Aside
  BY <1>1, <1>2, AsideSteps DEF Loosens, Runs
<1>3. CASE RecoverManagedContainers
  BY <1>0, <1>1, <1>3, RecoverySteps DEF Loosens, Runs
<1>4. CASE ManagerStops
  BY <1>4, EndsLoosens DEF ManagerStops, system
<1>5. CASE StopAllPlugins
  <2>1. \A m \in Container :
           /\ row[m] = NoRow => row'[m] = NoRow
           /\ row'[m].status = "running" => row[m].status = "running"
           /\ dock'[m].running => dock[m].running /\ dock'[m].id = dock[m].id
    BY <1>0, <1>5, StopAllSteps, NoOne
  <2> QED BY <1>0, <1>5, <2>1, StopAllSteps, EndsLoosens
<1>6. ASSUME NEW m \in Container, MonitorChecks(m) PROVE Loosens
  <2>1. UNCHANGED <<dock, handler, recovery, request, history>>
    BY <1>0, <1>6, MonitorSteps
  <2>2. \A n \in Container : /\ row[n] = NoRow => row'[n] = NoRow
                             /\ row'[n].status = "running" => row[n].status = "running"
    BY <1>0, <1>6, MonitorSteps
  <2> QED BY <1>1, <2>1, <2>2 DEF Loosens, Runs
<1>7. ASSUME NEW m \in Container, ContainerDies(m) PROVE Loosens
  <2>1. UNCHANGED <<row, handler, recovery, request, history>>
    BY <1>0, <1>7, DiesSteps
  <2>2. \A n \in Container : dock'[n].running => dock[n].running /\ dock'[n].id = dock[n].id
    BY <1>0, <1>7, DiesSteps
  <2> QED BY <1>1, <2>1, <2>2 DEF Loosens, Runs
<1> QED BY <1>2, <1>3, <1>4, <1>5, <1>6, <1>7

LEMMA LoosensStrong ==
  ASSUME SInv, IInv', Loosens
  PROVE  SInv'
BY LoosensKeeps, LoosensStarts DEF SInv

LEMMA SInvInit == Init => SInv
<1> SUFFICES ASSUME Init PROVE SInv
  OBVIOUS
<1>1. /\ \A m \in Container : row[m] = NoRow /\ recovery[m] = NoRow /\ ~dock[m].running
      /\ \A k \in Call : handler[k] = NoHandler
      /\ \A r \in Request : request[r] = NoRequest
      /\ removed = {} /\ created = {}
  BY NoOne DEF Init
<1>2. IInv
  BY IInvInit
<1>3. Fresh /\ Attended /\ Purposeful
  BY <1>1, NoOne DEF Fresh, Untouched, Runs, Attended, Purposeful
<1>4. Concluded /\ Named
  BY <1>1, NoOne DEF Concluded, Named, Runs
<1>5. StartsAlone
  BY <1>1, NoOne DEF StartsAlone, Restores
<1> QED BY <1>2, <1>3, <1>4, <1>5 DEF SInv, LInv

LEMMA SInvNext == SInv /\ [Next]_vars => SInv'
<1> SUFFICES ASSUME SInv, [Next]_vars PROVE SInv'
  OBVIOUS
<1>0. IInv' /\ LInv
  BY IInvNext DEF SInv, LInv
<1>1. ASSUME NEW k \in Call, Handle(k), ~Respond(k) PROVE SInv'
  BY <1>0, <1>1, StepKeeps, StepStarts DEF SInv
<1>2. ASSUME NEW k \in Call, Respond(k) \/ TimeOut(k) PROVE SInv'
  BY <1>0, <1>2, RespondLoosens, TimeOutLoosens, LoosensStrong
<1>3. ASSUME NEW r \in Request, GoOn(r) PROVE SInv'
  <2>1. CASE PutRecord(r) \/ ForgetWorkspace(r) \/ UpdateContainer(r)
    BY <1>0, <2>1, GoesLoosens, LoosensStrong
  <2>2. CASE StartAgain(r)
    <3>1. CASE request[r] \in Asking /\ Calls(r, request[r], "start")
      BY <1>0, <3>1, CallsKeeps
    <3>2. CASE /\ request' = [request EXCEPT ![r] = NoRequest]
               /\ UNCHANGED <<row, dock, recovery, record, handler, history, disturbed>>
      <4>1. \A s \in Request : request'[s] = IF s = r THEN NoRequest ELSE request[s]
        BY <1>0, <3>2 DEF LInv, IInv, TypeOK
      <4>2. \A s \in Request : Lets(s)
        BY <3>2, <4>1 DEF SInv, LInv, Attended, Lets
      <4>3. Loosens
        BY <3>2, <4>2 DEF Loosens, Runs
      <4> QED BY <1>0, <4>3, LoosensStrong
    <3> QED BY <1>0, <2>2, <3>1, <3>2, AgainCalls
  <2> QED BY <1>3, <2>1, <2>2 DEF GoOn
<1>4. ASSUME NEW m \in Container, Ask(m) PROVE SInv'
  BY <1>0, <1>4, AskCalls, CallsKeeps
<1>5. ASSUME NEW m \in Container, ForceDelete(m) \/ Recover(m) PROVE SInv'
  BY <1>0, <1>5, JoinsKeep
<1>6. CASE KernelStops
  BY <1>0, <1>6, KernelStopsLoosens, LoosensStrong
<1>7. ASSUME \/ Aside \/ RecoverManagedContainers \/ ManagerStops \/ StopAllPlugins
             \/ \E m \in Container : MonitorChecks(m) \/ ContainerDies(m)
      PROVE  SInv'
  BY <1>0, <1>7, ElseLoosens, LoosensStrong
<1> QED
  BY <1>1, <1>2, <1>3, <1>4, <1>5, <1>6, <1>7 DEF Next, Aside

(***************************************************************************)
(* Undisturbed containers.                                                 *)
(***************************************************************************)
\* Nothing that matters to a container happens.
Elsewhere(m) ==
  /\ row'[m] = row[m] /\ dock'[m] = dock[m] /\ recovery'[m] = recovery[m]
  /\ (m \in removed') <=> (m \in removed)
  /\ m \in record => m \in record'
  /\ disturbed'[m] = disturbed[m]
  /\ \A k \in Call : handler[k].m = m \/ handler'[k].m = m => handler'[k] = handler[k]
  /\ \A r \in Request : request[r].m = m \/ request'[r].m = m =>
       /\ request[r].m = m /\ request'[r].m = m
       /\ request'[r].call = request[r].call /\ request'[r].op = request[r].op

LEMMA ElsewhereCalm ==
  ASSUME NEW m \in Container, Elsewhere(m), Calm(m)
  PROVE  Calm(m)'
<1>1. \A k \in Call : handler'[k].m = m => handler[k].m = m /\ handler'[k] = handler[k]
  BY DEF Elsewhere
<1>2. \A k \in Call : handler[k].m = m => handler'[k].m = m
  BY DEF Elsewhere
<1>3. \A r \in Request :
        /\ (request'[r].m = m) <=> (request[r].m = m)
        /\ request[r].m = m => /\ request'[r].call = request[r].call
                               /\ request'[r].op = request[r].op
  BY DEF Elsewhere
<1>4. Single(m)'
  BY <1>1, <1>3 DEF Elsewhere, Calm, Single
<1>5. Settled(m)'
  <2>1. (\A k \in Call : handler'[k].m = m => ~Saves(k)') => (\A k \in Call : handler[k].m = m => ~Saves(k))
    BY <1>1, <1>2 DEF Saves
  <2>2. /\ row'[m] = row[m] /\ dock'[m] = dock[m] /\ recovery'[m] = recovery[m]
        /\ (m \in removed') <=> (m \in removed)
        /\ m \in record => m \in record'
        /\ disturbed'[m] = disturbed[m]
    BY DEF Elsewhere
  <2> QED BY <1>3, <2>1, <2>2 DEF Calm, Settled, Good, Runs
<1>6. ASSUME NEW k \in Call, handler'[k].m = m PROVE Stage(k)'
  <2>1. Stage(k) /\ handler'[k] = handler[k] /\ handler[k].m = m
    BY <1>1, <1>6 DEF Calm
  <2>2. /\ row'[m] = row[m] /\ dock'[m] = dock[m]
        /\ (m \in removed') <=> (m \in removed)
    BY DEF Elsewhere
  <2> QED BY <2>1, <2>2 DEF Stage, Prepared, Saves, Runs
<1> QED BY <1>4, <1>5, <1>6 DEF Calm

\* A container that nobody is at.
LEMMA EmptyCalm ==
  ASSUME NEW m \in Container,
         \A k \in Call : handler[k].m # m,
         \A r \in Request : request[r].m # m,
         Settled(m)
  PROVE  Calm(m)
BY DEF Calm, Single

\* A handler works on in a container it has to itself.
LEMMA StepSingle ==
  ASSUME NEW k \in Call, Works(k), handler'[k].ctx = handler[k].ctx, UNCHANGED recovery,
         NEW m \in Container, Single(m)
  PROVE  Single(m)'
<1>1. \A j \in Call : /\ handler'[j].m = handler[j].m /\ handler'[j].op = handler[j].op
                      /\ handler'[j].ctx = handler[j].ctx
  BY DEF Works
<1> QED BY <1>1 DEF Works, Single

LEMMA StepCalm ==
  ASSUME LInv, NEW k \in Call, Handle(k), ~Respond(k), Calm(handler[k].m),
         disturbed'[handler[k].m] = disturbed[handler[k].m],
         disturbed[handler[k].m] # "now"
  PROVE  Calm(handler[k].m)'
<1>0. IInv /\ TypeOK
  BY DEF LInv, IInv
<1>m. PICK m \in Container : handler[k].m = m
  BY <1>0, HandlerSteps
<1>1. /\ HandlerStep(k)
      /\ Works(k) /\ handler[k] \in Serving /\ m \in Container
      /\ handler'[k].ctx = handler[k].ctx
      /\ removed' \in {removed, removed \cup {m}}
      /\ UNCHANGED <<recovery, record>>
  BY <1>0, <1>m, HandlerSteps
<1>2. /\ UNCHANGED request
      /\ handler'[k].m = m /\ handler'[k].op = handler[k].op
      /\ \A j \in Call : j # k => handler'[j] = handler[j]
  BY <1>1, <1>m DEF Works
<1>3. Single(m) /\ Settled(m) /\ Stage(k)
  BY <1>1, <1>m DEF Calm
<1>4. /\ handler[k].ctx
      /\ \A j \in Call : handler[j].m = m => j = k
      /\ recovery[m] = NoRow
      /\ \/ handler[k].op \in {"recover", "force"}
         \/ \E r \in Request : request[r].m = m /\ request[r].call = k
  BY <1>1, <1>3, <1>m DEF Single
<1>5. handler[k].op = "create" => \E r \in Request : request[r].m = m /\ request[r].op = "create"
  <2>1. ASSUME NEW r \in Request, request[r].m = m, request[r].call = k, handler[k].op = "create"
        PROVE  request[r].op = "create"
    <3>1. request[r].pc = "create"
      BY <1>0, <2>1, WaitsAt, NoOne
    <3> QED BY <3>1 DEF LInv, Purposeful
  <2> QED BY <1>4, <2>1
<1>6. Single(m)'
  BY <1>1, <1>3, StepSingle
<1>7. /\ Runs(m) => dock[m].id # NoId
      /\ handler'[k].pc # "save" \/ handler[k].op \notin Starting => ~Saves(k)'
      /\ ~Saves(k) => Good(m)
  BY <1>2, <1>4, <1>3, <1>1, <1>m DEF LInv, Named, Saves, Settled
<1>s. /\ handler[k].pc \in {"make", "run", "insert", "drop"} => ~Runs(m)
      /\ handler[k].pc = "save" /\ handler[k].op \in Starting /\ Runs(m) =>
           dock[m].id = handler[k].mc.cid
      /\ handler[k].pc = "save" /\ handler[k].op = "stop" => ~Runs(m)
      /\ handler[k].pc = "halt" => handler[k].mc.cid = row[m].cid
      /\ handler[k].pc = "insert" => m \notin removed
      /\ handler[k].pc \notin {"insert", "ready", "failed"} => row[m] # NoRow
      /\ handler[k].op = "recover" /\ handler[k].pc \notin {"ready", "failed"} =>
           row[m].status = "running"
  BY <1>3, <1>m DEF Stage, Prepared, Saves
<1>g. handler[k].pc = "halt" => (Runs(m) => row[m].cid = dock[m].id)
  BY <1>7 DEF Saves, Good
<1>t. /\ row'[m].status # "none" => row'[m] # NoRow
      /\ "stop" \notin Starting /\ "delete" \notin Starting /\ "force" \notin Starting
  BY NoOne DEF Starting
<1>d. disturbed'[m] # "now"
  BY <1>m
<1>8. Stage(k)'
  <2>1. /\ handler'[k].pc \in {"make", "run", "drop"} => ~dock'[m].running
        /\ handler'[k].pc = "save" /\ handler'[k].op \in Starting /\ dock'[m].running =>
             dock'[m].id = handler'[k].mc.cid
        /\ handler'[k].pc = "save" /\ handler'[k].op = "stop" => ~dock'[m].running
    BY <1>m, <1>1, <1>2, <1>4, <1>d, <1>s, <1>t, <1>g DEF HandlerStep, Runs
  <2>2. handler'[k].pc \notin {"halt", "insert"}
    BY <1>1 DEF HandlerStep
  <2>3. handler'[k].pc \notin {"ready", "failed"} => row'[m] # NoRow
    BY <1>m, <1>1, <1>s, <1>t DEF HandlerStep
  <2>4. handler'[k].op = "recover" /\ handler'[k].pc \notin {"ready", "failed"} =>
          row'[m].status = "running"
    BY <1>m, <1>1, <1>2, <1>s, <1>t DEF HandlerStep
  <2> QED BY <1>2, <2>1, <2>2, <2>3, <2>4 DEF Stage, Prepared, Saves, Runs
<1>9. Settled(m)'
  <2>1. ~Saves(k)' => (dock'[m].running => row'[m].status = "running" /\ row'[m].cid = dock'[m].id)
    <3>1. CASE handler[k].pc = "save" /\ handler[k].op \in Starting
      BY <1>m, <1>1, <1>s, <1>t, <3>1 DEF HandlerStep, Runs
    <3>2. CASE ~(handler[k].pc = "save" /\ handler[k].op \in Starting)
      <4>1. Good(m)
        BY <1>7, <3>2 DEF Saves
      <4> QED BY <1>m, <1>1, <1>2, <1>4, <1>s, <1>t, <1>g, <3>2, <4>1 DEF HandlerStep, Runs, Good, Saves
    <3> QED BY <3>1, <3>2
  <2>2. m \in removed' => row'[m] = NoRow /\ ~dock'[m].running
    <3>0. m \in removed => row[m] = NoRow /\ ~Runs(m)
      BY <1>3 DEF Settled
    <3> QED BY <1>m, <1>1, <1>4, <1>s, <1>t, <3>0 DEF HandlerStep, Runs
  <2>3. row'[m] # NoRow => row[m] # NoRow \/ handler[k].op = "create"
    BY <1>m, <1>1, <1>s, <1>t DEF HandlerStep
  <2>4. disturbed'[m] = "never" /\ row'[m] # NoRow =>
           \/ m \in record'
           \/ \E r \in Request : request'[r].m = m /\ request'[r].op = "create"
    BY <1>m, <1>1, <1>2, <1>3, <1>5, <2>3 DEF Settled
  <2>5. \A j \in Call : handler'[j].m = m => j = k
    BY <1>2, <1>4
  <2>6. (\A j \in Call : handler'[j].m = m => ~Saves(j)') => ~Saves(k)'
    BY <1>2
  <2>7. recovery'[m] = NoRow
    BY <1>1, <1>4
  <2> QED BY <2>1, <2>2, <2>4, <2>6, <2>7 DEF Settled, Good, Runs
<1> QED BY <1>m, <1>2, <1>4, <1>6, <1>8, <1>9 DEF Calm

\* A start that ran alone makes good whatever was before.
LEMMA RestoredCalm ==
  ASSUME SInv, IInv', NEW k \in Call, Handle(k), ~Respond(k),
         disturbed'[handler[k].m] # disturbed[handler[k].m],
         disturbed'[handler[k].m] # "now"
  PROVE  Calm(handler[k].m)'
<1>0. IInv /\ TypeOK /\ LInv
  BY DEF SInv, LInv, IInv
<1>m. PICK m \in Container : handler[k].m = m
  BY <1>0, HandlerSteps
<1>1. /\ HandlerStep(k)
      /\ Works(k) /\ handler[k] \in Serving
      /\ handler'[k].ctx = handler[k].ctx
      /\ UNCHANGED <<recovery, record>>
  BY <1>0, <1>m, HandlerSteps
<1>2. /\ UNCHANGED request
      /\ handler'[k].m = m /\ handler'[k].op = handler[k].op
      /\ \A j \in Call : j # k => handler'[j] = handler[j]
  BY <1>1, <1>m DEF Works
<1>3. /\ handler[k].pc = "save" /\ handler'[k].pc = "ready" /\ handler[k].op = "start"
      /\ row'[m].status = "running" /\ row'[m].cid = handler[k].mc.cid
      /\ dock'[m] = dock[m] /\ UNCHANGED removed /\ m \notin removed
      /\ disturbed'[m] = "past"
      /\ \E r \in Request : request[r].call = k /\ request[r].alone
  BY <1>1, <1>m DEF HandlerStep
<1>4. PICK r \in Request : request[r].call = k /\ request[r].alone
  BY <1>3
<1>5. request[r].m = m /\ request[r].pc = "start" /\ request[r].call # NoCall
  BY <1>0, <1>3, <1>4, <1>m, WaitsAt, NoOne
<1>6. Restores(r) /\ Alone(r) /\ handler[k].ctx
  BY <1>3, <1>4, <1>5 DEF Restores, Alone, SInv, LInv, Attended
<1>7. /\ \A s \in Request : request[s].m = m => s = r
      /\ \A j \in Call : handler[j].m = m => j = k
  BY <1>0, <1>4, <1>5, <1>6 DEF IInv, Apart
<1>8. Prepared(k) /\ recovery[m] = NoRow
  BY <1>4, <1>5, <1>6 DEF SInv, StartsAlone
<1>9. Single(m)'
  BY <1>1, <1>2, <1>4, <1>5, <1>6, <1>7, <1>8 DEF Single
<1>10. dock'[m].running => dock'[m].id = handler[k].mc.cid
  BY <1>3, <1>8, <1>m DEF Prepared, Saves, Runs, Starting
<1>11. Settled(m)'
  BY <1>1, <1>3, <1>8, <1>10 DEF Settled, Good, Runs
<1>12. Stage(k)'
  BY <1>2, <1>3 DEF Stage, Prepared, Saves
<1> QED BY <1>2, <1>7, <1>9, <1>11, <1>12 DEF Calm

LEMMA StepQuiet ==
  ASSUME QInv, IInv', NEW k \in Call, Handle(k), ~Respond(k),
         NEW m \in Container, disturbed'[m] # "now"
  PROVE  Calm(m)'
<1>0. SInv /\ LInv /\ IInv /\ TypeOK
  BY DEF QInv, SInv, LInv, IInv
<1>1. /\ Works(k) /\ handler[k].m \in Container
      /\ \A n \in Container : n # handler[k].m => disturbed'[n] = disturbed[n]
      /\ removed' \in {removed, removed \cup {handler[k].m}}
      /\ UNCHANGED <<recovery, record>>
  BY <1>0, HandlerSteps
<1>2. CASE m # handler[k].m
  <2>1. disturbed[m] # "now"
    BY <1>1, <1>2
  <2>2. Elsewhere(m)
    BY <1>1, <1>2 DEF Elsewhere, Works
  <2> QED BY <2>1, <2>2, ElsewhereCalm DEF QInv
<1>3. CASE m = handler[k].m /\ disturbed'[m] = disturbed[m]
  <2>1. Calm(handler[k].m) /\ disturbed[handler[k].m] # "now"
        /\ disturbed'[handler[k].m] = disturbed[handler[k].m]
    BY <1>3 DEF QInv
  <2>2. Calm(handler[k].m)'
    BY <1>0, <2>1, StepCalm
  <2>3. handler'[k].m = m
    BY <1>1, <1>3 DEF Works
  <2> QED BY <2>2, <2>3
<1>4. CASE m = handler[k].m /\ disturbed'[m] # disturbed[m]
  <2>1. disturbed'[handler[k].m] # disturbed[handler[k].m] /\ disturbed'[handler[k].m] # "now"
    BY <1>4
  <2>2. Calm(handler[k].m)'
    BY <1>0, <2>1, RestoredCalm
  <2>3. handler'[k].m = m
    BY <1>1, <1>4 DEF Works
  <2> QED BY <2>2, <2>3
<1> QED BY <1>2, <1>3, <1>4

\* An answer leaves nobody, or the request that had it.
LEMMA RespondQuiet ==
  ASSUME QInv, IInv', NEW k \in Call, Respond(k),
         NEW m \in Container, disturbed'[m] # "now"
  PROVE  Calm(m)'
<1>0. SInv /\ LInv /\ IInv /\ TypeOK
  BY DEF QInv, SInv, LInv, IInv
<1>1. /\ UNCHANGED <<row, dock, recovery, record, history, disturbed>>
      /\ \A j \in Call : handler'[j] = IF j = k THEN NoHandler ELSE handler[j]
      /\ \A r \in Request :
           /\ request[r].call # k => request'[r] = request[r]
           /\ request[r].call = k =>
                \/ Continues(r, TRUE)
                \/ Continues(r, FALSE) /\ handler[k].pc = "failed"
  BY <1>0, RespondLoosens
<1>2. Calm(m)
  BY <1>1 DEF QInv
<1>3. /\ handler[k].pc \in {"ready", "failed"}
      /\ \A r \in Request : request[r].call = k =>
           /\ request[r].m = handler[k].m /\ request[r].pc = handler[k].op
           /\ request'[r].m \in {request[r].m, NoContainer}
           /\ request'[r].m = request[r].m => request'[r].op = request[r].op
  <2>1. handler[k].pc \in {"ready", "failed"}
    BY DEF Respond
  <2>2. \A r \in Request : request[r].call = k =>
           request[r].m \in Container /\ request[r].m = handler[k].m /\ request[r].pc = handler[k].op
    BY <1>0, WaitsAt, NoOne
  <2> QED BY <1>1, <2>1, <2>2, NoOne DEF Continues
<1>4. CASE handler[k].m # m
  <2>1. Elsewhere(m)
    BY <1>1, <1>3, <1>4, NoOne DEF Elsewhere, history
  <2> QED BY <1>2, <2>1, ElsewhereCalm
<1>5. CASE handler[k].m = m
  <2>1. \A j \in Call : handler[j].m = m => j = k
    BY <1>2, <1>5 DEF Calm, Single
  <2>2. \A j \in Call : handler'[j].m # m
    BY <1>1, <2>1, NoOne
  <2>3. /\ recovery'[m] = NoRow
        /\ \A r, s \in Request : request[r].m = m /\ request[s].m = m => r = s
        /\ \A r \in Request : request[r].m = m => request[r].call = k
    BY <1>1, <1>2, <1>5 DEF Calm, Single
  <2>4. \A r \in Request : request'[r].m = m => request[r].m = m
    BY <1>1, <1>3, <1>5
  <2>5. Single(m)'
    BY <2>2, <2>3, <2>4 DEF Single
  <2>6. Good(m)
    BY <1>2, <1>3, <1>5, <2>1 DEF Calm, Settled, Saves
  <2>7. ASSUME disturbed'[m] = "never", row'[m] # NoRow, m \notin record'
        PROVE  \E r \in Request : request'[r].m = m /\ request'[r].op = "create"
    <3>1. PICK r \in Request : request[r].m = m /\ request[r].op = "create"
      BY <1>1, <1>2, <2>7 DEF Calm, Settled
    <3>2. request[r].call = k
      BY <2>3, <3>1
    <3>3. m \notin removed
      BY <1>1, <1>2, <2>7 DEF Calm, Settled
    <3>4. handler[k].op = "create"
      <4>1. request[r].pc \in {"create", "put"} /\ request[r].pc = handler[k].op
            /\ request[r].pc \in Op
        BY <1>0, <1>3, <3>1, <3>2, WaitsAt, NoOne DEF LInv, Purposeful
      <4> QED BY <4>1 DEF Op, Starting
    <3>5. handler[k].pc # "failed"
      BY <1>0, <1>5, <3>3, <3>4 DEF LInv, Concluded
    <3>6. request'[r] # NoRequest
      <4>1. request[r] \in Asking /\ request'[r] = After(request[r], TRUE)
        BY <1>0, <1>3, <3>2, <3>5, AskingAt, NoOne DEF Respond, Answered, Waits
      <4>2. request'[r].pc = "put"
        BY <3>1, <4>1 DEF After, Asking
      <4> QED BY <4>2, NoOne
    <3>7. request'[r].m = m /\ request'[r].op = "create"
      BY <1>1, <3>1, <3>2, <3>6 DEF Continues
    <3> QED BY <3>7
  <2>8. Settled(m)'
    BY <1>1, <1>2, <2>3, <2>6, <2>7 DEF Calm, Settled, Good, Runs, history
  <2> QED BY <2>2, <2>5, <2>8 DEF Calm
<1> QED BY <1>4, <1>5

LEMMA GoesQuiet ==
  ASSUME QInv, IInv', NEW r \in Request,
         PutRecord(r) \/ ForgetWorkspace(r) \/ UpdateContainer(r),
         NEW m \in Container, disturbed'[m] # "now"
  PROVE  Calm(m)'
<1>0. SInv /\ LInv /\ IInv /\ TypeOK
  BY DEF QInv, SInv, LInv, IInv
<1>1. /\ UNCHANGED <<dock, recovery, history, disturbed, handler>>
      /\ request[r].call = NoCall
      /\ \A s \in Request : s # r => request'[s] = request[s]
      /\ m # request[r].m => row'[m] = row[m] /\ (m \in record => m \in record')
      /\ row'[m].status = row[m].status /\ row'[m].cid = row[m].cid
      /\ (row'[m] = NoRow) <=> (row[m] = NoRow)
      /\ \/ request[r].op = "create" /\ request[r].m \in record' /\ UNCHANGED row
            /\ request'[r] = NoRequest
         \/ request[r].m \in removed /\ UNCHANGED row /\ request'[r] = NoRequest
         \/ /\ request[r].op # "create" /\ UNCHANGED record
            /\ request'[r].m \in {request[r].m, NoContainer}
            /\ request'[r].call = NoCall
  BY <1>0, GoesLoosens
<1>2. Calm(m) /\ request'[r].m \in {request[r].m, NoContainer} /\ request'[r].call = NoCall
  BY <1>1, NoOne DEF QInv
<1>3. CASE request[r].m # m
  <2>1. Elsewhere(m)
    BY <1>1, <1>2, <1>3, NoOne DEF Elsewhere, history
  <2> QED BY <1>2, <2>1, ElsewhereCalm
<1>4. CASE request[r].m = m
  <2>1. \A k \in Call : handler[k].m # m
    BY <1>1, <1>2, <1>4, NoOne DEF Calm, Single
  <2>2. recovery[m] = NoRow /\ \A s \in Request : request[s].m = m => s = r
    BY <1>2, <1>4 DEF Calm, Single
  <2>3. Single(m)'
    BY <1>1, <1>4, <2>1, <2>2 DEF Single
  <2>4. Good(m)
    BY <1>2, <2>1 DEF Calm, Settled
  <2>5. m \in removed => row[m] = NoRow /\ ~Runs(m)
    BY <1>2 DEF Calm, Settled
  <2>6. disturbed'[m] = "never" /\ row'[m] # NoRow => m \in record'
    <3>1. disturbed[m] = "never" /\ row[m] # NoRow => m \in record \/ request[r].op = "create"
      BY <1>2, <2>2 DEF Calm, Settled
    <3> QED BY <1>1, <1>4, <2>5, <3>1
  <2>7. Settled(m)'
    BY <1>1, <2>2, <2>4, <2>5, <2>6 DEF Settled, Good, Runs, history
  <2> QED BY <1>1, <2>1, <2>3, <2>7 DEF Calm
<1> QED BY <1>3, <1>4

\* A handler that begins where nobody else is finds what its row says.
LEMMA ServedQuiet ==
  ASSUME QInv, IInv', NEW r, NEW m \in Container, NEW op, NEW pc, NEW mc, NEW others,
         Served(r, m, op, pc, mc, others),
         UNCHANGED <<row, dock, removed, record>>,
         \A n \in Container : n # m => recovery'[n] = recovery[n],
         r \in Request => /\ request[r].m \in {m, NoContainer}
                          /\ request[r].m = m => request'[r].op = request[r].op,
         r \in Request \/ op \in {"recover", "force"},
         others = {} =>
           /\ \A s \in Request : request[s].m = m => s = r
           /\ \A k \in Call : handler[k].m # m
           /\ recovery'[m] = NoRow,
         disturbed'[m] # "now" =>
           /\ pc \in {"insert", "remove", "halt", "save", "drop", "ready", "failed"}
           /\ pc \in {"insert", "drop", "save"} => ~Runs(m)
           /\ pc = "halt" => mc.cid = row[m].cid
           /\ pc = "insert" => m \notin removed
           /\ pc \notin {"insert", "ready", "failed"} => row[m] # NoRow
           /\ op = "recover" => row[m].status = "running",
         NEW n \in Container, disturbed'[n] # "now"
  PROVE  Calm(n)'
<1>1. CASE n # m
  <2>1. Elsewhere(n)
    <3>1. \A k \in Call : handler[k].m = n \/ handler'[k].m = n => handler'[k] = handler[k]
      BY <1>1, NoOne DEF Served
    <3>2. \A s \in Request : request[s].m = n \/ request'[s].m = n =>
             /\ request[s].m = n /\ request'[s].m = n
             /\ request'[s].call = request[s].call /\ request'[s].op = request[s].op
      BY <1>1, NoOne DEF Served
    <3>3. disturbed'[n] = disturbed[n]
      BY <1>1 DEF Served
    <3> QED BY <1>1, <3>1, <3>2, <3>3 DEF Elsewhere
  <2>2. Calm(n)
    BY <1>1 DEF Served, QInv
  <2> QED BY <2>1, <2>2, ElsewhereCalm
<1>2. CASE n = m
  <2>0. PICK c \in Call : c = FreeCall
    BY DEF Served
  <2>1. others = {} /\ disturbed'[m] = disturbed[m]
    BY <1>2 DEF Served
  <2>2. Calm(m)
    BY <1>2, <2>1 DEF QInv
  <2>3. /\ \A s \in Request : request[s].m = m => s = r
        /\ \A k \in Call : handler[k].m # m
        /\ recovery'[m] = NoRow
    BY <2>1
  <2>4. /\ \A k \in Call : handler'[k].m = m => k = c
        /\ \A s \in Request : request'[s].m = m => s = r
    BY <2>0, <2>3 DEF Served
  <2>5. /\ handler'[c].op = op /\ handler'[c].pc = pc
        /\ handler'[c].m = m /\ handler'[c].mc = mc /\ handler'[c].ctx
        /\ r \in Request => request'[r].m = m /\ request'[r].call = c
    BY <2>0 DEF Served
  <2>6. Single(m)'
    BY <2>3, <2>4, <2>5 DEF Single
  <2>7. Good(m)
    BY <2>2, <2>3 DEF Calm, Settled
  <2>8. Settled(m)'
    BY <2>1, <2>2, <2>3, <2>5, <2>7 DEF Calm, Settled, Good, Runs
  <2>9. Stage(c)'
    BY <1>2, <2>5 DEF Stage, Prepared, Saves, Runs
  <2> QED BY <1>2, <2>4, <2>6, <2>8, <2>9 DEF Calm
<1> QED BY <1>1, <1>2

LEMMA CallsQuiet ==
  ASSUME QInv, IInv', NEW r \in Request, NEW q \in Asking,
         NEW op \in {"create", "start", "stop", "delete"}, Calls(r, q, op),
         NEW n \in Container, disturbed'[n] # "now"
  PROVE  Calm(n)'
<1>0. SInv /\ LInv /\ IInv /\ TypeOK
  BY DEF QInv, SInv, LInv, IInv
<1>m. PICK m \in Container : q.m = m
  BY <1>0, CallServes DEF Calls
<1> DEFINE others == Users(m) \ {r}
           pc == First(op, m)
           mc == row[m]
<1>1. /\ Served(r, m, op, pc, mc, others)
      /\ request'[r].op = q.op
  BY <1>0, <1>m, CallServes DEF Calls
<1>2. r \notin Call /\ r # m
  BY WorkspacesAssumption
<1>3. request[r].call = NoCall /\ UNCHANGED <<row, dock, recovery, record, removed>>
  BY DEF Calls
<1>4. others = {} =>
        /\ \A s \in Request : request[s].m = m => s = r
        /\ \A k \in Call : handler[k].m # m
        /\ recovery[m] = NoRow
  BY <1>0, <1>2, <1>3, NoOne, Unshared
<1>5. /\ request[r].m \in {m, NoContainer}
      /\ request[r].m = m => request'[r].op = request[r].op
  BY <1>1, <1>m, NoOne DEF Calls
<1>6. ASSUME disturbed'[m] # "now"
      PROVE  /\ pc \in {"insert", "remove", "halt", "save", "drop", "ready", "failed"}
             /\ pc \in {"insert", "drop", "save"} => ~Runs(m)
             /\ pc = "halt" => mc.cid = row[m].cid
             /\ pc = "insert" => m \notin removed
             /\ pc \notin {"insert", "ready", "failed"} => row[m] # NoRow
             /\ op = "recover" => row[m].status = "running"
  <2>1. others = {} /\ disturbed[m] # "now"
    BY <1>1, <1>6 DEF Served
  <2>2. Good(m)
    BY <1>4, <2>1 DEF QInv, Calm, Settled
  <2>3. Runs(m) => row[m].cid # NoId
    BY <1>0, <2>2 DEF Good, LInv, Named
  <2>4. CASE op = "create"
    <3>1. Untouched(m) /\ pc = "insert"
      BY <1>0, <1>m, <2>4, FirstCases DEF Calls, LInv, Fresh
    <3> QED BY <2>4, <3>1 DEF Untouched
  <2>5. CASE op = "start"
    BY <1>0, <2>5, FirstCases
  <2>6. CASE op = "stop"
    BY <1>0, <2>3, <2>6, FirstCases
  <2>7. CASE op = "delete"
    BY <1>0, <2>3, <2>7, FirstCases
  <2> QED BY <2>4, <2>5, <2>6, <2>7
<1> HIDE DEF others, pc, mc
<1> QED BY <1>1, <1>3, <1>4, <1>5, <1>6, ServedQuiet

LEMMA JoinsQuiet ==
  ASSUME QInv, IInv', NEW m \in Container, ForceDelete(m) \/ Recover(m),
         NEW n \in Container, disturbed'[n] # "now"
  PROVE  Calm(n)'
<1>0. SInv /\ LInv /\ IInv /\ TypeOK /\ m \notin Request /\ m \notin Call
  BY WorkspacesAssumption DEF QInv, SInv, LInv, IInv
<1>1. UNCHANGED <<row, dock, record, removed>>
  BY <1>0, JoinServes DEF history
<1>2. CASE row[m] # NoRow /\ UNCHANGED recovery
           /\ Served(m, m, "force", First("force", m), row[m], Users(m))
  <2> DEFINE pc == First("force", m)
             mc == row[m]
             others == Users(m)
  <2>1. others = {} =>
          /\ \A s \in Request : request[s].m = m => s = m
          /\ \A k \in Call : handler[k].m # m
          /\ recovery'[m] = NoRow
    BY <1>0, <1>2, Deserted
  <2>2. ASSUME disturbed'[m] # "now"
        PROVE  /\ pc \in {"insert", "remove", "halt", "save", "drop", "ready", "failed"}
               /\ pc \in {"insert", "drop", "save"} => ~Runs(m)
               /\ pc = "halt" => mc.cid = row[m].cid
               /\ pc = "insert" => m \notin removed
               /\ pc \notin {"insert", "ready", "failed"} => row[m] # NoRow
    <3>1. others = {} /\ disturbed[m] # "now"
      BY <1>2, <2>2 DEF Served
    <3>2. Good(m)
      BY <2>1, <3>1 DEF QInv, Calm, Settled
    <3>3. Runs(m) => row[m].cid # NoId
      BY <1>0, <3>2 DEF Good, LInv, Named
    <3> QED BY <1>0, <1>2, <3>3, FirstCases
  <2>3. Served(m, m, "force", pc, mc, others)
    BY <1>2
  <2> HIDE DEF pc, mc, others
  <2> QED BY <1>0, <1>1, <1>2, <2>1, <2>2, <2>3, ServedQuiet
<1>3. CASE recovery[m] # NoRow /\ recovery' = [recovery EXCEPT ![m] = NoRow]
           /\ Served(m, m, "recover", "remove", recovery[m], Users(m) \ {m})
  <2> DEFINE mc == recovery[m]
             others == Users(m) \ {m}
  <2>1. /\ recovery'[m] = NoRow
        /\ \A x \in Container : x # m => recovery'[x] = recovery[x]
    BY <1>0, <1>3 DEF TypeOK
  <2>2. others = {} =>
          /\ \A s \in Request : request[s].m = m => s = m
          /\ \A k \in Call : handler[k].m # m
          /\ recovery'[m] = NoRow
    BY <1>0, <2>1, Unshared
  <2>3. disturbed'[m] # "now" => row[m].status = "running" /\ row[m] # NoRow
    <3>1. disturbed'[m] # "now" => disturbed[m] # "now"
      BY <1>3 DEF Served
    <3> QED BY <1>3, <3>1, NoOne DEF QInv, Calm, Settled
  <2>4. Served(m, m, "recover", "remove", mc, others)
    BY <1>3
  <2> HIDE DEF mc, others
  <2> QED BY <1>0, <1>1, <2>1, <2>2, <2>3, <2>4, ServedQuiet
<1> QED BY <1>0, <1>2, <1>3, JoinServes

LEMMA TimeOutQuiet ==
  ASSUME QInv, IInv', NEW k \in Call, TimeOut(k),
         NEW m \in Container, disturbed'[m] # "now"
  PROVE  Calm(m)'
<1>0. SInv /\ LInv /\ IInv /\ TypeOK
  BY DEF QInv, SInv, LInv, IInv
<1>1. /\ UNCHANGED <<row, dock, recovery, record, history>>
      /\ \A j \in Call : j # k => handler'[j] = handler[j]
      /\ handler'[k].m = handler[k].m
      /\ \A r \in Request :
           /\ request[r].call # k => request'[r] = request[r]
           /\ request[r].call = k => Continues(r, FALSE)
      /\ handler[k].m # m /\ disturbed'[m] = disturbed[m]
  BY <1>0, TimeOutLoosens
<1>2. \A r \in Request : request[r].call = k =>
        request[r].m # m /\ request'[r].m # m
  <2>1. \A r \in Request : request[r].call = k => request[r].m = handler[k].m
    BY <1>0, WaitsAt, NoOne
  <2> QED BY <1>1, <2>1, NoOne DEF Continues
<1>3. Elsewhere(m)
  BY <1>1, <1>2 DEF Elsewhere, history
<1> QED BY <1>1, <1>3, ElsewhereCalm DEF QInv

LEMMA KernelStopsQuiet ==
  ASSUME QInv, IInv', KernelStops, NEW m \in Container, disturbed'[m] # "now"
  PROVE  Calm(m)'
<1>0. SInv /\ LInv /\ IInv /\ TypeOK
  BY DEF QInv, SInv, LInv, IInv
<1>1. /\ Loosens
      /\ UNCHANGED <<row, dock, record, history>>
      /\ recovery'[m] = NoRow
      /\ \A k \in Call : handler'[k] = NoHandler
      /\ disturbed'[m] = disturbed[m] /\ Users(m) = {}
  BY <1>0, KernelStopsLoosens
<1>2. /\ \A r \in Request : request[r].m # m
      /\ \A k \in Call : handler[k].m # m
  BY <1>0, <1>1, Deserted
<1>3. /\ \A r \in Request : request'[r].m # m
      /\ \A k \in Call : handler'[k].m # m
  BY <1>1, <1>2, NoOne DEF Loosens, Lets
<1>4. Calm(m)
  BY <1>1 DEF QInv
<1>5. Settled(m)'
  BY <1>1, <1>2, <1>4 DEF Calm, Settled, Good, Runs, history
<1> QED BY <1>3, <1>5 DEF Calm, Single

\* The manager and the plugins end, and with them every request.
LEMMA EndsQuiet ==
  ASSUME QInv, IInv', ManagerStops \/ StopAllPlugins,
         NEW m \in Container, disturbed'[m] # "now"
  PROVE  Calm(m)'
<1>0. SInv /\ LInv /\ IInv /\ TypeOK
  BY DEF QInv, SInv, LInv, IInv
<1>1. /\ \A r \in Request : request'[r] = NoRequest
      /\ \A k \in Call :
           handler'[k] = IF \E r \in Request : Waits(r, k)
                           THEN [handler[k] EXCEPT !.ctx = FALSE] ELSE handler[k]
  BY DEF ManagerStops, StopAllPlugins, ManagerEnds
<1>2. \A k \in Call : handler'[k].m = handler[k].m
  <2> SUFFICES ASSUME NEW k \in Call PROVE handler'[k].m = handler[k].m
    OBVIOUS
  <2>1. handler'[k] \in {handler[k], [handler[k] EXCEPT !.ctx = FALSE]}
    BY <1>1
  <2> QED BY <1>0, <2>1 DEF TypeOK, Serving, NoHandler
<1>3. CASE ManagerStops
  <2>1. /\ UNCHANGED <<row, dock, recovery, record, history>>
        /\ disturbed'[m] = disturbed[m] /\ Requests(m) = {}
    BY <1>3 DEF ManagerStops, Disturb, system
  <2>2. \A r \in Request : request[r].m # m
    BY <1>0, <2>1, RequestAt DEF Requests
  <2>3. \A k \in Call : handler[k].m = m => handler'[k] = handler[k]
    <3>1. \A k \in Call : handler[k].m = m => ~\E r \in Request : Waits(r, k)
      BY <1>0, <2>2, WaitsAt, NoOne DEF Waits
    <3> QED BY <1>1, <3>1
  <2>4. Elsewhere(m)
    BY <1>1, <1>2, <2>1, <2>2, <2>3, NoOne DEF Elsewhere, history
  <2> QED BY <2>1, <2>4, ElsewhereCalm DEF QInv
<1>4. CASE StopAllPlugins
  <2>1. /\ UNCHANGED <<recovery, record, history>>
        /\ \/ row'[m] = row[m] /\ dock'[m] = dock[m]
           \/ /\ row[m].status = "running" /\ row'[m].status = "stopped"
              /\ \/ ~dock'[m].running
                 \/ dock[m].id # row[m].cid /\ dock'[m] = dock[m]
        /\ disturbed'[m] = disturbed[m] /\ Users(m) = {}
    BY <1>0, <1>4, StopAllSteps
  <2>2. /\ \A r \in Request : request[r].m # m
        /\ \A k \in Call : handler[k].m # m
        /\ recovery[m] = NoRow
    BY <1>0, <2>1, Deserted
  <2>3. /\ \A r \in Request : request'[r].m # m
        /\ \A k \in Call : handler'[k].m # m
    BY <1>1, <1>2, <2>2, NoOne
  <2>4. Calm(m)
    BY <2>1 DEF QInv
  <2>5. Good(m)
    BY <2>2, <2>4 DEF Calm, Settled
  <2>6. Settled(m)'
    BY <2>1, <2>2, <2>4, <2>5, NoOne DEF Calm, Settled, Good, Runs, history
  <2> QED BY <2>3, <2>6, <2>2, <2>1 DEF Calm, Single
<1> QED BY <1>3, <1>4

LEMMA ElseQuiet ==
  ASSUME QInv, IInv',
         \/ Aside \/ RecoverManagedContainers
         \/ \E n \in Container : MonitorChecks(n) \/ ContainerDies(n),
         NEW m \in Container, disturbed'[m] # "now"
  PROVE  Calm(m)'
<1>0. SInv /\ LInv /\ IInv /\ TypeOK
  BY DEF QInv, SInv, LInv, IInv
<1>1. CASE Aside
  <2>1. Elsewhere(m)
    BY <1>1, AsideSteps DEF Elsewhere, history
  <2> QED BY <1>1, <2>1, AsideSteps, ElsewhereCalm DEF QInv
<1>2. CASE RecoverManagedContainers
  <2>1. /\ UNCHANGED <<row, dock, handler, request, record, history>>
        /\ recovery'[m] = IF row[m].status = "running" THEN row[m] ELSE NoRow
        /\ disturbed'[m] = disturbed[m]
        /\ row[m].status = "running" => Users(m) = {}
    BY <1>0, <1>2, RecoverySteps
  <2>2. Calm(m)
    BY <2>1 DEF QInv
  <2>3. recovery'[m] # NoRow =>
          /\ \A r \in Request : request[r].m # m
          /\ \A k \in Call : handler[k].m # m
          /\ row[m].status = "running"
    BY <1>0, <2>1, Deserted
  <2>4. Single(m)'
    BY <2>1, <2>2, <2>3 DEF Calm, Single
  <2>5. Settled(m)'
    BY <2>1, <2>2, <2>3 DEF Calm, Settled, Good, Runs, Saves, history
  <2>6. \A k \in Call : handler'[k].m = m => Stage(k)'
    BY <2>1, <2>2 DEF Calm, Stage, Prepared, Saves, Runs, history
  <2> QED BY <2>4, <2>5, <2>6 DEF Calm
<1>3. ASSUME NEW n \in Container, MonitorChecks(n) PROVE Calm(m)'
  <2>1. /\ UNCHANGED <<dock, handler, recovery, request, record, history>>
        /\ \A x \in Container : x # n => row'[x] = row[x] /\ disturbed'[x] = disturbed[x]
        /\ \/ UNCHANGED <<row, disturbed>>
           \/ /\ \/ row[n] # NoRow /\ row'[n].status = "stopped"
                 \/ row'[n] = row[n]
              /\ \/ disturbed'[n] = "now"
                 \/ disturbed'[n] = disturbed[n] /\ ~Runs(n) /\ Users(n) = {}
    BY <1>0, <1>3, MonitorSteps
  <2>2. disturbed'[m] = disturbed[m] /\ Calm(m)
    BY <2>1 DEF QInv
  <2>3. CASE row'[m] = row[m]
    <3>1. Elsewhere(m)
      BY <2>1, <2>2, <2>3 DEF Elsewhere, history
    <3> QED BY <2>2, <3>1, ElsewhereCalm
  <2>4. CASE row'[m] # row[m]
    <3>1. row[m] # NoRow /\ row'[m].status = "stopped" /\ ~Runs(m) /\ Users(m) = {}
      BY <2>1, <2>4
    <3>2. /\ \A r \in Request : request[r].m # m
          /\ \A k \in Call : handler[k].m # m
          /\ recovery[m] = NoRow
      BY <1>0, <3>1, Deserted
    <3>3. Settled(m)'
      BY <2>1, <2>2, <3>1, <3>2 DEF Calm, Settled, Good, Runs, history
    <3> QED BY <2>1, <3>2, <3>3 DEF Calm, Single
  <2> QED BY <2>3, <2>4
<1>4. ASSUME NEW n \in Container, ContainerDies(n) PROVE Calm(m)'
  <2>1. /\ UNCHANGED <<row, handler, recovery, request, record, history, disturbed>>
        /\ \A x \in Container : x # n => dock'[x] = dock[x]
        /\ ~dock'[n].running
    BY <1>0, <1>4, DiesSteps
  <2>2. Calm(m)
    BY <2>1 DEF QInv
  <2>3. CASE n # m
    <3>1. Elsewhere(m)
      BY <2>1, <2>3 DEF Elsewhere, history
    <3> QED BY <2>2, <3>1, ElsewhereCalm
  <2>4. CASE n = m
    <3>1. Single(m)'
      BY <2>1, <2>2 DEF Calm, Single
    <3>2. Settled(m)'
      BY <2>1, <2>2, <2>4 DEF Calm, Settled, Good, Runs, history
    <3>3. \A k \in Call : handler'[k].m = m => Stage(k)'
      BY <2>1, <2>2, <2>4 DEF Calm, Stage, Prepared, Saves, Runs, history
    <3> QED BY <3>1, <3>2, <3>3 DEF Calm
  <2> QED BY <2>3, <2>4
<1> QED BY <1>1, <1>2, <1>3, <1>4

LEMMA QInvInit == Init => QInv
<1> SUFFICES ASSUME Init PROVE QInv
  OBVIOUS
<1>1. /\ \A m \in Container : row[m] = NoRow /\ recovery[m] = NoRow /\ ~dock[m].running
      /\ \A k \in Call : handler[k].m = NoContainer
      /\ \A r \in Request : request[r].m = NoContainer
  BY NoOne DEF Init
<1>2. ASSUME NEW m \in Container PROVE Calm(m)
  <2>1. Settled(m)
    BY <1>1 DEF Settled, Good, Runs
  <2> QED BY <1>1, <2>1, NoOne, EmptyCalm
<1> QED BY <1>2, SInvInit DEF QInv

LEMMA QInvNext == QInv /\ [Next]_vars => QInv'
<1> SUFFICES ASSUME QInv, [Next]_vars PROVE QInv'
  OBVIOUS
<1>0. SInv /\ LInv /\ SInv' /\ IInv'
  BY SInvNext DEF QInv, SInv, LInv
<1> SUFFICES ASSUME NEW m \in Container, disturbed'[m] # "now" PROVE Calm(m)'
  BY <1>0 DEF QInv
<1>1. ASSUME NEW k \in Call, Handle(k) \/ TimeOut(k) PROVE Calm(m)'
  BY <1>0, <1>1, StepQuiet, RespondQuiet, TimeOutQuiet
<1>2. ASSUME NEW r \in Request, GoOn(r) PROVE Calm(m)'
  <2>1. CASE PutRecord(r) \/ ForgetWorkspace(r) \/ UpdateContainer(r)
    BY <1>0, <2>1, GoesQuiet
  <2>2. CASE StartAgain(r)
    <3>1. CASE request[r] \in Asking /\ Calls(r, request[r], "start")
      BY <1>0, <3>1, CallsQuiet
    <3>2. CASE /\ request' = [request EXCEPT ![r] = NoRequest]
               /\ UNCHANGED <<row, dock, recovery, record, handler, history, disturbed>>
      <4>1. \A s \in Request : request'[s] = IF s = r THEN NoRequest ELSE request[s]
        BY <1>0, <3>2 DEF LInv, IInv, TypeOK
      <4>2. Calm(m)
        BY <3>2 DEF QInv
      <4>3. request[r].call = NoCall /\ request[r].op # "create"
        BY <1>0, <2>2, WaitsAt DEF StartAgain, LInv, Purposeful, Op, Starting
      <4>4. \A s \in Request : request'[s].m = m => s # r /\ request'[s] = request[s]
        BY <4>1, NoOne
      <4>5. \A k \in Call : handler[k].m = m => \A s \in Request : request[s].m = m => s # r
        BY <4>2, <4>3, NoOne DEF Calm, Single
      <4>6. Single(m)'
        BY <3>2, <4>1, <4>2, <4>4, <4>5 DEF Calm, Single
      <4>7. Settled(m)'
        BY <3>2, <4>1, <4>2, <4>3 DEF Calm, Settled, Good, Runs, Saves, history
      <4>8. \A k \in Call : handler'[k].m = m => Stage(k)'
        BY <3>2, <4>2 DEF Calm, Stage, Prepared, Saves, Runs, history
      <4> QED BY <4>6, <4>7, <4>8 DEF Calm
    <3> QED BY <1>0, <2>2, <3>1, <3>2, AgainCalls
  <2> QED BY <1>2, <2>1, <2>2 DEF GoOn
<1>3. ASSUME NEW n \in Container, Ask(n) PROVE Calm(m)'
  BY <1>0, <1>3, AskCalls, CallsQuiet
<1>4. ASSUME NEW n \in Container, ForceDelete(n) \/ Recover(n) PROVE Calm(m)'
  BY <1>0, <1>4, JoinsQuiet
<1>5. CASE KernelStops
  BY <1>0, <1>5, KernelStopsQuiet
<1>6. CASE ManagerStops \/ StopAllPlugins
  BY <1>0, <1>6, EndsQuiet
<1>7. ASSUME \/ Aside \/ RecoverManagedContainers
             \/ \E n \in Container : MonitorChecks(n) \/ ContainerDies(n)
      PROVE  Calm(m)'
  BY <1>0, <1>7, ElseQuiet
<1> QED
  BY <1>1, <1>2, <1>3, <1>4, <1>5, <1>6, <1>7 DEF Next, Aside

LEMMA CalmAlways == Spec => []QInv
BY QInvInit, QInvNext, PTL DEF Spec

LEMMA IdleAt ==
  ASSUME QInv, NEW m \in Container, Idle(m)
  PROVE  /\ \A r \in Request : request[r].m # m
         /\ \A k \in Call : handler[k].m # m
BY Deserted DEF Idle, QInv, SInv, LInv

\* What runs under the name of a managed container is what its row names, and the
\* row says so, when nobody works on it and nobody overlapped or failed since its
\* start (managed_containers.go:402, monitor.go:366): for any number of handlers
\* and requests, and any order of their steps.
THEOREM ContainersTracked == Spec => []Tracked
<1>1. QInv => Tracked
  <2> SUFFICES ASSUME QInv, NEW m \in Undisturbed, Idle(m)
               PROVE  Runs(m) => row[m].status = "running" /\ row[m].cid = dock[m].id
    BY DEF Tracked
  <2>1. m \in Container /\ Calm(m)
    BY DEF Undisturbed, QInv
  <2> QED BY <2>1, IdleAt DEF Calm, Settled, Good
<1> QED BY <1>1, CalmAlways, PTL

\* A workspace whose container was deleted has no row and nothing runs, unless
\* somebody overlapped its deletion (managed_containers.go:278).
THEOREM DeletedStaysGone == Spec => []DeletedGone
<1>1. QInv => DeletedGone
  BY DEF QInv, DeletedGone, Undisturbed, Calm, Settled
<1> QED BY <1>1, CalmAlways, PTL

\* Every container the kernel has a row of is known to the manager, unless its
\* creation is under way or was disturbed (workspaces.go:533).
THEOREM RowsRecorded == Spec => []Recorded
<1>1. QInv => Recorded
  <2> SUFFICES ASSUME QInv, NEW m \in Container, row[m] # NoRow,
                      disturbed[m] = "never", Requests(m) = {}
               PROVE  m \in record
    BY DEF Recorded, Rows
  <2>1. \A r \in Request : request[r].m # m
    BY RequestAt DEF Requests, QInv, SInv, LInv, IInv
  <2> QED BY <2>1 DEF QInv, Calm, Settled
<1> QED BY <1>1, CalmAlways, PTL
=============================================================================
