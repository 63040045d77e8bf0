---------------------------- MODULE DatabaseRecovery ----------------------------
(***************************************************************************)
(* The kernel's database file, the loop that copies it to snapshots and    *)
(* daily archives, and the watchdog that repairs the file or replaces it   *)
(* by a copy when a query fails.  Each goroutine that serves a request may *)
(* meet an error and call the watchdog; the loop runs beside them all.     *)
(***************************************************************************)
EXTENDS Integers, FiniteSets

CONSTANTS
  Caller,        \* goroutines whose queries may fail
  Slots,         \* snapshots that are kept
  Written,       \* how many of them an earlier run may have left
  ArchiveDays,   \* days for which archives are kept
  MaxCopies,     \* bound on the copies
  MaxDays,       \* bound on the days
  MaxDamages,    \* bound on the times the file is damaged
  MaxFaults      \* bound on the times the kernel stops or a repair cannot write

ASSUME DatabaseRecoveryAssumption ==
  /\ Slots \in Nat \ {0}
  /\ Written \subseteq 0..Slots
  /\ {ArchiveDays, MaxCopies, MaxDays, MaxDamages, MaxFaults} \subseteq Nat

VARIABLES
  main,         \* the condition of the database file
  open,         \* is the connection to it open
  up,           \* does the kernel run
  slot,         \* the snapshots
  archive,      \* the archives, by day
  currentSlot,  \* snapshots since the kernel started
  lastArchive,  \* the day of the last archive since the kernel started
  loop,         \* the goroutine that copies
  repairing,    \* the flag of the watchdog
  caller,       \* the goroutines that call the watchdog
  today,        \* days so far
  copies,       \* copies so far
  full,         \* were all snapshots sound, and no repair under way, at the damage
  spoilt,       \* if so, the snapshots begun of an unsound file since
  emptied,      \* and has one of an empty file
  overlapped,   \* has the copy that is chosen been written since its choice
  damages,      \* damages so far
  faults        \* stops and failed writes so far

files == <<main, slot, archive>>
manager == <<currentSlot, lastArchive, loop>>
history == <<spoilt, full, emptied>>
ghosts == <<history, overlapped>>
bounds == <<today, copies, damages, faults>>
vars == <<files, open, up, manager, repairing, caller, ghosts, bounds>>

\* Only indexes are damaged; pages are; the file is no database.  A torn file is
\* one that is only partly replaced, a mixed one is replaced but has the log of
\* the old one beside it.  An empty file is a database to SQLite.
Damage == {"index", "pages", "notadb"}
Condition == {"ok", "empty", "torn", "mixed"} \cup Damage
Opens == {"ok", "empty", "index", "pages"}

\* The snapshots are numbered since the kernel started; 0 is any other copy.
NoFile == [condition |-> "none", number |-> 0]
File == [condition : {"none"} \cup Condition, number : Nat]
EmptyFile == [condition |-> "empty", number |-> 0]
Sound(f) == f.condition = "ok"

SlotId == 0..Slots - 1
Day == 0..MaxDays
Never == -1
Nowhere == <<"none", 0>>
Place == {Nowhere} \cup ({"slot"} \X SlotId) \cup ({"archive"} \X Day)
At(p) == IF p[1] = "slot" THEN slot[p[2]] ELSE archive[p[2]]

Waiting == [pc |-> "wait", to |-> Nowhere, file |-> NoFile]
Serving == [pc |-> "serve", error |-> "none", from |-> Nowhere, data |-> "none"]

\* The kernel starts for the first time, or finds the copies of an earlier run,
\* which has written some of the slots.  Their order is not known.
Earlier == [condition |-> "ok", number |-> 0]
Init ==
  /\ main = "ok"
  /\ open = TRUE
  /\ up = TRUE
  /\ \E n \in Written :
       /\ slot = [s \in SlotId |-> IF s < n THEN Earlier ELSE NoFile]
       /\ archive = [d \in Day |-> IF d = 0 /\ n > 0 THEN Earlier ELSE NoFile]
  /\ currentSlot = 0
  /\ lastArchive = Never
  /\ loop = Waiting
  /\ repairing = FALSE
  /\ caller = [c \in Caller |-> Serving]
  /\ today = 0
  /\ copies = 0
  /\ spoilt = 0
  /\ full = FALSE
  /\ emptied = FALSE
  /\ overlapped = FALSE
  /\ damages = 0
  /\ faults = 0

(***************************************************************************)
(* The backup loop.  A copy is written in a transaction: until that ends,  *)
(* SQLite reads the old copy, and anyone else reads neither.               *)
(***************************************************************************)
\* What does not exist is created empty when it is opened.
Opened(f) == IF f = NoFile THEN EmptyFile ELSE f

\* A copy is as sound as the file.  Of a torn one it fails, which is only known
\* when it ends, or has damaged pages.
Copied ==
  CASE main \in {"ok", "empty"} -> {main}
    [] main = "torn" -> {"torn", "pages"}
    [] OTHER -> {"pages"}

\* A file that is no database cannot be copied.  An old log that lies beside the
\* new file is read with it, and may be written to it.
BeginCopy(pc, to, number) ==
  /\ main # "notadb"
  /\ copies < MaxCopies
  /\ copies' = copies + 1
  /\ \E condition \in Copied :
       loop' = [pc |-> pc, to |-> to, file |-> [condition |-> condition, number |-> number]]
  /\ main' \in {main} \cup {x \in {"pages"} : main = "mixed"}
  /\ overlapped' = (overlapped \/ \E c \in Caller : caller[c].from = to)

PerformBackup ==
  /\ up
  /\ loop.pc = "wait"
  /\ BeginCopy("snapshot", <<"slot", currentSlot % Slots>>, currentSlot + 1)
  /\ slot' = [slot EXCEPT ![currentSlot % Slots] = Opened(@)]
  /\ spoilt' = IF full /\ main # "ok" THEN spoilt + 1 ELSE spoilt
  /\ emptied' = (emptied \/ (full /\ main = "empty"))
  /\ UNCHANGED <<archive, open, up, currentSlot, lastArchive, repairing, caller, full,
                 today, damages, faults>>

SnapshotDone ==
  /\ loop.pc = "snapshot" /\ loop.file.condition # "torn"
  /\ slot' = [slot EXCEPT ![loop.to[2]] = loop.file]
  /\ currentSlot' = currentSlot + 1
  /\ loop' = [Waiting EXCEPT !.pc = "check"]
  /\ UNCHANGED <<main, archive, open, up, lastArchive, repairing, caller, ghosts, bounds>>

\* The loop goes on to the archive all the same.
SnapshotFails ==
  /\ up
  /\ \/ /\ loop.pc = "wait" /\ main = "notadb"
        /\ slot' = [slot EXCEPT ![currentSlot % Slots] = Opened(@)]
     \/ loop.pc = "snapshot" /\ loop.file.condition = "torn" /\ UNCHANGED slot
  /\ loop' = [Waiting EXCEPT !.pc = "check"]
  /\ UNCHANGED <<main, archive, open, up, currentSlot, lastArchive, repairing, caller, ghosts,
                 bounds>>

CheckDailyArchive ==
  /\ loop.pc = "check"
  /\ today # lastArchive
  /\ BeginCopy("archive", <<"archive", today>>, 0)
  /\ archive' = [archive EXCEPT ![today] = Opened(@)]
  /\ UNCHANGED <<slot, open, up, currentSlot, lastArchive, repairing, caller, spoilt,
                 full, emptied, today, damages, faults>>

\* Archives that are older than ArchiveDays are removed.
PruneArchives(kept) == [d \in Day |-> IF d < today - ArchiveDays THEN NoFile ELSE kept[d]]

ArchiveDone ==
  /\ loop.pc = "archive" /\ loop.file.condition # "torn"
  /\ archive' = PruneArchives([archive EXCEPT ![loop.to[2]] = loop.file])
  /\ lastArchive' = loop.to[2]
  /\ loop' = Waiting
  /\ UNCHANGED <<main, slot, open, up, currentSlot, repairing, caller, ghosts, bounds>>

\* There is an archive of today, or none can be made.
ArchiveSkipped ==
  /\ \/ loop.pc = "check" /\ today = lastArchive /\ UNCHANGED archive
     \/ /\ loop.pc = "check" /\ today # lastArchive /\ main = "notadb"
        /\ archive' = [archive EXCEPT ![today] = Opened(@)]
     \/ loop.pc = "archive" /\ loop.file.condition = "torn" /\ UNCHANGED archive
  /\ loop' = Waiting
  /\ UNCHANGED <<main, slot, open, up, currentSlot, lastArchive, repairing, caller, ghosts,
                 bounds>>

(***************************************************************************)
(* The watchdog.                                                           *)
(***************************************************************************)
\* What a query on the database as it is may fail with.  That an empty one has no
\* tables is no error the watchdog knows.
QueryError ==
  IF ~open THEN {"closed"}
  ELSE CASE main \in {"ok", "empty"} -> {}
         [] main \in {"index", "pages"} -> {"corrupt"}
         [] main = "notadb" -> {"notadb"}
         [] main \in {"torn", "mixed"} -> {"corrupt", "notadb"}

QueryFails(c) ==
  /\ up
  /\ caller[c].pc = "serve"
  /\ \E error \in QueryError :
       caller' = [caller EXCEPT ![c] = [Serving EXCEPT !.pc = "check", !.error = error]]
  /\ UNCHANGED <<files, open, up, manager, repairing, ghosts, bounds>>

\* A repair is under way: the error is left to it.
CheckIgnored(c) ==
  /\ caller[c].pc = "check"
  /\ repairing
  /\ caller' = [caller EXCEPT ![c] = Serving]
  /\ UNCHANGED <<files, open, up, manager, repairing, ghosts, bounds>>

Remedy(error) ==
  CASE error = "closed" -> "reconnect"
    [] error = "corrupt" -> "reindex"
    [] error = "notadb" -> "restore"

\* Mutant: the flag is set, and not looked at.
CheckDatabaseErrorAnyway(c) ==
  /\ caller[c].pc = "check"
  /\ repairing' = TRUE
  /\ caller' = [caller EXCEPT ![c] = [Serving EXCEPT !.pc = Remedy(caller[c].error)]]
  /\ UNCHANGED <<files, open, up, manager, ghosts, bounds>>

CheckDatabaseError(c) ==
  /\ caller[c].pc = "check"
  /\ ~repairing
  /\ repairing' = TRUE
  /\ caller' = [caller EXCEPT ![c] = [Serving EXCEPT !.pc = Remedy(caller[c].error)]]
  /\ UNCHANGED <<files, open, up, manager, ghosts, bounds>>

Repaired(c) ==
  /\ repairing' = FALSE
  /\ caller' = [caller EXCEPT ![c] = Serving]
  /\ overlapped' = FALSE

\* A file that does not open leaves the connection closed; whether a torn one
\* opens depends on where it is torn.
Reinit(condition) ==
  \/ condition \in Opens \cup {"torn"} /\ open' = TRUE
  \/ condition \notin Opens /\ open' = FALSE

TryReconnect(c) ==
  /\ caller[c].pc = "reconnect"
  /\ Reinit(main)
  /\ Repaired(c)
  /\ UNCHANGED <<files, up, manager, history, bounds>>

\* Mutant: nothing is restored when the check fails after REINDEX.
RepairCorruptOnly(c) ==
  /\ caller[c].pc = "reindex"
  /\ main' = IF open /\ main = "index" THEN "ok" ELSE main
  /\ Repaired(c)
  /\ UNCHANGED <<slot, archive, open, up, manager, history, bounds>>

\* REINDEX repairs indexes, and the check after it finds anything else.
RepairCorrupt(c) ==
  /\ caller[c].pc = "reindex"
  /\ IF open /\ main \in {"ok", "empty", "index"}
       THEN main' = (IF main = "index" THEN "ok" ELSE main) /\ Repaired(c)
       ELSE /\ caller' = [caller EXCEPT ![c].pc = "restore"]
            /\ UNCHANGED <<main, repairing, overlapped>>
  /\ UNCHANGED <<slot, archive, open, up, manager, history, bounds>>

\* Mutant: the search begins with the slot that is written next.
BehindNext(s) == (currentSlot - s) % Slots

\* Snapshots first, backwards from the last one; then archives, backwards.
Behind(s) == (currentSlot - 1 - s) % Slots
\* The integrity check finds nothing wrong with an empty file.
Valid(f) == f.condition \in {"ok", "empty"}
ValidSlots == {s \in SlotId : Valid(slot[s])}
ValidDays == {d \in Day : Valid(archive[d])}

\* Mutant: the integrity of the copies is not checked.
NewestBackup ==
  LET Taken == {s \in SlotId : slot[s] # NoFile}
      Archived == {d \in Day : archive[d] # NoFile}
  IN CASE Taken # {} ->
            <<"slot", CHOOSE s \in Taken : \A r \in Taken : Behind(s) <= Behind(r)>>
       [] Taken = {} /\ Archived # {} ->
            <<"archive", CHOOSE d \in Archived : \A e \in Archived : e <= d>>
       [] OTHER -> Nowhere

NewestValidBackup ==
  CASE ValidSlots # {} ->
         <<"slot", CHOOSE s \in ValidSlots : \A r \in ValidSlots : Behind(s) <= Behind(r)>>
    [] ValidSlots = {} /\ ValidDays # {} ->
         <<"archive", CHOOSE d \in ValidDays : \A e \in ValidDays : e <= d>>
    [] OTHER -> Nowhere

\* The connection is closed before the copy is read.
Restore(c) ==
  /\ caller[c].pc = "restore"
  /\ NewestValidBackup # Nowhere
  /\ caller' = [caller EXCEPT ![c].pc = "read", ![c].from = NewestValidBackup]
  /\ open' = FALSE
  /\ overlapped' = (overlapped \/ loop.to = NewestValidBackup)
  /\ UNCHANGED <<files, up, manager, repairing, history, bounds>>

RestoreFails(c) ==
  /\ caller[c].pc = "restore"
  /\ NewestValidBackup = Nowhere
  /\ Repaired(c)
  /\ UNCHANGED <<files, open, up, manager, history, bounds>>

\* Mutant: the copy is moved to the database, and is gone.
ReadCopyMoves(c) ==
  /\ caller[c].pc = "read"
  /\ At(caller[c].from) # NoFile
  /\ caller' = [caller EXCEPT ![c].pc = "write", ![c].from = Nowhere,
                              ![c].data = At(caller[c].from).condition]
  /\ main' = "empty"
  /\ slot' = [s \in SlotId |-> IF <<"slot", s>> = caller[c].from THEN NoFile ELSE slot[s]]
  /\ UNCHANGED <<archive, open, up, manager, repairing, ghosts, bounds>>

\* The loop may be writing the copy, or have written it since it was chosen.  To
\* write it to the database is to truncate that first.
ReadCopy(c) ==
  /\ caller[c].pc = "read"
  /\ At(caller[c].from) # NoFile
  /\ \E condition \in IF loop.to = caller[c].from
                        THEN {At(caller[c].from).condition, "torn"}
                        ELSE {At(caller[c].from).condition} :
       caller' = [caller EXCEPT ![c].pc = "write", ![c].from = Nowhere,
                                ![c].data = condition]
  /\ main' = "empty"
  /\ UNCHANGED <<slot, archive, open, up, manager, repairing, ghosts, bounds>>

\* The archive has been pruned.
ReadFails(c) ==
  /\ caller[c].pc = "read"
  /\ At(caller[c].from) = NoFile
  /\ Repaired(c)
  /\ UNCHANGED <<files, open, up, manager, history, bounds>>

WritePart(c) ==
  /\ caller[c].pc = "write"
  /\ main = "empty" /\ caller[c].data # "empty"
  /\ main' = "torn"
  /\ UNCHANGED <<slot, archive, open, up, manager, repairing, caller, ghosts, bounds>>

\* The log of the old file may still be there.  An empty file is read without it.
WriteDatabase(c) ==
  /\ caller[c].pc = "write"
  /\ main' \in {caller[c].data} \cup
               {x \in {"mixed"} : caller[c].data # "empty"}
  /\ caller' = [caller EXCEPT ![c].pc = "clean"]
  /\ UNCHANGED <<slot, archive, open, up, manager, repairing, ghosts, bounds>>

\* The connection stays closed, on what has been written so far.
WriteFails(c) ==
  /\ caller[c].pc = "write"
  /\ faults < MaxFaults
  /\ faults' = faults + 1
  /\ Repaired(c)
  /\ UNCHANGED <<files, open, up, manager, history, today, copies, damages>>

\* The logs are removed, and the database is opened.
Reopen(c) ==
  /\ caller[c].pc = "clean"
  /\ main' = IF main = "mixed" THEN caller[c].data ELSE main
  /\ Reinit(main')
  /\ Repaired(c)
  /\ UNCHANGED <<slot, archive, up, manager, history, bounds>>

(***************************************************************************)
(* The environment.                                                        *)
(***************************************************************************)
DamageFile(damage) ==
  /\ damages < MaxDamages
  /\ main = "ok"
  /\ main' = damage
  /\ damages' = damages + 1
  /\ full' = /\ \A s \in SlotId : Sound(slot[s])
             /\ loop.pc = "snapshot" => Sound(loop.file)
             /\ ~repairing
  /\ spoilt' = 0
  /\ emptied' = FALSE
  /\ UNCHANGED <<slot, archive, open, up, manager, repairing, caller, overlapped, today,
                 copies, faults>>

\* It is enough that the day changes where the loop looks at it.
NextDay ==
  /\ loop.pc \in {"check", "archive"}
  /\ today < MaxDays
  /\ today' = today + 1
  /\ UNCHANGED <<files, open, up, manager, repairing, caller, ghosts, copies, damages,
                 faults>>

\* A copy that is not complete is rolled back; what was created for it stays.
Crash ==
  /\ up
  /\ faults < MaxFaults
  /\ faults' = faults + 1
  /\ up' = FALSE
  /\ open' = FALSE
  /\ loop' = Waiting
  /\ repairing' = FALSE
  /\ caller' = [c \in Caller |-> Serving]
  /\ overlapped' = FALSE
  /\ UNCHANGED <<files, currentSlot, lastArchive, history, today, copies, damages>>

\* The kernel stops again if it cannot open its file.  Migrations put tables into
\* an empty one, and nothing else; an old log is read.
Boot ==
  /\ ~up
  /\ main # "notadb"
  /\ main' = IF main = "mixed" THEN "pages" ELSE main
  /\ up' = TRUE
  /\ open' = TRUE
  /\ currentSlot' = 0
  /\ lastArchive' = Never
  /\ slot' = [s \in SlotId |-> [slot[s] EXCEPT !.number = 0]]
  /\ UNCHANGED <<archive, loop, repairing, caller, ghosts, bounds>>

(***************************************************************************)
(* The specification.                                                      *)
(***************************************************************************)
Loop ==
  \/ PerformBackup \/ SnapshotDone \/ SnapshotFails
  \/ CheckDailyArchive \/ ArchiveDone \/ ArchiveSkipped
Watchdog(c) ==
  \/ CheckIgnored(c) \/ CheckDatabaseError(c) \/ TryReconnect(c) \/ RepairCorrupt(c)
  \/ Restore(c) \/ RestoreFails(c) \/ ReadCopy(c) \/ ReadFails(c) \/ WritePart(c)
  \/ WriteDatabase(c) \/ Reopen(c)

Next ==
  \/ Loop
  \/ \E c \in Caller : QueryFails(c) \/ Watchdog(c) \/ WriteFails(c)
  \/ \E damage \in Damage : DamageFile(damage)
  \/ NextDay \/ Crash \/ Boot

Spec == Init /\ [][Next]_vars

\* Goroutines run, and queries go on while the kernel runs.
FairSpec ==
  /\ Spec
  /\ \A c \in Caller : WF_vars(QueryFails(c) \/ Watchdog(c))

(***************************************************************************)
(* Properties.                                                             *)
(***************************************************************************)
\* Everything has its type.
TypeOK ==
  /\ main \in Condition
  /\ open \in BOOLEAN
  /\ up \in BOOLEAN
  /\ slot \in [SlotId -> File]
  /\ archive \in [Day -> File]
  /\ currentSlot \in Nat
  /\ lastArchive \in Day \cup {Never}
  /\ loop \in [pc : {"wait", "snapshot", "check", "archive"}, to : Place, file : File]
  /\ repairing \in BOOLEAN
  /\ caller \in [Caller -> [pc : {"serve", "check", "reconnect", "reindex", "restore",
                                  "read", "write", "clean"},
                            error : {"none", "closed", "corrupt", "notadb"},
                            from : Place, data : {"none"} \cup Condition]]
  /\ today \in Day
  /\ copies \in 0..MaxCopies
  /\ spoilt \in 0..MaxCopies
  /\ full \in BOOLEAN
  /\ emptied \in BOOLEAN
  /\ overlapped \in BOOLEAN
  /\ damages \in 0..MaxDamages
  /\ faults \in 0..MaxFaults

Repairs == {c \in Caller : caller[c].pc \notin {"serve", "check"}}

\* However many queries fail at once, one goroutine at a time repairs the
\* database, and the flag does not outlive the repair.
OneRepairs ==
  /\ Cardinality(Repairs) <= 1
  /\ repairing <=> Repairs # {}

SoundSlots == {s \in SlotId : Sound(slot[s])}

\* Damage that is met before Slots snapshots of it are taken can be repaired: a
\* sound snapshot is left, whatever slot a restarted kernel begins with and
\* whatever copies fail, and the search finds it, unless an empty file has been
\* copied since.
Recoverable ==
  (main # "ok" /\ full /\ spoilt < Slots) =>
    /\ SoundSlots # {}
    /\ ~emptied => Sound(At(NewestValidBackup))

\* Unless the loop writes the copy that was chosen before it has been read, a
\* repair never puts a damaged or torn file in place, and with a full set of
\* snapshots behind it never an empty one.
RestoresSound ==
  ~overlapped =>
    \A c \in Caller :
      caller[c].pc \in {"write", "clean"} =>
        /\ caller[c].data \in {"ok", "empty"}
        /\ full /\ spoilt < Slots /\ ~emptied => caller[c].data = "ok"

\* Of the snapshots that the running kernel took, the newest that is valid is
\* restored.
NewestOfRun ==
  [][\A c \in Caller :
       (caller[c].pc = "restore" /\ caller'[c].pc = "read") =>
         \A s \in ValidSlots :
           slot[s].number > 0 => At(caller'[c].from).number >= slot[s].number]_vars

\* A damaged file is repaired as long as the kernel runs and a valid copy is
\* there, unless the loop writes the copy that was chosen.  What may come of a
\* repair besides is an empty database, which no error shows, or, of a write that
\* failed, a file that does not open.
Healed ==
  (up /\ main # "ok") ~> \/ main = "ok" /\ open
                         \/ main = "empty" /\ open
                         \/ main = "torn" /\ ~open /\ ~repairing
                         \/ ~up
                         \/ overlapped
                         \/ ValidSlots = {} /\ ValidDays = {}
=============================================================================
