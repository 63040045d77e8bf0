------------------------- MODULE DatabaseRecoveryProofs -------------------------
(***************************************************************************)
(* What holds of the backups and the watchdog for any number of            *)
(* goroutines, snapshots and days: the types, that one goroutine at a time *)
(* repairs the database, that a sound snapshot is left and is found, that  *)
(* a repair puts no damaged copy in place unless the backup loop writes    *)
(* that copy meanwhile, and that the newest of the run is taken.           *)
(***************************************************************************)
EXTENDS DatabaseRecovery, FiniteSetTheorems, WellFoundedInduction, TLAPS

(***************************************************************************)
(* The copy that is chosen.                                                *)
(***************************************************************************)
LEMMA ConstantTypes ==
  /\ Slots \in Nat \ {0} /\ MaxCopies \in Nat /\ MaxDays \in Nat
  /\ MaxDamages \in Nat /\ MaxFaults \in Nat
  /\ 0 \in Day /\ 0 \in SlotId
  /\ Written \subseteq Nat
BY DatabaseRecoveryAssumption DEF Day, SlotId

\* A nonempty set of naturals has a least element.
LEMMA Least ==
  ASSUME NEW P \in SUBSET Nat, P # {}
  PROVE  \E m \in P : \A n \in P : m <= n
<1> DEFINE R == OpToRel(<, Nat)
<1>1. \A x, y \in Nat : x < y => <<x, y>> \in R
  BY Zenon DEF OpToRel
<1>2. IsWellFoundedOn(R, Nat)
  BY NatLessThanWellFounded
<1> HIDE DEF R
<1>3. PICK m \in P : \A n \in P : <<n, m>> \notin R
  BY <1>2, WFMin
<1>4. ASSUME NEW n \in P PROVE m <= n
  <2>1. n \in Nat /\ m \in Nat
    OBVIOUS
  <2>2. ~(n < m)
    BY <1>1, <1>3, <2>1
  <2> QED BY <2>1, <2>2
<1> QED BY <1>4

LEMMA BehindType ==
  ASSUME currentSlot \in Nat, NEW s \in SlotId
  PROVE  Behind(s) \in Nat
<1>1. currentSlot - 1 - s \in Int /\ Slots \in Nat \ {0}
  BY ConstantTypes DEF SlotId
<1> QED BY <1>1 DEF Behind

LEMMA SlotType ==
  ASSUME currentSlot \in Nat
  PROVE  currentSlot % Slots \in SlotId
<1>1. Slots \in Nat \ {0}
  BY ConstantTypes
<1>2. currentSlot % Slots \in 0..Slots - 1
  BY <1>1
<1> QED BY <1>2 DEF SlotId

\* The choice is a valid copy, or there is none.
LEMMA ChoiceValid ==
  ASSUME currentSlot \in Nat
  PROVE  \/ NewestValidBackup = Nowhere
         \/ \E s \in SlotId : NewestValidBackup = <<"slot", s>> /\ Valid(slot[s])
         \/ \E d \in Day : NewestValidBackup = <<"archive", d>> /\ Valid(archive[d])
<1>1. CASE ValidSlots # {}
  <2> DEFINE P == {Behind(s) : s \in ValidSlots}
             chosen == CHOOSE s \in ValidSlots : \A r \in ValidSlots : Behind(s) <= Behind(r)
  <2>1. P \in SUBSET Nat /\ P # {}
    BY <1>1, BehindType DEF ValidSlots
  <2>2. \E m \in P : \A n \in P : m <= n
    BY <2>1, Least
  <2>3. \E s \in ValidSlots : \A r \in ValidSlots : Behind(s) <= Behind(r)
    BY <2>2
  <2>4. chosen \in ValidSlots
    BY <2>3
  <2>5. NewestValidBackup = <<"slot", chosen>>
    BY <1>1 DEF NewestValidBackup
  <2> QED BY <2>4, <2>5 DEF ValidSlots
<1>2. CASE ValidSlots = {} /\ ValidDays # {}
  <2> DEFINE P == {MaxDays - d : d \in ValidDays}
             chosen == CHOOSE d \in ValidDays : \A e \in ValidDays : e <= d
  <2>0. ValidDays \subseteq Day /\ MaxDays \in Nat /\ Day = 0..MaxDays
    BY ConstantTypes DEF ValidDays, Day
  <2>1. P \in SUBSET Nat /\ P # {}
    <3>1. \A d \in ValidDays : MaxDays - d \in Nat
      BY <2>0
    <3> QED BY <1>2, <3>1
  <2>2. \E m \in P : \A n \in P : m <= n
    BY <2>1, Least
  <2>3. PICK d \in ValidDays : \A e \in ValidDays : MaxDays - d <= MaxDays - e
    BY <2>2
  <2>4. \A e \in ValidDays : e <= d
    BY <2>0, <2>3
  <2>5. chosen \in ValidDays
    BY <2>4
  <2>6. NewestValidBackup = <<"archive", chosen>>
    BY <1>2 DEF NewestValidBackup
  <2> QED BY <2>5, <2>6 DEF ValidDays
<1>3. CASE ValidSlots = {} /\ ValidDays = {}
  BY <1>3 DEF NewestValidBackup
<1> QED BY <1>1, <1>2, <1>3

\* The search stops at the valid snapshot that is the least far back.
LEMMA ChoiceFirst ==
  ASSUME currentSlot \in Nat, NEW t \in ValidSlots
  PROVE  \E s \in ValidSlots : /\ NewestValidBackup = <<"slot", s>>
                               /\ Behind(s) <= Behind(t)
<1> DEFINE P == {Behind(s) : s \in ValidSlots}
           chosen == CHOOSE s \in ValidSlots : \A r \in ValidSlots : Behind(s) <= Behind(r)
<1>1. P \in SUBSET Nat /\ P # {}
  BY BehindType DEF ValidSlots
<1>2. \E m \in P : \A n \in P : m <= n
  BY <1>1, Least
<1>3. \E s \in ValidSlots : \A r \in ValidSlots : Behind(s) <= Behind(r)
  BY <1>2
<1>4. chosen \in ValidSlots /\ \A r \in ValidSlots : Behind(chosen) <= Behind(r)
  BY <1>3
<1>5. NewestValidBackup = <<"slot", chosen>>
  BY DEF NewestValidBackup
<1> QED BY <1>4, <1>5

(***************************************************************************)
(* Type correctness.  What the loop writes has a place of its kind, an     *)
(* error that is checked is one, and what is written to the database is a  *)
(* copy that was there.                                                    *)
(***************************************************************************)
Copying == [pc : {"wait", "snapshot", "check", "archive"}, to : Place, file : File]
Calling == [pc : {"serve", "check", "reconnect", "reindex", "restore", "read", "write",
                   "clean"},
            error : {"none", "closed", "corrupt", "notadb"}, from : Place,
            data : {"none"} \cup Condition]
Copy == [condition : Condition, number : Nat]

Kept == /\ \A s \in SlotId : slot[s] = NoFile \/ slot[s] \in Copy
        /\ \A d \in Day : archive[d] = NoFile \/ archive[d] \in Copy
Aimed == /\ loop.pc = "snapshot" => loop.to \in {"slot"} \X SlotId /\ loop.file \in Copy
         /\ loop.pc = "archive" => loop.to \in {"archive"} \X Day /\ loop.file \in Copy
Handled ==
  \A c \in Caller : /\ caller[c].pc = "check" => caller[c].error # "none"
                    /\ caller[c].pc \in {"write", "clean"} => caller[c].data \in Condition

TInv == TypeOK /\ spoilt <= copies /\ Kept /\ Aimed /\ Handled

LEMMA FileTypes ==
  /\ NoFile \in File /\ Copy \subseteq File /\ NoFile \notin Copy /\ EmptyFile \in Copy
  /\ Nowhere \in Place
  /\ \A s \in SlotId : <<"slot", s>> \in Place
  /\ \A d \in Day : <<"archive", d>> \in Place
  /\ Waiting \in Copying /\ Serving \in Calling
BY DEF NoFile, EmptyFile, File, Copy, Condition, Damage, Nowhere, Place, Waiting, Copying, Serving,
       Calling

LEMMA TypeUnfold ==
  ASSUME TInv
  PROVE  /\ loop \in Copying /\ caller \in [Caller -> Calling]
         /\ slot \in [SlotId -> File] /\ archive \in [Day -> File]
         /\ currentSlot \in Nat /\ copies \in 0..MaxCopies /\ today \in Day
         /\ main \in Condition
BY DEF TInv, TypeOK, Copying, Calling

LEMMA TypeInit == Init => TInv
<1> SUFFICES ASSUME Init PROVE TInv
  OBVIOUS
<1>1. loop = Waiting /\ loop \in Copying /\ caller \in [Caller -> Calling]
  BY FileTypes DEF Init
<1>2. slot \in [SlotId -> File] /\ archive \in [Day -> File] /\ Kept
  <2>1. Earlier \in Copy
    BY DEF Earlier, Copy, Condition
  <2>2. PICK n \in Written :
          /\ slot = [s \in SlotId |-> IF s < n THEN Earlier ELSE NoFile]
          /\ archive = [d \in Day |-> IF d = 0 /\ n > 0 THEN Earlier ELSE NoFile]
    BY DEF Init
  <2> QED BY <2>1, <2>2, FileTypes DEF Kept
<1>3. Aimed /\ Handled
  BY <1>1 DEF Init, Aimed, Handled, Waiting, Serving
<1>4. 0 \in 0..MaxCopies /\ 0 \in 0..MaxDamages /\ 0 \in 0..MaxFaults /\ 0 \in Day
  BY ConstantTypes
<1>5. main \in Condition
  BY DEF Init, Condition
<1>6. TypeOK
  BY <1>1, <1>2, <1>4, <1>5 DEF Init, TypeOK, Copying, Calling
<1> QED BY <1>2, <1>3, <1>6 DEF Init, TInv

\* The state of the goroutine that copies, and its bounds, as BeginCopy leaves it.
LEMMA BeginCopyType ==
  ASSUME TInv, NEW pc \in {"snapshot", "archive"}, NEW to \in Place, NEW number \in Nat,
         BeginCopy(pc, to, number)
  PROVE  /\ loop' \in Copying /\ loop'.pc = pc /\ loop'.to = to /\ loop'.file \in Copy
         /\ loop'.file.number = number /\ loop'.file.condition \in Copied
         /\ copies' \in 0..MaxCopies /\ copies' = copies + 1 /\ overlapped' \in BOOLEAN
         /\ main' \in Condition
<1>1. copies + 1 \in 0..MaxCopies /\ main \in Condition
  BY TypeUnfold, ConstantTypes DEF BeginCopy
<1>2. Copied \subseteq Condition
  BY <1>1 DEF Copied, Condition, Damage
<1>3. PICK condition \in Copied :
        loop' = [pc |-> pc, to |-> to,
                 file |-> [condition |-> condition, number |-> number]]
  BY DEF BeginCopy
<1>4. [condition |-> condition, number |-> number] \in Copy
  BY <1>2 DEF Copy
<1>5. overlapped' \in BOOLEAN
  BY DEF BeginCopy, TInv, TypeOK
<1>6. main' \in Condition
  BY <1>1 DEF BeginCopy, Condition, Damage
<1> QED BY <1>1, <1>3, <1>4, <1>5, <1>6, FileTypes DEF BeginCopy, Copying

\* Opening a copy leaves one.
LEMMA OpenedType ==
  ASSUME NEW f, f = NoFile \/ f \in Copy
  PROVE  Opened(f) \in Copy /\ Opened(f) \in File /\ Opened(f).condition # "none"
BY FileTypes DEF Opened, Copy, Condition, Damage

\* A goroutine goes on with its error, and with no copy in hand.
LEMMA CallerType ==
  ASSUME TInv, NEW c \in Caller, NEW w \in Calling, caller' = [caller EXCEPT ![c] = w],
         w.pc = "check" => w.error # "none", w.pc \in {"write", "clean"} => w.data \in Condition
  PROVE  caller' \in [Caller -> Calling] /\ Handled'
<1>1. caller \in [Caller -> Calling] /\ Handled
  BY TypeUnfold DEF TInv
<1>2. \A d \in Caller : caller'[d] = IF d = c THEN w ELSE caller[d]
  BY <1>1
<1>3. ASSUME NEW d \in Caller
      PROVE  /\ caller'[d].pc = "check" => caller'[d].error # "none"
             /\ caller'[d].pc \in {"write", "clean"} => caller'[d].data \in Condition
  <2>1. CASE d = c
    BY <1>2, <2>1
  <2>2. CASE d # c
    BY <1>1, <1>2, <2>2 DEF Handled
  <2> QED BY <2>1, <2>2
<1>4. caller' \in [Caller -> Calling]
  BY <1>1
<1> QED BY <1>3, <1>4 DEF Handled

\* A goroutine takes up the repair.
LEMMA RemedyType ==
  ASSUME TInv, NEW c \in Caller, CheckDatabaseError(c)
  PROVE  \E w \in Calling : /\ w.pc \in {"reconnect", "reindex", "restore"}
                            /\ caller' = [caller EXCEPT ![c] = w]
<1> DEFINE w == [Serving EXCEPT !.pc = Remedy(caller[c].error)]
<1>1. caller[c] \in Calling /\ caller[c].error # "none"
  BY TypeUnfold DEF CheckDatabaseError, TInv, Handled
<1>2. Remedy(caller[c].error) \in {"reconnect", "reindex", "restore"}
  BY <1>1 DEF Remedy, Calling
<1>3. w \in Calling /\ w.pc = Remedy(caller[c].error)
  BY <1>2, FileTypes DEF Serving, Calling
<1>4. caller' = [caller EXCEPT ![c] = w]
  BY DEF CheckDatabaseError
<1> QED BY <1>2, <1>3, <1>4

LEMMA RepairedType ==
  ASSUME TInv, NEW c \in Caller, Repaired(c)
  PROVE  /\ caller' \in [Caller -> Calling] /\ Handled'
         /\ repairing' = FALSE /\ overlapped' = FALSE
BY CallerType, FileTypes DEF Repaired, Serving

\* The loop, as long as it copies nothing.
LEMMA IdleType ==
  ASSUME \/ loop' = Waiting \/ loop' = [Waiting EXCEPT !.pc = "check"]
  PROVE  loop' \in Copying /\ Aimed'
<1>1. loop' \in Copying /\ loop'.pc \in {"wait", "check"}
  BY FileTypes DEF Waiting, Copying
<1> QED BY <1>1 DEF Aimed

LEMMA TypeStep == TInv /\ [Next]_vars => TInv'
<1> SUFFICES ASSUME TInv, [Next]_vars PROVE TInv'
  OBVIOUS
<1> USE DEF files, manager, history, ghosts, bounds
<1>t. TypeOK /\ spoilt <= copies /\ Kept /\ Aimed /\ Handled
  BY DEF TInv
<1>f. /\ loop \in Copying /\ caller \in [Caller -> Calling]
      /\ slot \in [SlotId -> File] /\ archive \in [Day -> File]
      /\ currentSlot \in Nat /\ copies \in 0..MaxCopies /\ today \in Day
      /\ main \in Condition
  BY TypeUnfold
<1>l. \* what the actions of the loop leave alone
      ASSUME loop' \in Copying, Aimed', UNCHANGED <<open, up, repairing, caller>>,
             main' \in Condition, emptied' \in BOOLEAN,
             slot' \in [SlotId -> File], archive' \in [Day -> File], Kept',
             currentSlot' \in Nat, lastArchive' \in Day \cup {Never},
             copies' \in 0..MaxCopies, spoilt' \in 0..MaxCopies, spoilt' <= copies',
             overlapped' \in BOOLEAN,
             UNCHANGED <<full, today, damages, faults>>
      PROVE  TInv'
  BY <1>t, <1>l DEF TInv, TypeOK, Handled, Copying
<1>o. \* what does not exist is created
      \A s \in SlotId : Opened(slot[s]) \in Copy /\ Opened(slot[s]) \in File
  BY <1>t, OpenedType DEF Kept
<1>d. \A d \in Day : Opened(archive[d]) \in Copy /\ Opened(archive[d]) \in File
  BY <1>t, OpenedType DEF Kept
<1>1. CASE PerformBackup
  <2> DEFINE to == <<"slot", currentSlot % Slots>>
  <2>1. to \in {"slot"} \X SlotId /\ to \in Place /\ currentSlot + 1 \in Nat
    BY <1>f, SlotType, FileTypes
  <2>2. BeginCopy("snapshot", to, currentSlot + 1)
    BY <1>1 DEF PerformBackup
  <2> HIDE DEF to
  <2>3. /\ loop' \in Copying /\ loop'.pc = "snapshot" /\ loop'.to = to /\ loop'.file \in Copy
        /\ copies' \in 0..MaxCopies /\ copies' = copies + 1 /\ overlapped' \in BOOLEAN
        /\ main' \in Condition
    BY <2>1, <2>2, BeginCopyType
  <2>4. Aimed'
    BY <2>1, <2>3 DEF Aimed
  <2>5. spoilt' \in 0..MaxCopies /\ spoilt' <= copies'
    BY <1>t, <1>1, <2>3, ConstantTypes DEF PerformBackup, TypeOK
  <2>6. slot' \in [SlotId -> File] /\ archive' \in [Day -> File] /\ Kept'
    BY <1>t, <1>f, <1>1, <1>o DEF PerformBackup, Kept
  <2> QED BY <1>t, <1>l, <1>1, <2>3, <2>4, <2>5, <2>6 DEF PerformBackup, TypeOK
<1>2. CASE SnapshotDone
  <2>1. loop.to \in {"slot"} \X SlotId /\ loop.file \in Copy
    BY <1>t, <1>2 DEF SnapshotDone, Aimed
  <2>2. loop.to[2] \in SlotId
    BY <2>1
  <2>3. slot' \in [SlotId -> File] /\ Kept'
    BY <1>t, <1>f, <1>2, <2>1, <2>2, FileTypes DEF SnapshotDone, Kept
  <2>4. loop' \in Copying /\ Aimed'
    BY <1>2, IdleType DEF SnapshotDone
  <2> QED BY <1>t, <1>l, <1>2, <2>3, <2>4 DEF SnapshotDone, TypeOK
<1>3. CASE SnapshotFails
  <2>1. loop' \in Copying /\ Aimed'
    BY <1>3, IdleType DEF SnapshotFails
  <2>2. slot' \in [SlotId -> File] /\ archive' \in [Day -> File] /\ Kept'
    BY <1>t, <1>f, <1>3, <1>o DEF SnapshotFails, Kept
  <2> QED BY <1>t, <1>l, <1>3, <2>1, <2>2 DEF SnapshotFails, TypeOK
<1>4. CASE CheckDailyArchive
  <2> DEFINE to == <<"archive", today>>
  <2>1. to \in {"archive"} \X Day /\ to \in Place
    BY <1>f, FileTypes
  <2>2. BeginCopy("archive", to, 0)
    BY <1>4 DEF CheckDailyArchive
  <2> HIDE DEF to
  <2>3. /\ loop' \in Copying /\ loop'.pc = "archive" /\ loop'.to = to /\ loop'.file \in Copy
        /\ copies' \in 0..MaxCopies /\ copies' = copies + 1 /\ overlapped' \in BOOLEAN
        /\ main' \in Condition
    BY <2>1, <2>2, BeginCopyType
  <2>4. Aimed'
    BY <2>1, <2>3 DEF Aimed
  <2>5. spoilt' \in 0..MaxCopies /\ spoilt' <= copies'
    BY <1>t, <1>4, <2>3, ConstantTypes DEF CheckDailyArchive, TypeOK
  <2>6. slot' \in [SlotId -> File] /\ archive' \in [Day -> File] /\ Kept'
    BY <1>t, <1>f, <1>4, <1>d DEF CheckDailyArchive, Kept
  <2> QED BY <1>t, <1>l, <1>4, <2>3, <2>4, <2>5, <2>6 DEF CheckDailyArchive, TypeOK
<1>5. CASE ArchiveDone
  <2>1. loop.to \in {"archive"} \X Day /\ loop.file \in Copy
    BY <1>t, <1>5 DEF ArchiveDone, Aimed
  <2>2. loop.to[2] \in Day
    BY <2>1
  <2>3. archive' \in [Day -> File] /\ Kept'
    BY <1>t, <1>f, <1>5, <2>1, <2>2, FileTypes DEF ArchiveDone, PruneArchives, Kept
  <2>4. loop' \in Copying /\ Aimed'
    BY <1>5, IdleType DEF ArchiveDone
  <2> QED BY <1>t, <1>l, <1>5, <2>2, <2>3, <2>4 DEF ArchiveDone, TypeOK
<1>6. CASE ArchiveSkipped
  <2>1. loop' \in Copying /\ Aimed'
    BY <1>6, IdleType DEF ArchiveSkipped
  <2>2. slot' \in [SlotId -> File] /\ archive' \in [Day -> File] /\ Kept'
    BY <1>t, <1>f, <1>6, <1>d DEF ArchiveSkipped, Kept
  <2> QED BY <1>t, <1>l, <1>6, <2>1, <2>2 DEF ArchiveSkipped, TypeOK
<1>w. \* what the actions of the watchdog leave alone
      ASSUME caller' \in [Caller -> Calling], Handled', UNCHANGED <<slot, archive, up, manager>>,
             main' \in Condition, open' \in BOOLEAN, repairing' \in BOOLEAN,
             overlapped' \in BOOLEAN,
             UNCHANGED <<history, today, copies, damages>>, faults' \in 0..MaxFaults
      PROVE  TInv'
  BY <1>t, <1>w DEF TInv, TypeOK, Kept, Aimed, Calling
<1>7. ASSUME NEW c \in Caller, QueryFails(c) PROVE TInv'
  <2>1. PICK error \in QueryError :
          caller' = [caller EXCEPT ![c] = [Serving EXCEPT !.pc = "check", !.error = error]]
    BY <1>7 DEF QueryFails
  <2>2. error \in {"closed", "corrupt", "notadb"}
    BY <1>f, <2>1 DEF QueryError, Condition, Damage
  <2>3. [Serving EXCEPT !.pc = "check", !.error = error] \in Calling
    BY <2>2, FileTypes DEF Serving, Calling
  <2> DEFINE w == [Serving EXCEPT !.pc = "check", !.error = error]
  <2>4. w.pc = "check" /\ w.error = error
    BY DEF Serving
  <2>5. caller' = [caller EXCEPT ![c] = w] /\ w \in Calling
    BY <2>1, <2>3
  <2> HIDE DEF w
  <2>6. caller' \in [Caller -> Calling] /\ Handled'
    BY <2>2, <2>4, <2>5, CallerType
  <2> QED BY <1>t, <1>w, <1>7, <2>6 DEF QueryFails, TypeOK
<1>8. ASSUME NEW c \in Caller, CheckIgnored(c) PROVE TInv'
  <2>1. caller' \in [Caller -> Calling] /\ Handled'
    BY <1>8, FileTypes, CallerType DEF CheckIgnored, Serving
  <2> QED BY <1>t, <1>w, <1>8, <2>1 DEF CheckIgnored, TypeOK
<1>p. ASSUME NEW c \in Caller, NEW pc \in {"reconnect", "reindex", "restore"},
             caller' = [caller EXCEPT ![c].pc = pc]
      PROVE  caller' \in [Caller -> Calling] /\ Handled'
  <2>1. [caller[c] EXCEPT !.pc = pc] \in Calling
    BY <1>f DEF Calling
  <2>2. caller' = [caller EXCEPT ![c] = [caller[c] EXCEPT !.pc = pc]]
    BY <1>f, <1>p
  <2> QED BY <2>1, <2>2, <1>f, CallerType DEF Calling
<1>9. ASSUME NEW c \in Caller, CheckDatabaseError(c) PROVE TInv'
  <2>1. PICK w \in Calling : /\ w.pc \in {"reconnect", "reindex", "restore"}
                             /\ caller' = [caller EXCEPT ![c] = w]
    BY <1>9, RemedyType
  <2>2. caller' \in [Caller -> Calling] /\ Handled'
    BY <2>1, CallerType
  <2> QED BY <1>t, <1>w, <1>9, <2>2 DEF CheckDatabaseError, TypeOK
<1>10. ASSUME NEW c \in Caller, TryReconnect(c) PROVE TInv'
  BY <1>t, <1>w, <1>10, RepairedType DEF TryReconnect, Reinit, TypeOK
<1>11. ASSUME NEW c \in Caller, RepairCorrupt(c) PROVE TInv'
  <2>1. caller' \in [Caller -> Calling] /\ Handled'
    BY <1>11, <1>p, RepairedType DEF RepairCorrupt
  <2>2. main' \in Condition /\ repairing' \in BOOLEAN /\ overlapped' \in BOOLEAN
    BY <1>t, <1>11 DEF RepairCorrupt, Repaired, Condition, TypeOK
  <2> QED BY <1>t, <1>w, <1>11, <2>1, <2>2 DEF RepairCorrupt, TypeOK
<1>12. ASSUME NEW c \in Caller, Restore(c) PROVE TInv'
  <2>1. NewestValidBackup \in Place
    BY <1>f, ChoiceValid, FileTypes
  <2>2. PICK from \in Place :
          caller' = [caller EXCEPT ![c].pc = "read", ![c].from = from]
    BY <1>12, <2>1 DEF Restore
  <2>3. /\ [caller[c] EXCEPT !.pc = "read", !.from = from] \in Calling
        /\ [caller[c] EXCEPT !.pc = "read", !.from = from].pc = "read"
    BY <1>f DEF Calling
  <2>4. caller' = [caller EXCEPT ![c] = [caller[c] EXCEPT !.pc = "read", !.from = from]]
    BY <1>f, <2>2
  <2>5. caller' \in [Caller -> Calling] /\ Handled'
    BY <2>3, <2>4, CallerType
  <2> QED BY <1>t, <1>w, <1>12, <2>5 DEF Restore, TypeOK
<1>13. ASSUME NEW c \in Caller, RestoreFails(c) PROVE TInv'
  BY <1>t, <1>w, <1>13, RepairedType DEF RestoreFails, TypeOK
<1>14. ASSUME NEW c \in Caller, ReadCopy(c) PROVE TInv'
  <2>1. At(caller[c].from).condition \in Condition
    <3>1. caller[c].from \in Place
      BY <1>f DEF Calling
    <3>2. At(caller[c].from) = NoFile \/ At(caller[c].from) \in Copy
      BY <1>t, <3>1, ConstantTypes DEF Kept, At, Place, Nowhere
    <3> QED BY <1>14, <3>2 DEF ReadCopy, Copy
  <2>2. PICK data \in Condition :
          caller' = [caller EXCEPT ![c].pc = "write", ![c].from = Nowhere, ![c].data = data]
    BY <1>14, <2>1 DEF ReadCopy, Condition
  <2> DEFINE w == [caller[c] EXCEPT !.pc = "write", !.from = Nowhere, !.data = data]
  <2>3. w \in Calling /\ w.pc = "write" /\ w.data = data
    BY <1>f, FileTypes DEF Calling
  <2>4. caller' = [caller EXCEPT ![c] = w]
    BY <1>f, <2>2
  <2> HIDE DEF w
  <2>5. caller' \in [Caller -> Calling] /\ Handled'
    BY <2>3, <2>4, CallerType
  <2>6. main' \in Condition
    BY <1>14 DEF ReadCopy, Condition
  <2> QED BY <1>t, <1>w, <1>14, <2>5, <2>6 DEF ReadCopy, TypeOK
<1>15. ASSUME NEW c \in Caller, ReadFails(c) PROVE TInv'
  BY <1>t, <1>w, <1>15, RepairedType DEF ReadFails, TypeOK
<1>16. ASSUME NEW c \in Caller, WritePart(c) PROVE TInv'
  <2>1. main' \in Condition
    BY <1>16 DEF WritePart, Condition
  <2> QED BY <1>t, <1>f, <1>w, <1>16, <2>1 DEF WritePart, TypeOK, Handled
<1>22. ASSUME NEW c \in Caller, WriteDatabase(c) PROVE TInv'
  <2> DEFINE w == [caller[c] EXCEPT !.pc = "clean"]
  <2>1. caller[c].data \in Condition
    BY <1>t, <1>22 DEF WriteDatabase, Handled
  <2>2. main' \in Condition
    BY <2>1, <1>22 DEF WriteDatabase, Condition
  <2>3. w \in Calling /\ w.pc = "clean" /\ w.data = caller[c].data
    BY <1>f DEF Calling
  <2>4. caller' = [caller EXCEPT ![c] = w]
    BY <1>f, <1>22 DEF WriteDatabase
  <2> HIDE DEF w
  <2>5. caller' \in [Caller -> Calling] /\ Handled'
    BY <2>1, <2>3, <2>4, CallerType
  <2> QED BY <1>t, <1>w, <1>22, <2>2, <2>5 DEF WriteDatabase, TypeOK
<1>23. ASSUME NEW c \in Caller, WriteFails(c) PROVE TInv'
  <2>1. faults' \in 0..MaxFaults
    BY <1>t, <1>23, ConstantTypes DEF WriteFails, TypeOK
  <2> QED BY <1>t, <1>w, <1>23, <2>1, RepairedType DEF WriteFails, TypeOK
<1>24. ASSUME NEW c \in Caller, Reopen(c) PROVE TInv'
  <2>1. main' \in Condition
    BY <1>t, <1>f, <1>24 DEF Reopen, Handled
  <2> QED BY <1>t, <1>w, <1>24, <2>1, RepairedType DEF Reopen, Reinit, TypeOK
<1>17. ASSUME NEW damage \in Damage, DamageFile(damage) PROVE TInv'
  <2>1. main' \in Condition /\ damages' \in 0..MaxDamages
    BY <1>t, <1>17, ConstantTypes DEF DamageFile, Condition, TypeOK
  <2>2. full' \in BOOLEAN /\ emptied' \in BOOLEAN
    BY <1>17 DEF DamageFile
  <2>3. spoilt' = 0 /\ 0 \in 0..MaxCopies /\ 0 <= copies
    BY <1>17, <1>f, ConstantTypes DEF DamageFile
  <2> QED BY <1>t, <1>17, <2>1, <2>2, <2>3
          DEF DamageFile, TInv, TypeOK, Kept, Aimed, Handled
<1>18. CASE NextDay
  <2>1. today' \in Day
    BY <1>f, <1>18, ConstantTypes DEF NextDay, Day
  <2> QED BY <1>t, <1>18, <2>1 DEF NextDay, TInv, TypeOK, Kept, Aimed, Handled
<1>19. CASE Crash
  <2>1. loop' \in Copying /\ Aimed'
    BY <1>19, IdleType DEF Crash
  <2>2. caller' \in [Caller -> Calling] /\ Handled'
    BY <1>19, FileTypes DEF Crash, Handled, Serving
  <2>3. faults' \in 0..MaxFaults
    BY <1>t, <1>19, ConstantTypes DEF Crash, TypeOK
  <2> QED BY <1>t, <1>19, <2>1, <2>2, <2>3 DEF Crash, TInv, TypeOK, Kept, Copying, Calling
<1>20. CASE Boot
  <2>1. \A s \in SlotId : [slot[s] EXCEPT !.number = 0] \in File
    BY <1>f DEF File
  <2>2. slot' \in [SlotId -> File]
    BY <1>20, <2>1 DEF Boot
  <2>3. ASSUME NEW s \in SlotId PROVE slot'[s] = NoFile \/ slot'[s] \in Copy
    BY <1>t, <1>20 DEF Boot, Kept, NoFile, Copy
  <2>4. main' \in Condition
    BY <1>f, <1>20 DEF Boot, Condition, Damage
  <2> QED BY <1>t, <1>f, <1>20, <2>2, <2>3, <2>4
          DEF Boot, TInv, TypeOK, Kept, Aimed, Handled
<1>21. CASE UNCHANGED vars
  BY <1>t, <1>21 DEF vars, TInv, TypeOK, Kept, Aimed, Handled
<1> QED BY <1>1, <1>2, <1>3, <1>4, <1>5, <1>6, <1>7, <1>8, <1>9, <1>10, <1>11, <1>12, <1>13,
           <1>14, <1>15, <1>16, <1>17, <1>18, <1>19, <1>20, <1>21, <1>22, <1>23, <1>24
        DEF Next, Loop, Watchdog

\* Every variable keeps its type: places exist, copies that are restored have
\* been taken, and the counts stay within their bounds (backup.go, watchdog.go).
THEOREM TypeCorrect == Spec => []TypeOK
<1>1. TInv => TypeOK
  BY DEF TInv
<1> QED BY <1>1, TypeInit, TypeStep, PTL DEF Spec

(***************************************************************************)
(* One goroutine at a time repairs.  Where the flag is set there is one    *)
(* that repairs, and no two are: a second one finds the flag, and the one  *)
(* that resets it is the one that set it.                                  *)
(***************************************************************************)
Alone ==
  /\ \A c, d \in Caller : c \in Repairs /\ d \in Repairs => c = d
  /\ repairing <=> \E c \in Caller : c \in Repairs

RInv == TInv /\ Alone

\* A goroutine starts or ends its repair, or goes on with it.
LEMMA AloneStep ==
  ASSUME TInv, Alone, NEW c \in Caller, NEW w \in Calling, caller' = [caller EXCEPT ![c] = w],
         c \in Repairs \/ ~repairing,
         repairing' <=> w.pc \notin {"serve", "check"}
  PROVE  Alone'
<1>1. caller \in [Caller -> Calling]
  BY TypeUnfold
<1>2. \A d \in Caller : caller'[d] = IF d = c THEN w ELSE caller[d]
  BY <1>1
<1>3. \A d \in Caller : d # c => d \notin Repairs
  BY DEF Alone
<1>4. \A d \in Caller : d \in Repairs' <=> d = c /\ w.pc \notin {"serve", "check"}
  BY <1>2, <1>3 DEF Repairs
<1> QED BY <1>4 DEF Alone

LEMMA AloneRepaired ==
  ASSUME TInv, Alone, NEW c \in Caller, c \in Repairs, Repaired(c)
  PROVE  Alone'
BY AloneStep, FileTypes DEF Repaired, Serving

\* A goroutine that repairs goes on with another step of the repair.
LEMMA AloneGoesOn ==
  ASSUME TInv, Alone, NEW c \in Caller, c \in Repairs, NEW w \in Calling,
         caller' = [caller EXCEPT ![c] = w], w.pc \notin {"serve", "check"},
         repairing' = repairing
  PROVE  Alone'
<1>1. repairing
  BY DEF Alone
<1> QED BY <1>1, AloneStep

\* One that meets an error, or ignores it, does not repair.
LEMMA AloneOther ==
  ASSUME TInv, Alone, NEW c \in Caller, c \notin Repairs, NEW w \in Calling,
         caller' = [caller EXCEPT ![c] = w], w.pc \in {"serve", "check"},
         repairing' = repairing
  PROVE  Alone'
<1>1. caller \in [Caller -> Calling]
  BY TypeUnfold
<1>2. \A d \in Caller : caller'[d] = IF d = c THEN w ELSE caller[d]
  BY <1>1
<1>3. \A d \in Caller : d \in Repairs' <=> d \in Repairs
  BY <1>2 DEF Repairs
<1> QED BY <1>3 DEF Alone

LEMMA AloneUnchanged ==
  ASSUME Alone, UNCHANGED <<repairing, caller>>
  PROVE  Alone'
BY DEF Alone, Repairs

LEMMA AloneStarts == Init => Alone
BY DEF Init, Alone, Repairs, Serving

LEMMA RepairStep == RInv /\ [Next]_vars => RInv'
<1> SUFFICES ASSUME TInv, Alone, TInv', [Next]_vars PROVE Alone'
  BY TypeStep DEF RInv
<1>f. caller \in [Caller -> Calling] /\ caller' \in [Caller -> Calling]
  BY DEF TInv, TypeOK, Calling
<1>1. CASE Loop
  BY <1>1, AloneUnchanged
     DEF Loop, PerformBackup, SnapshotDone, SnapshotFails, CheckDailyArchive, ArchiveDone,
         ArchiveSkipped
<1>2. ASSUME NEW c \in Caller, QueryFails(c) PROVE Alone'
  <2>1. PICK error \in QueryError :
          caller' = [caller EXCEPT ![c] = [Serving EXCEPT !.pc = "check", !.error = error]]
    BY <1>2 DEF QueryFails
  <2>2. c \notin Repairs /\ repairing' = repairing
    BY <1>2 DEF QueryFails, Repairs
  <2> DEFINE w == [Serving EXCEPT !.pc = "check", !.error = error]
  <2>3. caller'[c] = w /\ w.pc = "check"
    BY <1>f, <2>1 DEF Serving
  <2>4. w \in Calling
    BY <1>f, <2>3
  <2> QED BY <2>1, <2>2, <2>3, <2>4, AloneOther
<1>3. ASSUME NEW c \in Caller, CheckIgnored(c) PROVE Alone'
  <2>1. c \notin Repairs
    BY <1>3 DEF CheckIgnored, Repairs
  <2> QED BY <1>3, <2>1, FileTypes, AloneOther DEF CheckIgnored, Serving
<1>4. ASSUME NEW c \in Caller, CheckDatabaseError(c) PROVE Alone'
  <2>1. PICK w \in Calling : /\ w.pc \in {"reconnect", "reindex", "restore"}
                             /\ caller' = [caller EXCEPT ![c] = w]
    BY <1>4, RemedyType
  <2> QED BY <1>4, <2>1, AloneStep DEF CheckDatabaseError
<1>5. ASSUME NEW c \in Caller, TryReconnect(c) PROVE Alone'
  BY <1>5, AloneRepaired DEF TryReconnect, Repairs
<1>6. ASSUME NEW c \in Caller, RepairCorrupt(c) PROVE Alone'
  <2>1. c \in Repairs
    BY <1>6 DEF RepairCorrupt, Repairs
  <2>2. CASE Repaired(c)
    BY <2>1, <2>2, AloneRepaired
  <2>3. CASE caller' = [caller EXCEPT ![c].pc = "restore"] /\ repairing' = repairing
    <3> DEFINE w == [caller[c] EXCEPT !.pc = "restore"]
    <3>1. caller' = [caller EXCEPT ![c] = w] /\ w \in Calling /\ w.pc = "restore"
      BY <1>f, <2>3 DEF Calling
    <3> HIDE DEF w
    <3> QED BY <2>1, <2>3, <3>1, AloneGoesOn
  <2> QED BY <1>6, <2>2, <2>3 DEF RepairCorrupt
<1>7. ASSUME NEW c \in Caller, Restore(c) PROVE Alone'
  <2>1. c \in Repairs /\ repairing' = repairing
    BY <1>7 DEF Restore, Repairs
  <2> DEFINE w == [caller[c] EXCEPT !.pc = "read", !.from = NewestValidBackup]
  <2>2. caller' = [caller EXCEPT ![c] = w] /\ w.pc = "read"
    BY <1>f, <1>7 DEF Restore, Calling
  <2>3. w \in Calling
    BY <1>f, <2>2
  <2> HIDE DEF w
  <2> QED BY <2>1, <2>2, <2>3, AloneGoesOn
<1>8. ASSUME NEW c \in Caller, RestoreFails(c) PROVE Alone'
  BY <1>8, AloneRepaired DEF RestoreFails, Repairs
<1>9. ASSUME NEW c \in Caller, ReadCopy(c) PROVE Alone'
  <2>1. c \in Repairs /\ repairing' = repairing
    BY <1>9 DEF ReadCopy, Repairs
  <2>2. PICK data :
          caller' = [caller EXCEPT ![c].pc = "write", ![c].from = Nowhere, ![c].data = data]
    BY <1>9 DEF ReadCopy
  <2> DEFINE w == [caller[c] EXCEPT !.pc = "write", !.from = Nowhere, !.data = data]
  <2>3. caller' = [caller EXCEPT ![c] = w] /\ w.pc = "write"
    BY <1>f, <2>2 DEF Calling
  <2>4. w \in Calling
    BY <1>f, <2>3
  <2> HIDE DEF w
  <2> QED BY <2>1, <2>3, <2>4, AloneGoesOn
<1>10. ASSUME NEW c \in Caller, ReadFails(c) PROVE Alone'
  BY <1>10, AloneRepaired DEF ReadFails, Repairs
<1>11. ASSUME NEW c \in Caller, WriteDatabase(c) PROVE Alone'
  <2>1. c \in Repairs /\ repairing' = repairing
    BY <1>11 DEF WriteDatabase, Repairs
  <2> DEFINE w == [caller[c] EXCEPT !.pc = "clean"]
  <2>2. caller' = [caller EXCEPT ![c] = w] /\ w.pc = "clean"
    BY <1>f, <1>11 DEF WriteDatabase, Calling
  <2>3. w \in Calling
    BY <1>f, <2>2
  <2> HIDE DEF w
  <2> QED BY <2>1, <2>2, <2>3, AloneGoesOn
<1>14. ASSUME NEW c \in Caller, WritePart(c) PROVE Alone'
  BY <1>14, AloneUnchanged DEF WritePart
<1>15. ASSUME NEW c \in Caller, WriteFails(c) PROVE Alone'
  BY <1>15, AloneRepaired DEF WriteFails, Repairs
<1>16. ASSUME NEW c \in Caller, Reopen(c) PROVE Alone'
  BY <1>16, AloneRepaired DEF Reopen, Repairs
<1>12. CASE Crash
  BY <1>12 DEF Crash, Alone, Repairs, Serving
<1>13. CASE NextDay \/ Boot \/ (\E damage \in Damage : DamageFile(damage)) \/ UNCHANGED vars
  BY <1>13, AloneUnchanged DEF NextDay, Boot, DamageFile, vars
<1> QED BY <1>1, <1>2, <1>3, <1>4, <1>5, <1>6, <1>7, <1>8, <1>9, <1>10, <1>11, <1>12, <1>13,
           <1>14, <1>15, <1>16
        DEF Next, Watchdog

LEMMA AloneCounts == Alone => OneRepairs
<1> SUFFICES ASSUME Alone PROVE OneRepairs
  OBVIOUS
<1>1. repairing <=> Repairs # {}
  BY DEF Alone, Repairs
<1>2. Cardinality(Repairs) <= 1
  <2>1. CASE Repairs = {}
    BY <2>1, FS_EmptySet
  <2>2. CASE Repairs # {}
    <3>1. PICK c \in Repairs : Repairs = {c}
      BY <2>2 DEF Alone, Repairs
    <3> QED BY <3>1, FS_Singleton
  <2> QED BY <2>1, <2>2
<1> QED BY <1>1, <1>2 DEF OneRepairs

\* However many goroutines meet errors at once, at most one repairs the
\* database, and the flag is set exactly while one does: no failed repair
\* leaves it set (watchdog.go, repairing).
THEOREM RepairsApart == Spec => []OneRepairs
<1>1. Init => RInv
  BY TypeInit, AloneStarts DEF RInv
<1>2. RInv => OneRepairs
  BY AloneCounts DEF RInv
<1> QED BY <1>1, <1>2, RepairStep, PTL DEF Spec

(***************************************************************************)
(* A sound snapshot is left, and is found.  Since all were sound, each     *)
(* snapshot that is unsound, or that the loop makes so, has been begun of  *)
(* an unsound file, and a snapshot that is begun spoils one slot at most.  *)
(* What is valid and unsound is empty, and an empty one is remembered.     *)
(***************************************************************************)
Spoils == loop.pc = "snapshot" /\ ~Sound(loop.file)
Bad == {s \in SlotId : ~Sound(slot[s]) \/ (Spoils /\ loop.to[2] = s)}

Whole(f) == f.condition \notin {"none", "empty"}
Filled ==
  full /\ ~emptied =>
    /\ \A s \in SlotId : Whole(slot[s])
    /\ loop.pc = "snapshot" => Whole(loop.file)

FInv == TInv /\ (full => Cardinality(Bad) <= spoilt) /\ Filled

LEMMA BadFinite == IsFiniteSet(SlotId) /\ Cardinality(SlotId) = Slots /\ IsFiniteSet(Bad)
<1>1. IsFiniteSet(SlotId) /\ Cardinality(SlotId) = Slots
  BY ConstantTypes, FS_Interval DEF SlotId
<1> QED BY <1>1, FS_Subset DEF Bad

LEMMA FullInit == Init => FInv
BY TypeInit DEF Init, FInv, Filled

\* No slot is spoilt that was not.
LEMMA NoneSpoilt ==
  ASSUME FInv, Bad' \subseteq Bad, UNCHANGED <<full, spoilt>>
  PROVE  full' => Cardinality(Bad') <= spoilt'
<1>1. Cardinality(Bad') <= Cardinality(Bad)
  BY BadFinite, FS_Subset
<1>2. Cardinality(Bad') \in Nat /\ Cardinality(Bad) \in Nat /\ spoilt \in Nat
  BY BadFinite, FS_Subset, FS_CardinalityType DEF FInv, TInv, TypeOK
<1> QED BY <1>1, <1>2 DEF FInv

\* One slot is, and is counted.
LEMMA OneSpoilt ==
  ASSUME FInv, NEW s \in SlotId, Bad' \subseteq Bad \cup {s}, full' = full,
         spoilt' = spoilt + 1
  PROVE  full' => Cardinality(Bad') <= spoilt'
<1>1. /\ IsFiniteSet(Bad \cup {s})
      /\ Cardinality(Bad \cup {s}) <= Cardinality(Bad) + 1
  <2>0. Cardinality(Bad) \in Nat
    BY BadFinite, FS_CardinalityType
  <2>1. CASE s \in Bad
    <3>1. Bad \cup {s} = Bad
      BY <2>1
    <3>2. IsFiniteSet(Bad \cup {s}) /\ Cardinality(Bad \cup {s}) = Cardinality(Bad)
      BY <3>1, BadFinite, Zenon
    <3> QED BY <2>0, <3>2
  <2>2. CASE s \notin Bad
    <3>1. IsFiniteSet(Bad \cup {s}) /\ Cardinality(Bad \cup {s}) = Cardinality(Bad) + 1
      BY <2>2, BadFinite, FS_AddElement
    <3> QED BY <2>0, <3>1
  <2> QED BY <2>1, <2>2
<1>2. Cardinality(Bad') <= Cardinality(Bad \cup {s}) /\ IsFiniteSet(Bad')
  BY <1>1, FS_Subset
<1>3. /\ Cardinality(Bad') \in Nat /\ Cardinality(Bad) \in Nat /\ spoilt \in Nat
      /\ Cardinality(Bad \cup {s}) \in Nat
  BY <1>1, <1>2, BadFinite, FS_CardinalityType DEF FInv, TInv, TypeOK
<1> QED BY <1>1, <1>2, <1>3 DEF FInv

LEMMA SpoiltStep ==
  FInv /\ TInv' /\ [Next]_vars => (full' => Cardinality(Bad') <= spoilt')
<1> SUFFICES ASSUME FInv, TInv, TInv', [Next]_vars
             PROVE  full' => Cardinality(Bad') <= spoilt'
  BY DEF FInv
<1> USE DEF files, manager, history, ghosts, bounds
<1>f. slot \in [SlotId -> File] /\ currentSlot \in Nat /\ Aimed
  BY TypeUnfold DEF TInv
<1>n. \* the loop does not change, and no snapshot becomes unsound
      ASSUME UNCHANGED <<loop, full, spoilt>>,
             \A s \in SlotId : Sound(slot[s]) => Sound(slot'[s])
      PROVE  full' => Cardinality(Bad') <= spoilt'
  <2>1. Bad' \subseteq Bad
    BY <1>n DEF Bad, Spoils, Sound, SlotId
  <2> QED BY <2>1, <1>n, NoneSpoilt
<1>k. ASSUME UNCHANGED slot PROVE \A s \in SlotId : Sound(slot[s]) => Sound(slot'[s])
  BY <1>k
<1>o. \* opening creates what is not sound
      ASSUME NEW at \in SlotId, slot' = [slot EXCEPT ![at] = Opened(@)]
      PROVE  \A s \in SlotId : Sound(slot[s]) <=> Sound(slot'[s])
  BY <1>f, <1>o DEF Opened, Sound, NoFile, EmptyFile
<1>e. \* the loop ends its copy, or begins an archive
      ASSUME loop'.pc # "snapshot", UNCHANGED <<full, spoilt>>,
             \A s \in SlotId : Sound(slot[s]) => Sound(slot'[s])
      PROVE  full' => Cardinality(Bad') <= spoilt'
  <2>1. ASSUME NEW s \in Bad' PROVE s \in Bad
    <3>1. s \in SlotId /\ ~Sound(slot'[s])
      BY <1>e DEF Bad, Spoils, Sound, SlotId
    <3> QED BY <1>e, <3>1 DEF Bad
  <2> QED BY <2>1, <1>e, NoneSpoilt
<1>z. Waiting.pc # "snapshot" /\ [Waiting EXCEPT !.pc = "check"].pc # "snapshot"
  BY DEF Waiting
<1>1. CASE PerformBackup
  <2>1. PICK at \in SlotId : at = currentSlot % Slots
    BY <1>f, SlotType
  <2>2. /\ BeginCopy("snapshot", <<"slot", at>>, currentSlot + 1)
        /\ slot' = [slot EXCEPT ![at] = Opened(@)]
        /\ full' = full
        /\ spoilt' = IF full /\ main # "ok" THEN spoilt + 1 ELSE spoilt
    BY <1>1, <2>1 DEF PerformBackup
  <2>3. PICK condition \in Copied :
          loop' = [pc |-> "snapshot", to |-> <<"slot", at>>,
                   file |-> [condition |-> condition, number |-> currentSlot + 1]]
    BY <2>2 DEF BeginCopy
  <2>4. \A s \in SlotId : Sound(slot[s]) <=> Sound(slot'[s])
    BY <1>o, <2>2
  <2>5. CASE ~full
    BY <2>2, <2>5
  <2>6. CASE main = "ok"
    <3>1. loop'.file.condition = "ok"
      BY <2>3, <2>6 DEF Copied
    <3>2. Bad' \subseteq Bad
      BY <2>4, <3>1 DEF Bad, Spoils, Sound, SlotId
    <3> QED BY <2>2, <2>6, <3>2, NoneSpoilt
  <2>7. CASE full /\ main # "ok"
    <3>1. loop'.to[2] = at
      BY <2>3
    <3>2. Bad' \subseteq Bad \cup {at}
      BY <2>4, <3>1 DEF Bad, Spoils, SlotId
    <3> QED BY <2>2, <2>7, <3>2, OneSpoilt
  <2> QED BY <2>5, <2>6, <2>7
<1>2. CASE SnapshotDone
  <2>1. loop.pc = "snapshot" /\ loop'.pc # "snapshot" /\ UNCHANGED <<full, spoilt>>
        /\ slot' = [slot EXCEPT ![loop.to[2]] = loop.file]
    BY <1>2, <1>z DEF SnapshotDone
  <2>2. loop.to[2] \in SlotId
    BY <1>f, <2>1 DEF Aimed
  <2>3. \A s \in SlotId : slot'[s] = IF s = loop.to[2] THEN loop.file ELSE slot[s]
    BY <1>f, <2>1, <2>2
  <2>4. ASSUME NEW s \in Bad' PROVE s \in Bad
    <3>1. s \in SlotId /\ ~Sound(slot'[s])
      BY <2>1 DEF Bad, Spoils, Sound, SlotId
    <3>2. CASE s = loop.to[2]
      BY <2>1, <2>3, <3>1, <3>2 DEF Bad, Spoils
    <3>3. CASE s # loop.to[2]
      BY <2>3, <3>1, <3>3 DEF Bad
    <3> QED BY <3>2, <3>3
  <2> QED BY <2>1, <2>4, NoneSpoilt
<1>3. CASE SnapshotFails
  <2>1. \/ UNCHANGED slot
        \/ slot' = [slot EXCEPT ![currentSlot % Slots] = Opened(@)]
    BY <1>3 DEF SnapshotFails
  <2>2. \A s \in SlotId : Sound(slot[s]) => Sound(slot'[s])
    BY <1>f, <1>k, <1>o, <2>1, SlotType
  <2> QED BY <1>3, <1>e, <1>z, <2>2 DEF SnapshotFails
<1>4. CASE CheckDailyArchive
  BY <1>4, <1>e, <1>k DEF CheckDailyArchive, BeginCopy
<1>5. CASE ArchiveDone
  BY <1>5, <1>e, <1>k, <1>z DEF ArchiveDone
<1>6. CASE ArchiveSkipped
  BY <1>6, <1>e, <1>k, <1>z DEF ArchiveSkipped
<1>7. CASE \E c \in Caller : QueryFails(c) \/ Watchdog(c) \/ WriteFails(c)
  BY <1>7, <1>n, <1>k
     DEF Watchdog, QueryFails, CheckIgnored, CheckDatabaseError, TryReconnect, RepairCorrupt,
         Restore, RestoreFails, ReadCopy, ReadFails, WritePart,
         WriteDatabase, WriteFails, Reopen
<1>8. ASSUME NEW damage \in Damage, DamageFile(damage)
      PROVE  full' => Cardinality(Bad') <= spoilt'
  <2>1. full' => Bad' = {}
    BY <1>8 DEF DamageFile, Bad, Spoils, Sound
  <2>2. spoilt' = 0
    BY <1>8 DEF DamageFile
  <2> QED BY <2>1, <2>2, FS_EmptySet
<1>9. CASE Crash
  BY <1>9, <1>e, <1>k, <1>z DEF Crash
<1>10. CASE NextDay \/ UNCHANGED vars
  BY <1>10, <1>n, <1>k DEF NextDay, vars
<1>11. CASE Boot
  <2>1. \A s \in SlotId : Sound(slot[s]) => Sound(slot'[s])
    BY <1>f, <1>11 DEF Boot, Sound, File
  <2> QED BY <1>11, <1>n, <2>1 DEF Boot
<1> QED BY <1>1, <1>2, <1>3, <1>4, <1>5, <1>6, <1>7, <1>8, <1>9, <1>10, <1>11
        DEF Next, Loop

\* No snapshot becomes empty but as a copy of an empty file.
LEMMA FilledStep == FInv /\ TInv' /\ [Next]_vars => Filled'
<1> SUFFICES ASSUME FInv, TInv, TInv', [Next]_vars, full', ~emptied'
             PROVE  /\ \A s \in SlotId : Whole(slot'[s])
                    /\ loop'.pc = "snapshot" => Whole(loop'.file)
  BY DEF FInv, Filled, Whole, SlotId
<1> USE DEF files, manager, history, ghosts, bounds
<1>f. slot \in [SlotId -> File] /\ currentSlot \in Nat /\ Aimed
  BY TypeUnfold DEF TInv
<1>p. ASSUME full, ~emptied
      PROVE  /\ \A s \in SlotId : Whole(slot[s]) /\ slot[s] # NoFile
             /\ loop.pc = "snapshot" => Whole(loop.file)
  BY <1>p DEF FInv, Filled, Whole, NoFile
<1>o. ASSUME full, ~emptied, slot' = [slot EXCEPT ![currentSlot % Slots] = Opened(@)]
      PROVE  slot' = slot
  <2>1. Opened(slot[currentSlot % Slots]) = slot[currentSlot % Slots]
    BY <1>f, <1>o, <1>p, SlotType DEF Opened
  <2> QED BY <1>f, <1>o, <2>1
<1>n. ASSUME UNCHANGED <<full, emptied, slot>>,
             loop' = loop \/ loop'.pc # "snapshot"
      PROVE  /\ \A s \in SlotId : Whole(slot'[s])
             /\ loop'.pc = "snapshot" => Whole(loop'.file)
  BY <1>n, <1>p
<1>z. Waiting.pc # "snapshot" /\ [Waiting EXCEPT !.pc = "check"].pc # "snapshot"
  BY DEF Waiting
<1>1. CASE PerformBackup
  <2>1. full /\ ~emptied /\ main # "empty"
    BY <1>1 DEF PerformBackup
  <2>2. slot' = slot
    BY <1>1, <1>o, <2>1 DEF PerformBackup
  <2>3. \A condition \in Copied : condition \notin {"none", "empty"}
    BY <2>1 DEF Copied
  <2>4. Whole(loop'.file)
    BY <1>1, <2>3 DEF PerformBackup, BeginCopy, Whole
  <2> QED BY <1>p, <2>1, <2>2, <2>4
<1>2. CASE SnapshotDone
  <2>1. loop.pc = "snapshot" /\ loop'.pc # "snapshot" /\ full /\ ~emptied
        /\ slot' = [slot EXCEPT ![loop.to[2]] = loop.file]
    BY <1>2, <1>z DEF SnapshotDone
  <2> QED BY <1>f, <1>p, <2>1
<1>3. CASE SnapshotFails
  <2>1. UNCHANGED <<full, emptied, slot>>
    BY <1>3, <1>o DEF SnapshotFails
  <2> QED BY <1>3, <1>n, <1>z, <2>1 DEF SnapshotFails
<1>4. CASE CheckDailyArchive
  <2>1. loop'.pc = "archive"
    BY <1>4 DEF CheckDailyArchive, BeginCopy
  <2>2. UNCHANGED <<full, emptied, slot>>
    BY <1>4 DEF CheckDailyArchive
  <2> QED BY <1>n, <2>1, <2>2
<1>5. CASE ArchiveDone \/ ArchiveSkipped
  BY <1>5, <1>n, <1>z DEF ArchiveDone, ArchiveSkipped
<1>6. CASE \E c \in Caller : QueryFails(c) \/ Watchdog(c) \/ WriteFails(c)
  BY <1>6, <1>n
     DEF Watchdog, QueryFails, CheckIgnored, CheckDatabaseError, TryReconnect, RepairCorrupt,
         Restore, RestoreFails, ReadCopy, ReadFails, WritePart, WriteDatabase, WriteFails,
         Reopen
<1>7. CASE \E damage \in Damage : DamageFile(damage)
  BY <1>7 DEF DamageFile, Sound, Whole
<1>8. CASE Crash
  BY <1>8, <1>n, <1>z DEF Crash
<1>9. CASE Boot
  <2>1. full /\ ~emptied /\ loop' = loop
        /\ slot' = [s \in SlotId |-> [slot[s] EXCEPT !.number = 0]]
    BY <1>9 DEF Boot
  <2>2. \A s \in SlotId : slot'[s].condition = slot[s].condition
    BY <1>f, <2>1 DEF File
  <2> QED BY <1>p, <2>1, <2>2 DEF Whole
<1>10. CASE NextDay \/ UNCHANGED vars
  BY <1>10, <1>n DEF NextDay, vars
<1> QED BY <1>1, <1>2, <1>3, <1>4, <1>5, <1>6, <1>7, <1>8, <1>9, <1>10 DEF Next, Loop

LEMMA FullStep == FInv /\ [Next]_vars => FInv'
BY TypeStep, SpoiltStep, FilledStep DEF FInv

\* A sound snapshot is left, and what the search finds is one.
LEMMA FullLeaves ==
  ASSUME FInv, full, spoilt < Slots
  PROVE  /\ SoundSlots # {}
         /\ ~emptied => \E s \in SlotId : /\ NewestValidBackup = <<"slot", s>>
                                          /\ Sound(slot[s])
<1>1. Cardinality(Bad) <= spoilt /\ spoilt \in Nat
  BY DEF FInv, TInv, TypeOK
<1>2. Cardinality(Bad) \in Nat
  BY BadFinite, FS_CardinalityType
<1>3. Bad # SlotId
  BY <1>1, <1>2, BadFinite, ConstantTypes
<1>4. Bad \subseteq SlotId
  BY DEF Bad
<1>5. PICK s \in SlotId : s \notin Bad
  BY <1>3, <1>4
<1>6. Sound(slot[s])
  BY <1>5 DEF Bad
<1>7. s \in SoundSlots /\ s \in ValidSlots
  BY <1>6 DEF SoundSlots, ValidSlots, Sound, Valid
<1>8. currentSlot \in Nat
  BY TypeUnfold DEF FInv
<1>9. PICK t \in ValidSlots : NewestValidBackup = <<"slot", t>>
  BY <1>7, <1>8, ChoiceFirst
<1>10. ~emptied => Sound(slot[t])
  BY DEF FInv, Filled, Whole, ValidSlots, Valid, Sound
<1> QED BY <1>7, <1>9, <1>10 DEF ValidSlots

LEMMA FullRecovers == FInv => Recoverable
<1> SUFFICES ASSUME FInv, full, spoilt < Slots
             PROVE  /\ SoundSlots # {}
                    /\ ~emptied => Sound(At(NewestValidBackup))
  BY DEF Recoverable
<1> QED BY FullLeaves DEF At

\* Damage that is met before as many snapshots of it have been begun as are kept
\* leaves a sound one, wherever a restarted kernel begins to count, and whatever
\* copies fail; and unless one has been begun of an empty file, such a one is what
\* the search finds (backup.go, currentSlot, performBackup, newestValidBackup).
THEOREM SnapshotLeft == Spec => []Recoverable
<1>1. FInv => Recoverable
  BY FullRecovers
<1> QED BY <1>1, FullInit, FullStep, PTL DEF Spec

(***************************************************************************)
(* What is restored is valid.  A copy that has been chosen stays so, or is *)
(* removed, until it has been read, unless the loop writes to it; then     *)
(* overlapped is set, until the only repair there is ends.  With a full    *)
(* set of snapshots behind the damage, the copy is a sound snapshot.       *)
(***************************************************************************)
Intact == full /\ spoilt < Slots /\ ~emptied

Reading ==
  \A c \in Caller : caller[c].pc = "read" =>
    /\ caller[c].from \in Place \ {Nowhere}
    /\ loop.to # caller[c].from
    /\ \/ At(caller[c].from).condition \in {"ok", "empty"}
       \/ At(caller[c].from).condition = "none" /\ caller[c].from \notin {"slot"} \X SlotId
    /\ Intact => caller[c].from \in {"slot"} \X SlotId /\ Sound(At(caller[c].from))
Good(data) == data \in {"ok", "empty"} /\ (Intact => data = "ok")
Restoring == \A c \in Caller : caller[c].pc \in {"write", "clean"} => Good(caller[c].data)

SInv == RInv /\ FInv /\ (~overlapped => Reading /\ Restoring)

LEMMA SoundInit == Init => SInv
BY TypeInit, AloneStarts, FullInit
   DEF Init, SInv, RInv, Reading, Restoring, Serving

\* A goroutine that is given another state.
LEMMA ReadingStep ==
  ASSUME TInv, Reading, Restoring, NEW c \in Caller, NEW w,
         caller' = [caller EXCEPT ![c] = w],
         w.pc # "read", w.pc \in {"write", "clean"} => Good(w.data),
         UNCHANGED <<slot, archive, loop, history>>
  PROVE  Reading' /\ Restoring'
<1>1. caller \in [Caller -> Calling]
  BY TypeUnfold
<1>2. \A d \in Caller : caller'[d] = IF d = c THEN w ELSE caller[d]
  BY <1>1
<1>3. Intact' = Intact /\ \A data : Good(data)' <=> Good(data)
  BY DEF Intact, Good, history
<1>4. ASSUME NEW d \in Caller, caller'[d].pc = "read"
      PROVE  /\ caller'[d].from \in Place \ {Nowhere}
             /\ loop'.to # caller'[d].from
             /\ \/ At(caller[d].from)'.condition \in {"ok", "empty"}
                \/ /\ At(caller[d].from)'.condition = "none"
                   /\ caller'[d].from \notin {"slot"} \X SlotId
             /\ Intact' => /\ caller'[d].from \in {"slot"} \X SlotId
                           /\ Sound(At(caller[d].from)')
  <2>1. caller'[d] = caller[d] /\ caller[d].pc = "read"
    BY <1>2, <1>4
  <2>2. At(caller[d].from)' = At(caller[d].from)
    BY <2>1 DEF At
  <2> QED BY <1>3, <2>1, <2>2 DEF Reading
<1>5. Reading'
  BY <1>4 DEF Reading, At, Sound, Place, SlotId, Day
<1>6. Restoring'
  BY <1>2, <1>3 DEF Restoring
<1> QED BY <1>5, <1>6

\* The goroutine that repairs returns: no other repairs.
LEMMA ReadingRepaired ==
  ASSUME TInv, Alone, NEW c \in Caller, c \in Repairs, Repaired(c)
  PROVE  Reading' /\ Restoring'
<1>1. caller \in [Caller -> Calling]
  BY TypeUnfold
<1>2. \A d \in Caller : caller'[d].pc \in {"serve", "check"}
  BY <1>1 DEF Repaired, Serving, Alone, Repairs
<1> QED BY <1>2 DEF Reading, Restoring

\* The files change, but for the copies that are about to be read.
LEMMA ReadingFiles ==
  ASSUME Reading, Restoring, caller' = caller, Intact' => Intact,
         \A c \in Caller : caller[c].pc = "read" =>
           /\ loop'.to # caller[c].from
           /\ \/ At(caller[c].from)'.condition = At(caller[c].from).condition
              \/ /\ caller[c].from \notin {"slot"} \X SlotId
                 /\ At(caller[c].from)'.condition \in {"empty", "none"}
  PROVE  Reading' /\ Restoring'
<1>1. ASSUME NEW c \in Caller, caller'[c].pc = "read"
      PROVE  /\ caller'[c].from \in Place \ {Nowhere}
             /\ loop'.to # caller'[c].from
             /\ \/ At(caller[c].from)'.condition \in {"ok", "empty"}
                \/ /\ At(caller[c].from)'.condition = "none"
                   /\ caller'[c].from \notin {"slot"} \X SlotId
             /\ Intact' => /\ caller'[c].from \in {"slot"} \X SlotId
                           /\ Sound(At(caller[c].from)')
  <2>1. caller[c].pc = "read" /\ caller'[c].from = caller[c].from
    BY <1>1
  <2> QED BY <2>1 DEF Reading, Sound
<1>2. Reading'
  BY <1>1 DEF Reading, At, Sound, Place, SlotId, Day
<1>3. Restoring'
  BY DEF Restoring, Good
<1> QED BY <1>2, <1>3

\* A snapshot is written that no goroutine is about to read.
LEMMA ReadingSlot ==
  ASSUME TInv, Reading, Restoring, NEW s \in SlotId, NEW file,
         slot' = [slot EXCEPT ![s] = file], UNCHANGED <<archive, caller>>, Intact' => Intact,
         \A c \in Caller : caller[c].pc = "read" =>
           loop'.to # caller[c].from /\ caller[c].from # <<"slot", s>>
  PROVE  Reading' /\ Restoring'
<1>1. \A r \in SlotId : r # s => slot'[r] = slot[r]
  BY TypeUnfold
<1>2. ASSUME NEW c \in Caller, caller[c].pc = "read"
      PROVE  At(caller[c].from)' = At(caller[c].from)
  <2>1. caller[c].from \in Place \ {Nowhere} /\ caller[c].from # <<"slot", s>>
    BY <1>2 DEF Reading
  <2>2. CASE caller[c].from \in {"slot"} \X SlotId
    <3>1. PICK r \in SlotId : caller[c].from = <<"slot", r>>
      BY <2>2
    <3> QED BY <1>1, <2>1, <3>1 DEF At
  <2>3. CASE caller[c].from \in {"archive"} \X Day
    BY <2>1, <2>3 DEF At
  <2> QED BY <2>1, <2>2, <2>3 DEF Place
<1> QED BY <1>2, ReadingFiles

\* Archives are written, of which none that is read, or removed, or created empty.
LEMMA ReadingArchives ==
  ASSUME TInv, Reading, Restoring, UNCHANGED <<slot, caller>>, Intact' => Intact,
         \A c \in Caller : caller[c].pc = "read" =>
           /\ loop'.to # caller[c].from
           /\ \A d \in Day : caller[c].from = <<"archive", d>> =>
                \/ archive'[d] = archive[d]
                \/ archive'[d].condition \in {"empty", "none"}
  PROVE  Reading' /\ Restoring'
<1>1. ASSUME NEW c \in Caller, caller[c].pc = "read"
      PROVE  \/ At(caller[c].from)'.condition = At(caller[c].from).condition
             \/ /\ caller[c].from \notin {"slot"} \X SlotId
                /\ At(caller[c].from)'.condition \in {"empty", "none"}
  <2>1. caller[c].from \in Place \ {Nowhere}
    BY <1>1 DEF Reading
  <2>2. CASE caller[c].from \in {"slot"} \X SlotId
    BY <2>1, <2>2 DEF At
  <2>3. CASE caller[c].from \in {"archive"} \X Day
    <3>1. PICK d \in Day : caller[c].from = <<"archive", d>>
      BY <2>3
    <3>2. archive'[d] = archive[d] \/ archive'[d].condition \in {"empty", "none"}
      BY <1>1, <3>1
    <3>3. At(caller[c].from) = archive[d] /\ At(caller[c].from)' = archive'[d]
      BY <3>1 DEF At
    <3>4. caller[c].from \notin {"slot"} \X SlotId
      BY <3>1
    <3> QED BY <3>2, <3>3, <3>4
  <2> QED BY <2>1, <2>2, <2>3 DEF Place
<1> QED BY <1>1, ReadingFiles

\* A copy that the loop begins is not one that is about to be read.
LEMMA BeginsApart ==
  ASSUME NEW pc, NEW to, NEW number, BeginCopy(pc, to, number), ~overlapped'
  PROVE  loop'.to = to /\ \A c \in Caller : caller[c].from # to
<1>1. PICK condition \in Copied :
        loop' = [pc |-> pc, to |-> to,
                 file |-> [condition |-> condition, number |-> number]]
  BY DEF BeginCopy
<1>2. ~(\E c \in Caller : caller[c].from = to)
  BY DEF BeginCopy
<1> QED BY <1>1, <1>2

LEMMA SoundStep == SInv /\ [Next]_vars => SInv'
<1> SUFFICES ASSUME TInv, TInv', Alone, FInv, ~overlapped => Reading /\ Restoring,
                    [Next]_vars, ~overlapped'
             PROVE  Reading' /\ Restoring'
  BY RepairStep, FullStep DEF SInv, RInv
<1> USE DEF files, manager, history, ghosts, bounds
<1>f. /\ caller \in [Caller -> Calling] /\ slot \in [SlotId -> File]
      /\ archive \in [Day -> File] /\ loop \in Copying /\ currentSlot \in Nat
      /\ today \in Day /\ Aimed /\ Kept
  BY TypeUnfold DEF TInv
<1>s. spoilt \in Nat /\ Slots \in Nat
  BY ConstantTypes DEF TInv, TypeOK
<1>o. ASSUME overlapped' = overlapped \/ (overlapped => overlapped')
      PROVE  Reading /\ Restoring
  BY <1>o
<1>h. ASSUME UNCHANGED history PROVE Intact' => Intact
  BY <1>h DEF Intact
<1>n. \* nothing it speaks of changes, or the loop stops copying
      ASSUME UNCHANGED <<slot, archive, caller, history, overlapped>>,
             loop' = loop \/ loop'.to = Nowhere
      PROVE  Reading' /\ Restoring'
  BY <1>o, <1>n, <1>h, ReadingArchives DEF Reading
<1>z. Waiting.to = Nowhere /\ [Waiting EXCEPT !.pc = "check"].to = Nowhere
  BY DEF Waiting
<1>1. CASE PerformBackup
  <2>1. PICK at \in SlotId : at = currentSlot % Slots
    BY <1>f, SlotType
  <2>2. /\ BeginCopy("snapshot", <<"slot", at>>, currentSlot + 1)
        /\ slot' = [slot EXCEPT ![at] = Opened(slot[at])]
        /\ UNCHANGED <<archive, caller, full>>
        /\ spoilt' \in {spoilt, spoilt + 1} /\ (emptied => emptied')
    BY <1>1, <2>1 DEF PerformBackup
  <2>3. loop'.to = <<"slot", at>> /\ \A c \in Caller : caller[c].from # <<"slot", at>>
    BY <2>2, BeginsApart
  <2>4. Reading /\ Restoring
    BY <1>o, <2>2 DEF BeginCopy
  <2>5. Intact' => Intact
    BY <1>s, <2>2 DEF Intact
  <2> QED BY <2>2, <2>3, <2>4, <2>5, ReadingSlot
<1>2. CASE SnapshotDone
  <2>1. /\ loop.pc = "snapshot" /\ loop'.to = Nowhere
        /\ UNCHANGED <<archive, caller, history, overlapped>>
        /\ slot' = [slot EXCEPT ![loop.to[2]] = loop.file]
    BY <1>2, <1>z DEF SnapshotDone
  <2>2. PICK s \in SlotId : loop.to = <<"slot", s>>
    BY <1>f, <2>1 DEF Aimed
  <2>3. Reading /\ Restoring
    BY <1>o, <2>1
  <2>4. \A c \in Caller : caller[c].pc = "read" =>
          loop'.to # caller[c].from /\ caller[c].from # <<"slot", s>>
    BY <2>1, <2>2, <2>3 DEF Reading
  <2>5. slot' = [slot EXCEPT ![s] = loop.file]
    BY <2>1, <2>2
  <2> QED BY <1>h, <2>1, <2>3, <2>4, <2>5, ReadingSlot
<1>3. CASE SnapshotFails
  <2>1. /\ loop'.to = Nowhere /\ UNCHANGED <<archive, caller, history, overlapped>>
        /\ \/ slot' = slot
           \/ slot' = [slot EXCEPT ![currentSlot % Slots] = Opened(@)]
    BY <1>3, <1>z DEF SnapshotFails
  <2>2. Reading /\ Restoring
    BY <1>o, <2>1
  <2>3. CASE slot' = slot
    BY <1>n, <2>1, <2>3
  <2>4. CASE slot' = [slot EXCEPT ![currentSlot % Slots] = Opened(@)]
    <3>1. PICK at \in SlotId : at = currentSlot % Slots
      BY <1>f, SlotType
    <3>2. CASE slot[at] = NoFile
      <4>1. slot[at].condition = "none"
        BY <3>2 DEF NoFile
      <4>2. \A c \in Caller : caller[c].pc = "read" => loop'.to # caller[c].from
        BY <2>1, <2>2 DEF Reading
      <4>3. ASSUME NEW c \in Caller, caller[c].pc = "read", caller[c].from = <<"slot", at>>
            PROVE  FALSE
        <5>1. At(caller[c].from) = slot[at] /\ caller[c].from \in {"slot"} \X SlotId
          BY <4>3 DEF At
        <5> QED BY <4>1, <4>3, <5>1, <2>2 DEF Reading
      <4> QED BY <1>h, <2>1, <2>2, <2>4, <3>1, <4>2, <4>3, ReadingSlot
    <3>3. CASE slot[at] # NoFile
      <4>1. slot' = slot
        BY <1>f, <2>4, <3>1, <3>3 DEF Opened
      <4> QED BY <1>n, <2>1, <4>1
    <3> QED BY <3>2, <3>3
  <2> QED BY <2>1, <2>3, <2>4
<1>4. CASE CheckDailyArchive
  <2>1. /\ BeginCopy("archive", <<"archive", today>>, 0)
        /\ archive' = [archive EXCEPT ![today] = Opened(@)]
        /\ UNCHANGED <<slot, caller, history>>
    BY <1>4 DEF CheckDailyArchive
  <2>2. /\ loop'.to = <<"archive", today>>
        /\ \A c \in Caller : caller[c].from # <<"archive", today>>
    BY <2>1, BeginsApart
  <2>3. Reading /\ Restoring
    BY <1>o, <2>1 DEF BeginCopy
  <2>4. \A d \in Day : d # today => archive'[d] = archive[d]
    BY <1>f, <2>1
  <2> QED BY <1>h, <2>1, <2>2, <2>3, <2>4, ReadingArchives
<1>5. CASE ArchiveDone
  <2>1. /\ loop.pc = "archive" /\ loop'.to = Nowhere
        /\ UNCHANGED <<slot, caller, history, overlapped>>
        /\ archive' = PruneArchives([archive EXCEPT ![loop.to[2]] = loop.file])
    BY <1>5, <1>z DEF ArchiveDone
  <2>2. PICK d \in Day : loop.to = <<"archive", d>>
    BY <1>f, <2>1 DEF Aimed
  <2>3. \A e \in Day : e # d => archive'[e] = archive[e] \/ archive'[e] = NoFile
    BY <1>f, <2>1, <2>2 DEF PruneArchives
  <2>4. Reading /\ Restoring
    BY <1>o, <2>1
  <2>5. \A c \in Caller : caller[c].pc = "read" =>
          loop'.to # caller[c].from /\ caller[c].from # <<"archive", d>>
    BY <2>1, <2>2, <2>4 DEF Reading
  <2>6. NoFile.condition = "none"
    BY DEF NoFile
  <2> QED BY <1>h, <2>1, <2>3, <2>4, <2>5, <2>6, ReadingArchives
<1>6. CASE ArchiveSkipped
  <2>1. /\ loop'.to = Nowhere /\ UNCHANGED <<slot, caller, history, overlapped>>
        /\ \/ archive' = archive
           \/ archive' = [archive EXCEPT ![today] = Opened(@)]
    BY <1>6, <1>z DEF ArchiveSkipped
  <2>2. Reading /\ Restoring
    BY <1>o, <2>1
  <2>3. \A c \in Caller : caller[c].pc = "read" => loop'.to # caller[c].from
    BY <2>1, <2>2 DEF Reading
  <2>4. \A d \in Day : archive'[d] = archive[d] \/ archive'[d] = EmptyFile
    BY <1>f, <2>1 DEF Opened
  <2>5. EmptyFile.condition = "empty"
    BY DEF EmptyFile
  <2> QED BY <1>h, <2>1, <2>2, <2>3, <2>4, <2>5, ReadingArchives
<1>g. \* a goroutine that goes on, and reads or writes no copy
      ASSUME NEW c \in Caller, NEW w, caller' = [caller EXCEPT ![c] = w],
             w.pc \notin {"read", "write", "clean"},
             UNCHANGED <<slot, archive, loop, history, overlapped>>
      PROVE  Reading' /\ Restoring'
  BY <1>o, <1>g, ReadingStep
<1>7. ASSUME NEW c \in Caller, QueryFails(c) PROVE Reading' /\ Restoring'
  <2>1. PICK error : caller' = [caller EXCEPT ![c] = [Serving EXCEPT !.pc = "check",
                                                                     !.error = error]]
    BY <1>7 DEF QueryFails
  <2> DEFINE w == [Serving EXCEPT !.pc = "check", !.error = error]
  <2>2. caller' = [caller EXCEPT ![c] = w] /\ w.pc = "check"
    BY <2>1 DEF Serving
  <2> HIDE DEF w
  <2> QED BY <1>7, <1>g, <2>2 DEF QueryFails
<1>8. ASSUME NEW c \in Caller, CheckIgnored(c) PROVE Reading' /\ Restoring'
  <2>1. caller' = [caller EXCEPT ![c] = Serving] /\ Serving.pc = "serve"
    BY <1>8 DEF CheckIgnored, Serving
  <2> QED BY <1>8, <1>g, <2>1 DEF CheckIgnored
<1>9. ASSUME NEW c \in Caller, CheckDatabaseError(c) PROVE Reading' /\ Restoring'
  <2>1. PICK w \in Calling : /\ w.pc \in {"reconnect", "reindex", "restore"}
                             /\ caller' = [caller EXCEPT ![c] = w]
    BY <1>9, RemedyType
  <2> QED BY <1>9, <1>g, <2>1 DEF CheckDatabaseError
<1>10. ASSUME NEW c \in Caller,
              TryReconnect(c) \/ RestoreFails(c) \/ ReadFails(c) \/ WriteFails(c) \/ Reopen(c)
       PROVE  Reading' /\ Restoring'
  <2>1. c \in Repairs /\ Repaired(c)
    BY <1>10 DEF TryReconnect, RestoreFails, ReadFails, WriteFails, Reopen, Repairs
  <2> QED BY <2>1, ReadingRepaired
<1>11. ASSUME NEW c \in Caller, RepairCorrupt(c) PROVE Reading' /\ Restoring'
  <2>1. CASE Repaired(c)
    <3>1. c \in Repairs
      BY <1>11 DEF RepairCorrupt, Repairs
    <3> QED BY <2>1, <3>1, ReadingRepaired
  <2>2. CASE caller' = [caller EXCEPT ![c].pc = "restore"] /\ UNCHANGED overlapped
    <3> DEFINE w == [caller[c] EXCEPT !.pc = "restore"]
    <3>1. caller' = [caller EXCEPT ![c] = w] /\ w.pc = "restore"
      BY <1>f, <2>2 DEF Calling
    <3> HIDE DEF w
    <3> QED BY <1>11, <1>g, <2>2, <3>1 DEF RepairCorrupt
  <2> QED BY <1>11, <2>1, <2>2 DEF RepairCorrupt
<1>12. ASSUME NEW c \in Caller, Restore(c) PROVE Reading' /\ Restoring'
  <2> DEFINE from == NewestValidBackup
             w == [caller[c] EXCEPT !.pc = "read", !.from = from]
  <2>1. /\ from # Nowhere /\ loop.to # from /\ ~overlapped
        /\ UNCHANGED <<slot, archive, loop, history>>
    BY <1>12 DEF Restore
  <2>2. caller' = [caller EXCEPT ![c] = w] /\ w.pc = "read" /\ w.from = from
    BY <1>f, <1>12 DEF Restore, Calling
  <2>3. from \in Place \ {Nowhere} /\ At(from).condition \in {"ok", "empty"}
    BY <1>f, <2>1, ChoiceValid, FileTypes DEF At, Valid
  <2>4. ASSUME Intact PROVE from \in {"slot"} \X SlotId /\ Sound(At(from))
    BY <2>4, FullLeaves DEF Intact, At
  <2> HIDE DEF from, w
  <2>5. \A d \in Caller : caller'[d] = IF d = c THEN w ELSE caller[d]
    BY <1>f, <2>2
  <2>6. Intact' = Intact /\ Reading /\ Restoring
    BY <2>1 DEF Intact
  <2>7. ASSUME NEW d \in Caller, caller'[d].pc = "read"
        PROVE  /\ caller'[d].from \in Place \ {Nowhere}
               /\ loop'.to # caller'[d].from
               /\ \/ At(caller[d].from)'.condition \in {"ok", "empty"}
                \/ /\ At(caller[d].from)'.condition = "none"
                   /\ caller'[d].from \notin {"slot"} \X SlotId
               /\ Intact' => /\ caller'[d].from \in {"slot"} \X SlotId
                             /\ Sound(At(caller[d].from)')
    <3>1. CASE d = c
      <4>1. caller'[d].from = from
        BY <2>2, <2>5, <3>1
      <4>2. At(caller[d].from)' = At(from)
        BY <2>1, <4>1 DEF At
      <4> QED BY <2>1, <2>3, <2>4, <2>6, <4>1, <4>2
    <3>2. CASE d # c
      <4>1. caller'[d] = caller[d]
        BY <2>5, <3>2
      <4>2. At(caller[d].from)' = At(caller[d].from)
        BY <2>1, <4>1 DEF At
      <4> QED BY <2>1, <2>6, <2>7, <4>1, <4>2 DEF Reading
    <3> QED BY <3>1, <3>2
  <2>8. Reading'
    BY <2>7 DEF Reading, At, Sound, Place, SlotId, Day
  <2>9. Restoring'
    BY <2>1, <2>2, <2>5, <2>6 DEF Restoring, Good
  <2> QED BY <2>8, <2>9
<1>13. ASSUME NEW c \in Caller, ReadCopy(c) PROVE Reading' /\ Restoring'
  <2>1. /\ caller[c].pc = "read" /\ At(caller[c].from) # NoFile
        /\ UNCHANGED <<slot, archive, loop, history, overlapped>>
    BY <1>13 DEF ReadCopy
  <2>2. Reading /\ Restoring
    BY <1>o, <2>1
  <2>3. caller[c].from \in Place \ {Nowhere} /\ loop.to # caller[c].from
    BY <2>1, <2>2 DEF Reading
  <2>4. At(caller[c].from) \in Copy
    BY <1>f, <2>1, <2>3 DEF Kept, At, Place, Nowhere
  <2> DEFINE data == At(caller[c].from).condition
             w == [caller[c] EXCEPT !.pc = "write", !.from = Nowhere, !.data = data]
  <2>5. Good(data)
    <3>1. data # "none"
      BY <2>4 DEF Copy, Condition, Damage
    <3> QED BY <2>1, <2>2, <3>1 DEF Reading, Good, Sound
  <2>6. caller' = [caller EXCEPT ![c].pc = "write", ![c].from = Nowhere, ![c].data = data]
    BY <1>13, <2>3 DEF ReadCopy
  <2> HIDE DEF data
  <2>7. caller' = [caller EXCEPT ![c] = w] /\ w.pc = "write" /\ w.data = data
    BY <1>f, <2>6 DEF Calling
  <2> HIDE DEF w
  <2> QED BY <2>1, <2>2, <2>5, <2>7, ReadingStep
<1>14. ASSUME NEW c \in Caller, WritePart(c) PROVE Reading' /\ Restoring'
  BY <1>14, <1>n DEF WritePart
<1>15. ASSUME NEW c \in Caller, WriteDatabase(c) PROVE Reading' /\ Restoring'
  <2>1. /\ caller[c].pc = "write"
        /\ UNCHANGED <<slot, archive, loop, history, overlapped>>
    BY <1>15 DEF WriteDatabase
  <2>2. Reading /\ Restoring
    BY <1>o, <2>1
  <2> DEFINE w == [caller[c] EXCEPT !.pc = "clean"]
  <2>3. caller' = [caller EXCEPT ![c] = w] /\ w.pc = "clean" /\ w.data = caller[c].data
    BY <1>f, <1>15 DEF WriteDatabase, Calling
  <2>4. Good(caller[c].data)
    BY <2>1, <2>2 DEF Restoring
  <2> HIDE DEF w
  <2> QED BY <2>1, <2>2, <2>3, <2>4, ReadingStep
<1>16. ASSUME NEW damage \in Damage, DamageFile(damage) PROVE Reading' /\ Restoring'
  <2>1. UNCHANGED <<slot, archive, loop, caller, repairing, overlapped>>
        /\ (full' => ~repairing)
    BY <1>16 DEF DamageFile
  <2>2. Reading /\ Restoring
    BY <1>o, <2>1
  <2>3. CASE ~full'
    BY <2>1, <2>2, <2>3, ReadingArchives DEF Intact, Reading
  <2>4. CASE full'
    BY <2>1, <2>4 DEF Alone, Repairs, Reading, Restoring
  <2> QED BY <2>3, <2>4
<1>17. CASE Boot
  <2>1. /\ UNCHANGED <<archive, loop, caller, history, overlapped>>
        /\ slot' = [s \in SlotId |-> [slot[s] EXCEPT !.number = 0]]
    BY <1>17 DEF Boot
  <2>2. Reading /\ Restoring
    BY <1>o, <2>1
  <2>3. \A s \in SlotId : slot'[s].condition = slot[s].condition
    BY <1>f, <2>1 DEF File
  <2>4. ASSUME NEW c \in Caller, caller[c].pc = "read"
        PROVE  At(caller[c].from)'.condition = At(caller[c].from).condition
    <3>1. caller[c].from \in Place \ {Nowhere}
      BY <2>2, <2>4 DEF Reading
    <3>2. CASE caller[c].from \in {"slot"} \X SlotId
      <4>1. PICK r \in SlotId : caller[c].from = <<"slot", r>>
        BY <3>2
      <4> QED BY <2>1, <2>3, <4>1 DEF At
    <3>3. CASE caller[c].from \in {"archive"} \X Day
      BY <2>1, <3>1, <3>3 DEF At
    <3> QED BY <3>1, <3>2, <3>3 DEF Place
  <2>5. \A c \in Caller : caller[c].pc = "read" => loop'.to # caller[c].from
    BY <2>1, <2>2 DEF Reading
  <2> QED BY <1>h, <2>1, <2>2, <2>4, <2>5, ReadingFiles
<1>18. CASE NextDay \/ UNCHANGED vars
  BY <1>n, <1>18 DEF NextDay, vars
<1>19. CASE Crash
  BY <1>19 DEF Crash, Reading, Restoring, Serving
<1> QED BY <1>1, <1>2, <1>3, <1>4, <1>5, <1>6, <1>7, <1>8, <1>9, <1>10, <1>11, <1>12, <1>13,
           <1>14, <1>15, <1>16, <1>17, <1>18, <1>19
        DEF Next, Loop, Watchdog

\* What a repair writes to the database is a copy that passed the check, so not
\* damaged or torn, as long as the backup loop does not write the chosen copy
\* between its choice and its use; and it is not empty either where all snapshots
\* were sound when the damage was done, fewer were begun of it than are kept, and
\* none of an empty file (backup.go, Restore and performBackup, which share no lock).
THEOREM CopiesSound == Spec => []RestoresSound
<1>1. SInv => RestoresSound
  BY DEF SInv, Restoring, Good, Intact, RestoresSound
<1> QED BY <1>1, SoundInit, SoundStep, PTL DEF Spec

(***************************************************************************)
(* The newest of the running kernel's snapshots.  Going back from the last *)
(* one meets those the kernel took since it started in the order it took   *)
(* them, so the first that is valid is the newest that is.                 *)
(***************************************************************************)
LEMMA Quotient ==
  ASSUME NEW n \in Nat \ {0}, NEW a \in Int
  PROVE  \E q \in Int, r \in 0..n - 1 : a = n * q + r /\ a % n = r
<1>1. a \div n \in Int /\ a % n \in 0..n - 1 /\ a = n * (a \div n) + (a % n)
  OBVIOUS
<1> QED BY <1>1

LEMMA Remainder ==
  ASSUME NEW n \in Nat \ {0}, NEW q \in Int, NEW r \in 0..n - 1
  PROVE  (n * q + r) % n = r
OBVIOUS

\* A snapshot moves each slot but the one it writes one further back.
LEMMA FurtherBehind ==
  ASSUME currentSlot \in Nat, currentSlot' = currentSlot + 1,
         NEW s \in SlotId, s # currentSlot % Slots
  PROVE  Behind(s)' = Behind(s) + 1
<1> DEFINE a == currentSlot - 1 - s
<1>1. Slots \in Nat \ {0} /\ a \in Int /\ s \in 0..Slots - 1 /\ currentSlot = a + 1 + s
  BY ConstantTypes DEF SlotId
<1>2. currentSlot' - 1 - s = a + 1
  BY <1>1
<1>3. Behind(s) = a % Slots /\ Behind(s)' = (a + 1) % Slots
  BY <1>2 DEF Behind
<1> HIDE DEF a
<1>4. PICK q \in Int, r \in 0..Slots - 1 : a = Slots * q + r /\ a % Slots = r
  BY <1>1, Quotient
<1>5. r # Slots - 1
  <2> SUFFICES ASSUME r = Slots - 1 PROVE FALSE
    OBVIOUS
  <2>1. currentSlot = Slots * (q + 1) + s
    BY <1>1, <1>4
  <2>2. (Slots * (q + 1) + s) % Slots = s
    BY <1>1, Remainder
  <2> QED BY <2>1, <2>2
<1>6. r + 1 \in 0..Slots - 1 /\ a + 1 = Slots * q + (r + 1)
  BY <1>1, <1>4, <1>5
<1>7. (Slots * q + (r + 1)) % Slots = r + 1
  BY <1>1, <1>6, Remainder
<1> QED BY <1>3, <1>4, <1>6, <1>7

\* The one it writes is the first that is met.
LEMMA FirstBehind ==
  ASSUME currentSlot \in Nat, currentSlot' = currentSlot + 1,
         NEW s \in SlotId, s = currentSlot % Slots
  PROVE  Behind(s)' = 0
<1>1. Slots \in Nat \ {0} /\ 0 \in 0..Slots - 1 /\ currentSlot \in Int
  BY ConstantTypes
<1>2. PICK q \in Int, r \in 0..Slots - 1 :
        currentSlot = Slots * q + r /\ currentSlot % Slots = r
  BY <1>1, Quotient
<1>3. currentSlot' - 1 - s = Slots * q + 0
  BY <1>1, <1>2
<1>4. (Slots * q + 0) % Slots = 0
  BY <1>1, Remainder
<1> QED BY <1>3, <1>4 DEF Behind

\* Snapshots are numbered in turn; the loop writes where the counter points, and
\* rests while the kernel is down.
Numbered ==
  /\ \A s \in SlotId : slot[s].number <= currentSlot
  /\ loop.pc = "snapshot" =>
       /\ loop.file.number = currentSlot + 1
       /\ loop.to = <<"slot", currentSlot % Slots>>
  /\ ~up => loop.pc = "wait"
\* No snapshot that is met before one of this run is older than it.
Ordered ==
  \A s, r \in SlotId :
    (slot[s].number > 0 /\ Behind(r) <= Behind(s)) => slot[r].number >= slot[s].number

NInv == TInv /\ Numbered /\ Ordered

LEMMA NewestInit == Init => NInv
<1> SUFFICES ASSUME Init PROVE Numbered /\ Ordered
  BY TypeInit DEF NInv
<1>1. \A s \in SlotId : slot[s].number = 0
  BY DEF Init, NoFile, Earlier
<1>2. loop.pc = "wait" /\ currentSlot = 0
  BY DEF Init, Waiting
<1> QED BY <1>1, <1>2 DEF Numbered, Ordered

\* No snapshot gets another number, and the loop begins none.
LEMMA NewestKept ==
  ASSUME NInv, \A s \in SlotId : slot'[s].number = slot[s].number,
         UNCHANGED currentSlot, loop' = loop \/ loop'.pc # "snapshot",
         ~up' => loop'.pc = "wait"
  PROVE  Numbered' /\ Ordered'
<1>1. Numbered'
  BY DEF NInv, Numbered
<1>2. Ordered'
  BY DEF NInv, Ordered, Behind
<1> QED BY <1>1, <1>2

\* What is created has no number, and nor has what does not exist.
LEMMA OpenedNumber ==
  ASSUME TInv, NEW at \in SlotId, slot' = [slot EXCEPT ![at] = Opened(slot[at])]
  PROVE  \A s \in SlotId : slot'[s].number = slot[s].number
BY TypeUnfold DEF Opened, NoFile, EmptyFile

LEMMA NewestStep == NInv /\ [Next]_vars => NInv'
<1> SUFFICES ASSUME NInv, TInv, TInv', [Next]_vars PROVE Numbered' /\ Ordered'
  BY TypeStep DEF NInv
<1> USE DEF files, manager, history, ghosts, bounds
<1>f. /\ slot \in [SlotId -> File] /\ currentSlot \in Nat
      /\ \A s \in SlotId : slot[s].number \in Nat
      /\ Aimed /\ Numbered /\ Ordered
  BY TypeUnfold DEF TInv, File, NInv
<1>k. ASSUME slot' = slot PROVE \A s \in SlotId : slot'[s].number = slot[s].number
  BY <1>k
<1>u. ~up => loop.pc = "wait"
  BY <1>f DEF Numbered
<1>n. \* neither the snapshots nor the loop change
      ASSUME UNCHANGED <<slot, loop, currentSlot, up>>
      PROVE  Numbered' /\ Ordered'
  BY <1>k, <1>n, <1>u, NewestKept
<1>z. Waiting.pc = "wait" /\ [Waiting EXCEPT !.pc = "check"].pc = "check"
  BY DEF Waiting
<1>1. CASE PerformBackup
  <2>1. PICK at \in SlotId : at = currentSlot % Slots
    BY <1>f, SlotType
  <2>2. /\ BeginCopy("snapshot", <<"slot", at>>, currentSlot + 1)
        /\ slot' = [slot EXCEPT ![at] = Opened(slot[at])]
        /\ up /\ UNCHANGED <<currentSlot, up>>
    BY <1>1, <2>1 DEF PerformBackup
  <2>3. PICK condition \in Copied :
          loop' = [pc |-> "snapshot", to |-> <<"slot", at>>,
                   file |-> [condition |-> condition, number |-> currentSlot + 1]]
    BY <2>2 DEF BeginCopy
  <2>4. \A s \in SlotId : slot'[s].number = slot[s].number
    BY <2>2, OpenedNumber
  <2>5. loop'.to = <<"slot", at>> /\ loop'.file.number = currentSlot + 1
    BY <2>3
  <2>6. Numbered'
    BY <1>f, <2>1, <2>2, <2>4, <2>5 DEF Numbered
  <2>7. Ordered'
    BY <1>f, <2>2, <2>4 DEF Ordered, Behind
  <2> QED BY <2>6, <2>7
<1>2. CASE SnapshotDone
  <2>1. /\ loop.pc = "snapshot" /\ loop'.pc = "check" /\ currentSlot' = currentSlot + 1
        /\ slot' = [slot EXCEPT ![loop.to[2]] = loop.file]
        /\ UNCHANGED up
    BY <1>2, <1>z DEF SnapshotDone
  <2>2. PICK w \in SlotId : w = currentSlot % Slots
    BY <1>f, SlotType
  <2>3. /\ up /\ loop.to = <<"slot", w>> /\ loop.file.number = currentSlot + 1
        /\ \A s \in SlotId : slot[s].number <= currentSlot
    BY <1>f, <2>1, <2>2 DEF Numbered
  <2>4. \A s \in SlotId : slot'[s] = IF s = w THEN loop.file ELSE slot[s]
    BY <1>f, <2>1, <2>3
  <2>5. loop.file.number \in Nat
    BY <1>f, <2>3
  <2>6. Behind(w)' = 0
    BY <1>f, <2>1, <2>2, FirstBehind
  <2>7. ASSUME NEW s \in SlotId, s # w
        PROVE  Behind(s)' = Behind(s) + 1 /\ Behind(s) \in Nat
    BY <1>f, <2>1, <2>2, <2>7, FurtherBehind, BehindType
  <2>8. ASSUME NEW s \in SlotId, NEW r \in SlotId,
               slot'[s].number > 0, Behind(r)' <= Behind(s)'
        PROVE  slot'[r].number >= slot'[s].number
    <3>1. CASE r = w
      BY <1>f, <2>3, <2>4, <2>5, <3>1
    <3>2. CASE r # w /\ s = w
      BY <2>6, <2>7, <2>8, <3>2
    <3>3. CASE r # w /\ s # w
      <4>1. Behind(r) <= Behind(s)
        BY <2>7, <2>8, <3>3
      <4>2. slot[s].number > 0 /\ slot'[r] = slot[r] /\ slot'[s] = slot[s]
        BY <2>1, <2>4, <2>8, <3>3
      <4> QED BY <1>f, <4>1, <4>2 DEF Ordered
    <3> QED BY <3>1, <3>2, <3>3
  <2>9. Numbered'
    BY <1>f, <2>1, <2>3, <2>4 DEF Numbered
  <2>10. Ordered'
    BY <2>8 DEF Ordered
  <2> QED BY <2>9, <2>10
<1>3. CASE SnapshotFails
  <2>1. PICK at \in SlotId : at = currentSlot % Slots
    BY <1>f, SlotType
  <2>2. /\ up' /\ loop'.pc = "check" /\ UNCHANGED currentSlot
        /\ slot' = slot \/ slot' = [slot EXCEPT ![at] = Opened(slot[at])]
    BY <1>3, <1>z, <2>1 DEF SnapshotFails
  <2>3. \A s \in SlotId : slot'[s].number = slot[s].number
    BY <1>k, <2>2, OpenedNumber
  <2> QED BY <2>2, <2>3, NewestKept
<1>4. CASE CheckDailyArchive
  <2>1. loop.pc = "check" /\ UNCHANGED <<up, slot, currentSlot>>
    BY <1>4 DEF CheckDailyArchive
  <2>2. loop'.pc = "archive"
    BY <1>4 DEF CheckDailyArchive, BeginCopy
  <2> QED BY <1>k, <1>u, <2>1, <2>2, NewestKept
<1>5. CASE ArchiveDone \/ ArchiveSkipped
  <2>1. loop'.pc = "wait" /\ UNCHANGED <<slot, currentSlot>>
    BY <1>5, <1>z DEF ArchiveDone, ArchiveSkipped
  <2> QED BY <1>k, <2>1, NewestKept
<1>6. CASE \E c \in Caller : QueryFails(c) \/ Watchdog(c) \/ WriteFails(c)
  BY <1>6, <1>n
     DEF Watchdog, QueryFails, CheckIgnored, CheckDatabaseError, TryReconnect, RepairCorrupt,
         Restore, RestoreFails, ReadCopy, ReadFails, WritePart, WriteDatabase, WriteFails,
         Reopen
<1>7. CASE NextDay \/ (\E damage \in Damage : DamageFile(damage)) \/ UNCHANGED vars
  BY <1>7, <1>n DEF NextDay, DamageFile, vars
<1>8. CASE Crash
  BY <1>8, <1>k, <1>z, NewestKept DEF Crash
<1>9. CASE Boot
  <2>1. loop'.pc = "wait" /\ currentSlot' = 0 /\ up'
        /\ slot' = [s \in SlotId |-> [slot[s] EXCEPT !.number = 0]]
    BY <1>u, <1>9 DEF Boot
  <2>2. \A s \in SlotId : slot'[s].number = 0
    BY <1>f, <2>1 DEF File
  <2> QED BY <2>1, <2>2 DEF Numbered, Ordered
<1> QED BY <1>1, <1>2, <1>3, <1>4, <1>5, <1>6, <1>7, <1>8, <1>9 DEF Next, Loop

\* Only the choice of a copy takes a goroutine from the search to the reading.
LEMMA ReadingFollowsChoice ==
  ASSUME TInv, [Next]_vars, NEW c \in Caller,
         caller[c].pc = "restore", caller'[c].pc = "read"
  PROVE  UNCHANGED slot /\ caller'[c].from = NewestValidBackup
<1> USE DEF files, manager, history, ghosts, bounds
<1>f. caller \in [Caller -> Calling]
  BY TypeUnfold
<1>1. caller' # caller
  BY <1>f
<1>2. ~Loop /\ ~NextDay /\ ~Boot /\ ~(\E damage \in Damage : DamageFile(damage))
      /\ ~UNCHANGED vars
  BY <1>1 DEF Loop, PerformBackup, SnapshotDone, SnapshotFails, CheckDailyArchive, ArchiveDone,
              ArchiveSkipped, NextDay, Boot, DamageFile, vars
<1>3. ~Crash
  BY DEF Crash, Serving
<1>4. PICK d \in Caller : QueryFails(d) \/ Watchdog(d) \/ WriteFails(d)
  BY <1>2, <1>3 DEF Next
<1>5. d = c
  <2> SUFFICES ASSUME d # c PROVE caller'[c] = caller[c]
    OBVIOUS
  <2> QED BY <1>f, <1>4
          DEF Watchdog, QueryFails, CheckIgnored, CheckDatabaseError, TryReconnect,
              RepairCorrupt, Restore, RestoreFails, ReadCopy, ReadFails, WritePart,
              WriteDatabase, WriteFails, Reopen, Repaired
<1>6. ~RestoreFails(c)
  BY <1>f DEF RestoreFails, Repaired, Serving
<1>7. Restore(c)
  BY <1>4, <1>5, <1>6
     DEF Watchdog, QueryFails, CheckIgnored, CheckDatabaseError, TryReconnect, RepairCorrupt,
         ReadCopy, ReadFails, WritePart, WriteDatabase, WriteFails, Reopen
<1>8. caller'[c].from = NewestValidBackup
  BY <1>f, <1>7 DEF Restore, Calling
<1> QED BY <1>7, <1>8 DEF Restore

LEMMA NewestChosen ==
  ASSUME NInv, [Next]_vars, NEW c \in Caller,
         caller[c].pc = "restore", caller'[c].pc = "read",
         NEW s \in ValidSlots, slot[s].number > 0
  PROVE  At(caller'[c].from).number >= slot[s].number
<1>1. TInv /\ currentSlot \in Nat /\ s \in SlotId /\ Ordered
  BY TypeUnfold DEF NInv, ValidSlots
<1>2. caller'[c].from = NewestValidBackup
  BY <1>1, ReadingFollowsChoice
<1>3. PICK r \in ValidSlots : NewestValidBackup = <<"slot", r>> /\ Behind(r) <= Behind(s)
  BY <1>1, ChoiceFirst
<1>4. At(caller'[c].from) = slot[r] /\ r \in SlotId
  BY <1>2, <1>3 DEF At, ValidSlots
<1> QED BY <1>1, <1>3, <1>4 DEF Ordered

\* Of the snapshots that the running kernel took, a repair takes the newest that
\* is valid, wherever a restart has left the counter and whatever snapshots
\* failed in between (backup.go, newestValidBackup and currentSlot).
THEOREM NewestTaken == Spec => NewestOfRun
<1>1. NInv /\ [Next]_vars =>
        [\A c \in Caller :
           (caller[c].pc = "restore" /\ caller'[c].pc = "read") =>
             \A s \in ValidSlots :
               slot[s].number > 0 => At(caller'[c].from).number >= slot[s].number]_vars
  BY NewestChosen
<1> QED BY <1>1, NewestInit, NewestStep, PTL DEF Spec, NewestOfRun
=============================================================================
