----------------------------- MODULE VaultRestore -----------------------------
(***************************************************************************)
(* Snapshots and restores of a brain vault (internal/brain/backup.go).     *)
(*                                                                         *)
(* A snapshot is a walk over the top-level entries of the vault, one after *)
(* the other.  A restore stages a verified snapshot, takes the vault lock, *)
(* snapshots the vault, moves its entries aside one by one and installs    *)
(* the staged ones one by one; when a rename fails it undoes them in       *)
(* reverse.  Doctor works under the same lock; a capture and a snapshot    *)
(* taken by hand do not.  Any rename may fail and any process may die.     *)
(***************************************************************************)
EXTENDS Naturals, Sequences

CONSTANTS
    Notes, Captures,           \* all notes, and those still to be captured
    Archive, Inbox, Projects,  \* top-level entries; their order is that of the names
    Live, Old,                 \* the vault and the one snapshot at the start
    Keep,                      \* snapshots retained (10 in the code)
    MaxRestores, MaxBackups, MaxWork, MaxFaults  \* bounds on the environment

Tops == {Archive, Inbox, Projects}

\* The entries that are there, with the notes below each.
Tree == UNION {[D -> SUBSET Notes] : D \in SUBSET Tops}

ASSUME VaultAssumption ==
    /\ Tops \subseteq Nat /\ Inbox # Projects /\ Inbox # Archive /\ Archive # Projects
    /\ Captures \subseteq Notes
    /\ Live \in Tree /\ Projects \in DOMAIN Live
    /\ Old \in Tree /\ Projects \in DOMAIN Old
    /\ Keep \in Nat \ {0}
    /\ MaxRestores \in Nat /\ MaxBackups \in Nat /\ MaxWork \in Nat /\ MaxFaults \in Nat

VARIABLES
    root,      \* the vault
    snaps,     \* the snapshots, newest last
    kept,      \* notes in directories that a restore left beside the vault
    lock,      \* the vault lock
    walks,     \* the running snapshot of the lock holder, and one taken by hand
    restore,   \* the running restore
    doctor,    \* the running maintenance pass
    checked,   \* captures that found the vault writable
    accepted,  \* history: captures that were accepted
    during,    \* history: notes captured while a restore held the lock
    budget

copies == <<root, snaps, kept>>
restoreVars == <<copies, lock, walks, restore, doctor, checked, accepted, during, budget>>

Empty         == [e \in {} |-> {}]
Has(t, e)     == e \in DOMAIN t
With(t, e, S) == [x \in DOMAIN t \union {e} |-> IF x = e THEN S ELSE t[x]]
Without(t, e) == [x \in DOMAIN t \ {e} |-> t[x]]
Below(t, e)   == IF Has(t, e) THEN t[e] ELSE {}
NotesIn(t)    == UNION {t[e] : e \in DOMAIN t}

\* os.Rename of a directory: the destination must be absent or empty.
Free(t, e) == Below(t, e) = {}

First(e, S) == e \in S /\ \A x \in S : e <= x
Last(e, S)  == e \in S /\ \A x \in S : x <= e

Initialized == Has(root, Projects)

Snapshot == [tree : Tree, verified : BOOLEAN]
Retained(s) == IF Len(s) <= Keep THEN s ELSE SubSeq(s, Len(s) - Keep + 1, Len(s))

NoWalk    == [on |-> FALSE, todo |-> {}, tree |-> Empty, had |-> {}]
NoRestore == [pc |-> "idle", stage |-> Empty, old |-> Empty, todo |-> {}, saved |-> {},
              installed |-> {}, failed |-> FALSE, from |-> Empty, before |-> Empty]
NoWork    == [pc |-> "idle", note |-> {}]

RestoreInit ==
    /\ root = Live /\ snaps = <<[tree |-> Old, verified |-> TRUE]>> /\ kept = {}
    /\ lock = "free" /\ walks = [w \in {"locked", "manual"} |-> NoWalk]
    /\ restore = NoRestore /\ doctor = NoWork
    /\ checked = {} /\ accepted = {} /\ during = {}
    /\ budget = [restores |-> MaxRestores, backups |-> MaxBackups, work |-> MaxWork,
                 faults |-> MaxFaults]

Spend(what) == budget[what] > 0 /\ budget' = [budget EXCEPT ![what] = @ - 1]

-----------------------------------------------------------------------------
(* Backup: the walk, the archive under its name, its checksum, retention.  *)

StartWalk == [on |-> TRUE, todo |-> DOMAIN root, tree |-> Empty, had |-> NotesIn(root)]

BackupByHand ==
    /\ ~walks["manual"].on /\ Initialized /\ Spend("backups")
    /\ walks' = [walks EXCEPT !["manual"] = StartWalk]
    /\ UNCHANGED <<copies, lock, restore, doctor, checked, accepted, during>>

\* A listed entry that is gone ends the walk with an error.
WalkEntry(w, e) ==
    /\ walks[w].on /\ First(e, walks[w].todo)
    /\ walks' = IF Has(root, e)
                THEN [walks EXCEPT ![w].todo = @ \ {e}, ![w].tree = With(walks[w].tree, e, root[e])]
                ELSE [walks EXCEPT ![w] = NoWalk]
    /\ UNCHANGED <<copies, lock, restore, doctor, checked, accepted, during, budget>>

\* What the holder of the lock does once its snapshot is there.
GoOn ==
    /\ restore' = IF restore.pc = "backup"
                  THEN [restore EXCEPT !.pc = "move", !.todo = DOMAIN root] ELSE restore
    /\ doctor' = IF doctor.pc = "backup" THEN [doctor EXCEPT !.pc = "work"] ELSE doctor

Publish(w) ==
    /\ walks[w].on /\ walks[w].todo = {}
    /\ snaps' = Retained(Append(snaps, [tree |-> walks[w].tree, verified |-> TRUE]))
    /\ walks' = [walks EXCEPT ![w] = NoWalk]
    /\ IF w = "locked" THEN GoOn ELSE UNCHANGED <<restore, doctor>>
    /\ UNCHANGED <<root, kept, lock, checked, accepted, during, budget>>

\* A snapshot fails; one that already has its name lacks its checksum.
LeftBehind(w) ==
    IF walks[w].on /\ walks[w].todo = {}
    THEN {snaps, Append(snaps, [tree |-> walks[w].tree, verified |-> FALSE])}
    ELSE {snaps}

\* Variant: a restore goes on without a snapshot.
RestoreAnyway == GoOn /\ UNCHANGED lock
\* A restore needs its snapshot; Doctor reports the failure and works on.
SnapshotMissing ==
    /\ restore' = IF restore.pc = "backup" THEN NoRestore ELSE restore
    /\ lock' = IF restore.pc = "backup" THEN "free" ELSE lock
    /\ doctor' = IF doctor.pc = "backup" THEN [doctor EXCEPT !.pc = "work"] ELSE doctor

FailBackup(w) ==
    /\ walks[w].on /\ Spend("faults")
    /\ snaps' \in LeftBehind(w)
    /\ walks' = [walks EXCEPT ![w] = NoWalk]
    /\ IF w = "locked" THEN SnapshotMissing ELSE UNCHANGED <<restore, doctor, lock>>
    /\ UNCHANGED <<root, kept, checked, accepted, during>>

-----------------------------------------------------------------------------
(* Restore.                                                                *)

\* The checksum is verified and the whole snapshot extracted, before the lock.
Stage(i) ==
    /\ restore.pc = "idle" /\ Spend("restores")
    /\ snaps[i].verified /\ Has(snaps[i].tree, Projects)
    /\ restore' = [NoRestore EXCEPT !.pc = "staged", !.stage = snaps[i].tree,
                                    !.from = snaps[i].tree]
    /\ UNCHANGED <<copies, lock, walks, doctor, checked, accepted, during>>

\* A directory that is not a vault is refused; a lock that stays taken gives up.
Refuse ==
    /\ restore.pc = "staged" /\ (Initialized => lock # "free")
    /\ restore' = NoRestore
    /\ UNCHANGED <<copies, lock, walks, doctor, checked, accepted, during, budget>>

\* Variant: the lock is taken after the snapshot.
EnterUnlocked ==
    /\ restore.pc = "staged" /\ Initialized /\ doctor.pc # "backup" /\ lock' = "restore"
    /\ restore' = [restore EXCEPT !.pc = "backup", !.before = root]
    /\ walks' = [walks EXCEPT !["locked"] = StartWalk]
    /\ UNCHANGED <<copies, doctor, checked, accepted, during, budget>>
Enter ==
    /\ restore.pc = "staged" /\ Initialized /\ lock = "free" /\ lock' = "restore"
    /\ restore' = [restore EXCEPT !.pc = "backup", !.before = root]
    /\ walks' = [walks EXCEPT !["locked"] = StartWalk]
    /\ UNCHANGED <<copies, doctor, checked, accepted, during, budget>>

Rest == <<snaps, kept, lock, walks, doctor, checked, accepted, during>>

Move(e) ==
    /\ restore.pc = "move" /\ First(e, restore.todo)
    /\ root' = Without(root, e)
    /\ restore' = [restore EXCEPT !.old = With(restore.old, e, root[e]), !.saved = @ \union {e},
                                  !.todo = @ \ {e}]
    /\ UNCHANGED <<Rest, budget>>

Moved ==
    /\ restore.pc = "move" /\ restore.todo = {}
    /\ restore' = [restore EXCEPT !.pc = "install", !.todo = DOMAIN restore.stage]
    /\ UNCHANGED <<root, Rest, budget>>

Install(e) ==
    /\ restore.pc = "install" /\ First(e, restore.todo) /\ Free(root, e)
    /\ root' = With(root, e, restore.stage[e])
    /\ restore' = [restore EXCEPT !.stage = Without(restore.stage, e), !.installed = @ \union {e},
                                  !.todo = @ \ {e}]
    /\ UNCHANGED <<Rest, budget>>

\* The previous tree is removed, or cannot be and is named in the error.
Installed ==
    /\ restore.pc = "install" /\ restore.todo = {}
    /\ restore' = NoRestore /\ lock' = "free"
    /\ kept' \in {kept, kept \union NotesIn(restore.old)}
    /\ UNCHANGED <<root, snaps, walks, doctor, checked, accepted, during, budget>>

\* A rename fails, or finds an inbox that a capture has made again.
Undo == restore' = [restore EXCEPT !.pc = "uninstall", !.todo = restore.installed]
FailRename ==
    /\ restore.pc \in {"move", "install"} /\ Spend("faults")
    /\ Undo /\ UNCHANGED <<root, Rest>>
\* Variant: the entry that is there stays.
SkipOccupied ==
    /\ restore.pc = "install"
    /\ \E e \in restore.todo :
         First(e, restore.todo) /\ ~Free(root, e) /\ restore' = [restore EXCEPT !.todo = @ \ {e}]
    /\ UNCHANGED <<root, Rest, budget>>
Occupied ==
    /\ restore.pc = "install" /\ \E e \in restore.todo : First(e, restore.todo) /\ ~Free(root, e)
    /\ Undo /\ UNCHANGED <<root, Rest, budget>>

\* The rollback goes through both lists backwards; what fails is left and reported.
Uninstall(e) ==
    /\ restore.pc = "uninstall" /\ Last(e, restore.todo)
    /\ root' = Without(root, e)
    /\ restore' = [restore EXCEPT !.stage = With(restore.stage, e, root[e]), !.todo = @ \ {e}]
    /\ UNCHANGED <<Rest, budget>>
Uninstalled ==
    /\ restore.pc = "uninstall" /\ restore.todo = {}
    /\ restore' = [restore EXCEPT !.pc = "unmove", !.todo = restore.saved]
    /\ UNCHANGED <<root, Rest, budget>>
MoveBack(e) ==
    /\ restore.pc = "unmove" /\ Last(e, restore.todo) /\ Free(root, e)
    /\ root' = With(root, e, restore.old[e])
    /\ restore' = [restore EXCEPT !.old = Without(restore.old, e), !.todo = @ \ {e}]
    /\ UNCHANGED <<Rest, budget>>

\* Variant: the failure is not recorded.
LeaveEntry(e) == restore' = [restore EXCEPT !.todo = @ \ {e}]
SkipEntry(e)  == restore' = [restore EXCEPT !.todo = @ \ {e}, !.failed = TRUE]
FailUndo(e) ==
    /\ restore.pc \in {"uninstall", "unmove"} /\ Last(e, restore.todo) /\ Spend("faults")
    /\ SkipEntry(e) /\ UNCHANGED <<root, Rest>>
CannotMoveBack(e) ==
    /\ restore.pc = "unmove" /\ Last(e, restore.todo) /\ ~Free(root, e)
    /\ SkipEntry(e) /\ UNCHANGED <<root, Rest, budget>>

\* The staged tree goes; the previous one stays if any of it is left there.
RolledBack ==
    /\ restore.pc = "unmove" /\ restore.todo = {}
    /\ restore' = NoRestore /\ lock' = "free"
    /\ kept' = IF restore.failed THEN kept \union NotesIn(restore.old) ELSE kept
    /\ UNCHANGED <<root, snaps, walks, doctor, checked, accepted, during, budget>>

\* The process dies: both directories stay, and its lock turns stale.
RestoreDies ==
    /\ restore.pc # "idle" /\ Spend("faults") /\ restore' = NoRestore
    /\ kept' = kept \union NotesIn(restore.old) \union NotesIn(restore.stage)
    /\ IF lock = "restore"
       THEN /\ lock' = "free" /\ walks' = [walks EXCEPT !["locked"] = NoWalk]
            /\ snaps' \in LeftBehind("locked")
       ELSE UNCHANGED <<lock, walks, snaps>>
    /\ UNCHANGED <<root, doctor, checked, accepted, during>>

-----------------------------------------------------------------------------
(* Doctor under the lock, one change of a note per run; captures without.  *)

BeginDoctor ==
    /\ lock = "free" /\ Initialized /\ Spend("work")
    /\ lock' = "doctor" /\ doctor' = [NoWork EXCEPT !.pc = "backup"]
    /\ walks' = [walks EXCEPT !["locked"] = StartWalk]
    /\ UNCHANGED <<copies, restore, checked, accepted, during>>

\* A note is written where it goes, then removed where it was.
WriteNote(n, from, to) ==
    /\ doctor.pc = "work" /\ Has(root, from) /\ n \in root[from]
    /\ root' = With(root, to, Below(root, to) \union {n})
    /\ doctor' = [pc |-> "remove", note |-> {<<from, n>>}]
    /\ UNCHANGED <<snaps, kept, lock, walks, restore, checked, accepted, during, budget>>
Promote(n) == WriteNote(n, Inbox, Projects)
Retire(n)  == WriteNote(n, Projects, Archive)

RemoveNote ==
    /\ doctor.pc = "remove"
    /\ \E s \in doctor.note : root' = With(root, s[1], root[s[1]] \ {s[2]})
    /\ doctor' = [NoWork EXCEPT !.pc = "done"]
    /\ UNCHANGED <<snaps, kept, lock, walks, restore, checked, accepted, during, budget>>

\* Doctor returns, or dies.
EndDoctor ==
    /\ doctor.pc \in {"work", "done"} /\ doctor' = NoWork /\ lock' = "free"
    /\ UNCHANGED <<copies, walks, restore, checked, accepted, during, budget>>
DoctorDies ==
    /\ doctor.pc # "idle" /\ Spend("faults") /\ doctor' = NoWork /\ lock' = "free"
    /\ snaps' \in LeftBehind("locked") /\ walks' = [walks EXCEPT !["locked"] = NoWalk]
    /\ UNCHANGED <<root, kept, restore, checked, accepted, during>>

CheckWritable(n) ==
    /\ n \in Captures \ (checked \union accepted) /\ Initialized
    /\ checked' = checked \union {n}
    /\ UNCHANGED <<copies, lock, walks, restore, doctor, accepted, during, budget>>
\* The inbox is made if it is not there.
PublishCapture(n) ==
    /\ n \in checked /\ checked' = checked \ {n}
    /\ root' = With(root, Inbox, Below(root, Inbox) \union {n})
    /\ accepted' = accepted \union {n}
    /\ during' = IF lock = "restore" THEN during \union {n} ELSE during
    /\ UNCHANGED <<snaps, kept, lock, walks, restore, doctor, budget>>

-----------------------------------------------------------------------------
RestoreStep ==
    \/ Refuse \/ Enter \/ Moved \/ Installed \/ Occupied \/ FailRename
    \/ Uninstalled \/ RolledBack \/ RestoreDies
    \/ \E e \in Tops : \/ Move(e) \/ Install(e) \/ Uninstall(e)
                       \/ MoveBack(e) \/ CannotMoveBack(e) \/ FailUndo(e)

DoctorStep ==
    \/ BeginDoctor \/ RemoveNote \/ EndDoctor \/ DoctorDies
    \/ \E n \in Notes : Promote(n) \/ Retire(n)

RestoreNext ==
    \/ \E i \in DOMAIN snaps : Stage(i)
    \/ RestoreStep
    \/ DoctorStep
    \/ BackupByHand
    \/ \E w \in {"locked", "manual"} : Publish(w) \/ FailBackup(w)
    \/ \E w \in {"locked", "manual"}, e \in Tops : WalkEntry(w, e)
    \/ \E n \in Captures : CheckWritable(n) \/ PublishCapture(n)

RestoreSpec == RestoreInit /\ [][RestoreNext]_restoreVars

-----------------------------------------------------------------------------
\* Copies of notes that somebody can get back at.
Safe == NotesIn(root) \union kept \union NotesIn(restore.old)
          \union UNION {NotesIn(s.tree) : s \in {snaps[i] : i \in DOMAIN snaps} \intersect
                                                [tree : Tree, verified : {TRUE}]}

\* What a restore may cost: a note that only the restored snapshot held may go
\* with it when the restore is undone.
Concerned == IF restore.pc \in {"idle", "staged"} THEN Notes ELSE NotesIn(restore.before)

\* A restore, whether it succeeds, fails, fails to undo itself or dies anywhere,
\* loses no note the vault held when it took the lock; nor does any other step
\* but the removal of an old snapshot. It takes Keep snapshots by hand during
\* one restore to push its safety snapshot out (MaxBackups < Keep in the runs).
OnlyRetentionForgets ==
    [][snaps' = snaps => (Concerned \intersect Safe) \ Safe' \subseteq during]_restoreVars

\* Captures aside, these entries are those of the tree.
SameAs(t) ==
    /\ \A e \in DOMAIN t : Has(root, e) /\ t[e] \subseteq root[e]
    /\ \A e \in DOMAIN root : root[e] \subseteq during \union Below(t, e)
    /\ DOMAIN root \subseteq DOMAIN t \union {Inbox}

\* A restore that reports success has installed the snapshot, the whole of it
\* and nothing else.
InstalledIsSnapshot ==
    restore.pc = "install" /\ restore.todo = {} => SameAs(restore.from)

\* A restore that reports the previous vault restored has restored it.
RolledBackIsWhole ==
    restore.pc = "unmove" /\ restore.todo = {} /\ ~restore.failed => SameAs(restore.before)

\* A snapshot that is taken under the lock holds every note the vault held when
\* it began, although it reads one entry after the other.
LockedSnapshotIsComplete ==
    walks["locked"].on /\ walks["locked"].todo = {} =>
        walks["locked"].had \subseteq NotesIn(walks["locked"].tree)

=============================================================================
