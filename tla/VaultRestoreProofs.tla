-------------------------- MODULE VaultRestoreProofs --------------------------
(***************************************************************************)
(* Snapshots and restores, proved for every vault, every number of notes   *)
(* and every bound of the environment.                                     *)
(*                                                                         *)
(* The invariant says, for each phase of a restore, which entries are in   *)
(* the vault, which lie beside it and which are staged: the set of entries *)
(* a phase has yet to treat divides them, and captures, which take no      *)
(* lock, may add to the inbox at any time.                                 *)
(***************************************************************************)
EXTENDS VaultRestore, SequenceTheorems, TLAPS

Holding == {"backup", "move", "install", "uninstall", "unmove"}
Changing == Holding \ {"backup"}

Walk == [on : BOOLEAN, todo : SUBSET Tops, tree : Tree, had : SUBSET Notes]
Restore == [pc : {"idle", "staged"} \union Holding, stage : Tree, old : Tree,
            todo : SUBSET Tops, saved : SUBSET Tops, installed : SUBSET Tops,
            failed : BOOLEAN, from : Tree, before : Tree]
Work == [pc : {"idle", "backup", "work", "remove", "done"},
         note : SUBSET (Tops \X Notes)]
Budget == [{"restores", "backups", "work", "faults"} -> Nat]

VaultTyped ==
    /\ root \in Tree /\ snaps \in Seq(Snapshot) /\ kept \subseteq Notes
    /\ lock \in {"free", "restore", "doctor"}
    /\ walks \in [{"locked", "manual"} -> Walk]
    /\ restore \in Restore /\ doctor \in Work
    /\ checked \subseteq Captures /\ accepted \subseteq Captures /\ during \subseteq Captures
    /\ budget \in Budget

LockHolds ==
    /\ lock = "restore" <=> restore.pc \in Holding
    /\ lock = "doctor" <=> doctor.pc # "idle"
    /\ walks["locked"].on <=> (restore.pc = "backup" \/ doctor.pc = "backup")

WalkHolds ==
    walks["locked"].on =>
       /\ walks["locked"].todo \subseteq DOMAIN root
       /\ walks["locked"].todo \intersect DOMAIN walks["locked"].tree = {}
       /\ \A m \in walks["locked"].had :
            \/ \E e \in DOMAIN walks["locked"].tree : m \in walks["locked"].tree[e]
            \/ \E e \in walks["locked"].todo : m \in root[e]

DoctorHolds ==
    doctor.pc = "remove" =>
       \E f \in DOMAIN root, e \in DOMAIN root, m \in Notes :
          doctor.note = {<<f, m>>} /\ e # f /\ m \in root[e]

\* Nothing below these entries but what was captured since, or was below them in t.
Stems(t, S, u) == \A e \in S : u[e] \subseteq during \union Below(t, e)

QuietHolds ==
    restore.pc \in {"idle", "staged", "backup"} =>
       /\ restore.old = Empty /\ restore.saved = {} /\ restore.installed = {}
       /\ restore.failed = FALSE
       /\ restore.stage = restore.from

BackupHolds ==
    restore.pc = "backup" =>
       /\ NotesIn(restore.before) = walks["locked"].had
       /\ SameAs(restore.before)

NoteHolds ==
    restore.pc \in Changing =>
       /\ \A e \in DOMAIN restore.before :
            \/ e \in DOMAIN restore.old /\ restore.before[e] \subseteq restore.old[e]
            \/ /\ e \notin DOMAIN restore.old /\ e \in DOMAIN root
               /\ restore.before[e] \subseteq root[e]
       /\ Stems(restore.before, DOMAIN restore.old, restore.old)
       /\ DOMAIN restore.old \subseteq DOMAIN restore.before \union {Inbox}
       /\ restore.pc # "unmove" => restore.saved = DOMAIN restore.old

MoveHolds ==
    restore.pc = "move" =>
       /\ restore.installed = {} /\ restore.stage = restore.from /\ ~restore.failed
       /\ restore.saved \intersect restore.todo = {}
       /\ restore.todo \subseteq DOMAIN root
       /\ DOMAIN root \subseteq restore.todo \union {Inbox}
       /\ restore.todo \subseteq DOMAIN restore.before \union {Inbox}
       /\ DOMAIN restore.before \subseteq restore.saved \union restore.todo
       /\ Stems(restore.before, restore.todo, root)
       /\ Stems(Empty, DOMAIN root \ restore.todo, root)

InstallHolds ==
    restore.pc = "install" =>
       /\ restore.todo = DOMAIN restore.stage /\ ~restore.failed
       /\ restore.installed \intersect restore.todo = {}
       /\ DOMAIN restore.from = restore.installed \union restore.todo
       /\ \A e \in restore.todo : restore.stage[e] = restore.from[e]
       /\ restore.installed \subseteq DOMAIN root
       /\ DOMAIN root \subseteq restore.installed \union {Inbox}
       /\ DOMAIN restore.before \subseteq restore.saved
       /\ \A e \in restore.installed : restore.from[e] \subseteq root[e]
       /\ Stems(restore.from, restore.installed, root)
       /\ Stems(Empty, DOMAIN root \ restore.installed, root)

UninstallHolds ==
    restore.pc = "uninstall" =>
       /\ restore.todo \subseteq DOMAIN root
       /\ restore.todo # {} => DOMAIN restore.before \subseteq restore.saved
       /\ ~restore.failed =>
            /\ DOMAIN root \subseteq restore.todo \union DOMAIN restore.before \union {Inbox}
            /\ Stems(restore.before, DOMAIN root \ restore.todo, root)

UnmoveHolds ==
    restore.pc = "unmove" =>
       /\ restore.todo \subseteq DOMAIN restore.old
       /\ ~restore.failed =>
            /\ restore.todo = DOMAIN restore.old
            /\ DOMAIN root \subseteq DOMAIN restore.before \union {Inbox}
            /\ Stems(restore.before, DOMAIN root, root)

VaultInv ==
    /\ VaultTyped /\ LockHolds /\ WalkHolds /\ DoctorHolds /\ QuietHolds /\ BackupHolds
    /\ NoteHolds /\ MoveHolds /\ InstallHolds /\ UninstallHolds /\ UnmoveHolds

RestoreHolds == QuietHolds /\ NoteHolds /\ MoveHolds /\ InstallHolds /\ UninstallHolds /\ UnmoveHolds

-----------------------------------------------------------------------------
(* Trees.                                                                  *)

LEMMA TreeElim ==
    ASSUME NEW t \in Tree
    PROVE  DOMAIN t \subseteq Tops /\ (\A e \in DOMAIN t : t[e] \subseteq Notes)
<1>1. PICK D \in SUBSET Tops : t \in [D -> SUBSET Notes]
  BY DEF Tree
<1>. QED
  BY <1>1

LEMMA TreeIntro ==
    ASSUME NEW D \in SUBSET Tops, NEW t \in [D -> SUBSET Notes]
    PROVE  t \in Tree
BY DEF Tree

LEMMA WithFacts ==
    ASSUME NEW t \in Tree, NEW e \in Tops, NEW S \in SUBSET Notes
    PROVE  /\ With(t, e, S) \in Tree
           /\ DOMAIN With(t, e, S) = DOMAIN t \union {e}
           /\ With(t, e, S)[e] = S
           /\ \A x \in DOMAIN t : x # e => With(t, e, S)[x] = t[x]
<1>1. DOMAIN t \subseteq Tops /\ \A x \in DOMAIN t : t[x] \subseteq Notes
  BY TreeElim
<1>2. With(t, e, S) \in [DOMAIN t \union {e} -> SUBSET Notes]
  BY <1>1 DEF With
<1>3. With(t, e, S) \in Tree
  BY <1>1, <1>2, TreeIntro
<1>. QED
  BY <1>3 DEF With

LEMMA WithoutFacts ==
    ASSUME NEW t \in Tree, NEW e
    PROVE  /\ Without(t, e) \in Tree
           /\ DOMAIN Without(t, e) = DOMAIN t \ {e}
           /\ \A x \in DOMAIN t : x # e => Without(t, e)[x] = t[x]
<1>1. DOMAIN t \subseteq Tops /\ \A x \in DOMAIN t : t[x] \subseteq Notes
  BY TreeElim
<1>2. Without(t, e) \in [DOMAIN t \ {e} -> SUBSET Notes]
  BY <1>1 DEF Without
<1>3. Without(t, e) \in Tree
  BY <1>1, <1>2, TreeIntro
<1>. QED
  BY <1>3 DEF Without

LEMMA EmptyFacts == Empty \in Tree /\ DOMAIN Empty = {}
<1>1. Empty \in [{} -> SUBSET Notes]
  BY DEF Empty
<1>. QED
  BY <1>1, TreeIntro DEF Empty

LEMMA NotesFacts ==
    ASSUME NEW t \in Tree
    PROVE  /\ NotesIn(t) \subseteq Notes
           /\ \A e : Below(t, e) \subseteq Notes
           /\ \A m : m \in NotesIn(t) <=> \E e \in DOMAIN t : m \in t[e]
<1>1. \A e \in DOMAIN t : t[e] \subseteq Notes
  BY TreeElim
<1>. QED
  BY <1>1 DEF NotesIn, Below, Has

LEMMA NoThings ==
    /\ NoWalk \in Walk /\ NoRestore \in Restore /\ NoWork \in Work
    /\ NoWalk.on = FALSE
    /\ NoRestore.pc = "idle" /\ NoRestore.old = Empty /\ NoRestore.saved = {}
    /\ NoRestore.installed = {} /\ NoRestore.failed = FALSE
    /\ NoRestore.stage = Empty /\ NoRestore.from = Empty
    /\ NoWork.pc = "idle"
BY EmptyFacts DEF NoWalk, NoRestore, NoWork, Walk, Restore, Work, Holding

\* Entries are of the vault; the notes to be captured are notes.
LEMMA Constants ==
    /\ Archive \in Tops /\ Inbox \in Tops /\ Projects \in Tops
    /\ Inbox # Projects /\ Inbox # Archive /\ Archive # Projects
    /\ Captures \subseteq Notes
BY VaultAssumption DEF Tops

-----------------------------------------------------------------------------
(* Typing.                                                                 *)

LEMMA SnapshotTyped ==
    ASSUME NEW t \in Tree, NEW b \in BOOLEAN
    PROVE  [tree |-> t, verified |-> b] \in Snapshot
BY DEF Snapshot

LEMMA RetainedTyped ==
    ASSUME NEW s \in Seq(Snapshot)
    PROVE  Retained(s) \in Seq(Snapshot)
<1>1. Len(s) \in Nat /\ Keep \in Nat \ {0}
  BY LenProperties, VaultAssumption
<1>2. CASE Len(s) <= Keep
  BY <1>2 DEF Retained
<1>3. CASE ~(Len(s) <= Keep)
  <2>1. Len(s) - Keep + 1 \in 1 .. Len(s) + 1
    BY <1>1, <1>3
  <2>2. SubSeq(s, Len(s) - Keep + 1, Len(s)) \in Seq(Snapshot)
    BY <1>1, <2>1, SubSeqProperties
  <2>. QED
    BY <1>3, <2>2 DEF Retained
<1>. QED
  BY <1>2, <1>3

LEMMA BudgetTyped ==
    ASSUME budget \in Budget, NEW w \in {"restores", "backups", "work", "faults"}, Spend(w)
    PROVE  budget' \in Budget
<1>1. budget[w] \in Nat /\ budget[w] > 0
  BY DEF Budget, Spend
<1>2. budget[w] - 1 \in Nat
  BY <1>1
<1>3. budget' = [budget EXCEPT ![w] = @ - 1]
  BY DEF Spend
<1>. QED
  BY <1>2, <1>3 DEF Budget

LEMMA LeftBehindTyped ==
    ASSUME VaultTyped, NEW w \in {"locked", "manual"}, NEW s \in LeftBehind(w)
    PROVE  s \in Seq(Snapshot)
<1>1. walks[w] \in Walk /\ snaps \in Seq(Snapshot)
  BY DEF VaultTyped
<1>2. [tree |-> walks[w].tree, verified |-> FALSE] \in Snapshot
  BY <1>1, SnapshotTyped DEF Walk
<1>3. Append(snaps, [tree |-> walks[w].tree, verified |-> FALSE]) \in Seq(Snapshot)
  BY <1>1, <1>2, AppendProperties
<1>. QED
  BY <1>1, <1>3 DEF LeftBehind

LEMMA WalksTyped ==
    ASSUME VaultTyped, NEW w \in {"locked", "manual"}, NEW k \in Walk
    PROVE  [walks EXCEPT ![w] = k] \in [{"locked", "manual"} -> Walk]
BY DEF VaultTyped

LEMMA StartTyped ==
    ASSUME VaultTyped
    PROVE  StartWalk \in Walk
<1>1. root \in Tree
  BY DEF VaultTyped
<1>2. DOMAIN root \subseteq Tops /\ NotesIn(root) \subseteq Notes
  BY <1>1, TreeElim, NotesFacts
<1>. QED
  BY <1>2, EmptyFacts DEF StartWalk, Walk

\* What a walk is after it has read an entry.
LEMMA EntryRead ==
    ASSUME VaultTyped, NEW w \in {"locked", "manual"}, NEW e \in Tops, WalkEntry(w, e),
           Has(root, e)
    PROVE  /\ walks' \in [{"locked", "manual"} -> Walk]
           /\ walks'[w].on = walks[w].on
           /\ walks'[w].todo = walks[w].todo \ {e}
           /\ walks'[w].tree = With(walks[w].tree, e, root[e])
           /\ walks'[w].had = walks[w].had
           /\ \A v \in {"locked", "manual"} \ {w} : walks'[v] = walks[v]
<1>1. walks \in [{"locked", "manual"} -> Walk] /\ walks[w] \in Walk /\ root \in Tree
  BY DEF VaultTyped
<1>2. walks[w].tree \in Tree /\ root[e] \in SUBSET Notes
  BY <1>1, TreeElim DEF Walk, Has
<1>3. With(walks[w].tree, e, root[e]) \in Tree
  BY <1>2, WithFacts
<1>4. walks' = [walks EXCEPT ![w].todo = @ \ {e}, ![w].tree = With(walks[w].tree, e, root[e])]
  BY DEF WalkEntry
<1>5. walks' = [walks EXCEPT ![w] = [walks[w] EXCEPT !.todo = @ \ {e},
                                        !.tree = With(walks[w].tree, e, root[e])]]
  BY <1>1, <1>4
<1>6. [walks[w] EXCEPT !.todo = @ \ {e}, !.tree = With(walks[w].tree, e, root[e])] \in Walk
  BY <1>1, <1>3 DEF Walk
<1>. QED
  BY <1>1, <1>5, <1>6 DEF Walk

LEMMA SnapsPublished ==
    ASSUME VaultTyped, NEW w \in {"locked", "manual"}, Publish(w)
    PROVE  snaps' \in Seq(Snapshot)
<1>1. walks[w] \in Walk /\ snaps \in Seq(Snapshot)
  BY DEF VaultTyped
<1>2. [tree |-> walks[w].tree, verified |-> TRUE] \in Snapshot
  BY <1>1, SnapshotTyped DEF Walk
<1>3. Append(snaps, [tree |-> walks[w].tree, verified |-> TRUE]) \in Seq(Snapshot)
  BY <1>1, <1>2, AppendProperties
<1>. QED
  BY <1>3, RetainedTyped DEF Publish

\* Steps of a snapshot keep the types.
LEMMA BackupTyped ==
    ASSUME VaultTyped, NEW w \in {"locked", "manual"},
           \/ BackupByHand
           \/ \E e \in Tops : WalkEntry(w, e)
           \/ Publish(w)
           \/ FailBackup(w)
    PROVE  VaultTyped'
<1>1. /\ restore \in Restore /\ doctor \in Work /\ root \in Tree /\ budget \in Budget
      /\ walks \in [{"locked", "manual"} -> Walk]
  BY DEF VaultTyped
<1>2. DOMAIN root \subseteq Tops
  BY <1>1, TreeElim
<1>3. GoOn => restore' \in Restore /\ doctor' \in Work
  <2>1. [restore EXCEPT !.pc = "move", !.todo = DOMAIN root] \in Restore
    BY <1>1, <1>2 DEF Restore, Holding
  <2>2. [doctor EXCEPT !.pc = "work"] \in Work
    BY <1>1 DEF Work
  <2>. QED
    BY <1>1, <2>1, <2>2 DEF GoOn
<1>4. SnapshotMissing => /\ restore' \in Restore /\ doctor' \in Work
                         /\ lock' \in {"free", "restore", "doctor"}
  <2>1. [doctor EXCEPT !.pc = "work"] \in Work
    BY <1>1 DEF Work
  <2>2. lock \in {"free", "restore", "doctor"}
    BY DEF VaultTyped
  <2>. QED
    BY <1>1, <2>1, <2>2, NoThings DEF SnapshotMissing
<1>5. CASE BackupByHand
  <2>1. walks' \in [{"locked", "manual"} -> Walk] /\ budget' \in Budget
    BY <1>1, <1>5, WalksTyped, StartTyped, BudgetTyped DEF BackupByHand
  <2>. QED
    BY <1>5, <2>1 DEF BackupByHand, VaultTyped, copies
<1>6. ASSUME NEW e \in Tops, WalkEntry(w, e) PROVE VaultTyped'
  <2>1. walks' \in [{"locked", "manual"} -> Walk]
    <3>1. CASE Has(root, e)
      BY <1>6, <3>1, EntryRead
    <3>2. CASE ~Has(root, e)
      BY <1>6, <3>2, WalksTyped, NoThings DEF WalkEntry
    <3>. QED
      BY <3>1, <3>2
  <2>. QED
    BY <1>6, <2>1 DEF WalkEntry, VaultTyped, copies
<1>7. CASE Publish(w)
  <2>1. snaps' \in Seq(Snapshot) /\ walks' \in [{"locked", "manual"} -> Walk]
    BY <1>7, SnapsPublished, WalksTyped, NoThings DEF Publish
  <2>2. restore' \in Restore /\ doctor' \in Work
    BY <1>1, <1>3, <1>7 DEF Publish
  <2>. QED
    BY <1>7, <2>1, <2>2 DEF Publish, VaultTyped
<1>8. CASE FailBackup(w)
  <2>1. snaps' \in Seq(Snapshot)
    BY <1>8, LeftBehindTyped DEF FailBackup
  <2>2. walks' \in [{"locked", "manual"} -> Walk] /\ budget' \in Budget
    BY <1>1, <1>8, WalksTyped, NoThings, BudgetTyped DEF FailBackup
  <2>3. restore' \in Restore /\ doctor' \in Work /\ lock' \in {"free", "restore", "doctor"}
    <3>1. lock \in {"free", "restore", "doctor"}
      BY DEF VaultTyped
    <3>. QED
      BY <1>1, <1>4, <1>8, <3>1 DEF FailBackup
  <2>. QED
    BY <1>8, <2>1, <2>2, <2>3 DEF FailBackup, VaultTyped
<1>. QED
  BY <1>5, <1>6, <1>7, <1>8

-----------------------------------------------------------------------------
(* The steps between taking the lock and giving it back.                   *)

\* What such a step leaves alone.
LEMMA ChangeFrame ==
    ASSUME VaultInv, restore.pc \in Changing, UNCHANGED Rest,
           restore'.pc \in Changing, restore' \in Restore, root' \in Tree, budget' \in Budget,
           NoteHolds', MoveHolds', InstallHolds', UninstallHolds', UnmoveHolds'
    PROVE  VaultInv'
<1>1. VaultTyped'
  BY DEF VaultInv, VaultTyped, Rest
<1>2. LockHolds'
  BY DEF VaultInv, LockHolds, Rest, Changing, Holding
<1>3. ~walks'["locked"].on /\ doctor'.pc = "idle"
  BY DEF VaultInv, VaultTyped, LockHolds, Rest, Changing, Holding
<1>4. WalkHolds' /\ DoctorHolds'
  BY <1>3 DEF WalkHolds, DoctorHolds
<1>5. QuietHolds' /\ BackupHolds'
  BY DEF QuietHolds, BackupHolds, Changing, Holding
<1>. QED
  BY <1>1, <1>2, <1>4, <1>5 DEF VaultInv

\* The trees of a restore, and what the invariant says of them in any phase.
LEMMA RestoreFacts ==
    ASSUME VaultInv
    PROVE  /\ restore \in Restore /\ root \in Tree /\ budget \in Budget
           /\ restore.stage \in Tree /\ restore.old \in Tree
           /\ restore.from \in Tree /\ restore.before \in Tree
           /\ restore.todo \subseteq Tops /\ restore.saved \subseteq Tops
           /\ restore.installed \subseteq Tops
BY DEF VaultInv, VaultTyped, Restore

\* An entry is moved aside: the copy beside the vault takes over.
LEMMA MoveStep ==
    ASSUME VaultInv, NEW e \in Tops, Move(e)
    PROVE  VaultInv'
<1>. DEFINE r == [restore EXCEPT !.old = With(restore.old, e, root[e]),
                                 !.saved = @ \union {e}, !.todo = @ \ {e}]
<1>1. /\ restore \in Restore /\ root \in Tree /\ restore.old \in Tree
      /\ restore.pc = "move" /\ e \in restore.todo
  BY RestoreFacts DEF Move, First
<1>2. NoteHolds /\ MoveHolds
  BY DEF VaultInv
<1>3. e \in DOMAIN root /\ e \notin DOMAIN restore.old /\ root[e] \in SUBSET Notes
  BY <1>1, <1>2, TreeElim DEF NoteHolds, MoveHolds, Changing, Holding
<1>4. With(restore.old, e, root[e]) \in Tree
  BY <1>1, <1>3, WithFacts
<1>5. r \in Restore
  BY <1>1, <1>4 DEF Restore
<1>6. /\ r.pc = "move" /\ r.stage = restore.stage /\ r.old = With(restore.old, e, root[e])
      /\ r.saved = restore.saved \union {e} /\ r.todo = restore.todo \ {e}
      /\ r.installed = restore.installed /\ r.failed = restore.failed
      /\ r.from = restore.from /\ r.before = restore.before
  BY <1>1 DEF Restore
<1>7. restore' = r
  BY DEF Move
<1>. HIDE DEF r
<1>8. /\ restore'.pc = "move" /\ restore'.stage = restore.stage
      /\ restore'.old = With(restore.old, e, root[e])
      /\ restore'.saved = restore.saved \union {e} /\ restore'.todo = restore.todo \ {e}
      /\ restore'.installed = restore.installed /\ restore'.failed = restore.failed
      /\ restore'.from = restore.from /\ restore'.before = restore.before
  BY <1>6, <1>7
<1>9. /\ DOMAIN restore'.old = DOMAIN restore.old \union {e} /\ restore'.old[e] = root[e]
      /\ \A x \in DOMAIN restore.old : restore'.old[x] = restore.old[x]
  <2>1. /\ DOMAIN With(restore.old, e, root[e]) = DOMAIN restore.old \union {e}
        /\ With(restore.old, e, root[e])[e] = root[e]
        /\ \A x \in DOMAIN restore.old :
             x # e => With(restore.old, e, root[e])[x] = restore.old[x]
    BY DEF With
  <2>. QED
    BY <1>3, <1>8, <2>1
<1>10. /\ root' \in Tree /\ DOMAIN root' = DOMAIN root \ {e}
       /\ \A x \in DOMAIN root : x # e => root'[x] = root[x]
  BY <1>1, WithoutFacts DEF Move
<1>11. UNCHANGED Rest /\ budget' = budget /\ during' = during
  BY DEF Move, Rest
<1>12. NoteHolds'
  <2>1. \A x \in DOMAIN restore.before :
          \/ x \in DOMAIN restore'.old /\ restore.before[x] \subseteq restore'.old[x]
          \/ /\ x \notin DOMAIN restore'.old /\ x \in DOMAIN root'
             /\ restore.before[x] \subseteq root'[x]
    <3>1. \A x \in DOMAIN restore.before :
            \/ x \in DOMAIN restore.old /\ restore.before[x] \subseteq restore.old[x]
            \/ /\ x \notin DOMAIN restore.old /\ x \in DOMAIN root
               /\ restore.before[x] \subseteq root[x]
      BY <1>1, <1>2 DEF NoteHolds, Changing, Holding
    <3>. QED
      BY <1>3, <1>9, <1>10, <3>1
  <2>2. Stems(restore.before, DOMAIN restore'.old, restore'.old)
    BY <1>1, <1>2, <1>9 DEF Stems, NoteHolds, MoveHolds, Changing, Holding
  <2>3. /\ DOMAIN restore'.old \subseteq DOMAIN restore.before \union {Inbox}
        /\ restore'.saved = DOMAIN restore'.old
    BY <1>1, <1>2, <1>8, <1>9 DEF NoteHolds, MoveHolds, Changing, Holding
  <2>. QED
    BY <1>8, <1>11, <2>1, <2>2, <2>3 DEF NoteHolds, Stems
<1>13. MoveHolds'
  <2>1. Stems(restore.before, restore'.todo, root')
    BY <1>1, <1>2, <1>8, <1>10 DEF Stems, MoveHolds
  <2>2. Stems(Empty, DOMAIN root' \ restore'.todo, root')
    BY <1>1, <1>2, <1>8, <1>10 DEF Stems, MoveHolds
  <2>. QED
    BY <1>1, <1>2, <1>8, <1>10, <1>11, <2>1, <2>2 DEF MoveHolds, Stems
<1>14. InstallHolds' /\ UninstallHolds' /\ UnmoveHolds'
  BY <1>8 DEF InstallHolds, UninstallHolds, UnmoveHolds
<1>15. restore' \in Restore /\ restore.pc \in Changing /\ restore'.pc \in Changing
       /\ budget' \in Budget
  BY <1>1, <1>5, <1>7, <1>8, <1>11, RestoreFacts DEF Changing, Holding
<1>. QED
  BY <1>10, <1>11, <1>12, <1>13, <1>14, <1>15, ChangeFrame

\* Every entry is aside: the installation begins.
LEMMA MovedStep ==
    ASSUME VaultInv, Moved
    PROVE  VaultInv'
<1>. DEFINE r == [restore EXCEPT !.pc = "install", !.todo = DOMAIN restore.stage]
<1>1. /\ restore \in Restore /\ root \in Tree /\ restore.stage \in Tree
      /\ restore.pc = "move" /\ restore.todo = {}
  BY RestoreFacts DEF Moved
<1>2. NoteHolds /\ MoveHolds
  BY DEF VaultInv
<1>3. DOMAIN restore.stage \subseteq Tops
  BY <1>1, TreeElim
<1>4. r \in Restore
  BY <1>1, <1>3 DEF Restore, Holding
<1>5. /\ r.pc = "install" /\ r.stage = restore.stage /\ r.old = restore.old
      /\ r.saved = restore.saved /\ r.todo = DOMAIN restore.stage
      /\ r.installed = restore.installed /\ r.failed = restore.failed
      /\ r.from = restore.from /\ r.before = restore.before
  BY <1>1 DEF Restore
<1>6. restore' = r
  BY DEF Moved
<1>. HIDE DEF r
<1>7. /\ restore'.pc = "install" /\ restore'.stage = restore.stage
      /\ restore'.old = restore.old
      /\ restore'.saved = restore.saved /\ restore'.todo = DOMAIN restore.stage
      /\ restore'.installed = restore.installed /\ restore'.failed = restore.failed
      /\ restore'.from = restore.from /\ restore'.before = restore.before
  BY <1>5, <1>6
<1>8. UNCHANGED Rest /\ budget' = budget /\ during' = during /\ root' = root
  BY DEF Moved, Rest
<1>9. NoteHolds'
  BY <1>1, <1>2, <1>7, <1>8 DEF NoteHolds, Stems, Changing, Holding
<1>10. InstallHolds'
  <2>1. /\ restore.installed = {} /\ restore.stage = restore.from /\ ~restore.failed
        /\ DOMAIN root \subseteq {Inbox}
        /\ DOMAIN restore.before \subseteq restore.saved
        /\ Stems(Empty, DOMAIN root, root)
    BY <1>1, <1>2 DEF MoveHolds, Stems
  <2>2. Stems(Empty, DOMAIN root' \ restore'.installed, root')
    BY <2>1, <1>7, <1>8 DEF Stems
  <2>3. Stems(restore.from, restore'.installed, root')
    BY <2>1, <1>7 DEF Stems
  <2>. QED
    BY <2>1, <2>2, <2>3, <1>7, <1>8 DEF InstallHolds, Stems
<1>11. MoveHolds' /\ UninstallHolds' /\ UnmoveHolds'
  BY <1>7 DEF MoveHolds, UninstallHolds, UnmoveHolds
<1>12. restore' \in Restore /\ restore.pc \in Changing /\ restore'.pc \in Changing
       /\ budget' \in Budget /\ root' \in Tree
  BY <1>1, <1>4, <1>6, <1>7, <1>8, RestoreFacts DEF Changing, Holding
<1>. QED
  BY <1>8, <1>9, <1>10, <1>11, <1>12, ChangeFrame

\* An entry is installed where there is nothing to lose.
LEMMA InstallStep ==
    ASSUME VaultInv, NEW e \in Tops, Install(e)
    PROVE  VaultInv'
<1>. DEFINE r == [restore EXCEPT !.stage = Without(restore.stage, e),
                                 !.installed = @ \union {e}, !.todo = @ \ {e}]
<1>1. /\ restore \in Restore /\ root \in Tree /\ restore.stage \in Tree
      /\ restore.pc = "install" /\ e \in restore.todo /\ Free(root, e)
  BY RestoreFacts DEF Install, First
<1>2. NoteHolds /\ InstallHolds
  BY DEF VaultInv
<1>3. e \in DOMAIN restore.stage /\ restore.stage[e] \in SUBSET Notes
  BY <1>1, <1>2, TreeElim DEF InstallHolds
<1>4. Without(restore.stage, e) \in Tree
  BY <1>1, WithoutFacts
<1>5. r \in Restore
  BY <1>1, <1>4 DEF Restore
<1>6. /\ r.pc = "install" /\ r.stage = Without(restore.stage, e) /\ r.old = restore.old
      /\ r.saved = restore.saved /\ r.todo = restore.todo \ {e}
      /\ r.installed = restore.installed \union {e} /\ r.failed = restore.failed
      /\ r.from = restore.from /\ r.before = restore.before
  BY <1>1 DEF Restore
<1>7. restore' = r
  BY DEF Install
<1>. HIDE DEF r
<1>8. /\ restore'.pc = "install" /\ restore'.stage = Without(restore.stage, e)
      /\ restore'.old = restore.old
      /\ restore'.saved = restore.saved /\ restore'.todo = restore.todo \ {e}
      /\ restore'.installed = restore.installed \union {e}
      /\ restore'.failed = restore.failed
      /\ restore'.from = restore.from /\ restore'.before = restore.before
  BY <1>6, <1>7
<1>9. /\ DOMAIN restore'.stage = DOMAIN restore.stage \ {e}
      /\ \A x \in DOMAIN restore'.stage : restore'.stage[x] = restore.stage[x]
  BY <1>8 DEF Without
<1>10. root' \in Tree
  BY <1>1, <1>3, WithFacts DEF Install
<1>11. /\ DOMAIN root' = DOMAIN root \union {e} /\ root'[e] = restore.stage[e]
       /\ \A x \in DOMAIN root : x # e => root'[x] = root[x]
  BY DEF Install, With
<1>12. UNCHANGED Rest /\ budget' = budget /\ during' = during
  BY DEF Install, Rest
<1>13. NoteHolds'
  <2>1. \A x \in DOMAIN restore.before :
          x \in DOMAIN restore.old /\ restore.before[x] \subseteq restore.old[x]
    BY <1>1, <1>2 DEF NoteHolds, InstallHolds, Changing, Holding
  <2>. QED
    BY <1>1, <1>2, <1>8, <1>12, <2>1 DEF NoteHolds, Stems, Changing, Holding
<1>14. InstallHolds'
  <2>1. restore.stage[e] = restore.from[e] /\ e \in DOMAIN restore.from
    BY <1>1, <1>2 DEF InstallHolds
  <2>2. \A x \in restore'.installed : restore.from[x] \subseteq root'[x]
    BY <1>1, <1>2, <1>8, <1>11, <2>1 DEF InstallHolds
  <2>3. Stems(restore.from, restore'.installed, root')
    BY <1>1, <1>2, <1>8, <1>11, <2>1 DEF InstallHolds, Stems, Below, Has
  <2>4. Stems(Empty, DOMAIN root' \ restore'.installed, root')
    BY <1>1, <1>2, <1>8, <1>11 DEF InstallHolds, Stems
  <2>5. \A x \in restore'.todo : restore'.stage[x] = restore.from[x]
    BY <1>1, <1>2, <1>8, <1>9 DEF InstallHolds
  <2>6. /\ restore'.todo = DOMAIN restore'.stage /\ ~restore'.failed
        /\ restore'.installed \intersect restore'.todo = {}
        /\ DOMAIN restore'.from = restore'.installed \union restore'.todo
        /\ restore'.installed \subseteq DOMAIN root'
        /\ DOMAIN root' \subseteq restore'.installed \union {Inbox}
        /\ DOMAIN restore'.before \subseteq restore'.saved
    BY <1>1, <1>2, <1>8, <1>9, <1>11 DEF InstallHolds
  <2>. QED
    BY <1>8, <1>12, <2>2, <2>3, <2>4, <2>5, <2>6 DEF InstallHolds, Stems
<1>15. MoveHolds' /\ UninstallHolds' /\ UnmoveHolds'
  BY <1>8 DEF MoveHolds, UninstallHolds, UnmoveHolds
<1>16. restore' \in Restore /\ restore.pc \in Changing /\ restore'.pc \in Changing
       /\ budget' \in Budget
  BY <1>1, <1>5, <1>7, <1>8, <1>12, RestoreFacts DEF Changing, Holding
<1>. QED
  BY <1>10, <1>12, <1>13, <1>14, <1>15, <1>16, ChangeFrame

\* The installation is given up: what was installed is to be taken out again.
LEMMA UndoStep ==
    ASSUME VaultInv, FailRename \/ Occupied
    PROVE  VaultInv'
<1>. DEFINE r == [restore EXCEPT !.pc = "uninstall", !.todo = restore.installed]
<1>1. /\ restore \in Restore /\ root \in Tree /\ restore.installed \subseteq Tops
      /\ restore.pc \in {"move", "install"}
  BY RestoreFacts DEF FailRename, Occupied
<1>2. NoteHolds /\ MoveHolds /\ InstallHolds
  BY DEF VaultInv
<1>3. r \in Restore
  BY <1>1 DEF Restore, Holding
<1>4. /\ r.pc = "uninstall" /\ r.stage = restore.stage /\ r.old = restore.old
      /\ r.saved = restore.saved /\ r.todo = restore.installed
      /\ r.installed = restore.installed /\ r.failed = restore.failed
      /\ r.from = restore.from /\ r.before = restore.before
  BY <1>1 DEF Restore
<1>5. restore' = r
  BY DEF FailRename, Occupied, Undo
<1>. HIDE DEF r
<1>6. /\ restore'.pc = "uninstall" /\ restore'.old = restore.old
      /\ restore'.saved = restore.saved /\ restore'.todo = restore.installed
      /\ restore'.before = restore.before /\ restore' \in Restore
  BY <1>3, <1>4, <1>5
<1>7. UNCHANGED Rest /\ during' = during /\ root' = root
  BY DEF FailRename, Occupied, Rest
<1>8. budget' \in Budget
  BY RestoreFacts, BudgetTyped DEF FailRename, Occupied
<1>9. NoteHolds'
  BY <1>1, <1>2, <1>6, <1>7 DEF NoteHolds, Stems, Changing, Holding
<1>10. UninstallHolds'
  <2>1. CASE restore.pc = "move"
    <3>1. /\ restore.installed = {} /\ DOMAIN root \subseteq DOMAIN restore.before \union {Inbox}
      BY <1>2, <2>1 DEF MoveHolds
    <3>2. Stems(restore.before, DOMAIN root, root)
      BY <1>2, <2>1, EmptyFacts DEF MoveHolds, Stems, Below, Has
    <3>3. Stems(restore.before, DOMAIN root' \ restore'.todo, root')
      BY <1>7, <3>2 DEF Stems
    <3>. QED
      BY <1>6, <1>7, <3>1, <3>3 DEF UninstallHolds, Stems
  <2>2. CASE restore.pc = "install"
    <3>1. /\ restore.installed \subseteq DOMAIN root
          /\ DOMAIN root \subseteq restore.installed \union {Inbox}
          /\ DOMAIN restore.before \subseteq restore.saved
      BY <1>2, <2>2 DEF InstallHolds
    <3>2. Stems(restore.before, DOMAIN root \ restore.installed, root)
      BY <1>2, <2>2, EmptyFacts DEF InstallHolds, Stems, Below, Has
    <3>3. Stems(restore.before, DOMAIN root' \ restore'.todo, root')
      BY <1>6, <1>7, <3>2 DEF Stems
    <3>. QED
      BY <1>6, <1>7, <3>1, <3>3 DEF UninstallHolds, Stems
  <2>. QED
    BY <1>1, <2>1, <2>2
<1>11. MoveHolds' /\ InstallHolds' /\ UnmoveHolds'
  BY <1>6 DEF MoveHolds, InstallHolds, UnmoveHolds
<1>12. restore.pc \in Changing /\ restore'.pc \in Changing /\ root' \in Tree
  BY <1>1, <1>6, <1>7 DEF Changing, Holding
<1>. QED
  BY <1>6, <1>7, <1>8, <1>9, <1>10, <1>11, <1>12, ChangeFrame

\* An installed entry is taken out: its note lies beside the vault as well.
LEMMA UninstallStep ==
    ASSUME VaultInv, NEW e \in Tops, Uninstall(e)
    PROVE  VaultInv'
<1>. DEFINE r == [restore EXCEPT !.stage = With(restore.stage, e, root[e]), !.todo = @ \ {e}]
<1>1. /\ restore \in Restore /\ root \in Tree /\ restore.stage \in Tree
      /\ restore.pc = "uninstall" /\ e \in restore.todo
  BY RestoreFacts DEF Uninstall, Last
<1>2. NoteHolds /\ UninstallHolds
  BY DEF VaultInv
<1>3. e \in DOMAIN root /\ root[e] \in SUBSET Notes
  BY <1>1, <1>2, TreeElim DEF UninstallHolds
<1>4. With(restore.stage, e, root[e]) \in Tree
  BY <1>1, <1>3, WithFacts
<1>5. r \in Restore
  BY <1>1, <1>4 DEF Restore
<1>6. /\ r.pc = "uninstall" /\ r.old = restore.old
      /\ r.saved = restore.saved /\ r.todo = restore.todo \ {e}
      /\ r.failed = restore.failed /\ r.before = restore.before
  BY <1>1 DEF Restore
<1>7. restore' = r
  BY DEF Uninstall
<1>. HIDE DEF r
<1>8. /\ restore'.pc = "uninstall" /\ restore'.old = restore.old
      /\ restore'.saved = restore.saved /\ restore'.todo = restore.todo \ {e}
      /\ restore'.failed = restore.failed /\ restore'.before = restore.before
      /\ restore' \in Restore
  BY <1>5, <1>6, <1>7
<1>9. /\ root' \in Tree /\ DOMAIN root' = DOMAIN root \ {e}
      /\ \A x \in DOMAIN root : x # e => root'[x] = root[x]
  BY <1>1, WithoutFacts DEF Uninstall
<1>10. UNCHANGED Rest /\ budget' = budget /\ during' = during
  BY DEF Uninstall, Rest
<1>11. NoteHolds'
  <2>1. \A x \in DOMAIN restore.before :
          x \in DOMAIN restore.old /\ restore.before[x] \subseteq restore.old[x]
    BY <1>1, <1>2 DEF NoteHolds, UninstallHolds, Changing, Holding
  <2>. QED
    BY <1>1, <1>2, <1>8, <1>10, <2>1 DEF NoteHolds, Stems, Changing, Holding
<1>12. UninstallHolds'
  <2>1. restore'.todo \subseteq DOMAIN root'
        /\ (restore'.todo # {} => DOMAIN restore'.before \subseteq restore'.saved)
    BY <1>1, <1>2, <1>8, <1>9 DEF UninstallHolds
  <2>2. ASSUME ~restore'.failed
        PROVE  /\ DOMAIN root' \subseteq restore'.todo \union DOMAIN restore'.before \union {Inbox}
               /\ Stems(restore.before, DOMAIN root' \ restore'.todo, root')
    BY <1>1, <1>2, <1>8, <1>9, <2>2 DEF UninstallHolds, Stems
  <2>. QED
    BY <1>8, <1>10, <2>1, <2>2 DEF UninstallHolds, Stems
<1>13. MoveHolds' /\ InstallHolds' /\ UnmoveHolds'
  BY <1>8 DEF MoveHolds, InstallHolds, UnmoveHolds
<1>14. restore.pc \in Changing /\ restore'.pc \in Changing /\ budget' \in Budget
  BY <1>1, <1>8, <1>10, RestoreFacts DEF Changing, Holding
<1>. QED
  BY <1>8, <1>9, <1>10, <1>11, <1>12, <1>13, <1>14, ChangeFrame

LEMMA UninstalledStep ==
    ASSUME VaultInv, Uninstalled
    PROVE  VaultInv'
<1>. DEFINE r == [restore EXCEPT !.pc = "unmove", !.todo = restore.saved]
<1>1. /\ restore \in Restore /\ root \in Tree /\ restore.saved \subseteq Tops
      /\ restore.pc = "uninstall" /\ restore.todo = {}
  BY RestoreFacts DEF Uninstalled
<1>2. NoteHolds /\ UninstallHolds
  BY DEF VaultInv
<1>3. r \in Restore
  BY <1>1 DEF Restore, Holding
<1>4. /\ r.pc = "unmove" /\ r.old = restore.old /\ r.todo = restore.saved
      /\ r.failed = restore.failed /\ r.before = restore.before
  BY <1>1 DEF Restore
<1>5. restore' = r
  BY DEF Uninstalled
<1>. HIDE DEF r
<1>6. /\ restore'.pc = "unmove" /\ restore'.old = restore.old /\ restore'.todo = restore.saved
      /\ restore'.failed = restore.failed /\ restore'.before = restore.before
      /\ restore' \in Restore
  BY <1>3, <1>4, <1>5
<1>7. UNCHANGED Rest /\ budget' = budget /\ during' = during /\ root' = root
  BY DEF Uninstalled, Rest
<1>8. NoteHolds'
  BY <1>1, <1>2, <1>6, <1>7 DEF NoteHolds, Stems, Changing, Holding
<1>9. UnmoveHolds'
  <2>1. restore.saved = DOMAIN restore.old
    BY <1>1, <1>2 DEF NoteHolds, Changing, Holding
  <2>2. ASSUME ~restore.failed
        PROVE  /\ DOMAIN root \subseteq DOMAIN restore.before \union {Inbox}
               /\ Stems(restore.before, DOMAIN root, root)
    BY <1>1, <1>2, <2>2 DEF UninstallHolds, Stems
  <2>. QED
    BY <1>6, <1>7, <2>1, <2>2 DEF UnmoveHolds, Stems
<1>10. MoveHolds' /\ InstallHolds' /\ UninstallHolds'
  BY <1>6 DEF MoveHolds, InstallHolds, UninstallHolds
<1>11. restore.pc \in Changing /\ restore'.pc \in Changing /\ budget' \in Budget
       /\ root' \in Tree
  BY <1>1, <1>6, <1>7, RestoreFacts DEF Changing, Holding
<1>. QED
  BY <1>6, <1>7, <1>8, <1>9, <1>10, <1>11, ChangeFrame

\* An entry goes back where there is nothing to lose.
LEMMA MoveBackStep ==
    ASSUME VaultInv, NEW e \in Tops, MoveBack(e)
    PROVE  VaultInv'
<1>. DEFINE r == [restore EXCEPT !.old = Without(restore.old, e), !.todo = @ \ {e}]
<1>1. /\ restore \in Restore /\ root \in Tree /\ restore.old \in Tree
      /\ restore.pc = "unmove" /\ e \in restore.todo /\ Free(root, e)
  BY RestoreFacts DEF MoveBack, Last
<1>2. NoteHolds /\ UnmoveHolds
  BY DEF VaultInv
<1>3. e \in DOMAIN restore.old /\ restore.old[e] \in SUBSET Notes
  BY <1>1, <1>2, TreeElim DEF UnmoveHolds
<1>4. Without(restore.old, e) \in Tree
  BY <1>1, WithoutFacts
<1>5. r \in Restore
  BY <1>1, <1>4 DEF Restore
<1>6. /\ r.pc = "unmove" /\ r.old = Without(restore.old, e) /\ r.todo = restore.todo \ {e}
      /\ r.failed = restore.failed /\ r.before = restore.before
  BY <1>1 DEF Restore
<1>7. restore' = r
  BY DEF MoveBack
<1>. HIDE DEF r
<1>8. /\ restore'.pc = "unmove" /\ restore'.old = Without(restore.old, e)
      /\ restore'.todo = restore.todo \ {e}
      /\ restore'.failed = restore.failed /\ restore'.before = restore.before
      /\ restore' \in Restore
  BY <1>5, <1>6, <1>7
<1>9. /\ DOMAIN restore'.old = DOMAIN restore.old \ {e}
      /\ \A x \in DOMAIN restore'.old : restore'.old[x] = restore.old[x]
  BY <1>8 DEF Without
<1>10. root' \in Tree
  BY <1>1, <1>3, WithFacts DEF MoveBack
<1>11. /\ DOMAIN root' = DOMAIN root \union {e} /\ root'[e] = restore.old[e]
       /\ \A x \in DOMAIN root : x # e => root'[x] = root[x]
  BY DEF MoveBack, With
<1>12. UNCHANGED Rest /\ budget' = budget /\ during' = during
  BY DEF MoveBack, Rest
<1>13. NoteHolds'
  <2>1. \A x \in DOMAIN restore.before :
          \/ x \in DOMAIN restore.old /\ restore.before[x] \subseteq restore.old[x]
          \/ /\ x \notin DOMAIN restore.old /\ x \in DOMAIN root
             /\ restore.before[x] \subseteq root[x]
    BY <1>1, <1>2 DEF NoteHolds, Changing, Holding
  <2>2. \A x \in DOMAIN restore.before :
          \/ x \in DOMAIN restore'.old /\ restore.before[x] \subseteq restore'.old[x]
          \/ /\ x \notin DOMAIN restore'.old /\ x \in DOMAIN root'
             /\ restore.before[x] \subseteq root'[x]
    BY <1>3, <1>9, <1>11, <2>1
  <2>3. Stems(restore.before, DOMAIN restore'.old, restore'.old)
    BY <1>1, <1>2, <1>9 DEF NoteHolds, Stems, Changing, Holding
  <2>4. DOMAIN restore'.old \subseteq DOMAIN restore.before \union {Inbox}
    BY <1>1, <1>2, <1>9 DEF NoteHolds, Changing, Holding
  <2>. QED
    BY <1>8, <1>12, <2>2, <2>3, <2>4 DEF NoteHolds, Stems
<1>14. UnmoveHolds'
  <2>1. restore'.todo \subseteq DOMAIN restore'.old
    BY <1>1, <1>2, <1>8, <1>9 DEF UnmoveHolds
  <2>2. ASSUME ~restore.failed
        PROVE  /\ restore'.todo = DOMAIN restore'.old
               /\ DOMAIN root' \subseteq DOMAIN restore.before \union {Inbox}
               /\ Stems(restore.before, DOMAIN root', root')
    <3>1. /\ restore.todo = DOMAIN restore.old
          /\ DOMAIN root \subseteq DOMAIN restore.before \union {Inbox}
          /\ Stems(restore.before, DOMAIN root, root)
      BY <1>1, <1>2, <2>2 DEF UnmoveHolds
    <3>2. /\ e \in DOMAIN restore.before \union {Inbox}
          /\ restore.old[e] \subseteq during \union Below(restore.before, e)
      BY <1>1, <1>2, <1>3 DEF NoteHolds, Stems, Changing, Holding
    <3>3. Stems(restore.before, DOMAIN root', root')
      BY <1>11, <3>1, <3>2 DEF Stems
    <3>. QED
      BY <1>8, <1>9, <1>11, <3>1, <3>2, <3>3
  <2>. QED
    BY <1>8, <1>12, <2>1, <2>2 DEF UnmoveHolds, Stems
<1>15. MoveHolds' /\ InstallHolds' /\ UninstallHolds'
  BY <1>8 DEF MoveHolds, InstallHolds, UninstallHolds
<1>16. restore.pc \in Changing /\ restore'.pc \in Changing /\ budget' \in Budget
  BY <1>1, <1>8, <1>12, RestoreFacts DEF Changing, Holding
<1>. QED
  BY <1>8, <1>10, <1>12, <1>13, <1>14, <1>15, <1>16, ChangeFrame

\* An entry that cannot be undone is left where it is, and the failure recorded.
LEMMA SkipStep ==
    ASSUME VaultInv, NEW e \in Tops, FailUndo(e) \/ CannotMoveBack(e)
    PROVE  VaultInv'
<1>. DEFINE r == [restore EXCEPT !.todo = @ \ {e}, !.failed = TRUE]
<1>1. /\ restore \in Restore /\ root \in Tree
      /\ restore.pc \in {"uninstall", "unmove"} /\ e \in restore.todo
  BY RestoreFacts DEF FailUndo, CannotMoveBack, Last
<1>2. NoteHolds /\ UninstallHolds /\ UnmoveHolds
  BY DEF VaultInv
<1>3. r \in Restore
  BY <1>1 DEF Restore
<1>4. /\ r.pc = restore.pc /\ r.old = restore.old /\ r.todo = restore.todo \ {e}
      /\ r.failed = TRUE /\ r.before = restore.before /\ r.saved = restore.saved
  BY <1>1 DEF Restore
<1>5. restore' = r
  BY DEF FailUndo, CannotMoveBack, SkipEntry
<1>. HIDE DEF r
<1>6. /\ restore'.pc = restore.pc /\ restore'.old = restore.old
      /\ restore'.todo = restore.todo \ {e} /\ restore'.failed = TRUE
      /\ restore'.before = restore.before /\ restore'.saved = restore.saved
      /\ restore' \in Restore
  BY <1>3, <1>4, <1>5
<1>7. UNCHANGED Rest /\ during' = during /\ root' = root
  BY DEF FailUndo, CannotMoveBack, Rest
<1>8. budget' \in Budget
  BY RestoreFacts, BudgetTyped DEF FailUndo, CannotMoveBack
<1>9. NoteHolds'
  BY <1>1, <1>2, <1>6, <1>7 DEF NoteHolds, Stems, Changing, Holding
<1>10. UninstallHolds'
  BY <1>1, <1>2, <1>6, <1>7 DEF UninstallHolds
<1>11. UnmoveHolds'
  BY <1>1, <1>2, <1>6, <1>7 DEF UnmoveHolds
<1>12. MoveHolds' /\ InstallHolds'
  BY <1>1, <1>6 DEF MoveHolds, InstallHolds
<1>13. restore.pc \in Changing /\ restore'.pc \in Changing /\ root' \in Tree
  BY <1>1, <1>6, <1>7 DEF Changing, Holding
<1>. QED
  BY <1>6, <1>7, <1>8, <1>9, <1>10, <1>11, <1>12, <1>13, ChangeFrame

-----------------------------------------------------------------------------
(* The steps before and after.                                             *)

\* Without a restore under way its clauses say nothing.
LEMMA NoRestoreHolds ==
    ASSUME restore' = NoRestore
    PROVE  RestoreHolds' /\ BackupHolds'
<1>1. /\ restore'.pc = "idle" /\ restore'.old = Empty /\ restore'.saved = {}
      /\ restore'.installed = {} /\ restore'.failed = FALSE
      /\ restore'.stage = restore'.from
  BY NoThings
<1>2. QuietHolds' /\ BackupHolds'
  BY <1>1 DEF QuietHolds, BackupHolds
<1>3. NoteHolds' /\ MoveHolds' /\ InstallHolds' /\ UninstallHolds' /\ UnmoveHolds'
  BY <1>1 DEF NoteHolds, MoveHolds, InstallHolds, UninstallHolds, UnmoveHolds, Changing, Holding
<1>. QED
  BY <1>2, <1>3 DEF RestoreHolds

\* A step that leaves the restore alone, and what it works on.
LEMMA RestoreSame ==
    ASSUME VaultInv, restore' = restore,
           restore.pc \in Changing => root' = root /\ during' = during
    PROVE  RestoreHolds'
<1>1. CASE restore.pc \in Changing
  <2>1. root' = root /\ during' = during
    BY <1>1
  <2>2. QuietHolds' /\ NoteHolds'
    BY <2>1 DEF VaultInv, QuietHolds, NoteHolds, Stems
  <2>3. MoveHolds' /\ InstallHolds'
    BY <2>1 DEF VaultInv, MoveHolds, InstallHolds, Stems
  <2>4. UninstallHolds' /\ UnmoveHolds'
    BY <2>1 DEF VaultInv, UninstallHolds, UnmoveHolds, Stems
  <2>. QED
    BY <2>2, <2>3, <2>4 DEF RestoreHolds
<1>2. CASE restore.pc \notin Changing
  <2>1. QuietHolds'
    BY DEF VaultInv, QuietHolds
  <2>2. NoteHolds' /\ MoveHolds' /\ InstallHolds' /\ UninstallHolds' /\ UnmoveHolds'
    BY <1>2 DEF NoteHolds, MoveHolds, InstallHolds, UninstallHolds, UnmoveHolds, Changing, Holding
  <2>. QED
    BY <2>1, <2>2 DEF RestoreHolds
<1>. QED
  BY <1>1, <1>2

LEMMA StageStep ==
    ASSUME VaultInv, NEW i \in DOMAIN snaps, Stage(i)
    PROVE  VaultInv'
<1>. DEFINE r == [NoRestore EXCEPT !.pc = "staged", !.stage = snaps[i].tree,
                                   !.from = snaps[i].tree]
<1>1. snaps \in Seq(Snapshot) /\ budget \in Budget
  BY DEF VaultInv, VaultTyped
<1>2. snaps[i].tree \in Tree
  <2>1. snaps[i] \in Snapshot
    BY <1>1, LenProperties
  <2>. QED
    BY <2>1 DEF Snapshot
<1>3. r \in Restore
  BY <1>2, NoThings DEF Restore
<1>4. /\ r.pc = "staged" /\ r.old = Empty /\ r.saved = {} /\ r.installed = {}
      /\ r.failed = FALSE /\ r.stage = r.from
  BY NoThings DEF Restore
<1>5. restore' = r /\ restore.pc = "idle"
  BY DEF Stage
<1>. HIDE DEF r
<1>6. /\ restore'.pc = "staged" /\ restore'.old = Empty /\ restore'.saved = {}
      /\ restore'.installed = {} /\ restore'.failed = FALSE /\ restore'.stage = restore'.from
      /\ restore' \in Restore
  BY <1>3, <1>4, <1>5
<1>7. budget' \in Budget
  BY <1>1, BudgetTyped DEF Stage
<1>8. UNCHANGED <<root, snaps, kept, lock, walks, doctor, checked, accepted, during>>
  BY DEF Stage, copies
<1>9. VaultTyped'
  BY <1>6, <1>7, <1>8 DEF VaultInv, VaultTyped
<1>10. LockHolds' /\ WalkHolds' /\ DoctorHolds'
  BY <1>5, <1>6, <1>8 DEF VaultInv, LockHolds, WalkHolds, DoctorHolds, Holding
<1>11. QuietHolds' /\ BackupHolds'
  BY <1>6 DEF QuietHolds, BackupHolds
<1>12. NoteHolds' /\ MoveHolds' /\ InstallHolds' /\ UninstallHolds' /\ UnmoveHolds'
  BY <1>6 DEF NoteHolds, MoveHolds, InstallHolds, UninstallHolds, UnmoveHolds, Changing, Holding
<1>. QED
  BY <1>9, <1>10, <1>11, <1>12 DEF VaultInv

LEMMA RefuseStep ==
    ASSUME VaultInv, Refuse
    PROVE  VaultInv'
<1>1. restore' = NoRestore /\ restore'.pc = "idle" /\ restore.pc = "staged"
  BY NoThings DEF Refuse
<1>2. UNCHANGED <<root, snaps, kept, lock, walks, doctor, checked, accepted, during, budget>>
  BY DEF Refuse, copies
<1>3. VaultTyped'
  BY <1>1, <1>2, NoThings DEF VaultInv, VaultTyped
<1>4. LockHolds' /\ WalkHolds' /\ DoctorHolds'
  BY <1>1, <1>2 DEF VaultInv, LockHolds, WalkHolds, DoctorHolds, Holding
<1>. QED
  BY <1>1, <1>3, <1>4, NoRestoreHolds DEF VaultInv, RestoreHolds

LEMMA EnterStep ==
    ASSUME VaultInv, Enter
    PROVE  VaultInv'
<1>. DEFINE r == [restore EXCEPT !.pc = "backup", !.before = root]
<1>1. /\ restore \in Restore /\ root \in Tree /\ restore.pc = "staged" /\ lock = "free"
      /\ VaultTyped
  BY RestoreFacts DEF Enter, VaultInv
<1>2. r \in Restore
  BY <1>1 DEF Restore, Holding
<1>3. /\ r.pc = "backup" /\ r.old = restore.old /\ r.saved = restore.saved
      /\ r.installed = restore.installed /\ r.failed = restore.failed
      /\ r.stage = restore.stage /\ r.from = restore.from /\ r.before = root
  BY <1>1 DEF Restore
<1>4. restore' = r
  BY DEF Enter
<1>. HIDE DEF r
<1>5. /\ restore'.pc = "backup" /\ restore'.old = restore.old /\ restore'.saved = restore.saved
      /\ restore'.installed = restore.installed /\ restore'.failed = restore.failed
      /\ restore'.stage = restore.stage /\ restore'.from = restore.from
      /\ restore'.before = root /\ restore' \in Restore
  BY <1>2, <1>3, <1>4
<1>6. /\ UNCHANGED <<root, snaps, kept, doctor, checked, accepted, during, budget>>
      /\ lock' = "restore"
  BY DEF Enter, copies
<1>7. walks' \in [{"locked", "manual"} -> Walk] /\ walks'["locked"] = StartWalk
  BY <1>1, WalksTyped, StartTyped DEF Enter, VaultTyped
<1>8. VaultTyped'
  BY <1>5, <1>6, <1>7 DEF VaultInv, VaultTyped
<1>9. LockHolds' /\ DoctorHolds'
  <2>1. doctor'.pc = "idle" /\ walks'["locked"].on
    BY <1>1, <1>6, <1>7 DEF VaultInv, VaultTyped, LockHolds, StartWalk
  <2>. QED
    BY <2>1, <1>5, <1>6 DEF LockHolds, DoctorHolds, Holding
<1>10. /\ walks'["locked"].todo = DOMAIN root /\ walks'["locked"].tree = Empty
       /\ walks'["locked"].had = NotesIn(root)
  BY <1>7 DEF StartWalk
<1>11. WalkHolds'
  BY <1>1, <1>6, <1>10, EmptyFacts, NotesFacts DEF WalkHolds
<1>12. BackupHolds'
  BY <1>5, <1>6, <1>10 DEF BackupHolds, SameAs, Below, Has
<1>13. QuietHolds'
  BY <1>1, <1>5 DEF VaultInv, QuietHolds
<1>14. NoteHolds' /\ MoveHolds' /\ InstallHolds' /\ UninstallHolds' /\ UnmoveHolds'
  BY <1>5 DEF NoteHolds, MoveHolds, InstallHolds, UninstallHolds, UnmoveHolds, Changing, Holding
<1>. QED
  BY <1>8, <1>9, <1>11, <1>12, <1>13, <1>14 DEF VaultInv

\* A restore ends, or its process dies.
LEMMA LeaveStep ==
    ASSUME VaultInv, Installed \/ RolledBack \/ RestoreDies
    PROVE  VaultInv'
<1>1. /\ restore' = NoRestore /\ restore'.pc = "idle" /\ restore.pc # "idle"
      /\ UNCHANGED <<root, doctor, checked, accepted, during>>
  BY NoThings DEF Installed, RolledBack, RestoreDies
<1>2. kept' \subseteq Notes
  <2>1. kept \subseteq Notes
    BY DEF VaultInv, VaultTyped
  <2>2. NotesIn(restore.old) \subseteq Notes /\ NotesIn(restore.stage) \subseteq Notes
    BY RestoreFacts, NotesFacts
  <2>. QED
    BY <2>1, <2>2 DEF Installed, RolledBack, RestoreDies
<1>3. budget' \in Budget
  BY RestoreFacts, BudgetTyped DEF Installed, RolledBack, RestoreDies
<1>4. CASE restore.pc = "staged"
  <2>1. lock # "restore"
    BY <1>4 DEF VaultInv, LockHolds, Holding
  <2>2. UNCHANGED <<lock, walks, snaps>>
    BY <1>4, <2>1 DEF Installed, RolledBack, RestoreDies
  <2>3. VaultTyped'
    BY <1>1, <1>2, <1>3, <2>2, NoThings DEF VaultInv, VaultTyped
  <2>4. LockHolds' /\ WalkHolds' /\ DoctorHolds'
    BY <1>1, <1>4, <2>2 DEF VaultInv, LockHolds, WalkHolds, DoctorHolds, Holding
  <2>. QED
    BY <1>1, <2>3, <2>4, NoRestoreHolds DEF VaultInv, RestoreHolds
<1>5. CASE restore.pc \in Holding
  <2>1. lock = "restore" /\ doctor.pc = "idle"
    BY <1>5 DEF VaultInv, VaultTyped, LockHolds
  <2>2. /\ walks' \in [{"locked", "manual"} -> Walk] /\ ~walks'["locked"].on
        /\ lock' = "free" /\ snaps' \in Seq(Snapshot)
    <3>1. walks \in [{"locked", "manual"} -> Walk] /\ snaps \in Seq(Snapshot) /\ VaultTyped
      BY DEF VaultInv, VaultTyped
    <3>2. CASE Installed \/ RolledBack
      <4>1. restore.pc # "backup" /\ UNCHANGED <<walks, snaps>> /\ lock' = "free"
        BY <3>2 DEF Installed, RolledBack
      <4>. QED
        BY <2>1, <3>1, <4>1 DEF VaultInv, LockHolds
    <3>3. CASE RestoreDies
      <4>1. /\ walks' = [walks EXCEPT !["locked"] = NoWalk] /\ lock' = "free"
            /\ snaps' \in LeftBehind("locked")
        BY <2>1, <3>3 DEF RestoreDies
      <4>2. snaps' \in Seq(Snapshot)
        BY <3>1, <4>1, LeftBehindTyped
      <4>3. walks' \in [{"locked", "manual"} -> Walk]
        BY <3>1, <4>1, WalksTyped, NoThings
      <4>. QED
        BY <3>1, <4>1, <4>2, <4>3, NoThings
    <3>. QED
      BY <3>2, <3>3
  <2>3. VaultTyped'
    BY <1>1, <1>2, <1>3, <2>2, NoThings DEF VaultInv, VaultTyped
  <2>4. LockHolds' /\ WalkHolds' /\ DoctorHolds'
    BY <1>1, <2>1, <2>2 DEF LockHolds, WalkHolds, DoctorHolds, Holding
  <2>. QED
    BY <1>1, <2>3, <2>4, NoRestoreHolds DEF VaultInv, RestoreHolds
<1>. QED
  BY <1>1, <1>4, <1>5, RestoreFacts DEF Restore

\* The start of a snapshot by hand, and the reading of an entry.
LEMMA WalkStep ==
    ASSUME VaultInv, NEW w \in {"locked", "manual"},
           BackupByHand \/ \E e \in Tops : WalkEntry(w, e)
    PROVE  VaultInv'
<1>1. VaultTyped /\ walks \in [{"locked", "manual"} -> Walk]
  BY DEF VaultInv, VaultTyped
<1>2. VaultTyped'
  BY <1>1, BackupTyped
<1>3. UNCHANGED <<root, snaps, lock, restore, doctor, during>>
  BY DEF BackupByHand, WalkEntry, copies
<1>4. CASE walks'["locked"] = walks["locked"]
  <2>1. LockHolds' /\ WalkHolds' /\ DoctorHolds' /\ BackupHolds'
    BY <1>3, <1>4 DEF VaultInv, LockHolds, WalkHolds, DoctorHolds, BackupHolds, SameAs
  <2>. QED
    BY <1>2, <1>3, <2>1, RestoreSame DEF VaultInv, RestoreHolds
<1>5. ASSUME NEW e \in Tops, WalkEntry("locked", e) PROVE VaultInv'
  <2>1. /\ walks["locked"].on /\ e \in walks["locked"].todo /\ e \in DOMAIN root
        /\ walks["locked"].todo \intersect DOMAIN walks["locked"].tree = {}
        /\ \A m \in walks["locked"].had :
             \/ \E x \in DOMAIN walks["locked"].tree : m \in walks["locked"].tree[x]
             \/ \E x \in walks["locked"].todo : m \in root[x]
    BY <1>5 DEF WalkEntry, First, VaultInv, WalkHolds
  <2>2. /\ walks'["locked"].on = walks["locked"].on
        /\ walks'["locked"].todo = walks["locked"].todo \ {e}
        /\ walks'["locked"].tree = With(walks["locked"].tree, e, root[e])
        /\ walks'["locked"].had = walks["locked"].had
    BY <1>1, <1>5, <2>1, EntryRead DEF Has
  <2>3. /\ DOMAIN walks'["locked"].tree = DOMAIN walks["locked"].tree \union {e}
        /\ walks'["locked"].tree[e] = root[e]
        /\ \A x \in DOMAIN walks["locked"].tree :
             walks'["locked"].tree[x] = walks["locked"].tree[x]
    BY <2>1, <2>2 DEF With
  <2>4. \A m \in walks'["locked"].had :
          \/ \E x \in DOMAIN walks'["locked"].tree : m \in walks'["locked"].tree[x]
          \/ \E x \in walks'["locked"].todo : m \in root[x]
    BY <2>1, <2>2, <2>3
  <2>5. walks["locked"].todo \subseteq DOMAIN root
    BY <2>1 DEF VaultInv, WalkHolds
  <2>6. WalkHolds'
    BY <1>3, <2>1, <2>2, <2>3, <2>4, <2>5 DEF WalkHolds
  <2>7. LockHolds' /\ DoctorHolds' /\ BackupHolds'
    BY <1>3, <2>2 DEF VaultInv, LockHolds, DoctorHolds, BackupHolds, SameAs
  <2>. QED
    BY <1>2, <1>3, <2>6, <2>7, RestoreSame DEF VaultInv, RestoreHolds
<1>6. ASSUME NEW e \in Tops, WalkEntry("manual", e) PROVE walks'["locked"] = walks["locked"]
  BY <1>1, <1>6 DEF WalkEntry
<1>7. CASE BackupByHand
  <2>1. walks'["locked"] = walks["locked"]
    BY <1>1, <1>7 DEF BackupByHand
  <2>. QED
    BY <1>4, <2>1
<1>. QED
  BY <1>4, <1>5, <1>6, <1>7

\* A snapshot by hand ends; the holder of the lock does not notice.
LEMMA ByHandStep ==
    ASSUME VaultInv, Publish("manual") \/ FailBackup("manual")
    PROVE  VaultInv'
<1>1. VaultTyped /\ walks \in [{"locked", "manual"} -> Walk]
  BY DEF VaultInv, VaultTyped
<1>2. VaultTyped'
  BY <1>1, BackupTyped
<1>3. UNCHANGED <<root, lock, restore, doctor, during>> /\ walks'["locked"] = walks["locked"]
  BY <1>1 DEF Publish, FailBackup
<1>4. LockHolds' /\ WalkHolds' /\ DoctorHolds' /\ BackupHolds'
  BY <1>3 DEF VaultInv, LockHolds, WalkHolds, DoctorHolds, BackupHolds, SameAs
<1>. QED
  BY <1>2, <1>3, <1>4, RestoreSame DEF VaultInv, RestoreHolds

\* The snapshot of a restore is there: every entry is to be moved.
LEMMA SnapshotTaken ==
    ASSUME VaultInv, Publish("locked"), restore.pc = "backup"
    PROVE  RestoreHolds' /\ BackupHolds' /\ restore'.pc = "move" /\ restore'.before = restore.before
<1>. DEFINE r == [restore EXCEPT !.pc = "move", !.todo = DOMAIN root]
<1>1. restore \in Restore /\ root \in Tree
  BY RestoreFacts
<1>2. /\ r.pc = "move" /\ r.old = restore.old /\ r.saved = restore.saved
      /\ r.installed = restore.installed /\ r.failed = restore.failed
      /\ r.stage = restore.stage /\ r.from = restore.from /\ r.before = restore.before
      /\ r.todo = DOMAIN root
  BY <1>1 DEF Restore
<1>3. restore' = r
  BY DEF Publish, GoOn
<1>. HIDE DEF r
<1>4. /\ restore'.pc = "move" /\ restore'.old = restore.old /\ restore'.saved = restore.saved
      /\ restore'.installed = restore.installed /\ restore'.failed = restore.failed
      /\ restore'.stage = restore.stage /\ restore'.from = restore.from
      /\ restore'.before = restore.before /\ restore'.todo = DOMAIN root
  BY <1>2, <1>3
<1>5. root' = root /\ during' = during
  BY DEF Publish
<1>6. /\ restore.old = Empty /\ restore.saved = {} /\ restore.installed = {}
      /\ restore.failed = FALSE /\ restore.stage = restore.from
      /\ DOMAIN restore.old = {}
  BY EmptyFacts DEF VaultInv, QuietHolds
<1>7. SameAs(restore.before)
  BY DEF VaultInv, BackupHolds
<1>8. NoteHolds'
  BY <1>4, <1>5, <1>6, <1>7 DEF NoteHolds, Stems, SameAs, Has
<1>9. MoveHolds'
  <2>1. Stems(restore.before, DOMAIN root, root)
    BY <1>7 DEF Stems, SameAs
  <2>2. /\ DOMAIN root \subseteq DOMAIN restore.before \union {Inbox}
        /\ DOMAIN restore.before \subseteq DOMAIN root
    BY <1>7 DEF SameAs, Has
  <2>3. Stems(Empty, DOMAIN root \ DOMAIN root, root)
    BY DEF Stems
  <2>. QED
    BY <1>4, <1>5, <1>6, <2>1, <2>2, <2>3 DEF MoveHolds, Stems
<1>10. InstallHolds' /\ UninstallHolds' /\ UnmoveHolds' /\ QuietHolds' /\ BackupHolds'
  BY <1>4 DEF InstallHolds, UninstallHolds, UnmoveHolds, QuietHolds, BackupHolds
<1>. QED
  BY <1>4, <1>8, <1>9, <1>10 DEF RestoreHolds

LEMMA DoctorGoesOn ==
    ASSUME doctor \in Work
    PROVE  [doctor EXCEPT !.pc = "work"].pc = "work"
BY DEF Work

\* The snapshot under the lock ends, for better or for worse.
LEMMA LockedStep ==
    ASSUME VaultInv, Publish("locked") \/ FailBackup("locked")
    PROVE  VaultInv'
<1>1. VaultTyped /\ walks \in [{"locked", "manual"} -> Walk] /\ doctor \in Work
  BY DEF VaultInv, VaultTyped
<1>2. VaultTyped'
  BY <1>1, BackupTyped
<1>3. root' = root /\ during' = during /\ ~walks'["locked"].on /\ walks["locked"].on
  BY <1>1, NoThings DEF Publish, FailBackup
<1>4. WalkHolds'
  BY <1>3 DEF WalkHolds
<1>5. CASE restore.pc = "backup"
  <2>1. lock = "restore" /\ doctor.pc = "idle"
    BY <1>1, <1>5 DEF VaultInv, LockHolds, Holding
  <2>2. doctor' = doctor
    BY <1>5, <2>1 DEF Publish, FailBackup, GoOn, SnapshotMissing
  <2>3. RestoreHolds' /\ BackupHolds' /\ LockHolds'
    <3>1. CASE Publish("locked")
      <4>1. lock' = lock
        BY <3>1 DEF Publish
      <4>2. LockHolds'
        BY <1>3, <1>5, <2>1, <2>2, <3>1, <4>1, SnapshotTaken DEF LockHolds, Holding
      <4>. QED
        BY <1>5, <3>1, <4>2, SnapshotTaken
    <3>2. CASE FailBackup("locked")
      <4>1. restore' = NoRestore /\ lock' = "free" /\ restore'.pc = "idle"
        BY <1>5, <3>2, NoThings DEF FailBackup, SnapshotMissing
      <4>2. LockHolds'
        BY <1>3, <2>1, <2>2, <4>1 DEF LockHolds, Holding
      <4>. QED
        BY <4>1, <4>2, NoRestoreHolds
    <3>. QED
      BY <3>1, <3>2
  <2>4. DoctorHolds'
    BY <2>1, <2>2 DEF DoctorHolds
  <2>. QED
    BY <1>2, <1>4, <2>3, <2>4 DEF VaultInv, RestoreHolds
<1>6. CASE restore.pc # "backup"
  <2>1. doctor.pc = "backup" /\ lock = "doctor" /\ restore.pc \notin Holding
    BY <1>3, <1>6 DEF VaultInv, LockHolds
  <2>2. restore' = restore /\ lock' = lock /\ doctor'.pc = "work"
    BY <1>1, <1>6, <2>1, DoctorGoesOn DEF Publish, FailBackup, GoOn, SnapshotMissing
  <2>3. LockHolds' /\ DoctorHolds' /\ BackupHolds'
    BY <1>3, <1>6, <2>1, <2>2 DEF LockHolds, DoctorHolds, BackupHolds
  <2>. QED
    BY <1>2, <1>3, <1>4, <2>2, <2>3, RestoreSame DEF VaultInv, RestoreHolds
<1>. QED
  BY <1>5, <1>6

\* Doctor takes the lock, and gives it back.
LEMMA DoctorLockStep ==
    ASSUME VaultInv, BeginDoctor \/ EndDoctor \/ DoctorDies
    PROVE  VaultInv'
<1>1. /\ VaultTyped /\ walks \in [{"locked", "manual"} -> Walk] /\ root \in Tree
      /\ LockHolds /\ lock \in {"free", "restore", "doctor"}
  BY DEF VaultInv, VaultTyped
<1>2. restore.pc \notin Holding
  BY <1>1 DEF LockHolds, BeginDoctor, EndDoctor, DoctorDies
<1>3. UNCHANGED <<root, kept, restore, checked, accepted, during>>
  BY DEF BeginDoctor, EndDoctor, DoctorDies, copies
<1>4. budget' \in Budget
  BY RestoreFacts, BudgetTyped DEF BeginDoctor, EndDoctor, DoctorDies
<1>5. RestoreHolds' /\ BackupHolds'
  BY <1>2, <1>3, RestoreSame DEF BackupHolds, Holding, Changing
<1>6. CASE BeginDoctor
  <2>. DEFINE d == [NoWork EXCEPT !.pc = "backup"]
  <2>1. d \in Work /\ d.pc = "backup"
    BY NoThings DEF Work
  <2>. HIDE DEF d
  <2>2. /\ doctor' \in Work /\ doctor'.pc = "backup" /\ lock' = "doctor" /\ snaps' = snaps
        /\ walks' = [walks EXCEPT !["locked"] = StartWalk]
    BY <1>6, <2>1 DEF BeginDoctor, copies, d
  <2>3. walks' \in [{"locked", "manual"} -> Walk] /\ walks'["locked"] = StartWalk
    BY <1>1, <2>2, WalksTyped, StartTyped
  <2>4. VaultTyped'
    BY <1>1, <1>3, <1>4, <2>2, <2>3 DEF VaultTyped
  <2>5. /\ walks'["locked"].on /\ walks'["locked"].todo = DOMAIN root
        /\ walks'["locked"].tree = Empty /\ walks'["locked"].had = NotesIn(root)
    BY <2>3 DEF StartWalk
  <2>6. WalkHolds'
    BY <1>1, <1>3, <2>5, EmptyFacts, NotesFacts DEF WalkHolds
  <2>7. LockHolds' /\ DoctorHolds'
    BY <1>2, <1>3, <2>2, <2>5 DEF LockHolds, DoctorHolds
  <2>. QED
    BY <1>5, <2>4, <2>6, <2>7 DEF VaultInv, RestoreHolds
<1>7. CASE EndDoctor
  <2>1. /\ doctor' = NoWork /\ doctor'.pc = "idle" /\ lock' = "free"
        /\ UNCHANGED <<walks, snaps>> /\ ~walks["locked"].on
    BY <1>1, <1>2, <1>7, NoThings DEF EndDoctor, copies, LockHolds, Holding
  <2>2. VaultTyped'
    BY <1>1, <1>3, <1>4, <2>1, NoThings DEF VaultTyped
  <2>3. LockHolds' /\ DoctorHolds' /\ WalkHolds'
    BY <1>2, <1>3, <2>1 DEF LockHolds, DoctorHolds, WalkHolds, Holding
  <2>. QED
    BY <1>5, <2>2, <2>3 DEF VaultInv, RestoreHolds
<1>8. CASE DoctorDies
  <2>1. /\ doctor' = NoWork /\ doctor'.pc = "idle" /\ lock' = "free"
        /\ walks' = [walks EXCEPT !["locked"] = NoWalk] /\ snaps' \in LeftBehind("locked")
    BY <1>8, NoThings DEF DoctorDies
  <2>2. walks' \in [{"locked", "manual"} -> Walk] /\ ~walks'["locked"].on
    BY <1>1, <2>1, WalksTyped, NoThings
  <2>3. snaps' \in Seq(Snapshot)
    BY <1>1, <2>1, LeftBehindTyped
  <2>4. VaultTyped'
    BY <1>1, <1>3, <1>4, <2>1, <2>2, <2>3, NoThings DEF VaultTyped
  <2>5. LockHolds' /\ DoctorHolds' /\ WalkHolds'
    BY <1>2, <1>3, <2>1, <2>2 DEF LockHolds, DoctorHolds, WalkHolds, Holding
  <2>. QED
    BY <1>5, <2>4, <2>5 DEF VaultInv, RestoreHolds
<1>. QED
  BY <1>6, <1>7, <1>8

\* Doctor writes a note where it goes; it is still where it was.
LEMMA WriteNoteStep ==
    ASSUME VaultInv, NEW m \in Notes, NEW f \in Tops, NEW to \in Tops, f # to,
           WriteNote(m, f, to)
    PROVE  VaultInv'
<1>1. VaultTyped /\ root \in Tree /\ doctor.pc = "work" /\ lock = "doctor" /\ f \in DOMAIN root
      /\ m \in root[f]
  BY DEF VaultInv, VaultTyped, LockHolds, WriteNote, Has
<1>2. restore.pc \notin Holding /\ ~walks["locked"].on
  BY <1>1 DEF VaultInv, LockHolds, Holding
<1>3. /\ UNCHANGED <<snaps, kept, lock, walks, restore, checked, accepted, during, budget>>
      /\ root' = With(root, to, Below(root, to) \union {m})
      /\ doctor' = [pc |-> "remove", note |-> {<<f, m>>}]
  BY DEF WriteNote
<1>4. Below(root, to) \union {m} \in SUBSET Notes
  BY <1>1, NotesFacts
<1>5. root' \in Tree /\ doctor' \in Work
  <2>1. doctor' \in Work
    BY <1>3 DEF Work
  <2>. QED
    BY <1>1, <1>3, <1>4, <2>1, WithFacts
<1>6. /\ DOMAIN root' = DOMAIN root \union {to} /\ m \in root'[to]
      /\ doctor'.pc = "remove" /\ doctor'.note = {<<f, m>>}
  BY <1>3 DEF With
<1>7. VaultTyped'
  BY <1>1, <1>3, <1>5 DEF VaultTyped
<1>8. DoctorHolds'
  BY <1>1, <1>6 DEF DoctorHolds
<1>9. LockHolds' /\ WalkHolds'
  BY <1>1, <1>2, <1>3, <1>6 DEF VaultInv, LockHolds, WalkHolds
<1>10. RestoreHolds' /\ BackupHolds'
  BY <1>2, <1>3, RestoreSame DEF BackupHolds, Holding, Changing
<1>. QED
  BY <1>7, <1>8, <1>9, <1>10 DEF VaultInv, RestoreHolds

\* What the removal of a note leaves: the same entries, and the note elsewhere.
LEMMA NoteRemoved ==
    ASSUME VaultInv, RemoveNote
    PROVE  /\ root' \in Tree /\ DOMAIN root' = DOMAIN root
           /\ \E f \in DOMAIN root, e \in DOMAIN root, m \in Notes :
                /\ root'[f] = root[f] \ {m} /\ e # f /\ m \in root[e]
                /\ \A x \in DOMAIN root : x # f => root'[x] = root[x]
<1>1. PICK f \in DOMAIN root, e \in DOMAIN root, m \in Notes :
        doctor.note = {<<f, m>>} /\ e # f /\ m \in root[e]
  BY DEF RemoveNote, VaultInv, DoctorHolds
<1>2. root' = With(root, f, root[f] \ {m})
  BY <1>1 DEF RemoveNote
<1>3. root \in Tree /\ f \in Tops /\ root[f] \ {m} \in SUBSET Notes
  BY <1>1, TreeElim DEF VaultInv, VaultTyped
<1>4. root' \in Tree
  BY <1>2, <1>3, WithFacts
<1>5. /\ DOMAIN root' = DOMAIN root /\ root'[f] = root[f] \ {m}
      /\ \A x \in DOMAIN root : x # f => root'[x] = root[x]
  BY <1>1, <1>2 DEF With
<1>. QED
  BY <1>1, <1>4, <1>5

LEMMA RemoveNoteStep ==
    ASSUME VaultInv, RemoveNote
    PROVE  VaultInv'
<1>. DEFINE d == [NoWork EXCEPT !.pc = "done"]
<1>1. VaultTyped /\ lock = "doctor" /\ doctor.pc = "remove"
  BY DEF VaultInv, LockHolds, RemoveNote
<1>2. restore.pc \notin Holding /\ ~walks["locked"].on
  BY <1>1 DEF VaultInv, LockHolds, Holding
<1>3. d \in Work /\ d.pc = "done"
  BY NoThings DEF Work
<1>4. /\ UNCHANGED <<snaps, kept, lock, walks, restore, checked, accepted, during, budget>>
      /\ doctor' = d
  BY DEF RemoveNote
<1>. HIDE DEF d
<1>5. VaultTyped'
  BY <1>1, <1>3, <1>4, NoteRemoved DEF VaultTyped
<1>6. DoctorHolds' /\ LockHolds' /\ WalkHolds'
  BY <1>1, <1>2, <1>3, <1>4 DEF VaultInv, DoctorHolds, LockHolds, WalkHolds
<1>7. RestoreHolds' /\ BackupHolds'
  BY <1>2, <1>4, RestoreSame DEF BackupHolds, Holding, Changing
<1>. QED
  BY <1>5, <1>6, <1>7 DEF VaultInv, RestoreHolds

LEMMA CheckStep ==
    ASSUME VaultInv, NEW m \in Captures, CheckWritable(m)
    PROVE  VaultInv'
<1>1. UNCHANGED <<root, snaps, kept, lock, walks, restore, doctor, accepted, during, budget>>
  BY DEF CheckWritable, copies
<1>2. VaultTyped'
  BY <1>1 DEF VaultInv, VaultTyped, CheckWritable
<1>3. LockHolds' /\ WalkHolds' /\ DoctorHolds' /\ BackupHolds'
  BY <1>1 DEF VaultInv, LockHolds, WalkHolds, DoctorHolds, BackupHolds, SameAs
<1>. QED
  BY <1>1, <1>2, <1>3, RestoreSame DEF VaultInv, RestoreHolds

-----------------------------------------------------------------------------
(* Captures take no lock.                                                  *)

\* A capture adds one note to the inbox, and an inbox if there is none.
LEMMA Captured ==
    ASSUME VaultTyped, NEW m \in Captures, PublishCapture(m)
    PROVE  /\ root' \in Tree /\ DOMAIN root' = DOMAIN root \union {Inbox}
           /\ \A x \in DOMAIN root : root[x] \subseteq root'[x]
           /\ \A x \in DOMAIN root : root'[x] \subseteq root[x] \union {m}
           /\ \A x \in DOMAIN root : x # Inbox => root'[x] = root[x]
           /\ Inbox \notin DOMAIN root => root'[Inbox] = {m}
<1>1. root \in Tree /\ Inbox \in Tops /\ m \in Notes
  BY Constants DEF VaultTyped
<1>2. Below(root, Inbox) \union {m} \in SUBSET Notes
  BY <1>1, NotesFacts
<1>3. root' = With(root, Inbox, Below(root, Inbox) \union {m})
  BY DEF PublishCapture
<1>4. root' \in Tree
  BY <1>1, <1>2, <1>3, WithFacts
<1>5. /\ DOMAIN root' = DOMAIN root \union {Inbox}
      /\ root'[Inbox] = Below(root, Inbox) \union {m}
      /\ \A x \in DOMAIN root : x # Inbox => root'[x] = root[x]
  BY <1>3 DEF With
<1>. QED
  BY <1>4, <1>5 DEF Below, Has

\* Entries that held only captures, and notes of t, do so afterwards.
LEMMA CapturedStems ==
    ASSUME VaultTyped, NEW m \in Captures, PublishCapture(m), lock = "restore",
           NEW t, NEW S \in SUBSET DOMAIN root, Stems(t, S, root)
    PROVE  \A x \in S \union {Inbox} :
              (x \in S \/ x \notin DOMAIN root) => root'[x] \subseteq during' \union Below(t, x)
<1>1. during' = during \union {m}
  BY DEF PublishCapture
<1>. QED
  BY <1>1, Captured DEF Stems

LEMMA CaptureStep ==
    ASSUME VaultInv, NEW m \in Captures, PublishCapture(m)
    PROVE  VaultInv'
<1>1. VaultTyped /\ root \in Tree
  BY DEF VaultInv, VaultTyped
<1>2. /\ root' \in Tree /\ DOMAIN root' = DOMAIN root \union {Inbox}
      /\ \A x \in DOMAIN root : root[x] \subseteq root'[x]
      /\ Inbox \notin DOMAIN root => root'[Inbox] = {m}
  BY <1>1, Captured
<1>3. UNCHANGED <<snaps, kept, lock, walks, restore, doctor, budget>>
  BY DEF PublishCapture
<1>4. VaultTyped'
  <2>1. checked' \subseteq Captures /\ accepted' \subseteq Captures /\ during' \subseteq Captures
    BY <1>1 DEF VaultTyped, PublishCapture
  <2>. QED
    BY <1>1, <1>2, <1>3, <2>1 DEF VaultTyped
<1>5. LockHolds'
  BY <1>3 DEF VaultInv, LockHolds
<1>6. WalkHolds'
  BY <1>2, <1>3 DEF VaultInv, WalkHolds
<1>7. DoctorHolds'
  BY <1>2, <1>3 DEF VaultInv, DoctorHolds
<1>8. CASE restore.pc \notin Holding
  BY <1>3, <1>4, <1>5, <1>6, <1>7, <1>8, RestoreSame
  DEF VaultInv, RestoreHolds, BackupHolds, Changing, Holding
<1>9. CASE restore.pc \in Holding
  <2>1. lock = "restore"
    BY <1>9 DEF VaultInv, LockHolds
  <2>2. during \subseteq during' /\ m \in during'
    BY <2>1 DEF PublishCapture
  <2>3. QuietHolds'
    BY <1>3 DEF VaultInv, QuietHolds
  <2>4. BackupHolds'
    <3>1. ASSUME restore.pc = "backup" PROVE SameAs(restore.before)'
      <4>1. SameAs(restore.before) /\ NotesIn(restore.before) = walks["locked"].had
        BY <3>1 DEF VaultInv, BackupHolds
      <4>2. \A e \in DOMAIN restore.before : e \in DOMAIN root' /\ restore.before[e] \subseteq root'[e]
        BY <1>2, <4>1 DEF SameAs, Has
      <4>3. Stems(restore.before, DOMAIN root, root)
        BY <4>1 DEF SameAs, Stems
      <4>4. \A x \in DOMAIN root' : root'[x] \subseteq during' \union Below(restore.before, x)
        BY <1>1, <1>2, <2>1, <4>3, CapturedStems
      <4>5. DOMAIN root' \subseteq DOMAIN restore.before \union {Inbox}
        BY <1>2, <4>1 DEF SameAs
      <4>. QED
        BY <1>3, <4>2, <4>4, <4>5 DEF SameAs, Has
    <3>. QED
      BY <1>3, <3>1 DEF VaultInv, BackupHolds
  <2>5. NoteHolds'
    <3>1. ASSUME restore.pc \in Changing
          PROVE  /\ \A e \in DOMAIN restore.before :
                      \/ e \in DOMAIN restore.old /\ restore.before[e] \subseteq restore.old[e]
                      \/ /\ e \notin DOMAIN restore.old /\ e \in DOMAIN root'
                         /\ restore.before[e] \subseteq root'[e]
                 /\ \A e \in DOMAIN restore.old :
                      restore.old[e] \subseteq during' \union Below(restore.before, e)
      BY <1>2, <2>2, <3>1 DEF VaultInv, NoteHolds, Stems
    <3>. QED
      BY <1>3, <3>1 DEF VaultInv, NoteHolds, Stems
  <2>6. MoveHolds'
    <3>1. ASSUME restore.pc = "move"
          PROVE  /\ restore.todo \subseteq DOMAIN root'
                 /\ DOMAIN root' \subseteq restore.todo \union {Inbox}
                 /\ \A x \in restore.todo : root'[x] \subseteq during' \union Below(restore.before, x)
                 /\ \A x \in DOMAIN root' \ restore.todo :
                      root'[x] \subseteq during' \union Below(Empty, x)
      <4>1. /\ restore.todo \subseteq DOMAIN root
            /\ DOMAIN root \subseteq restore.todo \union {Inbox}
            /\ Stems(restore.before, restore.todo, root)
            /\ Stems(Empty, DOMAIN root \ restore.todo, root)
        BY <3>1 DEF VaultInv, MoveHolds
      <4>2. \A x \in restore.todo : root'[x] \subseteq during' \union Below(restore.before, x)
        BY <1>1, <2>1, <4>1, CapturedStems
      <4>3. \A x \in DOMAIN root' \ restore.todo : root'[x] \subseteq during' \union Below(Empty, x)
        BY <1>1, <1>2, <2>1, <4>1, CapturedStems
      <4>. QED
        BY <1>2, <4>1, <4>2, <4>3
    <3>. QED
      BY <1>3, <3>1 DEF VaultInv, MoveHolds, Stems
  <2>7. InstallHolds'
    <3>1. ASSUME restore.pc = "install"
          PROVE  /\ restore.installed \subseteq DOMAIN root'
                 /\ DOMAIN root' \subseteq restore.installed \union {Inbox}
                 /\ \A x \in restore.installed : restore.from[x] \subseteq root'[x]
                 /\ \A x \in restore.installed : root'[x] \subseteq during' \union Below(restore.from, x)
                 /\ \A x \in DOMAIN root' \ restore.installed :
                      root'[x] \subseteq during' \union Below(Empty, x)
      <4>1. /\ restore.installed \subseteq DOMAIN root
            /\ DOMAIN root \subseteq restore.installed \union {Inbox}
            /\ \A e \in restore.installed : restore.from[e] \subseteq root[e]
            /\ Stems(restore.from, restore.installed, root)
            /\ Stems(Empty, DOMAIN root \ restore.installed, root)
        BY <3>1 DEF VaultInv, InstallHolds
      <4>2. \A x \in restore.installed : root'[x] \subseteq during' \union Below(restore.from, x)
        BY <1>1, <2>1, <4>1, CapturedStems
      <4>3. \A x \in DOMAIN root' \ restore.installed :
               root'[x] \subseteq during' \union Below(Empty, x)
        BY <1>1, <1>2, <2>1, <4>1, CapturedStems
      <4>. QED
        BY <1>2, <4>1, <4>2, <4>3
    <3>. QED
      BY <1>3, <3>1 DEF VaultInv, InstallHolds, Stems
  <2>8. UninstallHolds'
    <3>1. ASSUME restore.pc = "uninstall", ~restore.failed
          PROVE  /\ DOMAIN root' \subseteq restore.todo \union DOMAIN restore.before \union {Inbox}
                 /\ \A x \in DOMAIN root' \ restore.todo :
                      root'[x] \subseteq during' \union Below(restore.before, x)
      <4>1. /\ restore.todo \subseteq DOMAIN root
            /\ DOMAIN root \subseteq restore.todo \union DOMAIN restore.before \union {Inbox}
            /\ Stems(restore.before, DOMAIN root \ restore.todo, root)
        BY <3>1 DEF VaultInv, UninstallHolds
      <4>2. \A x \in DOMAIN root' \ restore.todo :
               root'[x] \subseteq during' \union Below(restore.before, x)
        BY <1>1, <1>2, <2>1, <4>1, CapturedStems
      <4>. QED
        BY <1>2, <4>1, <4>2
    <3>. QED
      BY <1>2, <1>3, <3>1 DEF VaultInv, UninstallHolds, Stems
  <2>9. UnmoveHolds'
    <3>1. ASSUME restore.pc = "unmove", ~restore.failed
          PROVE  /\ DOMAIN root' \subseteq DOMAIN restore.before \union {Inbox}
                 /\ \A x \in DOMAIN root' : root'[x] \subseteq during' \union Below(restore.before, x)
      <4>1. /\ DOMAIN root \subseteq DOMAIN restore.before \union {Inbox}
            /\ Stems(restore.before, DOMAIN root, root)
        BY <3>1 DEF VaultInv, UnmoveHolds
      <4>2. \A x \in DOMAIN root' : root'[x] \subseteq during' \union Below(restore.before, x)
        BY <1>1, <1>2, <2>1, <4>1, CapturedStems
      <4>. QED
        BY <1>2, <4>1, <4>2
    <3>. QED
      BY <1>3, <3>1 DEF VaultInv, UnmoveHolds, Stems
  <2>. QED
    BY <1>4, <1>5, <1>6, <1>7, <2>3, <2>4, <2>5, <2>6, <2>7, <2>8, <2>9 DEF VaultInv
<1>. QED
  BY <1>8, <1>9

-----------------------------------------------------------------------------
(* The invariant.                                                          *)

LEMMA VaultInvInit ==
    ASSUME RestoreInit
    PROVE  VaultInv
<1>1. /\ restore = NoRestore /\ doctor = NoWork /\ lock = "free"
      /\ walks = [w \in {"locked", "manual"} |-> NoWalk]
      /\ snaps = <<[tree |-> Old, verified |-> TRUE]>> /\ root = Live
  BY DEF RestoreInit
<1>2. snaps \in Seq(Snapshot)
  <2>1. [tree |-> Old, verified |-> TRUE] \in Snapshot
    BY VaultAssumption, SnapshotTyped
  <2>. QED
    BY <1>1, <2>1
<1>3. VaultTyped
  <2>1. walks \in [{"locked", "manual"} -> Walk] /\ restore \in Restore /\ doctor \in Work
    BY <1>1, NoThings
  <2>2. budget \in Budget
    BY VaultAssumption DEF RestoreInit, Budget
  <2>. QED
    BY <1>1, <1>2, <2>1, <2>2, VaultAssumption DEF RestoreInit, VaultTyped
<1>4. restore.pc = "idle" /\ doctor.pc = "idle" /\ ~walks["locked"].on
  BY <1>1, NoThings
<1>5. LockHolds /\ WalkHolds /\ DoctorHolds /\ BackupHolds
  BY <1>1, <1>4 DEF LockHolds, WalkHolds, DoctorHolds, BackupHolds, Holding
<1>6. QuietHolds
  BY <1>1, NoThings DEF QuietHolds
<1>7. NoteHolds /\ MoveHolds /\ InstallHolds /\ UninstallHolds /\ UnmoveHolds
  BY <1>4 DEF NoteHolds, MoveHolds, InstallHolds, UninstallHolds, UnmoveHolds, Changing, Holding
<1>. QED
  BY <1>3, <1>5, <1>6, <1>7 DEF VaultInv

LEMMA VaultInvNext ==
    ASSUME VaultInv, [RestoreNext]_restoreVars
    PROVE  VaultInv'
<1>1. ASSUME NEW i \in DOMAIN snaps, Stage(i) PROVE VaultInv'
  BY <1>1, StageStep
<1>2. CASE RestoreStep
  <2>1. CASE Refuse \/ Enter \/ Moved
    BY <2>1, RefuseStep, EnterStep, MovedStep
  <2>2. CASE Installed \/ RolledBack \/ RestoreDies
    BY <2>2, LeaveStep
  <2>3. CASE Occupied \/ FailRename
    BY <2>3, UndoStep
  <2>4. CASE Uninstalled
    BY <2>4, UninstalledStep
  <2>5. ASSUME NEW e \in Tops, Move(e) \/ Install(e) \/ Uninstall(e) PROVE VaultInv'
    BY <2>5, MoveStep, InstallStep, UninstallStep
  <2>6. ASSUME NEW e \in Tops, MoveBack(e) \/ CannotMoveBack(e) \/ FailUndo(e) PROVE VaultInv'
    BY <2>6, MoveBackStep, SkipStep
  <2>. QED
    BY <1>2, <2>1, <2>2, <2>3, <2>4, <2>5, <2>6 DEF RestoreStep
<1>3. CASE DoctorStep
  <2>1. CASE BeginDoctor \/ EndDoctor \/ DoctorDies
    BY <2>1, DoctorLockStep
  <2>2. CASE RemoveNote
    BY <2>2, RemoveNoteStep
  <2>3. ASSUME NEW m \in Notes, Promote(m) PROVE VaultInv'
    BY <2>3, WriteNoteStep, Constants DEF Promote
  <2>4. ASSUME NEW m \in Notes, Retire(m) PROVE VaultInv'
    BY <2>4, WriteNoteStep, Constants DEF Retire
  <2>. QED
    BY <1>3, <2>1, <2>2, <2>3, <2>4 DEF DoctorStep
<1>4. CASE BackupByHand
  BY <1>4, WalkStep
<1>5. ASSUME NEW w \in {"locked", "manual"}, NEW e \in Tops, WalkEntry(w, e) PROVE VaultInv'
  BY <1>5, WalkStep
<1>6. ASSUME NEW w \in {"locked", "manual"}, Publish(w) \/ FailBackup(w) PROVE VaultInv'
  BY <1>6, ByHandStep, LockedStep
<1>7. ASSUME NEW m \in Captures, CheckWritable(m) \/ PublishCapture(m) PROVE VaultInv'
  BY <1>7, CheckStep, CaptureStep
<1>8. CASE UNCHANGED restoreVars
  <2>1. /\ UNCHANGED <<root, snaps, kept, lock, walks, restore, doctor>>
        /\ UNCHANGED <<checked, accepted, during, budget>>
    BY <1>8 DEF restoreVars, copies
  <2>2. VaultTyped' /\ LockHolds' /\ WalkHolds' /\ DoctorHolds' /\ BackupHolds'
    BY <2>1 DEF VaultInv, VaultTyped, LockHolds, WalkHolds, DoctorHolds, BackupHolds, SameAs
  <2>. QED
    BY <2>1, <2>2, RestoreSame DEF VaultInv, RestoreHolds
<1>. QED
  BY <1>1, <1>2, <1>3, <1>4, <1>5, <1>6, <1>7, <1>8 DEF RestoreNext

\* The invariant of the vault, its snapshots and its restores: VaultInv holds in
\* every state of the specification.
THEOREM VaultInvariant == RestoreSpec => []VaultInv
<1>. QED
  BY VaultInvInit, VaultInvNext, PTL DEF RestoreSpec

\* Restore in internal/brain/backup.go reports success only when the vault holds
\* the whole snapshot and, captures aside, nothing else.
THEOREM RestoresInstallTheSnapshot == RestoreSpec => []InstalledIsSnapshot
<1>1. VaultInv => InstalledIsSnapshot
  <2>. SUFFICES ASSUME VaultInv, restore.pc = "install", restore.todo = {}
                PROVE  SameAs(restore.from)
    BY DEF InstalledIsSnapshot
  <2>1. /\ DOMAIN restore.from = restore.installed
        /\ restore.installed \subseteq DOMAIN root
        /\ DOMAIN root \subseteq restore.installed \union {Inbox}
        /\ \A e \in restore.installed : restore.from[e] \subseteq root[e]
        /\ \A e \in restore.installed : root[e] \subseteq during \union Below(restore.from, e)
        /\ \A e \in DOMAIN root \ restore.installed : root[e] \subseteq during
    BY EmptyFacts DEF VaultInv, InstallHolds, Stems, Below, Has
  <2>. QED
    BY <2>1 DEF SameAs, Has
<1>. QED
  BY <1>1, VaultInvariant, PTL

\* A restore that reports the previous vault restored has put back every entry with
\* every note, and left nothing of the snapshot.
THEOREM RollbacksRestoreTheVault == RestoreSpec => []RolledBackIsWhole
<1>1. VaultInv => RolledBackIsWhole
  <2>. SUFFICES ASSUME VaultInv, restore.pc = "unmove", restore.todo = {}, ~restore.failed
                PROVE  SameAs(restore.before)
    BY DEF RolledBackIsWhole
  <2>1. /\ DOMAIN restore.old = {}
        /\ DOMAIN root \subseteq DOMAIN restore.before \union {Inbox}
        /\ \A e \in DOMAIN root : root[e] \subseteq during \union Below(restore.before, e)
    BY DEF VaultInv, UnmoveHolds, Stems
  <2>2. \A e \in DOMAIN restore.before : e \in DOMAIN root /\ restore.before[e] \subseteq root[e]
    BY <2>1 DEF VaultInv, NoteHolds, Changing, Holding
  <2>. QED
    BY <2>1, <2>2 DEF SameAs, Has
<1>. QED
  BY <1>1, VaultInvariant, PTL

\* Backup under the vault lock reads one entry after the other and still holds every
\* note the vault held when it began.
THEOREM LockedSnapshotsAreComplete == RestoreSpec => []LockedSnapshotIsComplete
<1>1. VaultInv => LockedSnapshotIsComplete
  BY DEF VaultInv, WalkHolds, LockedSnapshotIsComplete, NotesIn
<1>. QED
  BY <1>1, VaultInvariant, PTL

-----------------------------------------------------------------------------
(* What is lost.                                                           *)

\* No note that somebody can get back at becomes one that nobody can.
ForgetsNothing == (Concerned \intersect Safe) \ Safe' \subseteq during

Stored == UNION {NotesIn(s.tree) : s \in {snaps[i] : i \in DOMAIN snaps} \intersect
                                         [tree : Tree, verified : {TRUE}]}

LEMMA SafeFacts == Safe = NotesIn(root) \union kept \union NotesIn(restore.old) \union Stored
BY DEF Safe, Stored

LEMMA StoredFacts ==
    ASSUME VaultTyped, NEW i \in DOMAIN snaps, snaps[i].verified
    PROVE  NotesIn(snaps[i].tree) \subseteq Stored
<1>1. snaps[i] \in Snapshot
  BY LenProperties DEF VaultTyped
<1>2. snaps[i] \in [tree : Tree, verified : {TRUE}]
  BY <1>1 DEF Snapshot
<1>. QED
  BY <1>2 DEF Stored

\* It is enough that the notes of the vault, and those beside it, are somewhere.
LEMMA Kept ==
    ASSUME snaps' = snaps, kept \subseteq kept',
           \A m \in Concerned \intersect (NotesIn(root) \union NotesIn(restore.old)) :
              \/ m \in during \/ m \in kept' \/ m \in Stored
              \/ m \in NotesIn(root') \/ m \in NotesIn(restore'.old)
    PROVE  ForgetsNothing
<1>1. Safe' = NotesIn(root') \union kept' \union NotesIn(restore'.old) \union Stored
  BY DEF Safe, Stored
<1>. QED
  BY <1>1, SafeFacts DEF ForgetsNothing

LEMMA Divided ==
    ASSUME NEW r, NEW o, NEW b,
           \A e \in DOMAIN b : \/ e \in DOMAIN o /\ b[e] \subseteq o[e]
                               \/ e \in DOMAIN r /\ b[e] \subseteq r[e]
    PROVE  NotesIn(b) \subseteq NotesIn(r) \union NotesIn(o)
BY DEF NotesIn

LEMMA Grown ==
    ASSUME NEW r, NEW s, DOMAIN r \subseteq DOMAIN s, \A e \in DOMAIN r : r[e] \subseteq s[e]
    PROVE  NotesIn(r) \subseteq NotesIn(s)
BY DEF NotesIn

\* Before the first entry moves nothing lies beside the vault.
LEMMA NothingAside ==
    ASSUME VaultInv, restore.pc \in {"idle", "staged", "backup"}
    PROVE  NotesIn(restore.old) = {}
BY EmptyFacts DEF VaultInv, QuietHolds, NotesIn

\* The renames of a restore: what the vault held when it took the lock is in it or
\* beside it after each of them.
LEMMA RenamesForgetNothing ==
    ASSUME VaultInv, VaultInv', restore.pc \in Changing, restore'.pc \in Changing,
           restore'.before = restore.before, snaps' = snaps, kept' = kept
    PROVE  ForgetsNothing
<1>1. Concerned = NotesIn(restore.before)
  BY DEF Concerned, Changing, Holding
<1>2. \A e \in DOMAIN restore.before :
        \/ e \in DOMAIN restore'.old /\ restore.before[e] \subseteq restore'.old[e]
        \/ e \in DOMAIN root' /\ restore.before[e] \subseteq root'[e]
  BY DEF VaultInv, NoteHolds
<1>3. NotesIn(restore.before) \subseteq NotesIn(root') \union NotesIn(restore'.old)
  BY <1>2, Divided
<1>. QED
  BY <1>1, <1>3, Kept

LEMMA RestoreForgetsNothing ==
    ASSUME VaultInv, VaultInv', RestoreStep, ~Installed, snaps' = snaps
    PROVE  ForgetsNothing
<1>1. restore \in Restore
  BY RestoreFacts
<1>2. CASE Refuse \/ Enter
  <2>1. /\ restore.pc \in {"idle", "staged", "backup"} /\ root' = root /\ kept' = kept
    BY <1>2 DEF Refuse, Enter, copies
  <2>. QED
    BY <2>1, NothingAside, Kept
<1>3. CASE Moved \/ Occupied \/ FailRename \/ Uninstalled
  <2>1. /\ restore.pc \in Changing /\ restore'.pc \in Changing
        /\ restore'.before = restore.before
    BY <1>1, <1>3 DEF Moved, Occupied, FailRename, Uninstalled, Undo, Restore, Changing, Holding
  <2>2. kept' = kept
    BY <1>3 DEF Moved, Occupied, FailRename, Uninstalled, Rest
  <2>. QED
    BY <2>1, <2>2, RenamesForgetNothing
<1>4. ASSUME NEW e \in Tops,
             Move(e) \/ Install(e) \/ Uninstall(e) \/ MoveBack(e) \/ CannotMoveBack(e) \/ FailUndo(e)
      PROVE  ForgetsNothing
  <2>1. /\ restore.pc \in Changing /\ restore'.pc \in Changing
        /\ restore'.before = restore.before
    BY <1>1, <1>4
    DEF Move, Install, Uninstall, MoveBack, CannotMoveBack, FailUndo, SkipEntry,
        Restore, Changing, Holding
  <2>2. kept' = kept
    BY <1>4 DEF Move, Install, Uninstall, MoveBack, CannotMoveBack, FailUndo, Rest
  <2>. QED
    BY <2>1, <2>2, RenamesForgetNothing
<1>5. CASE RolledBack
  <2>1. root' = root /\ restore.pc = "unmove" /\ restore.todo = {}
        /\ kept' = IF restore.failed THEN kept \union NotesIn(restore.old) ELSE kept
    BY <1>5 DEF RolledBack
  <2>2. ~restore.failed => NotesIn(restore.old) = {}
    BY <2>1 DEF VaultInv, UnmoveHolds, NotesIn
  <2>. QED
    BY <2>1, <2>2, Kept
<1>6. CASE RestoreDies
  <2>1. root' = root /\ kept' = kept \union NotesIn(restore.old) \union NotesIn(restore.stage)
    BY <1>6 DEF RestoreDies
  <2>. QED
    BY <2>1, Kept
<1>. QED
  BY <1>2, <1>3, <1>4, <1>5, <1>6 DEF RestoreStep

LEMMA DoctorForgetsNothing ==
    ASSUME VaultInv, DoctorStep, snaps' = snaps
    PROVE  ForgetsNothing
<1>1. kept' = kept /\ restore' = restore
  BY DEF DoctorStep, BeginDoctor, RemoveNote, EndDoctor, DoctorDies, Promote, Retire, WriteNote,
         copies
<1>2. CASE BeginDoctor \/ EndDoctor \/ DoctorDies
  <2>1. root' = root
    BY <1>2 DEF BeginDoctor, EndDoctor, DoctorDies, copies
  <2>. QED
    BY <1>1, <2>1, Kept
<1>3. CASE RemoveNote
  <2>1. NotesIn(root) \subseteq NotesIn(root')
    <3>1. PICK f \in DOMAIN root, e \in DOMAIN root, m \in Notes :
            /\ root'[f] = root[f] \ {m} /\ e # f /\ m \in root[e]
            /\ \A x \in DOMAIN root : x # f => root'[x] = root[x]
      BY <1>3, NoteRemoved
    <3>2. DOMAIN root' = DOMAIN root
      BY <1>3, NoteRemoved
    <3>. QED
      BY <3>1, <3>2 DEF NotesIn
  <2>. QED
    BY <1>1, <2>1, Kept
<1>4. ASSUME NEW m \in Notes, Promote(m) \/ Retire(m) PROVE ForgetsNothing
  <2>1. PICK to \in Tops : root' = With(root, to, Below(root, to) \union {m})
    BY <1>4, Constants DEF Promote, Retire, WriteNote
  <2>2. DOMAIN root \subseteq DOMAIN root' /\ \A e \in DOMAIN root : root[e] \subseteq root'[e]
    BY <2>1 DEF With, Below, Has
  <2>. QED
    BY <1>1, <2>2, Grown, Kept
<1>. QED
  BY <1>2, <1>3, <1>4 DEF DoctorStep

LEMMA OthersForgetNothing ==
    ASSUME VaultInv, snaps' = snaps,
           \/ \E i \in DOMAIN snaps : Stage(i)
           \/ BackupByHand
           \/ \E w \in {"locked", "manual"} : Publish(w) \/ FailBackup(w)
           \/ \E w \in {"locked", "manual"}, e \in Tops : WalkEntry(w, e)
           \/ \E m \in Captures : CheckWritable(m) \/ PublishCapture(m)
           \/ UNCHANGED restoreVars
    PROVE  ForgetsNothing
<1>1. kept' = kept
  BY DEF Stage, BackupByHand, Publish, FailBackup, WalkEntry, CheckWritable, PublishCapture,
         restoreVars, copies
<1>2. NotesIn(root) \subseteq NotesIn(root')
  <2>1. CASE root' = root
    BY <2>1
  <2>2. ASSUME NEW m \in Captures, PublishCapture(m) PROVE NotesIn(root) \subseteq NotesIn(root')
    <3>1. DOMAIN root \subseteq DOMAIN root' /\ \A e \in DOMAIN root : root[e] \subseteq root'[e]
      BY <2>2, Captured DEF VaultInv
    <3>. QED
      BY <3>1, Grown
  <2>. QED
    BY <2>1, <2>2
    DEF Stage, BackupByHand, Publish, FailBackup, WalkEntry, CheckWritable, restoreVars, copies
<1>3. NotesIn(restore.old) \subseteq NotesIn(restore'.old)
  <2>1. CASE restore.pc \in {"idle", "staged", "backup"}
    BY <2>1, NothingAside
  <2>2. CASE restore.pc \notin {"idle", "staged", "backup"}
    <3>1. restore' = restore
      BY <2>2
      DEF Stage, BackupByHand, Publish, FailBackup, WalkEntry, CheckWritable, PublishCapture,
          GoOn, SnapshotMissing, restoreVars
    <3>. QED
      BY <3>1
  <2>. QED
    BY <2>1, <2>2
<1>. QED
  BY <1>1, <1>2, <1>3, Kept

LEMMA OnlySuccessForgets ==
    ASSUME VaultInv, VaultInv', [RestoreNext]_restoreVars, ~Installed, snaps' = snaps
    PROVE  ForgetsNothing
<1>. QED
  BY RestoreForgetsNothing, DoctorForgetsNothing, OthersForgetNothing DEF RestoreNext

\* Whatever the bounds: a restore that fails, is undone in whole or in part, or dies
\* between any two renames loses no note, and no capture, snapshot or change of
\* Doctor does.  The one step left is the removal of the previous vault on success.
THEOREM NothingIsLostOnTheWay ==
    RestoreSpec => [][snaps' = snaps /\ ~Installed => ForgetsNothing]_restoreVars
<1>1. VaultInv /\ VaultInv' /\ [RestoreNext]_restoreVars => [snaps' = snaps /\ ~Installed => ForgetsNothing]_restoreVars
  BY OnlySuccessForgets
<1>. QED
  BY <1>1, VaultInvariant, PTL DEF RestoreSpec

-----------------------------------------------------------------------------
(* Retention.                                                              *)

\* A snapshot that fewer than Keep others follow stays, with as many after it.
LEMMA RetainedFacts ==
    ASSUME NEW s \in Seq(Snapshot), NEW i \in 1 .. Len(s), Len(s) < i + Keep
    PROVE  \E j \in 1 .. Len(Retained(s)) :
              Retained(s)[j] = s[i] /\ Len(Retained(s)) - j = Len(s) - i
<1>1. Len(s) \in Nat /\ Keep \in Nat \ {0} /\ \A k \in 1 .. Len(s) : s[k] \in Snapshot
  BY LenProperties, VaultAssumption
<1>2. CASE Len(s) <= Keep
  BY <1>2 DEF Retained
<1>3. CASE ~(Len(s) <= Keep)
  <2>1. /\ Len(s) - Keep + 1 \in Int /\ Len(s) \in Int
        /\ \A k \in Len(s) - Keep + 1 .. Len(s) : s[k] \in Snapshot
    BY <1>1, <1>3
  <2>2. /\ Len(Retained(s)) = Keep
        /\ \A k \in 1 .. Keep : Retained(s)[k] = s[(Len(s) - Keep + 1) + k - 1]
    <3>1. /\ Len(SubSeq(s, Len(s) - Keep + 1, Len(s)))
               = IF Len(s) - Keep + 1 <= Len(s) THEN Len(s) - (Len(s) - Keep + 1) + 1 ELSE 0
          /\ \A k \in 1 .. Len(s) - (Len(s) - Keep + 1) + 1 :
               SubSeq(s, Len(s) - Keep + 1, Len(s))[k] = s[(Len(s) - Keep + 1) + k - 1]
      BY <2>1, SubSeqProperties
    <3>2. Len(s) - (Len(s) - Keep + 1) + 1 = Keep /\ Len(s) - Keep + 1 <= Len(s)
      BY <1>1
    <3>3. Retained(s) = SubSeq(s, Len(s) - Keep + 1, Len(s))
      BY <1>3 DEF Retained
    <3>. QED
      BY <3>1, <3>2, <3>3
  <2>. DEFINE j == i - (Len(s) - Keep)
  <2>3. j \in 1 .. Keep /\ (Len(s) - Keep + 1) + j - 1 = i /\ Keep - j = Len(s) - i
    BY <1>1, <1>3
  <2>4. Retained(s)[j] = s[i]
    BY <2>2, <2>3
  <2>. QED
    BY <2>2, <2>3, <2>4
<1>. QED
  BY <1>2, <1>3

Manual == IF walks["manual"].on THEN 1 ELSE 0

\* A verified snapshot that holds these notes, and that fewer others follow, or may
\* still follow, than are taken by hand altogether.
SnapshotOf(b) ==
    \E i \in 1 .. Len(snaps) :
       /\ snaps[i].verified /\ NotesIn(b) \subseteq NotesIn(snaps[i].tree)
       /\ (Len(snaps) - i) + Manual + budget["backups"] <= MaxBackups

SnapHolds ==
    /\ budget["backups"] + Manual <= MaxBackups
    /\ restore.pc \in Changing => SnapshotOf(restore.before)

SnapInv == VaultInv /\ SnapHolds

LEMMA Numbers ==
    ASSUME VaultTyped
    PROVE  /\ budget["backups"] \in Nat /\ MaxBackups \in Nat /\ Keep \in Nat \ {0}
           /\ Len(snaps) \in Nat /\ Manual \in {0, 1}
BY LenProperties, VaultAssumption DEF VaultTyped, Budget, Manual

\* Another thing than a snapshot by hand is spent.
LEMMA SpendOther ==
    ASSUME budget \in Budget, NEW w \in {"restores", "work", "faults"}, Spend(w)
    PROVE  budget'["backups"] = budget["backups"]
BY DEF Budget, Spend

\* A step that takes no snapshot, or one after which no restore is under way.
LEMMA SnapSame ==
    ASSUME SnapInv, walks'["manual"] = walks["manual"],
           budget'["backups"] = budget["backups"],
           restore'.pc \in Changing =>
              restore.pc \in Changing /\ restore'.before = restore.before /\ snaps' = snaps
    PROVE  SnapHolds'
BY DEF SnapInv, SnapHolds, SnapshotOf, Manual

\* A snapshot more: that of the vault is still retained.
LEMMA SnapMore ==
    ASSUME SnapInv, MaxBackups < Keep, restore.pc \in Changing, NEW x \in Snapshot,
           walks["manual"].on, ~walks'["manual"].on,
           budget'["backups"] <= budget["backups"], budget'["backups"] \in Nat,
           \/ snaps' = snaps
           \/ snaps' = Append(snaps, x)
           \/ snaps' = Retained(Append(snaps, x)),
           restore'.before = restore.before
    PROVE  SnapshotOf(restore.before)'
<1>. DEFINE b == restore.before
            s == Append(snaps, x)
<1>1. VaultTyped /\ snaps \in Seq(Snapshot)
  BY DEF SnapInv, VaultInv, VaultTyped
<1>2. PICK i \in 1 .. Len(snaps) :
        /\ snaps[i].verified /\ NotesIn(b) \subseteq NotesIn(snaps[i].tree)
        /\ (Len(snaps) - i) + 1 + budget["backups"] <= MaxBackups
  BY DEF SnapInv, SnapHolds, SnapshotOf, Manual
<1>3. s \in Seq(Snapshot) /\ Len(s) = Len(snaps) + 1 /\ s[i] = snaps[i] /\ i \in 1 .. Len(s)
  BY <1>1, Numbers, AppendProperties
<1>4. Len(s) < i + Keep /\ (Len(s) - i) + budget["backups"] <= MaxBackups
  BY <1>1, <1>2, <1>3, Numbers
<1>5. \E j \in 1 .. Len(snaps') : snaps'[j] = snaps[i] /\ Len(snaps') - j <= Len(s) - i
                                  /\ Len(snaps') \in Nat
  <2>1. CASE snaps' = snaps
    BY <1>1, <1>3, <2>1, Numbers
  <2>2. CASE snaps' = s
    BY <1>1, <1>3, <2>2, Numbers
  <2>3. CASE snaps' = Retained(s)
    <3>1. PICK j \in 1 .. Len(Retained(s)) :
            Retained(s)[j] = s[i] /\ Len(Retained(s)) - j = Len(s) - i
      BY <1>3, <1>4, RetainedFacts
    <3>2. Len(Retained(s)) \in Nat /\ Len(s) \in Nat
      BY <1>3, RetainedTyped, LenProperties
    <3>. QED
      BY <1>3, <2>3, <3>1, <3>2
  <2>. QED
    BY <2>1, <2>2, <2>3
<1>6. PICK j \in 1 .. Len(snaps') : /\ snaps'[j] = snaps[i] /\ Len(snaps') - j <= Len(s) - i
                                    /\ Len(snaps') \in Nat
  BY <1>5
<1>7. (Len(snaps') - j) + budget'["backups"] <= MaxBackups
  BY <1>1, <1>3, <1>4, <1>6, Numbers
<1>8. Manual' = 0
  BY DEF Manual
<1>9. (Len(snaps') - j) + Manual' + budget'["backups"] <= MaxBackups
  BY <1>1, <1>6, <1>7, <1>8, Numbers
<1>. QED
  BY <1>2, <1>6, <1>9 DEF SnapshotOf

\* A snapshot by hand ends while the restore goes on.
LEMMA SnapByHand ==
    ASSUME SnapInv, MaxBackups < Keep, Publish("manual") \/ FailBackup("manual")
    PROVE  SnapHolds'
<1>. DEFINE t == walks["manual"].tree
<1>1. VaultTyped /\ walks \in [{"locked", "manual"} -> Walk] /\ t \in Tree
  BY DEF SnapInv, VaultInv, VaultTyped, Walk
<1>2. walks["manual"].on /\ ~walks'["manual"].on /\ restore' = restore
  BY <1>1, NoThings DEF Publish, FailBackup
<1>3. budget'["backups"] = budget["backups"]
  BY <1>1, SpendOther DEF Publish, FailBackup, VaultTyped
<1>4. PICK b \in BOOLEAN :
        \/ snaps' = snaps
        \/ snaps' = Append(snaps, [tree |-> t, verified |-> b])
        \/ snaps' = Retained(Append(snaps, [tree |-> t, verified |-> b]))
  BY DEF Publish, FailBackup, LeftBehind
<1>5. [tree |-> t, verified |-> b] \in Snapshot
  BY <1>1, SnapshotTyped
<1>6. budget'["backups"] + Manual' <= MaxBackups
  <2>1. Manual = 1 /\ Manual' = 0
    BY <1>2 DEF Manual
  <2>. QED
    BY <1>1, <1>3, <2>1, Numbers DEF SnapInv, SnapHolds
<1>7. ASSUME restore'.pc \in Changing PROVE SnapshotOf(restore.before)'
  <2>1. budget'["backups"] <= budget["backups"] /\ budget'["backups"] \in Nat
    BY <1>1, <1>3, Numbers
  <2>. QED
    BY <1>2, <1>4, <1>5, <1>7, <2>1, SnapMore
<1>. QED
  BY <1>2, <1>6, <1>7 DEF SnapHolds

\* The snapshot of the restore: it is the newest, and holds what the vault held.
LEMMA SnapOfRestore ==
    ASSUME SnapInv, Publish("locked"), restore.pc = "backup"
    PROVE  SnapHolds'
<1>. DEFINE x == [tree |-> walks["locked"].tree, verified |-> TRUE]
            s == Append(snaps, x)
<1>1. /\ VaultTyped /\ walks \in [{"locked", "manual"} -> Walk] /\ snaps \in Seq(Snapshot)
      /\ VaultInv
  BY DEF SnapInv, VaultInv, VaultTyped
<1>2. x \in Snapshot
  BY <1>1, SnapshotTyped DEF Walk
<1>3. walks["locked"].on /\ walks["locked"].todo = {} /\ snaps' = Retained(s)
      /\ budget' = budget /\ walks'["manual"] = walks["manual"]
  BY <1>1 DEF Publish
<1>4. s \in Seq(Snapshot) /\ Len(s) = Len(snaps) + 1 /\ s[Len(s)] = x /\ Len(s) \in 1 .. Len(s)
  BY <1>1, <1>2, Numbers, AppendProperties
<1>5. PICK j \in 1 .. Len(Retained(s)) :
        Retained(s)[j] = s[Len(s)] /\ Len(Retained(s)) - j = Len(s) - Len(s)
  <2>1. Len(s) < Len(s) + Keep
    BY <1>1, <1>4, Numbers
  <2>. QED
    BY <1>4, <2>1, RetainedFacts
<1>6. NotesIn(restore.before) \subseteq NotesIn(x.tree)
  <2>1. NotesIn(restore.before) = walks["locked"].had
    BY <1>1 DEF VaultInv, BackupHolds
  <2>2. walks["locked"].had \subseteq NotesIn(walks["locked"].tree)
    BY <1>1, <1>3 DEF VaultInv, WalkHolds, NotesIn
  <2>. QED
    BY <2>1, <2>2
<1>7. /\ snaps'[j] = x /\ j \in 1 .. Len(snaps') /\ Manual' = Manual
      /\ (Len(snaps') - j) + Manual' + budget'["backups"] <= MaxBackups
  <2>1. Manual' = Manual /\ snaps'[j] = x /\ j \in 1 .. Len(snaps')
    BY <1>3, <1>4, <1>5 DEF Manual
  <2>2. Len(snaps') - j = 0
    BY <1>1, <1>3, <1>4, <1>5, Numbers
  <2>3. Manual + budget["backups"] <= MaxBackups
    BY <1>1, Numbers DEF SnapInv, SnapHolds
  <2>. QED
    BY <1>1, <1>3, <2>1, <2>2, <2>3, Numbers
<1>8. SnapshotOf(restore.before)'
  <2>1. restore'.before = restore.before
    BY <1>1, SnapshotTaken
  <2>. QED
    BY <1>6, <1>7, <2>1 DEF SnapshotOf
<1>. QED
  BY <1>1, <1>3, <1>7, <1>8, Numbers DEF SnapInv, SnapHolds

LEMMA SnapInvNext ==
    ASSUME SnapInv, MaxBackups < Keep, [RestoreNext]_restoreVars
    PROVE  SnapInv'
<1>1. VaultInv /\ VaultInv' /\ VaultTyped /\ restore \in Restore /\ budget \in Budget
  BY VaultInvNext DEF SnapInv, VaultInv, VaultTyped
<1>. SUFFICES SnapHolds'
  BY <1>1 DEF SnapInv
<1>2. walks \in [{"locked", "manual"} -> Walk]
  BY <1>1 DEF VaultTyped
<1>3. ASSUME NEW i \in DOMAIN snaps, Stage(i) PROVE SnapHolds'
  <2>1. walks' = walks /\ budget'["backups"] = budget["backups"]
    BY <1>1, <1>3, SpendOther DEF Stage
  <2>2. restore'.pc = "staged"
    BY <1>3, NoThings DEF Stage, Restore
  <2>. QED
    BY <2>1, <2>2, SnapSame DEF Changing, Holding
<1>4. CASE RestoreStep
  <2>1. walks'["manual"] = walks["manual"]
    BY <1>2, <1>4
    DEF RestoreStep, Refuse, Enter, Moved, Installed, Occupied, FailRename, Uninstalled, RolledBack,
        RestoreDies, Move, Install, Uninstall, MoveBack, CannotMoveBack, FailUndo, Rest
  <2>2. budget'["backups"] = budget["backups"]
    BY <1>1, <1>4, SpendOther
    DEF RestoreStep, Refuse, Enter, Moved, Installed, Occupied, FailRename, Uninstalled, RolledBack,
        RestoreDies, Move, Install, Uninstall, MoveBack, CannotMoveBack, FailUndo
  <2>3. restore'.pc \in Changing =>
          restore.pc \in Changing /\ restore'.before = restore.before /\ snaps' = snaps
    <3>1. CASE Refuse \/ Installed \/ RolledBack \/ RestoreDies
      BY <3>1, NoThings DEF Refuse, Installed, RolledBack, RestoreDies, Changing, Holding
    <3>2. CASE Enter
      BY <1>1, <3>2 DEF Enter, Restore, Changing, Holding
    <3>3. CASE Moved \/ Occupied \/ FailRename \/ Uninstalled
      BY <1>1, <3>3
      DEF Moved, Occupied, FailRename, Uninstalled, Undo, Rest, Restore, Changing, Holding
    <3>4. ASSUME NEW e \in Tops,
                 Move(e) \/ Install(e) \/ Uninstall(e) \/ MoveBack(e) \/ CannotMoveBack(e)
                 \/ FailUndo(e)
          PROVE  restore.pc \in Changing /\ restore'.before = restore.before /\ snaps' = snaps
      BY <1>1, <3>4
      DEF Move, Install, Uninstall, MoveBack, CannotMoveBack, FailUndo, SkipEntry, Rest,
          Restore, Changing, Holding
    <3>. QED
      BY <1>4, <3>1, <3>2, <3>3, <3>4 DEF RestoreStep
  <2>. QED
    BY <2>1, <2>2, <2>3, SnapSame
<1>5. CASE DoctorStep
  <2>1. walks'["manual"] = walks["manual"] /\ restore' = restore
    BY <1>2, <1>5
    DEF DoctorStep, BeginDoctor, RemoveNote, EndDoctor, DoctorDies, Promote, Retire, WriteNote, copies
  <2>2. budget'["backups"] = budget["backups"]
    BY <1>1, <1>5, SpendOther
    DEF DoctorStep, BeginDoctor, RemoveNote, EndDoctor, DoctorDies, Promote, Retire, WriteNote
  <2>3. restore.pc \notin Holding
    BY <1>1, <1>5
    DEF VaultInv, LockHolds, DoctorStep, BeginDoctor, RemoveNote, EndDoctor, DoctorDies, Promote,
        Retire, WriteNote
  <2>. QED
    BY <2>1, <2>2, <2>3, SnapSame DEF Changing
<1>6. CASE BackupByHand
  <2>1. /\ ~walks["manual"].on /\ walks'["manual"].on /\ restore' = restore /\ snaps' = snaps
        /\ budget["backups"] > 0 /\ budget'["backups"] = budget["backups"] - 1
    BY <1>1, <1>2, <1>6 DEF BackupByHand, StartWalk, Spend, Budget, copies
  <2>2. Manual = 0 /\ Manual' = 1
    BY <2>1 DEF Manual
  <2>3. budget'["backups"] + Manual' <= MaxBackups
    BY <1>1, <2>1, <2>2, Numbers DEF SnapInv, SnapHolds
  <2>4. ASSUME restore.pc \in Changing PROVE SnapshotOf(restore.before)'
    <3>1. PICK i \in 1 .. Len(snaps) :
            /\ snaps[i].verified /\ NotesIn(restore.before) \subseteq NotesIn(snaps[i].tree)
            /\ (Len(snaps) - i) + Manual + budget["backups"] <= MaxBackups
      BY <2>4 DEF SnapInv, SnapHolds, SnapshotOf
    <3>2. (Len(snaps) - i) + Manual' + budget'["backups"] <= MaxBackups
      BY <1>1, <2>1, <2>2, <3>1, Numbers
    <3>. QED
      BY <2>1, <3>1, <3>2 DEF SnapshotOf
  <2>. QED
    BY <2>1, <2>3, <2>4 DEF SnapHolds
<1>7. ASSUME NEW w \in {"locked", "manual"}, NEW e \in Tops, WalkEntry(w, e) PROVE SnapHolds'
  <2>1. /\ restore' = restore /\ snaps' = snaps /\ budget' = budget
    BY <1>7 DEF WalkEntry, copies
  <2>2. Manual' <= Manual /\ Manual' \in {0, 1}
    <3>1. walks'["manual"].on => walks["manual"].on
      <4>1. CASE Has(root, e)
        <5>1. walks'[w].on = walks[w].on
              /\ \A v \in {"locked", "manual"} \ {w} : walks'[v] = walks[v]
          BY <1>1, <1>7, <4>1, EntryRead
        <5>. QED
          BY <5>1
      <4>2. CASE ~Has(root, e)
        BY <1>2, <1>7, <4>2, NoThings DEF WalkEntry
      <4>. QED
        BY <4>1, <4>2
    <3>. QED
      BY <3>1 DEF Manual
  <2>3. budget'["backups"] + Manual' <= MaxBackups
    BY <1>1, <2>1, <2>2, Numbers DEF SnapInv, SnapHolds
  <2>4. ASSUME restore.pc \in Changing PROVE SnapshotOf(restore.before)'
    <3>1. PICK i \in 1 .. Len(snaps) :
            /\ snaps[i].verified /\ NotesIn(restore.before) \subseteq NotesIn(snaps[i].tree)
            /\ (Len(snaps) - i) + Manual + budget["backups"] <= MaxBackups
      BY <2>4 DEF SnapInv, SnapHolds, SnapshotOf
    <3>2. (Len(snaps) - i) + Manual' + budget'["backups"] <= MaxBackups
      BY <1>1, <2>1, <2>2, <3>1, Numbers
    <3>. QED
      BY <2>1, <3>1, <3>2 DEF SnapshotOf
  <2>. QED
    BY <2>1, <2>3, <2>4 DEF SnapHolds
<1>8. CASE Publish("manual") \/ FailBackup("manual")
  BY <1>8, SnapByHand
<1>9. CASE Publish("locked") /\ restore.pc = "backup"
  BY <1>9, SnapOfRestore
<1>10. CASE FailBackup("locked") \/ (Publish("locked") /\ restore.pc # "backup")
  <2>1. restore'.pc \notin Changing
    <3>1. walks["locked"].on
      BY <1>10 DEF Publish, FailBackup
    <3>2. restore.pc = "backup" \/ restore.pc \notin Holding
      BY <1>1, <3>1 DEF VaultInv, LockHolds
    <3>. QED
      BY <1>10, <3>2, NoThings
      DEF Publish, FailBackup, GoOn, SnapshotMissing, Changing, Holding
  <2>2. walks'["manual"] = walks["manual"] /\ budget'["backups"] = budget["backups"]
    BY <1>1, <1>2, <1>10, SpendOther DEF Publish, FailBackup
  <2>. QED
    BY <2>1, <2>2, SnapSame
<1>11. ASSUME NEW m \in Captures, CheckWritable(m) \/ PublishCapture(m) PROVE SnapHolds'
  BY <1>11, SnapSame DEF CheckWritable, PublishCapture, copies
<1>12. CASE UNCHANGED restoreVars
  BY <1>12, SnapSame DEF restoreVars, copies
<1>. QED
  BY <1>3, <1>4, <1>5, <1>6, <1>7, <1>8, <1>9, <1>10, <1>11, <1>12 DEF RestoreNext

LEMMA SnapInvInit ==
    ASSUME RestoreInit
    PROVE  SnapInv
<1>1. restore.pc = "idle" /\ ~walks["manual"].on /\ budget["backups"] = MaxBackups
  BY NoThings DEF RestoreInit
<1>2. SnapHolds
  BY <1>1, VaultAssumption DEF SnapHolds, Manual, Changing, Holding
<1>. QED
  BY <1>2, VaultInvInit DEF SnapInv

\* The previous vault is removed: its notes are in the snapshot of the restore.
LEMMA SuccessForgetsNothing ==
    ASSUME SnapInv, Installed, snaps' = snaps
    PROVE  ForgetsNothing
<1>1. VaultInv /\ VaultTyped
  BY DEF SnapInv, VaultInv
<1>2. restore.pc = "install" /\ kept \subseteq kept'
  BY DEF Installed
<1>3. Concerned = NotesIn(restore.before)
  BY <1>2 DEF Concerned
<1>4. PICK i \in 1 .. Len(snaps) :
        snaps[i].verified /\ NotesIn(restore.before) \subseteq NotesIn(snaps[i].tree)
  BY <1>2 DEF SnapInv, SnapHolds, SnapshotOf, Changing, Holding
<1>5. i \in DOMAIN snaps
  BY <1>1, LenProperties DEF VaultTyped
<1>6. NotesIn(snaps[i].tree) \subseteq Stored
  BY <1>1, <1>4, <1>5, StoredFacts
<1>. QED
  BY <1>2, <1>3, <1>4, <1>6, Kept

\* The safety snapshot of Restore outlives the restore, so that nothing is lost when
\* the previous vault is removed: while fewer snapshots are taken by hand than are
\* retained.  Without the assumption the claim is false: as many snapshots taken by
\* hand during one restore push the safety snapshot out.
THEOREM NothingIsLost ==
    ASSUME MaxBackups < Keep
    PROVE  RestoreSpec => OnlyRetentionForgets
<1>1. RestoreInit => SnapInv
  BY SnapInvInit
<1>2. SnapInv /\ [RestoreNext]_restoreVars => SnapInv'
  BY SnapInvNext
<1>3. SnapInv /\ SnapInv' /\ [RestoreNext]_restoreVars
        => [snaps' = snaps => (Concerned \intersect Safe) \ Safe' \subseteq during]_restoreVars
  <2>1. ASSUME SnapInv, SnapInv', [RestoreNext]_restoreVars, snaps' = snaps PROVE ForgetsNothing
    BY <2>1, OnlySuccessForgets, SuccessForgetsNothing DEF SnapInv
  <2>. QED
    BY <2>1 DEF ForgetsNothing
<1>. QED
  BY <1>1, <1>2, <1>3, PTL DEF RestoreSpec, OnlyRetentionForgets

=============================================================================
