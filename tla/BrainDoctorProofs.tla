-------------------------- MODULE BrainDoctorProofs --------------------------
(***************************************************************************)
(* What holds of BrainDoctor for every set of proposals, every order of    *)
(* their capture, and every number of faults, archived notes and edits.    *)
(*                                                                         *)
(* What a run has read agrees with the live notes but for hand edits       *)
(* (Matches), because only a run and an archiving person change them and   *)
(* the lock keeps them apart.  A file is removed only when its note has    *)
(* another place (Backed).  Every note a run is about to retire has, among *)
(* the notes the run still sees, the later ones that justify it            *)
(* (Justified); retiring one keeps that true of the rest, "later" being    *)
(* transitive.  The receipts of merges follow the targets (Receipts), for  *)
(* the claims whose notes were all read when a run looked for them: a run  *)
(* that could not read a copy notes its proposal in overlooked.            *)
(***************************************************************************)
EXTENDS BrainDoctor, FiniteSetTheorems, TLAPS

USE DoctorAssumption, NoneAssumption DEF DoctorAssumption, NoneAssumption

Budget == [faults : Nat, archives : Nat, edits : Nat]

LEMMA PromotedTyped == ASSUME NEW n \in Ids PROVE Promoted(n) \in Note
  BY DEF Promoted, Note, Olds, View

LEMMA CountedFields ==
  ASSUME NEW n \in Ids, NEW e \in Ids, run.view[e] \in Note
  PROVE  /\ Counted(e, n) \in Note
         /\ Counted(e, n).confirmed = run.view[e].confirmed + 1
         /\ Counted(e, n).recaptured = Unresolved(e) \union {n}
         /\ Counted(e, n).captured = Later(run.view[e].captured, Time[n])
         /\ Counted(e, n).supersedes = run.view[e].supersedes
<1> DEFINE note  == run.view[e]
           count == note.confirmed + 1
           ids   == Unresolved(e) \union {n}
           time  == Later(note.captured, Time[n])
<1>1. note \in Note /\ count \in Nat /\ ids \in SUBSET Ids
  BY DEF Note, Unresolved
<1>2. time \in Nat
  <2>1. note.captured \in Nat /\ Time[n] \in Nat
    BY DEF Note
  <2> QED
    BY <2>1 DEF Later
<1>3. Counted(e, n) =
        [note EXCEPT !.confirmed = count, !.recaptured = ids, !.captured = time]
  BY DEF Counted
<1> HIDE DEF note, count, ids, time
<1>4. Counted(e, n) \in Note /\ Counted(e, n).confirmed = count
      /\ Counted(e, n).recaptured = ids /\ Counted(e, n).captured = time
      /\ Counted(e, n).supersedes = note.supersedes
  BY <1>1, <1>2, <1>3 DEF Note
<1> QED
  BY <1>4 DEF note, count, ids, time

LEMMA RecapturedTyped ==
  ASSUME NEW n \in Ids, NEW e \in Ids, run.view[e] \in Note
  PROVE  Recaptured(e, n) \in Note
<1>1. [run.view[e] EXCEPT !.recaptured = Unresolved(e)] \in Note
  BY DEF Note, Unresolved
<1> QED
  BY <1>1, CountedFields DEF Recaptured

LEMMA BudgetTyped ==
  ASSUME TypeOK, \/ budget.faults > 0 /\ budget' = [budget EXCEPT !.faults = @ - 1]
                 \/ budget.archives > 0 /\ budget' = [budget EXCEPT !.archives = @ - 1]
                 \/ budget.edits > 0 /\ budget' = [budget EXCEPT !.edits = @ - 1]
  PROVE  budget' \in Budget
  BY DEF TypeOK, Budget

\* A run begins with all the live notes in view, or with those it can read.
Begins == Begin \/ \E unread \in SUBSET Ids : BeginPartly(unread)

LEMMA BeginsWith ==
  ASSUME TypeOK, Begins
  PROVE  \E seen \in [Ids -> Note \union {None}] :
            /\ BeginWith(seen) /\ budget' \in Budget
            /\ \A n \in Ids : seen[n] # None => seen[n] = live[n]
<1>0. live \in [Ids -> Note \union {None}] /\ budget \in Budget
  BY DEF TypeOK, Budget
<1>1. CASE Begin
  BY <1>0, <1>1 DEF Begin
<1>2. ASSUME NEW unread \in SUBSET Ids, BeginPartly(unread)
      PROVE  \E seen \in [Ids -> Note \union {None}] :
                /\ BeginWith(seen) /\ budget' \in Budget
                /\ \A n \in Ids : seen[n] # None => seen[n] = live[n]
  <2> DEFINE seen == [n \in Ids |-> IF n \in unread THEN None ELSE live[n]]
  <2>1. seen \in [Ids -> Note \union {None}] /\ \A n \in Ids : seen[n] # None => seen[n] = live[n]
    BY <1>0
  <2>2. BeginWith(seen) /\ budget' \in Budget
    BY <1>2, BudgetTyped DEF BeginPartly, Fault
  <2> HIDE DEF seen
  <2> QED
    BY <2>1, <2>2
<1> QED
  BY <1>1, <1>2 DEF Begins

LEMMA NoRunTyped == NoRun \in RunState
  BY DEF NoRun, RunState

LEMMA InitType == Init => TypeOK
  BY NoRunTyped DEF Init, TypeOK, NoRun, Budget

LEMMA SnapshotTyped ==
  ASSUME TypeOK, NEW s \in EnsureBackup PROVE s \in {"taken", "failed"}
  BY DEF EnsureBackup, TypeOK, RunState

LEMMA InboxTyped == ASSUME TypeOK PROVE Page(inbox) \in SUBSET Ids /\ Page(inbox) \subseteq inbox
  BY DEF Page, TypeOK

\* What a step of the run that keeps its phase leaves to show.
LEMMA StepTyped ==
  ASSUME TypeOK, run' \in RunState, run'.phase # "idle", lock = "doctor",
         UNCHANGED <<lock, retiring, captured, expired, overlooked>>, pruned' \in SUBSET Ids,
         budget' \in Budget,
         inbox' \in SUBSET Ids, rejected' \in SUBSET Ids,
         live' \in [Ids -> Note \union {None}], archive' \in [Ids -> Retired \union {None}],
         run'.op # "none" => run'.note # None,
         run'.op \in {"target", "receipt"} =>
            archive'[run'.note] # None /\ run'.into # None /\ run'.view[run'.into] # None
  PROVE  TypeOK'
  BY DEF TypeOK, Budget

LEMMA RunStepType == ASSUME TypeOK, lock = "doctor", RunStep PROVE TypeOK'
<1>0. /\ run \in RunState /\ run.phase # "idle" /\ budget \in Budget
      /\ pruned \in SUBSET Ids
      /\ inbox \in SUBSET Ids /\ rejected \in SUBSET Ids
      /\ live \in [Ids -> Note \union {None}] /\ archive \in [Ids -> Retired \union {None}]
      /\ run.op # "none" => run.note \in Ids
      /\ run.op \in {"target", "receipt"} =>
           archive[run.note] # None /\ run.into \in Ids /\ run.view[run.into] # None
  BY DEF TypeOK, Budget, RunState
<1>1. ASSUME NEW o \in Ids, Retire(o) PROVE TypeOK'
  <2>1. [status |-> "superseded", into |-> None, applied |-> FALSE] \in Retired
    BY DEF Retired
  <2>2. PICK s \in EnsureBackup : run' = [run EXCEPT !.op = "unlive", !.note = o, !.snapshot = s]
    BY <1>1 DEF Retire
  <2>3. run' \in RunState /\ run'.phase = run.phase /\ run'.op = "unlive" /\ run'.note = o
    BY <1>0, <2>2, SnapshotTyped DEF RunState
  <2> QED
    BY <1>0, <1>1, <2>1, <2>3, StepTyped DEF Retire, world
<1>2. CASE RemoveLive
  <2>1. run' \in RunState /\ run'.phase = run.phase /\ run'.op = "none"
    BY <1>0, <1>2 DEF RemoveLive, RunState
  <2> QED
    BY <1>0, <1>2, <2>1, StepTyped DEF RemoveLive, world
<1>3. CASE ListInbox
  <2>1. run' \in RunState /\ run'.phase = "inbox" /\ run'.op = "none"
    <3>1. PICK s \in {"none", "taken", "failed"} :
             run' = [run EXCEPT !.phase = "inbox", !.todo = Page(inbox), !.snapshot = s]
      BY <1>0, <1>3, SnapshotTyped DEF ListInbox, RunState
    <3> QED
      BY <1>0, <1>3, <3>1, InboxTyped DEF ListInbox, RunState, Ready, InPhase
  <2> QED
    BY <1>0, <1>3, <2>1, StepTyped DEF ListInbox, world, files
<1>4. ASSUME NEW n \in Ids, Handle(n) PROVE TypeOK'
  <2>0. ASSUME NEW op \in {"clean", "target"}, StartOp(op, n)
        PROVE  run' \in RunState /\ run'.phase = run.phase /\ run'.op = op /\ run'.note = n
    BY <1>0, <2>0 DEF StartOp, RunState
  <2>1. CASE Recover(n)
    BY <1>0, <2>0, <2>1, StepTyped DEF Recover, world, files
  <2>2. CASE Preserve(n)
    <3>1. run' \in RunState /\ run'.phase = run.phase /\ run'.op = "none"
      BY <1>0, <2>2 DEF Preserve, RunState, Turn, Ready, InPhase
    <3> QED
      BY <1>0, <2>2, <3>1, StepTyped DEF Preserve, world, files
  <2>3. CASE Reject(n)
    BY <1>0, <2>0, <2>3, StepTyped DEF Reject, world
  <2>4. CASE Promote(n)
    <3>1. Promoted(n) \in Note /\ Promoted(n).supersedes \in SUBSET Ids
      BY PromotedTyped DEF Note
    <3>2. run' \in RunState /\ run'.phase = run.phase /\ run'.op = "clean" /\ run'.note = n
      BY <1>0, <2>4, <3>1 DEF Promote, RunState
    <3> QED
      BY <1>0, <2>4, <3>1, <3>2, StepTyped DEF Promote, world
  <2>5. ASSUME NEW e \in Ids, Merge(n, e) PROVE TypeOK'
    <3>1. [status |-> "merged", into |-> e, applied |-> FALSE] \in Retired
      BY DEF Retired
    <3>2. e \in View
      BY <2>5 DEF Merge, Targets, NewTargets
    <3>3. run' \in RunState /\ run'.phase = run.phase /\ run'.op = "target" /\ run'.note = n
          /\ run'.into = e /\ run'.view = run.view
      BY <1>0, <2>5 DEF Merge, RunState
    <3> QED
      BY <1>0, <2>5, <3>1, <3>2, <3>3, StepTyped DEF Merge, world, View
  <2> QED
    BY <1>4, <2>1, <2>2, <2>3, <2>4, <2>5 DEF Handle
<1>5. CASE WriteTarget
  <2>1. Recaptured(run.into, run.note) \in Note
    BY <1>0, <1>5, RecapturedTyped DEF WriteTarget, RunState
  <2>2. run' \in RunState /\ run'.phase = run.phase /\ run'.op = "receipt"
        /\ run'.note = run.note /\ run'.into = run.into
        /\ run'.view[run.into] = Recaptured(run.into, run.note)
    BY <1>0, <1>5, <2>1 DEF WriteTarget, RunState
  <2> QED
    BY <1>0, <1>5, <2>1, <2>2, StepTyped DEF WriteTarget, world
<1>6. CASE WriteReceipt
  <2>1. run' \in RunState /\ run'.phase = run.phase /\ run'.op = "clean" /\ run'.note = run.note
    BY <1>0, <1>6 DEF WriteReceipt, RunState
  <2>2. archive[run.note] \in Retired /\ run.note \in Ids
    BY <1>0, <1>6 DEF WriteReceipt
  <2>3. archive' \in [Ids -> Retired \union {None}]
    BY <1>0, <1>6, <2>2 DEF WriteReceipt, Retired
  <2> QED
    BY <1>0, <1>6, <2>1, <2>3, StepTyped DEF WriteReceipt, world
<1>7. CASE RemoveProposal
  <2>1. run' \in RunState /\ run'.phase = run.phase /\ run'.op = "none"
    BY <1>0, <1>7 DEF RemoveProposal, RunState
  <2> QED
    BY <1>0, <1>7, <2>1, StepTyped DEF RemoveProposal, world
<1>8. CASE RetainSummaries
  <2>1. run' \in RunState /\ run'.phase = "retain" /\ run'.op = "none"
    BY <1>0, <1>8 DEF RetainSummaries, RunState, Ready, InPhase, Surplus, View
  <2> QED
    BY <1>0, <1>8, <2>1, StepTyped DEF RetainSummaries, world, files
<1>9. CASE AuditNotes
  <2>1. run' \in RunState /\ run'.phase = "prune" /\ run'.op = "none"
    BY <1>0, <1>9 DEF AuditNotes, RunState, Ready, InPhase
  <2> QED
    BY <1>0, <1>9, <2>1, StepTyped DEF AuditNotes, world, files
<1>10. ASSUME NEW n \in Ids, PruneRejected(n) PROVE TypeOK'
  BY <1>10 DEF PruneRejected, TypeOK, world
<1>11. CASE EndRun
  BY <1>0, <1>11, NoRunTyped DEF EndRun, TypeOK, files, world, NoRun
<1> QED
  BY <1>1, <1>2, <1>3, <1>4, <1>5, <1>6, <1>7, <1>8, <1>9, <1>10, <1>11 DEF RunStep

\* A step of a run, and most of its failures, happen while it has the lock.
LEMMA RunHasLock ==
  ASSUME TypeOK, \/ RunStep \/ FailOp \/ TimeUp
                 \/ \E n \in Ids : \/ FailRetire(n) \/ FailHandle(n) \/ RejectRaw(n)
                                   \/ \E place \in {"live", "archive"} : FailRead(n, place)
  PROVE  lock = "doctor"
<1>1. run # NoRun
  <2>1. NoRun.phase = "idle" /\ NoRun.op = "none" /\ NoRun.olds = {}
    BY DEF NoRun
  <2> QED
    BY <2>1 DEF RunStep, Retire, RemoveLive, ListInbox, Handle, Recover, Preserve, Reject, Promote,
         Merge, WriteTarget, WriteReceipt, RemoveProposal, RetainSummaries, AuditNotes,
         PruneRejected, EndRun, FailOp, TimeUp, FailRetire, FailHandle, FailRead, RejectRaw, Turn,
         Ready, InPhase
<1> QED
  BY <1>1 DEF TypeOK

LEMMA StepType == ASSUME TypeOK, [Next]_vars PROVE TypeOK'
<1>0. /\ run \in RunState /\ budget \in Budget /\ live \in [Ids -> Note \union {None}]
      /\ archive \in [Ids -> Retired \union {None}]
  BY DEF TypeOK, Budget
<1>1. CASE Begins
  <2>1. PICK seen \in [Ids -> Note \union {None}] : BeginWith(seen) /\ budget' \in Budget
    BY <1>1, BeginsWith
  <2>2. run' \in RunState /\ run'.phase = "reconcile" /\ run'.op = "none"
    BY <2>1, NoRunTyped DEF BeginWith, RunState, NoRun, Unfinished
  <2> QED
    BY <2>1, <2>2 DEF BeginWith, TypeOK, files, Budget
<1>2. CASE RunStep
  BY <1>2, RunHasLock, RunStepType
<1>3. CASE FailOp
  <2>1. run' \in RunState /\ run'.phase = run.phase /\ run'.op = "none"
    BY <1>0, <1>3 DEF FailOp, RunState
  <2>2. lock = "doctor" /\ budget' \in Budget
    BY <1>3, RunHasLock, BudgetTyped DEF FailOp, Fault
  <2> QED
    BY <1>0, <1>3, <2>1, <2>2 DEF FailOp, TypeOK, files, Budget
<1>4. CASE TimeUp
  <2>1. run' \in RunState /\ run'.phase = run.phase /\ run'.op = "none"
    BY <1>0, <1>4 DEF TimeUp, RunState, Ready, InPhase
  <2>2. lock = "doctor" /\ budget' \in Budget
    BY <1>4, RunHasLock, BudgetTyped DEF TimeUp, Fault
  <2> QED
    BY <1>0, <1>4, <2>1, <2>2 DEF TimeUp, TypeOK, files, Budget
<1>5. CASE Crash
  <2>1. budget' \in Budget
    BY <1>5, BudgetTyped DEF Crash, Fault
  <2> QED
    BY <1>5, <2>1, NoRunTyped DEF Crash, TypeOK, files, Budget, NoRun
<1>6. ASSUME NEW o \in Ids, FailRetire(o) PROVE TypeOK'
  <2>1. PICK s \in {"taken", "failed"} : run' = [run EXCEPT !.olds = @ \ {o}, !.snapshot = s]
    BY <1>6, SnapshotTyped DEF FailRetire
  <2>2. run' \in RunState /\ run'.phase = run.phase /\ run'.op = "none"
    BY <1>0, <1>6, <2>1 DEF FailRetire, RunState
  <2>3. lock = "doctor" /\ budget' \in Budget
    BY <1>6, RunHasLock, BudgetTyped DEF FailRetire, Fault
  <2> QED
    BY <1>0, <1>6, <2>2, <2>3 DEF FailRetire, TypeOK, files, Budget
<1>7. ASSUME NEW n \in Ids, FailHandle(n) PROVE TypeOK'
  <2>1. run' \in RunState /\ run'.phase = run.phase /\ run'.op = "none"
    BY <1>0, <1>7 DEF FailHandle, FailRead, RejectRaw, RunState, Turn, Ready, InPhase
  <2>2. lock = "doctor" /\ budget' \in Budget
    BY <1>7, RunHasLock, BudgetTyped DEF FailHandle, FailRead, RejectRaw, Fault
  <2> QED
    BY <1>0, <1>7, <2>1, <2>2 DEF FailHandle, FailRead, RejectRaw, TypeOK, files, Budget
<1>14. ASSUME NEW n \in Ids, NEW place \in {"live", "archive"}, FailRead(n, place) PROVE TypeOK'
  <2>1. run' \in RunState /\ run'.phase = run.phase /\ run'.op = "none"
    BY <1>0, <1>14 DEF FailRead, RunState, Turn, Ready, InPhase
  <2>2. lock = "doctor" /\ budget' \in Budget
    BY <1>14, RunHasLock, BudgetTyped DEF FailRead, Fault
  <2> QED
    BY <1>0, <1>14, <2>1, <2>2 DEF FailRead, TypeOK, files, Budget
<1>15. ASSUME NEW n \in Ids, RejectRaw(n) PROVE TypeOK'
  <2>1. run' \in RunState /\ run'.phase = run.phase /\ run'.op = "clean" /\ run'.note = n
    BY <1>0, <1>15 DEF RejectRaw, StartOp, RunState
  <2>2. lock = "doctor" /\ budget' \in Budget
    BY <1>15, RunHasLock, BudgetTyped DEF RejectRaw, Fault
  <2> QED
    BY <1>0, <1>15, <2>1, <2>2 DEF RejectRaw, TypeOK, Budget
<1>8. CASE EndRetire
  BY <1>8 DEF EndRetire, TypeOK, world
<1>9. ASSUME NEW n \in Ids, Capture(n) PROVE TypeOK'
  BY <1>9 DEF Capture, TypeOK
<1>10. ASSUME NEW n \in Ids, BeginRetire(n) PROVE TypeOK'
  <2>1. budget' \in Budget
    BY <1>10, BudgetTyped DEF BeginRetire
  <2>2. [status |-> "archived", into |-> None, applied |-> FALSE] \in Retired
    BY DEF Retired
  <2>3. archive' \in [Ids -> Retired \union {None}]
    BY <1>0, <1>10, <2>2 DEF BeginRetire
  <2>4. run = NoRun /\ NoRun.op = "none"
    BY <1>10 DEF BeginRetire, TypeOK, NoRun
  <2> QED
    BY <1>10, <2>1, <2>3, <2>4 DEF BeginRetire, TypeOK, Budget
<1>11. ASSUME NEW n \in Ids, Validate(n) PROVE TypeOK'
  <2>1. budget' \in Budget
    BY <1>11, BudgetTyped DEF Validate
  <2>2. live[n] \in Note
    BY <1>0, <1>11 DEF Validate
  <2>3. live' \in [Ids -> Note \union {None}]
    BY <1>0, <1>11, <2>2 DEF Validate, Note
  <2> QED
    BY <1>11, <2>1, <2>3 DEF Validate, TypeOK, Budget
<1>12. ASSUME NEW n \in Ids, Expire(n) PROVE TypeOK'
  BY <1>12 DEF Expire, TypeOK, files
<1>13. CASE UNCHANGED vars
  BY <1>13 DEF vars, files, TypeOK
<1> QED
  BY <1>1, <1>2, <1>3, <1>4, <1>5, <1>6, <1>7, <1>8, <1>9, <1>10, <1>11, <1>12, <1>13,
     <1>14, <1>15 DEF Next, Failure, People, Begins

\* Type correctness, and the lock belongs to who works.
THEOREM TypeCorrect == Spec => []TypeOK
  BY InitType, StepType, PTL DEF Spec

-----------------------------------------------------------------------------
(* What a run has read agrees with the live notes, but for hand edits.      *)

LEMMA TypeFacts ==
  ASSUME TypeOK
  PROVE  /\ run \in RunState /\ run.view \in [Ids -> Note \union {None}]
         /\ live \in [Ids -> Note \union {None}] /\ archive \in [Ids -> Retired \union {None}]
         /\ inbox \in SUBSET Ids /\ run.olds \in SUBSET Ids /\ run.todo \in SUBSET Ids
         /\ run.op # "none" => run.note \in Ids
         /\ run.op \in {"target", "receipt"} =>
              archive[run.note] \in Retired /\ run.into \in Ids /\ run.view[run.into] \in Note
         /\ run.phase = "idle" => run = NoRun
         /\ lock = "doctor" <=> run.phase # "idle"
         /\ lock = "user" <=> retiring # None
  BY DEF TypeOK, RunState

LEMMA LiveTyped == ASSUME TypeOK, NEW n \in Ids, live[n] # None PROVE live[n] \in Note
<1>1. live \in [Ids -> Note \union {None}]
  BY TypeFacts
<1> QED
  BY <1>1

Agree(seen, kept) ==
    /\ kept # None /\ kept.confirmed = seen.confirmed /\ kept.recaptured = seen.recaptured
    /\ kept.captured = seen.captured /\ kept.supersedes = seen.supersedes

Matches == \A n \in Ids : run.view[n] # None => Agree(run.view[n], live[n])

\* The actions that touch neither the live notes nor what a run knows of them.
Aside ==
    \/ ListInbox \/ WriteReceipt \/ RemoveProposal \/ RetainSummaries \/ AuditNotes
    \/ FailOp \/ TimeUp
    \/ \E n \in Ids : \/ Retire(n) \/ Recover(n) \/ Preserve(n) \/ Reject(n)
                      \/ PruneRejected(n) \/ FailRetire(n) \/ FailHandle(n)
                      \/ RejectRaw(n) \/ \E place \in {"live", "archive"} : FailRead(n, place)
                      \/ Capture(n) \/ BeginRetire(n) \/ Expire(n)
                      \/ \E e \in Ids : Merge(n, e)
    \/ UNCHANGED vars

\* Every step is one of these.
LEMMA Steps ==
  ASSUME [Next]_vars
  PROVE  \/ Aside \/ Begins \/ RemoveLive \/ WriteTarget \/ EndRun \/ Crash \/ EndRetire
         \/ \E n \in Ids : Promote(n) \/ Validate(n)
  BY DEF Next, RunStep, Handle, Failure, People, Aside, Begins

LEMMA ViewKept == ASSUME TypeOK, Aside PROVE run'.view = run.view /\ live' = live
<1>0. run \in RunState
  BY TypeFacts
<1>1. CASE ListInbox
  BY <1>0, <1>1 DEF RunState, ListInbox, files
<1>7. CASE WriteReceipt \/ RemoveProposal
  BY <1>0, <1>7 DEF RunState, WriteReceipt, RemoveProposal
<1>8. CASE RetainSummaries \/ AuditNotes
  BY <1>0, <1>8 DEF RunState, RetainSummaries, AuditNotes, files
<1>2. CASE FailOp \/ TimeUp \/ UNCHANGED vars
  BY <1>0, <1>2 DEF RunState, FailOp, TimeUp, vars, files
<1>3. ASSUME NEW n \in Ids, Retire(n) \/ FailRetire(n) \/ FailHandle(n)
      PROVE  run'.view = run.view /\ live' = live
  BY <1>0, <1>3 DEF RunState, Retire, FailRetire, FailHandle, FailRead, RejectRaw, files
<1>4. ASSUME NEW n \in Ids, Recover(n) \/ Preserve(n) \/ Reject(n)
      PROVE  run'.view = run.view /\ live' = live
  BY <1>0, <1>4 DEF RunState, Recover, Preserve, Reject, StartOp, files
<1>9. ASSUME NEW n \in Ids, \/ RejectRaw(n)
                            \/ \E place \in {"live", "archive"} : FailRead(n, place)
      PROVE  run'.view = run.view /\ live' = live
  BY <1>0, <1>9 DEF RunState, RejectRaw, FailRead, StartOp, files
<1>5. ASSUME NEW n \in Ids, PruneRejected(n) \/ Capture(n) \/ BeginRetire(n) \/ Expire(n)
      PROVE  run'.view = run.view /\ live' = live
  BY <1>5 DEF PruneRejected, Capture, BeginRetire, Expire, files
<1>6. ASSUME NEW n \in Ids, NEW e \in Ids, Merge(n, e)
      PROVE  run'.view = run.view /\ live' = live
  BY <1>0, <1>6 DEF RunState, Merge
<1> QED
  BY <1>1, <1>2, <1>3, <1>4, <1>5, <1>6, <1>7, <1>8, <1>9 DEF Aside

LEMMA NoRunSees == NoRun.op = "none" /\ NoRun.olds = {} /\ NoRun.todo = {}
                   /\ \A n \in Ids : NoRun.view[n] = None
  BY DEF NoRun

LEMMA MatchesInit == Init => Matches
  BY DEF Init, Matches, NoRun

LEMMA MatchesStep == ASSUME TypeOK, Matches, [Next]_vars PROVE Matches'
<1>0. /\ run \in RunState /\ run.view \in [Ids -> Note \union {None}]
      /\ live \in [Ids -> Note \union {None}]
  BY TypeFacts
<1>1. CASE Aside
  BY <1>1, ViewKept DEF Matches
<1>2. CASE Begins
  <2>1. PICK seen \in [Ids -> Note \union {None}] :
           BeginWith(seen) /\ \A n \in Ids : seen[n] # None => seen[n] = live[n]
    BY <1>2, BeginsWith
  <2>2. run'.view = seen /\ live' = live
    BY <2>1 DEF BeginWith, NoRun, files
  <2> QED
    BY <2>1, <2>2 DEF Matches, Agree
<1>3. CASE RemoveLive
  <2>1. run'.view = [run.view EXCEPT ![run.note] = None]
        /\ live' = [live EXCEPT ![run.note] = None]
    BY <1>0, <1>3 DEF RemoveLive, RunState
  <2> QED
    BY <1>0, <2>1 DEF Matches
<1>4. CASE WriteTarget
  <2>1. PICK note : run'.view = [run.view EXCEPT ![run.into] = note]
                    /\ live' = [live EXCEPT ![run.into] = note] /\ note \in Note
    BY <1>0, <1>4, TypeFacts, RecapturedTyped DEF WriteTarget, RunState
  <2> QED
    BY <1>0, <2>1 DEF Matches, Agree
<1>5. CASE EndRun \/ Crash
  <2>1. run' = NoRun
    BY <1>5 DEF EndRun, Crash
  <2> QED
    BY <2>1, NoRunSees DEF Matches
<1>6. CASE EndRetire
  <2>1. run' = NoRun
    BY <1>6, TypeFacts DEF EndRetire
  <2> QED
    BY <2>1, NoRunSees DEF Matches
<1>7. ASSUME NEW n \in Ids, Promote(n) PROVE Matches'
  <2>1. run'.view = [run.view EXCEPT ![n] = Promoted(n)]
        /\ live' = [live EXCEPT ![n] = Promoted(n)] /\ Promoted(n) \in Note
    BY <1>0, <1>7, PromotedTyped DEF Promote, RunState
  <2> QED
    BY <1>0, <2>1 DEF Matches, Agree
<1>8. ASSUME NEW n \in Ids, Validate(n) PROVE Matches'
  <2>1. live[n] \in Note
    BY <1>0, <1>8 DEF Validate
  <2>2. live' = [live EXCEPT ![n] = [live[n] EXCEPT !.validated = TRUE]] /\ run' = run
    BY <1>0, <1>8, <2>1 DEF Validate
  <2>3. Agree(live[n], [live[n] EXCEPT !.validated = TRUE])
    <3>1. [live[n] EXCEPT !.validated = TRUE] \in Note
      BY <2>1 DEF Note
    <3>2. [live[n] EXCEPT !.validated = TRUE] # None
      BY <3>1
    <3> QED
      BY <2>1, <3>2 DEF Note, Agree
  <2> QED
    BY <1>0, <2>2, <2>3 DEF Matches, Agree
<1> QED
  BY <1>1, <1>2, <1>3, <1>4, <1>5, <1>6, <1>7, <1>8, Steps

-----------------------------------------------------------------------------
(* What has left the live notes stays out of them.                          *)

LEMMA ArchiveGrows ==
  ASSUME TypeOK, [Next]_vars, NEW n \in Ids, archive[n] # None PROVE archive'[n] # None
<1>0. archive \in [Ids -> Retired \union {None}]
  BY TypeFacts
<1>1. ASSUME NEW o \in Ids, Retire(o) \/ BeginRetire(o) PROVE archive'[n] # None
  <2>1. /\ [status |-> "superseded", into |-> None, applied |-> FALSE] \in Retired
        /\ [status |-> "archived", into |-> None, applied |-> FALSE] \in Retired
    BY DEF Retired
  <2> QED
    BY <1>0, <1>1, <2>1 DEF Retire, BeginRetire
<1>2. ASSUME NEW m \in Ids, NEW e \in Ids, Merge(m, e) PROVE archive'[n] # None
  <2>1. [status |-> "merged", into |-> e, applied |-> FALSE] \in Retired
    BY DEF Retired
  <2> QED
    BY <1>0, <1>2, <2>1 DEF Merge
<1>3. CASE WriteReceipt
  <2>1. archive[run.note] \in Retired /\ run.note \in Ids
    BY <1>3, TypeFacts DEF WriteReceipt
  <2>2. [archive[run.note] EXCEPT !.applied = TRUE] \in Retired
    BY <2>1 DEF Retired
  <2>3. archive' = [archive EXCEPT ![run.note] = [archive[run.note] EXCEPT !.applied = TRUE]]
    BY <1>0, <1>3, <2>1 DEF WriteReceipt
  <2> QED
    BY <1>0, <2>1, <2>2, <2>3
<1>4. CASE UNCHANGED archive
  BY <1>4
<1>5. \/ UNCHANGED archive \/ WriteReceipt
      \/ \E m \in Ids : Retire(m) \/ BeginRetire(m) \/ \E e \in Ids : Merge(m, e)
  <2>1. CASE Aside
    BY <2>1 DEF Aside, ListInbox, RemoveProposal, RetainSummaries, AuditNotes, FailOp, TimeUp,
         Recover, Preserve, Reject, PruneRejected, FailRetire, FailHandle, FailRead, RejectRaw,
         Capture, Expire,
         files, vars
  <2>2. CASE ~Aside
    BY <2>2, Steps DEF Begins, Begin, BeginPartly, BeginWith, RemoveLive, WriteTarget, EndRun,
       Crash, EndRetire, Promote,
         Validate, files
  <2> QED
    BY <2>1, <2>2
<1> QED
  BY <1>1, <1>2, <1>3, <1>4, <1>5

\* A note appears among the live ones only by promotion.
LEMMA Appears ==
  ASSUME TypeOK, Matches, [Next]_vars, NEW n \in Ids, live[n] = None, live'[n] # None
  PROVE  Promote(n)
<1>0. live \in [Ids -> Note \union {None}]
  BY TypeFacts
<1>1. CASE WriteTarget
  <2>1. run.into \in Ids /\ live[run.into] # None
    BY <1>1, TypeFacts DEF WriteTarget, Matches, Agree
  <2> QED
    BY <1>0, <1>1, <2>1 DEF WriteTarget
<1>2. ASSUME NEW m \in Ids, Promote(m) PROVE Promote(n)
  BY <1>0, <1>2 DEF Promote
<1>3. ASSUME NEW m \in Ids, Validate(m) PROVE FALSE
  BY <1>0, <1>3 DEF Validate
<1>4. CASE Aside
  BY <1>4, ViewKept
<1>5. CASE Begins \/ RemoveLive \/ EndRun \/ Crash \/ EndRetire
  BY <1>0, <1>5 DEF Begins, Begin, BeginPartly, BeginWith, RemoveLive, EndRun, Crash, EndRetire, files
<1> QED
  BY <1>1, <1>2, <1>3, <1>4, <1>5, Steps

\* What a run has missed, it has overlooked.
Overlooks == \A m \in run.missed : m[1] \in overlooked

LEMMA OverlookedGrows == ASSUME [Next]_vars PROVE overlooked \subseteq overlooked'
<1>1. CASE Aside
  BY <1>1 DEF Aside, Retire, ListInbox, WriteReceipt, RemoveProposal, RetainSummaries,
     AuditNotes, FailOp, TimeUp, Recover, Preserve, Reject, PruneRejected, FailRetire,
     FailHandle, FailRead, RejectRaw, Capture, BeginRetire, Expire, Merge, vars, world
<1>2. CASE ~Aside
  BY <1>2, Steps DEF Begins, Begin, BeginPartly, BeginWith, RemoveLive, WriteTarget, EndRun, Crash,
     EndRetire, Promote, Validate, world
<1> QED
  BY <1>1, <1>2

LEMMA OverlooksInit == Init => Overlooks
  BY DEF Init, Overlooks, NoRun

LEMMA OverlooksStep == ASSUME TypeOK, Overlooks, [Next]_vars PROVE Overlooks'
<1>0. run \in RunState /\ overlooked \subseteq overlooked' /\ NoRun.missed = {}
  BY TypeFacts, OverlookedGrows DEF NoRun
<1>1. CASE run'.missed = run.missed \/ run'.missed = {}
  BY <1>0, <1>1 DEF Overlooks
<1>2. ASSUME NEW n \in Ids, NEW place \in {"live", "archive"}, FailRead(n, place) PROVE Overlooks'
  <2>1. run'.missed = run.missed \union {<<n, place>>} /\ n \in overlooked'
    BY <1>0, <1>2 DEF FailRead, RunState
  <2>2. <<n, place>>[1] = n
    OBVIOUS
  <2> QED
    BY <1>0, <2>1, <2>2 DEF Overlooks
<1>3. CASE Begins
  <2>1. PICK seen : BeginWith(seen)
    BY <1>3, BeginsWith
  <2>2. run'.missed = {}
    BY <2>1 DEF BeginWith, NoRun
  <2> QED
    BY <1>1, <2>2
<1>4. CASE EndRun \/ Crash
  <2>1. run' = NoRun
    BY <1>4 DEF EndRun, Crash
  <2> QED
    BY <1>0, <1>1, <2>1
<1>5. CASE FailOp \/ TimeUp \/ ListInbox \/ WriteReceipt \/ RemoveProposal
  <2>1. CASE FailOp \/ TimeUp
    BY <1>0, <1>1, <2>1 DEF FailOp, TimeUp, RunState
  <2>2. CASE ListInbox
    BY <1>0, <1>1, <2>2 DEF ListInbox, RunState
  <2>3. CASE WriteReceipt \/ RemoveProposal
    BY <1>0, <1>1, <2>3 DEF WriteReceipt, RemoveProposal, RunState
  <2> QED
    BY <1>5, <2>1, <2>2, <2>3
<1>6. CASE RetainSummaries \/ AuditNotes \/ RemoveLive \/ WriteTarget
  BY <1>0, <1>1, <1>6 DEF RetainSummaries, AuditNotes, RemoveLive, WriteTarget, RunState
<1>7. ASSUME NEW n \in Ids, Retire(n) \/ FailRetire(n) \/ FailHandle(n) \/ RejectRaw(n)
      PROVE  Overlooks'
  BY <1>0, <1>1, <1>7 DEF Retire, FailRetire, FailHandle, RejectRaw, StartOp, RunState
<1>8. ASSUME NEW n \in Ids, Recover(n) \/ Preserve(n) \/ Reject(n) \/ Promote(n) PROVE Overlooks'
  BY <1>0, <1>1, <1>8 DEF Recover, Preserve, Reject, Promote, StartOp, RunState
<1>9. ASSUME NEW n \in Ids, NEW e \in Ids, Merge(n, e) PROVE Overlooks'
  BY <1>0, <1>1, <1>9 DEF Merge, RunState
<1>10. CASE UNCHANGED run
  BY <1>1, <1>10
<1>11. (\E n \in Ids : \/ PruneRejected(n) \/ Capture(n) \/ BeginRetire(n) \/ Validate(n)
                       \/ Expire(n)) \/ EndRetire \/ UNCHANGED vars
       => UNCHANGED run
  BY DEF PruneRejected, Capture, BeginRetire, Validate, Expire, EndRetire, vars
<1> QED
  BY <1>2, <1>3, <1>4, <1>5, <1>6, <1>7, <1>8, <1>9, <1>10, <1>11, Steps DEF Aside

LEMMA ReadAsIs ==
  ASSUME Overlooks, NEW n \in Ids \ overlooked
  PROVE  LiveRead(n) = live[n] /\ ArchiveRead(n) = archive[n]
<1>1. \A place : <<n, place>> \in run.missed => <<n, place>>[1] \in overlooked
  BY DEF Overlooks
<1>2. \A place : <<n, place>> \notin run.missed
  BY <1>1
<1> QED
  BY <1>2 DEF LiveRead, ArchiveRead

\* A note that has left the live notes never comes back: Doctor looks for it
\* in the archive before it promotes. Excepted are proposals whose archived
\* copy was there and could not be read, which doctor.go:261 takes for new.
THEOREM LeftForGood == Spec => NeverResurrected
<1>1. ASSUME TypeOK, Matches, Overlooks, [Next]_vars
      PROVE  \A n \in Ids \ overlooked : archive[n] # None /\ live[n] = None => live'[n] = None
  BY <1>1, Appears, ReadAsIs DEF Promote, Open, Fresh, Persisted
<1>2. ASSUME TypeOK, Matches, Overlooks, [Next]_vars
      PROVE  [\A n \in Ids \ overlooked :
                 archive[n] # None /\ live[n] = None => live'[n] = None]_vars
  BY <1>1, <1>2
<1> QED
  BY <1>2, InitType, StepType, MatchesInit, MatchesStep, OverlooksInit, OverlooksStep, PTL
     DEF Spec, NeverResurrected

-----------------------------------------------------------------------------
(* A capture is always somewhere.                                           *)

Placed(n) == n \in rejected \union pruned \/ live[n] # None \/ archive[n] # None

Backed ==
    /\ run.op = "unlive" => archive[run.note] # None
    /\ run.op = "clean" => Placed(run.note)
    /\ retiring # None => archive[retiring] # None

LEMMA PlacedKept ==
  ASSUME TypeOK, Backed, [Next]_vars, NEW n \in Ids, Placed(n) PROVE Placed(n)'
<1>0. /\ live \in [Ids -> Note \union {None}] /\ archive \in [Ids -> Retired \union {None}]
      /\ run.op # "none" => run.note \in Ids
  BY TypeFacts
<1>1. CASE archive[n] # None
  BY <1>1, ArchiveGrows DEF Placed
<1>2. CASE archive[n] = None /\ live[n] # None
  <2>1. CASE RemoveLive \/ EndRetire
    BY <1>0, <1>2, <2>1, TypeFacts DEF RemoveLive, EndRetire, Backed, Placed
  <2>2. CASE WriteTarget
    <3>1. Recaptured(run.into, run.note) # None
      BY <2>2, TypeFacts, RecapturedTyped DEF WriteTarget
    <3> QED
      BY <1>0, <1>2, <2>2, <3>1 DEF WriteTarget, Placed
  <2>3. ASSUME NEW m \in Ids, Promote(m) PROVE Placed(n)'
    BY <1>0, <1>2, <2>3, PromotedTyped DEF Promote, Placed
  <2>4. ASSUME NEW m \in Ids, Validate(m) PROVE Placed(n)'
    <3>0. live[m] # None
      BY <2>4 DEF Validate
    <3>1. live[m] \in Note
      BY <2>4, <3>0, LiveTyped
    <3>2. [live[m] EXCEPT !.validated = TRUE] \in Note
      BY <3>1 DEF Note
    <3>3. PICK note \in Note : live' = [live EXCEPT ![m] = note]
      BY <2>4, <3>2 DEF Validate
    <3> QED
      BY <1>0, <1>2, <3>3 DEF Placed
  <2>5. CASE Aside \/ EndRun \/ Crash
    BY <1>2, <2>5, ViewKept DEF EndRun, Crash, files, Placed
  <2>6. CASE Begins
    BY <1>2, <2>6, BeginsWith DEF BeginWith, files, Placed
  <2> QED
    BY <2>1, <2>2, <2>3, <2>4, <2>5, <2>6, Steps
<1>3. CASE n \in rejected \union pruned
  <2>1. (rejected \union pruned) \subseteq (rejected \union pruned)'
    <3>1. CASE Aside
      BY <3>1 DEF Aside, Retire, ListInbox, WriteReceipt, RemoveProposal, RetainSummaries,
           AuditNotes, FailOp, TimeUp, Recover, Preserve, Reject, PruneRejected, FailRetire,
           FailHandle, FailRead, RejectRaw, Capture, BeginRetire, Expire, Merge, files, vars
    <3>2. CASE ~Aside
      BY <3>2, Steps DEF Begins, Begin, BeginPartly, BeginWith, RemoveLive, WriteTarget, EndRun,
         Crash, EndRetire, Promote,
           Validate, files
    <3> QED
      BY <3>1, <3>2
  <2> QED
    BY <1>3, <2>1 DEF Placed
<1> QED
  BY <1>1, <1>2, <1>3 DEF Placed

LEMMA BackedInit == Init => Backed
  BY NoRunSees DEF Init, Backed

LEMMA BackedStep == ASSUME TypeOK, Backed, [Next]_vars PROVE Backed'
<1>0. /\ run \in RunState /\ live \in [Ids -> Note \union {None}]
      /\ archive \in [Ids -> Retired \union {None}]
      /\ run.op # "none" => run.note \in Ids
      /\ lock = "user" <=> retiring # None
      /\ \A n \in Ids : Placed(n) => Placed(n)'
      /\ \A n \in Ids : archive[n] # None => archive'[n] # None
  BY TypeFacts, PlacedKept, ArchiveGrows
<1>1. retiring' # None => archive'[retiring'] # None
  <2>1. ASSUME NEW n \in Ids, BeginRetire(n) PROVE archive'[n] # None
    <3>1. [status |-> "archived", into |-> None, applied |-> FALSE] \in Retired
      BY DEF Retired
    <3> QED
      BY <1>0, <2>1, <3>1 DEF BeginRetire
  <2>2. CASE UNCHANGED retiring
    BY <1>0, <2>2, TypeFacts DEF Backed, TypeOK
  <2>3. \/ UNCHANGED retiring \/ retiring' = None
        \/ \E n \in Ids : BeginRetire(n) /\ retiring' = n
    <3>1. CASE Aside
      BY <3>1 DEF Aside, Retire, ListInbox, WriteReceipt, RemoveProposal, RetainSummaries,
           AuditNotes, FailOp, TimeUp, Recover, Preserve, Reject, PruneRejected, FailRetire,
           FailHandle, FailRead, RejectRaw, Capture, BeginRetire, Expire, Merge, files, vars
    <3>2. CASE ~Aside
      BY <3>2, Steps DEF Begins, Begin, BeginPartly, BeginWith, RemoveLive, WriteTarget, EndRun,
         Crash, EndRetire, Promote,
           Validate, files
    <3> QED
      BY <3>1, <3>2
  <2> QED
    BY <2>1, <2>2, <2>3
<1>2. CASE run'.op = "none"
  BY <1>1, <1>2 DEF Backed
<1>3. CASE run'.op = run.op /\ run'.note = run.note
  BY <1>0, <1>1, <1>3 DEF Backed
<1>4. ASSUME NEW o \in Ids, Retire(o) PROVE Backed'
  <2>1. run'.op = "unlive" /\ run'.note = o
    BY <1>0, <1>4 DEF Retire, RunState
  <2>2. [status |-> "superseded", into |-> None, applied |-> FALSE] \in Retired
    BY DEF Retired
  <2> QED
    BY <1>0, <1>1, <1>4, <2>1, <2>2 DEF Retire, Backed
<1>5. ASSUME NEW n \in Ids, Handle(n) PROVE Backed'
  <2>0. ASSUME NEW op \in {"clean", "target"}, StartOp(op, n)
        PROVE  run'.op = op /\ run'.note = n
    BY <1>0, <2>0 DEF StartOp, RunState
  <2>1. CASE Recover(n)
    BY <1>0, <1>1, <2>0, <2>1 DEF Recover, Backed, Persisted, LiveRead, ArchiveRead, Placed
  <2>2. CASE Preserve(n)
    BY <1>0, <1>2, <2>2 DEF Preserve, RunState, Turn, Ready, InPhase
  <2>3. CASE Reject(n)
    BY <1>0, <1>1, <2>0, <2>3 DEF Reject, Backed, Placed
  <2>4. CASE Promote(n)
    <3>1. run'.op = "clean" /\ run'.note = n
      BY <1>0, <2>4 DEF Promote, RunState
    <3>2. live'[n] = Promoted(n) /\ Promoted(n) \in Note
      BY <1>0, <2>4, PromotedTyped DEF Promote
    <3> QED
      BY <1>1, <3>1, <3>2 DEF Backed, Placed
  <2>5. ASSUME NEW e \in Ids, Merge(n, e) PROVE Backed'
    BY <1>0, <1>1, <2>5 DEF Merge, Backed, RunState
  <2> QED
    BY <1>5, <2>1, <2>2, <2>3, <2>4, <2>5 DEF Handle
<1>6. CASE WriteTarget
  BY <1>0, <1>1, <1>6 DEF WriteTarget, Backed, RunState
<1>7. CASE WriteReceipt
  <2>1. run'.op = "clean" /\ run'.note = run.note
    BY <1>0, <1>7 DEF WriteReceipt, RunState
  <2>2. archive[run.note] # None
    BY <1>7, TypeFacts DEF WriteReceipt
  <2> QED
    BY <1>0, <1>1, <1>7, <2>1, <2>2 DEF WriteReceipt, Backed, Placed
<1>8. CASE RemoveLive \/ RemoveProposal
  <2>1. run'.op = "none"
    BY <1>0, <1>8 DEF RemoveLive, RemoveProposal, RunState
  <2> QED
    BY <1>2, <2>1
<1>14. CASE ListInbox \/ RetainSummaries \/ AuditNotes
  <2>1. CASE ListInbox
    BY <1>0, <1>2, <2>1 DEF ListInbox, RunState, Ready, InPhase
  <2>2. CASE RetainSummaries \/ AuditNotes
    BY <1>0, <1>2, <2>2 DEF RetainSummaries, AuditNotes, RunState, Ready, InPhase
  <2> QED
    BY <1>14, <2>1, <2>2
<1>9. CASE Begins \/ EndRun \/ Crash
  <2>1. run'.op = "none"
    <3>1. CASE Begins
      <4>1. PICK seen : BeginWith(seen)
        BY <3>1, BeginsWith
      <4> QED
        BY <4>1, NoRunSees, NoRunTyped DEF BeginWith, RunState
    <3>2. CASE EndRun \/ Crash
      BY <3>2, NoRunSees DEF EndRun, Crash
    <3> QED
      BY <1>9, <3>1, <3>2
  <2> QED
    BY <1>2, <2>1
<1>15. ASSUME NEW n \in Ids, NEW place \in {"live", "archive"}, FailRead(n, place) PROVE Backed'
  <2>1. run'.op = "none"
    BY <1>0, <1>15 DEF FailRead, Turn, RunState, Ready, InPhase
  <2> QED
    BY <1>2, <2>1
<1>16. ASSUME NEW n \in Ids, RejectRaw(n) PROVE Backed'
  <2>1. run'.op = "clean" /\ run'.note = n
    BY <1>0, <1>16 DEF RejectRaw, StartOp, RunState
  <2> QED
    BY <1>0, <1>1, <1>16, <2>1 DEF RejectRaw, Backed, Placed
<1>10. CASE FailOp \/ TimeUp
  <2>1. run'.op = "none"
    BY <1>0, <1>10 DEF FailOp, TimeUp, RunState, Ready, InPhase
  <2> QED
    BY <1>2, <2>1
<1>11. ASSUME NEW n \in Ids, FailRetire(n) \/ FailHandle(n) PROVE Backed'
  <2>1. run'.op = "none"
    BY <1>0, <1>11 DEF FailRetire, FailHandle, FailRead, RejectRaw, Turn, RunState, Ready, InPhase
  <2> QED
    BY <1>2, <2>1
<1>12. CASE UNCHANGED run
  BY <1>3, <1>12
<1>13. (\E n \in Ids : \/ PruneRejected(n) \/ Capture(n) \/ BeginRetire(n) \/ Validate(n)
                       \/ Expire(n)) \/ EndRetire \/ UNCHANGED vars
       => UNCHANGED run
  BY DEF PruneRejected, Capture, BeginRetire, Validate, Expire, EndRetire, vars
<1> QED
  BY <1>4, <1>5, <1>6, <1>7, <1>8, <1>9, <1>10, <1>11, <1>12, <1>13, <1>14, <1>15,
     <1>16 DEF Next, RunStep, Failure, People, Begins

LEMMA StillThere ==
  ASSUME TypeOK, Backed, NothingDestroyed, [Next]_vars PROVE NothingDestroyed'
<1>0. /\ run.op # "none" => run.note \in Ids
      /\ \A n \in Ids : Placed(n) => Placed(n)'
      /\ captured \in SUBSET Ids /\ captured' \in SUBSET Ids
  BY TypeFacts, PlacedKept, StepType DEF TypeOK
<1>1. ASSUME NEW n \in Ids, n \in captured => n \in inbox \/ Placed(n)
      PROVE  n \in captured' => n \in inbox' \/ Placed(n)'
  <2>1. CASE RemoveProposal
    BY <1>0, <1>1, <2>1 DEF RemoveProposal, Backed, world
  <2>2. ASSUME NEW m \in Ids, Capture(m) PROVE n \in captured' => n \in inbox' \/ Placed(n)'
    BY <1>0, <1>1, <2>2 DEF Capture
  <2>3. CASE UNCHANGED <<captured, inbox>>
    BY <1>0, <1>1, <2>3
  <2>4. \/ RemoveProposal \/ UNCHANGED <<captured, inbox>> \/ \E m \in Ids : Capture(m)
    <3>1. CASE Aside
      BY <3>1 DEF Aside, Retire, ListInbox, WriteReceipt, RetainSummaries,
           AuditNotes, FailOp, TimeUp, Recover, Preserve, Reject, PruneRejected, FailRetire,
           FailHandle, FailRead, RejectRaw, BeginRetire, Expire, Merge, files, vars, world
    <3>2. CASE ~Aside
      BY <3>2, Steps DEF Begins, Begin, BeginPartly, BeginWith, RemoveLive, WriteTarget, EndRun,
         Crash, EndRetire, Promote,
           Validate, files, world
    <3> QED
      BY <3>1, <3>2
  <2> QED
    BY <2>1, <2>2, <2>3, <2>4
<1>2. \A n \in captured : n \in inbox \/ Placed(n)
  BY <1>0 DEF NothingDestroyed, Placed
<1>3. \A n \in captured' : n \in inbox' \/ Placed(n)'
  BY <1>0, <1>1, <1>2
<1> QED
  BY <1>0, <1>3 DEF NothingDestroyed, Placed

\* Whatever fails or dies, every accepted capture is still in the vault.
THEOREM NoCaptureDestroyed == Spec => []NothingDestroyed
<1>1. Init => NothingDestroyed
  BY DEF Init, NothingDestroyed
<1> QED
  BY <1>1, InitType, StepType, BackedInit, BackedStep, StillThere, PTL DEF Spec

-----------------------------------------------------------------------------
(* What a run is about to retire, later notes replace.                      *)

Replacing(o) == {b \in Ids : /\ run.view[b] # None /\ SameTopic(o, b)
                             /\ run.view[b].captured > run.view[o].captured}

Justifies(o) ==
    /\ run.view[o] # None
    /\ Kind[o] = "decision" => ~run.view[o].validated /\ Replacing(o) # {}
    /\ Kind[o] = "summary" /\ run.twice = {} => Cardinality(NewerSeen(o)) >= KeepSummaries

Justified ==
    /\ \A o \in run.olds : Justifies(o)
    /\ run.op = "unlive" => run.note \in run.olds
    /\ run.op \in {"target", "receipt"} => run.olds = {}

\* Retiring one note leaves the others replaced: later than it is later still.
LEMMA RetiringOne ==
  ASSUME TypeOK, Justified, NEW x \in Ids, x \in run.olds, NEW o \in run.olds, o # x,
         run'.view = [run.view EXCEPT ![x] = None], run'.twice = run.twice
  PROVE  Justifies(o)'
<1>0. /\ run.view \in [Ids -> Note \union {None}] /\ o \in Ids
      /\ Justifies(o) /\ Justifies(x)
      /\ \A n \in Ids : run'.view[n] = IF n = x THEN None ELSE run.view[n]
  BY TypeFacts DEF Justified
<1>1. \A n \in Ids : run.view[n] # None => run.view[n].captured \in Nat
  BY <1>0 DEF Note
<1>2. run'.view[o] = run.view[o] /\ run.view[o] # None
  BY <1>0 DEF Justifies
<1>3. ASSUME Kind[o] = "decision" PROVE ~run'.view[o].validated /\ Replacing(o)' # {}
  <2>1. ASSUME NEW b \in Replacing(o), b # x PROVE Replacing(o)' # {}
    <3>1. b \in Replacing(o)'
      BY <1>0, <1>2, <2>1 DEF Replacing
    <3> QED
      BY <3>1
  <2>2. PICK b \in Ids : b \in Replacing(o)
    BY <1>0, <1>3 DEF Justifies, Replacing
  <2>3. CASE b = x
    <3>1. Kind[x] = "decision"
      BY <2>2, <2>3 DEF Replacing, SameTopic
    <3>2. PICK c \in Ids : c \in Replacing(x)
      BY <1>0, <3>1 DEF Justifies, Replacing
    <3>3. /\ run.view[c] # None /\ SameTopic(x, c) /\ run.view[c].captured > run.view[x].captured
          /\ run.view[x] # None /\ SameTopic(o, x) /\ run.view[x].captured > run.view[o].captured
      BY <2>2, <2>3, <3>2 DEF Replacing
    <3>4. /\ run.view[c].captured \in Nat /\ run.view[x].captured \in Nat
          /\ run.view[o].captured \in Nat
      BY <1>0, <1>1, <1>2, <3>2, <3>3
    <3>5. run.view[c].captured > run.view[o].captured /\ c # x
      BY <3>3, <3>4
    <3>6. c # x /\ c \in Replacing(o)
      BY <3>2, <3>3, <3>4 DEF Replacing, SameTopic
    <3> QED
      BY <1>0, <1>2, <1>3, <2>1, <3>6 DEF Justifies
  <2> QED
    BY <1>0, <1>2, <1>3, <2>1, <2>2, <2>3 DEF Justifies
<1>4. ASSUME Kind[o] = "summary", run.twice = {} PROVE Cardinality(NewerSeen(o)') >= KeepSummaries
  <2>1. NewerSeen(o)' = NewerSeen(o) \ {x}
    BY <1>0 DEF NewerSeen, View
  <2>2. IsFiniteSet(NewerSeen(o)')
    BY FS_Subset DEF NewerSeen, View
  <2>3. CASE x \notin NewerSeen(o)
    <3>1. NewerSeen(o)' = NewerSeen(o)
      BY <2>1, <2>3
    <3> QED
      BY <1>0, <1>4, <3>1 DEF Justifies
  <2>4. CASE x \in NewerSeen(o)
    <3>1. Kind[x] = "summary" /\ Newer(x, o)
      BY <2>4 DEF NewerSeen
    <3>2. \A m \in Ids : Newer(m, x) => Newer(m, o) /\ m # x
      BY <1>0, <3>1 DEF Newer
    <3>3. NewerSeen(x) \subseteq NewerSeen(o)'
      BY <2>1, <3>2 DEF NewerSeen, View
    <3>4. Cardinality(NewerSeen(x)) >= KeepSummaries
      BY <1>0, <1>4, <3>1 DEF Justifies
    <3>5. Cardinality(NewerSeen(x)) <= Cardinality(NewerSeen(o)')
          /\ Cardinality(NewerSeen(x)) \in Nat /\ Cardinality(NewerSeen(o)') \in Nat
      BY <2>2, <3>3, FS_Subset, FS_CardinalityType
    <3> QED
      BY <3>4, <3>5
  <2> QED
    BY <2>3, <2>4
<1> QED
  BY <1>2, <1>3, <1>4 DEF Justifies

LEMMA JustifiedInit == Init => Justified
  BY NoRunSees DEF Init, Justified

LEMMA JustifiedKept ==
  ASSUME Justified, run'.view = run.view, run'.twice = run.twice, run'.olds \subseteq run.olds,
         run'.op = "unlive" => run'.note \in run'.olds,
         run'.op \in {"target", "receipt"} => run'.olds = {}
  PROVE  Justified'
<1>1. \A o : Justifies(o)' <=> Justifies(o)
  BY DEF Justifies, Replacing, NewerSeen, View
<1> QED
  BY <1>1 DEF Justified

LEMMA JustifiedRun == ASSUME TypeOK, Matches, Justified, RunStep PROVE Justified'
<1>0. /\ run \in RunState /\ run.view \in [Ids -> Note \union {None}]
      /\ run.olds \in SUBSET Ids
  BY TypeFacts
<1>1. ASSUME NEW o \in Ids, Retire(o) PROVE Justified'
  <2>1. run'.view = run.view /\ run'.twice = run.twice /\ run'.olds = run.olds
        /\ run'.op = "unlive" /\ run'.note = o
    BY <1>0, <1>1 DEF Retire, RunState
  <2> QED
    BY <1>1, <2>1, JustifiedKept DEF Retire
<1>2. CASE RemoveLive
  <2>1. /\ run'.view = [run.view EXCEPT ![run.note] = None] /\ run'.op = "none"
        /\ run'.twice = run.twice
        /\ run'.olds = run.olds \ {run.note}
    BY <1>0, <1>2 DEF RemoveLive, RunState
  <2>0. run.op = "unlive"
    BY <1>2 DEF RemoveLive
  <2>2. run.note \in run.olds
    BY <2>0 DEF Justified
  <2>3. run.note \in Ids
    BY <1>0, <2>2
  <2> QED
    BY <2>1, <2>2, <2>3, RetiringOne DEF Justified
<1>3. CASE ListInbox
  <2>1. run'.view = run.view /\ run'.twice = run.twice /\ run'.olds = run.olds /\ run'.op = "none"
    BY <1>0, <1>3 DEF ListInbox, RunState, Ready, InPhase
  <2> QED
    BY <2>1, JustifiedKept
<1>4. ASSUME NEW n \in Ids, Handle(n) PROVE Justified'
  <2>0. ASSUME NEW op \in {"clean", "target"}, StartOp(op, n)
        PROVE  run'.view = run.view /\ run'.twice = run.twice /\ run'.olds = run.olds /\ run'.op = op
    BY <1>0, <2>0 DEF StartOp, RunState
  <2>1. CASE Recover(n) \/ Reject(n)
    BY <2>0, <2>1, JustifiedKept DEF Recover, Reject
  <2>2. CASE Preserve(n)
    <3>1. run'.view = run.view /\ run'.twice = run.twice /\ run'.olds = run.olds /\ run'.op = "none"
      BY <1>0, <2>2 DEF Preserve, RunState, Turn, Ready, InPhase
    <3> QED
      BY <3>1, JustifiedKept
  <2>3. ASSUME NEW e \in Ids, Merge(n, e) PROVE Justified'
    <3>1. run'.view = run.view /\ run'.twice = run.twice /\ run'.olds = run.olds
          /\ run'.op = "target" /\ run.olds = {}
      BY <1>0, <2>3 DEF Merge, RunState, Turn, Ready
    <3> QED
      BY <3>1, JustifiedKept
  <2>4. CASE Promote(n)
    <3>1. /\ run'.view = [run.view EXCEPT ![n] = Promoted(n)] /\ run'.op = "clean"
          /\ run'.olds = Promoted(n).supersedes /\ Promoted(n) \in Note
      BY <1>0, <2>4, PromotedTyped DEF Promote, RunState
    <3>2. Kind[n] = "decision" => run.view[n] = None
      BY <2>4 DEF Promote, Open, Fresh, Targets, NewTargets, View, SameClaim
    <3>3. ASSUME NEW o \in run'.olds PROVE Justifies(o)'
      <4>1. o \in Olds(n) /\ o \in Ids /\ run.view[o] # None
        BY <3>1, <3>3 DEF Promoted, Olds, View
      <4>2. o # n /\ run'.view[o] = run.view[o] /\ run'.view[n] = Promoted(n)
        BY <1>0, <3>1, <3>2, <4>1 DEF Olds, SameTopic
      <4>3. Kind[o] = "decision" /\ SameTopic(o, n) /\ ~run.view[o].validated
            /\ Time[n] > run.view[o].captured
        BY <4>1 DEF Olds, SameTopic
      <4>4. Promoted(n) # None /\ Promoted(n).captured = Time[n]
        BY <3>1 DEF Promoted
      <4>5. n \in Replacing(o)'
        BY <4>2, <4>3, <4>4 DEF Replacing
      <4> QED
        BY <4>1, <4>2, <4>3, <4>5 DEF Justifies
    <3> QED
      BY <3>1, <3>3 DEF Justified
  <2> QED
    BY <1>4, <2>1, <2>2, <2>3, <2>4 DEF Handle
<1>5. CASE WriteTarget
  <2>1. run'.olds = {} /\ run'.op = "receipt"
    BY <1>0, <1>5 DEF WriteTarget, RunState, Justified
  <2> QED
    BY <2>1 DEF Justified
<1>6. CASE WriteReceipt \/ RemoveProposal
  <2>1. run'.view = run.view /\ run'.twice = run.twice /\ run'.olds = run.olds
        /\ run'.op \in {"clean", "none"}
    BY <1>0, <1>6 DEF WriteReceipt, RemoveProposal, RunState
  <2> QED
    BY <2>1, JustifiedKept
<1>7. CASE RetainSummaries
  <2>1. run'.view = run.view /\ run'.twice = run.twice /\ run'.olds = Surplus /\ run'.op = "none"
    BY <1>0, <1>7 DEF RetainSummaries, RunState, Ready, InPhase
  <2>2. \A o : NewerSeen(o)' = NewerSeen(o)
    BY <2>1 DEF NewerSeen, View
  <2>3. ASSUME NEW o \in Surplus PROVE Justifies(o)'
    <3>1. Kind[o] = "summary" /\ o \in Ids /\ run.view[o] # None
      BY <2>3 DEF Surplus, View
    <3>2. ASSUME run.twice = {} PROVE Cardinality(NewerSeen(o)) >= KeepSummaries
      <4>1. Cardinality({m \in run.twice : m = o \/ m \in NewerSeen(o)}) = 0
        BY <3>2, FS_EmptySet
      <4>2. Cardinality(NewerSeen(o)) \in Nat
        BY FS_Subset, FS_CardinalityType DEF NewerSeen, View
      <4>3. Cardinality(NewerSeen(o)) + Cardinality({m \in run.twice : m = o \/ m \in NewerSeen(o)})
              >= KeepSummaries
        BY <2>3 DEF Surplus
      <4> QED
        BY <4>1, <4>2, <4>3
    <3> QED
      BY <2>1, <2>2, <3>1, <3>2 DEF Justifies
  <2> QED
    BY <2>1, <2>3 DEF Justified
<1>8. CASE AuditNotes
  <2>1. run'.view = run.view /\ run'.twice = run.twice /\ run'.olds = run.olds /\ run'.op = "none"
    BY <1>0, <1>8 DEF AuditNotes, RunState, Ready, InPhase
  <2> QED
    BY <2>1, JustifiedKept
<1>9. ASSUME NEW n \in Ids, PruneRejected(n) PROVE Justified'
  BY <1>9, JustifiedKept DEF PruneRejected, Justified
<1>10. CASE EndRun
  BY <1>10, NoRunSees DEF EndRun, Justified
<1> QED
  BY <1>1, <1>2, <1>3, <1>4, <1>5, <1>6, <1>7, <1>8, <1>9, <1>10 DEF RunStep

LEMMA JustifiedStep == ASSUME TypeOK, Matches, Justified, [Next]_vars PROVE Justified'
<1>0. run \in RunState /\ live \in [Ids -> Note \union {None}]
  BY TypeFacts
<1>1. CASE Begins
  <2>1. PICK seen \in [Ids -> Note \union {None}] : BeginWith(seen)
    BY <1>1, BeginsWith
  <2>2. run'.view = seen /\ run'.olds = Unfinished(seen) /\ run'.op = "none"
    BY <2>1, NoRunTyped, NoRunSees DEF BeginWith, RunState
  <2>3. ASSUME NEW o \in Unfinished(seen) PROVE Justifies(o)'
    <3>1. PICK b \in Ids : /\ seen[b] # None /\ SameTopic(b, o)
                           /\ seen[b].captured > seen[o].captured
      BY <2>3 DEF Unfinished
    <3>2. b \in Replacing(o)'
      BY <2>2, <3>1 DEF Replacing, SameTopic
    <3>3. seen[o] # None /\ ~seen[o].validated /\ Kind[o] = "decision"
      BY <2>3, <3>1 DEF Unfinished, SameTopic
    <3> QED
      BY <2>2, <3>2, <3>3 DEF Justifies
  <2> QED
    BY <2>2, <2>3 DEF Justified
<1>2. CASE FailOp \/ TimeUp
  <2>1. CASE FailOp
    <3>1. run'.view = run.view /\ run'.twice = run.twice /\ run'.olds = run.olds \ {run.note}
          /\ run'.op = "none"
      BY <1>0, <2>1 DEF FailOp, RunState
    <3> QED
      BY <3>1, JustifiedKept
  <2>2. CASE TimeUp
    <3>1. run'.view = run.view /\ run'.twice = run.twice /\ run'.olds = run.olds /\ run'.op = "none"
      BY <1>0, <2>2 DEF TimeUp, RunState, Ready, InPhase
    <3> QED
      BY <3>1, JustifiedKept
  <2> QED
    BY <1>2, <2>1, <2>2
<1>3. ASSUME NEW n \in Ids, FailRetire(n) \/ FailHandle(n) PROVE Justified'
  <2>1. CASE FailRetire(n)
    <3>1. run'.view = run.view /\ run'.twice = run.twice /\ run'.olds = run.olds \ {n} /\ run'.op = "none"
      BY <1>0, <2>1 DEF FailRetire, RunState
    <3> QED
      BY <3>1, JustifiedKept
  <2>2. CASE FailHandle(n)
    <3>1. run'.view = run.view /\ run'.twice = run.twice /\ run'.olds = run.olds /\ run'.op = "none"
      BY <1>0, <2>2 DEF FailHandle, FailRead, RejectRaw, RunState, Turn, Ready, InPhase
    <3> QED
      BY <3>1, JustifiedKept
  <2> QED
    BY <1>3, <2>1, <2>2
<1>7. ASSUME NEW n \in Ids, \/ RejectRaw(n)
                            \/ \E place \in {"live", "archive"} : FailRead(n, place)
      PROVE  Justified'
  <2>1. CASE RejectRaw(n)
    <3>1. run'.view = run.view /\ run'.twice = run.twice /\ run'.olds = run.olds /\ run'.op = "clean"
      BY <1>0, <2>1 DEF RejectRaw, StartOp, RunState
    <3> QED
      BY <3>1, JustifiedKept
  <2>2. ASSUME NEW place \in {"live", "archive"}, FailRead(n, place) PROVE Justified'
    <3>1. run'.view = run.view /\ run'.twice = run.twice /\ run'.olds = run.olds /\ run'.op = "none"
      BY <1>0, <2>2 DEF FailRead, RunState, Turn, Ready, InPhase
    <3> QED
      BY <3>1, JustifiedKept
  <2> QED
    BY <1>7, <2>1, <2>2
<1>4. CASE Crash
  BY <1>4, NoRunSees DEF Crash, Justified
<1>5. CASE UNCHANGED run
  BY <1>5, JustifiedKept DEF Justified
<1>6. (\E n \in Ids : Capture(n) \/ BeginRetire(n) \/ Validate(n) \/ Expire(n))
       \/ EndRetire \/ UNCHANGED vars => UNCHANGED run
  BY DEF Capture, BeginRetire, Validate, Expire, EndRetire, vars
<1> QED
  BY <1>1, <1>2, <1>3, <1>4, <1>5, <1>6, <1>7, JustifiedRun DEF Next, Failure, People, Begins

\* Doctor removes a live note only as the second half of a retirement.
LEMMA RemovedByRun ==
  ASSUME TypeOK, [Next]_vars, NEW o \in Ids, Removed(o)
  PROVE  RemoveLive /\ run.note = o
<1>0. /\ live \in [Ids -> Note \union {None}] /\ lock = "doctor"
      /\ live[o] # None /\ live'[o] = None
      /\ lock = "user" <=> retiring # None
  BY TypeFacts DEF Removed
<1>1. CASE Aside
  BY <1>0, <1>1, ViewKept
<1>2. CASE RemoveLive
  BY <1>0, <1>2 DEF RemoveLive
<1>3. CASE WriteTarget
  <2>1. Recaptured(run.into, run.note) # None
    BY <1>3, TypeFacts, RecapturedTyped DEF WriteTarget
  <2> QED
    BY <1>0, <1>3, <2>1 DEF WriteTarget
<1>4. CASE Begins \/ EndRun \/ Crash \/ EndRetire
  BY <1>0, <1>4 DEF Begins, Begin, BeginPartly, BeginWith, EndRun, Crash, EndRetire, files
<1>5. ASSUME NEW m \in Ids, Promote(m) PROVE FALSE
  BY <1>0, <1>5, PromotedTyped DEF Promote
<1>6. ASSUME NEW m \in Ids, Validate(m) PROVE FALSE
  <2>1. [live[m] EXCEPT !.validated = TRUE] \in Note
    <3>1. live[m] # None
      BY <1>6 DEF Validate
    <3>2. live[m] \in Note
      BY <1>6, <3>1, LiveTyped
    <3> QED
      BY <3>2 DEF Note
  <2>2. PICK note \in Note : live' = [live EXCEPT ![m] = note]
    BY <1>6, <2>1 DEF Validate
  <2> QED
    BY <1>0, <2>2
<1> QED
  BY <1>1, <1>2, <1>3, <1>4, <1>5, <1>6, Steps

\* What is removed was justified, and is so after it.
LEMMA RemovalJustified ==
  ASSUME TypeOK, Matches, Justified, [Next]_vars, NEW o \in Ids, Removed(o)
  PROVE  /\ Justifies(o) /\ live[o].captured = run.view[o].captured
         /\ \A m \in Ids : run.view[m] # None /\ m # o => Agree(run.view[m], live'[m])
<1>1. RemoveLive /\ run.note = o
  BY RemovedByRun
<1>2. run.op = "unlive" /\ live' = [live EXCEPT ![o] = None]
  BY <1>1 DEF RemoveLive
<1>3. Justifies(o)
  BY <1>1, <1>2 DEF Justified
<1> QED
  BY <1>2, <1>3, TypeFacts DEF Matches, Agree, Justifies

\* Doctor removes a decision only while a later one of its topic is live.
THEOREM TopicKeepsDecision == Spec => SupersededByLater
<1>1. ASSUME TypeOK, Matches, Justified, [Next]_vars, NEW o \in Ids, Removed(o),
             Kind[o] = "decision"
      PROVE  \E b \in Ids : /\ live'[b] # None /\ SameTopic(o, b)
                            /\ live'[b].captured > live[o].captured
  <2>1. PICK b \in Ids : b \in Replacing(o)
    BY <1>1, RemovalJustified DEF Justifies, Replacing
  <2>2. run.view[o].captured \in Nat
    BY <1>1, RemovalJustified, TypeFacts DEF Justifies, Note
  <2>3. b # o
    BY <2>1, <2>2 DEF Replacing
  <2> QED
    BY <1>1, <2>1, <2>3, RemovalJustified DEF Replacing, Agree
<1>2. ASSUME TypeOK, Matches, Justified, [Next]_vars
      PROVE  [\A o \in Ids : Removed(o) /\ Kind[o] = "decision" =>
                \E b \in Ids : /\ live'[b] # None /\ SameTopic(o, b)
                               /\ live'[b].captured > live[o].captured]_vars
  BY <1>1, <1>2
<1> QED
  BY <1>2, InitType, StepType, MatchesInit, MatchesStep, JustifiedInit, JustifiedStep, PTL
     DEF Spec, SupersededByLater

\* Doctor removes no decision that was validated when its run began.
THEOREM ReadValidationsHold == Spec => ValidatedDecisionsStay
<1>1. ASSUME TypeOK, Matches, Justified, [Next]_vars
      PROVE  [\A o \in Ids : Removed(o) /\ Kind[o] = "decision"
                               => ~run.view[o].validated]_vars
  BY <1>1, RemovalJustified DEF Justifies
<1> QED
  BY <1>1, InitType, StepType, MatchesInit, MatchesStep, JustifiedInit, JustifiedStep, PTL
     DEF Spec, ValidatedDecisionsStay

\* Doctor removes a summary only while as many later ones as it keeps are live,
\* unless it has promoted one again whose live copy it could not read.
THEOREM NewestSummariesKept == Spec => NewestSummariesStay
<1>1. ASSUME TypeOK, Matches, Justified, [Next]_vars, NEW o \in Ids, Removed(o),
             Kind[o] = "summary", run.twice = {}
      PROVE  Cardinality({m \in Ids : /\ live'[m] # None /\ Kind[m] = "summary"
                                      /\ Newer(m, o)}) >= KeepSummaries
  <2> DEFINE later == {m \in Ids : live'[m] # None /\ Kind[m] = "summary" /\ Newer(m, o)}
  <2>1. NewerSeen(o) \subseteq later
    <3>1. ~Newer(o, o)
      BY DEF Newer
    <3>2. \A m \in Ids : run.view[m] # None /\ m # o => live'[m] # None
      BY <1>1, RemovalJustified DEF Agree
    <3> QED
      BY <3>1, <3>2 DEF NewerSeen, View
  <2>2. IsFiniteSet(later)
    BY FS_Subset
  <2>3. Cardinality(NewerSeen(o)) <= Cardinality(later)
        /\ Cardinality(NewerSeen(o)) \in Nat /\ Cardinality(later) \in Nat
    BY <2>1, <2>2, FS_Subset, FS_CardinalityType
  <2>4. Cardinality(NewerSeen(o)) >= KeepSummaries
    BY <1>1, RemovalJustified DEF Justifies
  <2> QED
    BY <2>3, <2>4
<1>2. ASSUME TypeOK, Matches, Justified, [Next]_vars
      PROVE  [\A o \in Ids : Removed(o) /\ Kind[o] = "summary" /\ run.twice = {} =>
                Cardinality({m \in Ids : /\ live'[m] # None /\ Kind[m] = "summary"
                                         /\ Newer(m, o)}) >= KeepSummaries]_vars
  BY <1>1, <1>2
<1> QED
  BY <1>2, InitType, StepType, MatchesInit, MatchesStep, JustifiedInit, JustifiedStep, PTL
     DEF Spec, NewestSummariesStay

-----------------------------------------------------------------------------
(* A run takes its snapshot before it changes a note.                       *)

Saved ==
    /\ run.op # "none" => run.snapshot # "none"
    /\ run.todo # {} => run.snapshot # "none"

LEMMA SavedInit == Init => Saved
  BY NoRunSees DEF Init, Saved

\* A step of a run forgets no snapshot, and its first change takes one.
LEMMA SavedRun ==
  ASSUME TypeOK, Saved, RunStep
  PROVE  /\ run' = NoRun \/ Saved'
         /\ run' = NoRun \/ run'.snapshot # "none" \/ UNCHANGED <<inbox, live, archive>>
<1>0. run \in RunState
  BY TypeFacts
<1>1. ASSUME NEW o \in Ids, Retire(o) PROVE Saved' /\ run'.snapshot # "none"
  <2>1. PICK s \in {"taken", "failed"} :
           run' = [run EXCEPT !.op = "unlive", !.note = o, !.snapshot = s]
    BY <1>1, SnapshotTyped DEF Retire
  <2>2. run'.snapshot = s
    BY <1>0, <2>1 DEF RunState
  <2> QED
    BY <2>2 DEF Saved
<1>2. ASSUME run'.snapshot = run.snapshot, run.snapshot # "none"
      PROVE  Saved' /\ run'.snapshot # "none"
  BY <1>2 DEF Saved
<1>3. CASE RemoveLive
  BY <1>0, <1>2, <1>3 DEF RemoveLive, RunState, Saved
<1>4. CASE ListInbox
  <2>1. PICK s \in {"none", "taken", "failed"} :
           /\ run' = [run EXCEPT !.phase = "inbox", !.todo = Page(inbox), !.snapshot = s]
           /\ inbox # {} => s # "none"
    BY <1>0, <1>4, SnapshotTyped DEF ListInbox, RunState
  <2>2. run'.snapshot = s /\ run'.todo = Page(inbox) /\ run'.op = "none"
    BY <1>0, <1>4, <2>1 DEF ListInbox, RunState, Ready, InPhase
  <2> QED
    BY <1>4, <2>1, <2>2, InboxTyped DEF ListInbox, Saved, files
<1>5. ASSUME NEW n \in Ids, Handle(n) PROVE Saved' /\ run'.snapshot # "none"
  <2>0. Turn(n)
    BY <1>5 DEF Handle, Recover, Preserve, Reject, Promote, Merge
  <2>1. run.snapshot # "none"
    BY <2>0 DEF Turn, Earliest, Saved
  <2>2. run'.snapshot = run.snapshot
    <3>1. CASE Recover(n) \/ Preserve(n) \/ Reject(n)
      BY <1>0, <3>1 DEF Recover, Preserve, Reject, StartOp, RunState
    <3>2. CASE Promote(n)
      BY <1>0, <3>2 DEF Promote, RunState
    <3>3. ASSUME NEW e \in Ids, Merge(n, e) PROVE run'.snapshot = run.snapshot
      BY <1>0, <3>3 DEF Merge, RunState
    <3> QED
      BY <1>5, <3>1, <3>2, <3>3 DEF Handle
  <2> QED
    BY <1>2, <2>1, <2>2
<1>6. CASE WriteTarget
  BY <1>0, <1>2, <1>6 DEF WriteTarget, RunState, Saved
<1>7. CASE WriteReceipt \/ RemoveProposal
  BY <1>0, <1>2, <1>7 DEF WriteReceipt, RemoveProposal, RunState, Saved
<1>8. CASE RetainSummaries \/ AuditNotes
  <2>1. run'.snapshot = run.snapshot /\ run'.op = run.op /\ run'.todo = run.todo
    BY <1>0, <1>8 DEF RetainSummaries, AuditNotes, RunState
  <2> QED
    BY <1>8, <2>1 DEF RetainSummaries, AuditNotes, Saved, files
<1>9. ASSUME NEW n \in Ids, PruneRejected(n) PROVE Saved' /\ UNCHANGED <<inbox, live, archive>>
  BY <1>9 DEF PruneRejected, Saved
<1>10. CASE EndRun
  BY <1>10 DEF EndRun
<1> QED
  BY <1>1, <1>3, <1>4, <1>5, <1>6, <1>7, <1>8, <1>9, <1>10 DEF RunStep

LEMMA SavedStep ==
  ASSUME TypeOK, Saved, [Next]_vars
  PROVE  /\ Saved'
         /\ lock = "doctor" /\ lock' = "doctor" /\ run' # run
              /\ <<inbox, live, archive>>' # <<inbox, live, archive>> => run'.snapshot # "none"
<1>0. run \in RunState /\ NoRun.phase = "idle"
  BY TypeFacts DEF NoRun
<1>1. CASE RunStep
  <2>1. CASE run' = NoRun
    <3>1. lock' # "doctor"
      BY <1>0, <1>1, <2>1, StepType DEF TypeOK
    <3> QED
      BY <2>1, <3>1, NoRunSees DEF Saved
  <2> QED
    BY <1>1, <2>1, SavedRun
<1>2. CASE Begins
  <2>1. PICK seen : BeginWith(seen)
    BY <1>2, BeginsWith
  <2>2. run'.op = "none" /\ run'.todo = {}
    BY <2>1, NoRunTyped, NoRunSees DEF BeginWith, RunState
  <2> QED
    BY <2>1, <2>2 DEF BeginWith, Saved, files
<1>3. CASE Crash
  BY <1>3, NoRunSees DEF Crash, Saved
<1>4. CASE FailOp \/ TimeUp
  <2>1. /\ run'.snapshot = run.snapshot /\ run'.todo \subseteq run.todo /\ run'.op = "none"
        /\ UNCHANGED <<inbox, live, archive>>
    <3>1. CASE FailOp
      BY <1>0, <3>1 DEF FailOp, RunState, files
    <3>2. CASE TimeUp
      BY <1>0, <3>2 DEF TimeUp, RunState, files, Ready, InPhase
    <3> QED
      BY <1>4, <3>1, <3>2
  <2> QED
    BY <2>1 DEF Saved
<1>5. ASSUME NEW n \in Ids, FailRetire(n) PROVE Saved' /\ UNCHANGED <<inbox, live, archive>>
  <2>1. PICK s \in {"taken", "failed"} : run' = [run EXCEPT !.olds = @ \ {n}, !.snapshot = s]
    BY <1>5, SnapshotTyped DEF FailRetire
  <2>2. run'.snapshot = s
    BY <1>0, <2>1 DEF RunState
  <2> QED
    BY <1>5, <2>2 DEF FailRetire, files, Saved
<1>6. ASSUME NEW n \in Ids, FailHandle(n) PROVE Saved' /\ UNCHANGED <<inbox, live, archive>>
  <2>1. run'.snapshot = run.snapshot /\ run'.todo = run.todo \ {n} /\ run'.op = run.op
    BY <1>0, <1>6 DEF FailHandle, FailRead, RejectRaw, RunState
  <2> QED
    BY <1>6, <2>1 DEF FailHandle, FailRead, RejectRaw, files, Saved
<1>9. ASSUME NEW n \in Ids, \/ RejectRaw(n)
                            \/ \E place \in {"live", "archive"} : FailRead(n, place)
      PROVE  Saved' /\ UNCHANGED <<inbox, live, archive>>
  <2>1. CASE RejectRaw(n)
    <3>1. run'.snapshot = run.snapshot /\ run.snapshot # "none"
      BY <1>0, <2>1 DEF RejectRaw, StartOp, RunState, Saved
    <3> QED
      BY <2>1, <3>1 DEF RejectRaw, Saved
  <2>2. ASSUME NEW place \in {"live", "archive"}, FailRead(n, place)
        PROVE  Saved' /\ UNCHANGED <<inbox, live, archive>>
    <3>1. run'.snapshot = run.snapshot /\ run'.todo = run.todo /\ run'.op = run.op
      BY <1>0, <2>2 DEF FailRead, RunState
    <3> QED
      BY <2>2, <3>1 DEF FailRead, files, Saved
  <2> QED
    BY <1>9, <2>1, <2>2
<1>7. CASE UNCHANGED run
  BY <1>7 DEF Saved
<1>8. (\E n \in Ids : Capture(n) \/ BeginRetire(n) \/ Validate(n) \/ Expire(n))
       \/ EndRetire \/ UNCHANGED vars => UNCHANGED run
  BY DEF Capture, BeginRetire, Validate, Expire, EndRetire, vars
<1> QED
  BY <1>1, <1>2, <1>3, <1>4, <1>5, <1>6, <1>7, <1>8, <1>9 DEF Next, Failure, People, Begins

\* A run changes no note before it has taken its snapshot, or found that it
\* cannot.
THEOREM SnapshotBeforeChange == Spec => ChangesAreSnapshotted
<1>1. ASSUME TypeOK, Saved, [Next]_vars
      PROVE  [lock = "doctor" /\ lock' = "doctor" /\ run' # run
                /\ <<inbox, live, archive>>' # <<inbox, live, archive>>
              => run'.snapshot # "none"]_vars
  BY <1>1, SavedStep
<1>2. ASSUME TypeOK, Saved, [Next]_vars PROVE Saved'
  BY <1>2, SavedStep
<1> QED
  BY <1>1, <1>2, InitType, StepType, SavedInit, PTL DEF Spec, ChangesAreSnapshotted

-----------------------------------------------------------------------------
(* A recapture counts once: the receipts of merges follow their targets.    *)
(* Nothing is claimed for a claim one of whose notes was overlooked; merges *)
(* stay within a claim, so that they carry nothing of it to another one.    *)

Merging(n, e) == archive[n] # None /\ archive[n].status = "merged" /\ archive[n].into = e
Applied(e)    == {n \in Ids : Merging(n, e) /\ (archive[n].applied \/ n \in live[e].recaptured)}

MergedAreGone ==
    \A n \in Ids : archive[n] # None /\ archive[n].status = "merged" =>
        /\ archive[n].into \in Ids /\ SameClaim(n, archive[n].into)
        /\ ClaimRead(n) => /\ live[n] = None
                           /\ live[archive[n].into] # None \/ archive[archive[n].into] # None
RecapturesAreMerged ==
    \A e \in Ids, n \in Ids : live[e] # None /\ n \in live[e].recaptured =>
        /\ SameClaim(n, e)
        /\ ClaimRead(e) => Merging(n, e) /\ (archive[n].applied \/ n \in inbox)
InHand ==
    /\ run.todo \subseteq inbox
    /\ run.op \in {"target", "receipt"} =>
         /\ SameClaim(run.note, run.into) /\ Merging(run.note, run.into)
         /\ ~archive[run.note].applied /\ run.note \in inbox
         /\ run.op = "receipt" => run.note \in live[run.into].recaptured
    /\ run.op = "clean" /\ ClaimRead(run.note) => ~Unapplied(archive[run.note])

Receipts == MergedAreGone /\ RecapturesAreMerged /\ InHand /\ CountedOnce

\* A claim is read as a whole or not, and once overlooked stays so.
LEMMA OneClaim ==
  /\ \A n, e : SameClaim(n, e) => (ClaimRead(n) <=> ClaimRead(e))
  /\ \A n : ClaimRead(n) => n \notin overlooked
  /\ overlooked \subseteq overlooked' => \A n : ClaimRead(n)' => ClaimRead(n)
  BY DEF ClaimRead, SameClaim

LEMMA CountedIsApplied ==
  /\ CountedOnce <=> \A e \in Ids : live[e] # None /\ ClaimRead(e) =>
                       live[e].confirmed = Cardinality(Applied(e))
  /\ CountedOnce' <=> \A e \in Ids : live'[e] # None /\ ClaimRead(e)' =>
                       live'[e].confirmed = Cardinality(Applied(e)')
<1>1. \A e \in Ids :
        {n \in Ids : /\ archive[n] # None /\ archive[n].status = "merged"
                     /\ archive[n].into = e
                     /\ archive[n].applied \/ n \in live[e].recaptured} = Applied(e)
  BY DEF Applied, Merging
<1>2. \A e \in Ids :
        {n \in Ids : /\ archive'[n] # None /\ archive'[n].status = "merged"
                     /\ archive'[n].into = e
                     /\ archive'[n].applied \/ n \in live'[e].recaptured} = Applied(e)'
  BY DEF Applied, Merging
<1> QED
  BY <1>1, <1>2 DEF CountedOnce

\* A note that is still live has not been merged away.
LEMMA LiveNotMerging ==
  ASSUME Receipts, NEW o \in Ids, live[o] # None, ClaimRead(o)
  PROVE  /\ archive[o] # None => archive[o].status # "merged"
         /\ \A e \in Ids : live[e] # None => o \notin live[e].recaptured
<1>1. archive[o] # None => archive[o].status # "merged"
  BY DEF Receipts, MergedAreGone
<1>2. ASSUME NEW e \in Ids, live[e] # None, o \in live[e].recaptured PROVE FALSE
  <2>1. SameClaim(o, e) /\ (ClaimRead(e) => Merging(o, e))
    BY <1>2 DEF Receipts, RecapturesAreMerged
  <2> QED
    BY <1>1, <2>1, OneClaim DEF Merging
<1> QED
  BY <1>1, <1>2

LEMMA ReceiptsInit == Init => Receipts
  BY NoRunSees DEF Init, Receipts, MergedAreGone, RecapturesAreMerged, InHand, CountedOnce,
                   Merging

\* The notes are left alone, and the run goes on or drops what it has in hand.
LEMMA ReceiptsKept ==
  ASSUME Receipts, live' = live, archive' = archive, inbox \subseteq inbox',
         overlooked \subseteq overlooked', run'.todo \subseteq inbox',
         \/ run'.op \in {"none", "unlive"}
         \/ run'.op = run.op /\ run'.note = run.note /\ run'.into = run.into
         \/ run'.op = "clean" /\ (ClaimRead(run.note)' => ~Unapplied(archive[run'.note]))
  PROVE  Receipts'
<1>1. /\ \A n, e : Merging(n, e)' <=> Merging(n, e)
      /\ \A e : Applied(e)' = Applied(e)
      /\ \A n : ClaimRead(n)' => ClaimRead(n)
  BY OneClaim DEF Merging, Applied
<1>2. MergedAreGone'
  BY <1>1 DEF Receipts, MergedAreGone, SameClaim
<1>3. RecapturesAreMerged'
  BY <1>1 DEF Receipts, RecapturesAreMerged, SameClaim
<1>4. InHand'
  <2>1. CASE run'.op \in {"none", "unlive"}
    BY <2>1 DEF InHand
  <2>2. CASE run'.op = run.op /\ run'.note = run.note /\ run'.into = run.into
    BY <2>2 DEF Receipts, InHand, ClaimRead, SameClaim, Merging, Unapplied
  <2>3. CASE run'.op = "clean" /\ (ClaimRead(run.note)' => ~Unapplied(archive[run'.note]))
    BY <2>3 DEF InHand, Unapplied
  <2> QED
    BY <2>1, <2>2, <2>3
<1>5. CountedOnce'
  BY <1>1 DEF Receipts, CountedOnce
<1> QED
  BY <1>2, <1>3, <1>4, <1>5 DEF Receipts

\* A live note gets another archived copy.
LEMMA ReceiptsArchived ==
  ASSUME TypeOK, Receipts, NEW o \in Ids, live[o] # None, live' = live, inbox' = inbox,
         run'.todo = run.todo, run.op = "none", run'.op \in {"none", "unlive"},
         overlooked' = overlooked,
         NEW r \in Retired, r.status # "merged", archive' = [archive EXCEPT ![o] = r]
  PROVE  Receipts'
<1>0. archive \in [Ids -> Retired \union {None}]
  BY TypeFacts
<1>1. \A n \in Ids : ClaimRead(n)' <=> ClaimRead(n)
  BY DEF ClaimRead, SameClaim
<1>2. \A n \in Ids : n # o => archive'[n] = archive[n]
  BY <1>0
<1>3. \A n \in Ids : archive[n] # None => archive'[n] # None
  BY <1>0
<1>4. archive'[o] = r
  BY <1>0
<1>5. MergedAreGone'
  BY <1>1, <1>2, <1>3, <1>4 DEF Receipts, MergedAreGone, SameClaim
<1>6. \A n \in Ids : ClaimRead(n) => archive'[n] = archive[n] \/ ~\E e : Merging(n, e) \/ Merging(n, e)'
  BY <1>2, <1>4, LiveNotMerging DEF Merging
<1>7. RecapturesAreMerged'
  <2>1. ASSUME NEW e \in Ids, NEW n \in Ids, live[e] # None, n \in live[e].recaptured
        PROVE  /\ SameClaim(n, e)
               /\ ClaimRead(e) => Merging(n, e)' /\ (archive'[n].applied \/ n \in inbox)
    <3>1. SameClaim(n, e) /\ (ClaimRead(e) => Merging(n, e) /\ (archive[n].applied \/ n \in inbox))
      BY <2>1 DEF Receipts, RecapturesAreMerged
    <3>2. ClaimRead(e) => archive'[n] = archive[n]
      BY <1>6, <3>1, OneClaim
    <3> QED
      BY <3>1, <3>2 DEF Merging
  <2> QED
    BY <1>1, <2>1 DEF RecapturesAreMerged, SameClaim
<1>8. InHand'
  BY DEF Receipts, InHand
<1>9. ASSUME NEW e \in Ids, ClaimRead(e) PROVE Applied(e)' = Applied(e)
  <2>1. ASSUME NEW n \in Ids, Merging(n, e) \/ Merging(n, e)' PROVE archive'[n] = archive[n]
    <3>1. n # o \/ Merging(n, e)
      BY <1>4, <2>1 DEF Merging
    <3>2. n # o \/ SameClaim(n, e)
      BY <3>1 DEF Receipts, MergedAreGone, Merging
    <3>3. n # o \/ ClaimRead(n)
      BY <1>9, <3>2, OneClaim
    <3> QED
      BY <1>2, <1>6, <2>1, <3>3
  <2>2. \A n \in Ids : Merging(n, e)' <=> Merging(n, e)
    BY <2>1 DEF Merging
  <2> QED
    BY <2>1, <2>2 DEF Applied
<1>10. CountedOnce'
  BY <1>1, <1>9, CountedIsApplied DEF Receipts
<1> QED
  BY <1>5, <1>7, <1>8, <1>10 DEF Receipts

\* A note leaves the live ones; its archived copy stays.
LEMMA ReceiptsRemoved ==
  ASSUME TypeOK, Receipts, NEW o \in Ids, archive[o] # None, live' = [live EXCEPT ![o] = None],
         archive' = archive, inbox' = inbox, overlooked' = overlooked, run'.todo = run.todo,
         run'.op = "none"
  PROVE  Receipts'
<1>0. live \in [Ids -> Note \union {None}]
  BY TypeFacts
<1>1. \A n \in Ids : live'[n] = IF n = o THEN None ELSE live[n]
  BY <1>0
<1>2. /\ \A n, e : Merging(n, e)' <=> Merging(n, e)
      /\ \A n : ClaimRead(n)' <=> ClaimRead(n)
  BY DEF Merging, ClaimRead, SameClaim
<1>3. MergedAreGone'
  BY <1>1, <1>2 DEF Receipts, MergedAreGone, SameClaim
<1>4. RecapturesAreMerged'
  <2>1. ASSUME NEW e \in Ids, NEW n \in Ids, live'[e] # None, n \in live'[e].recaptured
        PROVE  SameClaim(n, e) /\ (ClaimRead(e) => Merging(n, e) /\ (archive[n].applied \/ n \in inbox))
    BY <1>1, <2>1 DEF Receipts, RecapturesAreMerged
  <2> QED
    BY <1>2, <2>1 DEF RecapturesAreMerged, SameClaim
<1>5. InHand'
  BY DEF Receipts, InHand
<1>6. CountedOnce'
  BY <1>1, <1>2 DEF Receipts, CountedOnce
<1> QED
  BY <1>3, <1>4, <1>5, <1>6 DEF Receipts

LEMMA ReceiptsMerge ==
  ASSUME TypeOK, Matches, Overlooks, Receipts, NEW n \in Ids, NEW e \in Ids, Merge(n, e)
  PROVE  Receipts'
<1>0. archive \in [Ids -> Retired \union {None}] /\ run \in RunState
  BY TypeFacts
<1> DEFINE r == [status |-> "merged", into |-> e, applied |-> FALSE]
<1>1. r \in Retired /\ r # None
  <2>1. r \in Retired
    BY DEF Retired
  <2> QED
    BY <2>1
<1>2. /\ live' = live /\ inbox' = inbox /\ archive' = [archive EXCEPT ![n] = r]
      /\ run'.op = "target" /\ run'.note = n /\ run'.into = e /\ run'.todo = run.todo
      /\ overlooked' = overlooked
  BY <1>0 DEF Merge, RunState, world
<1>3. n \in inbox /\ live[e] # None
  <2>1. n \in run.todo /\ e \in View
    BY DEF Merge, Turn, Earliest, Targets, NewTargets
  <2> QED
    BY <2>1 DEF Receipts, InHand, View, Matches, Agree
<1>4. SameClaim(n, e)
  <2>1. CASE PendingMerge(n)
    <3>1. ArchiveRead(n) # None /\ ArchiveRead(n).status = "merged" /\ ArchiveRead(n).into = e
      BY <2>1 DEF Merge, Targets, PendingMerge, Unapplied
    <3>2. archive[n] # None /\ archive[n].status = "merged" /\ archive[n].into = e
      BY <3>1 DEF ArchiveRead
    <3> QED
      BY <3>2 DEF Receipts, MergedAreGone
  <2>2. CASE ~PendingMerge(n)
    BY <2>2 DEF Merge, Targets, NewTargets
  <2> QED
    BY <2>1, <2>2
<1>5. archive'[n] = r /\ \A m \in Ids : m # n => archive'[m] = archive[m]
  BY <1>0, <1>2
<1>6. ASSUME ClaimRead(n)
      PROVE  live[n] = None /\ (archive[n] # None => Unapplied(archive[n]) /\ Merging(n, e))
  <2>1. LiveRead(n) = live[n] /\ ArchiveRead(n) = archive[n]
    BY <1>6, OneClaim, ReadAsIs
  <2> QED
    BY <2>1 DEF Merge, Persisted, PendingMerge, Unapplied, Targets, Merging
<1>7. /\ \A f \in Ids : Merging(n, f)' <=> f = e
      /\ \A m, f \in Ids : m # n => (Merging(m, f)' <=> Merging(m, f))
      /\ \A m \in Ids : ClaimRead(m)' <=> ClaimRead(m)
  BY <1>1, <1>2, <1>5 DEF Merging, ClaimRead, SameClaim
<1>8. MergedAreGone'
  <2>1. \A m \in Ids : archive[m] # None => archive'[m] # None
    BY <1>1, <1>5
  <2>2. ASSUME NEW m \in Ids, m # n, archive'[m] # None, archive'[m].status = "merged"
        PROVE  /\ archive'[m].into \in Ids /\ SameClaim(m, archive'[m].into)
               /\ ClaimRead(m) => /\ live'[m] = None
                                  /\ \/ live'[archive'[m].into] # None
                                     \/ archive'[archive'[m].into] # None
    BY <1>2, <1>5, <2>1, <2>2 DEF Receipts, MergedAreGone
  <2>3. /\ archive'[n].into \in Ids /\ SameClaim(n, archive'[n].into)
        /\ ClaimRead(n) => live'[n] = None /\ live'[archive'[n].into] # None
    BY <1>2, <1>3, <1>4, <1>5, <1>6
  <2> QED
    BY <1>7, <2>2, <2>3 DEF MergedAreGone, SameClaim
<1>9. ASSUME NEW f \in Ids, ClaimRead(f), live[f] # None, n \in live[f].recaptured
      PROVE  f = e /\ ClaimRead(n)
  <2>1. Merging(n, f) /\ ClaimRead(n)
    BY <1>9, OneClaim DEF Receipts, RecapturesAreMerged
  <2> QED
    BY <1>6, <2>1 DEF Merging
<1>10. RecapturesAreMerged'
  <2>1. ASSUME NEW f \in Ids, NEW m \in Ids, live[f] # None, m \in live[f].recaptured
        PROVE  /\ SameClaim(m, f)
               /\ ClaimRead(f) => Merging(m, f)' /\ (archive'[m].applied \/ m \in inbox)
    BY <1>3, <1>5, <1>7, <1>9, <2>1 DEF Receipts, RecapturesAreMerged
  <2> QED
    BY <1>2, <1>7, <2>1 DEF RecapturesAreMerged, SameClaim
<1>11. InHand'
  BY <1>2, <1>3, <1>4, <1>5, <1>7 DEF Receipts, InHand, SameClaim
<1>12. ASSUME NEW f \in Ids, live[f] # None, ClaimRead(f) PROVE Applied(f)' = Applied(f)
  <2>1. n \in Applied(f)' <=> n \in live[f].recaptured
    <3>1. ~archive'[n].applied /\ live'[f] = live[f]
      BY <1>2, <1>5
    <3>2. n \in live[f].recaptured => Merging(n, f)'
      BY <1>7, <1>9, <1>12
    <3> QED
      BY <3>1, <3>2 DEF Applied
  <2>2. n \in Applied(f) => n \in live[f].recaptured
    <3>1. ASSUME n \in Applied(f) PROVE ClaimRead(n)
      BY <1>12, <3>1, OneClaim DEF Applied, Merging, Receipts, MergedAreGone
    <3> QED
      BY <1>6, <3>1 DEF Applied, Merging, Unapplied
  <2>3. n \in live[f].recaptured => n \in Applied(f)
    BY <1>12 DEF Applied, Receipts, RecapturesAreMerged
  <2>4. \A m \in Ids : m # n => (m \in Applied(f)' <=> m \in Applied(f))
    BY <1>2, <1>5, <1>7 DEF Applied
  <2> QED
    BY <2>1, <2>2, <2>3, <2>4 DEF Applied
<1>13. CountedOnce'
  BY <1>2, <1>7, <1>12, CountedIsApplied DEF Receipts
<1> QED
  BY <1>8, <1>10, <1>11, <1>13 DEF Receipts

LEMMA RecapturedFields ==
  ASSUME NEW n \in Ids, NEW e \in Ids, run.view[e] \in Note
  PROVE  /\ n \in run.view[e].recaptured =>
              /\ Recaptured(e, n).confirmed = run.view[e].confirmed
              /\ Recaptured(e, n).recaptured = Unresolved(e)
         /\ n \notin run.view[e].recaptured =>
              /\ Recaptured(e, n).confirmed = run.view[e].confirmed + 1
              /\ Recaptured(e, n).recaptured = Unresolved(e) \union {n}
<1>1. [run.view[e] EXCEPT !.recaptured = Unresolved(e)].confirmed = run.view[e].confirmed
      /\ [run.view[e] EXCEPT !.recaptured = Unresolved(e)].recaptured = Unresolved(e)
  BY DEF Note
<1> QED
  BY <1>1, CountedFields DEF Recaptured

LEMMA ReceiptsWriteTarget ==
  ASSUME TypeOK, Matches, Receipts, WriteTarget,
         NEW n \in Ids, NEW e \in Ids, n = run.note, e = run.into
  PROVE  Receipts'
<1> DEFINE note == Recaptured(e, n)
<1>0. /\ run \in RunState /\ live \in [Ids -> Note \union {None}] /\ run.op = "target"
      /\ run.view[e] \in Note
  BY TypeFacts DEF WriteTarget
<1>1. note \in Note /\ note # None
  <2>1. note \in Note
    BY <1>0, RecapturedTyped
  <2> QED
    BY <2>1
<1>2. /\ live' = [live EXCEPT ![e] = note] /\ archive' = archive /\ inbox' = inbox
      /\ run'.op = "receipt" /\ run'.note = n /\ run'.into = e /\ run'.todo = run.todo
      /\ overlooked' = overlooked
  BY <1>0 DEF WriteTarget, RunState, world
<1>3. live'[e] = note /\ \A m \in Ids : m # e => live'[m] = live[m]
  BY <1>0, <1>2
<1>4. /\ live[e] # None /\ live[e].confirmed = run.view[e].confirmed
      /\ live[e].recaptured = run.view[e].recaptured
  BY <1>0 DEF Matches, Agree
<1>5. SameClaim(n, e) /\ Merging(n, e) /\ ~archive[n].applied /\ n \in inbox
  BY <1>0 DEF Receipts, InHand
<1>6. /\ \A m, f \in Ids : Merging(m, f)' <=> Merging(m, f)
      /\ \A m \in Ids : ClaimRead(m)' <=> ClaimRead(m)
  BY <1>2 DEF Merging, ClaimRead, SameClaim
<1>7. Unresolved(e) = live[e].recaptured \intersect inbox
  BY <1>4 DEF Unresolved
<1>8. /\ n \in note.recaptured /\ note.recaptured \subseteq live[e].recaptured \union {n}
      /\ live[e].recaptured \intersect inbox \subseteq note.recaptured
      /\ note.recaptured \subseteq inbox
  <2>1. \/ note.recaptured = Unresolved(e) /\ n \in live[e].recaptured
        \/ note.recaptured = Unresolved(e) \union {n}
    BY <1>0, <1>4, RecapturedFields
  <2> QED
    BY <1>5, <1>7, <2>1
<1>17. /\ n \in live[e].recaptured =>
            note.confirmed = live[e].confirmed /\ note.recaptured = Unresolved(e)
       /\ n \notin live[e].recaptured =>
            note.confirmed = live[e].confirmed + 1 /\ note.recaptured = Unresolved(e) \union {n}
  <2>1. n \in live[e].recaptured =>
           note.confirmed = live[e].confirmed /\ note.recaptured = Unresolved(e)
    BY <1>0, <1>4, RecapturedFields
  <2>2. n \notin run.view[e].recaptured =>
           /\ note.confirmed = run.view[e].confirmed + 1
           /\ note.recaptured = Unresolved(e) \union {n}
    BY <1>0, RecapturedFields
  <2> QED
    BY <1>4, <2>1, <2>2
<1> HIDE DEF note
<1>9. MergedAreGone'
  <2>1. note # None /\ live[e] # None /\ archive' = archive
    BY <1>1, <1>2, <1>4
  <2>2. \A m \in Ids : (live'[m] = None) <=> (live[m] = None)
    BY <1>3, <2>1
  <2>3. MergedAreGone
    BY DEF Receipts
  <2>4. ASSUME NEW m \in Ids, archive[m] # None, archive[m].status = "merged"
        PROVE  /\ archive[m].into \in Ids /\ SameClaim(m, archive[m].into)
               /\ ClaimRead(m) => /\ live'[m] = None
                                  /\ \/ live'[archive[m].into] # None
                                     \/ archive[archive[m].into] # None
    <3>1. /\ archive[m].into \in Ids /\ SameClaim(m, archive[m].into)
          /\ ClaimRead(m) => /\ live[m] = None
                             /\ live[archive[m].into] # None \/ archive[archive[m].into] # None
      BY <2>3, <2>4 DEF MergedAreGone
    <3> QED
      BY <2>2, <2>4, <3>1
  <2> QED
    BY <1>6, <2>1, <2>4 DEF MergedAreGone, SameClaim
<1>10. RecapturesAreMerged'
  <2>1. ASSUME NEW f \in Ids, NEW m \in Ids, live'[f] # None, m \in live'[f].recaptured
        PROVE  /\ SameClaim(m, f)
               /\ ClaimRead(f) => Merging(m, f) /\ (archive[m].applied \/ m \in inbox)
    <3>1. CASE f = e
      <4>1. m \in live[e].recaptured \/ m = n
        BY <1>3, <1>8, <2>1, <3>1
      <4> QED
        BY <1>4, <1>5, <3>1, <4>1 DEF Receipts, RecapturesAreMerged
    <3>2. CASE f # e
      BY <1>3, <2>1, <3>2 DEF Receipts, RecapturesAreMerged
    <3> QED
      BY <3>1, <3>2
  <2> QED
    BY <1>2, <1>6, <2>1 DEF RecapturesAreMerged, SameClaim
<1>11. InHand'
  <2>1. run'.todo \subseteq inbox'
    BY <1>2 DEF Receipts, InHand
  <2>2. Merging(n, e)' /\ ~archive'[n].applied /\ n \in inbox' /\ n \in live'[e].recaptured
    BY <1>2, <1>3, <1>5, <1>6, <1>8
  <2> QED
    BY <1>2, <1>5, <2>1, <2>2 DEF InHand, SameClaim
<1>12. ASSUME ClaimRead(e)
       PROVE  \A m \in Ids : m \in live[e].recaptured /\ ~archive[m].applied => m \in inbox
  BY <1>0, <1>4, <1>12 DEF Receipts, RecapturesAreMerged
<1>13. ASSUME ClaimRead(e)
       PROVE  live[e].confirmed = Cardinality(Applied(e)) /\ live[e].confirmed \in Nat
  BY <1>0, <1>4, <1>13, CountedIsApplied DEF Receipts, Note
<1>14. ASSUME ClaimRead(e) PROVE note.confirmed = Cardinality(Applied(e)')
  <2>1. CASE n \in live[e].recaptured
    <3>1. note.confirmed = live[e].confirmed /\ note.recaptured = live[e].recaptured \intersect inbox
      BY <1>7, <1>17, <2>1
    <3>2. Applied(e)' = Applied(e)
      BY <1>0, <1>2, <1>3, <1>6, <1>12, <1>14, <3>1 DEF Applied
    <3> QED
      BY <1>13, <1>14, <3>1, <3>2
  <2>2. CASE n \notin live[e].recaptured
    <3>1. note.confirmed = live[e].confirmed + 1
          /\ note.recaptured = (live[e].recaptured \intersect inbox) \union {n}
      BY <1>7, <1>17, <2>2
    <3>2. Applied(e)' = Applied(e) \union {n} /\ n \notin Applied(e)
      <4>1. n \notin Applied(e)
        BY <1>5, <2>2 DEF Applied
      <4>2. /\ live'[e] = note /\ archive' = archive
            /\ \A m \in Ids : Merging(m, e)' <=> Merging(m, e)
        BY <1>2, <1>3, <1>6
      <4>3. \A m \in Ids : archive[m].applied \/ m \in note.recaptured
                             <=> archive[m].applied \/ m \in live[e].recaptured \/ m = n
        BY <1>12, <1>14, <3>1
      <4>4. n \in Applied(e)'
        BY <1>5, <3>1, <4>2 DEF Applied
      <4> QED
        BY <4>1, <4>2, <4>3, <4>4 DEF Applied
    <3>3. IsFiniteSet(Applied(e))
      BY FS_Subset DEF Applied
    <3>4. Cardinality(Applied(e) \union {n}) = Cardinality(Applied(e)) + 1
      BY <3>2, <3>3, FS_AddElement
    <3> QED
      BY <1>13, <1>14, <3>1, <3>2, <3>4
  <2> QED
    BY <2>1, <2>2
<1>15. \A f \in Ids : f # e => Applied(f)' = Applied(f)
  BY <1>2, <1>3, <1>6 DEF Applied
<1>16. CountedOnce'
  BY <1>3, <1>6, <1>14, <1>15, CountedIsApplied DEF Receipts
<1> QED
  BY <1>9, <1>10, <1>11, <1>16 DEF Receipts

LEMMA ReceiptsWriteReceipt == ASSUME TypeOK, Receipts, WriteReceipt PROVE Receipts'
<1> DEFINE n == run.note
           e == run.into
<1>0. /\ run \in RunState /\ archive \in [Ids -> Retired \union {None}] /\ run.op = "receipt"
      /\ n \in Ids /\ e \in Ids /\ archive[n] \in Retired
  BY TypeFacts DEF WriteReceipt
<1>1. /\ live' = live /\ archive' = [archive EXCEPT ![n] = [archive[n] EXCEPT !.applied = TRUE]]
      /\ inbox' = inbox /\ run'.op = "clean" /\ run'.note = n /\ run'.todo = run.todo
      /\ overlooked' = overlooked
  BY <1>0 DEF WriteReceipt, RunState, world
<1>2. Merging(n, e) /\ n \in live[e].recaptured
  BY <1>0 DEF Receipts, InHand
<1>3. [archive[n] EXCEPT !.applied = TRUE] \in Retired
  BY <1>0 DEF Retired
<1>4. /\ archive'[n] # None /\ archive'[n].status = archive[n].status
      /\ archive'[n].into = archive[n].into /\ archive'[n].applied
  <2>1. archive'[n] = [archive[n] EXCEPT !.applied = TRUE]
    BY <1>0, <1>1
  <2>2. archive'[n] # None
    BY <1>3, <2>1
  <2> QED
    BY <1>0, <2>1, <2>2 DEF Retired
<1>5. \A m \in Ids : m # n => archive'[m] = archive[m]
  BY <1>0, <1>1
<1>6. /\ \A m, f \in Ids : Merging(m, f)' <=> Merging(m, f)
      /\ \A m \in Ids : ClaimRead(m)' <=> ClaimRead(m)
  BY <1>1, <1>2, <1>4, <1>5 DEF Merging, ClaimRead, SameClaim
<1>7. MergedAreGone'
  BY <1>1, <1>2, <1>4, <1>5, <1>6 DEF Receipts, MergedAreGone, Merging, SameClaim
<1>8. RecapturesAreMerged'
  BY <1>1, <1>4, <1>5, <1>6 DEF Receipts, RecapturesAreMerged, SameClaim
<1>9. InHand'
  BY <1>1, <1>4 DEF Receipts, InHand, Unapplied
<1>10. \A f \in Ids : Applied(f)' = Applied(f)
  BY <1>1, <1>2, <1>4, <1>5, <1>6 DEF Applied, Merging
<1>11. CountedOnce'
  BY <1>1, <1>6, <1>10, CountedIsApplied DEF Receipts
<1> QED
  BY <1>7, <1>8, <1>9, <1>11 DEF Receipts

LEMMA ReceiptsPromote ==
  ASSUME TypeOK, Overlooks, Receipts, NEW n \in Ids, Promote(n) PROVE Receipts'
<1>0. run \in RunState /\ live \in [Ids -> Note \union {None}] /\ Promoted(n) \in Note
  BY TypeFacts, PromotedTyped
<1>1. /\ live' = [live EXCEPT ![n] = Promoted(n)] /\ archive' = archive /\ inbox' = inbox
      /\ run'.op = "clean" /\ run'.note = n /\ run'.todo = run.todo /\ overlooked' = overlooked
  BY <1>0 DEF Promote, RunState, world
<1>2. ASSUME ClaimRead(n) PROVE live[n] = None /\ archive[n] = None
  <2>1. LiveRead(n) = live[n] /\ ArchiveRead(n) = archive[n]
    BY <1>2, OneClaim, ReadAsIs
  <2> QED
    BY <2>1 DEF Promote, Open, Fresh, Persisted, PendingMerge
<1>3. live'[n] = Promoted(n) /\ \A m \in Ids : m # n => live'[m] = live[m]
  BY <1>0, <1>1
<1>4. Promoted(n).recaptured = {} /\ Promoted(n).confirmed = 0 /\ Promoted(n) # None
  <2>1. Promoted(n) # None
    BY <1>0
  <2> QED
    BY <2>1 DEF Promoted
<1>5. /\ \A m, f \in Ids : Merging(m, f)' <=> Merging(m, f)
      /\ \A m \in Ids : ClaimRead(m)' <=> ClaimRead(m)
  BY <1>1 DEF Merging, ClaimRead, SameClaim
<1>6. MergedAreGone'
  <2>1. ASSUME NEW m \in Ids, archive[m] # None, archive[m].status = "merged"
        PROVE  /\ archive[m].into \in Ids /\ SameClaim(m, archive[m].into)
               /\ ClaimRead(m) => /\ live'[m] = None
                                  /\ \/ live'[archive[m].into] # None
                                     \/ archive[archive[m].into] # None
    <3>1. /\ archive[m].into \in Ids /\ SameClaim(m, archive[m].into)
          /\ ClaimRead(m) => /\ live[m] = None
                             /\ live[archive[m].into] # None \/ archive[archive[m].into] # None
      BY <2>1 DEF Receipts, MergedAreGone
    <3>2. ClaimRead(m) => m # n
      BY <1>2, <2>1
    <3> QED
      BY <1>3, <1>4, <3>1, <3>2
  <2> QED
    BY <1>1, <1>5, <2>1 DEF MergedAreGone, SameClaim
<1>7. RecapturesAreMerged'
  BY <1>1, <1>3, <1>4, <1>5 DEF Receipts, RecapturesAreMerged, SameClaim
<1>8. InHand'
  BY <1>1, <1>2, <1>5 DEF Receipts, InHand, Unapplied
<1>9. ASSUME ClaimRead(n) PROVE Applied(n)' = {}
  <2>1. ASSUME NEW m \in Ids, Merging(m, n) PROVE FALSE
    <3>1. ClaimRead(m) /\ (live[n] # None \/ archive[n] # None)
      BY <1>9, <2>1, OneClaim DEF Merging, Receipts, MergedAreGone
    <3> QED
      BY <1>2, <1>9, <3>1
  <2> QED
    BY <1>5, <2>1 DEF Applied
<1>10. \A f \in Ids : f # n => Applied(f)' = Applied(f)
  BY <1>1, <1>3, <1>5 DEF Applied
<1>11. CountedOnce'
  BY <1>3, <1>4, <1>5, <1>9, <1>10, FS_EmptySet, CountedIsApplied DEF Receipts
<1> QED
  BY <1>6, <1>7, <1>8, <1>11 DEF Receipts

LEMMA ReceiptsRemoveProposal ==
  ASSUME TypeOK, Receipts, RemoveProposal PROVE Receipts'
<1>0. run \in RunState /\ run.op = "clean"
  BY TypeFacts DEF RemoveProposal
<1>1. /\ live' = live /\ archive' = archive /\ inbox' = inbox \ {run.note}
      /\ run'.op = "none" /\ run'.todo = run.todo \ {run.note} /\ overlooked' = overlooked
  BY <1>0 DEF RemoveProposal, RunState, world
<1>2. /\ \A n, f \in Ids : Merging(n, f)' <=> Merging(n, f)
      /\ \A n : ClaimRead(n)' <=> ClaimRead(n)
  BY <1>1 DEF Merging, ClaimRead, SameClaim
<1>3. ClaimRead(run.note) => ~Unapplied(archive[run.note])
  BY <1>0 DEF Receipts, InHand
<1>4. MergedAreGone'
  BY <1>1, <1>2 DEF Receipts, MergedAreGone, SameClaim
<1>5. RecapturesAreMerged'
  <2>1. ASSUME NEW e \in Ids, NEW n \in Ids, live[e] # None, n \in live[e].recaptured
        PROVE  /\ SameClaim(n, e)
               /\ ClaimRead(e) => Merging(n, e) /\ (archive[n].applied \/ n \in inbox')
    <3>1. SameClaim(n, e) /\ (ClaimRead(e) => Merging(n, e) /\ (archive[n].applied \/ n \in inbox))
      BY <2>1 DEF Receipts, RecapturesAreMerged
    <3>2. ClaimRead(e) /\ n = run.note => archive[n].applied
      BY <1>3, <3>1, OneClaim DEF Merging, Unapplied
    <3> QED
      BY <1>1, <3>1, <3>2
  <2> QED
    BY <1>1, <1>2, <2>1 DEF RecapturesAreMerged, SameClaim
<1>6. InHand'
  BY <1>1 DEF Receipts, InHand
<1>7. CountedOnce'
  BY <1>1, <1>2 DEF Receipts, CountedOnce
<1> QED
  BY <1>4, <1>5, <1>6, <1>7 DEF Receipts

LEMMA ReceiptsStep ==
  ASSUME TypeOK, Matches, Overlooks, Backed, Justified, Receipts, [Next]_vars PROVE Receipts'
<1>0. /\ run \in RunState /\ run.todo \subseteq inbox /\ overlooked \subseteq overlooked'
      /\ run.op # "none" => run.note \in Ids
  BY TypeFacts, OverlookedGrows DEF Receipts, InHand
<1>1. ASSUME NEW o \in Ids, Retire(o) PROVE Receipts'
  <2> DEFINE r == [status |-> "superseded", into |-> None, applied |-> FALSE]
  <2>1. r \in Retired /\ r.status # "merged"
    BY DEF Retired
  <2>2. /\ run.op = "none" /\ run'.op = "unlive" /\ run'.todo = run.todo /\ live' = live
        /\ inbox' = inbox /\ overlooked' = overlooked /\ archive' = [archive EXCEPT ![o] = r]
    BY <1>0, <1>1 DEF Retire, RunState, world
  <2>3. live[o] # None
    BY <1>1 DEF Retire, Justified, Justifies, Matches, Agree
  <2> QED
    BY <2>1, <2>2, <2>3, ReceiptsArchived
<1>2. CASE RemoveLive
  <2>1. /\ run.op = "unlive" /\ run'.op = "none" /\ run'.todo = run.todo
        /\ live' = [live EXCEPT ![run.note] = None] /\ archive' = archive /\ inbox' = inbox
        /\ overlooked' = overlooked
    BY <1>0, <1>2 DEF RemoveLive, RunState, world
  <2>2. run.note \in Ids /\ archive[run.note] # None
    BY <1>0, <2>1 DEF Backed
  <2> QED
    BY <2>1, <2>2, ReceiptsRemoved
<1>3. CASE ListInbox
  <2>1. run'.op = "none" /\ run'.todo = Page(inbox)
    BY <1>0, <1>3 DEF ListInbox, RunState, Ready, InPhase
  <2> QED
    BY <1>0, <1>3, <2>1, InboxTyped, ReceiptsKept DEF ListInbox, files
<1>4. ASSUME NEW n \in Ids, Handle(n) PROVE Receipts'
  <2>0. ASSUME StartOp("clean", n)
        PROVE  run'.op = "clean" /\ run'.note = n /\ run'.todo = run.todo
    BY <1>0, <2>0 DEF StartOp, RunState
  <2>1. CASE Recover(n)
    <3>1. ASSUME ClaimRead(n) PROVE ~Unapplied(archive[n])
      <4>1. LiveRead(n) = live[n] /\ ArchiveRead(n) = archive[n]
        BY <3>1, OneClaim, ReadAsIs
      <4> QED
        BY <2>1, <3>1, <4>1 DEF Recover, Persisted, PendingMerge, Unapplied, Receipts, MergedAreGone
    <3>2. run'.op = "clean" /\ run'.note = n /\ run'.todo = run.todo
      BY <2>0, <2>1 DEF Recover
    <3>3. ClaimRead(run.note)' => ~Unapplied(archive[run'.note])
      BY <1>0, <3>1, <3>2 DEF ClaimRead, SameClaim
    <3> QED
      BY <1>0, <2>1, <3>2, <3>3, ReceiptsKept DEF Recover, files
  <2>2. CASE Preserve(n)
    <3>1. run'.op = "none" /\ run'.todo \subseteq run.todo
      BY <1>0, <2>2 DEF Preserve, RunState, Turn, Ready, InPhase
    <3> QED
      BY <1>0, <2>2, <3>1, ReceiptsKept DEF Preserve, files
  <2>3. CASE Reject(n)
    <3>1. ASSUME ClaimRead(n) PROVE ~Unapplied(archive[n])
      <4>1. ArchiveRead(n) = archive[n]
        BY <3>1, OneClaim, ReadAsIs
      <4> QED
        BY <2>3, <4>1 DEF Reject, Open, Fresh, PendingMerge
    <3>2. run'.op = "clean" /\ run'.note = n /\ run'.todo = run.todo
      BY <2>0, <2>3 DEF Reject
    <3>3. ClaimRead(run.note)' => ~Unapplied(archive[run'.note])
      BY <1>0, <3>1, <3>2 DEF ClaimRead, SameClaim
    <3> QED
      BY <1>0, <2>3, <3>2, <3>3, ReceiptsKept DEF Reject
  <2> QED
    BY <1>4, <2>1, <2>2, <2>3, ReceiptsPromote, ReceiptsMerge DEF Handle
<1>5. CASE WriteTarget
  <2>1. run.note \in Ids /\ run.into \in Ids
    BY <1>5, TypeFacts DEF WriteTarget
  <2> QED
    BY <1>5, <2>1, ReceiptsWriteTarget
<1>6. CASE RetainSummaries \/ AuditNotes
  <2>1. run'.op = "none" /\ run'.todo = run.todo
    BY <1>0, <1>6 DEF RetainSummaries, AuditNotes, RunState, Ready, InPhase
  <2> QED
    BY <1>0, <1>6, <2>1, ReceiptsKept DEF RetainSummaries, AuditNotes, files
<1>7. CASE Begins \/ EndRun \/ Crash
  <2>1. run'.op = "none" /\ run'.todo = {} /\ UNCHANGED files
    <3>1. CASE Begins
      BY <3>1, BeginsWith, NoRunTyped, NoRunSees DEF BeginWith, RunState
    <3>2. CASE EndRun \/ Crash
      BY <3>2, NoRunSees DEF EndRun, Crash
    <3> QED
      BY <1>7, <3>1, <3>2
  <2> QED
    BY <1>0, <2>1, ReceiptsKept DEF files
<1>8. CASE FailOp \/ TimeUp
  <2>1. CASE FailOp
    <3>1. run'.op = "none" /\ run'.todo \subseteq run.todo
      BY <1>0, <2>1 DEF FailOp, RunState
    <3> QED
      BY <1>0, <2>1, <3>1, ReceiptsKept DEF FailOp, files
  <2>2. CASE TimeUp
    <3>1. run'.op = "none" /\ run'.todo = {}
      BY <1>0, <2>2 DEF TimeUp, RunState, Ready, InPhase
    <3> QED
      BY <1>0, <2>2, <3>1, ReceiptsKept DEF TimeUp, files
  <2> QED
    BY <1>8, <2>1, <2>2
<1>9. ASSUME NEW n \in Ids, FailRetire(n) \/ FailHandle(n) PROVE Receipts'
  <2>1. CASE FailRetire(n)
    <3>1. run'.op = "none" /\ run'.todo = run.todo
      BY <1>0, <2>1 DEF FailRetire, RunState
    <3> QED
      BY <1>0, <2>1, <3>1, ReceiptsKept DEF FailRetire, files
  <2>2. CASE FailHandle(n)
    <3>1. run'.op = "none" /\ run'.todo \subseteq run.todo
      BY <1>0, <2>2 DEF FailHandle, RunState, Turn, Ready, InPhase
    <3> QED
      BY <1>0, <2>2, <3>1, ReceiptsKept DEF FailHandle, files
  <2> QED
    BY <1>9, <2>1, <2>2
<1>10. CASE UNCHANGED <<run, live, archive>> /\ inbox \subseteq inbox'
  BY <1>0, <1>10, ReceiptsKept
<1>11. UNCHANGED vars \/ (\E n \in Ids : Capture(n) \/ PruneRejected(n) \/ Expire(n))
       => UNCHANGED <<run, live, archive>> /\ inbox \subseteq inbox'
  BY DEF Capture, PruneRejected, Expire, files, vars
<1>12. ASSUME NEW n \in Ids, BeginRetire(n) PROVE Receipts'
  <2> DEFINE r == [status |-> "archived", into |-> None, applied |-> FALSE]
  <2>1. r \in Retired /\ r.status # "merged"
    BY DEF Retired
  <2>2. /\ live[n] # None /\ run' = run /\ live' = live /\ inbox' = inbox /\ lock = "free"
        /\ overlooked' = overlooked /\ archive' = [archive EXCEPT ![n] = r]
    BY <1>12 DEF BeginRetire
  <2>3. run.op = "none"
    BY <2>2, TypeFacts, NoRunSees
  <2> QED
    BY <2>1, <2>2, <2>3, ReceiptsArchived
<1>13. CASE EndRetire
  <2>1. /\ run' = run /\ live' = [live EXCEPT ![retiring] = None] /\ archive' = archive
        /\ inbox' = inbox /\ lock = "user" /\ overlooked' = overlooked
    BY <1>13 DEF EndRetire, world
  <2>2. run.op = "none" /\ retiring \in Ids /\ archive[retiring] # None
    BY <2>1, TypeFacts, NoRunSees DEF TypeOK, Backed
  <2> QED
    BY <2>1, <2>2, ReceiptsRemoved
<1>14. ASSUME NEW n \in Ids, Validate(n) PROVE Receipts'
  <2>1. live[n] # None
    BY <1>14 DEF Validate
  <2>2. live[n] \in Note
    BY <1>14, <2>1, LiveTyped
  <2>3. [live[n] EXCEPT !.validated = TRUE] \in Note
    BY <2>2 DEF Note
  <2>4. /\ live' = [live EXCEPT ![n] = [live[n] EXCEPT !.validated = TRUE]]
        /\ run' = run /\ archive' = archive /\ inbox' = inbox /\ overlooked' = overlooked
    BY <1>14 DEF Validate
  <2>5. \A m \in Ids : /\ live'[m] # None <=> live[m] # None
                       /\ live[m] # None => /\ live'[m].recaptured = live[m].recaptured
                                            /\ live'[m].confirmed = live[m].confirmed
    <3>1. live'[n] = [live[n] EXCEPT !.validated = TRUE]
          /\ \A m \in Ids : m # n => live'[m] = live[m]
      BY <1>14, <2>4, TypeFacts
    <3>2. live'[n] # None
      BY <2>3, <3>1
    <3> QED
      BY <2>1, <2>2, <3>1, <3>2 DEF Note
  <2>6. /\ \A m, f : Merging(m, f)' <=> Merging(m, f)
        /\ \A m : ClaimRead(m)' <=> ClaimRead(m)
    BY <2>4 DEF Merging, ClaimRead, SameClaim
  <2>7. MergedAreGone'
    BY <2>4, <2>5, <2>6 DEF Receipts, MergedAreGone, SameClaim
  <2>8. RecapturesAreMerged'
    BY <2>4, <2>5, <2>6 DEF Receipts, RecapturesAreMerged, SameClaim
  <2>9. InHand'
    <3>1. run.op \in {"target", "receipt"} => live[run.into] # None /\ run.into \in Ids
      BY TypeFacts DEF Matches, Agree
    <3> QED
      BY <2>4, <2>5, <2>6, <3>1 DEF Receipts, InHand, Unapplied, SameClaim
  <2>10. CountedOnce'
    BY <2>4, <2>5, <2>6 DEF Receipts, CountedOnce
  <2> QED
    BY <2>7, <2>8, <2>9, <2>10 DEF Receipts
<1>15. ASSUME NEW n \in Ids, NEW place \in {"live", "archive"}, FailRead(n, place) PROVE Receipts'
  <2>1. /\ run'.op = "none" /\ run'.todo = run.todo
        /\ live' = live /\ archive' = archive /\ inbox' = inbox
    BY <1>0, <1>15 DEF FailRead, RunState, Turn, Ready, InPhase, files
  <2> QED
    BY <1>0, <2>1, ReceiptsKept
<1>16. ASSUME NEW n \in Ids, RejectRaw(n) PROVE Receipts'
  <2>1. /\ run'.op = "clean" /\ run'.note = n /\ run'.todo = run.todo /\ n \in overlooked'
        /\ live' = live /\ archive' = archive /\ inbox' = inbox
    BY <1>0, <1>16 DEF RejectRaw, StartOp, RunState
  <2>2. ~ClaimRead(run.note)'
    BY <2>1 DEF ClaimRead, SameClaim
  <2> QED
    BY <1>0, <2>1, <2>2, ReceiptsKept
<1> QED
  BY <1>1, <1>2, <1>3, <1>4, <1>5, <1>6, <1>7, <1>8, <1>9, <1>10, <1>11, <1>12, <1>13, <1>14,
     <1>15, <1>16, ReceiptsWriteReceipt, ReceiptsRemoveProposal
     DEF Next, RunStep, Failure, People, Begins

\* A live note counts every proposal merged into it once, however often the
\* merge was interrupted and repeated, unless a copy of a note with the same
\* claim was there and could not be read at its proposal's turn (doctor.go:261).
THEOREM RecapturesCountOnce == Spec => []CountedOnce
<1>1. Receipts => CountedOnce
  BY DEF Receipts
<1> QED
  BY <1>1, InitType, StepType, MatchesInit, MatchesStep, OverlooksInit, OverlooksStep,
     BackedInit, BackedStep, JustifiedInit, JustifiedStep, ReceiptsInit, ReceiptsStep, PTL
     DEF Spec
=============================================================================
