-------------------------- MODULE CaptureAccounting --------------------------
(***************************************************************************)
(* Capture accounting of one project (internal/brain/state.go and          *)
(* capture.go), one action per file-system step.                           *)
(*                                                                         *)
(* A capture reserves an intent slot, publishes its note, marks the slot   *)
(* completed and then, under a lock file, resets the session counters and  *)
(* reclaims every completed slot.  Session starts count under the same     *)
(* lock.  Readers take no lock.  A process may crash between any two steps *)
(* and leaves slots, state and lock as they are.                           *)
(***************************************************************************)
EXTENDS Naturals, FiniteSets

CONSTANTS
    Capturers,   \* processes that call Capture, once each
    Recorders,   \* processes that call RecordSessionEvent, once each
    Readers,     \* processes that call readState, once each
    NSlots,      \* captureIntentLimit
    Inodes,      \* file identities the file system hands out
    NoProc, NoId,
    Free,        \* an unoccupied slot
    MaxAttempts, \* attempts of one Capture (8 in the code)
    MaxEpoch,    \* largest epoch (2^64 - 1 in the code)
    Crashers,    \* the writers that may crash
    RemoveFails  \* whether os.Remove of a slot may fail

Writers == Capturers \union Recorders
Procs   == Writers \union Readers
Slots   == 0 .. NSlots - 1

ASSUME ProcsAssumption ==
    /\ Capturers \cap Recorders = {}
    /\ Writers \cap Readers = {}
    /\ NoProc \notin Procs
    /\ NoId \notin Capturers
ASSUME BoundsAssumption ==
    /\ NSlots \in Nat \ {0}
    /\ MaxAttempts \in Nat \ {0}
    /\ MaxEpoch \in Nat
    /\ RemoveFails \in BOOLEAN

VARIABLES
    slots,      \* <slug>.capture-NNN: Free, or the file in it
    state,      \* <slug>.yaml
    lock,       \* <slug>.lock: NoProc, or the process that created the file
    lockOld,    \* the lock file's mtime is more than a minute ago
    published,  \* captures whose note reached the inbox
    pc,
    intent,     \* captureObligation of a capture
    attempt,    \* attempts a capture has made
    cursor,     \* next slot of a scan
    mem,        \* the state a writer read under the lock
    completed,  \* paths a reset collected, each with the note id in it
    since,      \* history: session starts committed since the last reset
    seen,       \* the state a reader read first
    before      \* history: captures published when a reader began

fileVars   == <<slots, state, lock, lockOld, published>>
writerVars == <<intent, attempt, mem, completed, since>>
readerVars == <<seen, before>>
vars == <<slots, state, lock, lockOld, published, pc, intent, attempt, cursor,
          mem, completed, since, seen, before>>

\* An intent file holds "id\n" and, once completed, "published\n"; an empty
\* file (created, not yet written) has no id.
File == [ino : Inodes \union {NoId}, id : Capturers \union {NoId}, done : BOOLEAN]

ASSUME FreeAssumption == Free \notin File

\* The ghost field included names the captures whose receipts the epochs up
\* to this one have accounted for; it is not part of the file's bytes.
State == [epoch : 0 .. MaxEpoch, invocations : Nat, included : SUBSET Capturers]

Occupied(k)   == slots[k] # Free
Complete(k)   == Occupied(k) /\ slots[k].id # NoId /\ slots[k].done
Bytes(s)      == <<s.epoch, s.invocations>>
FreeInodes    == Inodes \ {slots[k].ino : k \in {j \in Slots : Occupied(j)}}
\* os.SameFile(info, intent.file): device and inode only.
SameFile(c)   == /\ Occupied(intent[c].slot)
                 /\ slots[intent[c].slot].ino = intent[c].ino
\* The file an owner expects at its path before and after completing it.
OwnFile(c, d) == [ino |-> intent[c].ino, id |-> c, done |-> d]

Returned == {"ok", "failed", "refused", "warned", "crashed"}

Goto(p, l) == pc' = [pc EXCEPT ![p] = l]

\* An error of updateState: the event is not recorded, the capture is accepted
\* with a warning.
Failure(p) == IF p \in Capturers THEN "warned" ELSE "failed"

Init ==
    /\ slots = [k \in Slots |-> Free]
    /\ state = [epoch |-> 0, invocations |-> 0, included |-> {}]
    /\ lock = NoProc /\ lockOld = FALSE
    /\ published = {}
    /\ pc = [p \in Procs |-> IF p \in Capturers THEN "reserve"
                             ELSE IF p \in Recorders THEN "lock" ELSE "read"]
    /\ intent = [c \in Capturers |-> [slot |-> 0, ino |-> NoId]]
    /\ attempt = [c \in Capturers |-> 1]
    /\ cursor = [p \in Procs |-> 0]
    /\ mem = [p \in Writers |-> state]
    /\ completed = [c \in Capturers |-> {}]
    /\ since = {}
    /\ seen = [r \in Readers |-> state]
    /\ before = [r \in Readers |-> {}]

-----------------------------------------------------------------------------
(* Capture: reserve, publish or cancel, complete.                          *)

\* markCapture tries the slots in order; an exclusive create decides.
ReserveSlot(c) ==
    /\ pc[c] = "reserve" /\ cursor[c] \in Slots
    /\ ~Occupied(cursor[c])
    /\ \E i \in FreeInodes :
         /\ slots' = [slots EXCEPT ![cursor[c]] =
                        [ino |-> i, id |-> NoId, done |-> FALSE]]
         /\ intent' = [intent EXCEPT ![c] = [slot |-> cursor[c], ino |-> i]]
    /\ Goto(c, "write")
    /\ UNCHANGED <<state, lock, lockOld, published, attempt, cursor, mem,
                   completed, since, seen, before>>

SkipSlot(c) ==
    /\ pc[c] = "reserve" /\ cursor[c] \in Slots
    /\ Occupied(cursor[c])
    /\ cursor' = [cursor EXCEPT ![c] = @ + 1]
    /\ UNCHANGED <<pc, fileVars, writerVars, readerVars>>

\* Every slot was taken: the capture is refused before publication.
CapacityReached(c) ==
    /\ pc[c] = "reserve" /\ cursor[c] = NSlots
    /\ Goto(c, "refused")
    /\ UNCHANGED <<cursor, fileVars, writerVars, readerVars>>

WriteIntent(c) ==
    /\ pc[c] = "write"
    /\ slots' = [slots EXCEPT ![intent[c].slot] = OwnFile(c, FALSE)]
    /\ Goto(c, "publish")
    /\ UNCHANGED <<state, lock, lockOld, published, cursor, writerVars,
                   readerVars>>

\* A failed write removes the reservation; nothing was published.
WriteIntentFails(c) ==
    /\ pc[c] = "write"
    /\ \/ slots' = [slots EXCEPT ![intent[c].slot] = Free]
       \/ RemoveFails /\ slots' = slots
    /\ Goto(c, "refused")
    /\ UNCHANGED <<state, lock, lockOld, published, cursor, writerVars,
                   readerVars>>

\* writeExclusive links the note into the inbox, never over another note.
Publish(c) ==
    /\ pc[c] = "publish"
    /\ published' = published \union {c}
    /\ Goto(c, "check")
    /\ UNCHANGED <<slots, state, lock, lockOld, cursor, writerVars, readerVars>>

PublishFails(c) ==
    /\ pc[c] = "publish"
    /\ Goto(c, "cancel")
    /\ UNCHANGED <<cursor, fileVars, writerVars, readerVars>>

\* Only the owner's own, unpublished intent is removed.
CancelCapture(c) ==
    /\ pc[c] = "cancel"
    /\ \/ /\ SameFile(c) /\ slots[intent[c].slot] = OwnFile(c, FALSE)
          /\ slots' = [slots EXCEPT ![intent[c].slot] = Free]
       \/ /\ \/ ~SameFile(c)
             \/ slots[intent[c].slot] # OwnFile(c, FALSE)
             \/ RemoveFails
          /\ slots' = slots
    /\ Goto(c, "again")
    /\ UNCHANGED <<state, lock, lockOld, published, cursor, writerVars,
                   readerVars>>

\* A note-id collision is tried again with a new id, up to the bound; any
\* other error is returned at once.
RetryCapture(c) ==
    /\ pc[c] = "again" /\ attempt[c] < MaxAttempts
    /\ attempt' = [attempt EXCEPT ![c] = @ + 1]
    /\ cursor' = [cursor EXCEPT ![c] = 0]
    /\ Goto(c, "reserve")
    /\ UNCHANGED <<intent, mem, completed, since, fileVars, readerVars>>

AbandonCapture(c) ==
    /\ pc[c] = "again"
    /\ Goto(c, "refused")
    /\ UNCHANGED <<cursor, fileVars, writerVars, readerVars>>

\* recordCapture looks at its own path and then appends the completion line.
CheckIntent(c) ==
    /\ pc[c] = "check"
    /\ IF SameFile(c) /\ slots[intent[c].slot] = OwnFile(c, FALSE)
       THEN Goto(c, "append") ELSE Goto(c, "warned")
    /\ UNCHANGED <<cursor, fileVars, writerVars, readerVars>>

CompleteIntent(c) ==
    /\ pc[c] = "append" /\ Occupied(intent[c].slot)
    /\ slots' = [slots EXCEPT ![intent[c].slot] =
                   [ino |-> @.ino, id |-> @.id, done |-> TRUE]]
    /\ Goto(c, "lock")
    /\ UNCHANGED <<state, lock, lockOld, published, cursor, writerVars,
                   readerVars>>

CompleteIntentFails(c) ==
    /\ pc[c] = "append"
    /\ Goto(c, "warned")
    /\ UNCHANGED <<cursor, fileVars, writerVars, readerVars>>

-----------------------------------------------------------------------------
(* updateState: the lock file, the state file, the release.                *)

\* Variant: the lock file is created without O_EXCL.
AcquireShared(p) ==
    /\ pc[p] = "lock"
    /\ lock' = p /\ lockOld' = FALSE
    /\ Goto(p, "load")
    /\ UNCHANGED <<slots, state, published, cursor, writerVars, readerVars>>

AcquireLock(p) ==
    /\ pc[p] = "lock" /\ lock = NoProc
    /\ lock' = p /\ lockOld' = FALSE
    /\ Goto(p, "load")
    /\ UNCHANGED <<slots, state, published, cursor, writerVars, readerVars>>

\* Variant: the deadline is looked at only when the lock is free.
GiveUpUnlocked(p) ==
    /\ pc[p] = "lock" /\ lock = NoProc
    /\ Goto(p, Failure(p))
    /\ UNCHANGED <<cursor, fileVars, writerVars, readerVars>>

\* Refused before the lock (frozen vault, no such project) or still locked
\* after half a second.
GiveUp(p) ==
    /\ pc[p] = "lock"
    /\ Goto(p, Failure(p))
    /\ UNCHANGED <<cursor, fileVars, writerVars, readerVars>>

\* A waiter breaks a stale lock in two steps, Lstat and Remove; the second
\* removes whatever file is then at the path, also one that another process
\* has just created.
SeeStaleLock(p) ==
    /\ pc[p] = "lock"
    /\ lock # NoProc /\ lockOld
    /\ Goto(p, "break")
    /\ UNCHANGED <<cursor, fileVars, writerVars, readerVars>>

BreakLock(p) ==
    /\ pc[p] = "break"
    /\ lock' = NoProc /\ lockOld' = FALSE
    /\ Goto(p, "lock")
    /\ UNCHANGED <<slots, state, published, cursor, writerVars, readerVars>>

\* External: a minute passes.  A live holder is never a minute in its
\* critical section, so only a crashed holder's lock turns stale.
LockTurnsStale ==
    /\ lock # NoProc /\ ~lockOld /\ pc[lock] = "crashed"
    /\ lockOld' = TRUE
    /\ UNCHANGED <<slots, state, lock, published, pc, cursor, writerVars,
                   readerVars>>

LoadState(p) ==
    /\ pc[p] = "load"
    /\ mem' = [mem EXCEPT ![p] = state]
    /\ Goto(p, IF p \in Capturers THEN "own" ELSE "commit")
    /\ UNCHANGED <<intent, attempt, completed, since, cursor, fileVars,
                   readerVars>>

\* Frozen meanwhile, unreadable state, or a failed write: nothing changes.
UpdateFails(p) ==
    /\ pc[p] \in {"load", "own", "commit", "rewrite"}
    /\ Goto(p, "abort")
    /\ UNCHANGED <<cursor, fileVars, writerVars, readerVars>>

\* defer os.Remove(lock): whatever file is at the path.
ReleaseLock(p) ==
    /\ pc[p] \in {"release", "abort"}
    /\ lock' = NoProc /\ lockOld' = FALSE
    /\ Goto(p, IF pc[p] = "release" THEN "ok" ELSE Failure(p))
    /\ UNCHANGED <<slots, state, published, cursor, writerVars, readerVars>>

-----------------------------------------------------------------------------
(* The two changes made under the lock.                                    *)

CommitSession(p) ==
    /\ p \in Recorders /\ pc[p] = "commit"
    /\ state' = [epoch       |-> mem[p].epoch,
                 invocations |-> mem[p].invocations + 1,
                 included    |-> mem[p].included]
    /\ since' = since \union {p}
    /\ Goto(p, "release")
    /\ UNCHANGED <<slots, lock, lockOld, published, intent, attempt, mem,
                   completed, cursor, readerVars>>

\* Variant: a reclaimed receipt is reset once more.
CheckNothing(c) ==
    /\ pc[c] = "own"
    /\ Goto(c, "collect")
    /\ cursor' = [cursor EXCEPT ![c] = 0]
    /\ completed' = [completed EXCEPT ![c] = {}]
    /\ UNCHANGED <<intent, attempt, mem, since, fileVars, readerVars>>

\* resetCaptures first looks at its own intent.  Gone, or another allocation:
\* a newer reset already included it and there is nothing to reset.
CheckOwnReceipt(c) ==
    /\ pc[c] = "own"
    /\ Goto(c, IF ~SameFile(c) THEN "rewrite"
               ELSE IF slots[intent[c].slot] = OwnFile(c, TRUE) THEN "collect"
               ELSE "abort")
    /\ cursor' = [cursor EXCEPT ![c] = 0]
    /\ completed' = [completed EXCEPT ![c] = {}]
    /\ UNCHANGED <<intent, attempt, mem, since, fileVars, readerVars>>

RewriteState(c) ==
    /\ pc[c] = "rewrite"
    /\ state' = mem[c]
    /\ Goto(c, "release")
    /\ UNCHANGED <<slots, lock, lockOld, published, cursor, writerVars,
                   readerVars>>

CollectReceipt(c) ==
    /\ pc[c] = "collect" /\ cursor[c] \in Slots
    /\ completed' = [completed EXCEPT ![c] =
                       IF Complete(cursor[c])
                       THEN @ \union {[slot |-> cursor[c], id |-> slots[cursor[c]].id]}
                       ELSE @]
    /\ cursor' = [cursor EXCEPT ![c] = @ + 1]
    /\ UNCHANGED <<pc, intent, attempt, mem, since, fileVars, readerVars>>

\* The epoch is never allowed to wrap.
CheckEpoch(c) ==
    /\ pc[c] = "collect" /\ cursor[c] = NSlots
    /\ Goto(c, IF mem[c].epoch = MaxEpoch THEN "abort" ELSE "commit")
    /\ UNCHANGED <<cursor, fileVars, writerVars, readerVars>>

\* Unsigned 64-bit increment.
NextEpoch(e) == IF e = MaxEpoch THEN 0 ELSE e + 1

\* Variant: the reset keeps the counter.
CommitEpochOnly(c) ==
    /\ c \in Capturers /\ pc[c] = "commit"
    /\ state' = [epoch       |-> NextEpoch(mem[c].epoch),
                 invocations |-> mem[c].invocations,
                 included    |-> mem[c].included \union {r.id : r \in completed[c]}]
    /\ since' = {}
    /\ Goto(c, "reclaim")
    /\ UNCHANGED <<slots, lock, lockOld, published, intent, attempt, mem,
                   completed, cursor, readerVars>>

CommitReset(c) ==
    /\ c \in Capturers /\ pc[c] = "commit"
    /\ state' = [epoch       |-> NextEpoch(mem[c].epoch),
                 invocations |-> 0,
                 included    |-> mem[c].included \union {r.id : r \in completed[c]}]
    /\ since' = {}
    /\ Goto(c, "reclaim")
    /\ UNCHANGED <<slots, lock, lockOld, published, intent, attempt, mem,
                   completed, cursor, readerVars>>

\* After the commit and still under the lock, the collected paths are removed
\* in order; the first error ends the clean-up.
ReclaimSlot(c) ==
    /\ pc[c] = "reclaim"
    /\ \E r \in completed[c] :
         /\ \A q \in completed[c] : r.slot <= q.slot
         /\ Occupied(r.slot)
         /\ slots' = [slots EXCEPT ![r.slot] = Free]
         /\ completed' = [completed EXCEPT ![c] = @ \ {r}]
    /\ UNCHANGED <<state, lock, lockOld, published, pc, intent, attempt, mem,
                   since, cursor, readerVars>>

ReclaimFails(c) ==
    /\ pc[c] = "reclaim" /\ completed[c] # {}
    /\ \/ RemoveFails
       \/ \E r \in completed[c] : ~Occupied(r.slot)
    /\ Goto(c, "abort")
    /\ UNCHANGED <<cursor, fileVars, writerVars, readerVars>>

ReclaimDone(c) ==
    /\ pc[c] = "reclaim" /\ completed[c] = {}
    /\ Goto(c, "release")
    /\ UNCHANGED <<cursor, fileVars, writerVars, readerVars>>

-----------------------------------------------------------------------------
(* readState, without the lock.                                            *)

ReadState(r) ==
    /\ pc[r] = "read"
    /\ seen' = [seen EXCEPT ![r] = state]
    /\ before' = [before EXCEPT ![r] = published]
    /\ Goto(r, "scan")
    /\ UNCHANGED <<cursor, fileVars, writerVars>>

ScanSlot(r) ==
    /\ pc[r] = "scan" /\ cursor[r] \in Slots
    /\ IF Occupied(cursor[r])
       THEN Goto(r, "unknown") /\ cursor' = cursor
       ELSE cursor' = [cursor EXCEPT ![r] = @ + 1] /\ pc' = pc
    /\ UNCHANGED <<fileVars, writerVars, readerVars>>

\* Counters read before a reset are not combined with slots cleared after it.
ReadStateAgain(r) ==
    /\ pc[r] = "scan" /\ cursor[r] = NSlots
    /\ Goto(r, IF Bytes(state) = Bytes(seen[r]) THEN "known" ELSE "unknown")
    /\ UNCHANGED <<cursor, fileVars, writerVars, readerVars>>

-----------------------------------------------------------------------------
\* A writer stops for good; the files stay as they are.
Crash(p) ==
    /\ p \in Crashers /\ pc[p] \notin Returned
    /\ Goto(p, "crashed")
    /\ UNCHANGED <<cursor, fileVars, writerVars, readerVars>>

CaptureStep(c) ==
    \/ ReserveSlot(c) \/ SkipSlot(c) \/ CapacityReached(c)
    \/ WriteIntent(c) \/ WriteIntentFails(c)
    \/ Publish(c) \/ PublishFails(c)
    \/ CancelCapture(c) \/ RetryCapture(c) \/ AbandonCapture(c)
    \/ CheckIntent(c) \/ CompleteIntent(c) \/ CompleteIntentFails(c)

ResetStep(c) ==
    \/ CheckOwnReceipt(c) \/ RewriteState(c)
    \/ CollectReceipt(c) \/ CheckEpoch(c) \/ CommitReset(c)
    \/ ReclaimSlot(c) \/ ReclaimFails(c) \/ ReclaimDone(c)

UpdateStep(p) ==
    \/ AcquireLock(p) \/ GiveUp(p) \/ SeeStaleLock(p) \/ BreakLock(p)
    \/ LoadState(p) \/ UpdateFails(p) \/ ReleaseLock(p) \/ CommitSession(p)

ReaderStep(r) == ReadState(r) \/ ScanSlot(r) \/ ReadStateAgain(r)

Next ==
    \/ \E c \in Capturers : CaptureStep(c) \/ ResetStep(c)
    \/ \E p \in Writers : UpdateStep(p) \/ Crash(p)
    \/ LockTurnsStale
    \/ \E r \in Readers : ReaderStep(r)

Spec == Init /\ [][Next]_vars

\* No two waiters stand between the Lstat and the Remove of a stale lock.  The
\* code does not see to it: what holds only then says so.
OneWaiter == \A p, q \in Writers : pc[p] = "break" /\ pc[q] = "break" => p = q

\* The behaviours in which stale locks are broken by one waiter at a time.
ApartSpec == Init /\ [][Next /\ OneWaiter']_vars

\* A process that is not crashed keeps running.  Nothing is assumed of the
\* clock that makes a lock stale, nor of crashes.
FairSpec ==
    /\ Spec
    /\ \A c \in Capturers : WF_vars(CaptureStep(c) \/ ResetStep(c) \/ UpdateStep(c))
    /\ \A p \in Recorders : WF_vars(UpdateStep(p))
    /\ \A r \in Readers : WF_vars(ReaderStep(r))

-----------------------------------------------------------------------------
Labels == {"reserve", "write", "publish", "cancel", "again", "check", "append",
           "lock", "break", "load", "own", "rewrite", "collect", "commit",
           "reclaim", "release", "abort"} \union Returned

\* Every variable has its type.
TypeOK ==
    /\ slots \in [Slots -> File \union {Free}]
    /\ state \in State
    /\ lock \in Writers \union {NoProc}
    /\ lockOld \in BOOLEAN
    /\ published \in SUBSET Capturers
    /\ pc \in [Procs -> Labels \union {"read", "scan", "known", "unknown"}]
    /\ intent \in [Capturers -> [slot : Slots, ino : Inodes \union {NoId}]]
    /\ attempt \in [Capturers -> 1 .. MaxAttempts]
    /\ cursor \in [Procs -> 0 .. NSlots]
    /\ mem \in [Writers -> State]
    /\ completed \in [Capturers -> SUBSET [slot : Slots, id : Capturers]]
    /\ since \in SUBSET Recorders
    /\ seen \in [Readers -> State]
    /\ before \in [Readers -> SUBSET Capturers]

InCritical(p) == pc[p] \in {"load", "own", "rewrite", "collect", "commit",
                            "reclaim", "release", "abort"}

\* The read-modify-writes of the state file are serialised: at most one
\* live process is between taking and releasing the accounting lock.  Two
\* waiters on one stale lock break this, and with it every property below
\* that says so.
Serialized ==
    \A p, q \in Writers : InCritical(p) /\ InCritical(q) => p = q

\* An accepted capture is accounted for or its own intent still occupies its
\* slot, whoever crashed or failed: a reset removes a slot only after the
\* commit that includes it (markCapture before publication, post-commit
\* reclaim).
PublishedHeld ==
    \A c \in published :
        \/ c \in state.included
        \/ slots[intent[c].slot] \in {OwnFile(c, FALSE), OwnFile(c, TRUE)}

\* While its owner may still publish or has not completed it, a pending
\* intent stays where it is: nobody else cancels, reclaims or reuses the slot.
PendingKept ==
    \A c \in Capturers :
        pc[c] \in {"publish", "cancel", "check", "append"} =>
            slots[intent[c].slot] = OwnFile(c, FALSE)

\* A reader that reports a count has seen a state that accounts for every
\* capture published before it began.
KnownIsComplete ==
    \A r \in Readers : pc[r] = "known" => before[r] \subseteq seen[r].included

\* While stale locks have one waiter at a time, no session start is lost and
\* none counts twice between two resets.
NoLostUpdate == state.invocations = Cardinality(since)

\* A capture returned without an accounting warning is accounted for.
CleanReturnIsIncluded ==
    \A c \in Capturers : pc[c] = "ok" => c \in state.included

\* Every newly included receipt comes with a larger epoch, so a reader that
\* compares two reads of the state cannot miss the reset in between.
InclusionMovesEpoch ==
    [][state'.included # state.included => state'.epoch > state.epoch]_vars

\* An earlier reset collected c's receipt and failed, or died, before it was
\* removed.
LeftOver(c) ==
    \E w \in Capturers :
        /\ pc[w] \in {"abort", "warned", "crashed"}
        /\ [slot |-> intent[c].slot, id |-> c] \in completed[w]

\* While stale locks have one waiter at a time: a reset that throws counted
\* session starts away accounts for a capture that no earlier reset had
\* included, except where an earlier clean-up left the receipt behind.
ResetKeepsNewerEvents ==
    [][state'.invocations < state.invocations =>
         \/ state'.included # state.included
         \/ \E c \in Capturers : pc[c] = "commit" /\ LeftOver(c)]_vars

\* Capture always returns, whatever the others do: it waits for a lock, held by
\* a live or a dead process, until its deadline at the latest, breaks a stale
\* one, alone or beside others, and tries a colliding id a bounded number of
\* times.
CaptureReturns ==
    \A c \in Capturers : (pc[c] = "reserve") ~> (pc[c] \in Returned)

-----------------------------------------------------------------------------
Promise == INSTANCE AccountingPromise WITH
    Captures <- Capturers,
    included <- state.included,
    silent   <- state.invocations,
    asked    <- [r \in Readers |->
                   [answer |-> CASE pc[r] = "read"  -> "none"
                                 [] pc[r] = "scan"  -> "pending"
                                 [] OTHER           -> pc[r],
                    view   |-> [before   |-> before[r],
                                included |-> seen[r].included,
                                silent   |-> seen[r].invocations]]]

\* The accounting implements the promise its readers rely on.
KeepsPromise == Promise!PromiseSpec
=============================================================================
