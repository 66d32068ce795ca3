----------------------- MODULE CaptureAccountingProofs -----------------------
(***************************************************************************)
(* Proofs about CaptureAccounting.  The inductive invariant is IInv: the   *)
(* lock is held by whoever is in its critical section, every intent is     *)
(* where its owner left it, and what a reset collected under the lock is   *)
(* there until the lock is released.  It holds of ApartSpec only, where a  *)
(* stale lock has one waiter at a time.  KeepInv, at the end, adds which   *)
(* receipts a reset may have left behind.                                  *)
(***************************************************************************)
EXTENDS CaptureAccounting, FiniteSetTheorems, TLAPS

\* The file at the path of c's intent.
At(c) == slots[intent[c].slot]

LockInv ==
    /\ \A p \in Writers : InCritical(p) => lock = p
    /\ lockOld => lock # NoProc /\ pc[lock] = "crashed"
    /\ OneWaiter
    /\ \A p \in Writers : pc[p] = "break" =>
           lock # NoProc /\ pc[lock] = "crashed"

BeforePublication == {"reserve", "write", "publish", "cancel", "again", "refused"}
AfterPublication  == {"check", "append", "lock", "break", "load", "own",
                      "rewrite", "collect", "commit", "reclaim", "release",
                      "abort", "ok", "warned"}

\* Where the intent of c is, by the state of its owner.
IntentOK(c) ==
    /\ pc[c] \in BeforePublication => c \notin published
    /\ pc[c] \in AfterPublication => c \in published
    /\ pc[c] = "write" => At(c) = [ino |-> intent[c].ino, id |-> NoId, done |-> FALSE]
    /\ pc[c] \in {"publish", "cancel", "check", "append"} => At(c) = OwnFile(c, FALSE)
    /\ c \in published =>
         \/ c \in state.included
         \/ At(c) \in {OwnFile(c, FALSE), OwnFile(c, TRUE)}

\* No slot is being written by two owners.
WritersApart ==
    \A c, d \in Capturers :
        pc[c] = "write" /\ pc[d] = "write" /\ c # d =>
            intent[c].slot # intent[d].slot

IntentInv == WritersApart /\ \A c \in Capturers : IntentOK(c)

\* What the critical section knows of the state and of the slots.
ResetOK(c) ==
    /\ pc[c] \in {"collect", "commit", "reclaim"} =>
         \A r \in completed[c] : Complete(r.slot) /\ slots[r.slot].id = r.id
    /\ pc[c] = "reclaim" => \A r \in completed[c] : r.id \in state.included
    /\ pc[c] = "collect" =>
         /\ At(c) = OwnFile(c, TRUE)
         /\ cursor[c] > intent[c].slot => \E r \in completed[c] : r.id = c
    /\ pc[c] = "commit" =>
         /\ \E r \in completed[c] : r.id = c
         /\ mem[c].epoch < MaxEpoch
    /\ pc[c] \in {"rewrite", "reclaim", "release", "ok"} => c \in state.included

ResetInv ==
    /\ state.included \subseteq published
    /\ \A k \in Slots : Complete(k) => slots[k].id \in published
    /\ \A p \in Writers :
         pc[p] \in {"own", "rewrite", "collect", "commit"} => mem[p] = state
    /\ \A c \in Capturers : ResetOK(c)

CountInv ==
    /\ IsFiniteSet(since)
    /\ NoLostUpdate
    /\ \A p \in Recorders : p \in since => pc[p] \in {"release", "ok", "crashed"}

\* A scan that has not met a reset still has the slot of every capture it is
\* bound to notice ahead of it.
ReaderOK(r) ==
    /\ before[r] \subseteq published
    /\ pc[r] = "read" => cursor[r] = 0
    /\ pc[r] = "scan" =>
         /\ seen[r].epoch <= state.epoch
         /\ seen[r].epoch = state.epoch =>
              /\ seen[r].included = state.included
              /\ \A c \in before[r] \ seen[r].included : intent[c].slot >= cursor[r]
    /\ pc[r] = "known" => before[r] \subseteq seen[r].included

ReaderInv == \A r \in Readers : ReaderOK(r)

\* PublishedHeld and its companions as one inductive invariant.
IInv == TypeOK /\ LockInv /\ IntentInv /\ ResetInv /\ CountInv /\ ReaderInv

LEMMA ReceiptIds ==
  ASSUME NEW S \in SUBSET [slot : Slots, id : Capturers]
  PROVE  {r.id : r \in S} \subseteq Capturers
OBVIOUS

LEMMA NextOne ==
  ASSUME NEW i \in Slots
  PROVE  i + 1 \in 0 .. NSlots
BY BoundsAssumption DEF Slots

\* Every step keeps the types.
LEMMA TypeStep == TypeOK /\ [Next]_vars => TypeOK'
<1> SUFFICES ASSUME TypeOK, [Next]_vars PROVE TypeOK'
  OBVIOUS
<1> USE ProcsAssumption, BoundsAssumption, FreeAssumption
    DEF TypeOK, File, State, Slots, Goto, Labels, Returned, Writers, Procs, fileVars, writerVars, readerVars
<1>1. ASSUME NEW c \in Capturers, ReserveSlot(c)
      PROVE  TypeOK'
  <2>1. PICK i \in Inodes :
          /\ slots' = [slots EXCEPT ![cursor[c]] =
                         [ino |-> i, id |-> NoId, done |-> FALSE]]
          /\ intent' = [intent EXCEPT ![c] = [slot |-> cursor[c], ino |-> i]]
    BY <1>1 DEF ReserveSlot, FreeInodes
  <2>2. cursor[c] \in Slots
    BY <1>1 DEF ReserveSlot
  <2>3. slots' \in [Slots -> File \union {Free}]
    BY <2>1, <2>2
  <2> QED
    BY <1>1, <2>1, <2>2, <2>3 DEF ReserveSlot
<1>2. ASSUME NEW c \in Capturers, SkipSlot(c)
      PROVE  TypeOK'
  <2>1. cursor[c] + 1 \in 0 .. NSlots
    <3> HIDE DEF TypeOK, Slots
    <3> QED
      BY <1>2, NextOne DEF SkipSlot
  <2> QED
    BY <1>2, <2>1 DEF SkipSlot
<1>3. ASSUME NEW c \in Capturers, CapacityReached(c)
      PROVE  TypeOK'
  BY <1>3 DEF CapacityReached
<1>4. ASSUME NEW c \in Capturers, WriteIntent(c)
      PROVE  TypeOK'
  BY <1>4 DEF WriteIntent, OwnFile
<1>5. ASSUME NEW c \in Capturers, WriteIntentFails(c)
      PROVE  TypeOK'
  BY <1>5 DEF WriteIntentFails
<1>6. ASSUME NEW c \in Capturers, Publish(c)
      PROVE  TypeOK'
  BY <1>6 DEF Publish
<1>7. ASSUME NEW c \in Capturers, PublishFails(c)
      PROVE  TypeOK'
  BY <1>7 DEF PublishFails
<1>8. ASSUME NEW c \in Capturers, CancelCapture(c)
      PROVE  TypeOK'
  BY <1>8 DEF CancelCapture
<1>9. ASSUME NEW c \in Capturers, RetryCapture(c)
      PROVE  TypeOK'
  <2>1. attempt[c] + 1 \in 1 .. MaxAttempts
    BY <1>9 DEF RetryCapture
  <2>2. 0 \in 0 .. NSlots
    OBVIOUS
  <2> QED
    BY <1>9, <2>1, <2>2 DEF RetryCapture
<1>10. ASSUME NEW c \in Capturers, AbandonCapture(c)
      PROVE  TypeOK'
  BY <1>10 DEF AbandonCapture
<1>11. ASSUME NEW c \in Capturers, CheckIntent(c)
      PROVE  TypeOK'
  BY <1>11 DEF CheckIntent
<1>12. ASSUME NEW c \in Capturers, CompleteIntent(c)
      PROVE  TypeOK'
  BY <1>12 DEF CompleteIntent, Occupied
<1>13. ASSUME NEW c \in Capturers, CompleteIntentFails(c)
      PROVE  TypeOK'
  BY <1>13 DEF CompleteIntentFails
<1>14. ASSUME NEW c \in Capturers, CheckOwnReceipt(c)
      PROVE  TypeOK'
  <2>1. cursor' \in [Procs -> 0 .. NSlots]
    BY <1>14 DEF CheckOwnReceipt
  <2>2. pc' \in [Procs -> Labels \union {"read", "scan", "known", "unknown"}]
    BY <1>14 DEF CheckOwnReceipt
  <2> QED
    BY <1>14, <2>1, <2>2 DEF CheckOwnReceipt
<1>15. ASSUME NEW c \in Capturers, RewriteState(c)
      PROVE  TypeOK'
  BY <1>15 DEF RewriteState
<1>16. ASSUME NEW c \in Capturers, CollectReceipt(c)
      PROVE  TypeOK'
  <2>1. cursor[c] + 1 \in 0 .. NSlots
    <3> HIDE DEF TypeOK, Slots
    <3> QED
      BY <1>16, NextOne DEF CollectReceipt
  <2>2. Complete(cursor[c]) =>
          [slot |-> cursor[c], id |-> slots[cursor[c]].id]
             \in [slot : Slots, id : Capturers]
    BY <1>16 DEF CollectReceipt, Complete, Occupied
  <2> QED
    BY <1>16, <2>1, <2>2 DEF CollectReceipt
<1>17. ASSUME NEW c \in Capturers, CheckEpoch(c)
      PROVE  TypeOK'
  BY <1>17 DEF CheckEpoch
<1>18. ASSUME NEW c \in Capturers, CommitReset(c)
      PROVE  TypeOK'
  <2>1. NextEpoch(mem[c].epoch) \in 0 .. MaxEpoch
    BY DEF NextEpoch
  <2>2. {r.id : r \in completed[c]} \subseteq Capturers
    <3>1. completed[c] \in SUBSET [slot : Slots, id : Capturers]
      OBVIOUS
    <3> QED
      BY <3>1, ReceiptIds
  <2>3. mem[c].included \union {r.id : r \in completed[c]} \in SUBSET Capturers
    BY <2>2
  <2>4. state' \in State
    BY <1>18, <2>1, <2>3 DEF CommitReset
  <2>5. pc' \in [Procs -> Labels \union {"read", "scan", "known", "unknown"}]
    BY <1>18 DEF CommitReset
  <2> QED
    BY <1>18, <2>4, <2>5 DEF CommitReset
<1>19. ASSUME NEW c \in Capturers, ReclaimSlot(c)
      PROVE  TypeOK'
  <2>1. PICK r \in completed[c] :
          /\ slots' = [slots EXCEPT ![r.slot] = Free]
          /\ completed' = [completed EXCEPT ![c] = @ \ {r}]
    BY <1>19 DEF ReclaimSlot
  <2>2. slots' \in [Slots -> File \union {Free}]
    BY <2>1
  <2> QED
    BY <1>19, <2>1, <2>2 DEF ReclaimSlot
<1>20. ASSUME NEW c \in Capturers, ReclaimFails(c)
      PROVE  TypeOK'
  BY <1>20 DEF ReclaimFails
<1>21. ASSUME NEW c \in Capturers, ReclaimDone(c)
      PROVE  TypeOK'
  BY <1>21 DEF ReclaimDone
<1>22. ASSUME NEW p \in Writers, AcquireLock(p)
      PROVE  TypeOK'
  BY <1>22 DEF AcquireLock
<1>23. ASSUME NEW p \in Writers, GiveUp(p)
      PROVE  TypeOK'
  BY <1>23 DEF GiveUp, Failure
<1>24. ASSUME NEW p \in Writers, SeeStaleLock(p)
      PROVE  TypeOK'
  BY <1>24 DEF SeeStaleLock
<1>25. ASSUME NEW p \in Writers, BreakLock(p)
      PROVE  TypeOK'
  BY <1>25 DEF BreakLock
<1>26. ASSUME NEW p \in Writers, LoadState(p)
      PROVE  TypeOK'
  BY <1>26 DEF LoadState
<1>27. ASSUME NEW p \in Writers, UpdateFails(p)
      PROVE  TypeOK'
  BY <1>27 DEF UpdateFails
<1>28. ASSUME NEW p \in Writers, ReleaseLock(p)
      PROVE  TypeOK'
  BY <1>28 DEF ReleaseLock, Failure
<1>29. ASSUME NEW p \in Writers, CommitSession(p)
      PROVE  TypeOK'
  <2>1. state' \in State
    <3>1. mem[p] \in State
      OBVIOUS
    <3> HIDE DEF TypeOK
    <3> QED
      BY <1>29, <3>1 DEF CommitSession
  <2> QED
    BY <1>29, <2>1 DEF CommitSession
<1>30. ASSUME NEW p \in Writers, Crash(p)
      PROVE  TypeOK'
  BY <1>30 DEF Crash
<1>31. ASSUME NEW r \in Readers, ReadState(r)
      PROVE  TypeOK'
  BY <1>31 DEF ReadState
<1>32. ASSUME NEW r \in Readers, ScanSlot(r)
      PROVE  TypeOK'
  <2>1. cursor[r] + 1 \in 0 .. NSlots
    <3> HIDE DEF TypeOK, Slots
    <3> QED
      BY <1>32, NextOne DEF ScanSlot
  <2>2. cursor' \in [Procs -> 0 .. NSlots]
    <3>1. cursor \in [Procs -> 0 .. NSlots]
      OBVIOUS
    <3> HIDE DEF TypeOK
    <3> QED
      BY <1>32, <2>1, <3>1 DEF ScanSlot
  <2>3. pc' \in [Procs -> Labels \union {"read", "scan", "known", "unknown"}]
    <3>1. pc \in [Procs -> Labels \union {"read", "scan", "known", "unknown"}]
      OBVIOUS
    <3>2. pc' = pc \/ pc' = [pc EXCEPT ![r] = "unknown"]
      <4> HIDE DEF TypeOK
      <4> QED
        BY <1>32 DEF ScanSlot
    <3> HIDE DEF TypeOK
    <3> QED
      BY <3>1, <3>2
  <2> QED
    BY <1>32, <2>2, <2>3 DEF ScanSlot
<1>33. ASSUME NEW r \in Readers, ReadStateAgain(r)
      PROVE  TypeOK'
  BY <1>33 DEF ReadStateAgain
<1>34. ASSUME LockTurnsStale
      PROVE  TypeOK'
  BY <1>34 DEF LockTurnsStale
<1>35. ASSUME UNCHANGED vars
      PROVE  TypeOK'
  BY <1>35 DEF vars
<1> QED
  BY <1>1, <1>2, <1>3, <1>4, <1>5, <1>6, <1>7, <1>8, <1>9, <1>10, <1>11,
     <1>12, <1>13, <1>14, <1>15, <1>16, <1>17, <1>18, <1>19, <1>20, <1>21,
     <1>22, <1>23, <1>24, <1>25, <1>26, <1>27, <1>28, <1>29, <1>30, <1>31,
     <1>32, <1>33, <1>34, <1>35
     DEF Next, CaptureStep, ResetStep, UpdateStep, ReaderStep

\* The lock belongs to the process in its critical section, and a process that
\* is about to break a lock is about to break a crashed process's lock.
LEMMA LockStep ==
  ASSUME TypeOK, LockInv, OneWaiter', [Next]_vars
  PROVE  LockInv'
<1> USE ProcsAssumption DEF LockInv, InCritical, Goto, Writers, Procs, Returned
<1>1. /\ pc \in [Procs -> Labels \union {"read", "scan", "known", "unknown"}]
      /\ lock \in Writers \union {NoProc}
  BY DEF TypeOK
<1>2. ASSUME NEW c \in Capturers, CaptureStep(c)
      PROVE  LockInv'
  <2>1. /\ UNCHANGED <<lock, lockOld>>
        /\ pc[c] # "crashed"
        /\ \/ pc' = pc
           \/ \E l \in {"reserve", "write", "publish", "cancel", "again", "check",
                       "append", "lock", "refused", "warned"} :
                pc' = [pc EXCEPT ![c] = l]
    BY <1>2
       DEF CaptureStep, ReserveSlot, SkipSlot, CapacityReached, WriteIntent,
           WriteIntentFails, Publish, PublishFails, CancelCapture,
           RetryCapture, AbandonCapture, CheckIntent, CompleteIntent,
           CompleteIntentFails, fileVars
  <2> QED
    BY <1>1, <2>1
<1>3. ASSUME NEW c \in Capturers, ResetStep(c)
      PROVE  LockInv'
  <2>1. /\ UNCHANGED <<lock, lockOld>>
        /\ InCritical(c)
        /\ \/ pc' = pc
           \/ \E l \in {"rewrite", "collect", "commit", "reclaim", "release",
                       "abort"} : pc' = [pc EXCEPT ![c] = l]
    BY <1>3
       DEF ResetStep, CheckOwnReceipt, RewriteState, CollectReceipt,
           CheckEpoch, CommitReset, ReclaimSlot, ReclaimFails, ReclaimDone,
           fileVars
  <2> QED
    BY <1>1, <2>1
<1>4. ASSUME NEW p \in Writers, AcquireLock(p)
      PROVE  LockInv'
  BY <1>1, <1>4 DEF AcquireLock
<1>5. ASSUME NEW p \in Writers, GiveUp(p)
      PROVE  LockInv'
  BY <1>1, <1>5 DEF GiveUp, Failure, fileVars
<1>6. ASSUME NEW p \in Writers, SeeStaleLock(p)
      PROVE  LockInv'
  BY <1>1, <1>6 DEF SeeStaleLock, fileVars
<1>7. ASSUME NEW p \in Writers, BreakLock(p)
      PROVE  LockInv'
  BY <1>1, <1>7 DEF BreakLock, OneWaiter
<1>8. ASSUME NEW p \in Writers, LoadState(p) \/ UpdateFails(p) \/ CommitSession(p)
      PROVE  LockInv'
  BY <1>1, <1>8 DEF LoadState, UpdateFails, CommitSession, fileVars
<1>9. ASSUME NEW p \in Writers, ReleaseLock(p)
      PROVE  LockInv'
  BY <1>1, <1>9 DEF ReleaseLock, Failure
<1>10. ASSUME NEW p \in Writers, Crash(p)
       PROVE  LockInv'
  BY <1>1, <1>10 DEF Crash, fileVars
<1>11. CASE LockTurnsStale
  BY <1>1, <1>11 DEF LockTurnsStale
<1>12. ASSUME NEW r \in Readers, ReaderStep(r)
       PROVE  LockInv'
  BY <1>1, <1>12 DEF ReaderStep, ReadState, ScanSlot, ReadStateAgain, fileVars
<1>13. CASE UNCHANGED vars
  BY <1>13 DEF vars
<1> QED
  BY <1>2, <1>3, <1>4, <1>5, <1>6, <1>7, <1>8, <1>9, <1>10, <1>11, <1>12,
     <1>13 DEF Next, UpdateStep

\* The captures whose intent file must stay as it is.
Needs(d) == \/ pc[d] \in {"write", "publish", "cancel", "check", "append"}
            \/ d \in published /\ d \notin state.included

\* What the invariant says of a needed intent.
LEMMA NeededFile ==
  ASSUME TypeOK, NEW d \in Capturers, IntentOK(d), Needs(d)
  PROVE  /\ At(d) # Free
         /\ pc[d] = "write" => At(d).id = NoId
         /\ pc[d] # "write" => At(d).id = d
         /\ pc[d] \in {"write", "publish", "cancel", "check", "append"} => At(d).done = FALSE
  <1>1. /\ [ino |-> intent[d].ino, id |-> NoId, done |-> FALSE] \in File
        /\ OwnFile(d, FALSE) \in File
        /\ OwnFile(d, TRUE) \in File
    BY DEF TypeOK, File, OwnFile
  <1>2. CASE pc[d] = "write"
    <2>1. At(d) = [ino |-> intent[d].ino, id |-> NoId, done |-> FALSE]
      BY <1>2 DEF IntentOK
    <2>2. At(d).id = NoId /\ At(d).done = FALSE
      BY <2>1
    <2> QED
      BY <1>1, <1>2, <2>1, <2>2, FreeAssumption
  <1>3. CASE pc[d] \in {"publish", "cancel", "check", "append"}
    <2>1. At(d) = OwnFile(d, FALSE) /\ pc[d] # "write"
      BY <1>3 DEF IntentOK
    <2>2. At(d).id = d /\ At(d).done = FALSE
      BY <2>1 DEF OwnFile
    <2> QED
      BY <1>1, <2>1, <2>2, FreeAssumption
  <1>4. CASE pc[d] \notin {"write", "publish", "cancel", "check", "append"}
    <2>1. At(d) \in {OwnFile(d, FALSE), OwnFile(d, TRUE)}
      BY <1>4 DEF IntentOK, Needs
    <2>2. At(d).id = d
      BY <2>1 DEF OwnFile
    <2> QED
      BY <1>1, <1>4, <2>1, <2>2, FreeAssumption
  <1> QED
    BY <1>2, <1>3, <1>4

\* Two captures that need their files hold different slots, unless both still
\* have to write their ids.
LEMMA NeededApart ==
  ASSUME TypeOK, NEW c \in Capturers, NEW d \in Capturers \ {c},
         IntentOK(c), IntentOK(d), Needs(c), Needs(d),
         pc[c] # "write" \/ pc[d] # "write"
  PROVE  intent[d].slot # intent[c].slot
  <1>1. At(c).id # At(d).id
    <2>1. CASE pc[c] = "write"
      BY <2>1, NeededFile, ProcsAssumption
    <2>2. CASE pc[d] = "write"
      BY <2>2, NeededFile, ProcsAssumption
    <2>3. CASE pc[c] # "write" /\ pc[d] # "write"
      BY <2>3, NeededFile
    <2> QED
      BY <2>1, <2>2, <2>3
  <1> QED
    BY <1>1 DEF At

\* A write to one slot leaves the needed intents in the other slots alone.
LEMMA OtherSlots ==
  ASSUME TypeOK, NEW k \in Slots, NEW f,
         slots' = [slots EXCEPT ![k] = f],
         NEW d \in Capturers, intent'[d] = intent[d], intent[d].slot # k
  PROVE  At(d)' = At(d)
  BY DEF TypeOK, At

\* A step that leaves d and its file alone preserves IntentOK(d).
LEMMA IntentFrame ==
  ASSUME NEW d \in Capturers, IntentOK(d),
         pc'[d] = pc[d], intent'[d] = intent[d],
         d \in published' <=> d \in published,
         d \in state.included => d \in state'.included,
         Needs(d) => At(d)' = At(d)
  PROVE  IntentOK(d)'
  <1>1. OwnFile(d, TRUE)' = OwnFile(d, TRUE) /\ OwnFile(d, FALSE)' = OwnFile(d, FALSE)
    BY DEF OwnFile
  <1>2. CASE Needs(d)
    BY <1>1, <1>2 DEF IntentOK
  <1>3. CASE ~Needs(d)
    BY <1>3 DEF IntentOK, Needs
  <1> QED
    BY <1>2, <1>3

\* A step of c that starts no write and leaves the other captures alone.
LEMMA IntentStepOf ==
  ASSUME TypeOK, IntentInv, NEW c \in Capturers,
         pc'[c] # "write",
         IntentOK(c)',
         \A d \in Capturers \ {c} :
            /\ pc'[d] = pc[d] /\ intent'[d] = intent[d]
            /\ d \in published' <=> d \in published
            /\ d \in state.included => d \in state'.included
            /\ Needs(d) => At(d)' = At(d)
  PROVE  IntentInv'
  <1>1. \A d \in Capturers \ {c} : IntentOK(d)'
    BY IntentFrame DEF IntentInv
  <1>2. WritersApart'
    BY DEF IntentInv, WritersApart
  <1> QED
    BY <1>1, <1>2 DEF IntentInv

\* No step disturbs an intent that its owner still needs.
LEMMA IntentStep ==
  ASSUME TypeOK, IntentInv, ResetInv, [Next]_vars
  PROVE  IntentInv'
<1> USE ProcsAssumption DEF Writers, Procs
<1>1. /\ pc \in [Procs -> Labels \union {"read", "scan", "known", "unknown"}]
      /\ slots \in [Slots -> File \union {Free}]
      /\ intent \in [Capturers -> [slot : Slots, ino : Inodes \union {NoId}]]
      /\ published \in SUBSET Capturers
  BY DEF TypeOK
<1>2. ASSUME NEW c \in Capturers, ReserveSlot(c)
      PROVE  IntentInv'
  <2> DEFINE k == cursor[c]
  <2>1. PICK i \in FreeInodes :
          /\ slots' = [slots EXCEPT ![k] = [ino |-> i, id |-> NoId, done |-> FALSE]]
          /\ intent' = [intent EXCEPT ![c] = [slot |-> k, ino |-> i]]
    BY <1>2 DEF ReserveSlot
  <2>2. /\ k \in Slots /\ slots[k] = Free /\ pc[c] = "reserve"
        /\ pc' = [pc EXCEPT ![c] = "write"]
        /\ UNCHANGED <<state, published>>
    BY <1>2 DEF ReserveSlot, Occupied, Goto
  <2>3. ASSUME NEW d \in Capturers \ {c}
        PROVE  /\ IntentOK(d)' /\ pc'[d] = pc[d] /\ intent'[d] = intent[d]
               /\ Needs(d) => intent[d].slot # k
    <3>1. IntentOK(d)
      BY DEF IntentInv
    <3>2. Needs(d) => intent[d].slot # k
      BY <2>2, <3>1, NeededFile DEF At
    <3>3. pc'[d] = pc[d] /\ intent'[d] = intent[d]
      BY <1>1, <2>1, <2>2
    <3>4. Needs(d) => At(d)' = At(d)
      BY <2>1, <2>2, <3>2, <3>3, OtherSlots
    <3> QED
      BY <2>2, <3>1, <3>2, <3>3, <3>4, IntentFrame
  <2>4. IntentOK(c)'
    <3>1. At(c)' = [ino |-> i, id |-> NoId, done |-> FALSE] /\ intent'[c].ino = i
      BY <1>1, <2>1, <2>2 DEF At
    <3>2. c \notin published' /\ pc'[c] = "write"
      BY <1>1, <2>2 DEF IntentInv, IntentOK, BeforePublication
    <3> QED
      BY <3>1, <3>2 DEF IntentOK, AfterPublication
  <2>5. WritersApart'
    <3>1. intent'[c].slot = k
      BY <1>1, <2>1
    <3> QED
      BY <2>2, <2>3, <3>1 DEF IntentInv, WritersApart, Needs
  <2> QED
    BY <2>3, <2>4, <2>5 DEF IntentInv
<1>3. ASSUME NEW c \in Capturers,
             \/ SkipSlot(c) \/ CapacityReached(c) \/ PublishFails(c)
             \/ RetryCapture(c) \/ AbandonCapture(c) \/ CheckIntent(c)
             \/ CompleteIntentFails(c)
      PROVE  IntentInv'
  <2>1. /\ UNCHANGED <<slots, intent, published, state>>
        /\ \E l \in {"reserve", "refused", "cancel", "append", "warned"} :
             /\ pc' = [pc EXCEPT ![c] = l]
             /\ l \in {"reserve", "refused"} => pc[c] \in {"reserve", "again"}
             /\ l = "cancel" => pc[c] = "publish"
             /\ l \in {"append", "warned"} => pc[c] \in {"check", "append"}
    BY <1>1, <1>3
       DEF SkipSlot, CapacityReached, PublishFails, RetryCapture,
           AbandonCapture, CheckIntent, CompleteIntentFails, fileVars,
           writerVars, Goto
  <2>2. IntentOK(c)'
    <3>1. At(c)' = At(c) /\ OwnFile(c, FALSE)' = OwnFile(c, FALSE)
          /\ OwnFile(c, TRUE)' = OwnFile(c, TRUE)
      BY <2>1 DEF At, OwnFile
    <3> QED
      BY <1>1, <2>1, <3>1
         DEF IntentInv, IntentOK, BeforePublication, AfterPublication
  <2> QED
    BY <1>1, <2>1, <2>2, IntentStepOf DEF At
<1>4. ASSUME NEW c \in Capturers, WriteIntent(c)
      PROVE  IntentInv'
  <2>1. /\ slots' = [slots EXCEPT ![intent[c].slot] = OwnFile(c, FALSE)]
        /\ pc[c] = "write" /\ pc' = [pc EXCEPT ![c] = "publish"]
        /\ UNCHANGED <<intent, published, state>>
    BY <1>4 DEF WriteIntent, writerVars, Goto
  <2>2. IntentOK(c)'
    <3>1. At(c)' = OwnFile(c, FALSE)' /\ pc'[c] = "publish" /\ c \notin published'
      BY <1>1, <2>1
         DEF At, OwnFile, IntentInv, IntentOK, BeforePublication
    <3> QED
      BY <3>1 DEF IntentOK, AfterPublication
  <2>3. ASSUME NEW d \in Capturers \ {c}, Needs(d)
        PROVE  At(d)' = At(d)
    <3>1. intent[d].slot # intent[c].slot
      <4>1. IntentOK(d) /\ IntentOK(c) /\ Needs(c)
        BY <2>1 DEF IntentInv, Needs
      <4>2. CASE pc[d] = "write"
        BY <2>1, <4>2 DEF IntentInv, WritersApart
      <4>3. CASE pc[d] # "write"
        BY <2>3, <4>1, <4>3, NeededApart
      <4> QED
        BY <4>2, <4>3
    <3> QED
      BY <1>1, <2>1, <3>1, OtherSlots
  <2> QED
    BY <1>1, <2>1, <2>2, <2>3, IntentStepOf
<1>5. ASSUME NEW c \in Capturers, WriteIntentFails(c) \/ CancelCapture(c)
      PROVE  IntentInv'
  <2>1. /\ \/ slots' = slots
           \/ /\ slots' = [slots EXCEPT ![intent[c].slot] = Free]
              /\ pc[c] = "cancel" => At(c) = OwnFile(c, FALSE)
        /\ \/ pc[c] = "write" /\ pc' = [pc EXCEPT ![c] = "refused"]
           \/ pc[c] = "cancel" /\ pc' = [pc EXCEPT ![c] = "again"]
        /\ UNCHANGED <<intent, published, state>>
    BY <1>5 DEF WriteIntentFails, CancelCapture, writerVars, Goto, At
  <2>2. IntentOK(c)'
    <3>1. pc'[c] \in {"refused", "again"} /\ c \notin published'
      BY <1>1, <2>1 DEF IntentInv, IntentOK, BeforePublication
    <3> QED
      BY <3>1 DEF IntentOK, AfterPublication
  <2>3. ASSUME NEW d \in Capturers \ {c}, Needs(d)
        PROVE  At(d)' = At(d)
    <3>1. CASE slots' = slots
      BY <2>1, <3>1 DEF At
    <3>2. CASE slots' # slots
      <4>1. IntentOK(d) /\ IntentOK(c) /\ Needs(c)
        BY <2>1 DEF IntentInv, Needs
      <4>2. intent[d].slot # intent[c].slot
        <5>1. CASE pc[c] = "write" /\ pc[d] = "write"
          BY <5>1 DEF IntentInv, WritersApart
        <5>2. CASE pc[c] # "write" \/ pc[d] # "write"
          BY <2>3, <4>1, <5>2, NeededApart
        <5> QED
          BY <5>1, <5>2
      <4> QED
        BY <1>1, <2>1, <3>2, <4>2, OtherSlots
    <3> QED
      BY <3>1, <3>2
  <2> QED
    BY <1>1, <2>1, <2>2, <2>3, IntentStepOf
<1>6. ASSUME NEW c \in Capturers, Publish(c)
      PROVE  IntentInv'
  <2>1. /\ pc[c] = "publish" /\ pc' = [pc EXCEPT ![c] = "check"]
        /\ published' = published \union {c}
        /\ UNCHANGED <<slots, intent, state>>
    BY <1>6 DEF Publish, writerVars, Goto
  <2>2. At(c)' = OwnFile(c, FALSE)'
    BY <2>1 DEF At, OwnFile, IntentInv, IntentOK
  <2>3. IntentOK(c)'
    BY <1>1, <2>1, <2>2 DEF IntentOK, BeforePublication, AfterPublication
  <2> QED
    BY <1>1, <2>1, <2>3, IntentStepOf DEF At
<1>7. ASSUME NEW c \in Capturers, CompleteIntent(c)
      PROVE  IntentInv'
  <2>1. /\ slots' = [slots EXCEPT ![intent[c].slot] =
                      [ino |-> @.ino, id |-> @.id, done |-> TRUE]]
        /\ pc[c] = "append" /\ pc' = [pc EXCEPT ![c] = "lock"]
        /\ UNCHANGED <<intent, published, state>>
    BY <1>7 DEF CompleteIntent, writerVars, Goto
  <2>2. At(c) = OwnFile(c, FALSE) /\ c \in published
    BY <2>1 DEF IntentInv, IntentOK, AfterPublication
  <2>3. IntentOK(c)'
    <3>1. At(c)' = OwnFile(c, TRUE)'
      BY <1>1, <2>1, <2>2 DEF At, OwnFile
    <3> QED
      BY <1>1, <2>1, <2>2, <3>1 DEF IntentOK, BeforePublication
  <2>4. ASSUME NEW d \in Capturers \ {c}, Needs(d)
        PROVE  At(d)' = At(d)
    <3>1. IntentOK(d) /\ IntentOK(c) /\ Needs(c)
      BY <2>1 DEF IntentInv, Needs
    <3>2. intent[d].slot # intent[c].slot
      BY <2>1, <2>4, <3>1, NeededApart
    <3> QED
      BY <1>1, <2>1, <3>2, OtherSlots
  <2> QED
    BY <1>1, <2>1, <2>3, <2>4, IntentStepOf
<1>8. ASSUME NEW c \in Capturers, ReclaimSlot(c)
      PROVE  IntentInv'
  <2>1. PICK r \in completed[c] :
          /\ slots' = [slots EXCEPT ![r.slot] = Free]
          /\ Complete(r.slot) /\ slots[r.slot].id = r.id
          /\ r.id \in state.included
    <3>1. \E r \in completed[c] : slots' = [slots EXCEPT ![r.slot] = Free]
      BY <1>8 DEF ReclaimSlot
    <3>2. pc[c] = "reclaim"
      BY <1>8 DEF ReclaimSlot
    <3>3. \A r \in completed[c] :
            Complete(r.slot) /\ slots[r.slot].id = r.id /\ r.id \in state.included
      BY <3>2 DEF ResetInv, ResetOK
    <3> QED
      BY <3>1, <3>3
  <2>2. UNCHANGED <<pc, intent, published, state>>
    BY <1>8 DEF ReclaimSlot
  <2>3. ASSUME NEW d \in Capturers, Needs(d)
        PROVE  At(d)' = At(d)
    <3>1. IntentOK(d)
      BY DEF IntentInv
    <3>2. intent[d].slot # r.slot
      BY <2>1, <2>3, <3>1, NeededFile DEF At, Complete, Needs
    <3>3. r.slot \in Slots
      BY <2>1 DEF TypeOK
    <3> QED
      BY <2>1, <2>2, <3>2, <3>3, OtherSlots
  <2> QED
    BY <2>2, <2>3, IntentFrame DEF IntentInv, WritersApart
<1>9. ASSUME NEW c \in Capturers,
             \/ CheckOwnReceipt(c) \/ CollectReceipt(c) \/ CheckEpoch(c)
             \/ ReclaimFails(c) \/ ReclaimDone(c) \/ RewriteState(c)
             \/ CommitReset(c)
      PROVE  IntentInv'
  <2>1. /\ UNCHANGED <<slots, intent, published>>
        /\ pc[c] \in {"own", "rewrite", "collect", "commit", "reclaim"}
        /\ \E l \in {"rewrite", "collect", "commit", "reclaim", "release", "abort"} :
             pc' = [pc EXCEPT ![c] = l]
    <3>1. UNCHANGED <<slots, intent, published>>
      BY <1>9
         DEF CheckOwnReceipt, CollectReceipt, CheckEpoch, ReclaimFails,
             ReclaimDone, RewriteState, CommitReset, fileVars, writerVars
    <3>2. pc[c] \in {"own", "rewrite", "collect", "commit", "reclaim"}
      BY <1>9
         DEF CheckOwnReceipt, CollectReceipt, CheckEpoch, ReclaimFails,
             ReclaimDone, RewriteState, CommitReset
    <3>3. \E l \in {"rewrite", "collect", "commit", "reclaim", "release", "abort"} :
             pc' = [pc EXCEPT ![c] = l]
      <4>1. CASE CheckOwnReceipt(c) \/ RewriteState(c) \/ CommitReset(c)
        BY <1>1, <3>2, <4>1 DEF CheckOwnReceipt, RewriteState, CommitReset, Goto
      <4>2. CASE CollectReceipt(c) \/ CheckEpoch(c)
        BY <1>1, <3>2, <4>2 DEF CollectReceipt, CheckEpoch, Goto, fileVars
      <4>3. CASE ReclaimFails(c) \/ ReclaimDone(c)
        BY <1>1, <3>2, <4>3 DEF ReclaimFails, ReclaimDone, Goto
      <4> QED
        BY <1>9, <4>1, <4>2, <4>3
    <3> QED
      BY <3>1, <3>2, <3>3
  <2>2. state.included \subseteq state'.included
    <3>1. CASE RewriteState(c)
      BY <3>1 DEF RewriteState, ResetInv
    <3>2. CASE CommitReset(c)
      <4>1. mem[c] = state
        BY <3>2 DEF CommitReset, ResetInv
      <4> QED
        BY <3>2, <4>1 DEF CommitReset
    <3>3. CASE ~RewriteState(c) /\ ~CommitReset(c)
      BY <1>9, <3>3
         DEF CheckOwnReceipt, CollectReceipt, CheckEpoch, ReclaimFails,
             ReclaimDone, fileVars
    <3> QED
      BY <3>1, <3>2, <3>3
  <2>3. \A d \in Capturers : At(d)' = At(d)
    BY <2>1 DEF At
  <2>4. IntentOK(c)'
    BY <1>1, <2>1, <2>2, <2>3
       DEF IntentInv, IntentOK, BeforePublication, AfterPublication, OwnFile
  <2> QED
    BY <1>1, <2>1, <2>2, <2>3, <2>4, IntentStepOf
<1>10. ASSUME NEW p \in Writers, UpdateStep(p) \/ Crash(p)
       PROVE  IntentInv'
  <2>1. /\ UNCHANGED <<slots, intent, published>>
        /\ state'.included = state.included
    BY <1>10
       DEF UpdateStep, AcquireLock, GiveUp, SeeStaleLock, BreakLock, LoadState,
           UpdateFails, ReleaseLock, CommitSession, Crash, ResetInv, fileVars,
           writerVars
  <2>2. \/ pc' = [pc EXCEPT ![p] = "crashed"]
        \/ /\ pc[p] \in AfterPublication \ {"check", "append"}
           /\ \E l \in AfterPublication \union {"failed"} :
                /\ pc' = [pc EXCEPT ![p] = l]
                /\ p \in Capturers => l \in AfterPublication \ {"check", "append"}
    BY <1>10
       DEF UpdateStep, AcquireLock, GiveUp, SeeStaleLock, BreakLock, LoadState,
           UpdateFails, ReleaseLock, CommitSession, Crash, Failure, Goto,
           AfterPublication
  <2>3. \A d \in Capturers : At(d)' = At(d)
    BY <2>1 DEF At
  <2>4. CASE p \in Capturers
    <3>1. IntentOK(p)'
      BY <1>1, <2>1, <2>2, <2>3, <2>4
         DEF IntentInv, IntentOK, BeforePublication, AfterPublication, OwnFile
    <3> QED
      BY <1>1, <2>1, <2>2, <2>3, <2>4, <3>1, IntentStepOf DEF AfterPublication
  <2>5. CASE p \notin Capturers
    <3>1. \A d \in Capturers : IntentOK(d)'
      BY <1>1, <2>1, <2>2, <2>3, <2>5, IntentFrame DEF IntentInv
    <3> QED
      BY <1>1, <2>1, <2>2, <2>5, <3>1 DEF IntentInv, WritersApart
  <2> QED
    BY <2>4, <2>5
<1>11. ASSUME NEW r \in Readers, ReaderStep(r)
       PROVE  IntentInv'
  <2>1. /\ UNCHANGED <<slots, intent, published, state>>
        /\ \A d \in Capturers : pc'[d] = pc[d]
    BY <1>1, <1>11
       DEF ReaderStep, ReadState, ScanSlot, ReadStateAgain, fileVars,
           writerVars, Goto
  <2> QED
    BY <2>1, IntentFrame DEF IntentInv, WritersApart, At
<1>12. CASE LockTurnsStale \/ UNCHANGED vars
  <2>1. UNCHANGED <<pc, slots, intent, published, state>>
    BY <1>12 DEF LockTurnsStale, vars, writerVars
  <2> QED
    BY <2>1, IntentFrame DEF IntentInv, WritersApart, At
<1> QED
  BY <1>2, <1>3, <1>4, <1>5, <1>6, <1>7, <1>8, <1>9, <1>10, <1>11, <1>12
     DEF Next, CaptureStep, ResetStep

\* Before the lock, a capture changes no completed intent.
LEMMA CompleteStays ==
  ASSUME TypeOK, IntentInv, NEW c \in Capturers, CaptureStep(c),
         NEW k \in Slots, Complete(k)
  PROVE  slots'[k] = slots[k]
<1>1. /\ slots[k] # Free /\ slots[k].id # NoId /\ slots[k].done # FALSE
      /\ slots \in [Slots -> File \union {Free}]
  BY DEF Complete, Occupied, TypeOK
<1>2. CASE ReserveSlot(c)
  BY <1>1, <1>2 DEF ReserveSlot, Occupied
<1>3. CASE WriteIntent(c) \/ WriteIntentFails(c)
  <2>1. At(c).id = NoId
    <3>1. At(c) = [ino |-> intent[c].ino, id |-> NoId, done |-> FALSE]
      BY <1>3 DEF IntentInv, IntentOK, WriteIntent, WriteIntentFails
    <3> QED
      BY <3>1
  <2>2. intent[c].slot # k
    BY <1>1, <2>1 DEF At
  <2> QED
    BY <1>1, <1>3, <2>2 DEF WriteIntent, WriteIntentFails
<1>4. CASE CancelCapture(c) \/ CompleteIntent(c)
  <2>1. At(c).done = FALSE
    <3>1. At(c) = OwnFile(c, FALSE)
      BY <1>4 DEF IntentInv, IntentOK, CancelCapture, CompleteIntent
    <3> QED
      BY <3>1 DEF OwnFile
  <2>2. intent[c].slot # k
    BY <1>1, <2>1 DEF At
  <2> QED
    BY <1>1, <1>4, <2>2 DEF CancelCapture, CompleteIntent
<1>5. CASE UNCHANGED slots
  BY <1>5
<1> QED
  BY <1>2, <1>3, <1>4, <1>5
     DEF CaptureStep, SkipSlot, CapacityReached, Publish, PublishFails,
         RetryCapture, AbandonCapture, CheckIntent, CompleteIntentFails,
         fileVars

\* Only its owner completes an intent, and only after publication.
LEMMA NewReceipt ==
  ASSUME TypeOK, IntentInv, NEW c \in Capturers, CaptureStep(c),
         NEW k \in Slots, slots'[k] # slots[k], Complete(k)'
  PROVE  slots'[k].id = c /\ c \in published
<1>1. slots \in [Slots -> File \union {Free}]
  BY DEF TypeOK
<1>2. slots'[k] # Free /\ slots'[k].done # FALSE
  BY DEF Complete, Occupied
<1>3. CASE ReserveSlot(c)
  <2>1. PICK i : slots' = [slots EXCEPT ![cursor[c]] =
                             [ino |-> i, id |-> NoId, done |-> FALSE]]
    BY <1>3 DEF ReserveSlot
  <2>2. slots'[k] = [ino |-> i, id |-> NoId, done |-> FALSE]
    BY <1>1, <2>1
  <2> QED
    BY <1>2, <2>2
<1>4. CASE WriteIntent(c)
  <2>1. slots'[k] = OwnFile(c, FALSE)
    BY <1>1, <1>4 DEF WriteIntent
  <2> QED
    BY <1>2, <2>1 DEF OwnFile
<1>5. CASE WriteIntentFails(c) \/ CancelCapture(c)
  BY <1>1, <1>2, <1>5 DEF WriteIntentFails, CancelCapture
<1>6. CASE CompleteIntent(c)
  <2>1. At(c) = OwnFile(c, FALSE) /\ c \in published
    BY <1>6 DEF IntentInv, IntentOK, CompleteIntent, AfterPublication
  <2>2. At(c).id = c
    BY <2>1 DEF OwnFile
  <2>3. k = intent[c].slot /\ slots'[k].id = At(c).id
    BY <1>1, <1>6 DEF CompleteIntent, At
  <2> QED
    BY <2>1, <2>2, <2>3
<1> QED
  BY <1>3, <1>4, <1>5, <1>6
     DEF CaptureStep, SkipSlot, CapacityReached, Publish, PublishFails,
         RetryCapture, AbandonCapture, CheckIntent, CompleteIntentFails,
         fileVars

LEMMA OwnComplete ==
  ASSUME TypeOK, NEW c \in Capturers, At(c) = OwnFile(c, TRUE)
  PROVE  Complete(intent[c].slot) /\ slots[intent[c].slot].id = c
<1>1. OwnFile(c, TRUE) \in File
  BY DEF TypeOK, File, OwnFile
<1>2. At(c) # Free
  BY <1>1, FreeAssumption
<1>3. At(c).id = c /\ At(c).done = TRUE
  BY DEF OwnFile
<1> QED
  BY <1>2, <1>3, ProcsAssumption DEF Complete, Occupied, At

\* A step that leaves d and the completed intents alone preserves ResetOK(d).
LEMMA ResetFrame ==
  ASSUME TypeOK, NEW d \in Capturers, ResetOK(d),
         pc'[d] = pc[d], intent'[d] = intent[d], mem'[d] = mem[d],
         completed'[d] = completed[d], cursor'[d] = cursor[d],
         state.included \subseteq state'.included,
         \A k \in Slots : Complete(k) => slots'[k] = slots[k]
  PROVE  ResetOK(d)'
<1>1. ASSUME NEW k \in Slots, Complete(k)
      PROVE  Complete(k)' /\ slots'[k] = slots[k]
  BY <1>1 DEF Complete, Occupied
<1>2. \A r \in completed[d] : r.slot \in Slots
  BY DEF TypeOK
<1>3. pc[d] = "collect" => At(d)' = At(d) /\ OwnFile(d, TRUE)' = OwnFile(d, TRUE)
  <2>1. OwnFile(d, TRUE)' = OwnFile(d, TRUE)
    BY DEF OwnFile
  <2>2. ASSUME pc[d] = "collect" PROVE At(d)' = At(d)
    <3>1. At(d) = OwnFile(d, TRUE) /\ intent[d].slot \in Slots
      BY <2>2 DEF ResetOK, TypeOK
    <3> QED
      BY <3>1, OwnComplete DEF At
  <2> QED
    BY <2>1, <2>2
<1>4. pc[d] \in {"collect", "commit", "reclaim"} =>
        \A r \in completed[d] : Complete(r.slot)' /\ slots'[r.slot].id = r.id
  BY <1>1, <1>2 DEF ResetOK
<1> QED
  BY <1>3, <1>4 DEF ResetOK

\* What a writer learned in its critical section stays true until it leaves.
LEMMA ResetStepInv ==
  ASSUME TypeOK, LockInv, IntentInv, ResetInv, [Next]_vars
  PROVE  ResetInv'
<1> USE ProcsAssumption DEF Writers, Procs
<1>1. /\ pc \in [Procs -> Labels \union {"read", "scan", "known", "unknown"}]
      /\ slots \in [Slots -> File \union {Free}]
      /\ cursor \in [Procs -> 0 .. NSlots]
      /\ mem \in [Writers -> State]
      /\ completed \in [Capturers -> SUBSET [slot : Slots, id : Capturers]]
  BY DEF TypeOK
<1>2. ASSUME NEW c \in Capturers, CaptureStep(c)
      PROVE  ResetInv'
  <2>1. /\ UNCHANGED <<state, mem, completed>>
        /\ published \subseteq published'
        /\ pc'[c] \in {"reserve", "write", "publish", "cancel", "again", "check",
                       "append", "lock", "refused", "warned"}
        /\ \A q \in Procs \ {c} : pc'[q] = pc[q]
        /\ \A d \in Capturers \ {c} : intent'[d] = intent[d] /\ cursor'[d] = cursor[d]
    BY <1>1, <1>2
       DEF CaptureStep, ReserveSlot, SkipSlot, CapacityReached, WriteIntent,
           WriteIntentFails, Publish, PublishFails, CancelCapture,
           RetryCapture, AbandonCapture, CheckIntent, CompleteIntent,
           CompleteIntentFails, fileVars, writerVars, Goto, TypeOK
  <2>2. \A k \in Slots : Complete(k) => slots'[k] = slots[k]
    BY <1>2, CompleteStays
  <2>3. \A d \in Capturers \ {c} : ResetOK(d)'
    BY <1>1, <2>1, <2>2, ResetFrame DEF ResetInv
  <2>4. ResetOK(c)'
    BY <1>1, <2>1 DEF ResetOK
  <2>5. \A k \in Slots : Complete(k)' => slots'[k].id \in published'
    <3> SUFFICES ASSUME NEW k \in Slots, Complete(k)' PROVE slots'[k].id \in published'
      OBVIOUS
    <3>1. CASE slots'[k] = slots[k]
      BY <2>1, <3>1 DEF Complete, Occupied, ResetInv
    <3>2. CASE slots'[k] # slots[k]
      BY <1>2, <2>1, <3>2, NewReceipt
    <3> QED
      BY <3>1, <3>2
  <2> QED
    BY <1>1, <2>1, <2>3, <2>4, <2>5 DEF ResetInv
<1>3. ASSUME NEW c \in Capturers, ResetStep(c)
      PROVE  ResetInv'
  <2>1. /\ InCritical(c) /\ UNCHANGED <<published, mem, intent>>
        /\ \A q \in Writers \ {c} : pc'[q] = pc[q]
    BY <1>1, <1>3
       DEF ResetStep, CheckOwnReceipt, RewriteState, CollectReceipt,
           CheckEpoch, CommitReset, ReclaimSlot, ReclaimFails, ReclaimDone,
           fileVars, writerVars, InCritical, Goto
  <2>2. \A q \in Writers \ {c} : ~InCritical(q) /\ pc'[q] = pc[q]
    BY <2>1 DEF LockInv
  <2>3. ASSUME state.included \subseteq state'.included,
               state'.included \subseteq published,
               pc'[c] \in {"own", "rewrite", "collect", "commit"} => mem[c] = state',
               ResetOK(c)'
        PROVE  ResetInv'
    <3>1. \A d \in Capturers \ {c} : ResetOK(d)'
      BY <1>1, <2>2, <2>3 DEF ResetInv, ResetOK, InCritical
    <3>2. \A k \in Slots : slots'[k] \in {slots[k], Free}
      BY <1>1, <1>3
         DEF ResetStep, CheckOwnReceipt, RewriteState, CollectReceipt,
             CheckEpoch, CommitReset, ReclaimSlot, ReclaimFails, ReclaimDone,
             fileVars
    <3>3. \A k \in Slots : Complete(k)' => slots'[k].id \in published'
      BY <2>1, <3>2 DEF ResetInv, Complete, Occupied
    <3> QED
      BY <1>1, <2>1, <2>2, <2>3, <3>1, <3>3 DEF ResetInv, InCritical
  <2>4. CASE CheckOwnReceipt(c)
    <3>1. /\ UNCHANGED <<state, slots>> /\ pc[c] = "own" /\ completed'[c] = {}
          /\ cursor'[c] = 0
          /\ pc'[c] = "rewrite" => ~SameFile(c)
          /\ pc'[c] = "collect" => At(c) = OwnFile(c, TRUE)
          /\ pc'[c] \in {"rewrite", "collect", "abort"}
      BY <1>1, <2>4 DEF CheckOwnReceipt, fileVars, Goto, At
    <3>2. ~SameFile(c) => c \in state.included
      <4>1. c \in published
        BY <3>1 DEF IntentInv, IntentOK, AfterPublication
      <4>2. ASSUME c \notin state.included PROVE SameFile(c)
        <5>1. At(c) \in {OwnFile(c, FALSE), OwnFile(c, TRUE)}
          BY <4>1, <4>2 DEF IntentInv, IntentOK
        <5>2. At(c) # Free /\ At(c).ino = intent[c].ino
          <6>1. OwnFile(c, FALSE) \in File /\ OwnFile(c, TRUE) \in File
            BY DEF TypeOK, File, OwnFile
          <6>2. At(c).ino = intent[c].ino
            BY <5>1 DEF OwnFile
          <6> QED
            BY <5>1, <6>1, <6>2, FreeAssumption
        <5> QED
          BY <5>2 DEF SameFile, Occupied, At
      <4> QED
        BY <4>2
    <3>3. intent[c].slot \in Nat
      BY BoundsAssumption DEF TypeOK, Slots
    <3>4. At(c)' = At(c) /\ OwnFile(c, TRUE)' = OwnFile(c, TRUE)
      BY <2>1, <3>1 DEF At, OwnFile
    <3>5. ResetOK(c)'
      <4>1. CASE pc'[c] = "rewrite"
        BY <3>1, <3>2, <4>1 DEF ResetOK
      <4>2. CASE pc'[c] = "collect"
        <5>1. ~(cursor'[c] > intent'[c].slot)
          BY <2>1, <3>1, <3>3
        <5>2. At(c)' = OwnFile(c, TRUE)'
          BY <3>1, <3>4, <4>2
        <5> QED
          BY <3>1, <4>2, <5>1, <5>2 DEF ResetOK
      <4>3. CASE pc'[c] = "abort"
        BY <4>3 DEF ResetOK
      <4> QED
        BY <3>1, <4>1, <4>2, <4>3
    <3> QED
      BY <2>3, <3>1, <3>5 DEF ResetInv
  <2>5. CASE RewriteState(c)
    <3>1. state' = state /\ pc'[c] = "release" /\ c \in state.included
      BY <1>1, <2>5 DEF RewriteState, ResetInv, ResetOK, Goto
    <3> QED
      BY <2>3, <3>1 DEF ResetInv, ResetOK
  <2>6. CASE CollectReceipt(c)
    <3>1. /\ UNCHANGED <<state, slots, pc>> /\ pc[c] = "collect" /\ cursor[c] \in Slots
          /\ cursor'[c] = cursor[c] + 1
          /\ completed'[c] = IF Complete(cursor[c])
               THEN completed[c] \union {[slot |-> cursor[c], id |-> slots[cursor[c]].id]}
               ELSE completed[c]
      BY <1>1, <2>6 DEF CollectReceipt, fileVars
    <3>2. At(c)' = At(c) /\ OwnFile(c, TRUE)' = OwnFile(c, TRUE)
          /\ (\A k : Complete(k)' <=> Complete(k))
      BY <2>1, <3>1 DEF At, OwnFile, Complete, Occupied
    <3>3. \A r \in completed'[c] : Complete(r.slot) /\ slots[r.slot].id = r.id
      <4> SUFFICES ASSUME NEW r \in completed'[c]
                   PROVE  Complete(r.slot) /\ slots[r.slot].id = r.id
        OBVIOUS
      <4>1. CASE r \in completed[c]
        BY <3>1, <4>1 DEF ResetInv, ResetOK
      <4>2. CASE r \notin completed[c]
        <5>1. /\ Complete(cursor[c])
              /\ r = [slot |-> cursor[c], id |-> slots[cursor[c]].id]
          BY <3>1, <4>2
        <5> QED
          BY <5>1
      <4> QED
        BY <4>1, <4>2
    <3>4. At(c) = OwnFile(c, TRUE)
      BY <3>1 DEF ResetInv, ResetOK
    <3>5. cursor[c] = intent[c].slot => \E r \in completed'[c] : r.id = c
      <4> SUFFICES ASSUME cursor[c] = intent[c].slot
                   PROVE  \E r \in completed'[c] : r.id = c
        OBVIOUS
      <4>1. Complete(cursor[c]) /\ slots[cursor[c]].id = c
        BY <3>4, OwnComplete
      <4>2. [slot |-> cursor[c], id |-> slots[cursor[c]].id] \in completed'[c]
        BY <3>1, <4>1
      <4> QED
        BY <4>1, <4>2
    <3>6. cursor[c] > intent[c].slot => \E r \in completed'[c] : r.id = c
      <4>1. completed[c] \subseteq completed'[c]
        BY <3>1
      <4> QED
        BY <3>1, <4>1 DEF ResetInv, ResetOK
    <3>7. cursor[c] \in Nat /\ intent[c].slot \in Nat
      BY <3>1, BoundsAssumption DEF TypeOK, Slots
    <3>8. cursor'[c] > intent'[c].slot => \E r \in completed'[c] : r.id = c
      BY <2>1, <3>1, <3>5, <3>6, <3>7
    <3>9. \A r \in completed'[c] : Complete(r.slot)' /\ slots'[r.slot].id = r.id
      BY <3>1, <3>2, <3>3
    <3>10. ResetOK(c)'
      BY <3>1, <3>2, <3>4, <3>8, <3>9 DEF ResetOK
    <3> QED
      BY <2>3, <3>1, <3>10 DEF ResetInv
  <2>7. CASE CheckEpoch(c)
    <3>1. /\ UNCHANGED <<state, slots, completed, cursor>> /\ pc[c] = "collect"
          /\ cursor[c] = NSlots
          /\ pc'[c] \in {"abort", "commit"}
          /\ pc'[c] = "commit" => mem[c].epoch # MaxEpoch
      BY <1>1, <2>7 DEF CheckEpoch, fileVars, writerVars, Goto
    <3>2. intent[c].slot < NSlots /\ mem[c].epoch \in 0 .. MaxEpoch
      BY BoundsAssumption DEF TypeOK, Slots, State
    <3>3. \E r \in completed[c] : r.id = c
      BY <3>1, <3>2 DEF ResetInv, ResetOK
    <3>4. \A k : Complete(k)' <=> Complete(k)
      BY <3>1 DEF Complete, Occupied
    <3>5. \A r \in completed'[c] : Complete(r.slot)' /\ slots'[r.slot].id = r.id
      BY <3>1, <3>4 DEF ResetInv, ResetOK
    <3>6. pc'[c] = "commit" => mem'[c].epoch < MaxEpoch
      BY <2>1, <3>1, <3>2, BoundsAssumption
    <3>7. ResetOK(c)'
      BY <3>1, <3>3, <3>5, <3>6 DEF ResetOK
    <3> QED
      BY <2>3, <3>1, <3>7 DEF ResetInv
  <2>8. CASE CommitReset(c)
    <3>1. /\ UNCHANGED <<slots, completed>> /\ pc[c] = "commit" /\ pc'[c] = "reclaim"
          /\ mem[c] = state
          /\ state'.included = state.included \union {r.id : r \in completed[c]}
      BY <1>1, <2>8 DEF CommitReset, ResetInv, Goto
    <3>2. \A k : Complete(k)' <=> Complete(k)
      BY <3>1 DEF Complete, Occupied
    <3>3. \A r \in completed[c] : r.id \in published
      <4> SUFFICES ASSUME NEW r \in completed[c] PROVE r.id \in published
        OBVIOUS
      <4>1. Complete(r.slot) /\ slots[r.slot].id = r.id
        BY <3>1 DEF ResetInv, ResetOK
      <4> QED
        BY <1>1, <4>1 DEF ResetInv
    <3>4. ResetOK(c)'
      BY <3>1, <3>2 DEF ResetInv, ResetOK
    <3> QED
      BY <2>3, <3>1, <3>3, <3>4 DEF ResetInv
  <2>9. CASE ReclaimSlot(c)
    <3>1. PICK r \in completed[c] :
            /\ slots' = [slots EXCEPT ![r.slot] = Free]
            /\ completed' = [completed EXCEPT ![c] = @ \ {r}]
      BY <2>9 DEF ReclaimSlot
    <3>2. UNCHANGED <<state, pc>> /\ pc[c] = "reclaim"
      BY <2>9 DEF ReclaimSlot
    <3>3. ASSUME NEW q \in completed'[c]
          PROVE  q \in completed[c] /\ q.slot # r.slot /\ q.slot \in Slots
      <4>1. q \in completed[c] /\ q # r
        BY <1>1, <3>1
      <4>2. slots[q.slot].id = q.id /\ slots[r.slot].id = r.id
        BY <3>2, <4>1 DEF ResetInv, ResetOK
      <4>3. q \in [slot : Slots, id : Capturers] /\ r \in [slot : Slots, id : Capturers]
        BY <1>1, <4>1
      <4> QED
        BY <4>1, <4>2, <4>3
    <3>4. ASSUME NEW q \in completed'[c]
          PROVE  Complete(q.slot)' /\ slots'[q.slot].id = q.id
      <4>1. Complete(q.slot) /\ slots[q.slot].id = q.id
        BY <3>2, <3>3 DEF ResetInv, ResetOK
      <4>2. slots'[q.slot] = slots[q.slot]
        BY <1>1, <3>1, <3>3
      <4> QED
        BY <4>1, <4>2 DEF Complete, Occupied
    <3>5. ResetOK(c)'
      BY <3>2, <3>3, <3>4 DEF ResetInv, ResetOK
    <3> QED
      BY <2>3, <3>2, <3>5 DEF ResetInv
  <2>10. CASE ReclaimFails(c) \/ ReclaimDone(c)
    <3>1. UNCHANGED state /\ pc[c] = "reclaim" /\ pc'[c] \in {"abort", "release"}
      BY <1>1, <2>10 DEF ReclaimFails, ReclaimDone, fileVars, Goto
    <3> QED
      BY <2>3, <3>1 DEF ResetInv, ResetOK
  <2> QED
    BY <1>3, <2>4, <2>5, <2>6, <2>7, <2>8, <2>9, <2>10 DEF ResetStep
<1>4. ASSUME NEW p \in Writers, UpdateStep(p) \/ Crash(p)
      PROVE  ResetInv'
  <2>1. /\ UNCHANGED <<slots, published, completed, intent, cursor>>
        /\ \E l \in {"lock", "break", "load", "own", "commit", "release", "abort",
                     "ok", "warned", "failed", "crashed"} :
             /\ pc' = [pc EXCEPT ![p] = l]
             /\ l = "commit" => p \notin Capturers
             /\ l = "ok" => pc[p] = "release"
             /\ l = "release" => p \notin Capturers
             /\ l \in {"own", "commit"} => mem'[p] = state
        /\ mem' = [mem EXCEPT ![p] = mem'[p]]
        /\ \/ state' = state
           \/ /\ CommitSession(p) /\ InCritical(p) /\ pc'[p] = "release"
              /\ state'.included = mem[p].included /\ mem[p] = state
    BY <1>1, <1>4
       DEF UpdateStep, AcquireLock, GiveUp, SeeStaleLock, BreakLock, LoadState,
           UpdateFails, ReleaseLock, CommitSession, Crash, Failure, Goto,
           fileVars, writerVars, ResetInv, InCritical
  <2>2. state'.included = state.included
    BY <2>1
  <2>3. \A d \in Capturers \ {p} : ResetOK(d)'
    BY <1>1, <2>1, <2>2, ResetFrame DEF ResetInv
  <2>4. p \in Capturers => ResetOK(p)'
    BY <1>1, <2>1, <2>2 DEF ResetInv, ResetOK
  <2>5. ASSUME NEW q \in Writers,
               pc'[q] \in {"own", "rewrite", "collect", "commit"}
        PROVE  mem'[q] = state'
    <3>1. CASE state' = state
      BY <1>1, <2>1, <2>5, <3>1 DEF ResetInv
    <3>2. CASE state' # state
      BY <1>1, <2>1, <2>5, <3>2 DEF LockInv, InCritical
    <3> QED
      BY <3>1, <3>2
  <2> QED
    BY <2>1, <2>2, <2>3, <2>4, <2>5 DEF ResetInv, Complete, Occupied
<1>5. ASSUME \/ \E r \in Readers : ReaderStep(r)
             \/ LockTurnsStale
             \/ UNCHANGED vars
      PROVE  ResetInv'
  <2>1. /\ UNCHANGED <<slots, state, published, mem, completed, intent>>
        /\ \A p \in Writers : pc'[p] = pc[p] /\ cursor'[p] = cursor[p]
    BY <1>1, <1>5
       DEF ReaderStep, ReadState, ScanSlot, ReadStateAgain, LockTurnsStale,
           vars, fileVars, writerVars, Goto
  <2> QED
    BY <2>1, ResetFrame DEF ResetInv, Complete, Occupied
<1> QED
  BY <1>2, <1>3, <1>4, <1>5 DEF Next

\* A session start is counted when it is committed, once.
LEMMA CountStep ==
  ASSUME TypeOK, ResetInv, CountInv, [Next]_vars
  PROVE  CountInv'
<1> USE ProcsAssumption DEF Writers, Procs
<1>1. /\ pc \in [Procs -> Labels \union {"read", "scan", "known", "unknown"}]
      /\ since \in SUBSET Recorders
      /\ mem \in [Writers -> State]
  BY DEF TypeOK
<1>2. ASSUME UNCHANGED since, state'.invocations = state.invocations,
             \A p \in Recorders : p \in since /\ pc[p] \in {"release", "ok", "crashed"}
                                  => pc'[p] \in {"release", "ok", "crashed"}
      PROVE  CountInv'
  BY <1>2 DEF CountInv, NoLostUpdate
<1>3. ASSUME NEW c \in Capturers, CaptureStep(c)
      PROVE  CountInv'
  <2>1. UNCHANGED <<since, state>> /\ \A p \in Recorders : pc'[p] = pc[p]
    BY <1>1, <1>3
       DEF CaptureStep, ReserveSlot, SkipSlot, CapacityReached, WriteIntent,
           WriteIntentFails, Publish, PublishFails, CancelCapture,
           RetryCapture, AbandonCapture, CheckIntent, CompleteIntent,
           CompleteIntentFails, fileVars, writerVars, Goto
  <2> QED
    BY <1>2, <2>1
<1>4. ASSUME NEW c \in Capturers, ResetStep(c), ~CommitReset(c)
      PROVE  CountInv'
  <2>1. UNCHANGED <<since, state>> /\ \A p \in Recorders : pc'[p] = pc[p]
    BY <1>1, <1>4
       DEF ResetStep, CheckOwnReceipt, RewriteState, CollectReceipt,
           CheckEpoch, ReclaimSlot, ReclaimFails, ReclaimDone, fileVars,
           writerVars, Goto, ResetInv
  <2> QED
    BY <1>2, <2>1
<1>5. ASSUME NEW c \in Capturers, CommitReset(c)
      PROVE  CountInv'
  <2>1. since' = {} /\ state'.invocations = 0
    BY <1>5 DEF CommitReset
  <2> QED
    BY <2>1, FS_EmptySet DEF CountInv, NoLostUpdate
<1>6. ASSUME NEW p \in Writers, UpdateStep(p) \/ Crash(p), ~CommitSession(p)
      PROVE  CountInv'
  <2>1. UNCHANGED <<since, state>>
    BY <1>6
       DEF UpdateStep, AcquireLock, GiveUp, SeeStaleLock, BreakLock, LoadState,
           UpdateFails, ReleaseLock, Crash, fileVars, writerVars
  <2>2. \A q \in Recorders : pc[q] \in {"release", "ok", "crashed"} =>
                             pc'[q] \in {"release", "ok", "crashed"}
    BY <1>1, <1>6
       DEF UpdateStep, AcquireLock, GiveUp, SeeStaleLock, BreakLock, LoadState,
           UpdateFails, ReleaseLock, Crash, Goto, Failure
  <2> QED
    BY <1>2, <2>1, <2>2
<1>7. ASSUME NEW p \in Writers, CommitSession(p)
      PROVE  CountInv'
  <2>1. /\ p \in Recorders /\ since' = since \union {p} /\ mem[p] = state
        /\ state'.invocations = state.invocations + 1
        /\ pc' = [pc EXCEPT ![p] = "release"] /\ pc[p] = "commit"
    BY <1>7 DEF CommitSession, ResetInv, Goto
  <2>2. p \notin since
    BY <2>1 DEF CountInv
  <2>3. IsFiniteSet(since') /\ Cardinality(since') = Cardinality(since) + 1
    BY <2>1, <2>2, FS_AddElement DEF CountInv
  <2> QED
    BY <1>1, <2>1, <2>3 DEF CountInv, NoLostUpdate
<1>8. ASSUME \/ \E r \in Readers : ReaderStep(r)
             \/ LockTurnsStale
             \/ UNCHANGED vars
      PROVE  CountInv'
  <2>1. UNCHANGED <<since, state>> /\ \A p \in Recorders : pc'[p] = pc[p]
    BY <1>1, <1>8
       DEF ReaderStep, ReadState, ScanSlot, ReadStateAgain, LockTurnsStale,
           vars, fileVars, writerVars, Goto
  <2> QED
    BY <1>2, <2>1
<1> QED
  BY <1>3, <1>4, <1>5, <1>6, <1>7, <1>8 DEF Next, ResetStep

\* Captures stay published, intents of published captures stay put, the epoch
\* never goes back, and as long as it stays so does the set of receipts.
LEMMA StateMoves ==
  ASSUME TypeOK, IntentInv, ResetInv, [Next]_vars
  PROVE  /\ published \subseteq published'
         /\ \A c \in published : intent'[c] = intent[c]
         /\ state.epoch <= state'.epoch
         /\ state'.epoch = state.epoch => state'.included = state.included
<1> USE ProcsAssumption DEF Writers, Procs
<1>1. /\ state \in State
      /\ state.epoch \in Nat
      /\ intent \in [Capturers -> [slot : Slots, ino : Inodes \union {NoId}]]
  BY BoundsAssumption DEF TypeOK, State
<1>2. ASSUME NEW c \in Capturers, CaptureStep(c)
      PROVE  /\ published \subseteq published' /\ state' = state
             /\ \A d \in published : intent'[d] = intent[d]
  <2>1. pc[c] = "reserve" => c \notin published
    BY DEF IntentInv, IntentOK, BeforePublication
  <2> QED
    BY <1>1, <1>2, <2>1
       DEF CaptureStep, ReserveSlot, SkipSlot, CapacityReached, WriteIntent,
           WriteIntentFails, Publish, PublishFails, CancelCapture,
           RetryCapture, AbandonCapture, CheckIntent, CompleteIntent,
           CompleteIntentFails, fileVars, writerVars, TypeOK
<1>3. ASSUME NEW c \in Capturers, ResetStep(c), ~CommitReset(c)
      PROVE  UNCHANGED <<published, intent, state>>
  BY <1>3
     DEF ResetStep, CheckOwnReceipt, RewriteState, CollectReceipt,
         CheckEpoch, ReclaimSlot, ReclaimFails, ReclaimDone, fileVars,
         writerVars, ResetInv
<1>4. ASSUME NEW c \in Capturers, CommitReset(c)
      PROVE  UNCHANGED <<published, intent>> /\ state'.epoch = state.epoch + 1
  <2>1. mem[c] = state /\ state.epoch < MaxEpoch
    BY <1>4 DEF CommitReset, ResetInv, ResetOK
  <2>2. NextEpoch(state.epoch) = state.epoch + 1
    BY <1>1, <2>1, BoundsAssumption DEF NextEpoch
  <2> QED
    BY <1>4, <2>1, <2>2 DEF CommitReset
<1>5. ASSUME NEW p \in Writers, UpdateStep(p) \/ Crash(p)
      PROVE  /\ UNCHANGED <<published, intent>>
             /\ state'.epoch = state.epoch /\ state'.included = state.included
  BY <1>5
     DEF UpdateStep, AcquireLock, GiveUp, SeeStaleLock, BreakLock, LoadState,
         UpdateFails, ReleaseLock, CommitSession, Crash, fileVars, writerVars,
         ResetInv
<1>6. ASSUME \/ \E r \in Readers : ReaderStep(r)
             \/ LockTurnsStale
             \/ UNCHANGED vars
      PROVE  UNCHANGED <<published, intent, state>>
  BY <1>6
     DEF ReaderStep, ReadState, ScanSlot, ReadStateAgain, LockTurnsStale,
         vars, fileVars, writerVars
<1> QED
  BY <1>1, <1>2, <1>3, <1>4, <1>5, <1>6 DEF Next, ResetStep

\* Steps of other processes leave what a reader is bound to notice noticeable.
LEMMA ReaderFrame ==
  ASSUME TypeOK, IntentInv, ResetInv, ReaderInv, [Next]_vars,
         TypeOK', NEW r \in Readers,
         pc'[r] = pc[r], cursor'[r] = cursor[r],
         seen'[r] = seen[r], before'[r] = before[r]
  PROVE  ReaderOK(r)'
<1>1. /\ state.epoch \in Nat /\ state'.epoch \in Nat /\ seen[r].epoch \in Nat
  BY BoundsAssumption DEF TypeOK, State
<1>2. ReaderOK(r)
  BY DEF ReaderInv
<1>3. CASE pc[r] = "scan"
  <2>1. before[r] \subseteq published' /\ seen[r].epoch <= state'.epoch
    BY <1>1, <1>2, <1>3, StateMoves DEF ReaderOK
  <2>2. ASSUME seen[r].epoch = state'.epoch
        PROVE  /\ seen[r].included = state'.included
               /\ \A c \in before[r] \ seen[r].included : intent'[c].slot >= cursor[r]
    <3>1. seen[r].epoch = state.epoch /\ state'.included = state.included
      BY <1>1, <1>2, <1>3, <2>2, StateMoves DEF ReaderOK
    <3> QED
      BY <1>2, <1>3, <3>1, StateMoves DEF ReaderOK
  <2> QED
    BY <1>3, <2>1, <2>2 DEF ReaderOK
<1>4. CASE pc[r] # "scan"
  BY <1>2, <1>4, StateMoves DEF ReaderOK
<1> QED
  BY <1>3, <1>4

\* A reader's own steps, and everybody else's.
LEMMA ReaderStepInv ==
  ASSUME TypeOK, IntentInv, ResetInv, ReaderInv, [Next]_vars, TypeOK'
  PROVE  ReaderInv'
<1> USE ProcsAssumption DEF Writers, Procs
<1>1. /\ pc \in [Procs -> Labels \union {"read", "scan", "known", "unknown"}]
      /\ cursor \in [Procs -> 0 .. NSlots]
      /\ seen \in [Readers -> State]
      /\ before \in [Readers -> SUBSET Capturers]
  BY DEF TypeOK
<1>2. SUFFICES ASSUME NEW r \in Readers PROVE ReaderOK(r)'
  BY DEF ReaderInv
<1>3. ReaderOK(r)
  BY DEF ReaderInv
<1>4. CASE ReadState(r)
  <2>1. /\ pc[r] = "read" /\ pc'[r] = "scan" /\ seen'[r] = state
        /\ before'[r] = published /\ UNCHANGED <<cursor, state, published, intent>>
    BY <1>1, <1>4 DEF ReadState, fileVars, writerVars, Goto
  <2>2. cursor[r] = 0 /\ \A c \in Capturers : intent[c].slot \in Nat
    BY <1>3, <2>1, BoundsAssumption DEF ReaderOK, TypeOK, Slots
  <2>3. state.epoch \in Nat /\ published \subseteq Capturers
    BY BoundsAssumption DEF TypeOK, State
  <2> QED
    BY <2>1, <2>2, <2>3 DEF ReaderOK
<1>5. CASE ScanSlot(r)
  <2>1. /\ pc[r] = "scan" /\ cursor[r] \in Slots
        /\ UNCHANGED <<slots, state, published, intent, seen, before>>
        /\ \/ pc'[r] = "unknown"
           \/ /\ ~Occupied(cursor[r]) /\ cursor'[r] = cursor[r] + 1
              /\ pc'[r] = "scan"
    BY <1>1, <1>5 DEF ScanSlot, fileVars, writerVars, readerVars, Goto
  <2>2. CASE pc'[r] = "unknown"
    BY <1>3, <2>1, <2>2 DEF ReaderOK
  <2>3. CASE pc'[r] # "unknown"
    <3>1. ASSUME NEW c \in before[r] \ seen[r].included, seen[r].epoch = state.epoch
          PROVE  intent[c].slot >= cursor[r] + 1
      <4>1. /\ c \in Capturers /\ c \in published /\ c \notin state.included
            /\ intent[c].slot >= cursor[r]
        BY <1>1, <1>3, <2>1, <3>1 DEF ReaderOK
      <4>2. IntentOK(c) /\ Needs(c)
        BY <4>1 DEF IntentInv, Needs
      <4>3. At(c) # Free
        BY <4>1, <4>2, NeededFile
      <4>4. intent[c].slot # cursor[r]
        BY <2>1, <2>3, <4>3 DEF At, Occupied
      <4>5. intent[c].slot \in Nat /\ cursor[r] \in Nat
        BY <2>1, <4>1, BoundsAssumption DEF TypeOK, Slots
      <4> QED
        BY <4>1, <4>4, <4>5
    <3> QED
      BY <1>3, <2>1, <2>3, <3>1 DEF ReaderOK
  <2> QED
    BY <2>2, <2>3
<1>6. CASE ReadStateAgain(r)
  <2>1. /\ pc[r] = "scan" /\ cursor[r] = NSlots
        /\ pc'[r] \in {"known", "unknown"}
        /\ pc'[r] = "known" => seen[r].epoch = state.epoch
        /\ UNCHANGED <<published, seen, before>>
    BY <1>1, <1>6
       DEF ReadStateAgain, fileVars, writerVars, readerVars, Goto, Bytes
  <2>2. ASSUME pc'[r] = "known" PROVE before[r] \subseteq seen[r].included
    <3>1. \A c \in before[r] \ seen[r].included : intent[c].slot >= NSlots
      BY <1>3, <2>1, <2>2 DEF ReaderOK
    <3>2. \A c \in Capturers : intent[c].slot < NSlots /\ intent[c].slot \in Nat
      BY BoundsAssumption DEF TypeOK, Slots
    <3> QED
      BY <1>1, <3>1, <3>2, BoundsAssumption
  <2> QED
    BY <1>3, <2>1, <2>2 DEF ReaderOK
<1>7. CASE ~ReaderStep(r)
  <2>1. /\ pc'[r] = pc[r] /\ cursor'[r] = cursor[r]
        /\ seen'[r] = seen[r] /\ before'[r] = before[r]
    <3>1. ASSUME NEW c \in Capturers, CaptureStep(c)
          PROVE  /\ pc'[r] = pc[r] /\ cursor'[r] = cursor[r]
                 /\ UNCHANGED <<seen, before>>
      BY <1>1, <3>1
         DEF CaptureStep, ReserveSlot, SkipSlot, CapacityReached, WriteIntent,
             WriteIntentFails, Publish, PublishFails, CancelCapture,
             RetryCapture, AbandonCapture, CheckIntent, CompleteIntent,
             CompleteIntentFails, readerVars, Goto
    <3>2. ASSUME NEW c \in Capturers, ResetStep(c)
          PROVE  /\ pc'[r] = pc[r] /\ cursor'[r] = cursor[r]
                 /\ UNCHANGED <<seen, before>>
      BY <1>1, <3>2
         DEF ResetStep, CheckOwnReceipt, RewriteState, CollectReceipt,
             CheckEpoch, CommitReset, ReclaimSlot, ReclaimFails, ReclaimDone,
             readerVars, Goto
    <3>3. ASSUME NEW p \in Writers, UpdateStep(p) \/ Crash(p)
          PROVE  /\ pc'[r] = pc[r] /\ cursor'[r] = cursor[r]
                 /\ UNCHANGED <<seen, before>>
      BY <1>1, <3>3
         DEF UpdateStep, AcquireLock, GiveUp, SeeStaleLock, BreakLock,
             LoadState, UpdateFails, ReleaseLock, CommitSession, Crash,
             readerVars, Goto
    <3>4. ASSUME NEW q \in Readers \ {r}, ReaderStep(q)
          PROVE  /\ pc'[r] = pc[r] /\ cursor'[r] = cursor[r]
                 /\ seen'[r] = seen[r] /\ before'[r] = before[r]
      BY <1>1, <3>4
         DEF ReaderStep, ReadState, ScanSlot, ReadStateAgain, readerVars, Goto
    <3>5. CASE LockTurnsStale \/ UNCHANGED vars
      BY <3>5 DEF LockTurnsStale, vars, readerVars
    <3> QED
      BY <1>7, <3>1, <3>2, <3>3, <3>4, <3>5 DEF Next
  <2> QED
    BY <2>1, ReaderFrame
<1> QED
  BY <1>4, <1>5, <1>6, <1>7 DEF ReaderStep

LEMMA InitInv == Init => IInv
<1> SUFFICES ASSUME Init PROVE IInv
  OBVIOUS
<1> USE ProcsAssumption, BoundsAssumption DEF Writers, Procs
<1>1. TypeOK
  <2>1. 0 \in Slots /\ 0 \in 0 .. NSlots /\ 0 \in 0 .. MaxEpoch /\ 1 \in 1 .. MaxAttempts
    BY DEF Slots
  <2>2. state \in State
    BY <2>1 DEF Init, State
  <2>3. pc \in [Procs -> Labels \union {"read", "scan", "known", "unknown"}]
    BY DEF Init, Labels
  <2> QED
    BY <2>1, <2>2, <2>3 DEF Init, TypeOK, File
<1>2. /\ \A c \in Capturers : pc[c] = "reserve"
      /\ \A p \in Recorders : pc[p] = "lock"
      /\ \A r \in Readers : pc[r] = "read" /\ cursor[r] = 0 /\ before[r] = {}
  BY DEF Init
<1>3. LockInv
  BY <1>2 DEF Init, LockInv, InCritical, OneWaiter
<1>4. IntentInv
  BY <1>2 DEF Init, IntentInv, WritersApart, IntentOK, BeforePublication,
              AfterPublication
<1>5. ResetInv
  <2>1. \A k \in Slots : ~Complete(k)
    BY DEF Init, Complete, Occupied
  <2> QED
    BY <1>2, <2>1 DEF Init, ResetInv, ResetOK
<1>6. CountInv
  <2>1. Cardinality({}) = 0 /\ IsFiniteSet({})
    BY FS_EmptySet
  <2> QED
    BY <1>2, <2>1 DEF Init, CountInv, NoLostUpdate
<1>7. ReaderInv
  BY <1>2 DEF ReaderInv, ReaderOK
<1> QED
  BY <1>1, <1>3, <1>4, <1>5, <1>6, <1>7 DEF IInv

LEMMA StepInv ==
  ASSUME IInv, OneWaiter', [Next]_vars
  PROVE  IInv'
<1>1. TypeOK'
  BY TypeStep DEF IInv
<1> QED
  BY <1>1, LockStep, IntentStep, ResetStepInv, CountStep, ReaderStepInv DEF IInv

LEMMA Invariance == ApartSpec => []IInv
<1>1. IInv /\ [Next /\ OneWaiter']_vars => IInv'
  <2>1. IInv /\ UNCHANGED vars => OneWaiter'
    BY DEF IInv, LockInv, OneWaiter, vars
  <2> QED
    BY <2>1, StepInv
<1> QED
  BY <1>1, InitInv, PTL DEF ApartSpec

\* ApartSpec is the specification under one condition: no state has two waiters
\* between the Lstat and the Remove of a stale lock (state.go:112).
THEOREM ApartIsOneWaiter == ApartSpec <=> Spec /\ []OneWaiter
<1>1. Init => OneWaiter
  BY InitInv DEF IInv, LockInv
<1>2. OneWaiter /\ [Next /\ OneWaiter']_vars => OneWaiter'
  BY DEF OneWaiter, vars
<1>3. [Next]_vars /\ OneWaiter' => [Next /\ OneWaiter']_vars
  OBVIOUS
<1>4. [Next /\ OneWaiter']_vars => [Next]_vars
  OBVIOUS
<1> QED
  BY <1>1, <1>2, <1>3, <1>4, PTL DEF ApartSpec, Spec

\* Type correctness, in every behaviour.
THEOREM TypeCorrect == Spec => []TypeOK
<1>1. Init => TypeOK
  BY InitInv DEF IInv
<1> QED
  BY <1>1, TypeStep, PTL DEF Spec

\* updateState is a critical section while stale locks have one waiter at a time
\* (ApartSpec); without that it is not.
THEOREM MutualExclusion == ApartSpec => []Serialized
<1>1. IInv => Serialized
  BY DEF IInv, LockInv, Serialized
<1> QED
  BY <1>1, Invariance, PTL

\* While stale locks have one waiter at a time, an accepted capture is included
\* in the state or still holds its slot, for any number of captures, slots,
\* crashes and failed removals.
THEOREM AcceptedIsHeld == ApartSpec => []PublishedHeld
<1>1. IInv => PublishedHeld
  <2> SUFFICES ASSUME IInv, NEW c \in published
               PROVE  \/ c \in state.included
                      \/ At(c) \in {OwnFile(c, FALSE), OwnFile(c, TRUE)}
    BY DEF PublishedHeld, At
  <2> QED
    BY DEF IInv, TypeOK, IntentInv, IntentOK
<1> QED
  BY <1>1, Invariance, PTL

\* While stale locks have one waiter at a time, nobody but its owner touches a
\* pending intent.
THEOREM PendingIsKept == ApartSpec => []PendingKept
<1>1. IInv => PendingKept
  BY DEF IInv, IntentInv, IntentOK, PendingKept, At
<1> QED
  BY <1>1, Invariance, PTL

\* While stale locks have one waiter at a time, a reader without the lock reports
\* no count that misses a capture accepted before it began.
THEOREM KnownCountIsComplete == ApartSpec => []KnownIsComplete
<1>1. IInv => KnownIsComplete
  BY DEF IInv, ReaderInv, ReaderOK, KnownIsComplete
<1> QED
  BY <1>1, Invariance, PTL

\* While stale locks have one waiter at a time, the session counter equals the
\* session starts since the last reset.
THEOREM CountIsExact == ApartSpec => []NoLostUpdate
<1>1. IInv => NoLostUpdate
  BY DEF IInv, CountInv
<1> QED
  BY <1>1, Invariance, PTL

\* While stale locks have one waiter at a time, a capture that returns without a
\* warning has been accounted for.
THEOREM CleanReturn == ApartSpec => []CleanReturnIsIncluded
<1>1. IInv => CleanReturnIsIncluded
  BY DEF IInv, ResetInv, ResetOK, CleanReturnIsIncluded
<1> QED
  BY <1>1, Invariance, PTL

\* While stale locks have one waiter at a time, receipts are included only by
\* commits that move the epoch.
THEOREM InclusionIsVisible == ApartSpec => InclusionMovesEpoch
<1>1. ASSUME IInv, IInv', [Next]_vars
      PROVE  [state'.included # state.included => state'.epoch > state.epoch]_vars
  <2>1. state.epoch \in Nat /\ state'.epoch \in Nat
    BY <1>1, BoundsAssumption DEF IInv, TypeOK, State
  <2> QED
    BY <1>1, <2>1, StateMoves DEF IInv
<1> QED
  BY <1>1, Invariance, PTL DEF ApartSpec, InclusionMovesEpoch

-----------------------------------------------------------------------------
(* The refinement.                                                         *)

\* What a reader has been told, as the promise sees it.
Told(r) ==
    [answer |-> CASE pc[r] = "read"  -> "none"
                  [] pc[r] = "scan"  -> "pending"
                  [] OTHER           -> pc[r],
     view   |-> [before   |-> before[r],
                 included |-> seen[r].included,
                 silent   |-> seen[r].invocations]]
Asked == [r \in Readers |-> Told(r)]

\* The steps of writers leave the readers where they are.
LEMMA WritersLeaveReaders ==
  ASSUME TypeOK, [Next]_vars, ~(\E r \in Readers : ReaderStep(r))
  PROVE  Asked' = Asked
<1> USE ProcsAssumption DEF Writers, Procs
<1>1. pc \in [Procs -> Labels \union {"read", "scan", "known", "unknown"}]
  BY DEF TypeOK
<1>2. SUFFICES /\ \A r \in Readers : pc'[r] = pc[r]
               /\ UNCHANGED <<seen, before>>
  BY DEF Asked, Told
<1>3. ASSUME NEW c \in Capturers, CaptureStep(c)
      PROVE  /\ \A r \in Readers : pc'[r] = pc[r]
             /\ UNCHANGED <<seen, before>>
  BY <1>1, <1>3
     DEF CaptureStep, ReserveSlot, SkipSlot, CapacityReached, WriteIntent,
         WriteIntentFails, Publish, PublishFails, CancelCapture,
         RetryCapture, AbandonCapture, CheckIntent, CompleteIntent,
         CompleteIntentFails, readerVars, Goto
<1>4. ASSUME NEW c \in Capturers, ResetStep(c)
      PROVE  /\ \A r \in Readers : pc'[r] = pc[r]
             /\ UNCHANGED <<seen, before>>
  BY <1>1, <1>4
     DEF ResetStep, CheckOwnReceipt, RewriteState, CollectReceipt,
         CheckEpoch, CommitReset, ReclaimSlot, ReclaimFails, ReclaimDone,
         readerVars, Goto
<1>5. ASSUME NEW p \in Writers, UpdateStep(p) \/ Crash(p)
      PROVE  /\ \A r \in Readers : pc'[r] = pc[r]
             /\ UNCHANGED <<seen, before>>
  BY <1>1, <1>5
     DEF UpdateStep, AcquireLock, GiveUp, SeeStaleLock, BreakLock,
         LoadState, UpdateFails, ReleaseLock, CommitSession, Crash,
         readerVars, Goto
<1>6. ASSUME LockTurnsStale \/ UNCHANGED vars
      PROVE  /\ \A r \in Readers : pc'[r] = pc[r]
             /\ UNCHANGED <<seen, before>>
  BY <1>6 DEF LockTurnsStale, vars, readerVars
<1> QED
  BY <1>3, <1>4, <1>5, <1>6 DEF Next

LEMMA PromiseInitially == Init => Promise!PromiseInit
<1> SUFFICES ASSUME Init PROVE Promise!PromiseInit
  OBVIOUS
<1>1. /\ published = {} /\ state.included = {} /\ state.invocations = 0
      /\ \A r \in Readers : /\ pc[r] = "read" /\ before[r] = {}
                            /\ seen[r].included = {}
                            /\ seen[r].invocations = 0
  BY ProcsAssumption DEF Init, Writers, Procs
<1> QED
  BY <1>1 DEF Promise!PromiseInit, Promise!NoView

\* A writer's step accepts, reconciles, counts, or is not seen at all.
LEMMA WriterKeepsPromise ==
  ASSUME IInv, [Next]_vars, ~(\E r \in Readers : ReaderStep(r))
  PROVE  \/ Promise!PromiseNext
         \/ UNCHANGED Promise!promiseVars
<1> USE ProcsAssumption DEF Writers, Procs
<1>1. Asked' = Asked
  BY WritersLeaveReaders DEF IInv
<1>2. ASSUME UNCHANGED <<published, state>>
      PROVE  UNCHANGED Promise!promiseVars
  BY <1>1, <1>2 DEF Promise!promiseVars, Asked, Told
<1>3. ASSUME NEW c \in Capturers, Publish(c)
      PROVE  Promise!PromiseNext
  <2>1. c \notin published
    BY <1>3 DEF Publish, IInv, IntentInv, IntentOK, BeforePublication
  <2>2. published' = published \union {c} /\ state' = state
    BY <1>3 DEF Publish
  <2>3. Promise!Accept(c)
    BY <1>1, <2>1, <2>2 DEF Promise!Accept, Asked, Told
  <2> QED
    BY <2>3 DEF Promise!PromiseNext
<1>4. ASSUME NEW c \in Capturers, CommitReset(c)
      PROVE  Promise!PromiseNext
  <2> DEFINE S == {r.id : r \in completed[c]}
  <2>1. /\ \A r \in completed[c] : r.slot \in Slots /\ Complete(r.slot)
                                   /\ slots[r.slot].id = r.id
        /\ \E r \in completed[c] : r.id = c
    <3>1. \A r \in completed[c] : r.slot \in Slots
      BY DEF IInv, TypeOK
    <3>2. pc[c] = "commit" /\ ResetOK(c)
      BY <1>4 DEF CommitReset, IInv, ResetInv
    <3> QED
      BY <3>1, <3>2 DEF ResetOK
  <2>2. S \subseteq published /\ S # {}
    BY <2>1 DEF IInv, ResetInv
  <2>3. mem[c] = state
    BY <1>4 DEF CommitReset, IInv, ResetInv
  <2>4. /\ state'.included = state.included \union S
        /\ state'.invocations = 0
        /\ published' = published
    BY <1>4, <2>3 DEF CommitReset
  <2>5. Promise!Reconcile
    BY <1>1, <2>2, <2>4 DEF Promise!Reconcile, Asked, Told
  <2> QED
    BY <2>5 DEF Promise!PromiseNext
<1>5. ASSUME NEW p \in Writers, CommitSession(p)
      PROVE  Promise!PromiseNext
  <2>1. mem[p] = state
    BY <1>5 DEF CommitSession, IInv, ResetInv
  <2>2. /\ state'.included = state.included
        /\ state'.invocations = state.invocations + 1
        /\ published' = published
    BY <1>5, <2>1 DEF CommitSession
  <2>3. Promise!CountSession
    BY <1>1, <2>2 DEF Promise!CountSession, Asked, Told
  <2> QED
    BY <2>3 DEF Promise!PromiseNext
<1>6. ASSUME NEW c \in Capturers, CaptureStep(c), ~Publish(c)
      PROVE  UNCHANGED <<published, state>>
  BY <1>6
     DEF CaptureStep, ReserveSlot, SkipSlot, CapacityReached, WriteIntent,
         WriteIntentFails, PublishFails, CancelCapture, RetryCapture,
         AbandonCapture, CheckIntent, CompleteIntent, CompleteIntentFails,
         fileVars
<1>7. ASSUME NEW c \in Capturers, ResetStep(c), ~CommitReset(c)
      PROVE  UNCHANGED <<published, state>>
  BY <1>7
     DEF ResetStep, CheckOwnReceipt, RewriteState, CollectReceipt, CheckEpoch,
         ReclaimSlot, ReclaimFails, ReclaimDone, fileVars, IInv, ResetInv
<1>8. ASSUME NEW p \in Writers, UpdateStep(p) \/ Crash(p), ~CommitSession(p)
      PROVE  UNCHANGED <<published, state>>
  BY <1>8
     DEF UpdateStep, AcquireLock, GiveUp, SeeStaleLock, BreakLock, LoadState,
         UpdateFails, ReleaseLock, Crash, fileVars
<1>9. ASSUME LockTurnsStale \/ UNCHANGED vars
      PROVE  UNCHANGED <<published, state>>
  BY <1>9 DEF LockTurnsStale, vars
<1> QED
  BY <1>2, <1>3, <1>4, <1>5, <1>6, <1>7, <1>8, <1>9 DEF Next

\* A reader's step asks, answers, or goes on scanning.
LEMMA ReaderKeepsPromise ==
  ASSUME IInv, IInv', NEW r \in Readers, ReaderStep(r)
  PROVE  \/ Promise!PromiseNext
         \/ UNCHANGED Promise!promiseVars
<1> USE ProcsAssumption DEF Writers, Procs
<1>1. /\ pc \in [Procs -> Labels \union {"read", "scan", "known", "unknown"}]
      /\ seen \in [Readers -> State] /\ before \in [Readers -> SUBSET Capturers]
  BY DEF IInv, TypeOK
<1>2. UNCHANGED <<published, state>>
  BY DEF ReaderStep, ReadState, ScanSlot, ReadStateAgain, fileVars
<1>3. \A q \in Readers \ {r} : Told(q)' = Told(q)
  BY <1>1 DEF ReaderStep, ReadState, ScanSlot, ReadStateAgain, readerVars,
              Goto, Told
<1>4. Asked' = [Asked EXCEPT ![r] = Told(r)']
  BY <1>3 DEF Asked
<1>5. CASE ReadState(r)
  <2>1. /\ pc[r] = "read" /\ pc'[r] = "scan"
        /\ seen'[r] = state /\ before'[r] = published
    BY <1>1, <1>5 DEF ReadState, Goto
  <2>2. /\ Told(r).answer = "none"
        /\ Told(r)' = [answer |-> "pending",
                       view   |-> [before   |-> published,
                                   included |-> state.included,
                                   silent   |-> state.invocations]]
    BY <2>1 DEF Told
  <2>3. Promise!Ask(r)
    BY <1>2, <1>4, <2>2 DEF Promise!Ask, Asked, Told
  <2> QED
    BY <2>3 DEF Promise!PromiseNext
<1>6. CASE ScanSlot(r) \/ ReadStateAgain(r)
  <2>1. /\ pc[r] = "scan" /\ pc'[r] \in {"scan", "known", "unknown"}
        /\ UNCHANGED <<seen, before>>
    BY <1>1, <1>6 DEF ScanSlot, ReadStateAgain, readerVars, Goto
  <2>2. pc'[r] = "known" => before[r] \subseteq seen[r].included
    BY <2>1 DEF IInv, ReaderInv, ReaderOK
  <2>3. /\ Told(r).answer = "pending"
        /\ Told(r).view.before = before[r]
        /\ Told(r).view.included = seen[r].included
        /\ Told(r)' = [Told(r) EXCEPT !.answer =
                          IF pc'[r] = "scan" THEN "pending" ELSE pc'[r]]
    BY <2>1 DEF Told
  <2>4. CASE pc'[r] = "scan"
    <3>1. Asked' = Asked
      BY <1>4, <2>3, <2>4 DEF Asked, Told
    <3> QED
      BY <1>2, <3>1 DEF Promise!promiseVars, Asked, Told
  <2>5. CASE pc'[r] = "known"
    <3>1. Promise!AnswerKnown(r)
      BY <1>2, <1>4, <2>2, <2>3, <2>5 DEF Promise!AnswerKnown, Asked, Told
    <3> QED
      BY <3>1 DEF Promise!PromiseNext
  <2>6. CASE pc'[r] = "unknown"
    <3>1. Promise!AnswerUnknown(r)
      BY <1>2, <1>4, <2>3, <2>6 DEF Promise!AnswerUnknown, Asked, Told
    <3> QED
      BY <3>1 DEF Promise!PromiseNext
  <2> QED
    BY <2>1, <2>4, <2>5, <2>6
<1> QED
  BY <1>5, <1>6 DEF ReaderStep

\* While stale locks have one waiter at a time, the accounting implements the
\* promise its readers rely on.
THEOREM Refinement == ApartSpec => KeepsPromise
<1>1. ASSUME IInv, IInv', [Next]_vars
      PROVE  [Promise!PromiseNext]_(Promise!promiseVars)
  BY <1>1, WriterKeepsPromise, ReaderKeepsPromise
<1> QED
  BY <1>1, Invariance, PromiseInitially, PTL
     DEF ApartSpec, KeepsPromise, Promise!PromiseSpec

-----------------------------------------------------------------------------
(* Resets that find nothing new.                                           *)

ReceiptAt(c, k) == Occupied(k) /\ slots[k].id = c /\ slots[k].done

\* A reset that collected the receipt is removing what it collected, or ended
\* before it had.
Clearing == {"reclaim", "abort", "warned", "crashed"}
Uncleared(c, k) ==
    \E w \in Capturers : pc[w] \in Clearing /\ [slot |-> k, id |-> c] \in completed[w]

Unwritten == {"reserve", "write", "publish", "cancel", "again", "check", "append",
              "refused"}

\* A capture has no receipt but the one it wrote at its own path.
OwnSlotOnly(c) ==
    \A k \in Slots : ReceiptAt(c, k) => intent[c].slot = k /\ pc[c] \notin Unwritten

\* An included receipt is still there only while, or because, the reset that
\* collected it has not removed it.
NoneLeft(c) ==
    c \in state.included =>
        /\ pc[c] \notin Unwritten
        /\ \A k \in Slots : ReceiptAt(c, k) => Uncleared(c, k)

KeepInv == \A c \in Capturers : OwnSlotOnly(c) /\ NoneLeft(c)

LEMMA KeepFrame ==
  ASSUME KeepInv, state'.included = state.included,
         \A c \in Capturers : pc'[c] \in Unwritten => pc[c] \in Unwritten,
         \A c \in Capturers, k \in Slots : ReceiptAt(c, k)' =>
            /\ ReceiptAt(c, k)
            /\ intent'[c].slot = intent[c].slot
            /\ Uncleared(c, k) => Uncleared(c, k)'
  PROVE  KeepInv'
<1> SUFFICES ASSUME NEW c \in Capturers PROVE OwnSlotOnly(c)' /\ NoneLeft(c)'
  BY DEF KeepInv
<1>1. OwnSlotOnly(c) /\ NoneLeft(c)
  BY DEF KeepInv
<1>2. OwnSlotOnly(c)'
  BY <1>1 DEF OwnSlotOnly
<1>3. NoneLeft(c)'
  BY <1>1 DEF NoneLeft
<1> QED
  BY <1>2, <1>3

\* A step that changes no receipt and no list of receipts.
LEMMA KeepAside ==
  ASSUME TypeOK, KeepInv, state'.included = state.included, completed' = completed,
         NEW p \in Procs, NEW l, pc' = pc \/ pc' = [pc EXCEPT ![p] = l],
         p \in Capturers /\ l \in Unwritten => pc[p] \in Unwritten,
         p \in Capturers /\ pc[p] \in Clearing => l \in Clearing,
         intent' = intent \/ (p \in Capturers /\ pc[p] \in Unwritten /\
                              \A d \in Capturers \ {p} : intent'[d] = intent[d]),
         \A c \in Capturers, k \in Slots : ReceiptAt(c, k)' => ReceiptAt(c, k)
  PROVE  KeepInv'
<1> USE DEF Procs, Writers
<1>1. pc \in [Procs -> Labels \union {"read", "scan", "known", "unknown"}]
  BY DEF TypeOK
<1>2. /\ \A d \in Capturers : d # p => pc'[d] = pc[d]
      /\ pc'[p] = pc[p] \/ pc'[p] = l
  BY <1>1
<1>3. \A c \in Capturers, k \in Slots : Uncleared(c, k) => Uncleared(c, k)'
  <2> SUFFICES ASSUME NEW c \in Capturers, NEW k \in Slots, Uncleared(c, k)
               PROVE  Uncleared(c, k)'
    OBVIOUS
  <2>1. PICK w \in Capturers : pc[w] \in Clearing /\ [slot |-> k, id |-> c] \in completed[w]
    BY DEF Uncleared
  <2>2. pc'[w] \in Clearing
    BY <1>2, <2>1
  <2> QED
    BY <2>1, <2>2 DEF Uncleared
<1>4. \A c \in Capturers : pc'[c] \in Unwritten => pc[c] \in Unwritten
  BY <1>2
<1>5. ASSUME NEW c \in Capturers, NEW k \in Slots, ReceiptAt(c, k)'
      PROVE  intent'[c].slot = intent[c].slot
  <2>1. ReceiptAt(c, k) /\ pc[c] \notin Unwritten
    BY <1>5 DEF KeepInv, OwnSlotOnly
  <2> QED
    BY <2>1
<1> QED
  BY <1>3, <1>4, <1>5, KeepFrame

\* Where a slot is emptied or holds a file without completion, no receipt appears.
LEMMA NoNewReceipt ==
  ASSUME TypeOK, NEW j \in Slots, NEW f, slots' = [slots EXCEPT ![j] = f],
         f = Free \/ f.done = FALSE
  PROVE  \A c \in Capturers, k \in Slots : ReceiptAt(c, k)' => ReceiptAt(c, k)
<1> SUFFICES ASSUME NEW c \in Capturers, NEW k \in Slots, ReceiptAt(c, k)'
             PROVE  ReceiptAt(c, k)
  OBVIOUS
<1>1. slots'[k] # Free /\ slots'[k].id = c /\ slots'[k].done
  BY DEF ReceiptAt, Occupied
<1>2. slots \in [Slots -> File \union {Free}]
  BY DEF TypeOK
<1>3. k # j
  BY <1>1, <1>2
<1> QED
  BY <1>1, <1>2, <1>3 DEF ReceiptAt, Occupied

LEMMA KeepInit == Init => KeepInv
BY DEF Init, KeepInv, OwnSlotOnly, NoneLeft, ReceiptAt, Occupied

\* Where the slots stay as they are, so do the receipts.
LEMMA SameReceipts ==
  ASSUME slots' = slots
  PROVE  \A c \in Capturers, k \in Slots : ReceiptAt(c, k)' <=> ReceiptAt(c, k)
BY DEF ReceiptAt, Occupied

LEMMA KeepCapture ==
  ASSUME IInv, KeepInv, NEW c \in Capturers, CaptureStep(c)
  PROVE  KeepInv'
<1> USE DEF Goto
<1>1. /\ TypeOK /\ IntentOK(c) /\ c \in Procs /\ intent[c].slot \in Slots
  BY DEF IInv, IntentInv, TypeOK, Procs, Writers
<1>2. /\ completed' = completed /\ state' = state /\ pc[c] \in Unwritten
      /\ pc[c] \notin Clearing
  BY DEF CaptureStep, ReserveSlot, SkipSlot, CapacityReached, WriteIntent, WriteIntentFails,
         Publish, PublishFails, CancelCapture, RetryCapture, AbandonCapture, CheckIntent,
         CompleteIntent, CompleteIntentFails, fileVars, writerVars, Unwritten, Clearing
<1>3. PICK l : pc' = pc \/ pc' = [pc EXCEPT ![c] = l]
  BY DEF CaptureStep, ReserveSlot, SkipSlot, CapacityReached, WriteIntent, WriteIntentFails,
         Publish, PublishFails, CancelCapture, RetryCapture, AbandonCapture, CheckIntent,
         CompleteIntent, CompleteIntentFails
<1>4. CASE ReserveSlot(c)
  <2>1. PICK i \in FreeInodes :
          /\ slots' = [slots EXCEPT ![cursor[c]] = [ino |-> i, id |-> NoId, done |-> FALSE]]
          /\ intent' = [intent EXCEPT ![c] = [slot |-> cursor[c], ino |-> i]]
    BY <1>4 DEF ReserveSlot
  <2>2. cursor[c] \in Slots
    BY <1>4 DEF ReserveSlot
  <2>3. \A d \in Capturers \ {c} : intent'[d] = intent[d]
    BY <1>1, <2>1 DEF TypeOK
  <2>4. \A d \in Capturers, k \in Slots : ReceiptAt(d, k)' => ReceiptAt(d, k)
    BY <1>1, <2>1, <2>2, NoNewReceipt
  <2> QED
    BY <1>1, <1>2, <1>3, <2>3, <2>4, KeepAside
<1>5. CASE SkipSlot(c) \/ CapacityReached(c) \/ Publish(c) \/ PublishFails(c)
           \/ RetryCapture(c) \/ AbandonCapture(c) \/ CheckIntent(c) \/ CompleteIntentFails(c)
  <2>1. slots' = slots /\ intent' = intent
    BY <1>5 DEF SkipSlot, CapacityReached, Publish, PublishFails, RetryCapture, AbandonCapture,
                CheckIntent, CompleteIntentFails, fileVars, writerVars
  <2> QED
    BY <1>1, <1>2, <1>3, <2>1, SameReceipts, KeepAside
<1>6. CASE WriteIntent(c) \/ WriteIntentFails(c) \/ CancelCapture(c)
  <2>1. intent' = intent
    BY <1>6 DEF WriteIntent, WriteIntentFails, CancelCapture, writerVars
  <2>2. slots' # slots => \E f : /\ slots' = [slots EXCEPT ![intent[c].slot] = f]
                                 /\ f = Free \/ f.done = FALSE
    BY <1>6 DEF WriteIntent, WriteIntentFails, CancelCapture, OwnFile
  <2>3. \A d \in Capturers, k \in Slots : ReceiptAt(d, k)' => ReceiptAt(d, k)
    BY <1>1, <2>2, NoNewReceipt, SameReceipts
  <2> QED
    BY <1>1, <1>2, <1>3, <2>1, <2>3, KeepAside
<1>7. CASE CompleteIntent(c)
  <2>1. /\ slots' = [slots EXCEPT ![intent[c].slot] = [ino |-> @.ino, id |-> @.id, done |-> TRUE]]
        /\ pc' = [pc EXCEPT ![c] = "lock"] /\ intent' = intent /\ pc[c] = "append"
    BY <1>7 DEF CompleteIntent, writerVars
  <2>2. slots[intent[c].slot].id = c
    BY <1>1, <2>1 DEF IntentOK, At, OwnFile
  <2>3. \A d \in Capturers, k \in Slots :
           ReceiptAt(d, k)' => IF k = intent[c].slot THEN d = c ELSE ReceiptAt(d, k)
    BY <1>1, <2>1, <2>2 DEF ReceiptAt, Occupied, TypeOK
  <2>4. pc'[c] = "lock" /\ \A d \in Capturers : d # c => pc'[d] = pc[d]
    BY <1>1, <2>1 DEF TypeOK
  <2>5. \A d \in Capturers, k \in Slots : Uncleared(d, k) => Uncleared(d, k)'
    BY <1>2, <2>4 DEF Uncleared
  <2>6. \A k \in Slots : ~ReceiptAt(c, k)
    BY <1>2 DEF KeepInv, OwnSlotOnly
  <2>7. c \notin state'.included
    BY <1>2 DEF KeepInv, NoneLeft
  <2>8. ASSUME NEW d \in Capturers PROVE OwnSlotOnly(d)' /\ NoneLeft(d)'
    <3>1. OwnSlotOnly(d) /\ NoneLeft(d)
      BY DEF KeepInv
    <3>2. CASE d = c
      BY <2>1, <2>3, <2>4, <2>6, <2>7, <3>2 DEF OwnSlotOnly, NoneLeft, Unwritten
    <3>3. CASE d # c
      <4>1. \A k \in Slots : ReceiptAt(d, k)' => ReceiptAt(d, k)
        BY <2>3, <3>3
      <4>2. OwnSlotOnly(d)'
        BY <2>1, <2>4, <3>1, <3>3, <4>1 DEF OwnSlotOnly
      <4>3. NoneLeft(d)'
        BY <1>2, <2>4, <2>5, <3>1, <3>3, <4>1 DEF NoneLeft
      <4> QED
        BY <4>2, <4>3
    <3> QED
      BY <3>2, <3>3
  <2> QED
    BY <2>8 DEF KeepInv
<1> QED
  BY <1>4, <1>5, <1>6, <1>7 DEF CaptureStep

LEMMA KeepReset ==
  ASSUME IInv, KeepInv, NEW c \in Capturers, ResetStep(c)
  PROVE  KeepInv'
<1> USE DEF Goto
<1>1. /\ TypeOK /\ ResetInv /\ ResetOK(c) /\ c \in Procs /\ c \in Writers
      /\ pc \in [Procs -> Labels \union {"read", "scan", "known", "unknown"}]
      /\ completed \in [Capturers -> SUBSET [slot : Slots, id : Capturers]]
  BY DEF IInv, ResetInv, TypeOK, Procs, Writers
<1>2. /\ intent' = intent /\ pc'[c] \notin Unwritten /\ pc[c] \notin Unwritten
      /\ \A d \in Capturers : d # c => pc'[d] = pc[d]
  <2>1. intent' = intent /\ pc[c] \notin Unwritten
    BY DEF ResetStep, CheckOwnReceipt, RewriteState, CollectReceipt, CheckEpoch, CommitReset,
           ReclaimSlot, ReclaimFails, ReclaimDone, writerVars, Unwritten
  <2>2. pc' = pc \/ \E l \in {"rewrite", "collect", "commit", "reclaim", "release", "abort"} :
                       pc' = [pc EXCEPT ![c] = l]
    BY DEF ResetStep, CheckOwnReceipt, RewriteState, CollectReceipt, CheckEpoch, CommitReset,
           ReclaimSlot, ReclaimFails, ReclaimDone, fileVars
  <2>3. \A d \in Capturers : d # c => pc'[d] = pc[d]
    BY <1>1, <2>2 DEF Procs, Writers
  <2>4. pc'[c] \in {pc[c], "rewrite", "collect", "commit", "reclaim", "release", "abort"}
    BY <1>1, <2>2
  <2> QED
    BY <2>1, <2>3, <2>4 DEF Unwritten
\* The steps that leave the slots and what is included.
<1>3. ASSUME slots' = slots, state'.included = state.included,
             \A d \in Capturers \ {c} : completed'[d] = completed[d],
             pc[c] \in Clearing =>
                completed[c] = {} \/ (pc'[c] \in Clearing /\ completed'[c] = completed[c])
      PROVE  KeepInv'
  <2>1. \A d \in Capturers, k \in Slots : Uncleared(d, k) => Uncleared(d, k)'
    <3> SUFFICES ASSUME NEW d \in Capturers, NEW k \in Slots, Uncleared(d, k)
                 PROVE  Uncleared(d, k)'
      OBVIOUS
    <3>1. PICK w \in Capturers : pc[w] \in Clearing /\ [slot |-> k, id |-> d] \in completed[w]
      BY DEF Uncleared
    <3>2. pc'[w] \in Clearing /\ [slot |-> k, id |-> d] \in completed'[w]
      BY <1>2, <1>3, <3>1
    <3> QED
      BY <3>2 DEF Uncleared
  <2> QED
    BY <1>2, <1>3, <2>1, SameReceipts, KeepFrame
<1>4. CASE CheckOwnReceipt(c)
  BY <1>1, <1>3, <1>4 DEF CheckOwnReceipt, fileVars, Clearing
<1>5. CASE RewriteState(c)
  <2>1. mem[c] = state
    BY <1>1, <1>5 DEF RewriteState, ResetInv
  <2> QED
    BY <1>1, <1>3, <1>5, <2>1 DEF RewriteState, writerVars, Clearing
<1>6. CASE CollectReceipt(c)
  BY <1>1, <1>3, <1>6 DEF CollectReceipt, fileVars, Clearing
<1>7. CASE CheckEpoch(c)
  BY <1>1, <1>3, <1>7 DEF CheckEpoch, fileVars, writerVars, Clearing
<1>8. CASE ReclaimDone(c)
  BY <1>1, <1>3, <1>8 DEF ReclaimDone, fileVars, writerVars
<1>9. CASE ReclaimFails(c)
  BY <1>1, <1>3, <1>9 DEF ReclaimFails, fileVars, writerVars, Clearing
<1>10. CASE ReclaimSlot(c)
  <2>1. PICK r \in completed[c] :
          /\ slots' = [slots EXCEPT ![r.slot] = Free]
          /\ completed' = [completed EXCEPT ![c] = @ \ {r}]
    BY <1>10 DEF ReclaimSlot
  <2>2. pc' = pc /\ state' = state /\ r.slot \in Slots
    BY <1>1, <1>10, <2>1 DEF ReclaimSlot
  <2>3. \A d \in Capturers, k \in Slots : ReceiptAt(d, k)' => ReceiptAt(d, k)
    BY <1>1, <2>1, <2>2, NoNewReceipt
  <2>4. \A d \in Capturers, k \in Slots : ReceiptAt(d, k)' => k # r.slot
    BY <1>1, <2>1, <2>2 DEF ReceiptAt, Occupied, TypeOK
  <2>5. \A d \in Capturers, k \in Slots : k # r.slot /\ Uncleared(d, k) => Uncleared(d, k)'
    <3> SUFFICES ASSUME NEW d \in Capturers, NEW k \in Slots, k # r.slot, Uncleared(d, k)
                 PROVE  Uncleared(d, k)'
      OBVIOUS
    <3>1. PICK w \in Capturers : pc[w] \in Clearing /\ [slot |-> k, id |-> d] \in completed[w]
      BY DEF Uncleared
    <3>2. [slot |-> k, id |-> d] # r
      OBVIOUS
    <3>3. [slot |-> k, id |-> d] \in completed'[w]
      BY <1>1, <2>1, <3>1, <3>2
    <3> QED
      BY <2>2, <3>1, <3>3 DEF Uncleared
  <2> QED
    BY <1>2, <2>2, <2>3, <2>4, <2>5, KeepFrame
<1>11. CASE CommitReset(c)
  <2>1. /\ pc[c] = "commit" /\ pc'[c] = "reclaim"
        /\ slots' = slots /\ completed' = completed
        /\ state'.included = mem[c].included \union {r.id : r \in completed[c]}
    BY <1>1, <1>11 DEF CommitReset
  <2>2. mem[c] = state
    BY <1>1, <2>1 DEF ResetInv
  <2>3. \A d \in Capturers, k \in Slots : Uncleared(d, k) => Uncleared(d, k)'
    BY <1>2, <2>1 DEF Uncleared, Clearing
  <2>4. ASSUME NEW d \in Capturers PROVE OwnSlotOnly(d)' /\ NoneLeft(d)'
    <3>1. OwnSlotOnly(d) /\ NoneLeft(d)
      BY DEF KeepInv
    <3>2. OwnSlotOnly(d)'
      BY <1>2, <2>1, <3>1, SameReceipts DEF OwnSlotOnly
    <3>3. ASSUME d \in state.included PROVE NoneLeft(d)'
      BY <1>2, <2>1, <2>3, <3>1, <3>3, SameReceipts DEF NoneLeft
    <3>4. ASSUME d \in state'.included, d \notin state.included PROVE NoneLeft(d)'
      <4>1. PICK r \in completed[c] : r.id = d
        BY <2>1, <2>2, <3>4
      <4>2. r.slot \in Slots /\ ReceiptAt(d, r.slot)
        BY <1>1, <2>1, <4>1 DEF ResetOK, Complete, ReceiptAt
      <4>3. pc[d] \notin Unwritten
        BY <3>1, <4>2 DEF OwnSlotOnly
      <4>4. ASSUME NEW k \in Slots, ReceiptAt(d, k)' PROVE Uncleared(d, k)'
        <5>1. r.slot = k
          BY <2>1, <3>1, <4>2, <4>4, SameReceipts DEF OwnSlotOnly
        <5>2. r = [slot |-> k, id |-> d]
          BY <1>1, <4>1, <5>1
        <5> QED
          BY <2>1, <4>1, <5>2 DEF Uncleared, Clearing
      <4> QED
        BY <1>2, <4>3, <4>4 DEF NoneLeft
    <3> QED
      BY <3>2, <3>3, <3>4 DEF NoneLeft
  <2> QED
    BY <2>4 DEF KeepInv
<1> QED
  BY <1>4, <1>5, <1>6, <1>7, <1>8, <1>9, <1>10, <1>11 DEF ResetStep

LEMMA KeepStep ==
  ASSUME IInv, KeepInv, [Next]_vars
  PROVE  KeepInv'
<1> USE DEF Goto
<1>1. TypeOK /\ ResetInv /\ Writers \subseteq Procs /\ Capturers \subseteq Writers
      /\ \A p \in Writers : p \notin Capturers => p \in Recorders
  BY DEF IInv, Procs, Writers
<1>2. ASSUME NEW c \in Capturers, CaptureStep(c) PROVE KeepInv'
  BY <1>2, KeepCapture
<1>3. ASSUME NEW c \in Capturers, ResetStep(c) PROVE KeepInv'
  BY <1>3, KeepReset
<1>4. ASSUME NEW p \in Writers, UpdateStep(p) PROVE KeepInv'
  <2>1. slots' = slots /\ intent' = intent /\ completed' = completed
    BY <1>4 DEF UpdateStep, AcquireLock, GiveUp, SeeStaleLock, BreakLock, LoadState, UpdateFails,
                ReleaseLock, CommitSession, fileVars, writerVars
  <2>2. state'.included = state.included
    <3>1. CASE CommitSession(p)
      BY <1>1, <3>1 DEF CommitSession, ResetInv
    <3>2. CASE ~CommitSession(p)
      BY <1>4, <3>2 DEF UpdateStep, AcquireLock, GiveUp, SeeStaleLock, BreakLock, LoadState,
                        UpdateFails, ReleaseLock, fileVars
    <3> QED
      BY <3>1, <3>2
  <2>3. PICK l : /\ pc' = [pc EXCEPT ![p] = l] /\ l \notin Unwritten
                 /\ p \in Capturers /\ pc[p] \in Clearing => l \in Clearing
    BY <1>4 DEF UpdateStep, AcquireLock, GiveUp, SeeStaleLock, BreakLock, LoadState, UpdateFails,
                ReleaseLock, CommitSession, Failure, Unwritten, Clearing
  <2> QED
    BY <1>1, <2>1, <2>2, <2>3, SameReceipts, KeepAside
<1>5. ASSUME NEW p \in Writers, Crash(p) PROVE KeepInv'
  <2>1. pc' = [pc EXCEPT ![p] = "crashed"] /\ "crashed" \in Clearing /\ "crashed" \notin Unwritten
    BY <1>5 DEF Crash, Clearing, Unwritten
  <2>2. slots' = slots /\ intent' = intent /\ completed' = completed /\ state' = state
    BY <1>5 DEF Crash, fileVars, writerVars
  <2> QED
    BY <1>1, <2>1, <2>2, SameReceipts, KeepAside
<1>6. ASSUME NEW r \in Readers, ReaderStep(r) PROVE KeepInv'
  <2>1. slots' = slots /\ intent' = intent /\ completed' = completed /\ state' = state
    BY <1>6 DEF ReaderStep, ReadState, ScanSlot, ReadStateAgain, fileVars, writerVars
  <2>2. PICK l : pc' = pc \/ pc' = [pc EXCEPT ![r] = l]
    BY <1>6 DEF ReaderStep, ReadState, ScanSlot, ReadStateAgain
  <2>3. r \in Procs /\ r \notin Capturers
    BY ProcsAssumption DEF Procs, Writers
  <2> QED
    BY <1>1, <2>1, <2>2, <2>3, SameReceipts, KeepAside
<1>7. ASSUME LockTurnsStale \/ UNCHANGED vars PROVE KeepInv'
  <2>1. slots' = slots /\ intent' = intent /\ completed' = completed /\ state' = state /\ pc' = pc
    BY <1>7 DEF LockTurnsStale, vars, writerVars
  <2> QED
    BY <2>1, SameReceipts, KeepFrame DEF Uncleared
<1> QED
  BY <1>2, <1>3, <1>4, <1>5, <1>6, <1>7 DEF Next

\* While stale locks have one waiter at a time, a reset throws counted session
\* starts away only together with a capture that no reset had included before,
\* or where an earlier clean-up left that capture's receipt behind
\* (state.go:293).
THEOREM ResetsCountSomethingNew == ApartSpec => ResetKeepsNewerEvents
<1> DEFINE Kept == [state'.invocations < state.invocations =>
                      \/ state'.included # state.included
                      \/ \E c \in Capturers : pc[c] = "commit" /\ LeftOver(c)]_vars
<1>1. ASSUME IInv, KeepInv, [Next]_vars
      PROVE  Kept
  <2> SUFFICES ASSUME state'.invocations < state.invocations,
                      state'.included = state.included
               PROVE  \E c \in Capturers : pc[c] = "commit" /\ LeftOver(c)
    OBVIOUS
  <2>1. state \in State /\ state.invocations \in Nat
    BY <1>1 DEF IInv, TypeOK, State
  <2>2. PICK c \in Capturers : CommitReset(c)
    <3>1. \A p \in Writers : CommitSession(p) => state'.invocations = state.invocations + 1
      BY <1>1 DEF CommitSession, IInv, ResetInv
    <3>2. \A c \in Capturers : RewriteState(c) => state' = state
      BY <1>1 DEF RewriteState, IInv, ResetInv, Writers
    <3>3. state' # state /\ state'.invocations # state.invocations + 1
      BY <2>1
    <3> QED
      BY <1>1, <3>1, <3>2, <3>3
         DEF Next, CaptureStep, ReserveSlot, SkipSlot, CapacityReached, WriteIntent,
             WriteIntentFails, Publish, PublishFails, CancelCapture, RetryCapture, AbandonCapture,
             CheckIntent, CompleteIntent, CompleteIntentFails, ResetStep, CheckOwnReceipt,
             CollectReceipt, CheckEpoch, ReclaimSlot, ReclaimFails, ReclaimDone, UpdateStep,
             AcquireLock, GiveUp, SeeStaleLock, BreakLock, LoadState, UpdateFails, ReleaseLock,
             Crash, LockTurnsStale, ReaderStep, ReadState, ScanSlot, ReadStateAgain, fileVars, vars
  <2>3. pc[c] = "commit" /\ state'.included = mem[c].included \union {r.id : r \in completed[c]}
    BY <2>2 DEF CommitReset
  <2>4. PICK r \in completed[c] : r.id = c /\ Complete(r.slot) /\ slots[r.slot].id = r.id
    BY <1>1, <2>3 DEF IInv, ResetInv, ResetOK
  <2>5. c \in state.included
    BY <2>3, <2>4
  <2>6. r.slot \in Slots /\ ReceiptAt(c, r.slot)
    BY <1>1, <2>4 DEF IInv, TypeOK, ReceiptAt, Complete
  <2>7. intent[c].slot = r.slot
    BY <1>1, <2>6 DEF KeepInv, OwnSlotOnly
  <2>8. PICK w \in Capturers :
          pc[w] \in Clearing /\ [slot |-> r.slot, id |-> c] \in completed[w]
    BY <1>1, <2>5, <2>6 DEF KeepInv, NoneLeft, Uncleared
  <2>9. pc[w] # "reclaim"
    BY <1>1, <2>3 DEF IInv, LockInv, InCritical, Writers
  <2> QED
    BY <2>3, <2>7, <2>8, <2>9 DEF LeftOver, Clearing
<1>2. Init => KeepInv
  BY KeepInit
<1>3. IInv /\ KeepInv /\ [Next]_vars => KeepInv'
  BY KeepStep
<1>4. ApartSpec => []IInv
  BY Invariance
<1> QED
  BY <1>1, <1>2, <1>3, <1>4, PTL DEF ApartSpec, ResetKeepsNewerEvents
=============================================================================
