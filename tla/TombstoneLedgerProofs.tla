------------------------ MODULE TombstoneLedgerProofs ------------------------
(***************************************************************************)
(* What holds of TombstoneLedger for every set of items, keys and readers  *)
(* and every bound on generations and operator acts.                       *)
(*                                                                         *)
(* Nothing an operator does to the key file alone makes a loading ledger   *)
(* hide less: the ledger file always holds what a completed write hides    *)
(* (Kept).  One act on the ledger file is survived too, in a deployment    *)
(* that began with this ledger format: a file that is as new as the key    *)
(* says holds everything acknowledged (Newest), and the key outgrows every *)
(* other one.                                                              *)
(***************************************************************************)
EXTENDS TombstoneLedger, TLAPS

USE LedgerAssumption DEF LedgerAssumption

LEMMA InitType == LedgerInit => TypeOK
<1> SUFFICES ASSUME LedgerInit PROVE TypeOK
  OBVIOUS
<1>1. NoLedger \in LedgerFile
  BY DEF NoLedger, LedgerFile
<1>2. ASSUME NEW k \in Kids, NEW d \in Deployments, key = LegacyKey(k),
             ledger = Schema2(d.inherited)
      PROVE  ledger \in LedgerFile /\ key \in KeyFile
  BY <1>2 DEF KeyFile, LegacyKey, LedgerFile, Schema2
<1>3. ledger \in LedgerFile \union {Absent} /\ key \in KeyFile \union {Absent}
  BY <1>2 DEF LedgerInit
<1>5. acked \in SUBSET Items /\ touched \in [ledger : Nat, key : Nat, of : Deployments]
  BY DEF LedgerInit
<1>4. readers \in [Readers -> Reader]
  BY DEF LedgerInit, Reader
<1> QED
  BY <1>1, <1>3, <1>4, <1>5 DEF LedgerInit, TypeOK

LEMMA StepType == TypeOK /\ [LedgerNext]_ledgerVars => TypeOK'
<1> SUFFICES ASSUME TypeOK, [LedgerNext]_ledgerVars PROVE TypeOK'
  OBVIOUS
<1>1. ASSUME NEW k \in {"forget", "purge"}, NEW i \in Items, Begin(k, i) PROVE TypeOK'
  <2>1. Content(ledger) \in LedgerFile
    BY DEF TypeOK, Content, NoLedger, LedgerFile
  <2> QED
    BY <1>1, <2>1 DEF Begin, TypeOK, fileVars, histVars
<1>2. CASE KeepKey
  BY <1>2 DEF KeepKey, TypeOK, fileVars, histVars, Readable
<1>3. ASSUME NEW kid \in Kids, WriteKey(NewKey(kid)), pc = "key" PROVE TypeOK'
  <2>1. NewKey(kid) \in KeyFile
    BY DEF NewKey, KeyFile
  <2> QED
    BY <1>3, <2>1 DEF WriteKey, TypeOK
<1>4. CASE UpgradeKey
  <2>1. kf \in KeyFile
    BY <1>4 DEF UpgradeKey, TypeOK, Readable
  <2>2. kf.kid \in Kids
    BY <2>1 DEF KeyFile
  <2> QED
    BY <1>3, <1>4, <2>2 DEF UpgradeKey
<1>5. CASE CreateKey
  BY <1>3, <1>5 DEF CreateKey
<1>6. CASE WriteLedger
  <2>1. kf \in KeyFile /\ got \in LedgerFile /\ item \in Items
    BY <1>6 DEF WriteLedger, TypeOK
  <2>2. NextGen \in 0 .. MaxGen
    BY <1>6, <2>1 DEF WriteLedger, NextGen, KeyFile, LedgerFile
  <2>3. Revoked \in SUBSET Items /\ Purges \in SUBSET Items
    BY <2>1 DEF Revoked, Purges, LedgerFile
  <2>4. ledger' \in LedgerFile
    BY <1>6, <2>1, <2>2, <2>3 DEF WriteLedger, LedgerFile, KeyFile
  <2> QED
    BY <1>6, <2>1, <2>4 DEF WriteLedger, TypeOK
<1>7. CASE CommitKey
  <2>1. kf \in KeyFile /\ got \in LedgerFile /\ item \in Items
    BY <1>7 DEF CommitKey, TypeOK
  <2>2. key' \in KeyFile
    BY <1>7, <2>1 DEF CommitKey, KeyFile, LedgerFile
  <2> QED
    BY <1>7, <2>1, <2>2 DEF CommitKey, TypeOK
<1>8. CASE WriteJournal
  BY <1>8 DEF WriteJournal, TypeOK, histVars
<1>9. CASE FinishPurge
  BY <1>9 DEF FinishPurge, TypeOK, histVars
<1>10. CASE Stop
  BY <1>10 DEF Stop, TypeOK, fileVars, histVars
<1>11. ASSUME NEW q \in Readers, ReaderStep(q) PROVE TypeOK'
  <2>1. readers[q] \in Reader
    BY DEF TypeOK
  <2>2. readers' \in [Readers -> Reader]
    BY <1>11, <2>1 DEF ReaderStep, ReadKey, ReadLedger, ReadJournals, TypeOK, Reader
  <2> QED
    BY <1>11, <2>2 DEF ReaderStep, ReadKey, ReadLedger, ReadJournals, TypeOK,
                       fileVars, opVars, histVars
<1>12. CASE TouchLedger
  <2>1. ledger' \in LedgerFile \union {Absent}
    <3>1. CASE ledger' \in ledgers \union {Absent}
      BY <3>1 DEF TypeOK
    <3>2. ASSUME ledger # Absent, NEW i \in Items,
                 ledger' = [ledger EXCEPT !.revoked = @ \ {i}, !.purges = @ \ {i},
                                          !.sound = FALSE]
          PROVE  ledger' \in LedgerFile \union {Absent}
      BY <3>2 DEF TypeOK, LedgerFile
    <3>3. Entries(ledger) \subseteq Items
      BY DEF TypeOK, Entries, Content, NoLedger, LedgerFile
    <3> QED
      BY <1>12, <3>1, <3>2, <3>3 DEF TouchLedger
  <2>2. touched' \in [ledger : Nat, key : Nat, of : Deployments]
    <3>1. touched \in [ledger : Nat, key : Nat, of : Deployments]
      BY DEF TypeOK
    <3>2. touched' = [touched EXCEPT !.ledger = @ + 1]
      BY <1>12 DEF TouchLedger
    <3> QED
      BY <3>1, <3>2
  <2> QED
    BY <1>12, <2>1, <2>2 DEF TouchLedger, TypeOK, opVars
<1>13. CASE TouchKey
  BY <1>13 DEF TouchKey, TypeOK, opVars
<1>14. CASE UNCHANGED ledgerVars
  BY <1>14 DEF ledgerVars, fileVars, opVars, histVars, TypeOK
<1> QED
  BY <1>1, <1>2, <1>4, <1>5, <1>6, <1>7, <1>8, <1>9, <1>10, <1>11, <1>12, <1>13, <1>14
     DEF LedgerNext, OpStep

\* Type correctness of the ledger, its key, the operation and the readers.
THEOREM TypeCorrect == LedgerSpec => []TypeOK
  BY InitType, StepType, PTL DEF LedgerSpec

-----------------------------------------------------------------------------
(* What a load proves, whatever the journals say.                          *)

LEMMA LoadedHides ==
  ASSUME NEW k, NEW l \in LedgerFile \union {Absent}, NEW j \in SUBSET Items,
         Loads(k, l, j)
  PROVE  Entries(l) \subseteq Hides(k, l)
<1>1. CASE l = Absent
  BY <1>1 DEF Entries, Hides, Content, NoLedger
<1>2. CASE l # Absent
  <2>1. l.purges # {} => Matches(k, l)
    BY <1>2 DEF Loads, LoadsCurrent, LoadsOld, Matches, Readable
  <2> QED
    BY <1>2, <2>1 DEF Entries, Hides, Content
<1> QED
  BY <1>1, <1>2

LEMMA WritesAll ==
  ASSUME TypeOK, WriteLedger
  PROVE  /\ Entries(got) \union {item} \subseteq Entries(ledger')
         /\ ledger' # Absent /\ got' = ledger'
         /\ got.purges \subseteq ledger'.purges
         /\ kind = "purge" => item \in ledger'.purges
<1>1. got \in LedgerFile /\ got # Absent /\ kf \in KeyFile /\ item \in Items
  BY DEF TypeOK, WriteLedger
<1>2. ledger' # Absent
  <2>1. ledger' \in LedgerFile
    <3>1. NextGen \in 0 .. MaxGen
      BY <1>1 DEF WriteLedger, NextGen, KeyFile, LedgerFile
    <3>2. Revoked \in SUBSET Items /\ Purges \in SUBSET Items
      BY <1>1 DEF Revoked, Purges, LedgerFile
    <3> QED
      BY <1>1, <3>1, <3>2 DEF WriteLedger, LedgerFile, KeyFile
  <2> QED
    BY <2>1
<1>3. Entries(got) = got.revoked \union got.purges
  BY <1>1 DEF Entries, Content
<1>4. Entries(ledger') = Revoked \union Purges
  BY <1>2 DEF Entries, Content, WriteLedger
<1>5. kind \in {"forget", "purge"}
  BY DEF TypeOK
<1> QED
  BY <1>2, <1>3, <1>4, <1>5 DEF Revoked, Purges, WriteLedger

-----------------------------------------------------------------------------
(* The deployment stays what it is; what was done to it is counted.        *)

LEMMA Touches ==
  ASSUME TypeOK
  PROVE  /\ touched.of \in Deployments /\ touched.ledger \in Nat /\ touched.key \in Nat
         /\ TouchLedger => /\ touched'.ledger = touched.ledger + 1
                           /\ touched'.of = touched.of
         /\ TouchKey => /\ touched'.key = touched.key + 1
                        /\ touched'.of = touched.of
  BY DEF TypeOK, TouchLedger, TouchKey

LEMMA SameDeployment == ASSUME TypeOK, [LedgerNext]_ledgerVars PROVE touched'.of = touched.of
<1>1. ~TouchLedger /\ ~TouchKey => touched' = touched
  BY DEF LedgerNext, OpStep, Begin, KeepKey, UpgradeKey, CreateKey, WriteKey, WriteLedger,
         CommitKey, WriteJournal, FinishPurge, Stop, ReaderStep, ReadKey, ReadLedger,
         ReadJournals, ledgerVars, fileVars, opVars, histVars
<1> QED
  BY <1>1, Touches

\* The ledger file is left alone.
LedgerIsLeft(d) == d.ledgerFaults = 0
\* A deployment that began with this format; only its ledger file is touched, once.
LedgerTouchedOnce(d) == d.inherited = {} /\ d.ledgerFaults <= 1 /\ d.keyFaults = 0

-----------------------------------------------------------------------------
(* The ledger file keeps what was acknowledged.                            *)

Kept ==
    /\ acked \subseteq Entries(ledger)
    /\ pc \in {"key", "ledger"} => got = Content(ledger)
    /\ pc = "commit" => got = ledger /\ item \in Entries(ledger)

LEMMA KeptInit == LedgerInit => Kept
<1> SUFFICES ASSUME LedgerInit PROVE acked \subseteq Entries(ledger)
  BY DEF LedgerInit, Kept
<1>1. PICK d \in Deployments :
        /\ acked = d.inherited
        /\ IF d.inherited = {} THEN ledger = Absent /\ key = Absent
           ELSE ledger = Schema2(d.inherited) /\ \E k \in Kids : key = LegacyKey(k)
  BY DEF LedgerInit
<1>2. CASE d.inherited # {}
  <2>1. Schema2(d.inherited) \in LedgerFile
    BY DEF Schema2, LedgerFile
  <2>2. ledger # Absent
    BY <1>1, <1>2, <2>1
  <2>3. ledger.purges = d.inherited
    BY <1>1, <1>2 DEF Schema2
  <2> QED
    BY <1>1, <2>2, <2>3 DEF Entries, Content
<1> QED
  BY <1>1, <1>2

LEMMA KeptStep ==
  ASSUME LedgerIsLeft(touched.of), TypeOK, Kept, [LedgerNext]_ledgerVars PROVE Kept'
<1>1. ASSUME NEW k \in {"forget", "purge"}, NEW i \in Items, Begin(k, i) PROVE Kept'
  BY <1>1 DEF Begin, Kept, fileVars, histVars, Entries, Content
<1>2. CASE KeepKey
  BY <1>2 DEF KeepKey, Kept, fileVars, histVars, Entries, Content
<1>3. CASE UpgradeKey
  BY <1>3 DEF UpgradeKey, WriteKey, Kept, Entries, Content
<1>4. CASE CreateKey
  BY <1>4 DEF CreateKey, WriteKey, Kept, Entries, Content
<1>5. CASE WriteLedger
  <2>1. Entries(got) = Entries(ledger)
    BY <1>5 DEF Kept, WriteLedger, Entries, Content, NoLedger
  <2>2. acked \subseteq Entries(ledger')
    BY <1>5, <2>1, WritesAll DEF Kept
  <2> QED
    BY <1>5, <2>2, WritesAll DEF Kept, WriteLedger, Entries, Content
<1>6. CASE CommitKey
  BY <1>6 DEF CommitKey, Kept, Entries, Content
<1>7. CASE WriteJournal
  BY <1>7 DEF WriteJournal, Kept, histVars, Entries, Content
<1>8. CASE FinishPurge
  BY <1>8 DEF FinishPurge, Kept, histVars, Entries, Content
<1>9. CASE Stop
  BY <1>9 DEF Stop, Kept, fileVars, histVars, Entries, Content
<1>10. ASSUME NEW q \in Readers, ReaderStep(q) PROVE Kept'
  BY <1>10 DEF ReaderStep, ReadKey, ReadLedger, ReadJournals, Kept, fileVars, opVars,
               histVars, Entries, Content
<1>11. CASE TouchLedger
  <2>1. touched.ledger \in Nat
    BY Touches
  <2>2. touched.ledger < 0
    BY <1>11 DEF TouchLedger, LedgerIsLeft
  <2> QED
    BY <2>1, <2>2
<1>12. CASE TouchKey
  BY <1>12 DEF TouchKey, Kept, opVars, Entries, Content
<1>13. CASE UNCHANGED ledgerVars
  BY <1>13 DEF ledgerVars, fileVars, opVars, histVars, Kept, Entries, Content
<1> QED
  BY <1>1, <1>2, <1>3, <1>4, <1>5, <1>6, <1>7, <1>8, <1>9, <1>10, <1>11, <1>12, <1>13
     DEF LedgerNext, OpStep

-----------------------------------------------------------------------------
(* The readers.                                                            *)

ReadersKept ==
    \A q \in Readers :
        /\ readers[q].before \subseteq acked
        /\ readers[q].pc \in {"journals", "ok", "unusable"} =>
               readers[q].before \subseteq Entries(readers[q].ledger)
        /\ readers[q].pc = "ok" =>
               \E j \in SUBSET Items : Loads(readers[q].key, readers[q].ledger, j)

LEMMA AckedGrows == [LedgerNext]_ledgerVars => acked \subseteq acked'
  BY DEF LedgerNext, OpStep, Begin, KeepKey, UpgradeKey, CreateKey, WriteKey, WriteLedger,
         CommitKey, WriteJournal, FinishPurge, Stop, ReaderStep, ReadKey, ReadLedger,
         ReadJournals, TouchLedger, TouchKey, ledgerVars, fileVars, opVars, histVars

LEMMA OnlyReadersRead ==
  [LedgerNext]_ledgerVars /\ ~(\E q \in Readers : ReaderStep(q)) => readers' = readers
  BY DEF LedgerNext, OpStep, Begin, KeepKey, UpgradeKey, CreateKey, WriteKey, WriteLedger,
         CommitKey, WriteJournal, FinishPurge, Stop, TouchLedger, TouchKey, ledgerVars

LEMMA ReadersStep ==
  ASSUME TypeOK, Kept, ReadersKept, [LedgerNext]_ledgerVars PROVE ReadersKept'
<1>1. ASSUME NEW q \in Readers, ReaderStep(q) PROVE ReadersKept'
  <2>1. ASSUME NEW p \in Readers, p # q PROVE readers'[p] = readers[p]
    BY <1>1, <2>1 DEF ReaderStep, ReadKey, ReadLedger, ReadJournals, TypeOK
  <2>2. acked' = acked
    BY <1>1 DEF ReaderStep, ReadKey, ReadLedger, ReadJournals, histVars
  <2>3. /\ readers'[q].before \subseteq acked
        /\ readers'[q].pc \in {"journals", "ok", "unusable"} =>
               readers'[q].before \subseteq Entries(readers'[q].ledger)
        /\ readers'[q].pc = "ok" =>
               \E j \in SUBSET Items : Loads(readers'[q].key, readers'[q].ledger, j)
    <3>1. CASE ReadKey(q)
      BY <3>1 DEF ReadKey, TypeOK
    <3>2. CASE ReadLedger(q)
      BY <3>2 DEF ReadLedger, TypeOK, ReadersKept, Kept
    <3>3. CASE ReadJournals(q)
      <4>1. journals \in SUBSET Items
        BY DEF TypeOK
      <4>2. /\ readers'[q].before = readers[q].before
            /\ readers'[q].ledger = readers[q].ledger
            /\ readers'[q].key = readers[q].key
            /\ readers[q].pc = "journals"
            /\ readers'[q].pc = "ok" => Loads(readers[q].key, readers[q].ledger, journals)
        BY <3>3 DEF ReadJournals, TypeOK
      <4> QED
        BY <4>1, <4>2 DEF ReadersKept
    <3> QED
      BY <1>1, <3>1, <3>2, <3>3 DEF ReaderStep
  <2> QED
    BY <2>1, <2>2, <2>3 DEF ReadersKept
<1>2. CASE ~(\E q \in Readers : ReaderStep(q))
  <2>1. readers' = readers /\ acked \subseteq acked'
    BY <1>2, OnlyReadersRead, AckedGrows
  <2> QED
    BY <2>1 DEF ReadersKept
<1> QED
  BY <1>1, <1>2

LEMMA ReadersAreCurrent == TypeOK /\ ReadersKept => ReaderIsCurrent
<1> SUFFICES ASSUME TypeOK, ReadersKept, NEW q \in Readers, readers[q].pc = "ok"
             PROVE  readers[q].before \subseteq Hides(readers[q].key, readers[q].ledger)
  BY DEF ReaderIsCurrent
<1>1. readers[q].ledger \in LedgerFile \union {Absent}
  BY DEF TypeOK, Reader
<1>2. PICK j \in SUBSET Items : Loads(readers[q].key, readers[q].ledger, j)
  BY DEF ReadersKept
<1> QED
  BY <1>1, <1>2, LoadedHides DEF ReadersKept

\* A surface that loads the ledger without the lock, its reads interleaved with
\* any number of writes, hides at least what was hidden when it began.
THEOREM LockFreeReadsAreCurrent ==
  ASSUME \A d \in Deployments : LedgerIsLeft(d)
  PROVE  LedgerSpec => []ReaderIsCurrent
<1>1. LedgerInit => TypeOK /\ Kept /\ ReadersKept
  <2>1. LedgerInit => ReadersKept
    BY DEF LedgerInit, ReadersKept
  <2> QED
    BY <2>1, InitType, KeptInit
<1>2. TypeOK /\ Kept /\ ReadersKept /\ [LedgerNext]_ledgerVars => TypeOK' /\ Kept' /\ ReadersKept'
  BY StepType, KeptStep, ReadersStep, Touches
<1> QED
  BY <1>1, <1>2, ReadersAreCurrent, PTL DEF LedgerSpec

-----------------------------------------------------------------------------
(* What the three writes leave behind when nobody else touches the files.  *)

KeyFits ==
    /\ key # Corrupt
    /\ ledger = Absent => key = Absent \/ (key.form = "v3" /\ ~key.committed)
    /\ ledger # Absent /\ ledger.schema = 3 =>
           /\ key # Absent /\ key.form = "v3" /\ ledger.sound
           /\ key.kid = ledger.kid /\ key.gen <= ledger.gen
    /\ ledger # Absent /\ ledger.schema = 2 => key # Absent /\ ~Committed(key)

Explained ==
    /\ journals # {} => ledger # Absent /\ journals \subseteq ledger.purges
    /\ pc \in {"journal", "erase"} => ledger # Absent /\ item \in ledger.purges

InFlight ==
    /\ pc # "idle" => kf = key
    /\ pc \in {"key", "ledger"} => got = Content(ledger)
    /\ pc = "ledger" => kf.form = "v3"
    /\ pc = "commit" => /\ got = ledger /\ ledger.schema = 3
                        /\ kind = "purge" => item \in ledger.purges

Consistent == Untouched => KeyFits /\ Explained /\ InFlight

LEMMA ConsistentInit == LedgerInit => Consistent
<1> SUFFICES ASSUME LedgerInit PROVE KeyFits
  BY DEF LedgerInit, Consistent, Explained, InFlight
<1>1. CASE ledger = Absent /\ key = Absent
  BY <1>1 DEF KeyFits
<1>2. ASSUME NEW k \in Kids, NEW d \in Deployments, key = LegacyKey(k),
             ledger = Schema2(d.inherited)
      PROVE  KeyFits
  <2>1. ledger \in LedgerFile /\ key \in KeyFile
    BY <1>2 DEF LedgerFile, KeyFile, LegacyKey, Schema2
  <2>2. ledger # Absent /\ key # Absent /\ key # Corrupt
    BY <2>1
  <2>3. ledger.schema = 2 /\ key.form = "legacy"
    BY <1>2 DEF LegacyKey, Schema2
  <2> QED
    BY <2>2, <2>3 DEF KeyFits, Committed
<1> QED
  BY <1>1, <1>2 DEF LedgerInit

LEMMA ConsistentStep == ASSUME TypeOK, Consistent, [LedgerNext]_ledgerVars PROVE Consistent'
<1> SUFFICES ASSUME Untouched' PROVE (KeyFits /\ Explained /\ InFlight)'
  BY DEF Consistent
<1>a. ~TouchLedger /\ ~TouchKey
  BY Touches DEF Untouched
<1>b. Untouched
  BY <1>a DEF LedgerNext, OpStep, Begin, KeepKey, UpgradeKey, CreateKey, WriteKey, WriteLedger,
         CommitKey, WriteJournal, FinishPurge, Stop, ReaderStep, ReadKey, ReadLedger,
         ReadJournals, ledgerVars, histVars, Untouched
<1>c. KeyFits /\ Explained /\ InFlight
  BY <1>b DEF Consistent
<1> HIDE DEF Untouched
<1>1. ASSUME NEW k \in {"forget", "purge"}, NEW i \in Items, Begin(k, i)
      PROVE  (KeyFits /\ Explained /\ InFlight)'
  BY <1>1, <1>c DEF Begin, KeyFits, Explained, InFlight, fileVars, histVars, Content, Committed, Readable
<1>2. CASE KeepKey
  BY <1>2, <1>c DEF KeepKey, KeyFits, Explained, InFlight, fileVars, histVars, Content, Committed, Readable
<1>3. CASE UpgradeKey
  <2>1. NewKey(kf.kid) \in KeyFile
    BY <1>3 DEF UpgradeKey, TypeOK, NewKey, KeyFile, Readable
  <2>2. key = kf /\ key.form = "legacy" /\ key # Absent
    BY <1>3, <1>c DEF UpgradeKey, InFlight, Readable
  <2>3. ledger # Absent /\ ledger.schema = 2
    <3>1. ledger # Absent
      BY <2>2, <1>c DEF KeyFits
    <3>2. ledger.schema \in {2, 3}
      BY <3>1 DEF TypeOK, LedgerFile
    <3> QED
      BY <2>2, <3>1, <3>2, <1>c DEF KeyFits
  <2>4. key' = NewKey(kf.kid) /\ ledger' = ledger
    BY <1>3 DEF UpgradeKey, WriteKey
  <2>5. key' # Absent /\ key' # Corrupt
    BY <2>1, <2>4
  <2>6. key'.form = "v3" /\ ~key'.committed
    BY <2>4 DEF NewKey
  <2>7. KeyFits'
    BY <2>3, <2>4, <2>5, <2>6 DEF KeyFits, Committed
  <2> QED
    BY <1>3, <1>c, <2>7 DEF UpgradeKey, WriteKey, NewKey, Explained, InFlight, Content
<1>4. CASE CreateKey
  <2>1. PICK kid \in Kids : WriteKey(NewKey(kid))
    BY <1>4 DEF CreateKey
  <2>2. NewKey(kid) \in KeyFile
    BY DEF NewKey, KeyFile
  <2>3. ledger = Absent
    BY <1>4, <1>c DEF CreateKey, KeyFits, TypeOK, LedgerFile
  <2>4. KeyFits'
    BY <2>1, <2>2, <2>3 DEF WriteKey, NewKey, KeyFits
  <2> QED
    BY <1>4, <1>c, <2>1, <2>4 DEF CreateKey, WriteKey, NewKey, Explained, InFlight, Content
<1>5. CASE WriteLedger
  <2>1. kf \in KeyFile /\ kf = key /\ got = Content(ledger) /\ got \in LedgerFile
    BY <1>5, <1>c DEF WriteLedger, TypeOK, InFlight
  <2>2. NextGen \in Nat /\ key.gen <= NextGen
    BY <2>1 DEF NextGen, KeyFile, LedgerFile
  <2>3. ledger' # Absent /\ got.purges \subseteq ledger'.purges
    BY <1>5, WritesAll
  <2>4. key.form = "v3"
    BY <1>5, <1>c, <2>1 DEF InFlight, WriteLedger
  <2>5. KeyFits'
    BY <1>5, <1>c, <2>1, <2>2, <2>3, <2>4 DEF WriteLedger, KeyFits
  <2>6. Explained'
    BY <1>5, <1>c, <2>1, <2>3 DEF WriteLedger, Explained, Content
  <2>7. InFlight'
    BY <1>5, <1>c, WritesAll DEF WriteLedger, InFlight
  <2> QED
    BY <2>5, <2>6, <2>7
<1>6. CASE CommitKey
  <2>1. kf \in KeyFile /\ kf = key /\ got = ledger /\ got \in LedgerFile /\ ledger # Absent
    BY <1>6, <1>c DEF CommitKey, TypeOK, InFlight
  <2>2. key' \in KeyFile
    BY <1>6, <2>1 DEF CommitKey, KeyFile, LedgerFile
  <2>3. /\ key' = [form |-> "v3", kid |-> kf.kid, gen |-> got.gen, committed |-> TRUE]
        /\ ledger' = ledger
    BY <1>6 DEF CommitKey
  <2>4. key' # Absent /\ key' # Corrupt
    BY <2>2
  <2>5. key'.form = "v3" /\ key'.kid = key.kid /\ key'.gen = ledger.gen /\ ledger.gen \in Nat
    BY <2>1, <2>3 DEF LedgerFile
  <2>6. ledger.schema = 3
    BY <1>6, <1>c DEF CommitKey, InFlight
  <2>7. KeyFits'
    BY <1>c, <2>1, <2>3, <2>4, <2>5, <2>6 DEF KeyFits
  <2> QED
    BY <1>6, <1>c, <2>1, <2>7 DEF CommitKey, Explained, InFlight, TypeOK
<1>7. CASE WriteJournal
  BY <1>7, <1>c DEF WriteJournal, KeyFits, Explained, InFlight, histVars, Content, Committed, Readable
<1>8. CASE FinishPurge
  BY <1>8, <1>c DEF FinishPurge, KeyFits, Explained, InFlight, histVars, Content, Committed, Readable
<1>9. CASE Stop
  BY <1>9, <1>c DEF Stop, KeyFits, Explained, InFlight, fileVars, histVars, Content, Committed, Readable
<1>10. ASSUME NEW q \in Readers, ReaderStep(q) PROVE (KeyFits /\ Explained /\ InFlight)'
  BY <1>10, <1>c DEF ReaderStep, ReadKey, ReadLedger, ReadJournals, KeyFits, Explained,
               InFlight, fileVars, opVars, histVars, Content, Committed, Readable
<1>11. CASE UNCHANGED ledgerVars
  BY <1>11, <1>c DEF ledgerVars, fileVars, opVars, KeyFits, Explained, InFlight, Content, Committed, Readable
<1> QED
  BY <1>a, <1>1, <1>2, <1>3, <1>4, <1>5, <1>6, <1>7, <1>8, <1>9, <1>10, <1>11
     DEF LedgerNext, OpStep

LEMMA ConsistentLoads == TypeOK /\ Consistent => AlwaysLoads
<1> SUFFICES ASSUME TypeOK, KeyFits, Explained PROVE Loads(key, ledger, journals)
  BY DEF AlwaysLoads, Consistent
<1>1. CASE ledger = Absent
  BY <1>1 DEF KeyFits, Explained, Loads, LoadsWithout, Readable
<1>2. CASE ledger # Absent
  <2>1. ledger.schema \in {2, 3} /\ ledger.gen \in Nat
    BY <1>2 DEF TypeOK, LedgerFile
  <2>2. key # Absent => key.gen \in Nat
    BY DEF KeyFits, TypeOK, KeyFile
  <2> QED
    BY <1>2, <2>1, <2>2 DEF KeyFits, Explained, Loads, LoadsCurrent, LoadsOld, Readable
<1> QED
  BY <1>1, <1>2

LEMMA ConsistentAlways == LedgerSpec => [](TypeOK /\ Consistent)
<1>1. LedgerInit => TypeOK /\ Consistent
  BY InitType, ConsistentInit
<1>2. TypeOK /\ Consistent /\ [LedgerNext]_ledgerVars => TypeOK' /\ Consistent'
  BY StepType, ConsistentStep
<1> QED
  BY <1>1, <1>2, PTL DEF LedgerSpec

\* Stopping between any two of the writes never leaves files that do not load.
THEOREM InterruptedWritesLoad == LedgerSpec => []AlwaysLoads
  BY ConsistentAlways, ConsistentLoads, PTL

\* No pending journal is left without the fingerprints that explain it.
THEOREM JournalsAreExplained == LedgerSpec => []JournalExplained
<1>1. Consistent => JournalExplained
  BY DEF Consistent, Explained, JournalExplained
<1> QED
  BY <1>1, ConsistentAlways, PTL

-----------------------------------------------------------------------------
(* One act on the ledger file: removal, an older copy, or an edit.         *)

Files == ledgers \ {Absent}

Newest ==
    /\ key # Corrupt /\ (key # Absent => key.form = "v3")
    /\ ledger # Absent => ledger.schema = 3
    /\ \A l \in Files : l.schema = 3
    /\ pc # "idle" => kf = key
    /\ ~Committed(key) => acked = {}
    /\ ledger # Absent /\ LoadsCurrent(key, ledger) => acked \subseteq Entries(ledger)
    /\ pc \in {"key", "ledger"} => acked \subseteq Entries(got)
    /\ pc = "commit" =>
           /\ acked \union {item} \subseteq Entries(got)
           /\ ledger # Absent /\ ledger.sound /\ ledger.gen >= got.gen => ledger = got

OneNewest == touched.ledger = 0 =>
    /\ \A l \in Files : ledger # Absent /\ (l.gen >= ledger.gen => l = ledger)
    /\ \A l \in Files : key # Absent /\ l.gen >= key.gen => acked \subseteq Entries(l)
    /\ pc \in {"key", "ledger"} => got = Content(ledger)
    /\ pc = "commit" => got = ledger

LEMMA NewestInit == LedgerInit /\ touched.of.inherited = {} => Newest /\ OneNewest
  BY DEF LedgerInit, Newest, OneNewest, Files, Entries, Content, Committed, Readable, NoLedger

LEMMA LoadedIsNewest ==
  ASSUME TypeOK, Newest, Loads(key, ledger, journals)
  PROVE  acked \subseteq Entries(ledger)
<1>1. CASE ledger = Absent
  BY <1>1 DEF Newest, Loads, LoadsWithout, Committed, Readable
<1>2. CASE ledger # Absent
  BY <1>2 DEF Newest, Loads
<1> QED
  BY <1>1, <1>2

LEMMA NewestStep ==
  ASSUME LedgerTouchedOnce(touched.of), TypeOK, Newest, OneNewest, [LedgerNext]_ledgerVars
  PROVE  Newest' /\ OneNewest'
<1>1. ASSUME NEW k \in {"forget", "purge"}, NEW i \in Items, Begin(k, i)
      PROVE  Newest' /\ OneNewest'
  <2>1. acked \subseteq Entries(ledger) /\ Entries(Content(ledger)) = Entries(ledger)
    BY <1>1, LoadedIsNewest DEF Begin, Entries, Content, NoLedger
  <2>2. Newest'
    BY <1>1, <2>1 DEF Begin, Newest, fileVars, histVars, Files, Committed, Readable, LoadsCurrent, Entries, Content
  <2>3. OneNewest'
    BY <1>1 DEF Begin, OneNewest, fileVars, histVars, Files, Entries, Content
  <2> QED
    BY <2>2, <2>3
<1>2. CASE KeepKey
  BY <1>2 DEF KeepKey, Newest, OneNewest, fileVars, histVars, Files, Committed, Readable,
              LoadsCurrent, Entries, Content
<1>3. CASE UpgradeKey
  BY <1>3 DEF UpgradeKey, Newest, Readable
<1>4. CASE CreateKey
  <2>1. PICK kid \in Kids : WriteKey(NewKey(kid))
    BY <1>4 DEF CreateKey
  <2>2. NewKey(kid) \in KeyFile /\ NewKey(kid).form = "v3"
    BY DEF NewKey, KeyFile
  <2>3. acked = {}
    BY <1>4 DEF CreateKey, Newest, Committed, Readable
  <2>4. Newest'
    BY <1>4, <2>1, <2>2, <2>3 DEF CreateKey, WriteKey, Newest, Files, Entries, Content
  <2>5. OneNewest'
    BY <1>4, <2>1, <2>3 DEF CreateKey, WriteKey, OneNewest, Files, Entries, Content
  <2> QED
    BY <2>4, <2>5
<1>5. CASE WriteLedger
  <2>1. kf \in KeyFile /\ kf = key /\ got \in LedgerFile /\ ledger' \in LedgerFile
    BY <1>5, StepType, WritesAll DEF WriteLedger, TypeOK, Newest
  <2>2. NextGen \in Nat /\ key.gen < NextGen /\ got.gen < NextGen
    BY <2>1 DEF NextGen, KeyFile, LedgerFile
  <2>3. /\ ledger' # Absent /\ got' = ledger' /\ ledger'.gen = NextGen
        /\ ledger'.schema = 3 /\ Files' = Files \union {ledger'}
        /\ key' = key /\ kf' = kf /\ acked' = acked /\ item' = item
        /\ touched' = touched /\ pc' = "commit"
    BY <1>5, <2>1 DEF WriteLedger, Files
  <2>4. acked \union {item} \subseteq Entries(ledger')
    BY <1>5, WritesAll DEF WriteLedger, Newest
  <2>5. Newest'
    BY <2>3, <2>4, <2>1 DEF Newest, Committed, Readable
  <2>6. ASSUME touched.ledger = 0 PROVE OneNewest'
    <3>1. \A l \in Files : l.gen \in Nat /\ l.gen < NextGen
      <4>1. ASSUME NEW l \in Files PROVE l.gen \in Nat /\ l.gen < NextGen
        <5>1. l \in LedgerFile /\ ledger # Absent /\ ledger \in LedgerFile
          BY <2>6, <4>1 DEF TypeOK, Files, OneNewest
        <5>2. got = ledger
          BY <1>5, <2>6, <5>1 DEF OneNewest, WriteLedger, Content
        <5>3. l.gen \in Nat /\ ledger.gen \in Nat
          BY <5>1 DEF LedgerFile
        <5> QED
          BY <2>2, <2>6, <4>1, <5>2, <5>3 DEF OneNewest
      <4> QED
        BY <4>1
    <3> QED
      BY <2>2, <2>3, <2>4, <2>6, <3>1 DEF OneNewest
  <2> QED
    BY <2>3, <2>5, <2>6 DEF OneNewest
<1>6. CASE CommitKey
  <2>1. kf \in KeyFile /\ got \in LedgerFile
    BY <1>6 DEF CommitKey, TypeOK
  <2>2. /\ key' = [form |-> "v3", kid |-> kf.kid, gen |-> got.gen, committed |-> TRUE]
        /\ kf' = key' /\ acked' = acked \union {item} /\ pc' \in {"idle", "journal"}
        /\ ledger' = ledger /\ ledgers' = ledgers /\ touched' = touched /\ pc = "commit"
    BY <1>6 DEF CommitKey
  <2>3. key' \in KeyFile /\ key'.form = "v3" /\ key'.gen = got.gen /\ key'.committed
    BY <2>1, <2>2 DEF KeyFile, LedgerFile
  <2>4. Committed(key')
    BY <2>3 DEF Committed, Readable
  <2>5. acked' \subseteq Entries(got)
    BY <2>2 DEF Newest
  <2>6. Newest'
    BY <2>2, <2>3, <2>4, <2>5 DEF Newest, LoadsCurrent, Files, Entries, Content
  <2>7. OneNewest'
    BY <2>2, <2>3, <2>5 DEF OneNewest, Files
  <2> QED
    BY <2>6, <2>7
<1>7. CASE WriteJournal
  BY <1>7 DEF WriteJournal, Newest, OneNewest, histVars, Files, Committed, Readable,
              LoadsCurrent, Entries, Content
<1>8. CASE FinishPurge
  BY <1>8 DEF FinishPurge, Newest, OneNewest, histVars, Files, Committed, Readable,
              LoadsCurrent, Entries, Content
<1>9. CASE Stop
  BY <1>9 DEF Stop, Newest, OneNewest, fileVars, histVars, Files, Committed, Readable,
              LoadsCurrent, Entries, Content
<1>10. ASSUME NEW q \in Readers, ReaderStep(q) PROVE Newest' /\ OneNewest'
  BY <1>10 DEF ReaderStep, ReadKey, ReadLedger, ReadJournals, Newest, OneNewest, fileVars,
               opVars, histVars, Files, Committed, Readable, LoadsCurrent, Entries, Content
<1>11. CASE TouchLedger
  <2>1. touched.ledger = 0 /\ touched'.ledger = 1
    <3>1. touched.of.ledgerFaults \in Nat
      BY Touches
    <3>2. touched.ledger < touched.of.ledgerFaults
      BY <1>11 DEF TouchLedger
    <3> QED
      BY <1>11, <3>1, <3>2, Touches DEF LedgerTouchedOnce
  <2>2. /\ key' = key /\ acked' = acked /\ ledgers' = ledgers
        /\ pc' = pc /\ got' = got /\ kf' = kf /\ item' = item
    BY <1>11 DEF TouchLedger, opVars
  <2>3. ledger' # Absent => ledger'.schema = 3 /\ (ledger' \in Files \/ ~ledger'.sound)
    <3>1. ASSUME NEW i, ledger # Absent, ledger.schema = 3,
                 ledger' = [ledger EXCEPT !.revoked = @ \ {i}, !.purges = @ \ {i},
                                          !.sound = FALSE]
          PROVE  ledger'.schema = 3 /\ ~ledger'.sound
      BY <3>1 DEF TypeOK, LedgerFile
    <3> QED
      BY <1>11, <3>1 DEF TouchLedger, Newest, Files
  <2>4. ledger' # Absent /\ LoadsCurrent(key, ledger') => acked \subseteq Entries(ledger')
    BY <2>1, <2>3 DEF OneNewest, LoadsCurrent, Readable
  <2>5. pc = "commit" /\ ledger' # Absent /\ ledger'.sound /\ ledger'.gen >= got.gen =>
            ledger' = got
    BY <2>1, <2>3 DEF OneNewest
  <2>6. Newest'
    BY <2>2, <2>3, <2>4, <2>5 DEF Newest, Files, Committed, Readable, LoadsCurrent, Entries, Content
  <2> QED
    BY <2>1, <2>6 DEF OneNewest
<1>12. CASE TouchKey
  <2>1. touched.key \in Nat /\ touched.key < 0
    BY <1>12, Touches DEF TouchKey, LedgerTouchedOnce
  <2> QED
    BY <2>1
<1>13. CASE UNCHANGED ledgerVars
  BY <1>13 DEF ledgerVars, fileVars, opVars, histVars, Newest, OneNewest, Files, Committed,
               Readable, LoadsCurrent, Entries, Content
<1> QED
  BY <1>1, <1>2, <1>3, <1>4, <1>5, <1>6, <1>7, <1>8, <1>9, <1>10, <1>11, <1>12, <1>13
     DEF LedgerNext, OpStep

\* Whatever is done to the key file, and in a migrated deployment too, a ledger
\* that loads hides everything a completed forget or purge has hidden; and one
\* lost, rolled-back or edited ledger file, at any point of any operation, is
\* refused or hides everything that was acknowledged.
THEOREM LoadedIsWhole ==
  ASSUME \A d \in Deployments : LedgerIsLeft(d) \/ LedgerTouchedOnce(d)
  PROVE  LedgerSpec => []LoadsWhole
<1> DEFINE Whole == /\ LedgerIsLeft(touched.of) => Kept
                    /\ LedgerTouchedOnce(touched.of) => Newest /\ OneNewest
<1>1. LedgerInit => TypeOK /\ Whole
  BY InitType, KeptInit, NewestInit DEF LedgerTouchedOnce
<1>2. TypeOK /\ Whole /\ [LedgerNext]_ledgerVars => TypeOK' /\ Whole'
  <2> SUFFICES ASSUME TypeOK, Whole, [LedgerNext]_ledgerVars PROVE TypeOK' /\ Whole'
    OBVIOUS
  <2>1. TypeOK' /\ touched'.of = touched.of
    BY StepType, SameDeployment
  <2>2. LedgerIsLeft(touched'.of) => Kept'
    BY <2>1, KeptStep
  <2>3. LedgerTouchedOnce(touched'.of) => Newest' /\ OneNewest'
    BY <2>1, NewestStep
  <2> QED
    BY <2>1, <2>2, <2>3
<1>3. TypeOK /\ Whole => LoadsWhole
  <2> SUFFICES ASSUME TypeOK, Whole, Loads(key, ledger, journals)
               PROVE  acked \subseteq Hides(key, ledger)
    BY DEF LoadsWhole
  <2>1. touched.of \in Deployments
    BY Touches
  <2>2. acked \subseteq Entries(ledger)
    BY <2>1, LoadedIsNewest DEF Kept
  <2>3. Entries(ledger) \subseteq Hides(key, ledger)
    BY LoadedHides DEF TypeOK
  <2> QED
    BY <2>2, <2>3
<1> QED
  BY <1>1, <1>2, <1>3, PTL DEF LedgerSpec
=============================================================================
