--------------------------- MODULE TombstoneLedger ---------------------------
(***************************************************************************)
(* The tombstone ledger (internal/app/ledger.go): two files that prove     *)
(* each other, ledger/tombstones.json and ledger/purge.key, and the        *)
(* journals of interrupted purges under ledger/pending.                    *)
(*                                                                         *)
(* One maintenance operation at a time (a forget or a purge) holds the     *)
(* flock and writes key, ledger and key again; it may stop between any two *)
(* writes.  Readers load the files without the lock, one after the other.  *)
(* The operator may restore, remove or edit a file at any time.            *)
(***************************************************************************)
EXTENDS Naturals

CONSTANTS
    Items,        \* record ids and sources that may be forgotten or purged
    Kids,         \* key ids a random key may have
    Readers,      \* processes that load the ledger, once each
    Absent,       \* no such file
    Corrupt,      \* a key file that does not parse
    NoKid, NoItem,
    MaxGen,       \* bound on generations (2^64 - 1 in the code)
    Deployments   \* purges brought along in a schema-2 ledger, and how often
                  \* the operator touches the ledger and the key file

KeyFile == [form : {"legacy", "v3"}, kid : Kids, gen : 0 .. MaxGen,
            committed : BOOLEAN]

\* sound: the authentication tag matches the entries.  A schema-2 ledger has
\* neither tag, nor generation, nor key id.
LedgerFile == [schema : {2, 3}, kid : Kids \union {NoKid}, gen : 0 .. MaxGen,
               revoked : SUBSET Items, purges : SUBSET Items, sound : BOOLEAN]

ASSUME LedgerAssumption ==
    /\ Absent # Corrupt /\ {Absent, Corrupt} \cap KeyFile = {}
    /\ Absent \notin LedgerFile
    /\ NoKid \notin Kids /\ NoItem \notin Items
    /\ Deployments \subseteq
         [inherited : SUBSET Items, ledgerFaults : Nat, keyFaults : Nat]
    /\ MaxGen \in Nat

VARIABLES
    ledger,     \* tombstones.json
    key,        \* purge.key
    journals,   \* pending purge journals
    pc,         \* the maintenance operation
    kind, item, \* what it does, and to which item
    got,        \* the ledger it loaded
    kf,         \* the key record it goes by
    acked,      \* history: items a completed ledger write hides
    ledgers,    \* history: every ledger file there has been
    keys,       \* history: every key file there has been
    touched,    \* how often the operator touched [ledger, key], of what deployment
    readers     \* the readers

fileVars == <<ledger, key, journals>>
opVars   == <<pc, kind, item, got, kf>>
histVars == <<acked, ledgers, keys, touched>>
ledgerVars     == <<fileVars, opVars, histVars, readers>>

Readable(k)  == k \notin {Absent, Corrupt}
Committed(k) == Readable(k) /\ k.form = "v3" /\ k.committed

\* LoadLedger: whether the three reads are proved consistent.
LoadsWithout(k, j) ==
    /\ j = {}
    /\ k = Absent \/ (Readable(k) /\ k.form = "v3" /\ ~k.committed)
\* Variant: the generations are not compared.
LoadsAnyGeneration(k, l) ==
    /\ Readable(k) /\ k.form = "v3"
    /\ k.kid = l.kid /\ l.sound
LoadsCurrent(k, l) ==
    /\ Readable(k) /\ k.form = "v3"
    /\ k.kid = l.kid /\ l.gen >= k.gen /\ l.sound
LoadsOld(k, l) ==
    /\ k # Corrupt /\ ~Committed(k)
    /\ l.purges # {} => k # Absent
Loads(k, l, j) ==
    \/ l = Absent /\ LoadsWithout(k, j)
    \/ /\ l # Absent
       /\ j # {} => l.purges # {} /\ Readable(k)
       /\ \/ l.schema = 3 /\ LoadsCurrent(k, l)
          \/ l.schema = 2 /\ LoadsOld(k, l)

NoLedger   == [schema |-> 3, kid |-> NoKid, gen |-> 0, revoked |-> {},
               purges |-> {}, sound |-> TRUE]
Content(l) == IF l = Absent THEN NoLedger ELSE l

Entries(l) == Content(l).revoked \union Content(l).purges

\* What a loaded ledger hides on every surface; fingerprints need their key.
Matches(k, l) == Readable(k) /\ (l.schema = 3 => k.kid = l.kid)
Hides(k, l)   == Content(l).revoked \union
                   (IF Matches(k, Content(l)) THEN Content(l).purges ELSE {})

LegacyKey(kid) == [form |-> "legacy", kid |-> kid, gen |-> 0, committed |-> FALSE]
NewKey(kid)    == [form |-> "v3", kid |-> kid, gen |-> 0, committed |-> FALSE]

Reader == [pc : {"key", "ledger", "journals", "ok", "unusable"},
           key : KeyFile \union {Absent, Corrupt},
           ledger : LedgerFile \union {Absent},
           before : SUBSET Items]

Schema2(purges) == [schema |-> 2, kid |-> NoKid, gen |-> 0, revoked |-> {},
                    purges |-> purges, sound |-> TRUE]

\* A fresh deployment, or one that carries a schema-2 ledger with its bare key.
LedgerInit ==
    /\ \E d \in Deployments :
         /\ touched = [ledger |-> 0, key |-> 0, of |-> d] /\ acked = d.inherited
         /\ IF d.inherited = {} THEN ledger = Absent /\ key = Absent
            ELSE ledger = Schema2(d.inherited) /\ \E k \in Kids : key = LegacyKey(k)
    /\ journals = {}
    /\ pc = "idle" /\ kind = "forget" /\ item = NoItem
    /\ got = NoLedger /\ kf = Absent
    /\ ledgers = {ledger} /\ keys = {key}
    /\ readers = [r \in Readers |-> [pc |-> "key", key |-> Absent,
                                     ledger |-> Absent, before |-> {}]]

-----------------------------------------------------------------------------
(* Forget and the ledger part of PhysicalPurge, under the lock.            *)

\* A ledger that does not load refuses the operation.
Begin(k, i) ==
    /\ pc = "idle" /\ Loads(key, ledger, journals)
    /\ kind' = k /\ item' = i
    /\ got' = Content(ledger) /\ kf' = key
    /\ pc' = "key"
    /\ UNCHANGED <<fileVars, histVars, readers>>

\* ensureKey: a v3 key is there, a legacy key is rewritten with its bytes
\* kept, a new key is created exclusively.
KeepKey ==
    /\ pc = "key" /\ Readable(kf) /\ kf.form = "v3"
    /\ pc' = "ledger"
    /\ UNCHANGED <<fileVars, kind, item, got, kf, histVars, readers>>

WriteKey(k) ==
    /\ key' = k /\ kf' = k /\ keys' = keys \union {k}
    /\ pc' = "ledger"
    /\ UNCHANGED <<ledger, journals, kind, item, got, acked, ledgers, touched,
                   readers>>

UpgradeKey ==
    /\ pc = "key" /\ Readable(kf) /\ kf.form = "legacy"
    /\ WriteKey(NewKey(kf.kid))

CreateKey ==
    /\ pc = "key" /\ kf = Absent /\ key = Absent
    /\ \E k \in Kids : WriteKey(NewKey(k))

\* Variant: an operation writes its own kind of entry only.
RevokedAlone == IF kind = "forget" THEN {item} ELSE got.revoked \ {item}

\* The entries an operation adds; a purge drops the plain revocation.
Revoked == IF kind = "forget" THEN got.revoked \union {item} ELSE got.revoked \ {item}
Purges  == IF kind = "forget" THEN got.purges ELSE got.purges \union {item}
NextGen == (IF kf.gen > got.gen THEN kf.gen ELSE got.gen) + 1

\* saveLedger, the ledger file.
WriteLedger ==
    /\ pc = "ledger" /\ NextGen <= MaxGen
    /\ ledger' = [schema |-> 3, kid |-> kf.kid, gen |-> NextGen,
                  revoked |-> Revoked, purges |-> Purges, sound |-> TRUE]
    /\ got' = ledger' /\ ledgers' = ledgers \union {ledger'}
    /\ pc' = "commit"
    /\ UNCHANGED <<key, journals, kind, item, kf, acked, keys, touched, readers>>

\* saveLedger, the key file records the generation.
CommitKey ==
    /\ pc = "commit"
    /\ key' = [form |-> "v3", kid |-> kf.kid, gen |-> got.gen, committed |-> TRUE]
    /\ kf' = key' /\ keys' = keys \union {key'}
    /\ acked' = acked \union {item}
    /\ pc' = IF kind = "forget" THEN "idle" ELSE "journal"
    /\ UNCHANGED <<ledger, journals, kind, item, got, ledgers, touched, readers>>

WriteJournal ==
    /\ pc = "journal"
    /\ journals' = journals \union {item}
    /\ pc' = "erase"
    /\ UNCHANGED <<ledger, key, kind, item, got, kf, histVars, readers>>

\* The purge erased everything and removes its journal.
FinishPurge ==
    /\ pc = "erase"
    /\ journals' = journals \ {item}
    /\ pc' = "idle"
    /\ UNCHANGED <<ledger, key, kind, item, got, kf, histVars, readers>>

\* A crash or a returned error: the lock is released, the files stay.
Stop ==
    /\ pc # "idle"
    /\ pc' = "idle"
    /\ UNCHANGED <<fileVars, kind, item, got, kf, histVars, readers>>

-----------------------------------------------------------------------------
(* Read surfaces load without the lock: key, ledger, pending journals.     *)

ReadKey(r) ==
    /\ readers[r].pc = "key"
    /\ readers' = [readers EXCEPT ![r] =
                     [pc |-> "ledger", key |-> key, ledger |-> Absent, before |-> acked]]
    /\ UNCHANGED <<fileVars, opVars, histVars>>

ReadLedger(r) ==
    /\ readers[r].pc = "ledger"
    /\ readers' = [readers EXCEPT ![r] =
                     [pc |-> "journals", key |-> @.key, ledger |-> ledger, before |-> @.before]]
    /\ UNCHANGED <<fileVars, opVars, histVars>>

ReadJournals(r) ==
    /\ readers[r].pc = "journals"
    /\ readers' = [readers EXCEPT ![r] =
                     [pc |-> IF Loads(@.key, @.ledger, journals) THEN "ok" ELSE "unusable",
                      key |-> @.key, ledger |-> @.ledger, before |-> @.before]]
    /\ UNCHANGED <<fileVars, opVars, histVars>>

-----------------------------------------------------------------------------
(* The operator removes a file, restores any backup of it, or edits a      *)
(* schema-3 ledger in place (a schema-2 ledger carries no tag).            *)

TouchLedger ==
    /\ touched.ledger < touched.of.ledgerFaults
    /\ touched' = [touched EXCEPT !.ledger = @ + 1]
    /\ \/ ledger' \in ledgers \union {Absent}
       \/ /\ ledger # Absent /\ ledger.schema = 3
          /\ \E i \in Entries(ledger) :
               ledger' = [ledger EXCEPT !.revoked = @ \ {i}, !.purges = @ \ {i},
                                        !.sound = FALSE]
    /\ UNCHANGED <<key, journals, opVars, acked, ledgers, keys, readers>>

TouchKey ==
    /\ touched.key < touched.of.keyFaults
    /\ touched' = [touched EXCEPT !.key = @ + 1]
    /\ key' \in keys \union {Absent, Corrupt}
    /\ UNCHANGED <<ledger, journals, opVars, acked, ledgers, keys, readers>>

-----------------------------------------------------------------------------
OpStep ==
    \/ \E k \in {"forget", "purge"}, i \in Items : Begin(k, i)
    \/ KeepKey \/ UpgradeKey \/ CreateKey
    \/ WriteLedger \/ CommitKey \/ WriteJournal \/ FinishPurge
    \/ Stop

ReaderStep(r) == ReadKey(r) \/ ReadLedger(r) \/ ReadJournals(r)

LedgerNext ==
    \/ OpStep
    \/ \E r \in Readers : ReaderStep(r)
    \/ TouchLedger \/ TouchKey

LedgerSpec == LedgerInit /\ [][LedgerNext]_ledgerVars

-----------------------------------------------------------------------------
\* Every variable has its type.
TypeOK ==
    /\ ledger \in LedgerFile \union {Absent}
    /\ key \in KeyFile \union {Absent, Corrupt}
    /\ journals \in SUBSET Items
    /\ pc \in {"idle", "key", "ledger", "commit", "journal", "erase"}
    /\ kind \in {"forget", "purge"}
    /\ item \in Items \union {NoItem}
    /\ pc # "idle" => item \in Items
    /\ got \in LedgerFile
    /\ kf \in KeyFile \union {Absent, Corrupt}
    /\ pc \in {"ledger", "commit", "journal", "erase"} => kf \in KeyFile
    /\ acked \in SUBSET Items
    /\ ledgers \in SUBSET (LedgerFile \union {Absent})
    /\ keys \in SUBSET (KeyFile \union {Absent})
    /\ touched \in [ledger : Nat, key : Nat, of : Deployments]
    /\ readers \in [Readers -> Reader]

Untouched == touched.ledger = 0 /\ touched.key = 0

\* An interruption at any write leaves a ledger that loads: unless somebody
\* touches the files, no forget or purge can close every surface.
AlwaysLoads == Untouched => Loads(key, ledger, journals)

\* A ledger that loads hides everything a completed write has hidden: lost or
\* rolled-back enforcement state fails closed instead.
LoadsWhole == Loads(key, ledger, journals) => acked \subseteq Hides(key, ledger)

\* The lock-free read of the two files, with writes in between, is refused or
\* hides at least what was hidden when it began.
ReaderIsCurrent ==
    \A r \in Readers :
        readers[r].pc = "ok" =>
            readers[r].before \subseteq Hides(readers[r].key, readers[r].ledger)

\* Every pending journal is explained by the ledger.
JournalExplained ==
    Untouched /\ journals # {} => ledger # Absent /\ journals \subseteq ledger.purges

=============================================================================
