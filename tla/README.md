# Verification of beme

TLA+ models of [beme](../src/README.md), a local tool (Go, about 21,000 lines without tests) that gives
coding agents a *twin* of its operator (preferences and decisions compiled from documents into two
projection stores, and served under a policy) and a *brain* (a vault of markdown notes that sessions capture
and a maintenance pass, Brain Doctor, curates). Every process is short: a command, a session hook or an MCP
server. There is no daemon, so all coordination goes through files, and a process may die between any two
file operations. That is where most of the hard behaviour of this code is. The rest is in the pure pipeline
from a document to a pack, where many small rules together decide what an agent is told.

## Inventory

| Component | State it keeps | Operations | What makes it correct |
|---|---|---|---|
| Brain capture accounting (`brain/state.go`, `capture.go`) | per project: 128 intent slots, a counter file, a lock file | capture (reserve a slot, publish, complete, reset), session start, read | no accepted capture is lost, a reported count misses none, the counter is exact, a capture always returns |
| Brain Doctor (`brain/doctor.go`, `note.go`, `read.go`) | inbox, live notes, archive, rejected proposals | promote, merge, supersede, keep the newest summaries, reject, prune | no note is destroyed, recaptures count once, only a later decision replaces one, everything settles |
| Note retirement (`brain/capture.go`) | as Doctor | done, archive | as Doctor |
| Backup and restore (`brain/backup.go`) | snapshots, checksums | snapshot, retention, restore, rollback | what is restored is the snapshot, no note is lost on the way |
| Vault: registry, lock, freeze (`brain/vault.go`) | `project.yaml` of every slug, `.lock`, `.frozen` | register, resolve a directory, freeze | one maintainer at a time; no registration is lost; a directory belongs to at most one project |
| Session nudge, stop check (`brain/nudge.go`, `cmd/beme/brain_stopcheck.go`) | a window of reminded sessions | the Stop hook | one reminder for the same work, none forgotten |
| Gate, briefing, status, log (`brain/gate.go`, `briefing.go`, ...) | none | check, render | nothing unsupported or of another project is injected; a byte budget is kept; what is left out is said |
| Tombstone ledger (`app/ledger.go`) | ledger, key file, journals | load, forget, upgrade, save | a lost or rolled-back file never shows what was forgotten |
| Physical purge, build, visibility (`app/purge.go`, `app.go`, `visibility.go`, `storage/purge.go`) | two stores, traces, observations, journals, sources | purge, resume, build, resolve | what a purge reports erased is erased, stays hidden, never comes back |
| Decision traces, expansion (`app/trace.go`, `expand.go`) | trace files; packs in memory | record, prune; register, expand | an answer follows ledger and store; a pack expires and follows the generation |
| Services: status, evaluation inputs, MCP server (`app/health.go`, `evalinputs.go`, `cmd/beme/mcp.go`) | an attached store | status, resolve, inputs | a degraded answer says so |
| Learning ledger (`learning/store.go`, `app/learning.go`) | observations, candidates, tombstones | observe, review | a rejection stays one, repetitions are one proposal, counts are reports |
| Durable files (`durable/`) | a file, its directory, temporary files | replace, create, remove, erase, make directories | a crash leaves the old or the new file; an erase leaves no content behind a name |
| Store and migration (`storage/`) | rows, metadata, schema version | put, wipe, purge, read, migrate | what is not readable is not shown |
| Ingestion (`ingestion/`) | none | walk, parse, extract, normalise | what the descriptor declares and nothing else; an example is not a decision |
| Projection, resolver, policy, workspaces | none (pure) | clamp, gate, rank, budget | the registration bounds everything; precedence before score; nothing dropped silently |
| Evaluation runner (`evalrunner/`) | a run's bundle of artefacts, grades | run, verify, import grades, compare | a benefit is reported only for matched, reviewed, complete evidence |
| Command line, benchmark, corpora, contracts, scripts | none of their own | dispatch, batch work | |

How they interact: capture publishes into the inbox without a lock and then takes the *state* lock of its
project; Doctor, retirement and restore take the *vault* lock; forget, purge and build take the *maintenance*
flock of the data directory, and so does the review of observations; resolutions, the other calls of the MCP
server, briefings, status and snapshots by hand take no lock and read files one after the other. Locks of the
brain are files that turn stale after a minute.

The hard behaviours are listed under `hazards` in `PROJECT.json`: crashes between file operations and the
recovery of the next run; lock-free readers and writers beside lock holders; stale locks; files restored from
older copies; a step of several failing; limits (slots, pages, retries, windows, retention, budgets, epochs).

## Modules

| Module | What it is |
|---|---|
| `AccountingPromise` | what the capture accounting promises to its readers, without files |
| `CaptureAccounting` | slots, lock, counter file, one action per file operation; implements `AccountingPromise` |
| `TombstoneLedger` | the ledger and its key, two files that prove each other |
| `PhysicalPurge` | a purge beside builds, lock-free resolutions and restored data directories; takes the ledger as one value |
| `BrainDoctor` | the maintenance of one project's vault beside captures and people |
| `VaultRestore` | snapshots and restores of a vault beside Doctor and captures |
| `SourceWalk` | the walk of one registered source, with its patterns and limits |
| `EntryText` | which text of a document becomes its statement, line by line |
| `Ingestion` | from a document to a clamped record, pure operators |
| `Resolution` | one resolution from the documents to the delivered pack; uses `Ingestion` |
| `Serving` | the calls of a server beside builds, forgets, purges and damaged stores |
| `LearningReview` | the observation queue: reports, reviews, purges of hidden observations |
| `DurableFile` | one file under the durable operations, losses of power and outside programs |
| `VaultAccess` | the vault lock, freeze and schema gates, registration, the project of a directory |
| `SessionReminder` | the Stop hook's reminder and its window of marks |
| `Briefing` | the briefing: scan, screen, warnings, sections, byte budget |
| `Evaluation` | a run, its bundle, its reviewers and the paired comparison |
| `CaptureAccountingProofs`, `TombstoneLedgerProofs`, `PhysicalPurgeProofs`, `BrainDoctorProofs`, `VaultRestoreProofs`, `ServingProofs` | the theorems of the module each is named after, checked by TLAPS |
| `PipelineProofs` | theorems of `Resolution` (with `Ingestion`), `EntryText` and `SourceWalk` |
| `LocalProofs` | theorems of `LearningReview`, `VaultAccess`, `SessionReminder`, `DurableFile`, `Evaluation` and `Briefing` |
| `MC...` | the instances TLC checks |

`TombstoneLedger` justifies the atomic ledger of `PhysicalPurge`; `VaultRestore` and `BrainDoctor` share the
vault lock, and each takes from the other only what it needs (Doctor's snapshot succeeds or fails; a
restore sees Doctor as one note written in its new place and removed from its old one). `DurableFile` is what
the others rely on when they replace a file in one step. `Serving` refines what `PhysicalPurge` takes as one
resolution into the reads of each call, and takes the plan of a purge as one step; what a pack selects is
`Resolution`'s. `VaultAccess` has the lock that `BrainDoctor` and `VaultRestore` take as an exclusion.
`MCStores`, `MCPipeline` (which `MCServing` extends) and `MCLocal` put parts that share no state side by side: a
behaviour chooses its part at the start, so that one run checks each alone. Definitions marked
*Variant* are plausible wrong versions of the definition beside them; no specification uses them. They show
that a property notices the mistake.

### CaptureAccounting

`slots` are the files `<slug>.capture-NNN`, `state` is `<slug>.yaml`, `lock` is `<slug>.lock`. The control
state `pc` follows `markCapture` (`ReserveSlot`, `SkipSlot`, `WriteIntent`), `writeExclusive` (`Publish`),
`cancelCapture`, `recordCapture` and `updateState` (`AcquireLock`, `SeeStaleLock`/`BreakLock`, `LoadState`,
the re-check of its own receipt, the commit, `ReclaimSlot`, the release) and, for readers, `readState`: the
state, the slots, the state again. A file has an identity (`ino`), because the code compares files with
`os.SameFile` and the system hands the identity of a removed file out again. `included` is a ghost: the
captures that the epochs of the state account for. Left out: the window of session ids that a session start
keeps (that of the reminders is in `SessionReminder`) and receipts of the format before slots.

Any number of waiters may see one stale lock (`SeeStaleLock`, an `Lstat`) and remove what lies at its path then
(`BreakLock`), which may be the lock that another of them has just taken. `Spec` has all of that, and run
`capture_two_waiters` shows what follows. `ApartSpec` is `Spec` under one condition, `OneWaiter`: no two waiters
stand between these two steps. All that is promised of counts is promised of `ApartSpec`; that captures return
is checked of `Spec`. One assumption is in `Spec` itself: a live holder is never a minute in its critical
section (`LockTurnsStale`).

### TombstoneLedger

A forget or a purge loads the files (`Begin`), makes sure of a key (`KeepKey`, `UpgradeKey`, `CreateKey`),
writes the ledger (`WriteLedger`), writes its generation into the key file (`CommitKey`), and for a purge
writes and removes a journal; `Stop` is a crash or an error between any two. `Loads` is `LoadLedger`, with
the older schema and the bare key it accepts. Readers take three steps without the lock. The operator loses,
restores or edits files (`TouchLedger`, `TouchKey`), as often as the deployment's budget says.

### PhysicalPurge

`RequestPurge`, `ResumePurge` and the steps after them are `PhysicalPurge` in the order of its writes: plan,
ledger, journal, stores (`PurgeStore`, `CompactStore`), traces, observations, sources, the journal's removal.
`FailPurge` ends it anywhere. `BuildStep` is `BuildProfile`: erase hidden rows, wipe, ingest. A resolution reads
the ledger, then the store, then writes its trace, without the lock. `rows` and `bytes` are apart because a
deleted row stays in the file until it is compacted. `Restore` puts a data directory back without its ledger.
Left out: dry runs; one source is ingested in one step. The store tombstones of Forget, the recovery of a
corrupt store and the pruning of traces are in `Serving`.

### BrainDoctor

A run reads the live notes once (`run.view`) and then goes through its phases: supersessions an earlier run
left undone, the inbox page in the order of the capture instants, summary retention, pruning of
rejections. Each file operation is an action: a merge is `Merge` (archive), `WriteTarget`, `WriteReceipt`,
`RemoveProposal`; a retirement is `Retire`, `RemoveLive`. `FailRetire`, `FailHandle`, `FailOp` are operations
that fail and are reported, `TimeUp` is the deadline of the inbox, `Crash` the death of a process.

Reads fail too, and the code takes that for absence. `BeginPartly` starts a run that could not read some live
notes; `FailRead` is the failed read, at the turn of a proposal, of its live or its archived copy
(`doctor.go:260-262`), after which `LiveRead` and `ArchiveRead` say that there is none; `RejectRaw` refuses a
proposal that could not be read itself. `overlooked` is a ghost: the proposals that were handled while a copy was
there and could not be read. `NeverResurrected` excepts exactly those, `CountedOnce` the claims they belong to,
and `NewestSummariesStay` runs that promoted one of them over its live copy (`twice`: it is then listed twice,
and retention counts the second entry). `NothingDestroyed`, `SupersededByLater`, `ValidatedDecisionsStay` and
`ProposalsSettle` need no exception for reads.

People archive notes under the lock (`BeginRetire`, `EndRetire`) and edit notes without it (`Validate`). Left out:
index and log, audit flags (they change no note), colliding ids, several projects, and the failure of the
removal of an expired rejection. The flags of the audit are in `Briefing`.

### VaultRestore

The vault is a set of top-level entries, each with the notes below it. A snapshot walks them one after the
other in the order of their names; `Publish` is its rename, its checksum and retention. A restore is `Stage`
(checksum and extraction, before the lock), `Enter` (lock, pre-restore snapshot), `Move`, `Install`,
`Installed`, or after a failed rename `Uninstall`, `MoveBack`, `RolledBack`. `kept` are the notes in
directories a restore leaves beside the vault and names in its error. A rename onto a directory that is not
empty fails (`Free`), which is how a capture that makes the inbox again stops an install. Left out: the
archive format and its size limits, a target with no entry at all, two snapshots by hand in one second; a lock
whose holder died is free at once.

### SourceWalk, EntryText, Ingestion, Resolution

A path is a sequence of names and a pattern one of names and wildcards. `matchSegments` is the code's recursion
written as a function: for every rest of the pattern, the rests of the path that it matches. Bytes are counted
one by one (`Total`), so that the sum needs no order of the files. `Examine` takes any file next, because
nothing the walk promises may depend on the order; `BreaksLimit`, `Timeout` and `ListFails` end it. `ListFails` is a
directory that cannot be listed: the callback is called with the error and returns it (`ingestion.go:91-94`),
unless the directory was skipped before (`Skipped`). A link has two sizes, what `Lstat` says of it and what is
read through it. `WalkIsDeclared` compares the result with `Wanted`, a definition of what the descriptor means that
knows neither pruning nor order, and says for which reasons a walk may fail.

`EntryText` reads a document one line per step with `ReadLine`, the loop body of `firstMeaningful`: fences with
their marker and length, comments, headings, rules, paragraphs. Its property compares two documents that differ
only inside a fenced example or a comment; a whole document is read by the recursive function of the loop.
`Ingestion` goes on with front matter, the role and the confidence of an entry and the ceilings of its
registration (`NormalizeEntry`, `Clamp`), and `BuildStore` is what the loop of a build leaves: of the entries of
one id, the last. `Resolution` has one action per stage of `resolveWith`: `Build`, `Bind` (the workspace of the
hint), `Gate` (Stage A), `Retrieve`, `Decide` (groups of one decision key, tiers, conflicts), `Reserve`, `Admit`
per advisory record, those of the best score first, `Issue` with unknowns, notices and the cost. Texts are sets
of words and costs small numbers. Its properties follow a delivered record back to the document and the
registration, not to fields the pipeline computed. Left out: hashing, token counts, the wording of notices.

### Serving

A build is `BeginBuild`, `Wipe`, `IngestNext` per source, `Publish`, `Report`; a forget or purge is
`SaveLedger`, then `Tombstone` or `PurgeRecords`; `Die` ends either anywhere, `Corrupt` and `Restore` damage or
replace the store and `Reopen` attaches it again. A call is a sequence of reads: `GateRecords` (the ledger, then the
revocations), `ReadHealth`, `ReadRecords`, `RecordTrace` with its pruning, `ReadGeneration`, `RegisterPack`; an
expansion is `Lookup` with the age of its pack, `CheckGeneration`, `ReadVisibility`, `ReadRow`; the evaluation
inputs read the gate twice (`GateAgain`). Each may refuse and fail closed.

### LearningReview

Every call has the state of its own store: what it indexed before the lock (`OpenLearning`), the lock, the
read under it, the write, which may fail or be left unanswered. `tally` counts the reports that were accepted
or are in doubt. `Purge`, `RemoveObservation` and `EraseHidden` are a purge's steps on observations,
`Reappear` a file copied back. The scans of the directory (`OpenWith`, `findByFingerprint`, `List`) pass over files
that cannot be read or parsed, any of them at any time (`PassesOver`), and `Observe` takes a directory that cannot
be read for an empty one; only a read of one observation by its id fails its call. So a family may get a
second proposal and a rejected text may come back, but only where the call that filed it could not read the file
that would have stopped it: that is what `QueueIsHonest` says.

### DurableFile

An inode has what was written and what is on disk; the directory is the list of its versions since the last
flush, and `LosePower` keeps any of them. Each operation is one action per system call (`CreateTemp`,
`Flush`, `renameReplace`, `SyncDir`, ...), any of which may fail or be the last. `Replace` and `Link` are
programs outside, against which `Erase` compares names and counts links. `may` is a ghost: the contents a
reader may find.

### VaultAccess

`TakeLock`, `SeeStale`, `BreakLock`, `GiveUp` are the wait for the vault lock; `SecondGate` is the check
under it; `ReadProject` and `WriteProject` replace a registration whole. `ResolveProject` is the longest root
above a directory (`matchRoots`), else that of the main checkout of a worktree that points back
(`Reciprocal`). It is compared with the nearest root, for every set of registrations the writers reach.

### SessionReminder

`Edit`, `Capture` and `Commit` add to what the transcript adds up to; `StopCheck`, `Marked`, `Remind` and
`NotMarked` are the hook, which reads the marks without the lock and marks under it. `since` is a ghost of
what happened since the last capture or reminder. `Due` says when a reminder is due as the code counts: enough new
edits, or a commit of new edits when no reminder came since the last capture (`FirstCommit`). `RemindersFollowWork`
says that the hook, with its transcript, marks and window, does that and no more. What the comment beside the code
and its test say of a commit is `CommitsAreReminded`, which does not hold (run `reminder_commit`).

### Briefing

`NextDirectory`, `ListDirectory`, `ReadNext` and `LimitReached` are the bounded scan, beside `Meddle`: notes
promoted, retired or damaged between the listing and the reading. `Compose` screens, warns (`scopedWarnings`,
with the read-only audit, its overlap flags included; `Alike` are the decisions whose texts it finds similar), builds the sections and cuts at a line. Where the code sorts, the model ranks:
`InOrder` is a set in an order without ties; between equals the id decides after a scan of all directories, the
reading order after one that a limit cut short (`ReadBefore`); `Selected` and
`ConflictsFirst` are the places of the flags that are told; the cut is the last of the `CutPoints`. A blank line
costs one byte, any other a constant.

### Evaluation

`unit`, `UnitNotRun` and `UnitFails` are the units of a run in order, `writeArtifacts` the bundle, `Receive`
a document of grades or of adjudication, `ImportGrades` the reconciliation, the blockers, the comparison of
arms and the gates. Rates are compared by cross multiplication. The bootstrap interval is abstracted to what
the effects of the families allow.

## Runs

| Run | What it asks | Bounds |
|---|---|---|
| `capture_accounting` | with one waiter at a time on a stale lock: the counter is exact, a reset keeps newer session starts, the refinement of `AccountingPromise` | two captures of two attempts, a session start, a reader, two slots that run out, two file identities (interchangeable: `SYMMETRY`), one capture that may crash, any failed write or removal, the epoch runs out |
| `capture_returns` | every capture returns | two captures of two attempts and a session start, of which one capture and the session start may crash, also with the lock; any number of waiters on it, any failed write or removal |
| `capture_two_waiters` | *violated*: updates of the state file are serialised | those of `capture_accounting`, without its condition |
| `purge_safety` | a successful purge erased its plan; nothing purged is served or ingested; interrupted purges end | two records of one source, one of them shared with another file, two requests, a failure, a build, a resolution, a restored data directory |
| `purge_lost_plan` | *violated*: "already purged" means erased | |
| `doctor_topic` | supersession, recapture accounting, crash recovery of one topic | a decision, two recaptures, a competing decision, a refused proposal; two failures (of a write, a removal, a read, or a crash) and one note archived by hand, or one failure, one archived and one validated by hand; pages of two, one unresolved recapture |
| `doctor_settles` | proposals leave the inbox; retention keeps the newest summaries | a decision and its recapture, two summaries of one instant, an unsupported proposal; one failure, one note archived by hand |
| `doctor_recapture` | *violated*: an older revision never retires a decision that was captured again later | a decision, two recaptures, a competing decision, one failure |
| `stores` | the ledger: files load after any interruption, what loads hides everything, lock-free reads are current; the vault: what a restore installs, what a rollback brings back, and that no note is lost | two items, two key ids, a reader, two generations; a fresh deployment with one act on the ledger file, an upgraded one with two on the key file. Three notes, one restore, one Doctor run, one snapshot by hand, one capture, two faults, two snapshots retained |
| `serving` | a walk collects what is declared; examples are not statements; a pack is bound by its registrations, follows precedence and is honest about what it leaves out; nothing gone is shown by any call; a complete pack is whole; an expansion is of its pack | trees of two to four files over seven paths, with links in and out, unreadable and large files, five choices of directories that cannot be listed, four sets of patterns of each kind, limits of two to four; documents of up to two lines before, inside and after a region; five sources (one untrusted, one failing), up to two entries each, two profiles, budgets from tight to ample; two served sources, one call at a time of six kinds, one build, one edit, one fault, one removal, two packs of which one is kept, one trace kept |
| `local` | observations, files, registrations, reminders, briefings and evaluations, one part per behaviour | two reporters, four calls, one mishap (of which an unreadable file is one); three operations on three inodes, one failure, one loss of power; two writers, two nested roots, five directories, three worktrees, one outside change; three sessions, two marks, six tool uses; twelve notes of three scopes, three pairs of them alike, one interference, three modes; two cases with one and two repeats, three evaluators, three documents, one tampering |
| `reminder_commit` | *violated*: a commit of new edits is always reminded | those of `local` |

The bounds are the smallest at which the case in question happens: two captures are needed for one to clean
up after the other, two slots for a scan to miss a move, two file identities for one to be used again, three
decisions of a topic for an out-of-order recapture, a page smaller than the inbox, one retry for the limit
to be reached. In `serving`, walks have limits that two or three files reach, documents have
regions that open inside other regions, and every rule of the gate refuses some record and lets another
pass. In `local` a second mark evicts the first, and the budget of the economy mode cuts the briefing.

Every property of a run fails for a mutated definition of the code (`mutants` in `PROJECT.json`). Properties
that are theorems and would add nothing in a run are only proved: the type invariants, `Serialized` (of `ApartSpec`),
`PublishedHeld`, `PendingKept`, `KnownIsComplete`, `CleanReturnIsIncluded`, `InclusionMovesEpoch`,
`AlwaysLoads`, `JournalExplained`, `PlanIsEnforced`, `ChangesAreSnapshotted`.

`CHECK_DEADLOCK FALSE`: nearly every process here runs a bounded number of operations and the system then stops;
only `doctor_topic`, `doctor_settles` and `doctor_recapture`, where sessions start for ever, keep the check.

**Fairness.** `capture_returns`: weak fairness of every writer's own steps, which a crashed writer has none of: the
code's waits are bounded (half a second for the lock, whoever holds it, eight attempts), so a process that is
scheduled goes on. Nothing is assumed of the clock: a dead writer's lock may turn stale or never.
`purge_safety`: the running operation goes on, and the operator runs an interrupted purge again (`OPERATIONS.md` asks for it).
`doctor_settles`: sessions start again and again and each runs Doctor to its end. Faults are bounded: nothing
settles if every write fails. The other modules state safety only: their processes are single calls that end by
themselves, and no fairness is assumed.

## What the runs found

1. `capture_two_waiters`: two waiters see one stale state lock (`state.go:112`); the first removes it and takes its
   own, the second removes that one, and two updates of the state file run at once. A session start, or a reset, is
   then lost. The comment at `state.go:75` says that they are serialised.
2. `purge_lost_plan`: a purge that dies between the ledger and the journal, then a build: the retry reports
   `already_purged` with the planned traces and source files still there.
3. `doctor_recapture`: a merge interrupted after its archive leaves an old instant on its target; an older
   revision, handled first in the next run, retires the decision that the recapture confirms.
4. `reminder_commit`: after a reminder, an edit and its commit leave the hook silent. A commit lifts the count to
   three above the last capture (`brain_stopcheck.go:106-107`), which the reminder has used up; the comment at
   `brain_stopcheck.go:104-105` and the test at `brain_stopcheck_test.go:160` say that a commit of uncaptured edits
   reminds.

## Limits met while modelling

Described here because no run of their own shows them. Some are exceptions the properties name; the rest the
models leave out.

- The vault lock is broken in the same two steps as the state lock of run `capture_two_waiters`, and
  `RegistrationIsKept` is promised while no lock had to be broken.
- A failed removal after a reset (`state.go:332`), or a capture that dies while it clears up, leaves an
  included receipt, and the delayed reset of its owner then throws away newer session starts, against the
  comment at `state.go:293`. `ResetKeepsNewerEvents` excepts exactly that (`LeftOver`).
- A read of a proposal's live or archived copy that fails is taken for its absence (`doctor.go:260-262`): an
  archived note is then promoted again, and a merged recapture counted again. A live note that cannot be read
  when a run begins (`vault.go:523`) is not merged into or superseded by it. No note is destroyed by either.
  `NeverResurrected`, `CountedOnce` and `NewestSummariesStay` name the exception; that the last one is needed takes
  more summaries than its instance has, and only the proof needs it.
- A slot's identity is device and inode only (`state.go:298`); the system may use it again.
- An upgraded deployment that loses its older ledger between the key upgrade and the first new ledger loads
  as fresh (`ledger.go:306`); `LoadsWhole` is proved there for acts on the key file only, and in a fresh
  deployment for one act on the ledger file, not for two.
- `Store.Wipe` leaves bytes of deleted rows, which a later purge does not compact in a store that no longer
  holds the record (`purge.go:296`).
- As many snapshots by hand during one restore as are retained (ten, `backup.go:30`) push its safety snapshot
  out, and the notes that only the previous tree held are gone when that is removed: `OnlyRetentionForgets` is
  proved for fewer of them.
- Expired rejections are deleted without a snapshot (`doctor.go:568`); a decision validated by hand during a
  run is still retired by that run (`doctor.go:449`).
- A full page of preserved proposals starves the inbox (`doctor.go:218`): `ProposalsSettle` is checked with
  fewer of them than the page holds.
- A snapshot by hand takes no lock: a note that Doctor moves from a later entry to an earlier one is missed.
  `LockedSnapshotIsComplete` speaks of snapshots under the lock. Two snapshots by hand in one second may
  choose one name.
- A restore that dies leaves the vault without entries; a new one refuses a vault without `projects/`, and
  the person moves the directories back by hand (`DECISIONS.md` says so).
- A key backup older than the current generation loads (`ledger.go:243`); `DECISIONS.md:826` says it fails
  closed. Nothing is revealed by it: `LoadsWhole` is proved for any number of acts on the key.
- A resolution that began before a purge writes its trace after it (`purge.go:326`; `OPERATIONS.md:255` says
  that no trace is left). The trace is not shown: explaining it reads the ledger.
- A capture published between the pre-restore snapshot and the move of the inbox is in no snapshot and goes
  with the previous tree (`backup.go:281`).

Serving:

- A build that dies between the wipe and its report leaves a partial store that looks healthy (`app.go:250`,
  `app.go:285`); `CompleteIsWhole` speaks of builds that ended.
- A pack is registered with the generation read after its rows (`app.go:339`), so a pack resolved across a
  build may be expanded against the newer one; `ExpansionIsOfThePack` leaves such calls out.
- A build that deletes a corrupt store leaves a running server on the removed file until it reopens.
- The list of issued packs keeps expired ones until others push them out.

Pipeline:

- What builds produce never carries criticality, technologies, a risk level, an authority above
  informational, or the role of a learned observation; the rules for them are not reached from documents, and
  a record is mandatory exactly when its source is trusted project policy.
- Two entries whose ids sanitise to the same text share one record; the later replaces the earlier.
- A blank line and `---` after a Summary heading end the section.
- A selected file that is not a text and exceeds the size limit fails the whole source. A link is measured by its
  own length (`ingestion.go:139-143`), what is read through it only by the total.
- One directory that cannot be listed and is neither excluded nor too deep fails the whole source
  (`ingestion.go:91-94`), although no file under it may be selected; the comment at `ingestion.go:124` says that
  unreadable entries are skipped. A walk that ends has therefore listed all it should: `WalkIsDeclared` promises
  that, and names the failure.

Observations:

- A file that cannot be read or parsed when its directory is scanned is passed over without a word
  (`learning/store.go:125-132`, `229-232`), and so is a directory that cannot be read (`186`): a rejected proposal
  is filed again, a family gets a second proposal. `QueueIsHonest` excepts the calls that met it.
- The index of rejections is read before the lock: a proposal rejected in between is filed again. An edit can
  give a proposal the text of a rejected or of another live one. The purge of a rejected observation takes
  its rejection along.
- A report may be counted into an observation whose purge began after the report's store was opened.

Durable files:

- A crash inside `WriteFile` leaves a temporary file with the content, which neither erase nor purge looks
  for. `EnsureDir` succeeds for a directory whose earlier flush failed.
- Between the comparison of names and the unlink, and between the link count and the truncation, an outside
  program may still act (ADR-030 accepts it). Directory changes are assumed to reach the disk in order. Only
  the Unix variant is modelled.

Vault:

- Freezing takes no lock: a writer past its second check writes after `Freeze` returned (`vault.go:731`).
- A waiter removes a lock that it saw old, though the file there may be another's by then (`vault.go:177`).
- Registering a root over an unreadable `project.yaml` replaces it with that root alone. A registered root
  `/` matches nothing.

Reminders:

- Any command that names `brain capture` counts as a capture, accepted or refused. While the state cannot be
  read, marks are not seen and a reminder may repeat.
- With more sessions at work than the window has marks, marks are evicted and reminders repeat. A transcript
  is assumed to be appended to only.

Briefing:

- Notes the gate refuses, and summaries older than the newest, are left out without a count. The count of
  what the budget cut includes headings and blank lines. A long command line in the head can exceed the
  budget by itself. The ids of a project's refused notes may appear in warnings about that project. The audit's
  aging flags are left out, because a briefing never tells them.

Evaluation:

- Evidence with a missing or failed live generation is refused before the gates, so the generation gate acts
  only for bundles of the mechanism. Blockers are kept only from reviewers whose grades are given to the
  import (`EVALUATION_USAGE.md:112`). Somebody who rewrites a bundle and its index consistently is not
  noticed, nor modelled.

## What is proved

The theorems hold for every value of the constants that meets the named assumptions. Listed in
`PROJECT.json`; the arguments:

- **CaptureAccountingProofs.** The inductive invariant `IInv` has one part per concern. `LockInv`: the lock
  belongs to the process in its critical section, and whoever is about to break it breaks a dead one's, which
  is where `OneWaiter` is needed.
  `IntentInv`: a capture that still needs its slot has its own file there, distinct from everybody's.
  `ResetInv`: what a writer collected under the lock is still in the slots until it removes it. `CountInv`
  ties the counter to the session starts, `ReaderInv` ties what a reader has seen to what the epoch says. None of
  the properties is inductive alone: that no slot is lost needs the reset to know its list, which needs the
  lock. `Refinement` maps every file step to a step of `AccountingPromise` or to nothing. `KeepInv` adds
  where receipts are: an included one is there only while the reset that collected it reclaims, or because
  that reset failed or died.
- **TombstoneLedgerProofs.** `Kept` (the ledger holds what was acknowledged, while nobody touches it),
  `Newest` (any ledger file at least as new as the key holds it, after one act on the ledger file),
  `Consistent` (key, ledger and running operation agree after any stop).
- **PhysicalPurgeProofs.** `Hidden` (ledger before journal before deletion), `Fresh` (what a resolution read
  of the ledger stays good for what it selects, since no store gains a purged row), `Settled` (planned traces
  belong to resolutions that ended), and `Erased` (what each finished stage of a plan erased stays erased).
- **BrainDoctorProofs.** `Matches` (what a run believes of the notes is so, although people edit them),
  `Backed` (a proposal is removed only when its note is elsewhere), `Justified` (what is about to be retired
  still has what replaces it, after other retirements of the same run), `Receipts` (each merge is counted in
  the receipt or in the target, never in both, for the claims whose copies were all read).

- **VaultRestoreProofs.** `VaultInv` says for every phase of a restore (`QuietHolds`, `BackupHolds`,
  `MoveHolds`, `InstallHolds`, `UninstallHolds`, `UnmoveHolds`) which entries are in the vault, which lie beside
  it and which are staged: those the phase has still to treat divide them, and a capture may add to the inbox
  at any moment. `LockHolds` and `WalkHolds` add that a snapshot under the lock has, or will still meet, every
  note that was there. `SnapHolds` follows the safety snapshot: fewer snapshots come after it than are retained.
- **ServingProofs.** `ServingInv` has for each call what its stage implies (`StageHolds`), that what its gate
  left open is not shown later (`HiddenHolds`, since a readable store never gains a purged record), what a
  complete pack holds (`WholeHolds`, from what a finished build leaves, `JobHolds`), and that a generation
  token is not that of an earlier build (`VersionHolds`, `PacksHold`).
- **PipelineProofs.** `ResInv`: each stage of a resolution says which set it left, and a built store is finite
  with one record of each id, so that the comparator, a strict order, leaves one winner of each decision
  (`SomeoneWins`). The properties then follow delivered records back through the stages. For the reader of an
  entry the loop is unrolled line by line: inside a region it only waits for the line that closes it.
  `MatchingIsCovering` says what the matcher's recursion computes for every pattern and path; `WalkInv`, that
  the counters of a walk are those of the files it has met and that it failed for a reason that counts.
- **LocalProofs.** `LearningInv`: one call holds the lock, and what it read under it, or has decided to write,
  is still so. `VaultInv`: the registration a writer read under the lock is current; `NearestRootDecides`
  follows by induction over the roots compared so far. `ReminderInv`: what the transcript adds up to (`AddsUp`),
  what a mark says of it (`MarkHolds`) and what a running hook may conclude (`HookHolds`). `FileInv`: what each
  system call may leave on disk, by kind and stage of the operation, is in `may`. `EvalInv`: a verdict given is
  what its evidence judges. `BriefInv`: what a scan has read so far of the notes that nobody disturbed
  (`ScanInv`); the rest is the arithmetic of sections and cuts, every line shown, cut or counted behind a limit.

Two properties are proved for part of what the models allow: `OnlyRetentionForgets` for fewer snapshots by hand
than are retained (`MaxBackups < Keep`), `LoadsWhole` where the ledger file is left alone or touched once. All
theorems of the accounting but type correctness are about `ApartSpec`, and `ApartIsOneWaiter` says what that is:
the behaviours of `Spec` in which `OneWaiter` always holds. Each condition is needed: without it TLC finds a
violation on a small instance (see *Limits*). Of the models' own
assumptions, most say what the constants are; those that say something of beme are that a root holds finitely many
files (`TreesAssumption`), that names and patterns have a segment, that registrations, notes and decisions
come from finite lists, and that no project is called as everyone's (`BriefingAssumption`).

Where a property needs induction over numbers (lines, roots, bytes, sections) it is done by the smallest
counterexample: the library's theorem on well-founded orders takes sets, not operators (`NumbersUpTo`). That is
why recursion in these modules is a recursive function over an interval.

Only model-checked: the three liveness properties (`CaptureReturns`, `PendingPurgesEnd`, `ProposalsSettle`).
Weak fairness speaks of ENABLED, which is beyond the proof system. The violated claims of
`purge_lost_plan`, `doctor_recapture` and `reminder_commit` are false, and nothing is to be proved of them; that of
`capture_two_waiters` is proved of `ApartSpec`. Every other property of a
run is stated by a theorem.

## Plan

1. Modelled, checked and proved: every state machine above.
2. Next: abstract specifications beside `AccountingPromise`, so far the only one. Worth stating: the observation
   queue as decisions and counts without files or locks, for `LearningReview`; a vault that is replaced
   whole or not at all, for `VaultRestore`; a file with one content, for `DurableFile`.
3. Lemmas on the operators of `Ingestion` (a clamp is idempotent and never above its ceiling).
4. Not begun: the migration of older store schemas, exported snapshots, the Windows variant of the durable
   operations, the construction of an evaluation's arms and prompts.

## Not modelled

- Rendering, argument parsing, dispatch and the installation of hooks: no state that outlives the call.
- The text patterns of the gate, hashing, tokenising, dates: data; each is a parameter or a flag where a
  property depends on its answer.
- Benchmark, privacy corpus, evaluation fixtures: measuring programs and tables of cases.
- Contracts, schemas, release scripts, instructions for other tools: types and files without behaviour.
