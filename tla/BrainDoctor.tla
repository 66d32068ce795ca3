----------------------------- MODULE BrainDoctor -----------------------------
(***************************************************************************)
(* Brain Doctor (internal/brain/doctor.go), the only writer of live notes, *)
(* over the vault of one project, one action per file operation.           *)
(*                                                                         *)
(* Captures put proposals into the inbox without a lock.  A run promotes   *)
(* them, merges exact recaptures into live notes, retires the decisions a  *)
(* newer one of the same topic replaces, and keeps the newest summaries.   *)
(* Any file operation may fail, and a run may die between any two of them; *)
(* nothing is undone, the next run finds the files as they are.  A note    *)
(* that cannot be read is to a run as if it were not there.  People        *)
(* archive notes under the same lock and edit live notes without it.       *)
(***************************************************************************)
EXTENDS Naturals, FiniteSets

CONSTANTS
    Ids,           \* proposals; their order is that of the file names
    Kind,          \* "decision" (with a topic), "summary" or "other"
    Topic, Claim,  \* what a proposal is about, and what it says
    Time,          \* when it was captured
    Accepted,      \* the proposals the gate lets through
    Unsupported,   \* global project state, which is never promoted
    PageSize,      \* proposals one run reads (128 in the code)
    MaxRetries,    \* unresolved recaptures of one note (128 in the code)
    KeepSummaries, \* summaries that stay live (3 in the code)
    None,
    Budgets        \* bounds on faults, on notes archived by people and on their edits

ASSUME DoctorAssumption ==
    /\ Ids \subseteq Nat /\ None \notin Nat /\ IsFiniteSet(Ids)
    /\ Kind \in [Ids -> {"decision", "summary", "other"}]
    /\ Time \in [Ids -> Nat]
    /\ DOMAIN Topic = Ids /\ DOMAIN Claim = Ids
    /\ Accepted \subseteq Ids /\ Unsupported \subseteq Ids
    /\ PageSize \in Nat \ {0} /\ MaxRetries \in Nat \ {0} /\ KeepSummaries \in Nat \ {0}
    /\ Budgets \subseteq [faults : Nat, archives : Nat, edits : Nat]

VARIABLES
    inbox, rejected, \* proposals, and those the gate refused
    live, archive,   \* per id: the note in that place, or None
    lock,            \* the vault lock
    run,             \* the running maintenance pass
    retiring,        \* the note a person is archiving, or None
    captured,        \* history: every proposal accepted so far
    expired,         \* rejected proposals past their time to live
    pruned,          \* history: rejected proposals that were deleted
    overlooked,      \* history: proposals handled without a note that could not be read
    budget

files == <<inbox, rejected, live, archive>>
world == <<captured, expired, overlooked, budget>>
vars  == <<files, lock, run, retiring, captured, expired, pruned, overlooked, budget>>

Note == [confirmed : Nat, recaptured : SUBSET Ids, captured : Nat,
         supersedes : SUBSET Ids, validated : BOOLEAN]
Retired == [status : {"superseded", "merged", "archived"}, into : Ids \union {None},
            applied : BOOLEAN]
RunState == [phase : {"idle", "reconcile", "inbox", "retain", "prune"},
             todo : SUBSET Ids, olds : SUBSET Ids,
             op : {"none", "unlive", "clean", "target", "receipt"},
             note : Ids \union {None}, into : Ids \union {None},
             view : [Ids -> Note \union {None}],
             missed : SUBSET (Ids \X {"live", "archive"}), twice : SUBSET Ids,
             snapshot : {"none", "taken", "failed"}]

ASSUME NoneAssumption == None \notin Note /\ None \notin Retired

NoRun == [phase |-> "idle", todo |-> {}, olds |-> {}, op |-> "none", note |-> None,
          into |-> None, view |-> [n \in Ids |-> None], missed |-> {}, twice |-> {},
          snapshot |-> "none"]

Init ==
    /\ inbox = {} /\ rejected = {}
    /\ live = [n \in Ids |-> None] /\ archive = [n \in Ids |-> None]
    /\ lock = "free" /\ run = NoRun /\ retiring = None
    /\ captured = {} /\ expired = {} /\ pruned = {} /\ overlooked = {}
    /\ budget \in Budgets

-----------------------------------------------------------------------------
(* What a run decides from the notes it has read (view).                    *)

View      == {n \in Ids : run.view[n] # None}
SameClaim(a, b) == Kind[a] = Kind[b] /\ Topic[a] = Topic[b] /\ Claim[a] = Claim[b]
SameTopic(a, b) == Kind[a] = "decision" /\ Kind[b] = "decision" /\ Topic[a] = Topic[b]

\* The first proposals of a listing, and the one to take first.
Page(S)        == {n \in S : Cardinality({m \in S : m < n}) < PageSize}
Earliest(n, S) ==
    n \in S /\ \A m \in S : Time[n] < Time[m] \/ (Time[n] = Time[m] /\ n <= m)

\* Variant: whenever they were captured.
OldsAgainstAll(n) == {e \in View : SameTopic(n, e) /\ ~run.view[e].validated}
\* The old decisions of its topic that a new decision replaces.
Olds(n) == {e \in View : /\ SameTopic(n, e) /\ ~run.view[e].validated
                         /\ Time[n] > run.view[e].captured}

\* Variant: validated decisions too.
UnfinishedValidated(view) ==
    {o \in Ids : view[o] # None /\ \E b \in Ids :
        /\ view[b] # None /\ o \in view[b].supersedes /\ SameTopic(b, o)
        /\ view[b].captured > view[o].captured}
\* Retirements an earlier run left undone.
Unfinished(view) ==
    {o \in Ids : view[o] # None /\ ~view[o].validated /\ \E b \in Ids :
        /\ view[b] # None /\ o \in view[b].supersedes /\ SameTopic(b, o)
        /\ view[b].captured > view[o].captured}

Newer(m, n)  == Time[m] > Time[n] \/ (Time[m] = Time[n] /\ m > n)
\* Variant: the order is turned around.
OlderThanFew == {n \in View : Kind[n] = "summary" /\
    Cardinality({m \in View : Kind[m] = "summary" /\ Newer(n, m)}) >= KeepSummaries}
NewerSeen(n) == {m \in View : Kind[m] = "summary" /\ Newer(m, n)}
\* Summaries that are not among the newest. One that was promoted over a copy
\* already seen is listed twice, and the second entry counts.
Surplus == {n \in View : Kind[n] = "summary" /\
    Cardinality(NewerSeen(n)) + Cardinality({m \in run.twice : m = n \/ m \in NewerSeen(n)})
      >= KeepSummaries}

Promoted(n) == [confirmed |-> 0, recaptured |-> {}, captured |-> Time[n],
                supersedes |-> IF Kind[n] = "decision" THEN Olds(n) ELSE {},
                validated |-> FALSE]

Later(s, t) == IF t > s THEN t ELSE s
\* The recaptures of a note that a retry may still come to.
Unresolved(e) == run.view[e].recaptured \intersect inbox
\* Variant: a retry counts again.
Counted(e, n) ==
    [run.view[e] EXCEPT !.confirmed = @ + 1, !.recaptured = Unresolved(e) \union {n},
                        !.captured = Later(@, Time[n])]
\* A recapture counts once, however often it is retried.
Recaptured(e, n) ==
    IF n \in run.view[e].recaptured THEN [run.view[e] EXCEPT !.recaptured = Unresolved(e)]
    ELSE Counted(e, n)
RetriesExhausted(e, n) ==
    n \notin run.view[e].recaptured /\ Cardinality(Unresolved(e)) >= MaxRetries

-----------------------------------------------------------------------------
(* A run.                                                                   *)

InPhase(p) == run.phase = p /\ run.op = "none"
Ready(p)   == InPhase(p) /\ run.olds = {}
\* The snapshot before the first change; it may fail and maintenance goes on.
EnsureBackup == IF run.snapshot = "none" THEN {"taken", "failed"} ELSE {run.snapshot}

BeginWith(seen) ==
    /\ lock = "free" /\ lock' = "doctor"
    /\ run' = [NoRun EXCEPT !.phase = "reconcile", !.view = seen, !.olds = Unfinished(seen)]
    /\ UNCHANGED <<files, retiring, captured, expired, pruned, overlooked>>

Begin == BeginWith(live) /\ UNCHANGED budget

\* Variant: the old note is removed, not archived.
RetireByRemoval(o) ==
    /\ run.op = "none" /\ o \in run.olds
    /\ \E s \in EnsureBackup : run' = [run EXCEPT !.op = "unlive", !.note = o, !.snapshot = s]
    /\ UNCHANGED <<files, lock, retiring, world, pruned>>

\* retireLive: the archive first, then the live file.
Retire(o) ==
    /\ run.op = "none" /\ o \in run.olds
    /\ archive' = [archive EXCEPT ![o] = [status |-> "superseded", into |-> None,
                                          applied |-> FALSE]]
    /\ \E s \in EnsureBackup : run' = [run EXCEPT !.op = "unlive", !.note = o, !.snapshot = s]
    /\ UNCHANGED <<inbox, rejected, live, lock, retiring, world, pruned>>

RemoveLive ==
    /\ run.op = "unlive"
    /\ live' = [live EXCEPT ![run.note] = None]
    /\ run' = [run EXCEPT !.op = "none", !.olds = @ \ {run.note}, !.view[run.note] = None]
    /\ UNCHANGED <<inbox, rejected, archive, lock, retiring, world, pruned>>

ListInbox ==
    /\ Ready("reconcile")
    /\ \E s \in IF inbox = {} THEN {run.snapshot} ELSE EnsureBackup :
         run' = [run EXCEPT !.phase = "inbox", !.todo = Page(inbox), !.snapshot = s]
    /\ UNCHANGED <<files, lock, retiring, world, pruned>>

Turn(n) == Ready("inbox") /\ Earliest(n, run.todo)
StartOp(op, n) == run' = [run EXCEPT !.op = op, !.note = n]

\* The copies of a proposal that the run finds at its turn.
LiveRead(n)    == IF <<n, "live">> \in run.missed THEN None ELSE live[n]
ArchiveRead(n) == IF <<n, "archive">> \in run.missed THEN None ELSE archive[n]

Unapplied(copy)   == copy # None /\ copy.status = "merged" /\ ~copy.applied
PendingMerge(n)   == Unapplied(ArchiveRead(n))

\* Variant: only the live note shows that a proposal was handled.
PersistedLive(n) == LiveRead(n) # None
\* An earlier run persisted the note and did not remove the proposal.
Persisted(n) == LiveRead(n) # None \/ (ArchiveRead(n) # None /\ ~PendingMerge(n))

Recover(n) ==
    /\ Turn(n) /\ Persisted(n) /\ StartOp("clean", n)
    /\ UNCHANGED <<files, lock, retiring, world, pruned>>

\* The live note an interrupted or a new merge goes into.
NewTargets(n) ==
    {e \in View : Kind[n] # "summary" /\ SameClaim(n, e)}
\* Variant: an interrupted merge is left alone.
TargetsAfresh(n) == IF PendingMerge(n) THEN {} ELSE NewTargets(n)
Targets(n) == IF PendingMerge(n) THEN {ArchiveRead(n).into} \intersect View ELSE NewTargets(n)

Fresh(n)     == ~Persisted(n) /\ ~PendingMerge(n)
Open(n)      == Fresh(n) /\ n \notin Unsupported
Mergeable(n) == PendingMerge(n) \/ (Open(n) /\ n \in Accepted)

\* The proposal stays in the inbox.
Preserve(n) ==
    /\ Turn(n) /\ ~Persisted(n)
    /\ \/ PendingMerge(n) /\ Targets(n) = {}
       \/ Fresh(n) /\ n \in Unsupported
       \/ Mergeable(n) /\ \E e \in Targets(n) : RetriesExhausted(e, n)
    /\ run' = [run EXCEPT !.todo = @ \ {n}]
    /\ UNCHANGED <<files, lock, retiring, world, pruned>>

Reject(n) ==
    /\ Turn(n) /\ Open(n) /\ n \notin Accepted
    /\ rejected' = rejected \union {n} /\ StartOp("clean", n)
    /\ UNCHANGED <<inbox, live, archive, lock, retiring, world, pruned>>

Promote(n) ==
    /\ Turn(n) /\ Open(n) /\ n \in Accepted /\ Targets(n) = {}
    /\ live' = [live EXCEPT ![n] = Promoted(n)]
    /\ run' = [run EXCEPT !.op = "clean", !.note = n, !.view[n] = Promoted(n),
                          !.olds = Promoted(n).supersedes, !.twice = @ \union ({n} \intersect View)]
    /\ UNCHANGED <<inbox, rejected, archive, lock, retiring, world, pruned>>

\* merge: the archive, the target, the receipt, and only then the proposal.
Merge(n, e) ==
    /\ Turn(n) /\ ~Persisted(n) /\ Mergeable(n)
    /\ e \in Targets(n) /\ ~RetriesExhausted(e, n)
    /\ archive' = [archive EXCEPT ![n] = [status |-> "merged", into |-> e, applied |-> FALSE]]
    /\ run' = [run EXCEPT !.op = "target", !.note = n, !.into = e]
    /\ UNCHANGED <<inbox, rejected, live, lock, retiring, world, pruned>>

WriteTarget ==
    /\ run.op = "target"
    /\ LET e == run.into
           note == Recaptured(e, run.note)
       IN  /\ live' = [live EXCEPT ![e] = note]
           /\ run' = [run EXCEPT !.op = "receipt", !.view[e] = note]
    /\ UNCHANGED <<inbox, rejected, archive, lock, retiring, world, pruned>>

WriteReceipt ==
    /\ run.op = "receipt"
    /\ archive' = [archive EXCEPT ![run.note].applied = TRUE]
    /\ run' = [run EXCEPT !.op = "clean"]
    /\ UNCHANGED <<inbox, rejected, live, lock, retiring, world, pruned>>

RemoveProposal ==
    /\ run.op = "clean"
    /\ inbox' = inbox \ {run.note}
    /\ run' = [run EXCEPT !.op = "none", !.todo = @ \ {run.note}]
    /\ UNCHANGED <<rejected, live, archive, lock, retiring, world, pruned>>

RetainSummaries ==
    /\ Ready("inbox") /\ run.todo = {}
    /\ run' = [run EXCEPT !.phase = "retain", !.olds = Surplus]
    /\ UNCHANGED <<files, lock, retiring, world, pruned>>

AuditNotes ==
    /\ Ready("retain") /\ run' = [run EXCEPT !.phase = "prune"]
    /\ UNCHANGED <<files, lock, retiring, world, pruned>>

PruneRejected(n) ==
    /\ InPhase("prune") /\ n \in rejected \intersect expired
    /\ rejected' = rejected \ {n} /\ pruned' = pruned \union {n}
    /\ UNCHANGED <<inbox, live, archive, lock, run, retiring, world>>

EndRun ==
    /\ InPhase("prune") /\ rejected \intersect expired = {}
    /\ run' = NoRun /\ lock' = "free"
    /\ UNCHANGED <<files, retiring, world, pruned>>

-----------------------------------------------------------------------------
(* What goes wrong.                                                         *)

Fault == budget.faults > 0 /\ budget' = [budget EXCEPT !.faults = @ - 1]

\* A write or a removal fails: the run reports it and goes on.
FailRetire(o) ==
    /\ Fault /\ run.op = "none" /\ o \in run.olds
    /\ \E s \in EnsureBackup : run' = [run EXCEPT !.olds = @ \ {o}, !.snapshot = s]
    /\ UNCHANGED <<files, lock, retiring, captured, expired, pruned, overlooked>>
FailHandle(n) ==
    /\ Fault /\ Turn(n) /\ run' = [run EXCEPT !.todo = @ \ {n}]
    /\ UNCHANGED <<files, lock, retiring, captured, expired, pruned, overlooked>>
FailOp ==
    /\ Fault /\ run.op # "none"
    /\ run' = [run EXCEPT !.op = "none", !.todo = @ \ {run.note}, !.olds = @ \ {run.note}]
    /\ UNCHANGED <<files, lock, retiring, captured, expired, pruned, overlooked>>
\* Some live notes cannot be read: the run goes on without them.
BeginPartly(unread) ==
    /\ Fault /\ unread # {} /\ \A n \in unread : live[n] # None
    /\ BeginWith([n \in Ids |-> IF n \in unread THEN None ELSE live[n]])
\* A copy of the proposal is there and cannot be read, which handle takes for
\* its absence.
FailRead(n, place) ==
    /\ Fault /\ Turn(n) /\ <<n, place>> \notin run.missed
    /\ IF place = "live" THEN live[n] # None ELSE archive[n] # None
    /\ run' = [run EXCEPT !.missed = @ \union {<<n, place>>}]
    /\ overlooked' = overlooked \union {n}
    /\ UNCHANGED <<files, lock, retiring, captured, expired, pruned>>
\* The proposal itself could not be read at first: it is refused as it is.
RejectRaw(n) ==
    /\ Fault /\ Ready("inbox") /\ n \in run.todo
    /\ rejected' = rejected \union {n} /\ StartOp("clean", n)
    /\ overlooked' = overlooked \union {n}
    /\ UNCHANGED <<inbox, live, archive, lock, retiring, captured, expired, pruned>>
\* The time budget of the inbox runs out.
TimeUp ==
    /\ Fault /\ Ready("inbox") /\ run' = [run EXCEPT !.todo = {}]
    /\ UNCHANGED <<files, lock, retiring, captured, expired, pruned, overlooked>>
\* The process dies; its lock turns stale and is broken.
Crash ==
    /\ Fault /\ lock # "free" /\ lock' = "free" /\ run' = NoRun /\ retiring' = None
    /\ UNCHANGED <<files, captured, expired, pruned, overlooked>>

-----------------------------------------------------------------------------
(* Captures and people.                                                     *)

Capture(n) ==
    /\ n \notin captured
    /\ captured' = captured \union {n} /\ inbox' = inbox \union {n}
    /\ UNCHANGED <<rejected, live, archive, lock, run, retiring, expired, pruned, overlooked, budget>>

\* Archive and Done.
BeginRetire(n) ==
    /\ lock = "free" /\ live[n] # None /\ budget.archives > 0
    /\ budget' = [budget EXCEPT !.archives = @ - 1]
    /\ archive' = [archive EXCEPT ![n] = [status |-> "archived", into |-> None,
                                          applied |-> FALSE]]
    /\ lock' = "user" /\ retiring' = n
    /\ UNCHANGED <<inbox, rejected, live, run, captured, expired, pruned, overlooked>>
EndRetire ==
    /\ lock = "user" /\ lock' = "free" /\ retiring' = None
    /\ live' = [live EXCEPT ![retiring] = None]
    /\ UNCHANGED <<inbox, rejected, archive, run, world, pruned>>

\* A person marks a live note as validated in an editor.
Validate(n) ==
    /\ live[n] # None /\ ~live[n].validated /\ budget.edits > 0
    /\ budget' = [budget EXCEPT !.edits = @ - 1]
    /\ live' = [live EXCEPT ![n].validated = TRUE]
    /\ UNCHANGED <<inbox, rejected, archive, lock, run, retiring, captured, expired, pruned, overlooked>>

\* Thirty days pass.
Expire(n) ==
    /\ n \in rejected \ expired /\ expired' = expired \union {n}
    /\ UNCHANGED <<files, lock, run, retiring, captured, pruned, overlooked, budget>>

-----------------------------------------------------------------------------
Handle(n) ==
    \/ Recover(n) \/ Preserve(n) \/ Reject(n) \/ Promote(n)
    \/ \E e \in Ids : Merge(n, e)

RunStep ==
    \/ \E o \in Ids : Retire(o)
    \/ RemoveLive \/ ListInbox
    \/ \E n \in Ids : Handle(n)
    \/ WriteTarget \/ WriteReceipt \/ RemoveProposal
    \/ RetainSummaries \/ AuditNotes
    \/ \E n \in Ids : PruneRejected(n)
    \/ EndRun

Failure ==
    \/ FailOp \/ TimeUp \/ Crash
    \/ \E unread \in SUBSET Ids : BeginPartly(unread)
    \/ \E n \in Ids : \/ FailRetire(n) \/ FailHandle(n) \/ RejectRaw(n)
                      \/ \E place \in {"live", "archive"} : FailRead(n, place)

People == EndRetire \/ \E n \in Ids : Capture(n) \/ BeginRetire(n) \/ Validate(n) \/ Expire(n)

Next == Begin \/ RunStep \/ Failure \/ People

Spec == Init /\ [][Next]_vars

\* Sessions start again and again, and each runs Doctor to its end.
FairSpec == Spec /\ WF_vars(Begin) /\ WF_vars(RunStep) /\ WF_vars(EndRetire)

-----------------------------------------------------------------------------
\* Every variable has its type, and the lock belongs to who works.
TypeOK ==
    /\ inbox \in SUBSET Ids /\ rejected \in SUBSET Ids /\ captured \in SUBSET Ids
    /\ expired \in SUBSET Ids /\ pruned \in SUBSET Ids /\ overlooked \in SUBSET Ids
    /\ live \in [Ids -> Note \union {None}]
    /\ archive \in [Ids -> Retired \union {None}]
    /\ run \in RunState
    /\ run.phase = "idle" => run = NoRun
    /\ run.op # "none" => run.note # None
    /\ run.op \in {"target", "receipt"} =>
         archive[run.note] # None /\ run.into # None /\ run.view[run.into] # None
    /\ retiring \in Ids \union {None}
    /\ budget \in [faults : Nat, archives : Nat, edits : Nat]
    /\ lock \in {"free", "doctor", "user"}
    /\ lock = "doctor" <=> run.phase # "idle"
    /\ lock = "user" <=> retiring # None

\* Whatever fails or dies, every accepted capture is still in the vault: as a
\* proposal, a live note, an archived one or a rejected one that has not expired.
NothingDestroyed ==
    captured \subseteq inbox \union rejected \union pruned
                       \union {n \in Ids : live[n] # None \/ archive[n] # None}

\* Every note that says what n says was read whenever a run looked for it.
ClaimRead(n) == \A m \in overlooked : ~SameClaim(m, n)

\* A live note counts each proposal that was merged into it once, however
\* often the merge was interrupted and repeated. Not so when a run could not
\* read the copy that shows an earlier merge or promotion (doctor.go:261): the
\* proposal is then handled afresh.
CountedOnce ==
    \A e \in Ids : live[e] # None /\ ClaimRead(e) =>
        live[e].confirmed =
            Cardinality({n \in Ids : /\ archive[n] # None /\ archive[n].status = "merged"
                                     /\ archive[n].into = e
                                     /\ archive[n].applied \/ n \in live[e].recaptured})

Removed(o) == live[o] # None /\ live'[o] = None /\ lock = "doctor"

\* Doctor removes a decision only while a later one of its topic is live, so
\* no interruption leaves a topic without its decision.
SupersededByLater ==
    [][\A o \in Ids : Removed(o) /\ Kind[o] = "decision" =>
          \E b \in Ids : /\ live'[b] # None /\ SameTopic(o, b)
                         /\ live'[b].captured > live[o].captured]_vars

\* Doctor removes a summary only while as many later ones as it keeps are live,
\* unless it has promoted one again whose live copy it could not read.
NewestSummariesStay ==
    [][\A o \in Ids : Removed(o) /\ Kind[o] = "summary" /\ run.twice = {} =>
          Cardinality({m \in Ids : /\ live'[m] # None /\ Kind[m] = "summary"
                                   /\ Newer(m, o)}) >= KeepSummaries]_vars

\* Doctor removes no decision that was validated when its run began.
ValidatedDecisionsStay ==
    [][\A o \in Ids : Removed(o) /\ Kind[o] = "decision" => ~run.view[o].validated]_vars

\* A note that has left the live notes never comes back, unless a run at the
\* turn of its leftover proposal could not read the archived copy.
NeverResurrected ==
    [][\A n \in Ids \ overlooked : archive[n] # None /\ live[n] = None => live'[n] = None]_vars

\* A run changes no note before it has taken its snapshot, or found that it
\* cannot.
ChangesAreSnapshotted ==
    [][lock = "doctor" /\ lock' = "doctor" /\ run' # run
         /\ <<inbox, live, archive>>' # <<inbox, live, archive>>
       => run'.snapshot # "none"]_vars

\* A merge into a note that is gone.
Orphaned(n) == Unapplied(archive[n]) /\ live[archive[n].into] = None

\* Every proposal that may be promoted leaves the inbox, unless the note it was
\* being merged into was archived while the merge was interrupted.
ProposalsSettle == \A n \in Ids \ Unsupported : n \in inbox ~> n \notin inbox \/ Orphaned(n)

\* An older revision does not retire a decision that was captured again later,
\* the merge of that recapture interrupted or not.
LaterRecaptureKept ==
    [][\A o, n \in Ids :
          Removed(o) /\ Kind[o] = "decision" /\ Unapplied(archive[n]) /\ archive[n].into = o =>
          \E b \in Ids : live'[b] # None /\ SameTopic(o, b) /\ live'[b].captured > Time[n]]_vars
=============================================================================
