------------------------------- MODULE Briefing -------------------------------
(* The briefing a session starts with (internal/brain/briefing.go): the bounded *)
(* read of the notes in scope (scanScoped of vault.go), the screen of every     *)
(* note, the warnings of the read-only audit, and the text cut to its budget.   *)
(*                                                                              *)
(* The read takes no lock: maintenance and people add, retire and damage notes  *)
(* between the listing of a directory and the reading of its files. A text is   *)
(* a sequence of lines; a blank line costs one byte, any other LineBytes.       *)
EXTENDS Naturals, FiniteSets, SequencesExt

CONSTANTS
    NoteOf,         \* the notes, by id
    Slugless,       \* the slug of a directory that belongs to no project
    Matches,        \* the slugs a working directory resolves to
    Modes,
    limitsFor,      \* the limits of every mode
    Reports,        \* the flags of maintenance, as a sequence, or none
    Cards,          \* what the identity card turns out to be
    LineBytes,
    Alike,          \* pairs of decisions that are similar and do not make one claim
    MaxOverlaps,    \* such pairs told of a project (5 in the code)
    WarningLines,   \* flags that fit their share of the head
    MaxActive,      \* notes of a project before it is flagged
    MaxMeddling     \* bound of the instance: interferences and failures

GlobalProject == "global"
allTypes      == <<"decision", "open", "summary", "learning">>

\* The kinds of flags that a session is told of.
toldKinds == {"conflict", "overlap", "stale_open", "cap_exceeded", "unsupported_scope",
              "mutation_failed", "backup_failed", "maintenance_failed", "maintenance_budget"}

\* Notes are numbered in the order of their ids. The name of everyone's notes is
\* no project's (vault.go:247), and a flag that sessions are told of, about a
\* project, names notes of that project.
ASSUME BriefingAssumption ==
    /\ IsFiniteSet(DOMAIN NoteOf) /\ DOMAIN NoteOf \subseteq Nat \ {0}
    /\ \A i \in DOMAIN NoteOf :
          /\ NoteOf[i].project \notin {Slugless, ""}
          /\ NoteOf[i].type \in Range(allTypes)
          /\ NoteOf[i].topic \in Nat /\ NoteOf[i].touched \in Nat
    /\ GlobalProject \notin Matches
    /\ \A m \in Modes : limitsFor[m] \in [{"open", "decisions", "learnings", "global", "budget"} -> Nat]
    /\ Reports \subseteq Seq([kind : STRING, project : STRING, ids : SUBSET DOMAIN NoteOf])
    /\ \A r \in Reports : \A k \in DOMAIN r :
          r[k].kind \in toldKinds /\ r[k].project \in Matches
             => \A i \in r[k].ids : NoteOf[i].project = r[k].project
    /\ LineBytes \in Nat \ {0} /\ WarningLines \in Nat /\ MaxOverlaps \in Nat

VARIABLES
    shelf,      \* the ids of the live notes
    spoiled,    \* those among them that cannot be read
    scan,       \* the read under way
    briefing,   \* what the session was given
    meddled     \* how much of the bound is used

briefingVars == <<shelf, spoiled, scan, briefing, meddled>>

NoScan == [at |-> "idle", slug |-> Slugless, mode |-> "manual", report |-> <<>>, dir |-> 0,
           names |-> {}, got |-> {}, incomplete |-> FALSE, steady |-> {}]
NoBriefing == [given |-> FALSE, lines |-> <<>>, omitted |-> 0, truncated |-> FALSE,
               behind |-> 0, warnings |-> <<>>, open |-> 0, decisions |-> 0]

BriefingInit ==
    /\ shelf \in SUBSET DOMAIN NoteOf /\ spoiled = {} /\ scan = NoScan
    /\ briefing = NoBriefing /\ meddled = 0

------------------------------------------------------------------------------
(* scanScoped: the scope is chosen before a note is opened *)

Scope(slug) == IF slug = Slugless THEN <<GlobalProject>> ELSE <<GlobalProject, slug>>

\* The directories read, project by project and type by type.
Directories(slug) ==
    LET types == Len(allTypes)
    IN [k \in 1 .. types * Len(Scope(slug)) |->
          <<Scope(slug)[((k - 1) \div types) + 1], allTypes[((k - 1) % types) + 1]>>]

BeginScan(slug, mode, report) ==
    /\ scan.at = "idle" /\ ~briefing.given
    /\ scan' = [NoScan EXCEPT !.at = "list", !.slug = slug, !.mode = mode, !.report = report,
                              !.dir = 1, !.steady = shelf \ spoiled]
    /\ UNCHANGED <<shelf, spoiled, briefing, meddled>>

NextDirectory(s) ==
    [s EXCEPT !.dir = @ + 1, !.names = {},
              !.at = IF s.dir = Len(Directories(s.slug)) THEN "compose" ELSE "list"]

ListDirectory ==
    LET dir    == Directories(scan.slug)[scan.dir]
        listed == {i \in shelf : <<NoteOf[i].project, NoteOf[i].type>> = dir}
    IN /\ scan.at = "list"
       /\ scan' = IF listed = {} THEN NextDirectory(scan)
                  ELSE [scan EXCEPT !.at = "read", !.names = listed]
       /\ UNCHANGED <<shelf, spoiled, briefing, meddled>>

\* A directory that cannot be listed, or holds too much, is told of.
ListFails ==
    /\ scan.at = "list" /\ meddled < MaxMeddling
    /\ scan' = NextDirectory([scan EXCEPT !.incomplete = TRUE])
    /\ meddled' = meddled + 1
    /\ UNCHANGED <<shelf, spoiled, briefing>>

\* readNote, and the note must agree with the place it was found in.
Readable(i) == i \in shelf /\ i \notin spoiled /\ NoteOf[i].placed

\* Variant: one file that fails ends the reading of its directory.
ReadOrLeave(s, i) ==
    IF Readable(i) THEN [s EXCEPT !.names = @ \ {i}, !.got = @ \cup {i}] ELSE [s EXCEPT !.names = {}]

\* A file that fails is withheld and told of.
ReadOne(s, i) ==
    IF Readable(i) THEN [s EXCEPT !.names = @ \ {i}, !.got = @ \cup {i}]
    ELSE [s EXCEPT !.names = @ \ {i}, !.incomplete = TRUE]

ReadNext ==
    LET i    == CHOOSE n \in scan.names : \A m \in scan.names : n <= m
        rest == ReadOne(scan, i)
    IN /\ scan.at = "read"
       /\ scan' = IF rest.names = {} THEN NextDirectory(rest) ELSE rest
       /\ UNCHANGED <<shelf, spoiled, briefing, meddled>>

\* A bound on files, bytes or time ends the scan with what it has.
LimitReached ==
    /\ scan.at \in {"list", "read"} /\ meddled < MaxMeddling
    /\ scan' = [scan EXCEPT !.at = "compose", !.names = {}, !.incomplete = TRUE]
    /\ meddled' = meddled + 1
    /\ UNCHANGED <<shelf, spoiled, briefing>>

------------------------------------------------------------------------------
(* The screen *)

\* Check: any violation of safety, where those of shape are warnings.
unsafe(i) == NoteOf[i].gate = "unsafe"

unsupportedScope(i) == NoteOf[i].project = GlobalProject /\ NoteOf[i].type \in {"open", "summary"}

\* Variant: a note accepted by an earlier gate is not checked again.
NotScreened == {i \in scan.got : ~unsupportedScope(i)}

Safe == {i \in scan.got : ~unsafe(i) /\ ~unsupportedScope(i)}

------------------------------------------------------------------------------
(* Warnings *)

\* The elements of a set in an order, a relation without ties.
InOrder(S, before) ==
    [k \in 1 .. Cardinality(S) |-> CHOOSE a \in S : Cardinality({b \in S : <<b, a>> \in before}) = k - 1]

ById(S) == InOrder(S, {p \in S \X S : p[1] < p[2]})

\* What is at some places of a sequence.
At(s, places) == LET at == ById(places) IN [n \in DOMAIN at |-> s[at[n]]]

\* Only supported notes of everyone's may identify themselves.
Identified(f) ==
    f.ids # {} /\ f.kind # "unsupported_scope"
    /\ f.ids \subseteq {i \in Safe : NoteOf[i].project = GlobalProject}

Told(f) == IF f.project = "" \/ (f.project = GlobalProject /\ ~Identified(f))
           THEN [f EXCEPT !.ids = {}] ELSE f

Flag(kind, project, ids) == [kind |-> kind, project |-> project, ids |-> ids]
FlagWhen(cond, kind, project, ids) ==
    IF cond THEN <<Told(Flag(kind, project, ids))>> ELSE <<>>
FlagEach(kind, project, S) == [k \in DOMAIN ById(S) |-> Told(Flag(kind, project, {ById(S)[k]}))]

\* Pairs of decisions that may contradict or repeat each other.
Overlaps(S) ==
    {p \in S \X S : /\ p[1] < p[2] /\ {p[1], p[2]} \in Alike
                    /\ NoteOf[p[1]].type = "decision" /\ NoteOf[p[2]].type = "decision"
                    /\ NoteOf[p[1]].topic = 0 \/ NoteOf[p[1]].topic # NoteOf[p[2]].topic}
ByIds(pairs) == InOrder(pairs, {q \in pairs \X pairs :
                   \/ q[1][1] < q[2][1]
                   \/ q[1][1] = q[2][1] /\ q[1][2] < q[2][2]})

\* auditNotes over what was read of a project, but for kinds that are not told.
Audit(project) ==
    LET mine      == {i \in scan.got : NoteOf[i].project = project}
        supported == {i \in mine : ~unsupportedScope(i)}
        stale     == {i \in supported : NoteOf[i].type = "open" /\ NoteOf[i].stale}
        same(t)   == {i \in supported : NoteOf[i].type = "decision" /\ NoteOf[i].topic = t}
        topics    == {t \in {NoteOf[i].topic : i \in mine} \ {0} : Cardinality(same(t)) > 1}
        perTopic  == ById(topics)
        overlaps  == ByIds(Overlaps(supported))
    IN FlagWhen(Cardinality(mine) > MaxActive, "cap_exceeded", project, {})
       \o FlagEach("unsupported_scope", project, mine \ supported)
       \o FlagEach("lint", project, {i \in supported : unsafe(i)})
       \o FlagWhen(stale # {}, "stale_open", project, stale)
       \o [k \in DOMAIN perTopic |-> Told(Flag("conflict", project, same(perTopic[k])))]
       \o [k \in {n \in DOMAIN overlaps : n <= MaxOverlaps} |->
              Told(Flag("overlap", project, {overlaps[k][1], overlaps[k][2]}))]

\* The flags of the session's project, of everyone's notes, and of the vault.
InScope(f, slug) == f.project \in {slug, GlobalProject, ""} /\ f.kind \in toldKinds

\* What a session may be told, each flag once.
Selected(flags) == At(flags, {k \in DOMAIN flags : /\ InScope(flags[k], scan.slug)
                                                   /\ \A j \in 1 .. k - 1 : flags[j] # flags[k]})

ConflictsFirst(flags) == At(flags, {k \in DOMAIN flags : flags[k].kind = "conflict"})
                         \o At(flags, {k \in DOMAIN flags : flags[k].kind # "conflict"})

scopedWarnings ==
    LET all   == Audit(GlobalProject) \o (IF scan.slug = Slugless THEN <<>> ELSE Audit(scan.slug))
                 \o [k \in DOMAIN scan.report |-> Told(scan.report[k])]
        first == ConflictsFirst(Selected(all))
    IN [k \in {n \in DOMAIN first : n <= WarningLines} |-> first[k]]

------------------------------------------------------------------------------
(* The body *)

Blank     == [kind |-> "blank", id |-> 0, more |-> 0]
Heading(h) == [Blank EXCEPT !.kind = h]
noteLine(i) == [Blank EXCEPT !.kind = "note", !.id = i]
MoreLine(n) == [Blank EXCEPT !.kind = "more", !.more = n]

OfType(project, types) == {i \in Safe : NoteOf[i].project = project /\ NoteOf[i].type \in types}

\* The order in which the scan leaves the notes of a project: sorted by id when
\* it went through all directories, and as they were read when it did not.
ReadBefore(i, j) ==
    LET rank == [decision |-> 1, open |-> 2, summary |-> 3, learning |-> 4]
        a    == rank[NoteOf[i].type]
        b    == rank[NoteOf[j].type]
    IN IF scan.dir > Len(Directories(scan.slug)) THEN i < j ELSE a < b \/ (a = b /\ i < j)

TouchedLater(i, j) ==
    \/ NoteOf[i].touched > NoteOf[j].touched
    \/ NoteOf[i].touched = NoteOf[j].touched /\ ReadBefore(i, j)

\* lastTouched, and what was validated before the rest of a project's notes.
Latest(S)    == InOrder(S, {p \in S \X S : TouchedLater(p[1], p[2])})
Validated(S) == Latest({i \in S : NoteOf[i].validated}) \o Latest({i \in S : ~NoteOf[i].validated})

\* The newest of some summaries; of one instant, that of the last id.
Newest(S) == InOrder(S, {p \in S \X S :
                \/ NoteOf[p[1]].touched > NoteOf[p[2]].touched
                \/ NoteOf[p[1]].touched = NoteOf[p[2]].touched /\ p[1] > p[2]})[1]

Section(ids, limit) ==
    IF ids = <<>> THEN <<>>
    ELSE <<Blank, Heading("heading"), Blank>>
         \o [k \in {n \in DOMAIN ids : n <= limit} |-> noteLine(ids[k])]
         \o (IF Len(ids) > limit THEN <<MoreLine(Len(ids) - limit)>> ELSE <<>>)

\* The latest summary alone, then the notes of each type up to its limit.
projectSections(slug, lim) ==
    LET sums == OfType(slug, {"summary"})
    IN (IF sums = {} THEN <<>> ELSE <<Blank, Heading("stands"), Blank, noteLine(Newest(sums))>>)
       \o Section(Validated(OfType(slug, {"open"})), lim.open)
       \o Section(Validated(OfType(slug, {"decision"})), lim.decisions)
       \o Section(Validated(OfType(slug, {"learning"})), lim.learnings)

\* identityText: a card that was filled in and passes the screen.
identityLines(card) ==
    IF card = "filled" THEN <<Blank, Heading("identity"), Blank, Heading("card")>> ELSE <<>>

Body(card, lim) ==
    identityLines(card) \o <<Blank, Heading("project")>>
    \o (IF scan.slug = Slugless THEN <<>> ELSE projectSections(scan.slug, lim))
    \o Section(Latest(OfType(GlobalProject, {"learning", "decision"})), lim.global)

Bytes(lines) == LET blanks == Cardinality({k \in DOMAIN lines : lines[k] = Blank})
                IN blanks + LineBytes * (Len(lines) - blanks)

\* Where a text can end: after whole lines that fit, the last not blank.
CutPoints(lines, budget) ==
    {k \in 0 .. Len(lines) : /\ Bytes(SubSeq(lines, 1, k)) <= budget
                             /\ k > 0 => lines[k] # Blank}

truncateAtLine(lines, budget) ==
    SubSeq(lines, 1, CHOOSE k \in CutPoints(lines, budget) : \A j \in CutPoints(lines, budget) : j <= k)

\* Blank lines that the cut starts with are not counted as lines.
Omitted(lines) == Cardinality({k \in DOMAIN lines : \E j \in 1 .. k : lines[j] # Blank})

\* Notes behind the limits of sections, as their lines say.
Behind(lines) ==
    LET sum[k \in 0 .. Len(lines)] == IF k = 0 THEN 0 ELSE sum[k - 1] + lines[k].more
    IN sum[Len(lines)]

HeadLines(warned, card) ==
    Len(warned) + (IF scan.incomplete THEN 1 ELSE 0) + (IF card = "withheld" THEN 1 ELSE 0)

Room(heads, lim) == IF lim.budget > heads * LineBytes THEN lim.budget - heads * LineBytes ELSE 0

Kept(body, room) == IF Bytes(body) <= room THEN body ELSE truncateAtLine(body, room)

Given(body, kept, warned) ==
    LET cut == SubSeq(body, Len(kept) + 1, Len(body))
    IN [given |-> TRUE, lines |-> kept, truncated |-> kept # body,
        omitted |-> Omitted(cut), behind |-> Behind(cut), warnings |-> warned,
        open |-> Cardinality(OfType(scan.slug, {"open"})),
        decisions |-> Cardinality(OfType(scan.slug, {"decision"}))]

\* The head and its warnings, and in the other modes what fits of the body.
Compose(card) ==
    LET lim == limitsFor[scan.mode]
    IN /\ scan.at = "compose"
       /\ \E warned \in {scopedWarnings},
             body \in {IF scan.mode = "manual" THEN <<>> ELSE Body(card, lim)} :
             \E kept \in {Kept(body, Room(HeadLines(warned, card), lim))} :
                briefing' = Given(body, kept, warned)
       /\ scan' = [scan EXCEPT !.at = "done"]
       /\ UNCHANGED <<shelf, spoiled, meddled>>

------------------------------------------------------------------------------
(* Others, while the notes are read *)

Meddle(shelved, bad, i) ==
    /\ scan.at \in {"list", "read"} /\ meddled < MaxMeddling
    /\ shelf' = shelved /\ spoiled' = bad
    /\ scan' = [scan EXCEPT !.steady = @ \ {i}]
    /\ meddled' = meddled + 1
    /\ UNCHANGED briefing

Promoted(i)  == i \notin shelf /\ Meddle(shelf \cup {i}, spoiled, i)
RetiredNow(i) == i \in shelf /\ Meddle(shelf \ {i}, spoiled \ {i}, i)
Damaged(i)   == i \in shelf \ spoiled /\ Meddle(shelf, spoiled \cup {i}, i)

BriefingNext ==
    \/ \E slug \in Matches, mode \in Modes, r \in Reports : BeginScan(slug, mode, r)
    \/ ListDirectory \/ ListFails \/ ReadNext \/ LimitReached
    \/ \E card \in Cards : Compose(card)
    \/ \E i \in DOMAIN NoteOf : Promoted(i) \/ RetiredNow(i) \/ Damaged(i)

BriefingSpec == BriefingInit /\ [][BriefingNext]_briefingVars

------------------------------------------------------------------------------
(* Properties *)

Delivered == {briefing.lines[k].id : k \in DOMAIN briefing.lines} \ {0}
Flagged   == UNION {briefing.warnings[k].ids : k \in DOMAIN briefing.warnings}

\* A briefing names notes of its project and everyone's notes only, carries no
\* text the screen refuses, and of everyone's notes never names one that is
\* refused or holds the state of some project, whichever way a warning about it
\* came in. (briefing.go:132-205, docs/BRAIN.md:65-68)
BriefingIsScoped ==
    briefing.given =>
    /\ \A i \in Delivered \cup Flagged :
          /\ NoteOf[i].project \in {scan.slug, GlobalProject}
          /\ NoteOf[i].project = GlobalProject => ~unsafe(i) /\ ~unsupportedScope(i)
    /\ \A i \in Delivered : ~unsafe(i)

\* The notes there during the whole read that a briefing owes its session.
Owed == {i \in scan.steady : /\ NoteOf[i].project \in Range(Scope(scan.slug))
                             /\ NoteOf[i].placed /\ ~unsafe(i) /\ ~unsupportedScope(i)
                             /\ NoteOf[i].type # "summary"}
Unseen == Owed \ Delivered
LastSummary == {i \in scan.steady : NoteOf[i].project = scan.slug /\ NoteOf[i].type = "summary"
                                    /\ NoteOf[i].placed /\ ~unsafe(i)}

\* A note that is live and readable during the whole read is delivered or
\* counted: behind a section's limit, or in the lines the budget cut; else the
\* briefing says that the read is incomplete. Some summary is given when the
\* project has one. In manual mode the counts cover every such note. Notes that
\* come and go meanwhile change nothing of this.
\* (briefing.go:132-245, vault.go:486-543)
BriefingIsHonest ==
    briefing.given /\ ~scan.incomplete =>
    IF scan.mode = "manual"
    THEN /\ briefing.open >=
              Cardinality({i \in Owed : NoteOf[i].project = scan.slug /\ NoteOf[i].type = "open"})
         /\ briefing.decisions >= Cardinality({i \in Owed : NoteOf[i].project = scan.slug
                                                            /\ NoteOf[i].type = "decision"})
    ELSE /\ Cardinality(Unseen) <= Behind(briefing.lines) + briefing.omitted + briefing.behind
         /\ Unseen # {} /\ briefing.truncated => briefing.omitted > 0
         /\ LastSummary # {} /\ ~briefing.truncated
               => \E i \in Delivered : NoteOf[i].type = "summary"

==============================================================================
