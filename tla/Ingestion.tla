------------------------------- MODULE Ingestion -------------------------------
(* From a document of a registered source to a normalized record             *)
(* (internal/ingestion/ingestion.go, metadata.go; the clamps of              *)
(* internal/projection/view.go; the loop of App.BuildProfile, app.go:260).   *)
(* Pure operators; Resolution drives them.                                   *)
(*                                                                           *)
(* Text is a set of words. A document has front matter (fields) and a body,  *)
(* a sequence of lines; a line's words beyond the first 240 characters are   *)
(* its tail. A source is its descriptor.                                     *)
EXTENDS Naturals, Sequences, FiniteSets, SequencesExt, Functions

CONSTANTS
    RecordId,   \* sanitizeID: from an entry's id to its record's, which two ids may share
    NoKey       \* the empty decision key

------------------------------------------------------------------------------
(* The statement of a body *)

\* A line: its kind is "text", "blank", "nav" (links only), "heading", "rule"
\* (a run of = or -) or "fence"; name is "summary" where its text would name a
\* section Summary or Decision; mark, run and info describe a fence; opens and
\* closes say whether it holds the ends of a comment.
Line(kind) == [kind |-> kind, name |-> "other", mark |-> "none", run |-> 0, info |-> FALSE,
               opens |-> FALSE, closes |-> FALSE, words |-> {}, tail |-> {}]

Reading == [run |-> 0, mark |-> "none", comment |-> FALSE, section |-> "other",
            paragraph |-> <<>>, first |-> <<>>, preferred |-> <<>>]

flush(s) ==
    [s EXCEPT !.paragraph = <<>>,
              !.first = IF s.first = <<>> THEN s.paragraph ELSE s.first,
              !.preferred = IF s.preferred = <<>> /\ s.section = "summary" THEN s.paragraph
                            ELSE s.preferred]

\* Variant: any marker of the same character closes a fence.
AnyRunCloses(s, l) == l.kind = "fence" /\ l.mark = s.mark

ClosesFence(s, l) == l.kind = "fence" /\ l.mark = s.mark /\ l.run >= s.run /\ ~l.info

\* One turn of the loop over the lines.
ReadLine(body, s, i) ==
    LET l == body[i] IN
    IF s.run > 0
    THEN IF ClosesFence(s, l) THEN [s EXCEPT !.run = 0, !.mark = "none"] ELSE s
    ELSE IF ~s.comment /\ l.kind = "fence"
    THEN [flush(s) EXCEPT !.run = l.run, !.mark = l.mark]
    ELSE IF s.comment \/ l.opens
    THEN [s EXCEPT !.comment = ~l.closes]
    ELSE IF l.kind = "heading"
    THEN [flush(s) EXCEPT !.section = l.name]
    ELSE IF i < Len(body) /\ body[i + 1].kind = "rule"
    THEN [flush(s) EXCEPT !.section = l.name]
    ELSE IF l.kind \in {"blank", "rule", "nav"}
    THEN flush(s)
    ELSE [s EXCEPT !.paragraph = Append(s.paragraph, l)]

\* The variables of the loop before every turn.
ReaderOver(body) ==
    LET s[k \in 0..Len(body)] == IF k = 0 THEN Reading ELSE ReadLine(body, s[k - 1], k) IN s

ReadAll(body) == ReaderOver(body)[Len(body)]

\* The first paragraph of a Summary or Decision section, else the first one.
Chosen(s) == LET end == flush(s)
             IN IF end.preferred # <<>> THEN end.preferred ELSE end.first

firstMeaningful(body) == Chosen(ReadAll(body))

Words(lines) == UNION {l.words : l \in Range(lines)}
Tails(lines) == UNION {l.tail : l \in Range(lines)}

------------------------------------------------------------------------------
(* Mappings of front matter and registration *)

KnownKinds == {"principle", "heuristic", "pattern", "workflow", "failure_mode", "fact",
               "precedent", "preference"}

mapKind(type) == IF type = "decision" THEN "precedent"
                 ELSE IF type \in KnownKinds THEN type ELSE "unmapped_reference"

RoleOf == [canonical_foundation |-> "canonical_foundation",
           reusable_knowledge |-> "canonical_reusable_knowledge",
           trusted_project_policy |-> "trusted_project_policy",
           safe_declassified |-> "declassified_safe", evidence |-> "trusted_reference"]

\* The role of the first purpose that has one.
mapRole(purposes) ==
    LET known == SelectSeq(purposes, LAMBDA p : p \in DOMAIN RoleOf)
    IN IF known = <<>> THEN "trusted_reference" ELSE RoleOf[known[1]]

mapConfidence(c) == IF c = "validated" THEN "validated" ELSE "observed"

\* What applyMetadata refuses: values of another shape, and scope dimensions
\* that no check of Stage A enforces. A narrowing to no profile is refused too.
Narrowed(sd, fm) == IF fm.profiles = {} THEN sd.profiles ELSE fm.profiles \cap sd.profiles

MetadataAccepted(sd, fm) ==
    /\ ~fm.malformed /\ ~fm.unsupported
    /\ fm.profiles # {} => Narrowed(sd, fm) # {}

NormalizeAccepts(sd, doc) ==
    /\ doc.id # "none"
    /\ firstMeaningful(doc.body) # <<>>
    /\ MetadataAccepted(sd, doc.fm)
    /\ doc.fm.status \in {"none", "active"}

\* NormalizeEntry with applyMetadata, for an accepted entry. Nothing of the
\* content reaches authority, role, trust, sensitivity or criticality.
NormalizeEntry(sd, doc) ==
    LET statement == firstMeaningful(doc.body) IN
    [id |-> RecordId[doc.id], source |-> sd.id,
     kind |-> mapKind(doc.fm.type), status |-> "active",
     conf |-> mapConfidence(doc.fm.confidence), auth |-> "informational",
     role |-> mapRole(sd.purposes), trust |-> sd.trust, sens |-> sd.sens, crit |-> "none",
     profiles |-> Narrowed(sd, doc.fm), ws |-> doc.fm.ws, kinds |-> doc.fm.kinds,
     exclude |-> doc.fm.exclude, risks |-> {}, techs |-> {}, supersedes |-> {},
     from |-> doc.fm.from, until |-> doc.fm.until, key |-> doc.fm.key,
     words |-> doc.fm.label \cup Words(statement) \cup Tails(statement),
     text |-> Words(statement), size |-> doc.size]

------------------------------------------------------------------------------
(* The clamps of Builder.IngestSource, and the store: a set of records *)

authorityRank(a) == IF a = "default" THEN 2 ELSE IF a = "recommended" THEN 1 ELSE 0

sensitivityRank(s) ==
    IF s.class \in {"work_restricted", "personal_private"} THEN 2
    ELSE IF s.class = "public_general" THEN 1 ELSE 0

Clamp(sd, r) ==
    [r EXCEPT
        !.auth = IF sd.trust = "untrusted_data" \/ sd.dataOnly THEN "informational"
                 ELSE IF authorityRank(r.auth) > authorityRank(sd.ceiling) THEN sd.ceiling
                 ELSE r.auth,
        !.sens = IF sensitivityRank(r.sens) < sensitivityRank(sd.sens) THEN sd.sens ELSE r.sens,
        !.role = IF sd.trust = "untrusted_data" THEN "episodic_evidence" ELSE r.role]

SafeManifest(sd) == \E i \in DOMAIN sd.purposes : sd.purposes[i] = "safe_declassified"

\* What BuildProfile asks of a source before it contributes. Sources that allow
\* the profile and do not contribute are the failures of the build.
Contributes(sd, profile) ==
    /\ profile \in sd.profiles
    /\ profile = "work-safe" => SafeManifest(sd)
    /\ sd.filesystem /\ sd.walks

Failures(sources, profile) ==
    {sd \in Range(sources) : profile \in sd.profiles /\ ~Contributes(sd, profile)}

\* The documents of one source that are stored: refused ones leave no trace.
IngestSource(sd, docs) ==
    {j \in DOMAIN docs : ~docs[j].secret /\ NormalizeAccepts(sd, docs[j])}

\* The documents a build stores, as pairs of a source and a document of it.
BuildEntries(sources, docsOf, profile) ==
    UNION {{i} \X IngestSource(sources[i], docsOf[i]) :
               i \in {k \in DOMAIN sources : Contributes(sources[k], profile)}}

\* The order in which a build stores them.
Before(p, q) == p[1] < q[1] \/ (p[1] = q[1] /\ p[2] < q[2])

RecordAt(sources, docsOf, p) == Clamp(sources[p[1]], NormalizeEntry(sources[p[1]], docsOf[p[1]][p[2]]))

\* PutRecords: INSERT OR REPLACE by record id, so that of the entries of one id
\* the last remains.
PutRecords(sources, docsOf, entries) ==
    {RecordAt(sources, docsOf, p) :
        p \in {x \in entries :
                 \A y \in entries : Before(x, y) => RecordAt(sources, docsOf, x).id
                                                      # RecordAt(sources, docsOf, y).id}}

BuildStore(sources, docsOf, profile) ==
    PutRecords(sources, docsOf, BuildEntries(sources, docsOf, profile))
==============================================================================
