------------------------------- MODULE Resolution -------------------------------
(* One resolution, from the documents of registered sources to the delivered *)
(* pack: the build of the store (Ingestion), the binding of the request      *)
(* (Registry.Resolve, Session.taskContext), the Stage-A gate                 *)
(* (internal/policy/engine.go), and the pipeline of resolveWith              *)
(* (internal/resolver/resolver.go, relevance.go, pack.go).                   *)
(*                                                                           *)
(* One action per stage, and one per advisory record the budget is offered   *)
(* to. Scores are doubled. The cost of a pack is that of its items and of    *)
(* the unknowns, conflicts and notices it carries.                           *)
EXTENDS Ingestion, FiniteSetsExt

CONSTANTS
    Sources,        \* the registered sources, in order
    DocumentSets,   \* what they may hold: for each source, a sequence of entries
    Requests,       \* [task, words, facets, hints, risk, hint, budget, now]
    Capabilities,   \* [profile, learned]
    Revocations,    \* [records, sources], the ids revoked
    Workspaces,     \* the registry: a function from workspace ids to sets of roots
    NoWorkspace, Topics, NoEvidence,
    DefaultBudget, Envelope, UnknownCost, ConflictCost, NoticeCost

ASSUME CostAssumption ==
    {DefaultBudget, Envelope, UnknownCost, ConflictCost, NoticeCost} \subseteq Nat

ASSUME ResolutionAssumption ==
    /\ Sources \in Seq(Range(Sources))
    /\ \A ds \in DocumentSets :
          /\ DOMAIN ds = DOMAIN Sources
          /\ \A i \in DOMAIN ds : ds[i] \in Seq(Range(ds[i]))
          /\ \A i \in DOMAIN ds : \A j \in DOMAIN ds[i] :
                LET d == ds[i][j] IN
                /\ d.id # "none" => RecordId[d.id] \in Nat
                /\ IsFiniteSet(d.fm.ws) /\ IsFiniteSet(d.fm.kinds)
    /\ \A q \in Requests : IsFiniteSet(q.words)
    /\ IsFiniteSet(DOMAIN Workspaces)
    /\ NoEvidence \notin Topics

VARIABLES
    docs, req, cap, revoked,    \* the inputs
    stage,      \* the next step, or "done", or "refused"
    store, workspace,
    eligible, kept, winners, conflicts,
    todo,       \* the advisory winners the budget has still to be offered
    pack        \* [delivered, omitted, unknowns, notices, complete, truncated, cost]

resVars == <<docs, req, cap, revoked, stage, store, workspace, eligible, kept, winners,
             conflicts, todo, pack>>
inputs  == <<docs, req, cap, revoked>>

------------------------------------------------------------------------------
(* Binding the request *)

\* Registry.Resolve: one registered workspace with a root above the hint.
Matching(hint) == {w \in DOMAIN Workspaces : \E root \in Workspaces[w] : IsPrefix(root, hint)}

\* TaskKindsForRequest: hints replace what the words of the task suggest.
TaskKinds == IF req.hints # {} THEN req.hints ELSE req.facets
\* classifyFacets, given the task kinds.
Facets == req.facets \cup TaskKinds

------------------------------------------------------------------------------
(* Stage A: policy.Engine.Evaluate *)

CheckSensitivity(r) ==
    \/ r.sens.class = "public_general"
    \/ /\ r.sens.class = "personal_private"
       /\ cap.profile = "personal"
    \/ /\ r.sens.class = "work_restricted"
       /\ workspace # NoWorkspace /\ r.sens.ns = workspace

CheckProfileScope(r) == r.profiles = {} \/ cap.profile \in r.profiles

CheckStatusValid(r) == r.status = "active" /\ r.from <= req.now /\ req.now <= r.until

CheckWorkspaceScope(r) == r.ws = {} \/ (workspace # NoWorkspace /\ workspace \in r.ws)

CheckTrust(r) ==
    /\ r.trust = "quarantined" => cap.learned
    /\ IF r.role = "learned_observation" THEN cap.learned
       ELSE r.role = "episodic_evidence" \/ r.trust # "untrusted_data"

CheckRevocation(r) == r.id \notin revoked.records /\ r.source \notin revoked.sources

\* Variant: an exclusion is looked at only where the record names workspaces.
ExclusionOfScoped(r) ==
    /\ r.kinds = {} \/ r.kinds \cap TaskKinds # {}
    /\ r.risks = {} \/ req.risk = "none" \/ req.risk \in r.risks
    /\ r.ws # {} => {workspace, req.task} \cap r.exclude = {}

CheckTaskScope(r) ==
    /\ r.kinds = {} \/ r.kinds \cap TaskKinds # {}
    /\ r.risks = {} \/ req.risk = "none" \/ req.risk \in r.risks
    /\ {workspace, req.task} \cap r.exclude = {}

Evaluate(r) ==
    /\ CheckSensitivity(r) /\ CheckProfileScope(r) /\ CheckStatusValid(r)
    /\ CheckWorkspaceScope(r) /\ CheckTrust(r) /\ CheckRevocation(r) /\ CheckTaskScope(r)

------------------------------------------------------------------------------
(* Retrieval *)

isMandatory(r) ==
    \/ r.role = "trusted_project_policy"
    \/ /\ r.auth = "default" /\ r.crit = "high"
       /\ r.kind \in {"directive", "principle"}

isGlobalPrinciple(r) ==
    \/ r.role = "canonical_foundation"
    \/ (r.kind = "principle" /\ r.kinds = {} /\ r.ws = {} /\ r.techs = {})

alwaysApplies(r) == isMandatory(r) \/ isGlobalPrinciple(r)

\* A scope Stage A has matched, a technology named, or words in common.
relevantToTask(r) ==
    r.kinds # {} \/ r.ws # {} \/ (r.techs \cup r.words) \cap req.words # {}

\* Variant: alternatives for a relevant decision are dropped like any other.
RelevantOnly(recs) == {r \in recs : alwaysApplies(r) \/ relevantToTask(r)}

retainRelevant(recs) ==
    LET relevant == {r \in recs : alwaysApplies(r) \/ relevantToTask(r)}
        keys == {r.key : r \in relevant} \ {NoKey}
    IN {r \in recs : r \in relevant \/ r.key \in keys}

Score(r) ==
    6 * Cardinality(r.kinds \cap Facets) + Cardinality(r.words \cap req.words)
        + (IF r.ws # {} THEN 2 ELSE 0)
        + (IF r.crit = "high" THEN 3 ELSE IF r.crit = "medium" THEN 1 ELSE 0)

------------------------------------------------------------------------------
(* Precedence *)

ValidatedKinds == {"precedent", "pattern", "workflow", "heuristic", "failure_mode", "fact"}

\* Variant: the tier of a project's policy comes after that of the foundation.
FoundationFirst(r) ==
    CASE r.role = "canonical_foundation" -> IF r.ws # {} THEN 2 ELSE 3
      [] r.role = "trusted_project_policy" -> 3
      [] OTHER -> 7

precedenceTier(r) ==
    CASE r.role = "trusted_project_policy" -> 3
      [] r.role = "canonical_foundation" -> IF r.ws # {} THEN 4 ELSE 5
      [] r.role = "canonical_reusable_knowledge" -> IF r.ws \cup r.kinds # {} THEN 6 ELSE 7
      [] r.role = "declassified_safe" -> 6
      [] OTHER -> IF r.kind \in ValidatedKinds THEN 8
                  ELSE IF r.trust = "untrusted_data" THEN 10
                  ELSE IF r.role = "learned_observation" THEN 9 ELSE 7

Narrowness(r) == Cardinality(r.ws) + Cardinality(r.kinds)

\* The rank of a record among those of its decision key: the tuples the
\* comparator walks down, the smaller one first.
Rank(r) == <<precedenceTier(r), 10 - Narrowness(r), IF r.supersedes # {} THEN 0 ELSE 1,
             IF r.conf = "validated" THEN 0 ELSE 1, 100 - Score(r), r.id>>

\* The first difference decides.
Precedes(s, t) == \E i \in DOMAIN s : s[i] < t[i] /\ \A j \in 1..i - 1 : s[j] = t[j]

\* Records without a decision key stand alone.
Group(r) == IF r.key = NoKey THEN {r} ELSE {x \in kept : x.key = r.key}

Wins(r) == \A x \in Group(r) \ {r} : Precedes(Rank(r), Rank(x))

------------------------------------------------------------------------------
(* The pack *)

Budget == IF req.budget > 0 THEN req.budget ELSE DefaultBudget

\* Variant: any word of a delivered record's entry answers a question.
CoveredByEntry(delivered, topic) == \E r \in delivered : topic \in r.words

\* toContextItem delivers the compact text; deriveUnknowns sees only that.
evidenceCovers(delivered, topic) == \E r \in delivered : topic \in r.text

hasAdvisoryEvidence(delivered) == \E r \in delivered : ~alwaysApplies(r)

deriveUnknowns(delivered) ==
    {t \in Topics \cap req.words : ~evidenceCovers(delivered, t)}
        \cup (IF hasAdvisoryEvidence(delivered) THEN {} ELSE {NoEvidence})

\* Sources that did not ingest degrade every pack (SessionHealth).
Degraded == Failures(Sources, cap.profile) # {}

TextTokens(delivered) == MapThenSumSet(LAMBDA r : r.size, delivered)

\* assemble, with its count of tokens. Every unknown of a pack that omits
\* something says so.
Assemble(delivered, omitted) ==
    LET unknowns == deriveUnknowns(delivered)
        notices == (IF Degraded THEN 1 ELSE 0) + (IF omitted > 0 THEN 1 ELSE 0)
    IN [delivered |-> delivered, omitted |-> omitted, unknowns |-> unknowns,
        notices |-> notices, complete |-> ~Degraded, truncated |-> omitted > 0,
        cost |-> Envelope + TextTokens(delivered)
                   + (UnknownCost + IF omitted > 0 THEN 1 ELSE 0) * Cardinality(unknowns)
                   + ConflictCost * Cardinality(conflicts) + NoticeCost * notices]

EmptyPack == [delivered |-> {}, omitted |-> 0, unknowns |-> {}, notices |-> 0,
              complete |-> FALSE, truncated |-> FALSE, cost |-> 0]

\* An observation is never reserved, whatever its authority.
Reserved(r) == r.role # "learned_observation" /\ isMandatory(r)

\* The order in which the budget is offered the winners.
ByScore(r, x) == Precedes(<<100 - Score(r), r.id>>, <<100 - Score(x), x.id>>)

\* Variant: only the text of the record is weighed.
OfferByText(p, r) == LET q == Assemble(p.delivered \cup {r}, p.omitted - 1)
                     IN IF p.cost + r.size <= Budget + 1 THEN q ELSE p

\* The admitted pack, or the one before: an advisory record enters if the
\* whole pack with it fits.
Offer(p, r) == LET q == Assemble(p.delivered \cup {r}, p.omitted - 1)
               IN IF q.cost > Budget THEN p ELSE q

------------------------------------------------------------------------------
(* Actions *)

ResInit ==
    /\ docs \in DocumentSets /\ req \in Requests /\ cap \in Capabilities
    /\ revoked \in Revocations
    /\ stage = "build" /\ store = {} /\ workspace = NoWorkspace
    /\ eligible = {} /\ kept = {} /\ winners = {} /\ conflicts = {} /\ todo = {}
    /\ pack = EmptyPack

\* BuildProfile for the profile the session serves.
Build ==
    /\ stage = "build"
    /\ store' = BuildStore(Sources, docs, cap.profile)
    /\ stage' = "bind"
    /\ UNCHANGED <<inputs, workspace, eligible, kept, winners, conflicts, todo, pack>>

\* An ambiguous hint refuses the request; one that matches nothing does not.
Bind ==
    /\ stage = "bind"
    /\ LET matches == Matching(req.hint) IN
       IF Cardinality(matches) > 1
       THEN stage' = "refused" /\ UNCHANGED workspace
       ELSE /\ stage' = "gate"
            /\ workspace' = IF matches = {} THEN NoWorkspace ELSE CHOOSE w \in matches : TRUE
    /\ UNCHANGED <<inputs, store, eligible, kept, winners, conflicts, todo, pack>>

Gate ==
    /\ stage = "gate"
    /\ eligible' = {r \in store : Evaluate(r)}
    /\ stage' = "retrieve"
    /\ UNCHANGED <<inputs, store, workspace, kept, winners, conflicts, todo, pack>>

Retrieve ==
    /\ stage = "retrieve"
    /\ kept' = retainRelevant(eligible)
    /\ stage' = "decide"
    /\ UNCHANGED <<inputs, store, workspace, eligible, winners, conflicts, todo, pack>>

\* groupByDecisionKey and resolvePrecedence: every loser is named with its winner.
Decide ==
    /\ stage = "decide"
    /\ winners' = {r \in kept : Wins(r)}
    /\ conflicts' = {<<p[1].id, p[2].id>> :
                        p \in {x \in kept \X kept : x[1] # x[2] /\ x[2] \in Group(x[1]) /\ Wins(x[1])}}
    /\ stage' = "reserve"
    /\ UNCHANGED <<inputs, store, workspace, eligible, kept, todo, pack>>

\* Mandatory winners are delivered first, whatever they cost.
Reserve ==
    /\ stage = "reserve"
    /\ LET reserved == {r \in winners : Reserved(r)} IN
       /\ todo' = winners \ reserved
       /\ pack' = Assemble(reserved, Cardinality(winners \ reserved))
    /\ stage' = "admit"
    /\ UNCHANGED <<inputs, store, workspace, eligible, kept, winners, conflicts>>

Admit ==
    /\ stage = "admit"
    /\ \E r \in todo :
          /\ \A x \in todo \ {r} : ByScore(r, x)
          /\ pack' = Offer(pack, r)
          /\ todo' = todo \ {r}
    /\ UNCHANGED <<inputs, stage, store, workspace, eligible, kept, winners, conflicts>>

\* Over the budget even so: the pack says it, at the cost of one more notice.
Issue ==
    /\ stage = "admit" /\ todo = {}
    /\ pack' = IF pack.cost > Budget
               THEN [pack EXCEPT !.complete = FALSE, !.truncated = TRUE,
                                 !.notices = @ + 1, !.cost = @ + NoticeCost]
               ELSE pack
    /\ stage' = "done"
    /\ UNCHANGED <<inputs, store, workspace, eligible, kept, winners, conflicts, todo>>

ResNext == Build \/ Bind \/ Gate \/ Retrieve \/ Decide \/ Reserve \/ Admit \/ Issue

ResSpec == ResInit /\ [][ResNext]_resVars

------------------------------------------------------------------------------
(* Properties *)

\* Whatever is delivered is the record of a document that was meant for this
\* request by the registration of its source and by its own front matter,
\* followed from the document and not from the record: the profile, the
\* sensitivity, the manifest of a work-safe build, the scope, the exclusions,
\* the dates, the revocations.
WithinRegistration ==
    \A r \in pack.delivered :
        \E i \in DOMAIN Sources : \E j \in DOMAIN docs[i] :
            LET sd == Sources[i]
                d  == docs[i][j]
                fm == d.fm
            IN
            /\ r = RecordAt(Sources, docs, <<i, j>>) /\ ~d.secret
            /\ cap.profile \in sd.profiles
            /\ fm.profiles # {} => cap.profile \in fm.profiles
            /\ cap.profile = "work-safe" => SafeManifest(sd) /\ sd.sens.class # "personal_private"
            /\ sd.sens.class = "work_restricted" => Matching(req.hint) = {sd.sens.ns}
            /\ sd.sens.class # "secret_never_ingest"
            /\ fm.ws # {} => \E w \in fm.ws : Matching(req.hint) = {w}
            /\ fm.kinds # {} => fm.kinds \cap (IF req.hints # {} THEN req.hints ELSE req.facets) # {}
            /\ (Matching(req.hint) \cup {req.task}) \cap fm.exclude = {}
            /\ fm.from <= req.now /\ req.now <= fm.until
            /\ RecordId[d.id] \notin revoked.records /\ sd.id \notin revoked.sources
            /\ sd.trust = "untrusted_data" => r.role = "episodic_evidence" /\ r.auth = "informational"

\* A decision of the project's own policy always reaches the pack, or loses to
\* another one that does; no budget and no other source displaces it
\* (resolver.go:248). And no delivered record stands where an eligible one of a
\* stronger tier answers the same decision, though that one may not mention the
\* words of the task.
PolicyDecides ==
    stage = "done" =>
        /\ \A r \in eligible : r.role = "trusted_project_policy" =>
              \E d \in pack.delivered : \/ d = r
                                       \/ (d.role = r.role /\ d.key = r.key /\ r.key # NoKey)
        /\ \A r \in eligible, d \in pack.delivered :
              r.key = d.key /\ r.key # NoKey => precedenceTier(d) <= precedenceTier(r)

\* No record that could have served disappears silently: it is delivered, named
\* as shadowed by the winner of its decision, counted as omitted, or has nothing
\* in common with the task and with any decision the pack takes.
NothingSilent ==
    stage = "done" =>
        /\ \A r \in eligible \ pack.delivered :
              \/ \E c \in conflicts : c[2] = r.id
              \/ (r \in winners /\ ~isMandatory(r) /\ pack.truncated)
              \/ /\ r.words \cap req.words = {} /\ r.kinds = {} /\ r.ws = {} /\ ~alwaysApplies(r)
                 /\ r.key # NoKey => \A w \in winners : w.key # r.key
        /\ pack.omitted = Cardinality(winners \ pack.delivered)
        /\ \A c \in conflicts : \E w \in winners : w.id = c[1]

\* A pack that calls itself complete is within its budget; one that is over it
\* carries no advisory record, says that it is cut, and is not complete
\* (pack.go:219, "It cannot license an unlimited advisory tail").
BudgetHonest ==
    stage = "done" =>
        /\ pack.complete => ~(pack.cost > Budget)
        /\ pack.cost > Budget =>
              /\ \A r \in pack.delivered : Reserved(r)
              /\ pack.truncated /\ ~pack.complete
        /\ pack.omitted > 0 => pack.truncated /\ pack.notices > 0

\* Each question the task asks is answered by delivered text or listed as
\* unknown, never both (pack.go:188, "Only delivered text can answer a
\* material unknown"); an entry whose answer was cut from the compact text, or
\* that the budget omitted, answers nothing.
UnknownsHonest ==
    stage = "done" =>
        /\ \A t \in Topics \cap req.words :
              t \in pack.unknowns <=> \A r \in pack.delivered : t \notin r.text
        /\ NoEvidence \in pack.unknowns <=> \A r \in pack.delivered : alwaysApplies(r)
==============================================================================
