----------------------------- MODULE PipelineProofs -----------------------------
(***************************************************************************)
(* The way from documents to a pack, proved for all registrations, all     *)
(* documents, all requests and all budgets.                                *)
(*                                                                         *)
(* A resolution computes each of its sets from the one before, so most of  *)
(* the invariant says which, at every stage. What it rests on: a store has *)
(* one record of each id and is finite, so that of the records of one      *)
(* decision, which the comparator orders strictly, one wins.               *)
(*                                                                         *)
(* The reader of an entry comes next, and last the walk of a root: what    *)
(* its matcher's recursion computes, what it hides and selects, and that   *)
(* its counters are those of the files it has met, so that a limit is only *)
(* reached by files that count.                                            *)
(***************************************************************************)
EXTENDS SourceWalk, EntryText, Resolution, FiniteSetTheorems, WellFoundedInduction, TLAPS

------------------------------------------------------------------------------
(* Orders *)

\* In a finite set, a strict order leaves some element with nothing before it.
LEMMA SomethingFirst ==
    ASSUME NEW S, IsFiniteSet(S), S # {}, NEW R,
           \A x \in S : <<x, x>> \notin R,
           \A x, y, z \in S : <<x, y>> \in R /\ <<y, z>> \in R => <<x, z>> \in R
    PROVE  \E x \in S : \A y \in S : <<y, x>> \notin R
<1> DEFINE below(x) == {y \in S : <<y, x>> \in R}
           T == {below(x) : x \in S}
<1>1. IsWellFoundedOn(StrictSubsetOrdering(S), FiniteSubsetsOf(S))
  BY FS_StrictSubsetOrderingWellFounded
<1>2. T \subseteq FiniteSubsetsOf(S) /\ T # {}
  <2>1. FiniteSubsetsOf(S) = SUBSET S
    BY FS_FiniteSubsetsOfFinite
  <2>2. \A x \in S : below(x) \in SUBSET S
    OBVIOUS
  <2>3. T \subseteq SUBSET S
    BY <2>2
  <2>4. T # {}
    <3>1. PICK x \in S : TRUE
      OBVIOUS
    <3>2. below(x) \in T
      OBVIOUS
    <3>. QED
      BY <3>2
  <2>. QED
    BY <2>1, <2>3, <2>4
<1>3. PICK b \in T : \A c \in T : <<c, b>> \notin StrictSubsetOrdering(S)
  BY <1>1, <1>2, WFMin
<1>4. PICK x \in S : b = below(x)
  BY <1>3
<1>5. ASSUME NEW y \in S, <<y, x>> \in R PROVE FALSE
  <2>1. below(y) \subseteq below(x)
    BY <1>5
  <2>2. y \in below(x) /\ y \notin below(y)
    BY <1>5
  <2>3. <<below(y), below(x)>> \in StrictSubsetOrdering(S)
    BY <2>1, <2>2 DEF StrictSubsetOrdering
  <2>. QED
    BY <1>3, <1>4, <2>3
<1>. QED
  BY <1>5

\* The image of a finite set is finite.
LEMMA ImageIsFinite ==
    ASSUME NEW S, IsFiniteSet(S), NEW f
    PROVE  IsFiniteSet({f[x] : x \in S})
<1> DEFINE T == {f[x] : x \in S}
           g == [x \in S |-> f[x]]
<1>1. g \in Surjection(S, T)
  BY DEF Surjection
<1>. QED
  BY <1>1, FS_Surjection

\* Lexicographic comparison of six numbers is a strict order, and total where
\* the last ones differ.
LEMMA PrecedesIsStrict ==
    ASSUME NEW s \in [1..6 -> Int]
    PROVE  ~Precedes(s, s)
BY DEF Precedes

LEMMA PrecedesIsTransitive ==
    ASSUME NEW s \in [1..6 -> Int], NEW t \in [1..6 -> Int], NEW u \in [1..6 -> Int],
           Precedes(s, t), Precedes(t, u)
    PROVE  Precedes(s, u)
<1>1. PICK i \in 1..6 : s[i] < t[i] /\ \A k \in 1..i - 1 : s[k] = t[k]
  BY DEF Precedes
<1>2. PICK j \in 1..6 : t[j] < u[j] /\ \A k \in 1..j - 1 : t[k] = u[k]
  BY DEF Precedes
<1>3. CASE i <= j
  <2>1. s[i] < u[i]
    BY <1>1, <1>2, <1>3
  <2>2. \A k \in 1..i - 1 : s[k] = u[k]
    BY <1>1, <1>2, <1>3
  <2>. QED
    BY <2>1, <2>2 DEF Precedes
<1>4. CASE j < i
  <2>1. s[j] < u[j]
    BY <1>1, <1>2, <1>4
  <2>2. \A k \in 1..j - 1 : s[k] = u[k]
    BY <1>1, <1>2, <1>4
  <2>. QED
    BY <2>1, <2>2 DEF Precedes
<1>. QED
  BY <1>3, <1>4

LEMMA PrecedesIsTotal ==
    ASSUME NEW s \in [1..6 -> Int], NEW t \in [1..6 -> Int], s[6] # t[6]
    PROVE  Precedes(s, t) \/ Precedes(t, s)
<1>1. CASE s[1] # t[1]
  BY <1>1 DEF Precedes
<1>2. CASE s[1] = t[1] /\ s[2] # t[2]
  BY <1>2 DEF Precedes
<1>3. CASE s[1] = t[1] /\ s[2] = t[2] /\ s[3] # t[3]
  BY <1>3 DEF Precedes
<1>4. CASE s[1] = t[1] /\ s[2] = t[2] /\ s[3] = t[3] /\ s[4] # t[4]
  BY <1>4 DEF Precedes
<1>5. CASE s[1] = t[1] /\ s[2] = t[2] /\ s[3] = t[3] /\ s[4] = t[4] /\ s[5] # t[5]
  BY <1>5 DEF Precedes
<1>6. CASE s[1] = t[1] /\ s[2] = t[2] /\ s[3] = t[3] /\ s[4] = t[4] /\ s[5] = t[5]
  BY <1>6 DEF Precedes
<1>. QED
  BY <1>1, <1>2, <1>3, <1>4, <1>5, <1>6


------------------------------------------------------------------------------
(* The store *)

\* What the proofs need to know of a record.
Ranked(r) == r.id \in Nat /\ IsFiniteSet(r.ws) /\ IsFiniteSet(r.kinds) /\ r.crit = "none"

Built == BuildStore(Sources, docs, cap.profile)

\* A stored record is that of a document that was accepted.
LEMMA BuiltFromDocuments ==
    ASSUME NEW r \in Built
    PROVE  \E i \in DOMAIN Sources : \E j \in DOMAIN docs[i] :
              /\ r = RecordAt(Sources, docs, <<i, j>>)
              /\ Contributes(Sources[i], cap.profile)
              /\ ~docs[i][j].secret /\ NormalizeAccepts(Sources[i], docs[i][j])
<1>1. PICK p \in BuildEntries(Sources, docs, cap.profile) : r = RecordAt(Sources, docs, p)
  BY DEF Built, BuildStore, PutRecords
<1>2. PICK i \in DOMAIN Sources :
          Contributes(Sources[i], cap.profile) /\ p \in {i} \X IngestSource(Sources[i], docs[i])
  BY <1>1 DEF BuildEntries
<1>3. PICK j \in IngestSource(Sources[i], docs[i]) : p = <<i, j>>
  BY <1>2
<1>. QED
  BY <1>1, <1>2, <1>3 DEF IngestSource

LEMMA EntriesAreFinite ==
    ASSUME docs \in DocumentSets
    PROVE  IsFiniteSet(BuildEntries(Sources, docs, cap.profile))
<1> DEFINE f == [i \in DOMAIN Sources |-> {i} \X DOMAIN docs[i]]
           all == {f[i] : i \in DOMAIN Sources}
<1>1. IsFiniteSet(DOMAIN Sources)
  <2>1. Len(Sources) \in Nat /\ DOMAIN Sources = 1..Len(Sources)
    BY ResolutionAssumption
  <2>. QED
    BY <2>1, FS_Interval
<1>2. IsFiniteSet(all)
  <2>. HIDE DEF f
  <2>. QED
    BY <1>1, ImageIsFinite
<1>3. ASSUME NEW T \in all PROVE IsFiniteSet(T)
  <2>1. PICK i \in DOMAIN Sources : T = {i} \X DOMAIN docs[i]
    BY <1>3
  <2>2. Len(docs[i]) \in Nat /\ DOMAIN docs[i] = 1..Len(docs[i])
    <3>1. docs[i] \in Seq(Range(docs[i]))
      BY ResolutionAssumption
    <3>. QED
      BY <3>1
  <2>3. IsFiniteSet(1..Len(docs[i]))
    BY <2>2, FS_Interval
  <2>4. IsFiniteSet({i})
    BY FS_Singleton
  <2>. QED
    BY <2>1, <2>2, <2>3, <2>4, FS_Product
<1>4. IsFiniteSet(UNION all)
  BY <1>2, <1>3, FS_UNION
<1>5. BuildEntries(Sources, docs, cap.profile) \subseteq UNION all
  <2>. SUFFICES ASSUME NEW p \in BuildEntries(Sources, docs, cap.profile)
                PROVE  \E i \in DOMAIN Sources : p \in f[i]
    OBVIOUS
  <2>1. PICK i \in DOMAIN Sources : p \in {i} \X IngestSource(Sources[i], docs[i])
    BY DEF BuildEntries
  <2>2. IngestSource(Sources[i], docs[i]) \subseteq DOMAIN docs[i]
    BY DEF IngestSource
  <2>. QED
    BY <2>1, <2>2
<1>. QED
  BY <1>4, <1>5, FS_Subset

\* A store is finite.
LEMMA BuiltIsFinite ==
    ASSUME docs \in DocumentSets
    PROVE  IsFiniteSet(Built)
<1> DEFINE E == BuildEntries(Sources, docs, cap.profile)
           f == [p \in E |-> RecordAt(Sources, docs, p)]
<1>1. IsFiniteSet({f[p] : p \in E})
  BY EntriesAreFinite, ImageIsFinite
<1>2. Built \subseteq {f[p] : p \in E}
  BY DEF Built, BuildStore, PutRecords
<1>. QED
  BY <1>1, <1>2, FS_Subset

\* It has one record of each id.
LEMMA BuiltById ==
    ASSUME docs \in DocumentSets, NEW r \in Built, NEW s \in Built, r.id = s.id
    PROVE  r = s
<1> DEFINE E == BuildEntries(Sources, docs, cap.profile)
           Stays(x) == \A y \in E : Before(x, y) => RecordAt(Sources, docs, x).id
                                                      # RecordAt(Sources, docs, y).id
<1>1. PICK p \in E : r = RecordAt(Sources, docs, p) /\ Stays(p)
  BY DEF Built, BuildStore, PutRecords
<1>2. PICK q \in E : s = RecordAt(Sources, docs, q) /\ Stays(q)
  BY DEF Built, BuildStore, PutRecords
<1>3. ASSUME NEW x \in E PROVE x = <<x[1], x[2]>> /\ x[1] \in Nat /\ x[2] \in Nat
  <2>1. PICK i \in DOMAIN Sources : x \in {i} \X IngestSource(Sources[i], docs[i])
    BY <1>3 DEF BuildEntries
  <2>2. i \in Nat
    BY ResolutionAssumption
  <2>3. IngestSource(Sources[i], docs[i]) \subseteq DOMAIN docs[i]
    BY DEF IngestSource
  <2>4. DOMAIN docs[i] \subseteq Nat
    BY ResolutionAssumption
  <2>. QED
    BY <2>1, <2>2, <2>3, <2>4
<1>4. ~Before(p, q) /\ ~Before(q, p)
  BY <1>1, <1>2
<1>5. p[1] = q[1] /\ p[2] = q[2]
  BY <1>3, <1>4 DEF Before
<1>. QED
  BY <1>1, <1>2, <1>3, <1>5

LEMMA BuiltIsRanked ==
    ASSUME docs \in DocumentSets, NEW r \in Built
    PROVE  Ranked(r)
<1>0. PICK i \in DOMAIN Sources :
          \E k \in DOMAIN docs[i] : /\ r = RecordAt(Sources, docs, <<i, k>>)
                                    /\ NormalizeAccepts(Sources[i], docs[i][k])
  BY BuiltFromDocuments
<1>1. PICK j \in DOMAIN docs[i] :
          /\ r = RecordAt(Sources, docs, <<i, j>>)
          /\ NormalizeAccepts(Sources[i], docs[i][j])
  BY <1>0
<1> DEFINE sd == Sources[i]
           d == docs[i][j]
           n == NormalizeEntry(sd, d)
<1>2. r = Clamp(sd, n)
  BY <1>1 DEF RecordAt
<1>3. n.id = RecordId[d.id] /\ n.ws = d.fm.ws /\ n.kinds = d.fm.kinds /\ n.crit = "none"
  BY DEF NormalizeEntry
<1>4. r.id = n.id /\ r.ws = n.ws /\ r.kinds = n.kinds /\ r.crit = n.crit
  <2>. HIDE DEF n
  <2>. QED
    BY <1>2 DEF Clamp
<1>5. d.id # "none"
  BY <1>1 DEF NormalizeAccepts
<1>6. RecordId[d.id] \in Nat /\ IsFiniteSet(d.fm.ws) /\ IsFiniteSet(d.fm.kinds)
  BY <1>5, ResolutionAssumption
<1>. QED
  BY <1>3, <1>4, <1>6 DEF Ranked

------------------------------------------------------------------------------
(* Who wins a decision *)

LEMMA TierIsNumber ==
    ASSUME NEW r
    PROVE  /\ precedenceTier(r) \in 3..10
           /\ precedenceTier(r) = 3 <=> r.role = "trusted_project_policy"
BY DEF precedenceTier

LEMMA ScoreIsNumber ==
    ASSUME req \in Requests, NEW r, Ranked(r)
    PROVE  Score(r) \in Nat
<1>1. Cardinality(r.kinds \cap Facets) \in Nat
  <2>1. r.kinds \cap Facets \in SUBSET r.kinds
    OBVIOUS
  <2>2. IsFiniteSet(r.kinds)
    BY DEF Ranked
  <2>3. IsFiniteSet(r.kinds \cap Facets)
    BY <2>1, <2>2, FS_Subset
  <2>. QED
    BY <2>3, FS_CardinalityType
<1>2. Cardinality(r.words \cap req.words) \in Nat
  <2>1. r.words \cap req.words \in SUBSET req.words
    OBVIOUS
  <2>2. IsFiniteSet(req.words)
    BY ResolutionAssumption
  <2>3. IsFiniteSet(r.words \cap req.words)
    BY <2>1, <2>2, FS_Subset
  <2>. QED
    BY <2>3, FS_CardinalityType
<1>. QED
  BY <1>1, <1>2 DEF Score

LEMMA RankIsNumbers ==
    ASSUME req \in Requests, NEW r, Ranked(r)
    PROVE  /\ Rank(r) \in [1..6 -> Int]
           /\ Rank(r)[1] = precedenceTier(r) /\ Rank(r)[6] = r.id
<1>1. precedenceTier(r) \in Int
  BY TierIsNumber
<1>2. 10 - Narrowness(r) \in Int
  <2>1. IsFiniteSet(r.ws) /\ IsFiniteSet(r.kinds)
    BY DEF Ranked
  <2>2. Cardinality(r.ws) \in Nat /\ Cardinality(r.kinds) \in Nat
    BY <2>1, FS_CardinalityType
  <2>. QED
    BY <2>2 DEF Narrowness
<1>3. 100 - Score(r) \in Int
  BY ScoreIsNumber
<1>4. r.id \in Int
  BY DEF Ranked
<1>. QED
  BY <1>1, <1>2, <1>3, <1>4 DEF Rank

\* Each kept record is of a decision that one of its records wins, and unless
\* that is the record itself the winner stands before it.
LEMMA SomeoneWins ==
    ASSUME req \in Requests, docs \in DocumentSets, kept \subseteq Built, NEW r \in kept
    PROVE  \E w \in kept : /\ Wins(w) /\ r \in Group(w)
                           /\ w # r => Precedes(Rank(w), Rank(r)) /\ w.key = r.key /\ r.key # NoKey
<1>1. CASE r.key = NoKey
  BY <1>1 DEF Group, Wins
<1>2. CASE r.key # NoKey
  <2> DEFINE G == {x \in kept : x.key = r.key}
             R == {p \in G \X G : Precedes(Rank(p[1]), Rank(p[2]))}
  <2>1. IsFiniteSet(G) /\ G # {}
    <3>1. G \in SUBSET Built /\ r \in G
      OBVIOUS
    <3>2. IsFiniteSet(Built)
      BY BuiltIsFinite
    <3>. QED
      BY <3>1, <3>2, FS_Subset
  <2>2. ASSUME NEW x \in G PROVE Rank(x) \in [1..6 -> Int] /\ Rank(x)[6] = x.id /\ x \in Built
    BY <2>2, BuiltIsRanked, RankIsNumbers
  <2>3. \A x \in G : <<x, x>> \notin R
    BY <2>2, PrecedesIsStrict
  <2>4. \A x, y, z \in G : <<x, y>> \in R /\ <<y, z>> \in R => <<x, z>> \in R
    <3>. SUFFICES ASSUME NEW x \in G, NEW y \in G, NEW z \in G,
                         <<x, y>> \in R, <<y, z>> \in R
                  PROVE  <<x, z>> \in R
      OBVIOUS
    <3>1. Precedes(Rank(x), Rank(y)) /\ Precedes(Rank(y), Rank(z))
      OBVIOUS
    <3>2. Precedes(Rank(x), Rank(z))
      BY <2>2, <3>1, PrecedesIsTransitive
    <3>. QED
      BY <3>2
  <2>5. PICK w \in G : \A y \in G : <<y, w>> \notin R
    <3>. HIDE DEF G, R
    <3>. QED
      BY <2>1, <2>3, <2>4, SomethingFirst
  <2>6. ASSUME NEW y \in G, y # w PROVE Precedes(Rank(w), Rank(y))
    <3>1. y.id # w.id
      BY <2>2, <2>6, BuiltById
    <3>2. Precedes(Rank(w), Rank(y)) \/ Precedes(Rank(y), Rank(w))
      BY <2>2, <3>1, PrecedesIsTotal
    <3>3. ~Precedes(Rank(y), Rank(w))
      BY <2>5
    <3>. QED
      BY <3>2, <3>3
  <2>7. Group(w) = G
    BY <1>2 DEF Group
  <2>8. Wins(w)
    BY <2>6, <2>7 DEF Wins
  <2>. QED
    BY <1>2, <2>6, <2>7, <2>8
<1>. QED
  BY <1>1, <1>2

------------------------------------------------------------------------------
(* The inductive invariant *)

Computed == <<docs, req, cap, revoked, store, workspace, eligible, kept, winners, conflicts>>

\* Each stage has left what the next one starts from.
BuildHolds == stage # "build" => store = Built

BindHolds ==
    stage \notin {"build", "bind", "refused"} =>
        \/ Matching(req.hint) = {} /\ workspace = NoWorkspace
        \/ Matching(req.hint) = {workspace}

GateHolds ==
    stage \notin {"build", "bind", "refused", "gate"} => eligible = {r \in store : Evaluate(r)}

RetrieveHolds == stage \in {"decide", "reserve", "admit", "done"} => kept = retainRelevant(eligible)

DecideHolds ==
    stage \in {"reserve", "admit", "done"} =>
        /\ winners = {r \in kept : Wins(r)}
        /\ conflicts = {<<p[1].id, p[2].id>> :
                p \in {x \in kept \X kept : x[1] # x[2] /\ x[2] \in Group(x[1]) /\ Wins(x[1])}}

IsPack(p) ==
    p = [delivered |-> p.delivered, omitted |-> p.omitted, unknowns |-> p.unknowns,
         notices |-> p.notices, complete |-> p.complete, truncated |-> p.truncated,
         cost |-> p.cost]

\* A pack of winners with all that are reserved, which knows what it lacks, and
\* over the budget only before anything else was admitted.
Sound(p) ==
    /\ IsPack(p)
    /\ p.delivered \subseteq winners
    /\ \A r \in winners : Reserved(r) => r \in p.delivered
    /\ p.omitted = Cardinality(winners \ p.delivered)
    /\ p.unknowns = deriveUnknowns(p.delivered)
    /\ p.omitted > 0 => p.truncated /\ p.notices > 0
    /\ p.notices \in Nat
    /\ p.cost > Budget => \A r \in p.delivered : Reserved(r)

PackHolds ==
    /\ stage \notin {"admit", "done"} => pack.delivered = {}
    /\ stage \in {"admit", "done"} => Sound(pack)
    /\ stage = "admit" => todo \subseteq winners \ pack.delivered
    /\ stage = "done" => /\ pack.complete => ~(pack.cost > Budget)
                         /\ pack.cost > Budget => pack.truncated /\ ~pack.complete

ResInv ==
    /\ docs \in DocumentSets /\ req \in Requests
    /\ stage \in {"build", "bind", "refused", "gate", "retrieve", "decide", "reserve", "admit", "done"}
    /\ BuildHolds /\ BindHolds /\ GateHolds /\ RetrieveHolds /\ DecideHolds /\ PackHolds

LEMMA ResInvInit == ResInit => ResInv
BY DEF ResInit, ResInv, BuildHolds, BindHolds, GateHolds, RetrieveHolds, DecideHolds, PackHolds,
       EmptyPack

LEMMA BuildKeeps == ResInv /\ Build => ResInv'
<1>. SUFFICES ASSUME ResInv, Build PROVE ResInv'
  OBVIOUS
<1>. USE DEF Build, inputs
<1>1. BuildHolds'
  BY DEF BuildHolds, Built
<1>2. (BindHolds /\ GateHolds /\ RetrieveHolds /\ DecideHolds)'
  BY DEF BindHolds, GateHolds, RetrieveHolds, DecideHolds
<1>3. PackHolds'
  BY DEF ResInv, PackHolds
<1>. QED
  BY <1>1, <1>2, <1>3 DEF ResInv

LEMMA BindKeeps == ResInv /\ Bind => ResInv'
<1>. SUFFICES ASSUME ResInv, Bind PROVE ResInv'
  OBVIOUS
<1>1. IsFiniteSet(Matching(req.hint))
  <2>1. Matching(req.hint) \in SUBSET DOMAIN Workspaces
    BY DEF Matching
  <2>. QED
    BY <2>1, ResolutionAssumption, FS_Subset
<1>2. ASSUME ~(Cardinality(Matching(req.hint)) > 1), Matching(req.hint) # {}
      PROVE  \E w : Matching(req.hint) = {w}
  <2>1. Cardinality(Matching(req.hint)) \in Nat
    BY <1>1, FS_CardinalityType
  <2>2. Cardinality(Matching(req.hint)) # 0
    BY <1>1, <1>2, FS_EmptySet
  <2>3. Cardinality(Matching(req.hint)) = 1
    BY <1>2, <2>1, <2>2
  <2>. QED
    BY <1>1, <2>3, FS_Singleton
<1>3. UNCHANGED <<inputs, store, eligible, kept, winners, conflicts, todo, pack>>
  BY DEF Bind
<1>4. BuildHolds'
  BY <1>3 DEF ResInv, BuildHolds, Built, Bind, inputs
<1>5. BindHolds'
  <2>1. Matching(req'.hint) = Matching(req.hint)
    BY <1>3 DEF inputs
  <2>2. CASE Cardinality(Matching(req.hint)) > 1
    BY <2>2 DEF Bind, BindHolds
  <2>3. CASE ~(Cardinality(Matching(req.hint)) > 1) /\ Matching(req.hint) # {}
    <3>1. PICK w : Matching(req.hint) = {w}
      BY <1>2, <2>3
    <3>2. workspace' = CHOOSE x \in Matching(req.hint) : TRUE
      BY <2>3 DEF Bind
    <3>3. workspace' = w
      BY <3>1, <3>2
    <3>. QED
      BY <2>1, <3>1, <3>3 DEF BindHolds
  <2>4. CASE Matching(req.hint) = {}
    BY <2>1, <2>4 DEF Bind, BindHolds
  <2>. QED
    BY <2>2, <2>3, <2>4
<1>6. stage = "bind" /\ stage' \in {"refused", "gate"}
  BY DEF Bind
<1>7. (GateHolds /\ RetrieveHolds /\ DecideHolds)'
  BY <1>6 DEF GateHolds, RetrieveHolds, DecideHolds
<1>8. PackHolds'
  BY <1>3, <1>6 DEF ResInv, PackHolds
<1>. QED
  BY <1>3, <1>4, <1>5, <1>6, <1>7, <1>8 DEF ResInv, inputs

\* What the later stages compute from depends on nothing they change.
LEMMA SameGate ==
    ASSUME UNCHANGED <<req, cap, revoked, workspace>>, NEW r
    PROVE  Evaluate(r)' <=> Evaluate(r)
BY DEF Evaluate, CheckSensitivity, CheckProfileScope, CheckStatusValid, CheckWorkspaceScope,
       CheckTrust, CheckRevocation, CheckTaskScope, TaskKinds

LEMMA SameRelevance ==
    ASSUME UNCHANGED <<req, eligible>>
    PROVE  retainRelevant(eligible)' = retainRelevant(eligible)
BY DEF retainRelevant, relevantToTask

LEMMA SameRank ==
    ASSUME UNCHANGED req, NEW r
    PROVE  Rank(r)' = Rank(r)
<1>1. Score(r)' = Score(r)
  BY DEF Score, Facets, TaskKinds
<1>. QED
  BY <1>1 DEF Rank

LEMMA SameWinners ==
    ASSUME UNCHANGED <<req, kept>>, NEW r
    PROVE  (Wins(r)' <=> Wins(r)) /\ Group(r)' = Group(r)
<1>1. Group(r)' = Group(r)
  BY DEF Group
<1>2. \A x : Rank(x)' = Rank(x)
  BY SameRank
<1>. QED
  BY <1>1, <1>2 DEF Wins

LEMMA SamePack ==
    ASSUME UNCHANGED <<req, winners>>, NEW p
    PROVE  Sound(p)' <=> Sound(p)
<1>1. deriveUnknowns(p.delivered)' = deriveUnknowns(p.delivered)
  BY DEF deriveUnknowns
<1>2. Budget' = Budget
  BY DEF Budget
<1>. QED
  BY <1>1, <1>2 DEF Sound

LEMMA StagesKept ==
    ASSUME UNCHANGED Computed, stage # "build", stage' # "build", BuildHolds
    PROVE  /\ BuildHolds'
           /\ stage \notin {"build", "bind", "refused"} /\ BindHolds => BindHolds'
           /\ stage \notin {"build", "bind", "refused", "gate"} /\ GateHolds => GateHolds'
           /\ stage \in {"decide", "reserve", "admit", "done"} /\ RetrieveHolds => RetrieveHolds'
           /\ stage \in {"reserve", "admit", "done"} /\ DecideHolds => DecideHolds'
<1>. USE DEF Computed
<1>1. BuildHolds'
  BY DEF BuildHolds, Built
<1>2. ASSUME stage \notin {"build", "bind", "refused"}, BindHolds PROVE BindHolds'
  BY <1>2 DEF BindHolds, Matching
<1>3. ASSUME stage \notin {"build", "bind", "refused", "gate"}, GateHolds PROVE GateHolds'
  <2>1. \A r : Evaluate(r)' <=> Evaluate(r)
    BY SameGate
  <2>. QED
    BY <1>3, <2>1 DEF GateHolds
<1>4. ASSUME stage \in {"decide", "reserve", "admit", "done"}, RetrieveHolds PROVE RetrieveHolds'
  <2>1. retainRelevant(eligible)' = retainRelevant(eligible)
    BY SameRelevance
  <2>. QED
    BY <1>4, <2>1 DEF RetrieveHolds
<1>5. ASSUME stage \in {"reserve", "admit", "done"}, DecideHolds PROVE DecideHolds'
  <2>1. \A r : (Wins(r)' <=> Wins(r)) /\ Group(r)' = Group(r)
    BY SameWinners
  <2>. QED
    BY <1>5, <2>1 DEF DecideHolds
<1>. QED
  BY <1>1, <1>2, <1>3, <1>4, <1>5

LEMMA GateKeeps == ResInv /\ Gate => ResInv'
<1>. SUFFICES ASSUME ResInv, Gate PROVE ResInv'
  OBVIOUS
<1>0. /\ stage = "gate" /\ stage' = "retrieve"
      /\ UNCHANGED <<inputs, store, workspace, kept, winners, conflicts, todo, pack>>
  BY DEF Gate
<1>1. BuildHolds' /\ BindHolds'
  BY <1>0 DEF ResInv, BuildHolds, Built, BindHolds, Matching, inputs
<1>2. GateHolds'
  <2>1. \A r : Evaluate(r)' <=> Evaluate(r)
    BY <1>0, SameGate DEF inputs
  <2>. QED
    BY <1>0, <2>1 DEF Gate, GateHolds
<1>3. (RetrieveHolds /\ DecideHolds)'
  BY <1>0 DEF RetrieveHolds, DecideHolds
<1>4. PackHolds'
  BY <1>0 DEF ResInv, PackHolds
<1>. QED
  BY <1>0, <1>1, <1>2, <1>3, <1>4 DEF ResInv, inputs

LEMMA RetrieveKeeps == ResInv /\ Retrieve => ResInv'
<1>. SUFFICES ASSUME ResInv, Retrieve PROVE ResInv'
  OBVIOUS
<1>0. /\ stage = "retrieve" /\ stage' = "decide"
      /\ UNCHANGED <<inputs, store, workspace, eligible, winners, conflicts, todo, pack>>
  BY DEF Retrieve
<1>1. BuildHolds' /\ BindHolds'
  BY <1>0 DEF ResInv, BuildHolds, Built, BindHolds, Matching, inputs
<1>2. GateHolds'
  <2>1. \A r : Evaluate(r)' <=> Evaluate(r)
    BY <1>0, SameGate DEF inputs
  <2>. QED
    BY <1>0, <2>1 DEF ResInv, GateHolds
<1>3. RetrieveHolds'
  <2>1. retainRelevant(eligible)' = retainRelevant(eligible)
    BY <1>0, SameRelevance DEF inputs
  <2>. QED
    BY <1>0, <2>1 DEF Retrieve, RetrieveHolds
<1>4. DecideHolds'
  BY <1>0 DEF DecideHolds
<1>5. PackHolds'
  BY <1>0 DEF ResInv, PackHolds
<1>. QED
  BY <1>0, <1>1, <1>2, <1>3, <1>4, <1>5 DEF ResInv, inputs

LEMMA DecideKeeps == ResInv /\ Decide => ResInv'
<1>. SUFFICES ASSUME ResInv, Decide PROVE ResInv'
  OBVIOUS
<1>0. /\ stage = "decide" /\ stage' = "reserve"
      /\ UNCHANGED <<inputs, store, workspace, eligible, kept, todo, pack>>
  BY DEF Decide
<1>1. BuildHolds' /\ BindHolds'
  BY <1>0 DEF ResInv, BuildHolds, Built, BindHolds, Matching, inputs
<1>2. GateHolds'
  <2>1. \A r : Evaluate(r)' <=> Evaluate(r)
    BY <1>0, SameGate DEF inputs
  <2>. QED
    BY <1>0, <2>1 DEF ResInv, GateHolds
<1>3. RetrieveHolds'
  <2>1. retainRelevant(eligible)' = retainRelevant(eligible)
    BY <1>0, SameRelevance DEF inputs
  <2>. QED
    BY <1>0, <2>1 DEF ResInv, RetrieveHolds
<1>4. DecideHolds'
  <2>1. \A r : (Wins(r)' <=> Wins(r)) /\ Group(r)' = Group(r)
    BY <1>0, SameWinners DEF inputs
  <2>. QED
    BY <1>0, <2>1 DEF Decide, DecideHolds
<1>5. PackHolds'
  BY <1>0 DEF ResInv, PackHolds
<1>. QED
  BY <1>0, <1>1, <1>2, <1>3, <1>4, <1>5 DEF ResInv, inputs

LEMMA WinnersAreStored ==
    ASSUME ResInv, stage \in {"reserve", "admit", "done"}
    PROVE  /\ winners \subseteq kept /\ kept \subseteq eligible /\ eligible \subseteq Built
           /\ \A S \in SUBSET winners : IsFiniteSet(S)
<1>1. winners \subseteq kept
  BY DEF ResInv, DecideHolds
<1>2. kept \subseteq eligible
  BY DEF ResInv, RetrieveHolds, retainRelevant
<1>3. eligible \subseteq Built
  BY DEF ResInv, GateHolds, BuildHolds
<1>4. IsFiniteSet(Built)
  BY BuiltIsFinite DEF ResInv
<1>5. ASSUME NEW S \in SUBSET winners PROVE IsFiniteSet(S)
  <2>1. S \in SUBSET Built
    BY <1>1, <1>2, <1>3
  <2>. QED
    BY <1>4, <2>1, FS_Subset
<1>. QED
  BY <1>1, <1>2, <1>3, <1>5

\* A pack that is put together carries what it was given and says what it lacks.
LEMMA AssembledPack ==
    ASSUME NEW D, NEW n \in Nat, NEW p, p = Assemble(D, n)
    PROVE  /\ p.delivered = D /\ p.omitted = n /\ p.unknowns = deriveUnknowns(D)
           /\ p.notices \in Nat /\ p.truncated = (n > 0)
           /\ n > 0 => p.notices > 0
           /\ IsPack(p)
BY DEF Assemble, IsPack

LEMMA ReserveKeeps == ResInv /\ Reserve => ResInv'
<1>. SUFFICES ASSUME ResInv, Reserve PROVE ResInv'
  OBVIOUS
<1>0. /\ stage = "reserve" /\ stage' = "admit"
      /\ UNCHANGED <<inputs, store, workspace, eligible, kept, winners, conflicts>>
  BY DEF Reserve
<1>1. UNCHANGED Computed
  BY <1>0 DEF Computed, inputs
<1>2. (BuildHolds /\ BindHolds /\ GateHolds /\ RetrieveHolds /\ DecideHolds)'
  BY <1>0, <1>1, StagesKept DEF ResInv
<1>3. PackHolds'
  <2> DEFINE reserved == {r \in winners : Reserved(r)}
             n == Cardinality(winners \ reserved)
  <2>1. pack' = Assemble(reserved, n) /\ todo' = winners \ reserved
    BY DEF Reserve
  <2>2. IsFiniteSet(winners \ reserved)
    BY <1>0, WinnersAreStored
  <2>3. n \in Nat
    BY <2>2, FS_CardinalityType
  <2>4. /\ pack'.delivered = reserved /\ pack'.omitted = n
        /\ pack'.unknowns = deriveUnknowns(reserved)
        /\ pack'.notices \in Nat /\ pack'.truncated = (n > 0)
        /\ n > 0 => pack'.notices > 0
        /\ IsPack(pack')
    <3>. HIDE DEF reserved, n
    <3>. QED
      BY <2>1, <2>3, AssembledPack
  <2>5. Sound(pack')
    BY <2>3, <2>4 DEF Sound
  <2>6. Sound(pack)'
    <3>1. \A p : Sound(p)' <=> Sound(p)
      BY <1>0, SamePack DEF inputs
    <3>. QED
      BY <2>5, <3>1
  <2>7. todo' \subseteq winners' \ pack'.delivered
    BY <1>0, <2>1, <2>4
  <2>. QED
    BY <1>0, <2>6, <2>7 DEF PackHolds
<1>. QED
  BY <1>0, <1>2, <1>3 DEF ResInv, inputs

\* Admitting another winner keeps a pack sound, whether it fits or not.
LEMMA OfferKeeps ==
    ASSUME NEW p, Sound(p), NEW r \in winners \ p.delivered, IsFiniteSet(winners \ p.delivered)
    PROVE  Sound(Offer(p, r)) /\ Offer(p, r).delivered \in {p.delivered, p.delivered \cup {r}}
<1> DEFINE D == p.delivered \cup {r}
           n == p.omitted - 1
           q == Assemble(D, n)
<1>1. p.omitted = Cardinality(winners \ p.delivered)
  BY DEF Sound
<1>2. Cardinality(winners \ p.delivered) \in Nat
  BY FS_CardinalityType
<1>3. Cardinality((winners \ p.delivered) \ {r}) = Cardinality(winners \ p.delivered) - 1
  BY FS_RemoveElement
<1>4. (winners \ p.delivered) \ {r} = winners \ D
  OBVIOUS
<1>5. IsFiniteSet(winners \ D)
  BY <1>4, FS_RemoveElement
<1>6. n = Cardinality(winners \ D) /\ n \in Nat
  BY <1>1, <1>2, <1>3, <1>4, <1>5, FS_CardinalityType
<1>7. /\ q.delivered = D /\ q.omitted = n /\ q.unknowns = deriveUnknowns(D)
      /\ q.notices \in Nat /\ q.truncated = (n > 0)
      /\ n > 0 => q.notices > 0
      /\ IsPack(q)
  <2>. HIDE DEF D, n
  <2>. QED
    BY <1>6, AssembledPack
<1>8. CASE q.cost > Budget
  BY <1>8 DEF Offer
<1>9. CASE ~(q.cost > Budget)
  <2>1. Offer(p, r) = q
    BY <1>9 DEF Offer
  <2>. HIDE DEF n, q
  <2>2. Sound(q)
    BY <1>6, <1>7, <1>9 DEF Sound
  <2>. QED
    BY <1>7, <2>1, <2>2
<1>. QED
  BY <1>8, <1>9

LEMMA AdmitKeeps == ResInv /\ Admit => ResInv'
<1>. SUFFICES ASSUME ResInv, Admit PROVE ResInv'
  OBVIOUS
<1>0. /\ stage = "admit" /\ stage' = "admit"
      /\ UNCHANGED <<inputs, store, workspace, eligible, kept, winners, conflicts>>
  BY DEF Admit
<1>1. UNCHANGED Computed
  BY <1>0 DEF Computed, inputs
<1>2. (BuildHolds /\ BindHolds /\ GateHolds /\ RetrieveHolds /\ DecideHolds)'
  BY <1>0, <1>1, StagesKept DEF ResInv
<1>3. PackHolds'
  <2>1. PICK r \in todo : pack' = Offer(pack, r) /\ todo' = todo \ {r}
    BY DEF Admit
  <2>2. Sound(pack) /\ todo \subseteq winners \ pack.delivered
    BY <1>0 DEF ResInv, PackHolds
  <2>3. IsFiniteSet(winners \ pack.delivered)
    BY <1>0, WinnersAreStored
  <2>4. Sound(pack') /\ pack'.delivered \in {pack.delivered, pack.delivered \cup {r}}
    BY <2>1, <2>2, <2>3, OfferKeeps
  <2>5. Sound(pack)'
    <3>1. \A p : Sound(p)' <=> Sound(p)
      BY <1>0, SamePack DEF inputs
    <3>. QED
      BY <2>4, <3>1
  <2>6. todo' \subseteq winners' \ pack'.delivered
    BY <1>0, <2>1, <2>2, <2>4
  <2>. QED
    BY <1>0, <2>5, <2>6 DEF PackHolds
<1>. QED
  BY <1>0, <1>2, <1>3 DEF ResInv, inputs

LEMMA IssueKeeps == ResInv /\ Issue => ResInv'
<1>. SUFFICES ASSUME ResInv, Issue PROVE ResInv'
  OBVIOUS
<1>0. /\ stage = "admit" /\ stage' = "done"
      /\ UNCHANGED <<inputs, store, workspace, eligible, kept, winners, conflicts, todo>>
  BY DEF Issue
<1>1. UNCHANGED Computed
  BY <1>0 DEF Computed, inputs
<1>2. (BuildHolds /\ BindHolds /\ GateHolds /\ RetrieveHolds /\ DecideHolds)'
  BY <1>0, <1>1, StagesKept DEF ResInv
<1>3. Sound(pack)
  BY <1>0 DEF ResInv, PackHolds
<1>4. Budget' = Budget
  BY <1>0 DEF Budget, inputs
<1>5. ASSUME pack.cost > Budget PROVE PackHolds'
  <2>1. pack' = [pack EXCEPT !.complete = FALSE, !.truncated = TRUE,
                             !.notices = @ + 1, !.cost = @ + NoticeCost]
    BY <1>5 DEF Issue
  <2>2. /\ pack' = [delivered |-> pack.delivered, omitted |-> pack.omitted,
                    unknowns |-> pack.unknowns, notices |-> pack.notices + 1,
                    complete |-> FALSE, truncated |-> TRUE, cost |-> pack.cost + NoticeCost]
    BY <1>3, <2>1 DEF Sound, IsPack
  <2>3. Sound(pack')
    BY <1>3, <1>5, <2>2 DEF Sound, IsPack
  <2>4. Sound(pack)'
    <3>1. \A p : Sound(p)' <=> Sound(p)
      BY <1>0, SamePack DEF inputs
    <3>. QED
      BY <2>3, <3>1
  <2>. QED
    BY <1>0, <2>2, <2>4 DEF PackHolds
<1>6. ASSUME ~(pack.cost > Budget) PROVE PackHolds'
  <2>1. pack' = pack
    BY <1>6 DEF Issue
  <2>2. Sound(pack)'
    <3>1. \A p : Sound(p)' <=> Sound(p)
      BY <1>0, SamePack DEF inputs
    <3>. QED
      BY <1>3, <2>1, <3>1
  <2>. QED
    BY <1>0, <1>4, <1>6, <2>1, <2>2 DEF PackHolds
<1>. QED
  BY <1>0, <1>2, <1>5, <1>6 DEF ResInv, inputs

LEMMA ResInvNext == ResInv /\ [ResNext]_resVars => ResInv'
<1>. SUFFICES ASSUME ResInv, [ResNext]_resVars PROVE ResInv'
  OBVIOUS
<1>1. CASE ResNext
  BY <1>1, BuildKeeps, BindKeeps, GateKeeps, RetrieveKeeps, DecideKeeps, ReserveKeeps,
     AdmitKeeps, IssueKeeps DEF ResNext
<1>2. CASE UNCHANGED resVars
  <2>1. UNCHANGED <<Computed, stage, todo, pack>>
    BY <1>2 DEF resVars, Computed
  <2>2. \A r : (Evaluate(r)' <=> Evaluate(r)) /\ (Wins(r)' <=> Wins(r)) /\ Group(r)' = Group(r)
    BY <2>1, SameGate, SameWinners DEF Computed
  <2>3. retainRelevant(eligible)' = retainRelevant(eligible)
    BY <2>1, SameRelevance DEF Computed
  <2>4. (BuildHolds /\ BindHolds)'
    BY <2>1 DEF ResInv, BuildHolds, Built, BindHolds, Matching, Computed
  <2>5. (GateHolds /\ RetrieveHolds)'
    BY <2>1, <2>2, <2>3 DEF ResInv, GateHolds, RetrieveHolds, Computed
  <2>6. DecideHolds'
    BY <2>1, <2>2 DEF ResInv, DecideHolds, Computed
  <2>7. PackHolds'
    <3>1. \A p : Sound(p)' <=> Sound(p)
      BY <2>1, SamePack DEF Computed
    <3>2. Budget' = Budget
      BY <2>1 DEF Budget, Computed
    <3>. QED
      BY <2>1, <3>1, <3>2 DEF ResInv, PackHolds, Computed
  <2>. QED
    BY <2>1, <2>4, <2>5, <2>6, <2>7 DEF ResInv, Computed
<1>. QED
  BY <1>1, <1>2

\* Every stage of a resolution has what the stages before it were to leave.
THEOREM ResolutionInvariant == ResSpec => []ResInv
BY ResInvInit, ResInvNext, PTL DEF ResSpec

------------------------------------------------------------------------------
(* What a resolution promises *)

\* Each question of the task is answered by delivered text or listed as
\* unknown, and never both.
THEOREM QuestionsAreAnsweredOrListed == ResSpec => []UnknownsHonest
<1>1. ResInv => UnknownsHonest
  <2>. SUFFICES ASSUME ResInv, stage = "done"
                PROVE  /\ \A t \in Topics \cap req.words :
                             t \in pack.unknowns <=> \A r \in pack.delivered : t \notin r.text
                       /\ NoEvidence \in pack.unknowns <=> \A r \in pack.delivered : alwaysApplies(r)
    BY DEF UnknownsHonest
  <2>1. pack.unknowns = deriveUnknowns(pack.delivered)
    BY DEF ResInv, PackHolds, Sound
  <2>2. NoEvidence \notin Topics
    BY ResolutionAssumption
  <2>. QED
    BY <2>1, <2>2 DEF deriveUnknowns, evidenceCovers, hasAdvisoryEvidence
<1>. QED
  BY <1>1, ResolutionInvariant, PTL

\* A pack that calls itself complete is within its budget, and one that is over
\* it carries nothing but what was reserved, and says so.
THEOREM BudgetsAreHonest == ResSpec => []BudgetHonest
<1>1. ResInv => BudgetHonest
  BY DEF ResInv, PackHolds, Sound, BudgetHonest
<1>. QED
  BY <1>1, ResolutionInvariant, PTL

\* Project policy reaches the pack or loses to other project policy that does,
\* and nothing delivered stands where an eligible record of a stronger tier
\* answers the same decision.
THEOREM PolicyIsDecisive == ResSpec => []PolicyDecides
<1>1. ResInv => PolicyDecides
  <2>. SUFFICES ASSUME ResInv, stage = "done"
                PROVE  /\ \A r \in eligible : r.role = "trusted_project_policy" =>
                             \E d \in pack.delivered :
                                 \/ d = r
                                 \/ (d.role = r.role /\ d.key = r.key /\ r.key # NoKey)
                       /\ \A r \in eligible, d \in pack.delivered :
                             r.key = d.key /\ r.key # NoKey => precedenceTier(d) <= precedenceTier(r)
    BY DEF PolicyDecides
  <2>0. /\ docs \in DocumentSets /\ req \in Requests
        /\ winners = {r \in kept : Wins(r)} /\ kept = retainRelevant(eligible)
        /\ pack.delivered \subseteq winners
        /\ \A r \in winners : Reserved(r) => r \in pack.delivered
    BY DEF ResInv, DecideHolds, RetrieveHolds, PackHolds, Sound
  <2>1. winners \subseteq kept /\ kept \subseteq eligible /\ eligible \subseteq Built
    BY WinnersAreStored
  <2>2. ASSUME NEW r \in eligible
        PROVE  /\ Rank(r) \in [1..6 -> Int] /\ Rank(r)[1] = precedenceTier(r)
               /\ precedenceTier(r) \in 3..10
               /\ precedenceTier(r) = 3 <=> r.role = "trusted_project_policy"
    <3>1. Ranked(r)
      BY <2>0, <2>1, <2>2, BuiltIsRanked
    <3>. QED
      BY <2>0, <3>1, RankIsNumbers, TierIsNumber
  <2>3. ASSUME NEW s \in eligible, NEW t \in eligible, Precedes(Rank(s), Rank(t))
        PROVE  precedenceTier(s) <= precedenceTier(t)
    <3>1. Rank(s)[1] <= Rank(t)[1]
      BY <2>2, <2>3 DEF Precedes
    <3>. QED
      BY <2>2, <3>1
  <2>4. ASSUME NEW r \in eligible, r.role = "trusted_project_policy"
        PROVE  \E d \in pack.delivered :
                   d = r \/ (d.role = r.role /\ d.key = r.key /\ r.key # NoKey)
    <3>1. r \in kept
      BY <2>0, <2>4 DEF retainRelevant, alwaysApplies, isMandatory
    <3>2. PICK w \in kept : /\ Wins(w)
                            /\ w # r => Precedes(Rank(w), Rank(r)) /\ w.key = r.key /\ r.key # NoKey
      BY <2>0, <2>1, <3>1, SomeoneWins
    <3>3. w.role = "trusted_project_policy"
      BY <2>1, <2>2, <2>3, <2>4, <3>1, <3>2
    <3>4. Reserved(w)
      BY <3>3 DEF Reserved, isMandatory
    <3>5. w \in pack.delivered
      BY <2>0, <3>2, <3>4
    <3>. QED
      BY <2>4, <3>2, <3>3, <3>5
  <2>5. ASSUME NEW r \in eligible, NEW d \in pack.delivered, r.key = d.key, r.key # NoKey
        PROVE  precedenceTier(d) <= precedenceTier(r)
    <3>1. d \in kept /\ Wins(d)
      BY <2>0
    <3>2. r \in kept
      BY <2>0, <2>5, <3>1 DEF retainRelevant
    <3>3. r \in Group(d)
      BY <2>5, <3>2 DEF Group
    <3>4. CASE r = d
      BY <2>2, <3>4
    <3>5. CASE r # d
      <4>1. Precedes(Rank(d), Rank(r))
        BY <3>1, <3>3, <3>5 DEF Wins
      <4>. QED
        BY <2>1, <2>3, <3>1, <4>1
    <3>. QED
      BY <3>4, <3>5
  <2>. QED
    BY <2>4, <2>5
<1>. QED
  BY <1>1, ResolutionInvariant, PTL

\* No eligible record disappears without a word: it is delivered, shadowed by a
\* named winner, counted as omitted, or answers nothing the task asks.
THEOREM NothingIsSilent == ResSpec => []NothingSilent
<1>1. ResInv => NothingSilent
  <2>. SUFFICES ASSUME ResInv, stage = "done"
                PROVE  NothingSilent
    BY DEF NothingSilent
  <2>0. /\ docs \in DocumentSets /\ req \in Requests
        /\ winners = {r \in kept : Wins(r)} /\ kept = retainRelevant(eligible)
        /\ conflicts = {<<p[1].id, p[2].id>> :
              p \in {x \in kept \X kept : x[1] # x[2] /\ x[2] \in Group(x[1]) /\ Wins(x[1])}}
        /\ pack.delivered \subseteq winners
        /\ \A r \in winners : Reserved(r) => r \in pack.delivered
        /\ pack.omitted = Cardinality(winners \ pack.delivered)
        /\ pack.omitted > 0 => pack.truncated
    BY DEF ResInv, DecideHolds, RetrieveHolds, PackHolds, Sound
  <2>1. winners \subseteq kept /\ kept \subseteq eligible /\ eligible \subseteq Built
    BY WinnersAreStored
  <2>2. ASSUME NEW r \in kept, r \notin winners
        PROVE  \E c \in conflicts : c[2] = r.id
    <3>1. PICK w \in kept : Wins(w) /\ r \in Group(w)
      BY <2>0, <2>1, SomeoneWins
    <3>2. w # r
      BY <2>0, <2>2, <3>1
    <3>3. <<w.id, r.id>> \in conflicts
      <4>1. <<w, r>> \in {x \in kept \X kept : x[1] # x[2] /\ x[2] \in Group(x[1]) /\ Wins(x[1])}
        BY <2>2, <3>1, <3>2
      <4>. QED
        BY <2>0, <4>1
    <3>. QED
      BY <3>3
  <2>3. ASSUME NEW r \in winners, r \notin pack.delivered
        PROVE  ~isMandatory(r) /\ pack.truncated
    <3>1. r.crit = "none"
      BY <2>0, <2>1, BuiltIsRanked DEF Ranked
    <3>2. ~isMandatory(r)
      BY <2>0, <2>3, <3>1 DEF Reserved, isMandatory
    <3>3. IsFiniteSet(winners \ pack.delivered)
      BY WinnersAreStored
    <3>4. Cardinality(winners \ pack.delivered) \in Nat /\ Cardinality(winners \ pack.delivered) # 0
      BY <2>3, <3>3, FS_EmptySet, FS_CardinalityType
    <3>. QED
      BY <2>0, <3>2, <3>4
  <2>4. ASSUME NEW r \in eligible, r \notin kept
        PROVE  /\ r.words \cap req.words = {} /\ r.kinds = {} /\ r.ws = {} /\ ~alwaysApplies(r)
               /\ r.key # NoKey => \A w \in winners : w.key # r.key
    <3>1. ~alwaysApplies(r) /\ ~relevantToTask(r)
      BY <2>0, <2>4 DEF retainRelevant
    <3>2. r.words \cap req.words = {} /\ r.kinds = {} /\ r.ws = {}
      BY <3>1 DEF relevantToTask
    <3>3. ASSUME r.key # NoKey, NEW w \in winners PROVE w.key # r.key
      BY <2>0, <2>1, <2>4, <3>3 DEF retainRelevant
    <3>. QED
      BY <3>1, <3>2, <3>3
  <2>5. ASSUME NEW c \in conflicts PROVE \E w \in winners : w.id = c[1]
    <3>1. PICK p \in kept \X kept : c = <<p[1].id, p[2].id>> /\ Wins(p[1])
      BY <2>0
    <3>. QED
      BY <2>0, <3>1
  <2>6. ASSUME NEW r \in eligible \ pack.delivered
        PROVE  \/ \E c \in conflicts : c[2] = r.id
               \/ (r \in winners /\ ~isMandatory(r) /\ pack.truncated)
               \/ /\ r.words \cap req.words = {} /\ r.kinds = {} /\ r.ws = {} /\ ~alwaysApplies(r)
                  /\ r.key # NoKey => \A w \in winners : w.key # r.key
    <3>1. CASE r \notin kept
      BY <2>4, <3>1
    <3>2. CASE r \in kept /\ r \notin winners
      BY <2>2, <3>2
    <3>3. CASE r \in winners
      BY <2>3, <2>6, <3>3
    <3>. QED
      BY <3>1, <3>2, <3>3
  <2>. QED
    BY <2>0, <2>5, <2>6 DEF NothingSilent
<1>. QED
  BY <1>1, ResolutionInvariant, PTL

\* What a record says was said by its document or by its source.
LEMMA RecordSays ==
    ASSUME NEW sd, NEW d, NEW r, r = Clamp(sd, NormalizeEntry(sd, d))
    PROVE  /\ r.id = RecordId[d.id] /\ r.source = sd.id /\ r.sens = sd.sens
           /\ r.profiles = Narrowed(sd, d.fm) /\ r.ws = d.fm.ws /\ r.kinds = d.fm.kinds
           /\ r.exclude = d.fm.exclude /\ r.from = d.fm.from /\ r.until = d.fm.until
           /\ sd.trust = "untrusted_data" => r.role = "episodic_evidence" /\ r.auth = "informational"
<1> DEFINE n == NormalizeEntry(sd, d)
<1>1. /\ n.id = RecordId[d.id] /\ n.source = sd.id /\ n.sens = sd.sens
      /\ n.profiles = Narrowed(sd, d.fm) /\ n.ws = d.fm.ws /\ n.kinds = d.fm.kinds
      /\ n.exclude = d.fm.exclude /\ n.from = d.fm.from /\ n.until = d.fm.until
      /\ DOMAIN n = {"id", "source", "kind", "status", "conf", "auth", "role", "trust", "sens",
                     "crit", "profiles", "ws", "kinds", "exclude", "risks", "techs",
                     "supersedes", "from", "until", "key", "words", "text", "size"}
  BY DEF NormalizeEntry
<1>. HIDE DEF n
<1>2. /\ r.id = n.id /\ r.source = n.source /\ r.profiles = n.profiles /\ r.ws = n.ws
      /\ r.kinds = n.kinds /\ r.exclude = n.exclude /\ r.from = n.from /\ r.until = n.until
  BY <1>1 DEF Clamp, n
<1>3. r.sens = sd.sens
  BY <1>1 DEF Clamp, n
<1>4. sd.trust = "untrusted_data" => r.role = "episodic_evidence" /\ r.auth = "informational"
  BY <1>1 DEF Clamp, n
<1>. QED
  BY <1>1, <1>2, <1>3, <1>4

\* What is delivered is the record of a document that its registration and its
\* own front matter meant for this request.
THEOREM DeliveredAsRegistered == ResSpec => []WithinRegistration
<1>1. ResInv => WithinRegistration
  <2>. SUFFICES ASSUME ResInv, NEW r \in pack.delivered
                PROVE  \E i \in DOMAIN Sources : \E j \in DOMAIN docs[i] :
                         LET sd == Sources[i]
                             d  == docs[i][j]
                             fm == d.fm
                         IN
                         /\ r = RecordAt(Sources, docs, <<i, j>>) /\ ~d.secret
                         /\ cap.profile \in sd.profiles
                         /\ fm.profiles # {} => cap.profile \in fm.profiles
                         /\ cap.profile = "work-safe" =>
                              SafeManifest(sd) /\ sd.sens.class # "personal_private"
                         /\ sd.sens.class = "work_restricted" => Matching(req.hint) = {sd.sens.ns}
                         /\ sd.sens.class # "secret_never_ingest"
                         /\ fm.ws # {} => \E w \in fm.ws : Matching(req.hint) = {w}
                         /\ fm.kinds # {} =>
                              fm.kinds \cap (IF req.hints # {} THEN req.hints ELSE req.facets) # {}
                         /\ (Matching(req.hint) \cup {req.task}) \cap fm.exclude = {}
                         /\ fm.from <= req.now /\ req.now <= fm.until
                         /\ RecordId[d.id] \notin revoked.records /\ sd.id \notin revoked.sources
                         /\ sd.trust = "untrusted_data" =>
                              r.role = "episodic_evidence" /\ r.auth = "informational"
    BY DEF WithinRegistration
  <2>1. stage \in {"admit", "done"}
    BY DEF ResInv, PackHolds
  <2>2. r \in Built /\ Evaluate(r)
    <3>1. r \in winners
      BY <2>1 DEF ResInv, PackHolds, Sound
    <3>2. r \in eligible /\ r \in Built
      BY <2>1, <3>1, WinnersAreStored
    <3>. QED
      BY <2>1, <3>2 DEF ResInv, GateHolds
  <2>3. \/ Matching(req.hint) = {} /\ workspace = NoWorkspace
        \/ Matching(req.hint) = {workspace}
    BY <2>1 DEF ResInv, BindHolds
  <2>4. PICK i \in DOMAIN Sources : \E j \in DOMAIN docs[i] :
              /\ r = RecordAt(Sources, docs, <<i, j>>)
              /\ Contributes(Sources[i], cap.profile)
              /\ ~docs[i][j].secret /\ NormalizeAccepts(Sources[i], docs[i][j])
    BY <2>2, BuiltFromDocuments
  <2>5. PICK j \in DOMAIN docs[i] :
              /\ r = RecordAt(Sources, docs, <<i, j>>)
              /\ Contributes(Sources[i], cap.profile)
              /\ ~docs[i][j].secret /\ NormalizeAccepts(Sources[i], docs[i][j])
    BY <2>4
  <2> DEFINE sd == Sources[i]
             d == docs[i][j]
             fm == d.fm
  <2>6. r = Clamp(sd, NormalizeEntry(sd, d))
    BY <2>5 DEF RecordAt
  <2>7. /\ r.id = RecordId[d.id] /\ r.source = sd.id /\ r.sens = sd.sens
        /\ r.profiles = Narrowed(sd, fm) /\ r.ws = fm.ws /\ r.kinds = fm.kinds
        /\ r.exclude = fm.exclude /\ r.from = fm.from /\ r.until = fm.until
        /\ sd.trust = "untrusted_data" => r.role = "episodic_evidence" /\ r.auth = "informational"
    <3>. HIDE DEF sd, d
    <3>. QED
      BY <2>6, RecordSays
  <2>8. cap.profile \in sd.profiles /\ (cap.profile = "work-safe" => SafeManifest(sd))
    BY <2>5 DEF Contributes
  <2>9. fm.profiles # {} => cap.profile \in fm.profiles
    <3>1. CASE fm.profiles # {}
      <4>1. r.profiles = fm.profiles \cap sd.profiles /\ r.profiles # {}
        BY <2>5, <2>7, <3>1 DEF NormalizeAccepts, MetadataAccepted, Narrowed
      <4>. QED
        BY <2>2, <4>1 DEF Evaluate, CheckProfileScope
    <3>. QED
      BY <3>1
  <2>10. /\ cap.profile = "work-safe" => sd.sens.class # "personal_private"
         /\ sd.sens.class = "work_restricted" => Matching(req.hint) = {sd.sens.ns}
         /\ sd.sens.class # "secret_never_ingest"
    <3>1. /\ sd.sens.class = "personal_private" => cap.profile = "personal"
          /\ sd.sens.class = "work_restricted" => workspace # NoWorkspace /\ sd.sens.ns = workspace
          /\ sd.sens.class # "secret_never_ingest"
      BY <2>2, <2>7 DEF Evaluate, CheckSensitivity
    <3>. QED
      BY <2>3, <3>1
  <2>11. fm.ws # {} => \E w \in fm.ws : Matching(req.hint) = {w}
    BY <2>2, <2>3, <2>7 DEF Evaluate, CheckWorkspaceScope
  <2>12. fm.kinds # {} => fm.kinds \cap (IF req.hints # {} THEN req.hints ELSE req.facets) # {}
    BY <2>2, <2>7 DEF Evaluate, CheckTaskScope, TaskKinds
  <2>13. (Matching(req.hint) \cup {req.task}) \cap fm.exclude = {}
    BY <2>2, <2>3, <2>7 DEF Evaluate, CheckTaskScope
  <2>14. fm.from <= req.now /\ req.now <= fm.until
    BY <2>2, <2>7 DEF Evaluate, CheckStatusValid
  <2>15. RecordId[d.id] \notin revoked.records /\ sd.id \notin revoked.sources
    BY <2>2, <2>7 DEF Evaluate, CheckRevocation
  <2>. QED
    BY <2>5, <2>7, <2>8, <2>9, <2>10, <2>11, <2>12, <2>13, <2>14, <2>15
<1>. QED
  BY <1>1, ResolutionInvariant, PTL


------------------------------------------------------------------------------
(* Recursion over numbers *)

\* A set with zero in it, and with every number the next, up to n, has them all.
LEMMA NumbersUpTo ==
    ASSUME NEW n \in Nat, NEW S, 0 \in S,
           \A k \in 0..n : k \in S /\ k < n => k + 1 \in S
    PROVE  \A k \in 0..n : k \in S
<1> DEFINE T == {k \in 0..n : k \notin S}
           R == {p \in (0..n) \X (0..n) : p[1] < p[2]}
<1> SUFFICES ASSUME T # {} PROVE FALSE
  OBVIOUS
<1>1. IsFiniteSet(T)
  BY FS_Interval, FS_Subset, 0 \in Int, n \in Int
<1>2. \A x \in T : <<x, x>> \notin R
  OBVIOUS
<1>3. \A x, y, z \in T : <<x, y>> \in R /\ <<y, z>> \in R => <<x, z>> \in R
  OBVIOUS
<1>4. PICK x \in T : \A y \in T : <<y, x>> \notin R
  <2> HIDE DEF T, R
  <2>. QED
    BY <1>1, <1>2, <1>3, SomethingFirst
<1>5. x # 0 /\ x - 1 \in 0..n /\ x - 1 < n /\ (x - 1) + 1 = x
  OBVIOUS
<1>6. <<x - 1, x>> \in R
  BY <1>5
<1>7. x - 1 \in S
  BY <1>4, <1>5, <1>6
<1>8. x \in S
  BY <1>5, <1>7
<1>. QED
  BY <1>8

------------------------------------------------------------------------------
(* The statement of a document *)

IsReader(s) ==
    s = [run |-> s.run, mark |-> s.mark, comment |-> s.comment, section |-> s.section,
         paragraph |-> s.paragraph, first |-> s.first, preferred |-> s.preferred]

Reads(body, s) ==
    s = [k \in 0..Len(body) |-> IF k = 0 THEN Reading ELSE ReadLine(body, s[k - 1], k)]

\* The first turns of the loop, as many as one asks for.
ReadsTo(body, n, s) ==
    s = [k \in 0..n |-> IF k = 0 THEN Reading ELSE ReadLine(body, s[k - 1], k)]

LEMMA LoopRuns ==
    ASSUME NEW body, Len(body) \in Nat
    PROVE  Reads(body, ReaderOver(body))
<1> DEFINE S == {n \in 0..Len(body) : \E s : ReadsTo(body, n, s)}
<1>1. 0 \in S
  <2> DEFINE z == [k \in 0..0 |-> Reading]
  <2>1. z = [k \in 0..0 |-> IF k = 0 THEN Reading ELSE ReadLine(body, z[k - 1], k)]
    OBVIOUS
  <2>2. ReadsTo(body, 0, z)
    BY <2>1 DEF ReadsTo
  <2>. QED
    BY <2>2
<1>2. ASSUME NEW n \in 0..Len(body), n \in S, n < Len(body)
      PROVE  n + 1 \in S
  <2>1. PICK s : ReadsTo(body, n, s)
    BY <1>2
  <2> DEFINE z == [k \in 0..n + 1 |-> IF k <= n THEN s[k] ELSE ReadLine(body, s[n], n + 1)]
  <2>2. \A k \in 0..n + 1 :
           z[k] = IF k = 0 THEN Reading ELSE ReadLine(body, z[k - 1], k)
    <3> SUFFICES ASSUME NEW k \in 0..n + 1
                 PROVE  z[k] = IF k = 0 THEN Reading ELSE ReadLine(body, z[k - 1], k)
      OBVIOUS
    <3>1. CASE k <= n
      <4>1. z[k] = s[k]
        BY <3>1
      <4>2. k # 0 => z[k - 1] = s[k - 1]
        BY <3>1
      <4>3. s[k] = IF k = 0 THEN Reading ELSE ReadLine(body, s[k - 1], k)
        BY <3>1, <2>1 DEF ReadsTo
      <4>. QED
        BY <4>1, <4>2, <4>3
    <3>2. CASE k = n + 1
      <4>1. z[n] = s[n] /\ z[n + 1] = ReadLine(body, s[n], n + 1) /\ n + 1 # 0 /\ (n + 1) - 1 = n
        OBVIOUS
      <4> HIDE DEF z
      <4>. QED
        BY <4>1, <3>2
    <3>. QED
      BY <3>1, <3>2
  <2>3. ReadsTo(body, n + 1, z)
    <3>1. z = [k \in 0..n + 1 |-> z[k]]
      OBVIOUS
    <3> DEFINE u == [k \in 0..n + 1 |-> IF k = 0 THEN Reading ELSE ReadLine(body, z[k - 1], k)]
    <3>2. z = u
      <4>1. \A k \in 0..n + 1 : u[k] = z[k]
        <5> HIDE DEF z
        <5>. QED
          BY <2>2
      <4>2. u = [k \in 0..n + 1 |-> u[k]]
        OBVIOUS
      <4> HIDE DEF z, u
      <4>. QED
        BY <3>1, <4>1, <4>2
    <3> HIDE DEF z
    <3>. QED
      BY <3>2 DEF ReadsTo
  <2>4. n + 1 \in 0..Len(body)
    BY <1>2
  <2>. QED
    BY <2>3, <2>4
<1>3. \A n \in 0..Len(body) : n \in S
  <2> HIDE DEF S
  <2>. QED
    BY <1>1, <1>2, NumbersUpTo
<1>4. \E s : Reads(body, s)
  <2>1. Len(body) \in S
    BY <1>3
  <2>. QED
    BY <2>1 DEF ReadsTo, Reads
<1>. QED
  BY <1>4 DEF Reads, ReaderOver

LEMMA FlushReads ==
    ASSUME NEW s, IsReader(s)
    PROVE  /\ IsReader(flush(s))
           /\ flush(s).run = s.run /\ flush(s).mark = s.mark /\ flush(s).comment = s.comment
<1>1. PICK f : f = IF s.first = <<>> THEN s.paragraph ELSE s.first
  OBVIOUS
<1>2. PICK g : g = IF s.preferred = <<>> /\ s.section = "summary" THEN s.paragraph
                   ELSE s.preferred
  OBVIOUS
<1>3. flush(s) = [s EXCEPT !.paragraph = <<>>, !.first = f, !.preferred = g]
  BY <1>1, <1>2 DEF flush
<1>4. flush(s) = [run |-> s.run, mark |-> s.mark, comment |-> s.comment, section |-> s.section,
                  paragraph |-> <<>>, first |-> f, preferred |-> g]
  BY <1>3 DEF IsReader
<1>. QED
  BY <1>4 DEF IsReader

LEMMA ReadLineReads ==
    ASSUME NEW body, NEW s, NEW i, IsReader(s)
    PROVE  IsReader(ReadLine(body, s, i))
BY DEF IsReader, ReadLine, flush

\* Turn by turn: what the loop starts with, and how it goes on.
LEMMA LoopTurns ==
    ASSUME NEW body, Len(body) \in Nat
    PROVE  /\ ReaderOver(body)[0] = Reading
           /\ \A k \in 1..Len(body) :
                 ReaderOver(body)[k] = ReadLine(body, ReaderOver(body)[k - 1], k)
           /\ \A k \in 0..Len(body) : IsReader(ReaderOver(body)[k])
<1> DEFINE s == ReaderOver(body)
           S == {k \in 0..Len(body) : IsReader(s[k])}
<1>1. Reads(body, s)
  BY LoopRuns
<1> HIDE DEF s
<1>2. s[0] = Reading /\ \A k \in 1..Len(body) : s[k] = ReadLine(body, s[k - 1], k)
  BY <1>1 DEF Reads
<1>3. 0 \in S
  BY <1>2 DEF Reading, IsReader
<1>4. ASSUME NEW k \in 0..Len(body), k \in S, k < Len(body)
      PROVE  k + 1 \in S
  <2>1. k + 1 \in 1..Len(body) /\ (k + 1) - 1 = k
    BY <1>4
  <2>2. s[k + 1] = ReadLine(body, s[k], k + 1)
    BY <1>2, <2>1
  <2>. QED
    BY <2>1, <2>2, <1>4, ReadLineReads
<1>5. \A k \in 0..Len(body) : k \in S
  <2> HIDE DEF S
  <2>. QED
    BY <1>3, <1>4, NumbersUpTo
<1>. QED
  BY <1>2, <1>5 DEF s

\* A document whose parts are sequences of lines, with their lengths.
HasParts(p, n, m, t) ==
    /\ p.before \in Seq(Range(p.before)) /\ n = Len(p.before)
    /\ p.inside \in Seq(Range(p.inside)) /\ m = Len(p.inside)
    /\ p.after \in Seq(Range(p.after)) /\ t = Len(p.after)

LEMMA Joined ==
    ASSUME NEW U, NEW s \in Seq(U), NEW t \in Seq(U), NEW n, NEW m,
           n = Len(s), m = Len(t)
    PROVE  /\ s \o t \in Seq(U) /\ n \in Nat /\ m \in Nat /\ Len(s \o t) = n + m
           /\ \A k \in 1..n : (s \o t)[k] = s[k]
           /\ \A k \in 1..m : (s \o t)[n + k] = t[k]
OBVIOUS

LaidOut(b, p, n, m, t) ==
    /\ Len(b) = n + m + t + 2
    /\ \A k \in 1..n : b[k] = p.before[k]
    /\ b[n + 1] = p.open
    /\ \A k \in 1..m : b[n + 1 + k] = p.inside[k]
    /\ b[n + m + 2] = p.close
    /\ \A k \in 1..t : b[n + m + 2 + k] = p.after[k]

LEMMA BodyLines ==
    ASSUME NEW p, NEW n, NEW m, NEW t, HasParts(p, n, m, t)
    PROVE  /\ n \in Nat /\ m \in Nat /\ t \in Nat
           /\ LaidOut(Body(p), p, n, m, t)
<1>0. m = Len(p.inside) /\ t = Len(p.after)
  BY DEF HasParts
<1>1. PICK U : /\ p.before \in Seq(U) /\ p.inside \in Seq(U) /\ p.after \in Seq(U)
               /\ p.open \in U /\ p.close \in U
  <2> DEFINE W == Range(p.before) \cup Range(p.inside) \cup Range(p.after)
                  \cup {p.open, p.close}
  <2>1. /\ p.before \in Seq(W) /\ p.inside \in Seq(W) /\ p.after \in Seq(W)
        /\ p.open \in W /\ p.close \in W
    BY DEF HasParts
  <2>. QED
    BY <2>1
<1>2. PICK x : x = p.before \o <<p.open>>
  OBVIOUS
<1>3. PICK y : y = x \o p.inside
  OBVIOUS
<1>4. PICK z : z = y \o <<p.close>>
  OBVIOUS
<1>5. PICK w : w = z \o p.after
  OBVIOUS
<1>6. Body(p) = w
  BY <1>2, <1>3, <1>4, <1>5 DEF Body
<1>7. n \in Nat /\ m \in Nat /\ t \in Nat
  BY <1>1 DEF HasParts
<1>8. /\ x \in Seq(U) /\ Len(x) = n + 1 /\ x[n + 1] = p.open
      /\ \A k \in 1..n : x[k] = p.before[k]
  BY <1>1, <1>2 DEF HasParts
<1>80. n + 1 = Len(x)
  BY <1>8
<1>9. /\ y \in Seq(U) /\ Len(y) = n + 1 + m
      /\ \A k \in 1..n + 1 : y[k] = x[k]
      /\ \A k \in 1..m : y[n + 1 + k] = p.inside[k]
  <2>1. x \in Seq(U) /\ p.inside \in Seq(U) /\ n + 1 = Len(x) /\ m = Len(p.inside)
    BY <1>0, <1>1, <1>8
  <2>2. LET v == x \o p.inside IN
           /\ v \in Seq(U) /\ Len(v) = n + 1 + m
           /\ \A k \in 1..n + 1 : v[k] = x[k]
           /\ \A k \in 1..m : v[n + 1 + k] = p.inside[k]
    BY <2>1, Joined
  <2>. QED
    BY <2>2, <1>3
<1>10. /\ z \in Seq(U) /\ Len(z) = n + m + 2 /\ z[n + m + 2] = p.close
       /\ \A k \in 1..n + m + 1 : z[k] = y[k]
       /\ n + m + 2 = Len(z)
  <2>1. <<p.close>> \in Seq(U) /\ Len(<<p.close>>) = 1 /\ <<p.close>>[1] = p.close
    BY <1>1
  <2>2. /\ z \in Seq(U) /\ Len(z) = (n + 1 + m) + 1
        /\ \A k \in 1..n + 1 + m : z[k] = y[k]
        /\ \A k \in 1..1 : z[n + 1 + m + k] = <<p.close>>[k]
    BY <1>4, <1>7, <1>9, <2>1, Joined
  <2>3. z[n + 1 + m + 1] = p.close
    BY <2>1, <2>2
  <2>. QED
    BY <2>2, <2>3, <1>7
<1>11. /\ Len(w) = n + m + t + 2
       /\ \A k \in 1..n + m + 2 : w[k] = z[k]
       /\ \A k \in 1..t : w[n + m + 2 + k] = p.after[k]
  <2>1. /\ Len(w) = (n + m + 2) + t
        /\ \A k \in 1..n + m + 2 : w[k] = z[k]
        /\ \A k \in 1..t : w[n + m + 2 + k] = p.after[k]
    <3>1. z \in Seq(U) /\ p.after \in Seq(U) /\ n + m + 2 = Len(z) /\ t = Len(p.after)
      BY <1>0, <1>1, <1>10
    <3>2. LET v == z \o p.after IN
             /\ Len(v) = (n + m + 2) + t
             /\ \A k \in 1..n + m + 2 : v[k] = z[k]
             /\ \A k \in 1..t : v[n + m + 2 + k] = p.after[k]
      BY <3>1, Joined
    <3>. QED
      BY <3>2, <1>5
  <2>. QED
    BY <2>1, <1>7
<1>12. \A k \in 1..n : w[k] = p.before[k]
  BY <1>7, <1>8, <1>9, <1>10, <1>11
<1>13. w[n + 1] = p.open
  BY <1>7, <1>8, <1>9, <1>10, <1>11
<1>14. \A k \in 1..m : w[n + 1 + k] = p.inside[k]
  <2> TAKE k \in 1..m
  <2>1. n + 1 + k \in 1..n + m + 1 /\ n + 1 + k \in 1..n + m + 2
    BY <1>7
  <2>. QED
    BY <2>1, <1>9, <1>10, <1>11
<1>15. w[n + m + 2] = p.close
  BY <1>7, <1>10, <1>11
<1>. QED
  BY <1>6, <1>7, <1>11, <1>12, <1>13, <1>14, <1>15 DEF LaidOut

\* Whether a line is read inside a region hangs on the lines before it alone.
LEMMA VisibilityIsOfTheLines ==
    ASSUME NEW body, NEW other, NEW s, NEW r, NEW i,
           IsReader(s), IsReader(r), body[i] = other[i],
           s.run = r.run, s.mark = r.mark, s.comment = r.comment
    PROVE  /\ ReadLine(body, s, i).run = ReadLine(other, r, i).run
           /\ ReadLine(body, s, i).mark = ReadLine(other, r, i).mark
           /\ ReadLine(body, s, i).comment = ReadLine(other, r, i).comment
BY DEF IsReader, ReadLine, flush, ClosesFence

\* A line inside a region that does not end it is not read at all; the one
\* that ends it leaves the rest of the reader alone.
Hidden(open, s) ==
    IF open.kind = "fence" THEN s.run = open.run /\ s.mark = open.mark /\ open.run \in Nat \ {0}
                           ELSE s.run = 0 /\ s.comment = TRUE

LEMMA OpeningHides ==
    ASSUME NEW body, NEW s, NEW i, IsReader(s), s.run = 0, ~s.comment,
           IF body[i].kind = "fence" THEN body[i].run \in Nat \ {0}
                                     ELSE body[i].opens /\ ~body[i].closes
    PROVE  Hidden(body[i], ReadLine(body, s, i))
<1>1. CASE body[i].kind = "fence"
  <2>1. ReadLine(body, s, i) = [flush(s) EXCEPT !.run = body[i].run, !.mark = body[i].mark]
    BY <1>1 DEF ReadLine
  <2>2. IsReader(flush(s))
    BY FlushReads
  <2>3. ReadLine(body, s, i).run = body[i].run /\ ReadLine(body, s, i).mark = body[i].mark
    BY <2>1, <2>2 DEF IsReader
  <2>. QED
    BY <1>1, <2>3 DEF Hidden
<1>2. CASE body[i].kind # "fence"
  <2>1. ReadLine(body, s, i) = [s EXCEPT !.comment = ~body[i].closes]
    BY <1>2 DEF ReadLine
  <2>2. ~body[i].closes
    BY <1>2
  <2>3. ReadLine(body, s, i) = [s EXCEPT !.comment = TRUE]
    BY <2>1, <2>2
  <2>4. ReadLine(body, s, i).comment = TRUE /\ ReadLine(body, s, i).run = 0
    BY <2>3 DEF IsReader
  <2>. QED
    BY <1>2, <2>4 DEF Hidden
<1>. QED
  BY <1>1, <1>2

LEMMA ExamplesAreSkipped ==
    ASSUME NEW body, NEW s, NEW i, NEW open, IsReader(s), Hidden(open, s), ~Ends(open, body[i])
    PROVE  ReadLine(body, s, i) = s
<1>1. CASE open.kind = "fence"
  BY <1>1 DEF ReadLine, ClosesFence, Hidden, Ends
<1>2. CASE open.kind # "fence"
  <2>1. ReadLine(body, s, i) = [s EXCEPT !.comment = ~body[i].closes]
    BY <1>2 DEF ReadLine, Hidden
  <2>2. ~body[i].closes
    BY <1>2 DEF Ends
  <2>3. ReadLine(body, s, i) = [s EXCEPT !.comment = TRUE]
    BY <2>1, <2>2
  <2>4. s.comment = TRUE
    BY <1>2 DEF Hidden
  <2>. QED
    BY <2>3, <2>4 DEF IsReader
<1>. QED
  BY <1>1, <1>2

LEMMA ClosingIsOfTheLine ==
    ASSUME NEW body, NEW other, NEW s, NEW i, NEW j, NEW open, IsReader(s), Hidden(open, s),
           body[i] = other[j]
    PROVE  ReadLine(body, s, i) = ReadLine(other, s, j)
BY DEF ReadLine, Hidden

LEMMA LaterIsOfTheLines ==
    ASSUME NEW body, NEW other, NEW s, NEW i, NEW j, body[i] = other[j],
           i < Len(body) <=> j < Len(other), i < Len(body) => body[i + 1] = other[j + 1]
    PROVE  ReadLine(body, s, i) = ReadLine(other, s, j)
BY DEF ReadLine

LEMMA OpeningIsOfTheLine ==
    ASSUME NEW body, NEW other, NEW s, NEW i, NEW j, s.run = 0, ~s.comment, body[i] = other[j],
           body[i].kind = "fence" \/ body[i].opens
    PROVE  ReadLine(body, s, i) = ReadLine(other, s, j)
BY DEF ReadLine

\* The loop over a document and the one over it without the example end alike.
LEMMA ExamplesLeaveTheReader ==
    ASSUME NEW p, NEW q, NEW n, NEW m, NEW t, HasParts(p, n, m, t), HasParts(q, n, 0, t),
           q.before = p.before, q.open = p.open, q.close = p.close, q.after = p.after,
           IF p.open.kind = "fence" THEN p.open.run \in Nat \ {0}
                                    ELSE p.open.opens /\ ~p.open.closes,
           Visible(p.before),
           \A i \in DOMAIN p.inside : ~Ends(p.open, p.inside[i])
    PROVE  ReadAll(Body(p)) = ReadAll(Body(q))
<1>1. PICK B, C, D : B = Body(p) /\ C = Body(q) /\ D = p.before
  OBVIOUS
<1>2. PICK rb, rc, rd : rb = ReaderOver(B) /\ rc = ReaderOver(C) /\ rd = ReaderOver(D)
  OBVIOUS
<1>3. n \in Nat /\ m \in Nat /\ t \in Nat
  BY BodyLines
<1>4. /\ Len(B) = n + m + t + 2
      /\ \A k \in 1..n : B[k] = D[k]
      /\ B[n + 1] = p.open
      /\ \A k \in 1..m : B[n + 1 + k] = p.inside[k]
      /\ B[n + m + 2] = p.close
      /\ \A k \in 1..t : B[n + m + 2 + k] = p.after[k]
  <2>1. LaidOut(Body(p), p, n, m, t)
    BY BodyLines
  <2>. QED
    BY <2>1, <1>1 DEF LaidOut
<1>5. /\ Len(C) = n + t + 2
      /\ \A k \in 1..n : C[k] = D[k]
      /\ C[n + 1] = p.open
      /\ C[n + 2] = p.close
      /\ \A k \in 1..t : C[n + 2 + k] = p.after[k]
  <2>1. LaidOut(Body(q), q, n, 0, t)
    BY BodyLines, Zenon
  <2>2. LaidOut(C, q, n, 0, t)
    BY <2>1, <1>1
  <2>3. n + 0 + t + 2 = n + t + 2 /\ n + 0 + 2 = n + 2
    BY <1>3
  <2>4. /\ Len(C) = n + 0 + t + 2
        /\ \A k \in 1..n : C[k] = q.before[k]
        /\ C[n + 1] = q.open
        /\ C[n + 0 + 2] = q.close
        /\ \A k \in 1..t : C[n + 0 + 2 + k] = q.after[k]
    BY <2>2 DEF LaidOut
  <2>. QED
    BY <2>3, <2>4, <1>1
<1>6. n = Len(D)
  BY <1>1 DEF HasParts
<1>7. Len(B) \in Nat /\ Len(C) \in Nat /\ Len(D) \in Nat
  BY <1>3, <1>4, <1>5, <1>6
<1>8. /\ rb[0] = Reading /\ \A k \in 1..Len(B) : rb[k] = ReadLine(B, rb[k - 1], k)
      /\ \A k \in 0..Len(B) : IsReader(rb[k])
  BY <1>2, <1>7, LoopTurns
<1>9. rc[0] = Reading /\ \A k \in 1..Len(C) : rc[k] = ReadLine(C, rc[k - 1], k)
  BY <1>2, <1>7, LoopTurns
<1>10. /\ rd[0] = Reading /\ \A k \in 1..n : rd[k] = ReadLine(D, rd[k - 1], k)
       /\ \A k \in 0..n : IsReader(rd[k])
  BY <1>2, <1>6, <1>7, LoopTurns
\* Up to the region the loops are the same.
<1>11. \A k \in 0..n : rb[k] = rc[k]
  <2> DEFINE S == {k \in 0..n : rb[k] = rc[k]}
  <2>1. 0 \in S
    BY <1>3, <1>8, <1>9
  <2>2. ASSUME NEW k \in 0..n, k \in S, k < n PROVE k + 1 \in S
    <3>1. /\ k + 1 \in 1..n /\ k + 1 \in 1..Len(B) /\ k + 1 \in 1..Len(C) /\ (k + 1) - 1 = k
          /\ k + 1 < Len(B) /\ k + 1 < Len(C) /\ k + 1 \in 0..n
      BY <1>3, <1>4, <1>5, <2>2
    <3>2. B[k + 1] = C[k + 1]
      BY <1>4, <1>5, <3>1
    <3>3. B[(k + 1) + 1] = C[(k + 1) + 1]
      <4>1. CASE k + 1 < n
        <5>1. (k + 1) + 1 \in 1..n
          BY <1>3, <4>1
        <5>. QED
          BY <5>1, <1>4, <1>5
      <4>2. CASE k + 1 = n
        BY <4>2, <1>4, <1>5
      <4>. QED
        BY <4>1, <4>2, <3>1, <1>3
    <3>4. ReadLine(B, rb[k], k + 1) = ReadLine(C, rb[k], k + 1)
      BY <3>1, <3>2, <3>3, LaterIsOfTheLines
    <3>5. rb[k + 1] = ReadLine(B, rb[k], k + 1) /\ rc[k + 1] = ReadLine(C, rc[k], k + 1)
      BY <1>8, <1>9, <3>1
    <3>. QED
      BY <2>2, <3>1, <3>4, <3>5
  <2>3. \A k \in 0..n : k \in S
    <3> HIDE DEF S
    <3>. QED
      BY <1>3, <2>1, <2>2, NumbersUpTo
  <2>. QED
    BY <2>3
\* What stands before it, read alone, ends as visibly.
<1>12. /\ rb[n].run = 0 /\ ~rb[n].comment
  <2> DEFINE S == {k \in 0..n : rb[k].run = rd[k].run /\ rb[k].mark = rd[k].mark
                                /\ rb[k].comment = rd[k].comment}
  <2>1. 0 \in S
    BY <1>3, <1>8, <1>10
  <2>2. ASSUME NEW k \in 0..n, k \in S, k < n PROVE k + 1 \in S
    <3>1. /\ k + 1 \in 1..n /\ k + 1 \in 1..Len(B) /\ (k + 1) - 1 = k
          /\ k \in 0..Len(B) /\ k + 1 \in 0..n
      BY <1>3, <1>4, <2>2
    <3>2. B[k + 1] = D[k + 1]
      BY <1>4, <3>1
    <3>3. IsReader(rb[k]) /\ IsReader(rd[k])
      BY <1>8, <1>10, <3>1
    <3>4. /\ ReadLine(B, rb[k], k + 1).run = ReadLine(D, rd[k], k + 1).run
          /\ ReadLine(B, rb[k], k + 1).mark = ReadLine(D, rd[k], k + 1).mark
          /\ ReadLine(B, rb[k], k + 1).comment = ReadLine(D, rd[k], k + 1).comment
      BY <2>2, <3>2, <3>3, VisibilityIsOfTheLines
    <3>5. rb[k + 1] = ReadLine(B, rb[k], k + 1) /\ rd[k + 1] = ReadLine(D, rd[k], k + 1)
      BY <1>8, <1>10, <3>1
    <3>. QED
      BY <3>1, <3>4, <3>5
  <2>3. \A k \in 0..n : k \in S
    <3> HIDE DEF S
    <3>. QED
      BY <1>3, <2>1, <2>2, NumbersUpTo
  <2>4. n \in S
    BY <1>3, <2>3
  <2>5. rd[n].run = 0 /\ ~rd[n].comment
    BY <1>1, <1>2, <1>6 DEF Visible, ReadAll
  <2>. QED
    BY <2>4, <2>5
\* The line that opens it hides what follows in both.
<1>13. /\ rb[n + 1] = rc[n + 1] /\ Hidden(p.open, rb[n + 1])
  <2>1. n + 1 \in 1..Len(B) /\ n + 1 \in 1..Len(C) /\ (n + 1) - 1 = n /\ n \in 0..n
        /\ n \in 0..Len(B)
    BY <1>3, <1>4, <1>5
  <2>2. rb[n + 1] = ReadLine(B, rb[n], n + 1) /\ rc[n + 1] = ReadLine(C, rb[n], n + 1)
    BY <1>8, <1>9, <1>11, <2>1
  <2>3. ReadLine(B, rb[n], n + 1) = ReadLine(C, rb[n], n + 1)
    BY <1>4, <1>5, <1>12, OpeningIsOfTheLine
  <2>4. Hidden(B[n + 1], ReadLine(B, rb[n], n + 1))
    BY <1>4, <1>8, <1>12, <2>1, OpeningHides
  <2>. QED
    BY <2>2, <2>3, <2>4, <1>4
\* The example is skipped.
<1>14. \A k \in 0..m : rb[n + 1 + k] = rb[n + 1]
  <2> DEFINE S == {k \in 0..m : rb[n + 1 + k] = rb[n + 1]}
  <2>1. 0 \in S
    BY <1>3
  <2>2. ASSUME NEW k \in 0..m, k \in S, k < m PROVE k + 1 \in S
    <3>1. /\ k + 1 \in 1..m /\ n + 1 + (k + 1) \in 1..Len(B) /\ n + 1 \in 0..Len(B)
          /\ (n + 1 + (k + 1)) - 1 = n + 1 + k /\ k + 1 \in 0..m
      BY <1>3, <1>4, <2>2
    <3>2. rb[n + 1 + (k + 1)] = ReadLine(B, rb[n + 1 + k], n + 1 + (k + 1))
      BY <1>8, <3>1
    <3>3. B[n + 1 + (k + 1)] = p.inside[k + 1]
      BY <1>4, <3>1
    <3>4. k + 1 \in DOMAIN p.inside
      BY <3>1 DEF HasParts
    <3>5. ReadLine(B, rb[n + 1], n + 1 + (k + 1)) = rb[n + 1]
      BY <1>8, <1>13, <3>1, <3>3, <3>4, ExamplesAreSkipped
    <3>. QED
      BY <2>2, <3>1, <3>2, <3>5
  <2>3. \A k \in 0..m : k \in S
    <3> HIDE DEF S
    <3>. QED
      BY <1>3, <2>1, <2>2, NumbersUpTo
  <2>. QED
    BY <2>3
\* The line that closes it, and all that comes after.
<1>15. rb[n + m + 2] = rc[n + 2]
  <2>1. /\ n + m + 2 \in 1..Len(B) /\ n + 2 \in 1..Len(C) /\ m \in 0..m /\ n + 1 \in 0..Len(B)
        /\ (n + m + 2) - 1 = n + 1 + m /\ (n + 2) - 1 = n + 1
    BY <1>3, <1>4, <1>5
  <2>2. rb[n + m + 2] = ReadLine(B, rb[n + 1], n + m + 2)
    BY <1>8, <1>14, <2>1
  <2>3. rc[n + 2] = ReadLine(C, rb[n + 1], n + 2)
    BY <1>9, <1>13, <2>1
  <2>4. ReadLine(B, rb[n + 1], n + m + 2) = ReadLine(C, rb[n + 1], n + 2)
    BY <1>4, <1>5, <1>8, <1>13, <2>1, ClosingIsOfTheLine, SMTT(30)
  <2>. QED
    BY <2>2, <2>3, <2>4
<1>16. \A k \in 0..t : rb[n + m + 2 + k] = rc[n + 2 + k]
  <2> DEFINE S == {k \in 0..t : rb[n + m + 2 + k] = rc[n + 2 + k]}
  <2>1. 0 \in S
    BY <1>3, <1>15
  <2>2. ASSUME NEW k \in 0..t, k \in S, k < t PROVE k + 1 \in S
    <3>1. PICK i, j : i = n + m + 2 + (k + 1) /\ j = n + 2 + (k + 1)
      OBVIOUS
    <3>2. /\ k + 1 \in 1..t /\ k + 1 \in 0..t /\ i \in 1..Len(B) /\ j \in 1..Len(C)
          /\ i - 1 = n + m + 2 + k /\ j - 1 = n + 2 + k
          /\ (i < Len(B) <=> j < Len(C)) /\ (i < Len(B) => k + 2 \in 1..t)
          /\ i + 1 = n + m + 2 + (k + 2) /\ j + 1 = n + 2 + (k + 2)
      BY <1>3, <1>4, <1>5, <2>2, <3>1
    <3>3. rb[i] = ReadLine(B, rb[i - 1], i) /\ rc[j] = ReadLine(C, rc[j - 1], j)
      BY <1>8, <1>9, <3>2
    <3>4. rb[i - 1] = rc[j - 1]
      BY <2>2, <3>2
    <3>5. B[i] = C[j]
      BY <1>4, <1>5, <3>1, <3>2
    <3>6. i < Len(B) => B[i + 1] = C[j + 1]
      BY <1>4, <1>5, <3>2
    <3>7. i < Len(B) <=> j < Len(C)
      BY <3>2
    <3>8. ReadLine(B, rb[i - 1], i) = ReadLine(C, rb[i - 1], j)
      BY <3>5, <3>6, <3>7, LaterIsOfTheLines
    <3>. QED
      BY <3>1, <3>2, <3>3, <3>4, <3>8
  <2>3. \A k \in 0..t : k \in S
    <3> HIDE DEF S
    <3>. QED
      BY <1>3, <2>1, <2>2, NumbersUpTo
  <2>. QED
    BY <2>3
<1>17. rb[Len(B)] = rc[Len(C)]
  <2>1. t \in 0..t /\ Len(B) = n + m + 2 + t /\ Len(C) = n + 2 + t
    BY <1>3, <1>4, <1>5
  <2>. QED
    BY <1>16, <2>1
<1>. QED
  BY <1>1, <1>2, <1>17 DEF ReadAll

\* The reader is the loop, as far as it has come.
TextInv ==
    /\ parts.before \in Leading /\ parts.inside \in Inside /\ parts.after \in Trailing
    /\ \E r \in Regions : parts.open = r[1] /\ parts.close = r[2]
    /\ parts = [before |-> parts.before, open |-> parts.open, inside |-> parts.inside,
                close |-> parts.close, after |-> parts.after]
    /\ at \in 0..Len(Body(parts)) /\ reader = ReaderOver(Body(parts))[at]

\* What stands inside a fenced example or a comment leaves the statement of the
\* entry as it is, for documents of any length and any lines
\* (firstMeaningful, ingestion.go:404-503).
THEOREM ExamplesAreNoDecisions == TextSpec => []ExamplesChangeNothing
<1>1. ASSUME NEW p, p.before \in Leading, p.inside \in Inside, p.after \in Trailing
      PROVE  /\ HasParts(p, Len(p.before), Len(p.inside), Len(p.after))
             /\ Len(Body(p)) \in Nat
  <2>1. PICK n, m, t : n = Len(p.before) /\ m = Len(p.inside) /\ t = Len(p.after)
    OBVIOUS
  <2>2. HasParts(p, n, m, t)
    BY <1>1, <2>1, TextAssumption DEF HasParts
  <2>3. n \in Nat /\ m \in Nat /\ t \in Nat /\ Len(Body(p)) = n + m + t + 2
    BY <2>2, BodyLines DEF LaidOut
  <2>4. Len(Body(p)) \in Nat
    BY <2>3
  <2>. QED
    BY <2>1, <2>2, <2>4
<1>2. TextInit => TextInv
  <2> SUFFICES ASSUME TextInit PROVE TextInv
    OBVIOUS
  <2>1. PICK b \in Leading, i \in Inside, a \in Trailing, r \in Regions :
           parts = [before |-> b, open |-> r[1], inside |-> i, close |-> r[2], after |-> a]
    BY DEF TextInit
  <2>2. /\ parts.before \in Leading /\ parts.inside \in Inside /\ parts.after \in Trailing
        /\ \E x \in Regions : parts.open = x[1] /\ parts.close = x[2]
        /\ parts = [before |-> parts.before, open |-> parts.open, inside |-> parts.inside,
                    close |-> parts.close, after |-> parts.after]
    BY <2>1
  <2>3. Len(Body(parts)) \in Nat
    BY <2>2, <1>1
  <2>4. at = 0 /\ reader = ReaderOver(Body(parts))[0]
    BY <2>3, LoopTurns DEF TextInit
  <2>. QED
    BY <2>2, <2>3, <2>4 DEF TextInv
<1>3. TextInv /\ [Read]_textVars => TextInv'
  <2> SUFFICES ASSUME TextInv, [Read]_textVars PROVE TextInv'
    OBVIOUS
  <2>1. Len(Body(parts)) \in Nat
    BY <1>1 DEF TextInv
  <2>2. CASE Read
    <3>1. parts' = parts /\ at < Len(Body(parts)) /\ at' = at + 1
          /\ reader' = ReadLine(Body(parts), reader, at + 1)
      BY <2>2 DEF Read
    <3>2. at + 1 \in 1..Len(Body(parts)) /\ (at + 1) - 1 = at
      BY <2>1, <3>1 DEF TextInv
    <3>3. reader' = ReaderOver(Body(parts))[at + 1]
      BY <2>1, <3>1, <3>2, LoopTurns DEF TextInv
    <3>4. Body(parts)' = Body(parts)
      BY <3>1 DEF Body
    <3>. QED
      BY <3>1, <3>2, <3>3, <3>4 DEF TextInv
  <2>3. CASE UNCHANGED textVars
    BY <2>3 DEF textVars, TextInv, Body
  <2>. QED
    BY <2>2, <2>3
<1>4. TextInv => ExamplesChangeNothing
  <2> SUFFICES ASSUME TextInv, at = Len(Body(parts)), Visible(parts.before),
                      Ends(parts.open, parts.close),
                      \A i \in DOMAIN parts.inside : ~Ends(parts.open, parts.inside[i])
               PROVE  Chosen(reader) = firstMeaningful(Body([parts EXCEPT !.inside = <<>>]))
    BY DEF ExamplesChangeNothing
  <2>1. PICK q : q = [parts EXCEPT !.inside = <<>>]
    OBVIOUS
  <2>2. /\ q.before = parts.before /\ q.open = parts.open /\ q.close = parts.close
        /\ q.after = parts.after /\ q.inside = <<>>
    BY <2>1 DEF TextInv
  <2>3. PICK n, m, t : n = Len(parts.before) /\ m = Len(parts.inside) /\ t = Len(parts.after)
    OBVIOUS
  <2>4. HasParts(parts, n, m, t)
    BY <1>1, <2>3 DEF TextInv
  <2>5. HasParts(q, n, 0, t)
    BY <2>2, <2>4 DEF HasParts
  <2>6. IF parts.open.kind = "fence" THEN parts.open.run \in Nat \ {0}
                                     ELSE parts.open.opens /\ ~parts.open.closes
    BY TextAssumption DEF TextInv
  <2>7. ReadAll(Body(parts)) = ReadAll(Body(q))
    BY <2>2, <2>4, <2>5, <2>6, ExamplesLeaveTheReader
  <2>8. reader = ReadAll(Body(parts))
    BY DEF TextInv, ReadAll
  <2>. QED
    BY <2>1, <2>7, <2>8 DEF firstMeaningful
<1>. QED
  BY <1>2, <1>3, <1>4, PTL DEF TextSpec

------------------------------------------------------------------------------
(* Patterns.  The matcher's recursion reads a pattern from its end; what it  *)
(* finds at every rest is where the rest can be laid over the path.          *)

\* One segment of a pattern takes the path from a to b.
Spans(p, r, i, a, b) ==
    IF p[i] = Deep THEN b >= a ELSE b = a + 1 /\ SegmentMatches(p[i], r[b])

\* The rest of a pattern, from i, can be laid over the path after its first a names.
Laid(p, r, i, a) ==
    \E cut \in [i..Len(p) + 1 -> 0..Len(r)] :
        /\ cut[i] = a /\ cut[Len(p) + 1] = Len(r)
        /\ \A k \in i..Len(p) : Spans(p, r, k, cut[k], cut[k + 1])

LEMMA LaidAtTheEnd ==
    ASSUME NEW p, NEW r, NEW n \in Nat, n = Len(p), NEW m \in Nat, m = Len(r), NEW a \in 0..m
    PROVE  Laid(p, r, n + 1, a) <=> a = m
<1>1. ASSUME Laid(p, r, n + 1, a) PROVE a = m
  BY <1>1 DEF Laid
<1>2. ASSUME a = m PROVE Laid(p, r, n + 1, a)
  <2>1. PICK cut : cut = [k \in n + 1..n + 1 |-> a]
    OBVIOUS
  <2>2. cut \in [n + 1..n + 1 -> 0..m] /\ cut[n + 1] = a
    BY <2>1
  <2>3. \A k \in n + 1..n : FALSE
    OBVIOUS
  <2>. QED
    BY <1>2, <2>2, <2>3 DEF Laid
<1>. QED
  BY <1>1, <1>2

LEMMA LaidFurther ==
    ASSUME NEW p, NEW r, NEW n \in Nat, n = Len(p), NEW m \in Nat, m = Len(r),
           NEW i \in 1..n, NEW a \in 0..m
    PROVE  Laid(p, r, i, a) <=> \E b \in 0..m : Spans(p, r, i, a, b) /\ Laid(p, r, i + 1, b)
<1>1. ASSUME Laid(p, r, i, a)
      PROVE  \E b \in 0..m : Spans(p, r, i, a, b) /\ Laid(p, r, i + 1, b)
  <2>1. PICK cut \in [i..n + 1 -> 0..m] :
           /\ cut[i] = a /\ cut[n + 1] = m
           /\ \A k \in i..n : Spans(p, r, k, cut[k], cut[k + 1])
    BY <1>1 DEF Laid
  <2>2. PICK b \in 0..m : b = cut[i + 1]
    BY <2>1
  <2>3. Spans(p, r, i, a, b)
    BY <2>1, <2>2, i \in i..n
  <2>4. Laid(p, r, i + 1, b)
    <3>1. PICK rest : rest = [k \in i + 1..n + 1 |-> cut[k]]
      OBVIOUS
    <3>2. rest \in [i + 1..n + 1 -> 0..m] /\ rest[i + 1] = b /\ rest[n + 1] = m
      BY <2>1, <2>2, <3>1
    <3>3. \A k \in i + 1..n : rest[k] = cut[k] /\ rest[k + 1] = cut[k + 1] /\ k \in i..n
      BY <3>1
    <3>4. \A k \in i + 1..n : Spans(p, r, k, rest[k], rest[k + 1])
      BY <2>1, <3>3
    <3>. QED
      BY <3>2, <3>4 DEF Laid
  <2>. QED
    BY <2>3, <2>4
<1>2. ASSUME NEW b \in 0..m, Spans(p, r, i, a, b), Laid(p, r, i + 1, b)
      PROVE  Laid(p, r, i, a)
  <2>1. PICK rest \in [i + 1..n + 1 -> 0..m] :
           /\ rest[i + 1] = b /\ rest[n + 1] = m
           /\ \A k \in i + 1..n : Spans(p, r, k, rest[k], rest[k + 1])
    BY <1>2 DEF Laid
  <2>2. PICK cut : cut = [k \in i..n + 1 |-> IF k = i THEN a ELSE rest[k]]
    OBVIOUS
  <2>3. cut \in [i..n + 1 -> 0..m]
    <3>1. \A k \in i..n + 1 : k # i => k \in i + 1..n + 1
      OBVIOUS
    <3>. QED
      BY <2>1, <2>2, <3>1
  <2>4. cut[i] = a /\ cut[n + 1] = m /\ cut[i + 1] = b
    BY <2>1, <2>2
  <2>5. \A k \in i..n : Spans(p, r, k, cut[k], cut[k + 1])
    <3> SUFFICES ASSUME NEW k \in i..n PROVE Spans(p, r, k, cut[k], cut[k + 1])
      OBVIOUS
    <3>1. CASE k = i
      BY <3>1, <1>2, <2>4
    <3>2. CASE k # i
      <4>1. k \in i + 1..n /\ cut[k] = rest[k] /\ cut[k + 1] = rest[k + 1]
        BY <3>2, <2>2
      <4>. QED
        BY <2>1, <4>1
    <3>. QED
      BY <3>1, <3>2
  <2>. QED
    BY <2>3, <2>4, <2>5 DEF Laid
<1>. QED
  BY <1>1, <1>2

\* Where the path begins for a rest of the pattern, from where it does for the next one.
Earlier(p, r, i, S) ==
    IF p[i] = Deep THEN {j \in 1..Len(r) + 1 : \E k \in S : j <= k}
    ELSE {j \in 1..Len(r) : SegmentMatches(p[i], r[j]) /\ j + 1 \in S}

\* What the recursion computes.
FromRests(p, r, f) ==
    f = [i \in 1..Len(p) + 1 |-> IF i > Len(p) THEN {Len(r) + 1} ELSE Earlier(p, r, i, f[i + 1])]

LEMMA RestsAre ==
    ASSUME NEW p, NEW r, NEW n \in Nat, n = Len(p), NEW m \in Nat, m = Len(r),
           NEW i \in 1..n, NEW S, S = {j \in 1..m + 1 : Laid(p, r, i + 1, j - 1)}
    PROVE  {j \in 1..m + 1 : Laid(p, r, i, j - 1)} = Earlier(p, r, i, S)
<1>1. \A j \in 1..m + 1 : j - 1 \in 0..m
  OBVIOUS
<1>2. \A b \in 0..m : b + 1 \in 1..m + 1 /\ (b + 1) - 1 = b
  OBVIOUS
<1>3. ASSUME NEW j \in 1..m + 1, p[i] = Deep
      PROVE  Laid(p, r, i, j - 1) <=> \E k \in S : j <= k
  <2>1. ASSUME Laid(p, r, i, j - 1) PROVE \E k \in S : j <= k
    <3>1. PICK b \in 0..m : Spans(p, r, i, j - 1, b) /\ Laid(p, r, i + 1, b)
      BY <1>1, <2>1, LaidFurther
    <3>2. b >= j - 1
      BY <1>3, <3>1 DEF Spans
    <3>3. b + 1 \in S /\ j <= b + 1
      BY <1>2, <3>1, <3>2
    <3>. QED
      BY <3>3
  <2>2. ASSUME NEW k \in S, j <= k PROVE Laid(p, r, i, j - 1)
    <3>1. k - 1 \in 0..m /\ Laid(p, r, i + 1, k - 1) /\ k - 1 >= j - 1
      BY <2>2
    <3>2. Spans(p, r, i, j - 1, k - 1)
      BY <1>3, <3>1 DEF Spans
    <3>. QED
      BY <1>1, <3>1, <3>2, LaidFurther
  <2>. QED
    BY <2>1, <2>2
<1>4. ASSUME NEW j \in 1..m + 1, p[i] # Deep
      PROVE  Laid(p, r, i, j - 1) <=> j \in 1..m /\ SegmentMatches(p[i], r[j]) /\ j + 1 \in S
  <2>1. ASSUME Laid(p, r, i, j - 1) PROVE j \in 1..m /\ SegmentMatches(p[i], r[j]) /\ j + 1 \in S
    <3>1. PICK b \in 0..m : Spans(p, r, i, j - 1, b) /\ Laid(p, r, i + 1, b)
      BY <1>1, <2>1, LaidFurther
    <3>2. b = j /\ SegmentMatches(p[i], r[b])
      BY <1>4, <3>1 DEF Spans
    <3>. QED
      BY <1>2, <3>1, <3>2
  <2>2. ASSUME j \in 1..m, SegmentMatches(p[i], r[j]), j + 1 \in S PROVE Laid(p, r, i, j - 1)
    <3>1. j \in 0..m /\ Laid(p, r, i + 1, j)
      BY <2>2
    <3>2. Spans(p, r, i, j - 1, j)
      BY <1>4, <2>2 DEF Spans
    <3>. QED
      BY <1>1, <3>1, <3>2, LaidFurther
  <2>. QED
    BY <2>1, <2>2
<1>5. \A j \in 1..m : j \in 1..m + 1
  OBVIOUS
<1>6. CASE p[i] = Deep
  BY <1>3, <1>6 DEF Earlier
<1>7. CASE p[i] # Deep
  BY <1>4, <1>5, <1>7 DEF Earlier
<1>. QED
  BY <1>6, <1>7

\* For any pattern and any path: the recursive matcher accepts exactly the paths
\* that the segments of the pattern can be laid over (ingestion.go, matchSegments).
THEOREM MatchingIsCovering ==
    ASSUME NEW p, NEW r, Len(p) \in Nat, Len(r) \in Nat
    PROVE  matchSegments(p, r) <=> Covers(p, r)
<1>1. PICK n \in Nat : n = Len(p)
  OBVIOUS
<1>2. PICK m \in Nat : m = Len(r)
  OBVIOUS
<1> DEFINE L(i) == {j \in 1..m + 1 : Laid(p, r, i, j - 1)}
<1>3. L(n + 1) = {m + 1}
  <2>1. \A j \in 1..m + 1 : j - 1 \in 0..m /\ (Laid(p, r, n + 1, j - 1) <=> j - 1 = m)
    BY <1>1, <1>2, LaidAtTheEnd
  <2>. QED
    BY <2>1
<1>4. \A i \in 1..n : L(i) = Earlier(p, r, i, L(i + 1))
  <2> SUFFICES ASSUME NEW i \in 1..n PROVE L(i) = Earlier(p, r, i, L(i + 1))
    OBVIOUS
  <2>1. PICK S : S = {j \in 1..m + 1 : Laid(p, r, i + 1, j - 1)}
    OBVIOUS
  <2>2. {j \in 1..m + 1 : Laid(p, r, i, j - 1)} = Earlier(p, r, i, S)
    BY <1>1, <1>2, <2>1, RestsAre
  <2>. QED
    BY <2>1, <2>2
<1> HIDE DEF L
<1>5. PICK f0 : f0 = [i \in 1..n + 1 |-> L(i)]
  OBVIOUS
<1>6. FromRests(p, r, f0)
  <2> DEFINE g == [i \in 1..n + 1 |->
                     IF i > n THEN {m + 1} ELSE Earlier(p, r, i, f0[i + 1])]
  <2>1. \A i \in 1..n + 1 : g[i] = L(i)
    <3> SUFFICES ASSUME NEW i \in 1..n + 1 PROVE g[i] = L(i)
      OBVIOUS
    <3>1. CASE i = n + 1
      <4>1. i > n
        BY <3>1
      <4>2. g[i] = {m + 1}
        BY <4>1
      <4>. QED
        BY <3>1, <4>2, <1>3
    <3>2. CASE i # n + 1
      <4>1. i \in 1..n /\ i + 1 \in 1..n + 1 /\ ~(i > n)
        BY <3>2
      <4>2. f0[i + 1] = L(i + 1)
        BY <1>5, <4>1
      <4>. QED
        BY <1>4, <4>1, <4>2
    <3>. QED
      BY <3>1, <3>2
  <2>2. g = f0
    <3>1. g = [i \in 1..n + 1 |-> g[i]]
      OBVIOUS
    <3> HIDE DEF g
    <3>. QED
      BY <1>5, <2>1, <3>1
  <2>3. FromRests(p, r, f0) <=> f0 = g
    BY <1>1, <1>2 DEF FromRests
  <2>. QED
    BY <2>2, <2>3
<1>7. PICK f : FromRests(p, r, f) /\ (matchSegments(p, r) <=> 1 \in f[1])
  <2>1. PICK f : f = CHOOSE g : FromRests(p, r, g)
    OBVIOUS
  <2>2. FromRests(p, r, f)
    BY <1>6, <2>1
  <2>3. matchSegments(p, r) <=> 1 \in f[1]
    BY <2>1 DEF matchSegments, FromRests, Earlier
  <2>. QED
    BY <2>2, <2>3
<1>8. /\ f[n + 1] = {m + 1}
      /\ \A i \in 1..n : f[i] = Earlier(p, r, i, f[i + 1])
  <2>1. f = [i \in 1..n + 1 |->
                     IF i > n THEN {m + 1} ELSE Earlier(p, r, i, f[i + 1])]
    BY <1>1, <1>2, <1>7 DEF FromRests
  <2>2. \A i \in 1..n + 1 : f[i] = IF i > n THEN {m + 1} ELSE Earlier(p, r, i, f[i + 1])
    BY <2>1
  <2>3. n + 1 \in 1..n + 1 /\ n + 1 > n /\ \A i \in 1..n : i \in 1..n + 1 /\ ~(i > n)
    OBVIOUS
  <2>. QED
    BY <2>2, <2>3
<1> DEFINE S == {k \in 0..n : f[(n + 1) - k] = L((n + 1) - k)}
<1>9. 0 \in S
  <2>1. (n + 1) - 0 = n + 1 /\ 0 \in 0..n
    OBVIOUS
  <2>2. f[n + 1] = L(n + 1)
    BY <1>3, <1>8
  <2>. QED
    BY <2>1, <2>2
<1>10. ASSUME NEW k \in 0..n, k \in S, k < n PROVE k + 1 \in S
  <2>1. PICK i \in 1..n : i = (n + 1) - (k + 1) /\ i + 1 = (n + 1) - k
    <3>1. (n + 1) - (k + 1) \in 1..n /\ ((n + 1) - (k + 1)) + 1 = (n + 1) - k
      BY <1>10
    <3>. QED
      BY <3>1
  <2>2. f[i + 1] = L(i + 1)
    BY <1>10, <2>1
  <2>3. f[i] = L(i)
    BY <1>4, <1>8, <2>2
  <2>4. k + 1 \in 0..n
    BY <1>10
  <2>. QED
    BY <2>1, <2>3, <2>4
<1>11. \A k \in 0..n : k \in S
  <2> HIDE DEF S
  <2>. QED
    BY <1>9, <1>10, NumbersUpTo
<1>12. f[1] = L(1)
  <2>1. n \in 0..n /\ (n + 1) - n = 1
    OBVIOUS
  <2>. QED
    BY <1>11, <2>1
<1>13. 1 \in L(1) <=> Laid(p, r, 1, 0)
  <2>1. 1 \in 1..m + 1 /\ 1 - 1 = 0
    OBVIOUS
  <2>. QED
    BY <2>1 DEF L
<1>14. Laid(p, r, 1, 0) <=> Covers(p, r)
  BY DEF Laid, Covers, Spans
<1>. QED
  BY <1>7, <1>12, <1>13, <1>14

\* A plain pattern has one name for each of its segments.
Starts(p, r) == Len(p) <= Len(r) /\ \A k \in 1..Len(p) : p[k] = r[k]

LEMMA PlainSegments ==
    ASSUME NEW p, p \in Seq(Range(p)), Plain(p), NEW i \in 1..Len(p), NEW r, NEW a, NEW b
    PROVE  /\ p[i] # Deep
           /\ Spans(p, r, i, a, b) <=> b = a + 1 /\ p[i] = r[b]
<1>1. p[i] \in Range(p)
  BY DEF Range
<1>2. p[i] # Deep /\ p[i] # Star
  BY <1>1 DEF Plain
<1>. QED
  BY <1>2 DEF Spans, SegmentMatches

LEMMA PlainAndEqual ==
    ASSUME NEW p, p \in Seq(Range(p)), Plain(p), NEW r, Len(r) = Len(p), Starts(p, r)
    PROVE  Covers(p, r)
<1>1. PICK n \in Nat : n = Len(p) /\ n = Len(r)
  OBVIOUS
<1>2. PICK cut : cut = [k \in 1..n + 1 |-> k - 1]
  OBVIOUS
<1>3. cut \in [1..n + 1 -> 0..n] /\ cut[1] = 0 /\ cut[n + 1] = n
  BY <1>2
<1>4. \A i \in 1..n : cut[i] = i - 1 /\ cut[i + 1] = i /\ i = (i - 1) + 1
  BY <1>2
<1>5. \A i \in 1..n : Spans(p, r, i, cut[i], cut[i + 1])
  <2> SUFFICES ASSUME NEW i \in 1..n PROVE Spans(p, r, i, cut[i], cut[i + 1])
    OBVIOUS
  <2>1. Spans(p, r, i, cut[i], cut[i + 1]) <=> cut[i + 1] = cut[i] + 1 /\ p[i] = r[cut[i + 1]]
    BY <1>1, PlainSegments
  <2>2. p[i] = r[i]
    BY <1>1 DEF Starts
  <2>. QED
    BY <1>4, <2>1, <2>2
<1>. QED
  BY <1>1, <1>3, <1>5 DEF Covers, Spans

\* With "**" after it, a plain pattern covers what starts with it.
LEMMA PlainBelow ==
    ASSUME NEW p, p \in Seq(Range(p)), Plain(p), NEW r, Len(r) \in Nat
    PROVE  Covers(p \o <<Deep>>, r) <=> Starts(p, r)
<1>1. PICK n \in Nat : n = Len(p)
  OBVIOUS
<1>2. PICK m \in Nat : m = Len(r)
  OBVIOUS
<1>3. PICK q : q = p \o <<Deep>>
  OBVIOUS
<1>4. /\ Len(q) = n + 1 /\ q[n + 1] = Deep
      /\ \A i \in 1..n : q[i] = p[i]
  BY <1>1, <1>3
<1>5. \A a, b : \A i \in 1..n : Spans(q, r, i, a, b) <=> b = a + 1 /\ p[i] = r[b]
  <2> SUFFICES ASSUME NEW i \in 1..n, NEW a, NEW b
               PROVE  Spans(q, r, i, a, b) <=> b = a + 1 /\ p[i] = r[b]
    OBVIOUS
  <2>1. Spans(q, r, i, a, b) <=> Spans(p, r, i, a, b)
    BY <1>4 DEF Spans
  <2>. QED
    BY <2>1, <1>1, PlainSegments
<1>6. \A a, b : Spans(q, r, n + 1, a, b) <=> b >= a
  BY <1>4 DEF Spans
<1>7. Covers(q, r) <=> \E cut \in [1..n + 2 -> 0..m] :
                          /\ cut[1] = 0 /\ cut[n + 2] = m
                          /\ \A i \in 1..n + 1 : Spans(q, r, i, cut[i], cut[i + 1])
  <2>1. (n + 1) + 1 = n + 2
    OBVIOUS
  <2>. QED
    BY <1>2, <1>4, <2>1 DEF Covers, Spans
<1>8. ASSUME Covers(q, r) PROVE Starts(p, r)
  <2>1. PICK cut \in [1..n + 2 -> 0..m] :
           /\ cut[1] = 0 /\ cut[n + 2] = m
           /\ \A i \in 1..n + 1 : Spans(q, r, i, cut[i], cut[i + 1])
    BY <1>7, <1>8
  <2>2. \A i \in 1..n : cut[i + 1] = cut[i] + 1 /\ p[i] = r[cut[i + 1]]
    <3>1. \A i \in 1..n : i \in 1..n + 1
      OBVIOUS
    <3>. QED
      BY <1>5, <2>1, <3>1
  <2> DEFINE S == {k \in 0..n : cut[k + 1] = k}
  <2>3. 0 \in S
    BY <2>1
  <2>4. ASSUME NEW k \in 0..n, k \in S, k < n PROVE k + 1 \in S
    <3>1. k + 1 \in 1..n /\ k + 1 \in 0..n
      BY <2>4
    <3>2. cut[(k + 1) + 1] = cut[k + 1] + 1
      BY <2>2, <3>1
    <3>. QED
      BY <2>4, <3>1, <3>2
  <2>5. \A k \in 0..n : k \in S
    <3> HIDE DEF S
    <3>. QED
      BY <2>3, <2>4, NumbersUpTo
  <2>6. cut[n + 1] = n
    BY <2>5
  <2>7. Spans(q, r, n + 1, cut[n + 1], cut[(n + 1) + 1]) /\ (n + 1) + 1 = n + 2
    BY <2>1
  <2>8. n <= m
    BY <1>6, <2>1, <2>6, <2>7
  <2>9. \A k \in 1..n : p[k] = r[k]
    <3>1. \A k \in 1..n : cut[k + 1] = k
      BY <2>5
    <3>. QED
      BY <2>2, <3>1
  <2>. QED
    BY <1>1, <1>2, <2>8, <2>9 DEF Starts
<1>9. ASSUME Starts(p, r) PROVE Covers(q, r)
  <2>0. n <= m /\ \A k \in 1..n : p[k] = r[k]
    BY <1>1, <1>2, <1>9 DEF Starts
  <2>1. PICK cut : cut = [k \in 1..n + 2 |-> IF k = n + 2 THEN m ELSE k - 1]
    OBVIOUS
  <2>2. cut \in [1..n + 2 -> 0..m] /\ cut[1] = 0 /\ cut[n + 2] = m /\ cut[n + 1] = n
    BY <2>0, <2>1
  <2>3. \A i \in 1..n : cut[i] = i - 1 /\ cut[i + 1] = i /\ i = (i - 1) + 1
    BY <2>1
  <2>4. \A i \in 1..n : Spans(q, r, i, cut[i], cut[i + 1])
    <3> SUFFICES ASSUME NEW i \in 1..n PROVE Spans(q, r, i, cut[i], cut[i + 1])
      OBVIOUS
    <3>1. Spans(q, r, i, cut[i], cut[i + 1]) <=> cut[i + 1] = cut[i] + 1 /\ p[i] = r[cut[i + 1]]
      BY <1>5
    <3>. QED
      BY <2>0, <2>3, <3>1
  <2>5. Spans(q, r, n + 1, cut[n + 1], cut[(n + 1) + 1])
    <3>1. (n + 1) + 1 = n + 2
      OBVIOUS
    <3>. QED
      BY <1>6, <2>0, <2>2, <3>1
  <2>6. \A i \in 1..n + 1 : i = n + 1 \/ i \in 1..n
    OBVIOUS
  <2>. QED
    BY <1>7, <2>2, <2>4, <2>5, <2>6
<1>. QED
  BY <1>3, <1>8, <1>9

LEMMA StrictPrefixes ==
    ASSUME NEW p, p \in Seq(Range(p)), NEW r, r \in Seq(Range(r))
    PROVE  IsStrictPrefix(p, r) <=> Starts(p, r) /\ Len(p) < Len(r)
<1>1. PICK n \in Nat : n = Len(p)
  OBVIOUS
<1>2. PICK m \in Nat : m = Len(r)
  OBVIOUS
<1>3. PICK s : s = SubSeq(p, 1, n)
  OBVIOUS
<1>4. s = p
  BY <1>1, <1>3
<1>5. ASSUME n <= m PROVE SubSeq(r, 1, n) = p <=> \A k \in 1..n : p[k] = r[k]
  <2>1. PICK t : t = SubSeq(r, 1, n)
    OBVIOUS
  <2>2. t = [k \in 1..n |-> r[k]]
    BY <1>2, <1>5, <2>1
  <2>3. p = [k \in 1..n |-> p[k]]
    BY <1>1
  <2>. QED
    BY <2>1, <2>2, <2>3
<1>6. ASSUME n = m, \A k \in 1..n : p[k] = r[k] PROVE p = r
  <2>1. p = [k \in 1..n |-> p[k]]
    BY <1>1
  <2>2. r = [k \in 1..m |-> r[k]]
    BY <1>2
  <2>3. [k \in 1..n |-> p[k]] = [k \in 1..m |-> r[k]]
    BY <1>6
  <2>. QED
    BY <2>1, <2>2, <2>3
<1>7. IsStrictPrefix(p, r) <=> n <= m /\ SubSeq(r, 1, n) = p /\ p # r
  BY <1>1, <1>2, <1>3, <1>4 DEF IsStrictPrefix, IsPrefix
<1>8. Starts(p, r) <=> n <= m /\ \A k \in 1..n : p[k] = r[k]
  BY <1>1, <1>2 DEF Starts
<1>9. p = r => n = m
  BY <1>1, <1>2
<1>10. n < m <=> n <= m /\ n # m
  OBVIOUS
<1>. QED
  BY <1>1, <1>2, <1>5, <1>6, <1>7, <1>8, <1>9, <1>10

------------------------------------------------------------------------------
(* The walk: what it is asked for, and what it hides. *)

Patterns(ps) == \A p \in ps : Segmented(p)

LEMMA AskedByMatcher ==
    ASSUME Patterns(include), NEW rel, Segmented(rel)
    PROVE  Asked(rel) <=> (include # {} => matchAny(rel, include))
<1>1. Len(rel) \in Nat /\ rel \in Seq(Range(rel)) /\ Len(<<Last(rel)>>) \in Nat
  BY DEF Segmented
<1>2. \A p \in include : p \in Seq(Range(p)) /\ Len(p) \in Nat
  BY DEF Patterns, Segmented
<1>3. \A p \in include : /\ matchSegments(p, rel) <=> Covers(p, rel)
                         /\ matchSegments(p, <<Last(rel)>>) <=> Covers(p, <<Last(rel)>>)
  BY <1>1, <1>2, MatchingIsCovering
<1>4. ASSUME NEW p \in include, Plain(p)
      PROVE  Covers(p, rel) \/ IsStrictPrefix(p, rel) <=> Covers(p, rel) \/ Covers(p \o <<Deep>>, rel)
  <2>1. Covers(p \o <<Deep>>, rel) <=> Starts(p, rel)
    BY <1>1, <1>2, <1>4, PlainBelow
  <2>2. IsStrictPrefix(p, rel) <=> Starts(p, rel) /\ Len(p) < Len(rel)
    BY <1>1, <1>2, StrictPrefixes
  <2>3. Starts(p, rel) => Len(p) < Len(rel) \/ Len(rel) = Len(p)
    BY <1>1, <1>2 DEF Starts
  <2>4. Starts(p, rel) /\ Len(rel) = Len(p) => Covers(p, rel)
    BY <1>2, <1>4, PlainAndEqual
  <2>. QED
    BY <2>1, <2>2, <2>3, <2>4
<1>. QED
  BY <1>3, <1>4 DEF Asked, matchAny

LEMMA HidesByMatcher ==
    ASSUME NEW ps, Patterns(ps), NEW rel, Segmented(rel)
    PROVE  Hides(ps, rel) <=> \E i \in 1..Len(rel) : matchAny(SubSeq(rel, 1, i), ps)
<1>1. PICK m \in Nat : m = Len(rel)
  BY DEF Segmented
<1> DEFINE Cut(i) == SubSeq(rel, 1, i)
<1>2. \A i \in 1..m : /\ Cut(i) \in Seq(Range(Cut(i))) /\ Len(Cut(i)) = i /\ Last(Cut(i)) = rel[i]
                      /\ \A k \in 1..i : Cut(i)[k] = rel[k]
  <2> SUFFICES ASSUME NEW i \in 1..m
               PROVE  /\ Cut(i) \in Seq(Range(Cut(i))) /\ Len(Cut(i)) = i /\ Last(Cut(i)) = rel[i]
                      /\ \A k \in 1..i : Cut(i)[k] = rel[k]
    OBVIOUS
  <2>1. PICK c : c = Cut(i)
    OBVIOUS
  <2>2. c = [k \in 1..i |-> rel[k]]
    BY <1>1, <2>1 DEF Segmented
  <2>3. \A k \in 1..i : c[k] \in Range(c)
    BY <2>2 DEF Range
  <2>4. c \in Seq(Range(c)) /\ Len(c) = i
    BY <2>2, <2>3
  <2>5. Last(c) = rel[i]
    BY <2>2, <2>4 DEF Last
  <2>. QED
    BY <2>1, <2>2, <2>4, <2>5
<1> HIDE DEF Cut
<1>3. \A p \in ps : p \in Seq(Range(p)) /\ Len(p) \in Nat /\ Len(p) >= 1
  <2> SUFFICES ASSUME NEW p \in ps PROVE p \in Seq(Range(p)) /\ Len(p) \in Nat /\ Len(p) >= 1
    OBVIOUS
  <2>1. p \in Seq(Range(p)) /\ p # <<>>
    BY DEF Patterns, Segmented
  <2>. QED
    BY <2>1
<1>4. \A i \in 1..m, p \in ps : /\ matchSegments(p, Cut(i)) <=> Covers(p, Cut(i))
                                /\ matchSegments(p, <<Last(Cut(i))>>) <=> Covers(p, <<rel[i]>>)
  <2> SUFFICES ASSUME NEW i \in 1..m, NEW p \in ps
               PROVE  /\ matchSegments(p, Cut(i)) <=> Covers(p, Cut(i))
                      /\ matchSegments(p, <<Last(Cut(i))>>) <=> Covers(p, <<rel[i]>>)
    OBVIOUS
  <2>1. Len(Cut(i)) \in Nat /\ Len(<<rel[i]>>) \in Nat /\ Last(Cut(i)) = rel[i]
    BY <1>2
  <2>. QED
    BY <1>3, <2>1, MatchingIsCovering
<1>5. Hides(ps, rel) <=> \E i \in 1..m, p \in ps : Covers(p, Cut(i)) \/ Covers(p, <<rel[i]>>)
  BY <1>1 DEF Hides, Cut
<1>6. (\E i \in 1..Len(rel) : matchAny(SubSeq(rel, 1, i), ps)) <=> \E i \in 1..m : matchAny(Cut(i), ps)
  BY <1>1 DEF Cut
<1>7. ASSUME NEW i \in 1..m, NEW p \in ps, Plain(p), IsStrictPrefix(p, Cut(i))
      PROVE  \E k \in 1..m : Covers(p, Cut(k))
  <2>1. Starts(p, Cut(i)) /\ Len(p) < Len(Cut(i))
    BY <1>2, <1>3, <1>7, StrictPrefixes
  <2>2. PICK k \in 1..m : k = Len(p) /\ k < i
    BY <1>2, <1>3, <2>1
  <2>3. Len(Cut(k)) = Len(p)
    BY <1>2, <2>2
  <2>4. Starts(p, Cut(k))
    <3>1. \A j \in 1..k : p[j] = Cut(i)[j] /\ j \in 1..i
      BY <2>1, <2>2 DEF Starts
    <3>2. \A j \in 1..k : Cut(i)[j] = rel[j] /\ Cut(k)[j] = rel[j]
      BY <1>2, <3>1
    <3>3. \A j \in 1..k : p[j] = Cut(k)[j]
      BY <3>1, <3>2
    <3>. QED
      BY <2>2, <2>3, <3>3 DEF Starts
  <2>5. Covers(p, Cut(k))
    BY <1>3, <1>7, <2>3, <2>4, PlainAndEqual
  <2>. QED
    BY <2>5
<1>8. ASSUME NEW i \in 1..m, matchAny(Cut(i), ps)
      PROVE  \E k \in 1..m, p \in ps : Covers(p, Cut(k)) \/ Covers(p, <<rel[k]>>)
  <2>1. PICK p \in ps : \/ matchSegments(p, Cut(i)) \/ matchSegments(p, <<Last(Cut(i))>>)
                        \/ Plain(p) /\ IsStrictPrefix(p, Cut(i))
    BY <1>8 DEF matchAny
  <2>2. CASE matchSegments(p, Cut(i)) \/ matchSegments(p, <<Last(Cut(i))>>)
    BY <1>4, <2>2
  <2>3. CASE Plain(p) /\ IsStrictPrefix(p, Cut(i))
    BY <1>7, <2>3
  <2>. QED
    BY <2>1, <2>2, <2>3
<1>9. ASSUME NEW i \in 1..m, NEW p \in ps, Covers(p, Cut(i)) \/ Covers(p, <<rel[i]>>)
      PROVE  matchAny(Cut(i), ps)
  BY <1>4, <1>9 DEF matchAny
<1>. QED
  BY <1>5, <1>6, <1>8, <1>9

\* A path is hidden where it ends or somewhere above, and the walk does not come
\* to it for the latter reason or for its depth.
OutOfReach(r) == Hides(HardExcludes \cup exclude, r)

LEMMA PathsHidden ==
    ASSUME Patterns(HardExcludes), Patterns(exclude), NEW r, Segmented(r),
           NEW m \in Nat, m = Len(r)
    PROVE  /\ m >= 1
           /\ \A i \in 1..m - 1 : SubSeq(r, 1, i) # <<>> /\ Len(SubSeq(r, 1, i)) = i
           /\ OutOfReach(r) <=> Excluded(r) \/ \E i \in 1..m - 1 : Excluded(SubSeq(r, 1, i))
           /\ Pruned(r) <=> \E i \in 1..m - 1 : Excluded(SubSeq(r, 1, i)) \/ i > MaxDepth
<1> DEFINE hidden == HardExcludes \cup exclude
<1>1. Patterns(hidden)
  BY DEF Patterns
<1>2. \A rel : Excluded(rel) <=> matchAny(rel, hidden)
  BY DEF Excluded, matchAny
<1>3. r \in Seq(Range(r)) /\ r # <<>> /\ m >= 1
  <2>1. r \in Seq(Range(r)) /\ r # <<>>
    BY DEF Segmented
  <2>. QED
    BY <2>1
<1>4. OutOfReach(r) <=> \E i \in 1..m : matchAny(SubSeq(r, 1, i), hidden)
  <2>1. OutOfReach(r) <=> Hides(hidden, r)
    BY DEF OutOfReach
  <2> HIDE DEF hidden
  <2>. QED
    BY <1>1, <2>1, HidesByMatcher
<1>5. SubSeq(r, 1, m) = r
  BY <1>3
<1> HIDE DEF hidden
<1>6. OutOfReach(r) <=> Excluded(r) \/ \E i \in 1..m - 1 : Excluded(SubSeq(r, 1, i))
  <2>1. \A i \in 1..m : i = m \/ i \in 1..m - 1
    OBVIOUS
  <2>2. m \in 1..m /\ \A i \in 1..m - 1 : i \in 1..m
    BY <1>3
  <2>3. OutOfReach(r) <=> \E i \in 1..m : Excluded(SubSeq(r, 1, i))
    BY <1>2, <1>4
  <2>4. Excluded(SubSeq(r, 1, m)) <=> Excluded(r)
    BY <1>5
  <2>. QED
    BY <2>1, <2>2, <2>3, <2>4
<1>7. \A i \in 1..m - 1 : SubSeq(r, 1, i) # <<>> /\ Len(SubSeq(r, 1, i)) = i
  <2> SUFFICES ASSUME NEW i \in 1..m - 1
               PROVE  SubSeq(r, 1, i) # <<>> /\ Len(SubSeq(r, 1, i)) = i
    OBVIOUS
  <2>1. Len(SubSeq(r, 1, i)) = i /\ i # 0
    BY <1>3
  <2>. QED
    BY <2>1
<1>8. Pruned(r) <=> \E i \in 1..m - 1 : Excluded(SubSeq(r, 1, i)) \/ i > MaxDepth
  <2>1. Pruned(r) <=> \E i \in 0..m - 1 : Skipped(SubSeq(r, 1, i))
    BY DEF Pruned, Above
  <2>2. ~Skipped(SubSeq(r, 1, 0))
    <3>1. SubSeq(r, 1, 0) = <<>>
      BY <1>3
    <3>. QED
      BY <3>1 DEF Skipped
  <2>3. \A i \in 1..m - 1 : Skipped(SubSeq(r, 1, i)) <=> Excluded(SubSeq(r, 1, i)) \/ i > MaxDepth
    BY <1>7 DEF Skipped
  <2>4. \A i \in 0..m - 1 : i = 0 \/ i \in 1..m - 1
    OBVIOUS
  <2>5. \A i \in 1..m - 1 : i \in 0..m - 1
    OBVIOUS
  <2>. QED
    BY <2>1, <2>2, <2>3, <2>4, <2>5
<1>. QED
  BY <1>3, <1>6, <1>7, <1>8

LEMMA DepthOfPath ==
    ASSUME NEW m \in Nat, m >= 1
    PROVE  m <= MaxDepth + 1 <=> \A i \in 1..m - 1 : ~(i > MaxDepth)
<1>1. MaxDepth \in Nat
  BY LimitsAssumption
<1>2. m > MaxDepth + 1 => m - 1 \in 1..m - 1 /\ m - 1 > MaxDepth
  BY <1>1
<1>3. m <= MaxDepth + 1 => \A i \in 1..m - 1 : ~(i > MaxDepth)
  BY <1>1
<1>4. m <= MaxDepth + 1 \/ m > MaxDepth + 1
  BY <1>1
<1>. QED
  BY <1>2, <1>3, <1>4

\* What the walk of a tree meets when every directory can be listed, and what it
\* selects of that, is what is wanted.
Met == {f \in tree : ~Pruned(f.path)}

\* What it meets of the tree as it is.
Reached == {f \in Met : Above(f.path) \cap shut = {}}

LEMMA MetAndSelected ==
    ASSUME Patterns(HardExcludes), Patterns(include), Patterns(exclude),
           \A f \in tree : Segmented(f.path)
    PROVE  Wanted = {f \in Met : Selected(f)}
<1>1. ASSUME NEW f \in tree
      PROVE  /\ f.leads = "inside" /\ Asked(f.path) /\ ~OutOfReach(f.path) /\ Len(f.path) <= MaxDepth + 1
             <=> ~Pruned(f.path) /\ Selected(f)
  <2>1. PICK r : r = f.path
    OBVIOUS
  <2>2. Segmented(r)
    BY <1>1, <2>1
  <2>3. PICK m \in Nat : m = Len(r)
    BY <2>2 DEF Segmented
  <2>4. Asked(r) <=> (include # {} => matchAny(r, include))
    BY <2>2, AskedByMatcher
  <2>5. /\ m >= 1
        /\ OutOfReach(r) <=> Excluded(r) \/ \E i \in 1..m - 1 : Excluded(SubSeq(r, 1, i))
        /\ Pruned(r) <=> \E i \in 1..m - 1 : Excluded(SubSeq(r, 1, i)) \/ i > MaxDepth
    BY <2>2, <2>3, PathsHidden
  <2>6. Len(r) <= MaxDepth + 1 <=> \A i \in 1..m - 1 : ~(i > MaxDepth)
    BY <2>3, <2>5, DepthOfPath
  <2>7. Selected(f) <=> ~Excluded(r) /\ f.leads = "inside" /\ (include # {} => matchAny(r, include))
    BY <2>1 DEF Selected
  <2>. QED
    BY <2>1, <2>4, <2>5, <2>6, <2>7
<1>. QED
  BY <1>1 DEF Wanted, Met, OutOfReach

\* The directories that stop the walk are those in reach of the descriptor.
LEMMA BarredAreUnlisted ==
    ASSUME Patterns(HardExcludes), Patterns(exclude),
           \A d \in shut : d = <<>> \/ Segmented(d)
    PROVE  Barred = Unlisted
<1> SUFFICES ASSUME NEW d \in shut
             PROVE  ~Skipped(d) /\ ~Pruned(d) <=> Len(d) <= MaxDepth /\ ~OutOfReach(d)
  BY DEF Barred, Unlisted, OutOfReach
<1>1. MaxDepth \in Nat
  BY LimitsAssumption
<1>2. CASE d = <<>>
  <2>1. Len(d) = 0
    BY <1>2
  <2>2. ~Skipped(d)
    BY <1>2 DEF Skipped
  <2>3. ~Pruned(d)
    BY <2>1 DEF Pruned, Above
  <2>4. ~OutOfReach(d)
    BY <2>1 DEF OutOfReach, Hides
  <2>. QED
    BY <1>1, <2>1, <2>2, <2>3, <2>4
<1>3. CASE Segmented(d)
  <2>1. PICK m \in Nat : m = Len(d)
    BY <1>3 DEF Segmented
  <2>2. /\ m >= 1
        /\ OutOfReach(d) <=> Excluded(d) \/ \E i \in 1..m - 1 : Excluded(SubSeq(d, 1, i))
        /\ Pruned(d) <=> \E i \in 1..m - 1 : Excluded(SubSeq(d, 1, i)) \/ i > MaxDepth
    BY <1>3, <2>1, PathsHidden
  <2>3. d # <<>>
    BY <1>3 DEF Segmented
  <2>4. Skipped(d) <=> Excluded(d) \/ m > MaxDepth
    BY <2>1, <2>3 DEF Skipped
  <2>5. m <= MaxDepth => \A i \in 1..m - 1 : ~(i > MaxDepth)
    BY <1>1
  <2>6. m <= MaxDepth <=> ~(m > MaxDepth)
    BY <1>1
  <2>. QED
    BY <2>1, <2>2, <2>4, <2>5, <2>6
<1>. QED
  BY <1>2, <1>3

\* A walk that no directory stops comes to everything.
LEMMA NothingBarred ==
    ASSUME \A f \in tree : Segmented(f.path), Barred = {}
    PROVE  Reached = Met
<1> SUFFICES ASSUME NEW f \in Met, NEW d \in Above(f.path) \cap shut PROVE FALSE
  BY DEF Reached
<1>1. PICK r : r = f.path
  OBVIOUS
<1>2. PICK m \in Nat : m = Len(r)
  BY <1>1 DEF Segmented, Met
<1>3. r \in Seq(Range(r)) /\ ~Pruned(r)
  BY <1>1 DEF Segmented, Met
<1>4. PICK i \in 0..m - 1 : d = SubSeq(r, 1, i)
  BY <1>1, <1>2 DEF Above
<1>5. Len(d) = i /\ \A j \in 0..i - 1 : SubSeq(d, 1, j) = SubSeq(r, 1, j)
  <2>1. d = [k \in 1..i |-> r[k]] /\ Len(d) = i
    BY <1>2, <1>3, <1>4
  <2>2. ASSUME NEW j \in 0..i - 1 PROVE SubSeq(d, 1, j) = SubSeq(r, 1, j)
    <3>1. SubSeq(r, 1, j) = [k \in 1..j |-> r[k]]
      BY <1>2, <1>3, <1>4, <2>2
    <3>2. SubSeq(d, 1, j) = [k \in 1..j |-> d[k]]
      BY <2>1, <2>2
    <3>3. \A k \in 1..j : d[k] = r[k]
      BY <2>1, <2>2
    <3>. QED
      BY <3>1, <3>2, <3>3
  <2>. QED
    BY <2>1, <2>2
<1>6. Above(d) \subseteq Above(r)
  BY <1>2, <1>4, <1>5 DEF Above
<1>7. d \in Above(r)
  BY <1>1
<1>8. ~Skipped(d) /\ ~Pruned(d)
  BY <1>3, <1>6, <1>7 DEF Pruned
<1>. QED
  BY <1>8 DEF Barred

------------------------------------------------------------------------------
(* The bytes of some files *)

Bytes(f) == {f} \X (1..f.size)

Sized(fs) == IsFiniteSet(fs) /\ \A f \in fs : f.size \in Nat

LEMMA BytesOfOne ==
    ASSUME NEW f, f.size \in Nat
    PROVE  IsFiniteSet(Bytes(f)) /\ Cardinality(Bytes(f)) = f.size
<1>1. IsFiniteSet(1..f.size) /\ Cardinality(1..f.size) = f.size
  <2>1. PICK n \in Nat : n = f.size
    OBVIOUS
  <2>2. IsFiniteSet(1..n) /\ Cardinality(1..n) = IF 1 > n THEN 0 ELSE n - 1 + 1
    BY FS_Interval, 1 \in Int, n \in Int
  <2>. QED
    BY <2>1, <2>2
<1>2. IsFiniteSet({f}) /\ Cardinality({f}) = 1
  BY FS_Singleton
<1>3. PICK S : S = 1..f.size
  OBVIOUS
<1>4. IsFiniteSet({f} \X S) /\ Cardinality({f} \X S) = Cardinality({f}) * Cardinality(S)
  BY <1>1, <1>2, <1>3, FS_Product
<1>. QED
  BY <1>1, <1>2, <1>3, <1>4 DEF Bytes

LEMMA BytesAreFinite ==
    ASSUME NEW fs, Sized(fs)
    PROVE  IsFiniteSet(UNION {Bytes(f) : f \in fs}) /\ Total(fs) \in Nat
<1>1. PICK b : b = [f \in fs |-> Bytes(f)]
  OBVIOUS
<1>2. IsFiniteSet({b[f] : f \in fs})
  <2>1. IsFiniteSet(fs)
    BY DEF Sized
  <2>. QED
    BY <2>1, ImageIsFinite
<1>3. {b[f] : f \in fs} = {Bytes(f) : f \in fs}
  BY <1>1
<1>4. \A T \in {Bytes(f) : f \in fs} : IsFiniteSet(T)
  BY BytesOfOne DEF Sized
<1>5. IsFiniteSet(UNION {Bytes(f) : f \in fs})
  BY <1>2, <1>3, <1>4, FS_UNION
<1>6. Total(fs) = Cardinality(UNION {Bytes(f) : f \in fs})
  BY DEF Total, Bytes
<1>. QED
  BY <1>5, <1>6, FS_CardinalityType

LEMMA TotalOfNone == Total({}) = 0
<1>1. UNION {{f} \X (1..f.size) : f \in {}} = {}
  OBVIOUS
<1>. QED
  BY <1>1, FS_EmptySet DEF Total

LEMMA TotalWithOne ==
    ASSUME NEW fs, Sized(fs), NEW f, f \notin fs, f.size \in Nat
    PROVE  Total(fs \cup {f}) = Total(fs) + f.size
<1> DEFINE A == UNION {Bytes(g) : g \in fs}
<1>1. IsFiniteSet(A) /\ Total(fs) = Cardinality(A) /\ Total(fs) \in Nat
  BY BytesAreFinite DEF Total, Bytes
<1>2. IsFiniteSet(Bytes(f)) /\ Cardinality(Bytes(f)) = f.size
  BY BytesOfOne
<1>3. A \cap Bytes(f) = {}
  <2>1. \A x \in A : x[1] \in fs
    BY DEF Bytes
  <2>2. \A x \in Bytes(f) : x[1] = f
    BY DEF Bytes
  <2>. QED
    BY <2>1, <2>2
<1>4. UNION {Bytes(g) : g \in fs \cup {f}} = A \cup Bytes(f)
  OBVIOUS
<1>5. Total(fs \cup {f}) = Cardinality(A \cup Bytes(f))
  BY <1>4 DEF Total, Bytes
<1> HIDE DEF A
<1>6. PICK B : B = Bytes(f)
  OBVIOUS
<1>7. Cardinality(A \cup B) = Cardinality(A) + Cardinality(B) - Cardinality(A \cap B)
  BY <1>1, <1>2, <1>6, FS_Union
<1>8. Cardinality(A \cap B) = 0
  BY <1>3, <1>6, FS_EmptySet
<1>. QED
  BY <1>1, <1>2, <1>5, <1>6, <1>7, <1>8

LEMMA TotalOfMore ==
    ASSUME NEW fs, Sized(fs), NEW gs \in SUBSET fs
    PROVE  Total(gs) <= Total(fs)
<1> DEFINE A == UNION {Bytes(g) : g \in fs}
           B == UNION {Bytes(g) : g \in gs}
<1>1. B \in SUBSET A
  OBVIOUS
<1>2. IsFiniteSet(A)
  BY BytesAreFinite
<1>3. Total(fs) = Cardinality(A) /\ Total(gs) = Cardinality(B)
  BY DEF Total, Bytes
<1> HIDE DEF A, B
<1>. QED
  BY <1>1, <1>2, <1>3, FS_Subset

------------------------------------------------------------------------------
(* The invariant of the walk *)

Seen == {f \in Reached \ unseen : Selected(f)}

WalkTyped ==
    /\ tree \in Trees /\ include \in Includes /\ exclude \in Excludes
    /\ shut \in Shuts /\ unseen \subseteq Reached
    /\ walk \in {"walking", "done", "failed", "late"}

\* The counters count what has been examined, selected and read so far.
Counted ==
    /\ visited = Cardinality(Reached \ unseen)
    /\ count = Cardinality(Seen)
    /\ files = {f \in Seen : Readable(f)}
    /\ total = Total(files)

WithinLimits == count <= MaxFiles /\ total <= MaxTotalBytes

WalkInv ==
    /\ WalkTyped
    /\ walk \in {"walking", "done"} => Counted /\ WithinLimits
    /\ walk = "done" => unseen = {} /\ Barred = {}
    /\ walk = "failed" => TooMuch \/ Barred # {}

LEMMA TreesAreFinite ==
    ASSUME WalkTyped
    PROVE  /\ Patterns(HardExcludes) /\ Patterns(include) /\ Patterns(exclude)
           /\ IsFiniteSet(tree)
           /\ \A f \in tree : Segmented(f.path) /\ f.size \in Nat
           /\ \A d \in shut : d = <<>> \/ Segmented(d)
BY TreesAssumption DEF WalkTyped, Patterns

LEMMA MetAreFinite ==
    ASSUME WalkTyped
    PROVE  \A fs \in SUBSET Met : fs \in SUBSET tree /\ IsFiniteSet(fs) /\ Sized(fs)
<1> SUFFICES ASSUME NEW fs \in SUBSET Met
             PROVE  fs \in SUBSET tree /\ IsFiniteSet(fs) /\ Sized(fs)
  OBVIOUS
<1>1. IsFiniteSet(tree) /\ \A f \in tree : f.size \in Nat
  BY TreesAreFinite
<1>2. fs \in SUBSET tree
  BY DEF Met
<1>3. IsFiniteSet(fs)
  BY <1>1, <1>2, FS_Subset
<1>. QED
  BY <1>1, <1>2, <1>3 DEF Sized

LEMMA WantedAreMet ==
    ASSUME WalkTyped
    PROVE  Wanted = {f \in Met : Selected(f)}
BY TreesAreFinite, MetAndSelected

LEMMA WalkInitInv == WalkInit => WalkInv
<1> SUFFICES ASSUME WalkInit PROVE WalkInv
  OBVIOUS
<1>1. WalkTyped
  BY DEF WalkInit, WalkTyped, Met, Reached
<1>2. Reached \ unseen = {} /\ Seen = {}
  BY DEF WalkInit, Met, Reached, Seen
<1>3. {f \in Seen : Readable(f)} = {}
  BY <1>2
<1>4. Counted
  BY <1>2, <1>3, FS_EmptySet, TotalOfNone DEF Counted, WalkInit
<1>5. WithinLimits
  BY LimitsAssumption DEF WithinLimits, WalkInit
<1>. QED
  BY <1>1, <1>4, <1>5 DEF WalkInv, WalkInit

\* The root and its descriptor never change, nor what they say of a file.
LEMMA SameRoot ==
    ASSUME UNCHANGED <<tree, shut, include, exclude>>
    PROVE  /\ Met' = Met /\ Reached' = Reached /\ Barred' = Barred
           /\ \A f : Selected(f)' <=> Selected(f)
           /\ Wanted' = Wanted
           /\ TooMuch' <=> TooMuch
<1>1. (\A d : Skipped(d)' <=> Skipped(d)) /\ (\A q : Pruned(q)' <=> Pruned(q))
  BY DEF Pruned, Skipped, Above, Excluded
<1>2. Met' = Met /\ Reached' = Reached /\ Barred' = Barred
  BY <1>1 DEF Met, Reached, Barred, Above
<1>3. \A f : Selected(f)' <=> Selected(f)
  BY DEF Selected, Excluded
<1>4. \A r : Asked(r)' <=> Asked(r)
  BY DEF Asked
<1>5. \A f : Hides(HardExcludes \cup exclude', f.path) <=> Hides(HardExcludes \cup exclude, f.path)
  OBVIOUS
<1>6. Wanted' = Wanted
  BY <1>4, <1>5 DEF Wanted
<1>7. TooMuch' <=> TooMuch
  BY <1>2, <1>6 DEF TooMuch, Met, Readable
<1>. QED
  BY <1>2, <1>3, <1>6, <1>7

LEMMA ExamineInv ==
    ASSUME WalkInv, NEW f \in unseen, Examine(f)
    PROVE  WalkInv'
<1>1. /\ WalkTyped /\ Counted /\ WithinLimits /\ walk = "walking"
      /\ UNCHANGED <<tree, shut, include, exclude>>
      /\ unseen' = unseen \ {f} /\ visited' = visited + 1
      /\ count' = count + (IF Selected(f) THEN 1 ELSE 0)
  BY DEF WalkInv, Examine
<1>2. /\ Reached' = Reached /\ Barred' = Barred
      /\ \A g : Selected(g)' <=> Selected(g)
      /\ TooMuch' <=> TooMuch
  BY <1>1, SameRoot
<1>3. f \in Reached /\ f \in tree /\ f.size \in Nat /\ f \notin Seen
  BY <1>1, TreesAreFinite DEF WalkTyped, Met, Reached, Seen
<1>4. (Reached \ unseen)' = (Reached \ unseen) \cup {f}
  BY <1>1, <1>2, <1>3
<1>5. /\ Selected(f) => Seen' = Seen \cup {f}
      /\ ~Selected(f) => Seen' = Seen
  BY <1>2, <1>4 DEF Seen
<1>6. /\ Reached \ unseen \in SUBSET Met /\ Seen \in SUBSET Met
      /\ {g \in Seen : Readable(g)} \in SUBSET Met
  BY DEF Seen, Reached
<1>7. IsFiniteSet(Reached \ unseen) /\ IsFiniteSet(Seen) /\ Sized({g \in Seen : Readable(g)})
  BY <1>1, <1>6, MetAreFinite
<1>8. visited \in Nat /\ count \in Nat /\ total \in Nat
  BY <1>1, <1>7, FS_CardinalityType, BytesAreFinite DEF Counted
<1>9. visited' = Cardinality((Reached \ unseen)')
  BY <1>1, <1>3, <1>4, <1>7, FS_AddElement DEF Counted
<1>10. count' = Cardinality(Seen')
  <2>1. CASE Selected(f)
    BY <2>1, <1>1, <1>3, <1>5, <1>7, FS_AddElement DEF Counted
  <2>2. CASE ~Selected(f)
    BY <2>2, <1>1, <1>5, <1>8 DEF Counted
  <2>. QED
    BY <2>1, <2>2
<1>11. Seen' \subseteq Met /\ (Reached \ unseen)' \subseteq Met
  BY <1>2 DEF Seen, Reached
<1>12. WalkTyped'
  <2>1. unseen' \subseteq Reached'
    BY <1>1, <1>2 DEF WalkTyped
  <2>2. walk' \in {"walking", "failed"}
    BY <1>1 DEF Examine
  <2>. QED
    BY <1>1, <2>1, <2>2 DEF WalkTyped
<1>13. CASE BreaksLimit(f)
  <2>1. walk' = "failed"
    BY <1>13 DEF Examine
  <2>2. Wanted = {g \in Met : Selected(g)}
    BY <1>1, WantedAreMet
  <2>3. IsFiniteSet(Met) /\ IsFiniteSet(Wanted) /\ Sized({g \in Wanted : Readable(g)})
    BY <1>1, <2>2, MetAreFinite
  <2>4. ASSUME MaxVisited > 0 /\ visited + 1 > MaxVisited PROVE TooMuch
    <3>1. Cardinality((Reached \ unseen)') <= Cardinality(Met)
      BY <1>11, <2>3, FS_Subset
    <3>2. Cardinality(Met) \in Nat
      BY <2>3, FS_CardinalityType
    <3>3. MaxVisited \in Nat
      BY LimitsAssumption
    <3>4. Cardinality(Met) > MaxVisited
      BY <1>1, <1>8, <1>9, <2>4, <3>1, <3>2, <3>3
    <3>. QED
      BY <2>4, <3>4 DEF TooMuch, Met
  <2>5. ASSUME Selected(f) /\ count + 1 > MaxFiles PROVE TooMuch
    <3>1. Seen' \subseteq Wanted
      BY <1>2, <1>11, <2>2 DEF Seen
    <3>2. Cardinality(Seen') <= Cardinality(Wanted) /\ Cardinality(Wanted) \in Nat
      BY <2>3, <3>1, FS_Subset, FS_CardinalityType
    <3>3. MaxFiles \in Nat
      BY LimitsAssumption
    <3>4. Cardinality(Seen') = count + 1
      BY <1>1, <1>10, <2>5
    <3>. QED
      BY <1>8, <2>5, <3>2, <3>3, <3>4 DEF TooMuch
  <2>6. ASSUME Selected(f) /\ f.stat /\ f.own > MaxFileBytes PROVE TooMuch
    BY <1>3, <2>2, <2>6 DEF TooMuch, Reached
  <2>7. ASSUME Selected(f) /\ Readable(f) /\ total + f.size > MaxTotalBytes PROVE TooMuch
    <3> DEFINE R == {g \in Seen : Readable(g)}
               W == {g \in Wanted : Readable(g)}
    <3>1. f \notin R /\ R \cup {f} \in SUBSET W
      BY <1>3, <1>6, <2>2, <2>7 DEF Seen, Reached
    <3>2. Sized(R) /\ Sized(W) /\ total = Total(R)
      BY <1>1, <1>7, <2>3 DEF Counted
    <3> HIDE DEF R, W
    <3>3. Total(R \cup {f}) = total + f.size
      BY <1>3, <3>1, <3>2, TotalWithOne
    <3>4. Total(R \cup {f}) <= Total(W)
      BY <3>1, <3>2, TotalOfMore
    <3>5. Total(W) \in Nat /\ MaxTotalBytes \in Nat
      BY <3>2, BytesAreFinite, LimitsAssumption
    <3>6. Total(W) > MaxTotalBytes
      BY <1>3, <1>8, <2>7, <3>3, <3>4, <3>5
    <3>. QED
      BY <3>6 DEF TooMuch, W
  <2>8. TooMuch
    BY <1>13, <2>4, <2>5, <2>6, <2>7 DEF BreaksLimit
  <2>. QED
    BY <1>2, <1>12, <2>1, <2>8 DEF WalkInv
<1>14. CASE ~BreaksLimit(f)
  <2>1. /\ walk' = "walking"
        /\ files' = IF Selected(f) /\ Readable(f) THEN files \cup {f} ELSE files
        /\ total' = IF Selected(f) /\ Readable(f) THEN total + f.size ELSE total
    BY <1>1, <1>14 DEF Examine
  <2>2. /\ Selected(f) => ~(count + 1 > MaxFiles)
        /\ Selected(f) /\ Readable(f) => ~(total + f.size > MaxTotalBytes)
    BY <1>14 DEF BreaksLimit
  <2>3. files = {g \in Seen : Readable(g)} /\ total = Total(files)
        /\ count <= MaxFiles /\ total <= MaxTotalBytes
    BY <1>1 DEF Counted, WithinLimits
  <2>4. files' = {g \in Seen' : Readable(g)}
    <3>1. CASE Selected(f) /\ Readable(f)
      BY <1>5, <2>1, <2>3, <3>1
    <3>2. CASE Selected(f) /\ ~Readable(f)
      BY <1>5, <2>1, <2>3, <3>2
    <3>3. CASE ~Selected(f)
      BY <1>5, <2>1, <2>3, <3>3
    <3>. QED
      BY <3>1, <3>2, <3>3
  <2>5. total' = Total(files')
    <3>1. CASE Selected(f) /\ Readable(f)
      <4>1. f \notin files /\ Sized(files)
        BY <1>3, <1>7, <2>3
      <4>. QED
        BY <1>3, <2>1, <2>3, <3>1, <4>1, TotalWithOne
    <3>2. CASE ~(Selected(f) /\ Readable(f))
      BY <2>1, <2>3, <3>2
    <3>. QED
      BY <3>1, <3>2
  <2>6. Counted'
    BY <1>9, <1>10, <2>4, <2>5 DEF Counted, Readable
  <2>7. WithinLimits'
    <3>1. MaxFiles \in Nat /\ MaxTotalBytes \in Nat
      BY LimitsAssumption
    <3>2. count' <= MaxFiles
      BY <1>1, <1>8, <2>2, <2>3, <3>1
    <3>3. total' <= MaxTotalBytes
      BY <1>3, <1>8, <2>1, <2>2, <2>3, <3>1
    <3>. QED
      BY <3>2, <3>3 DEF WithinLimits
  <2>. QED
    BY <1>12, <2>1, <2>6, <2>7 DEF WalkInv
<1>. QED
  BY <1>13, <1>14

LEMMA WalkNextInv == WalkInv /\ [WalkNext]_walkVars => WalkInv'
<1> SUFFICES ASSUME WalkInv, [WalkNext]_walkVars PROVE WalkInv'
  OBVIOUS
<1>1. ASSUME NEW f \in unseen, Examine(f) PROVE WalkInv'
  BY <1>1, ExamineInv
<1>2. ASSUME UNCHANGED <<tree, shut, include, exclude, unseen>>
      PROVE  /\ walk' \in {"walking", "done", "failed", "late"} => WalkTyped'
             /\ UNCHANGED <<visited, count, total, files>> =>
                  (Counted' <=> Counted) /\ (WithinLimits' <=> WithinLimits)
             /\ (TooMuch' <=> TooMuch) /\ Barred' = Barred
  <2>1. /\ Reached' = Reached /\ Barred' = Barred
        /\ (\A f : Selected(f)' <=> Selected(f)) /\ (TooMuch' <=> TooMuch)
    BY <1>2, SameRoot
  <2>2. Seen' = Seen
    BY <1>2, <2>1 DEF Seen
  <2>3. walk' \in {"walking", "done", "failed", "late"} => WalkTyped'
    BY <1>2, <2>1 DEF WalkInv, WalkTyped
  <2>4. UNCHANGED <<visited, count, total, files>> => (Counted' <=> Counted)
    BY <1>2, <2>1, <2>2 DEF Counted, Readable
  <2>5. UNCHANGED <<visited, count, total, files>> => (WithinLimits' <=> WithinLimits)
    BY DEF WithinLimits
  <2>. QED
    BY <2>1, <2>3, <2>4, <2>5
<1>3. CASE Timeout
  BY <1>2, <1>3 DEF Timeout, WalkInv
<1>4. CASE FinishWalk
  BY <1>2, <1>4 DEF FinishWalk, WalkInv
<1>5. CASE ListFails
  BY <1>2, <1>5 DEF ListFails, WalkInv
<1>6. CASE UNCHANGED walkVars
  BY <1>2, <1>6 DEF walkVars, WalkInv, WalkTyped
<1>. QED
  BY <1>1, <1>3, <1>4, <1>5, <1>6 DEF WalkNext

LEMMA WalkInvIsDeclared == WalkInv => WalkIsDeclared
<1> SUFFICES ASSUME WalkInv PROVE WalkIsDeclared
  OBVIOUS
<1>1. Wanted = {f \in Met : Selected(f)}
  BY WantedAreMet DEF WalkInv
<1>2. Barred = Unlisted
  BY TreesAreFinite, BarredAreUnlisted DEF WalkInv
<1>3. ASSUME walk = "done"
      PROVE  /\ files = {f \in Wanted : Readable(f)} /\ Unlisted = {}
             /\ Cardinality(Wanted) <= MaxFiles /\ Total(files) <= MaxTotalBytes
  <2>1. unseen = {} /\ Barred = {} /\ Counted /\ WithinLimits
    BY <1>3 DEF WalkInv
  <2>2. Reached = Met
    BY <2>1, TreesAreFinite, NothingBarred DEF WalkInv
  <2>3. Seen = Wanted
    BY <1>1, <2>1, <2>2 DEF Seen
  <2>. QED
    BY <1>2, <2>1, <2>3 DEF Counted, WithinLimits
<1>4. walk = "failed" => TooMuch \/ Unlisted # {}
  BY <1>2 DEF WalkInv
<1>. QED
  BY <1>3, <1>4 DEF WalkIsDeclared

\* Whatever the tree, the patterns, the limits and the order of the walk, the
\* collected files are exactly those the registration means, and a walk that
\* fails met too much or a directory in reach of the descriptor that cannot be
\* listed, selected or not (ingestion.go, Walker.Walk).
THEOREM WalksAreDeclared == WalkSpec => []WalkIsDeclared
<1>. QED
  BY WalkInitInv, WalkNextInv, WalkInvIsDeclared, PTL DEF WalkSpec
=============================================================================
