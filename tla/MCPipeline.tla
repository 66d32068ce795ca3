------------------------------ MODULE MCPipeline ------------------------------
(* Instances for TLC of the three parts of the way from a document to a pack: *)
(* the walk of a root (SourceWalk), the statement of an entry (EntryText) and *)
(* a resolution (Resolution). A behaviour checks one part, chosen at the      *)
(* start; the variables of the others stay as they are. MCServing adds the     *)
(* serving of the built store.                                                 *)
EXTENDS SourceWalk, EntryText, Resolution

VARIABLE part

allVars == <<part, walkVars, textVars, resVars>>

------------------------------------------------------------------------------
(* Walks: names a and b, and s, which is excluded everywhere. *)

File(path) == [path |-> path, leads |-> "inside", stat |-> TRUE, text |-> TRUE,
               readable |-> TRUE, own |-> 1, size |-> 1]

Paths == {<<"a">>, <<"s">>, <<"a", "b">>, <<"s", "a">>, <<"a", "s", "b">>, <<"b", "a", "b">>,
          <<"b", "b", "a", "b">>}
NoneBelow(ps) == \A p, q \in ps : ~IsStrictPrefix(p, q)
AnyTree   == {{File(p) : p \in ps} : ps \in {qs \in SUBSET Paths : Cardinality(qs) \in 2..4 /\ NoneBelow(qs)}}
OddFiles  == {[File(<<"a", "b">>) EXCEPT !.leads = "outside"],
              [File(<<"a", "b">>) EXCEPT !.leads = "broken"],
              [File(<<"b", "b">>) EXCEPT !.stat = FALSE],
              [File(<<"b", "b">>) EXCEPT !.text = FALSE],
              [File(<<"b", "b">>) EXCEPT !.text = FALSE, !.own = 4, !.size = 4],
              [File(<<"a", "b">>) EXCEPT !.size = 4],
              [File(<<"b", "b">>) EXCEPT !.readable = FALSE],
              [File(<<"b", "b">>) EXCEPT !.own = 3, !.size = 3]}
OddTree   == {fs \in SUBSET OddFiles : /\ Cardinality(fs) \in 1..2
                                        /\ Cardinality({f.path : f \in fs}) = Cardinality(fs)}
MCTrees   == AnyTree \cup {fs \cup {File(<<"a", "a">>), File(<<"b", "a", "b">>)} : fs \in OddTree}
MCShuts   == {{}, {<<>>}, {<<"b">>}, {<<"a", "s">>, <<"b", "b", "a">>}, {<<"a", "c">>, <<"s">>}}
MCHard    == {<<"s">>}
MCInclude == {{}, {<<"a">>}, {<<Deep, "b">>}, {<<"b", Deep, Star>>, <<"a", "b">>}}
MCExclude == {{}, {<<"b">>}, {<<Star, "b">>}, {<<"a", Deep, "b">>}}

WalkIdle == /\ tree = {} /\ shut = {} /\ include = {} /\ exclude = {} /\ unseen = {} /\ visited = 0
            /\ count = 0 /\ total = 0 /\ files = {} /\ walk = "idle"

------------------------------------------------------------------------------
(* Entries *)

Text(w)     == [Line("text") EXCEPT !.words = {w}]
Long(w, t)  == [Text(w) EXCEPT !.tail = {t}]
Heading(n)  == [Line("heading") EXCEPT !.name = n]
Fence(m, r) == [Line("fence") EXCEPT !.mark = m, !.run = r]
Opening     == [Line("text") EXCEPT !.opens = TRUE]
Closing     == [Line("text") EXCEPT !.closes = TRUE]
Named       == [Line("text") EXCEPT !.name = "summary"]

Around(w)  == {Text(w), Line("blank"), Heading("summary"), Heading("other"), Line("rule")}
UpTo2(S)   == {<<>>} \cup {<<x>> : x \in S} \cup {<<x, y>> : x \in S, y \in S}
MCLeading  == UpTo2({Text("v"), Heading("summary"), Fence("tick", 3)})
MCTrailing == UpTo2(Around("w"))
MCInside   == UpTo2({Text("x"), Heading("summary"), Line("rule"), Fence("tick", 3),
                     Fence("tick", 4), [Fence("tick", 4) EXCEPT !.info = TRUE],
                     Fence("tilde", 3), Opening, Closing, Named})
MCRegions  == {<<Fence("tick", 3), Fence("tick", 3)>>, <<Fence("tick", 4), Fence("tick", 4)>>,
               <<[Fence("tilde", 3) EXCEPT !.info = TRUE], Fence("tilde", 4)>>,
               <<Opening, Closing>>}

TextIdle == parts = [before |-> <<>>, open |-> Line("blank"), inside |-> <<>>,
                     close |-> Line("blank"), after |-> <<>>]
            /\ at = 0 /\ reader = Reading

------------------------------------------------------------------------------
(* Resolutions *)

Both == {"personal", "work-safe"}
Pub  == [class |-> "public_general", ns |-> "none"]
Priv == [class |-> "personal_private", ns |-> "none"]
Work(w) == [class |-> "work_restricted", ns |-> w]

Source(id, purpose, sens, profiles) ==
    [id |-> id, purposes |-> <<purpose>>, trust |-> "reference", sens |-> sens,
     profiles |-> profiles, ceiling |-> "default", dataOnly |-> FALSE,
     filesystem |-> TRUE, walks |-> TRUE]

MCSources ==
    << Source("policy", "trusted_project_policy", Work("w1"), {"personal"}),
       Source("base", "canonical_foundation", Priv, Both),
       [Source("safe", "safe_declassified", Pub, Both) EXCEPT !.purposes = <<"x", "safe_declassified">>],
       [Source("web", "reusable_knowledge", Pub, {"personal"}) EXCEPT !.trust = "untrusted_data"],
       [Source("lost", "reusable_knowledge", Pub, {"work-safe"}) EXCEPT !.walks = FALSE] >>

FrontMatter == [profiles |-> {}, ws |-> {}, kinds |-> {}, exclude |-> {}, malformed |-> FALSE,
          unsupported |-> FALSE, status |-> "none", type |-> "preference",
          confidence |-> "none", from |-> 0, until |-> 9, key |-> NoKey, label |-> {}]
Entry(id, key, word, size) ==
    [id |-> id, fm |-> [FrontMatter EXCEPT !.key = key], body |-> <<Text(word)>>, size |-> size,
     secret |-> FALSE]

P1 == Entry("p1", "store", "cache", 4)
P2 == [Entry("p2", NoKey, "sql", 3) EXCEPT !.fm.status = "active"]
P3 == [Entry("p3", "store", "sql", 1) EXCEPT !.fm.confidence = "validated"]
B1 == Entry("b1", "store", "other", 2)
B2 == [Entry("b2", "store", "cache", 2) EXCEPT !.fm.ws = {"w1"}, !.fm.profiles = {"personal"}]
B3 == [Entry("b3", NoKey, "other", 2) EXCEPT !.fm.exclude = {"w1", "sql"}]
S1 == [Entry("s1", "store", "sql", 1) EXCEPT !.body = <<Heading("other"), Long("cache", "sql")>>]
S2 == [Entry("s2", NoKey, "sql", 2) EXCEPT !.fm.kinds = {"testing"}]
S3 == [Entry("s3", NoKey, "other", 1) EXCEPT !.fm.profiles = {"personal"}, !.fm.type = "principle"]
S4 == [Entry("s2", NoKey, "cache", 1) EXCEPT !.fm.until = 4]
W1 == [Entry("w1", NoKey, "cache", 1) EXCEPT !.fm.type = "fact"]
W2 == [Entry("w2", "store", "cache", 3) EXCEPT !.fm.type = "decision"]
W3 == Entry("w3", "store", "cache", 1)
Bad == {[Entry("x", NoKey, "cache", 1) EXCEPT !.fm.status = "deprecated"],
        [Entry("x", NoKey, "cache", 1) EXCEPT !.fm.unsupported = TRUE],
        [Entry("x", NoKey, "cache", 1) EXCEPT !.fm.malformed = TRUE],
        [Entry("x", NoKey, "cache", 1) EXCEPT !.body = <<Heading("summary")>>],
        [Entry("x", NoKey, "cache", 1) EXCEPT !.secret = TRUE]}

MCRecordId == [d \in {"p1", "p2", "p3", "b1", "b2", "b3", "s1", "s2", "s3", "w1", "w2", "w3", "x"} |->
    CASE d = "p1" -> 1 [] d = "p2" -> 2 [] d = "p3" -> 3 [] d = "b1" -> 4 [] d = "b2" -> 5
      [] d = "b3" -> 6 [] d = "s1" -> 7 [] d = "s2" -> 8 [] d = "s3" -> 9 [] d = "w1" -> 10
      [] d = "w2" -> 7 [] d = "w3" -> 11 [] OTHER -> 12]

Holding(p, b, s, w) == <<p, b, s, w, <<W1>>>>
MCDocs ==
    {Holding(p, b, s, w) : p \in {<<>>, <<P1>>, <<P1, P3>>, <<P2>>},
                           b \in {<<>>, <<B1>>, <<B2, B3>>},
                           s \in {<<>>, <<S1, S2>>, <<S3, S4>>},
                           w \in {<<>>, <<W1, W2>>, <<W3>>}}
    \cup {Holding(<<>>, <<B1>>, <<S1, x>>, <<>>) : x \in Bad}

Task(words, facets, hints, hint, budget) ==
    [task |-> IF words = {"sql"} THEN "sql" ELSE "longer", words |-> words, facets |-> facets,
     hints |-> hints, risk |-> "low", hint |-> hint, budget |-> budget, now |-> 5]
MCRequests ==
    {Task({"cache", "sql"}, {"architecture"}, {}, <<"w1", "d">>, b) : b \in {4, 7, 10, 0}}
    \cup {Task({"cache"}, {}, {"testing"}, h, b) : h \in {<<"w1">>, <<"o">>}, b \in {8, 11}}
    \cup {Task({"sql"}, {"testing"}, {}, <<"o">>, 9), Task({"none"}, {}, {}, <<"w1">>, 9),
          Task({"cache"}, {}, {}, <<"w1", "amb">>, 9)}
MCCapabilities == {[profile |-> p, learned |-> FALSE] : p \in Both}
MCRevocations  == {[records |-> {}, sources |-> {}], [records |-> {7}, sources |-> {"base"}]}
MCWorkspaces   == [w \in {"w1", "w2"} |-> IF w = "w1" THEN {<<"w1">>} ELSE {<<"w1", "amb">>, <<"z">>}]
MCTopics       == {"sql"}

ResIdle == /\ docs = Holding(<<>>, <<>>, <<>>, <<>>) /\ cap = [profile |-> "personal", learned |-> FALSE]
           /\ req = Task({}, {}, {}, <<>>, 0) /\ revoked = [records |-> {}, sources |-> {}]
           /\ stage = "idle" /\ store = {} /\ workspace = NoWorkspace /\ eligible = {}
           /\ kept = {} /\ winners = {} /\ conflicts = {} /\ todo = {} /\ pack = EmptyPack

------------------------------------------------------------------------------

PipelineInit ==
    \/ part = "walk" /\ WalkInit /\ TextIdle /\ ResIdle
    \/ part = "text" /\ WalkIdle /\ TextInit /\ ResIdle
    \/ part = "resolve" /\ WalkIdle /\ TextIdle /\ ResInit

PipelineNext ==
    \/ part = "walk" /\ WalkNext /\ UNCHANGED <<part, textVars, resVars>>
    \/ part = "text" /\ Read /\ UNCHANGED <<part, walkVars, resVars>>
    \/ part = "resolve" /\ ResNext /\ UNCHANGED <<part, walkVars, textVars>>
==============================================================================
