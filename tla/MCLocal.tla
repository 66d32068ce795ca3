-------------------------------- MODULE MCLocal --------------------------------
(* Instances for TLC of six parts that share no state: the observation queue   *)
(* (LearningReview), the durable file operations (DurableFile), the vault's     *)
(* registration and resolution (VaultAccess), the capture reminder              *)
(* (SessionReminder), the briefing (Briefing) and an evaluation (Evaluation). A  *)
(* behaviour checks one part, chosen at the start; the variables of the others  *)
(* stay as they are.                                                            *)
EXTENDS LearningReview, DurableFile, VaultAccess, SessionReminder, Briefing, Evaluation

CONSTANTS Parts, n1, n2, e1, e2, e3

MCCallers == {n1, n2}
MCEvaluators == {e1, e2, e3}
Symmetry  == Permutations(MCCallers) \cup Permutations(MCEvaluators)

VARIABLE part

localVars == <<part, learningVars, fileVars, vaultVars, reminderVars, briefingVars, evalVars>>

------------------------------------------------------------------------------
(* Vaults: nested roots, worktrees that name theirs, one that does not say so  *)
(* in return, and a place with the names of a root in it that is not below it. *)

MCSlugs  == <<"p", "q">>
MCRoots  == {<<"a">>, <<"a", "b">>}
MCPlaces == {<<"a">>, <<"a", "b", "d">>, <<"c", "a">>, <<"d">>, <<"d", "a", "b">>}
Marker(dir, main, back) ==
    [dir |-> dir, main |-> main, file |-> TRUE, pointsBack |-> back, complete |-> TRUE]
MCMarkers == {Marker(<<"c">>, <<"a">>, TRUE), Marker(<<"a">>, <<"a", "b">>, TRUE),
              Marker(<<"d", "a">>, <<"c">>, FALSE)}

------------------------------------------------------------------------------
(* Notes: of everyone, of p and of q; refused ones, one of a bad shape, state   *)
(* of a project among everyone's, decisions of one topic, an old open item and  *)
(* one in the wrong directory. *)

Note(p, t, touched) ==
    [project |-> p, type |-> t, gate |-> "fine", placed |-> TRUE, stale |-> FALSE,
     topic |-> 0, touched |-> touched, validated |-> FALSE]
MCNotes ==
    << Note("global", "learning", 1),
       [Note("global", "decision", 2) EXCEPT !.gate = "unsafe", !.topic = 1],
       [Note("global", "open", 3) EXCEPT !.stale = TRUE],
       [Note("p", "open", 4) EXCEPT !.stale = TRUE],
       [Note("p", "open", 8) EXCEPT !.gate = "shape"],
       [Note("p", "decision", 5) EXCEPT !.topic = 1, !.validated = TRUE],
       [Note("p", "decision", 9) EXCEPT !.topic = 1, !.gate = "unsafe"],
       Note("p", "decision", 7),
       Note("p", "summary", 6),
       Note("p", "summary", 10),
       [Note("p", "learning", 11) EXCEPT !.placed = FALSE],
       [Note("global", "decision", 12) EXCEPT !.topic = 1] >>

MCLimits == [m \in {"manual", "normal", "economy"} |->
    IF m = "economy"
    THEN [open |-> 1, decisions |-> 1, learnings |-> 1, global |-> 1, budget |-> 26]
    ELSE [open |-> 2, decisions |-> 1, learnings |-> 1, global |-> 2, budget |-> 100]]

\* The last pair is told of as a conflict, being of one topic.
MCAlike == {{6, 8}, {7, 8}, {2, 12}}

MCReports == {<<>>, <<Flag("mutation_failed", "", {9}), Flag("conflict", "q", {11}),
                      Flag("conflict", "global", {2, 12})>>}

BriefingIdle == /\ shelf = {} /\ spoiled = {} /\ scan = NoScan
                /\ briefing = NoBriefing /\ meddled = 0

------------------------------------------------------------------------------
(* Grades: B4 better in everything; the same with a blocker in one answer;     *)
(* better but in a case of high risk, where it fails.                           *)

MCCases   == <<"c1", "c2">>
MCRepeats == [c1 |-> 1, c2 |-> 2]
MCFamilyOf == [c1 |-> "f1", c2 |-> "f2"]
Run(arms, mechanism, dry, class) ==
    [arms |-> arms, mechanism |-> mechanism, dry |-> dry, class |-> class]
MCRuns ==
    {Run(<<"B0", "B4">>, FALSE, FALSE, "owner_corpus"), Run(<<"B4">>, FALSE, FALSE, "owner_corpus"),
     Run(<<"B0", "B4">>, FALSE, FALSE, "synthetic_mechanism"),
     Run(<<"B0", "B4">>, TRUE, FALSE, "owner_corpus"), Run(<<"B4">>, FALSE, TRUE, "owner_corpus")}
Mark(n) == [decision |-> n, reasoning |-> n, quality |-> n, unsafe |-> FALSE]
Graded(Good(_), alarm) ==
    [s \in {"c1", "c2"} \X {"B0", "B4"} \X (1 .. 5) |->
        [(IF Good(s) THEN Mark(4) ELSE Mark(2)) EXCEPT !.unsafe = (s = alarm)]]
MCJudgements ==
    LET B4(s)    == s[2] = "B4"
        Mixed(s) == (s[2] = "B4") = (s[1] # "c1")
    IN {Graded(B4, <<>>), Graded(B4, <<"c2", "B4", 1>>), Graded(Mixed, <<>>)}

------------------------------------------------------------------------------

LocalInit ==
    /\ part \in Parts
    /\ LearningInit /\ FileInit /\ VaultInit /\ ReminderInit /\ EvalInit
    /\ IF part = "briefing" THEN BriefingInit /\ Cardinality(shelf) >= Len(NoteOf) - 1
       ELSE BriefingIdle

LocalNext ==
    \/ part = "learning" /\ LearningNext
       /\ UNCHANGED <<part, fileVars, vaultVars, reminderVars, briefingVars, evalVars>>
    \/ part = "file" /\ FileNext
       /\ UNCHANGED <<part, learningVars, vaultVars, reminderVars, briefingVars, evalVars>>
    \/ part = "vault" /\ VaultNext
       /\ UNCHANGED <<part, learningVars, fileVars, reminderVars, briefingVars, evalVars>>
    \/ part = "reminder" /\ ReminderNext
       /\ UNCHANGED <<part, learningVars, fileVars, vaultVars, briefingVars, evalVars>>
    \/ part = "briefing" /\ BriefingNext
       /\ UNCHANGED <<part, learningVars, fileVars, vaultVars, reminderVars, evalVars>>
    \/ part = "evaluation" /\ EvalNext
       /\ UNCHANGED <<part, learningVars, fileVars, vaultVars, reminderVars, briefingVars>>

LocalSpec == LocalInit /\ [][LocalNext]_localVars

==============================================================================
