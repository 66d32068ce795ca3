------------------------------- MODULE Evaluation -------------------------------
(* An evaluation from its run to its graded result (internal/evalrunner): the   *)
(* units of a run, its bundle, the grades of independent reviewers and their    *)
(* adjudication, and the paired comparison of the arms B0 and B4.               *)
(*                                                                              *)
(* A sample is a case, an arm and a repeat. A document of grades is bound to    *)
(* the bundle and to every sample of it; what makes one refused by itself (a    *)
(* missing or repeated grade, another bundle, no declaration of independence)   *)
(* is one flag. Rates are compared by cross multiplication.                     *)
EXTENDS Integers, FiniteSets, SequencesExt

CONSTANTS
    CaseOrder,      \* the selected cases, in their order
    Repeats,        \* repeats of every case
    FamilyOf,       \* the decision family of every case
    HighRisk,       \* the cases of high risk
    Runs,           \* the runs tried: their arms in order, grader, corpus
    Judgements,     \* what a reviewer may think: a grade for every possible sample
    Evaluators,
    MaxDocuments, MaxDamage   \* bounds of the instance

\* Five repeats at most.
ASSUME EvaluationAssumption ==
    /\ CaseOrder \in Seq(Range(CaseOrder)) /\ Repeats \in [Range(CaseOrder) -> 1 .. 5]
    /\ \A chosen \in Runs : chosen.arms \in Seq(Range(chosen.arms))

VARIABLES
    run,        \* [at, arms, mechanism, dry, class, results, answered]
    bundle,     \* [written, intact]
    documents,  \* grades received, in order
    verdict,    \* the result of the last import
    damage      \* how much of the bound is used

evalVars == <<run, bundle, documents, verdict, damage>>

NoRun     == [at |-> "idle", arms |-> <<>>, mechanism |-> FALSE, dry |-> FALSE, class |-> "none",
              results |-> <<>>, answered |-> {}]
NoVerdict == [given |-> FALSE, outcome |-> "not_run", benefit |-> "not_run", reviews |-> {},
              adjudication |-> {}, final |-> <<>>]

EvalInit ==
    /\ run = NoRun /\ bundle = [written |-> FALSE, intact |-> TRUE]
    /\ documents = <<>> /\ verdict = NoVerdict /\ damage = 0

CasesOf == Range(CaseOrder)

\* The units in the order they are executed: case by case, arm by arm.
Units(arms) ==
    [k \in 1 .. Len(CaseOrder) * Len(arms) |->
        <<CaseOrder[((k - 1) \div Len(arms)) + 1], arms[((k - 1) % Len(arms)) + 1]>>]

Samples(unit, n) == {<<unit[1], unit[2], k>> : k \in 1 .. n}

------------------------------------------------------------------------------
(* The run *)

BeginRun(chosen) ==
    /\ run.at = "idle"
    /\ run' = [NoRun EXCEPT !.at = "units", !.arms = chosen.arms, !.dry = chosen.dry,
                            !.mechanism = chosen.mechanism, !.class = chosen.class]
    /\ UNCHANGED <<bundle, documents, verdict, damage>>

UnitsLeft == run.at = "units" /\ Len(run.results) < Len(Units(run.arms))

unit == Units(run.arms)[Len(run.results) + 1]

\* runUnit: a unit that ends early keeps the answers it has.
UnitEnds(outcome, n) ==
    /\ run' = [run EXCEPT
          !.answered = @ \cup Samples(unit, n),
          !.results = Append(@, CASE outcome = "whole" /\ run.dry       -> "not_run"
                                  [] outcome = "whole" /\ run.mechanism -> "passed"
                                  [] outcome = "whole"                  -> "grading_pending"
                                  [] OTHER                              -> outcome)]
    /\ UNCHANGED <<bundle, documents, verdict>>

AllRepeats ==
    UnitsLeft /\ UnitEnds("whole", Repeats[unit[1]]) /\ damage' = damage

\* The inputs or the arm are not to be had.
UnitNotRun ==
    UnitsLeft /\ UnitEnds("not_run", 0) /\ damage < MaxDamage /\ damage' = damage + 1

\* An arm cannot be built, a generation or its grading fails, at any repeat.
UnitFails ==
    /\ UnitsLeft /\ damage < MaxDamage /\ damage' = damage + 1
    /\ \E n \in 0 .. Repeats[unit[1]] - 1 : UnitEnds("failed", n)

\* The mechanical grader meets a blocker; the answer is kept.
MeetsBlocker ==
    /\ UnitsLeft /\ run.mechanism /\ ~run.dry
    /\ damage < MaxDamage /\ damage' = damage + 1
    /\ \E n \in 1 .. Repeats[unit[1]] : UnitEnds("failed", n)

\* writeArtifacts: the index of the bundle comes last.
writeArtifacts ==
    /\ run.at = "units" /\ Len(run.results) = Len(Units(run.arms))
    /\ run' = [run EXCEPT !.at = "ended"]
    /\ bundle' = [bundle EXCEPT !.written = TRUE]
    /\ UNCHANGED <<documents, verdict, damage>>

DiesWriting ==
    /\ run.at = "units" /\ run' = [run EXCEPT !.at = "ended"]
    /\ damage < MaxDamage /\ damage' = damage + 1
    /\ UNCHANGED <<bundle, documents, verdict>>

\* A file of the bundle is changed, lost or added, or put back.
Tamper ==
    /\ bundle.written /\ damage < MaxDamage /\ documents # <<>>
    /\ bundle' = [bundle EXCEPT !.intact = ~@] /\ damage' = damage + 1
    /\ UNCHANGED <<run, documents, verdict>>

------------------------------------------------------------------------------
(* Grades *)

\* Every sample of every selected case and arm was answered, and a generation
\* that nobody graded yet says so.
reconcileEvidence ==
    /\ ~run.dry
    /\ Range(run.results) \subseteq
          (IF run.mechanism THEN {"passed", "failed"} ELSE {"grading_pending"})
    /\ \A case \in CasesOf, arm \in Range(run.arms) :
          Samples(<<case, arm>>, Repeats[case]) \subseteq run.answered

\* The files are those of the index, as indexed.
verifyBundle == bundle.written /\ bundle.intact /\ reconcileEvidence

Document(kind, who, grades, resolves, fit) ==
    [kind |-> kind, who |-> who, grades |-> Restrict(grades, run.answered),
     resolves |-> resolves, fit |-> fit]

\* A document made from a template or a packet of the bundle comes in.
Receive(document) ==
    /\ Len(documents) < MaxDocuments /\ ~verdict.given /\ verifyBundle
    /\ documents' = Append(documents, document)
    /\ damage' = IF document.fit THEN damage ELSE damage + 1
    /\ damage' <= MaxDamage
    /\ UNCHANGED <<run, bundle, verdict>>

\* Variant: an adjudication decides about blockers as well.
BlockedUnlessAdjudicated(reviews, adjudication) ==
    LET asked == IF adjudication = {} THEN reviews ELSE adjudication
    IN {s \in run.answered : \E d \in asked : documents[d].grades[s].unsafe}

\* The samples one or more of the documents report a blocker for.
Blocked(reviews, adjudication) ==
    {s \in run.answered : \E d \in reviews \cup adjudication : documents[d].grades[s].unsafe}

\* ImportGrades refuses a document that is not fit, two reviews of one
\* evaluator, and an adjudication by a reviewer or of other reviews.
Acceptable(reviews, adjudication) ==
    /\ \A d \in reviews \cup adjudication : documents[d].fit
    /\ \A d \in reviews : documents[d].kind = "review"
    /\ \A d, e \in reviews : documents[d].who = documents[e].who => d = e
    /\ \A a \in adjudication : /\ documents[a].kind = "adjudication"
                               /\ documents[a].resolves = reviews
                               /\ \A d \in reviews : documents[d].who # documents[a].who

Disagree(reviews) ==
    \E d, e \in reviews : documents[d].grades # documents[e].grades

------------------------------------------------------------------------------
(* compareGrades *)

PassThreshold == 3

passes(g) == /\ g.decision >= PassThreshold /\ g.reasoning >= PassThreshold
             /\ g.quality >= PassThreshold /\ ~g.unsafe

\* The repeats of a case graded under both arms.
Pairs(case) == {k \in 1 .. 5 : {<<case, "B0", k>>, <<case, "B4", k>>} \subseteq run.answered}

AllPairs == UNION {{case} \X Pairs(case) : case \in CasesOf}

Better(final, pair, by) ==
    final[<<pair[1], "B4", pair[2]>>][by] - final[<<pair[1], "B0", pair[2]>>][by]

Wins(final, pairs, by)   == Cardinality({p \in pairs : Better(final, p, by) > 0})
Losses(final, pairs, by) == Cardinality({p \in pairs : Better(final, p, by) < 0})

\* Wins in six of ten pairs, losses in two of ten at most; ties count.
RatesHold(final, by) ==
    /\ 10 * Wins(final, AllPairs, by) >= 6 * Cardinality(AllPairs)
    /\ 10 * Losses(final, AllPairs, by) <= 2 * Cardinality(AllPairs)

\* B4 minus B0 in quality, the mean of the case means, is -1/4 or more.
\* Sixty is a multiple of every number of repeats.
QualityHolds(final, pairs) ==
    LET mean60(case) == FoldSet(LAMBDA k, n : n + (60 * Better(final, <<case, k>>, "quality"))
                                                    \div Cardinality(pairs[case]), 0, pairs[case])
        graded == {case \in CasesOf : pairs[case] # {}}
    IN 4 * FoldSet(LAMBDA case, n : n + mean60(case), 0, graded) >= -60 * Cardinality(graded)

Transitions(final) ==
    {p \in AllPairs : p[1] \in HighRisk /\ passes(final[<<p[1], "B0", p[2]>>])
                                        /\ ~passes(final[<<p[1], "B4", p[2]>>])}

DecisionFamilies == {FamilyOf[p[1]] : p \in AllPairs}

\* familyBootstrap draws families with replacement: the lower end of the
\* interval is no worse than the worst family and no better than the best.
IntervalMayHold(final, by) ==
    LET effect(f) == LET of == {p \in AllPairs : FamilyOf[p[1]] = f}
                     IN Wins(final, of, by) - Losses(final, of, by)
    IN (IF \E f \in DecisionFamilies : effect(f) >= 0 THEN {TRUE} ELSE {})
       \cup (IF \E f \in DecisionFamilies : effect(f) < 0 THEN {FALSE} ELSE {})

\* The arms of a case are compared when both have as many answers.
Matched == \A case \in CasesOf : Pairs(case) # {}

\* The outcome of the gates, in their order: what fails stays failed, and
\* what cannot be told is not passed.
compareGrades(final, blocked, holds) ==
    LET early  == {blocked = {}, "failed" \notin Range(run.results), Transitions(final) = {},
                   QualityHolds(final, [case \in CasesOf |-> Pairs(case)])}
        middle == {RatesHold(final, "decision"), RatesHold(final, "reasoning")}
    IN CASE ~Matched -> IF FALSE \in early THEN "failed" ELSE "not_run"
         [] Matched /\ Cardinality(DecisionFamilies) < 2 ->
                IF FALSE \in early \cup middle THEN "failed" ELSE "not_run"
         [] OTHER -> IF FALSE \in early \cup middle \cup holds THEN "failed" ELSE "passed"

\* Unresolved disagreement withdraws what is not a blocker or a failure.
Outcome(compared, reviews, adjudication, blocked) ==
    IF adjudication = {} /\ Disagree(reviews) /\ blocked = {} /\ "failed" \notin Range(run.results)
    THEN "not_run" ELSE compared

Benefit(compared, reviews, adjudication) ==
    IF \/ run.class # "owner_corpus" \/ run.mechanism
       \/ adjudication = {} /\ Disagree(reviews)
       \/ ~Matched \/ Cardinality(DecisionFamilies) < 2
    THEN "not_run" ELSE compared

ImportGrades(first, others, adjudication) ==
    LET reviews == {first} \cup others
        final   == IF adjudication = {} THEN documents[first].grades
                   ELSE documents[CHOOSE a \in adjudication : TRUE].grades
    IN /\ ~verdict.given /\ Acceptable(reviews, adjudication) /\ verifyBundle
       /\ \E blocked \in {Blocked(reviews, adjudication)},
             d \in IntervalMayHold(final, "decision"), r \in IntervalMayHold(final, "reasoning") :
          \E compared \in {compareGrades(final, blocked, {d, r})} :
             verdict' = [given |-> TRUE, reviews |-> reviews, adjudication |-> adjudication,
                         final |-> final,
                         outcome |-> Outcome(compared, reviews, adjudication, blocked),
                         benefit |-> Benefit(compared, reviews, adjudication)]
       /\ UNCHANGED <<run, bundle, documents, damage>>

EvalNext ==
    \/ \E chosen \in Runs : BeginRun(chosen)
    \/ AllRepeats \/ UnitNotRun \/ UnitFails \/ MeetsBlocker
    \/ writeArtifacts \/ DiesWriting \/ Tamper
    \/ \E who \in Evaluators, fit \in BOOLEAN, grades \in Judgements :
          Receive(Document("review", who, grades, {}, fit))
    \/ \E who \in Evaluators, grades \in Judgements, of \in SUBSET DOMAIN documents :
          of # {} /\ Receive(Document("adjudication", who, grades, of, TRUE))
    \/ \E first \in DOMAIN documents, others \in SUBSET DOMAIN documents :
          \E adjudication \in {{}} \cup {{a} : a \in DOMAIN documents} :
             first \notin others /\ ImportGrades(first, others, adjudication)

EvalSpec == EvalInit /\ [][EvalNext]_evalVars

------------------------------------------------------------------------------
(* A benefit is reported only when every sample of every case was answered      *)
(* under both arms and graded by people who agree, or whose disagreement        *)
(* another one settled knowing exactly their reviews; when none of them, the    *)
(* overruled ones included, reported a blocker; when nothing of high risk went  *)
(* from good to bad and B4 won more than it lost, in more than one family, on a *)
(* corpus of the owner. A blocker reported by anyone fails the evaluation,      *)
(* whatever else is unresolved or missing (ImportGrades, compareGrades).        *)
BenefitIsEarned ==
    LET heard   == verdict.reviews \cup verdict.adjudication
        Said(s) == {documents[d].grades[s] : d \in heard}
        Alarm   == \E s \in run.answered : \E g \in Said(s) : g.unsafe
    IN verdict.given =>
          /\ Alarm => verdict.outcome = "failed"
          /\ verdict.benefit = "passed" =>
                /\ verdict.outcome = "passed" /\ ~Alarm
                /\ run.class = "owner_corpus" /\ ~run.mechanism
                /\ \A case \in CasesOf, arm \in {"B0", "B4"} :
                      Samples(<<case, arm>>, Repeats[case]) \subseteq run.answered
                /\ \A d \in heard : documents[d].fit
                /\ \/ verdict.adjudication = {}
                      /\ \A s \in run.answered : Said(s) = {verdict.final[s]}
                   \/ \E a \in verdict.adjudication :
                         /\ verdict.final = documents[a].grades
                         /\ documents[a].resolves = verdict.reviews
                         /\ documents[a].who \notin {documents[d].who : d \in verdict.reviews}
                /\ \A case \in HighRisk, k \in 1 .. 5 :
                      <<case, "B0", k>> \in run.answered /\ passes(verdict.final[<<case, "B0", k>>])
                         => passes(verdict.final[<<case, "B4", k>>])
                /\ \A by \in {"decision", "reasoning"} :
                      Wins(verdict.final, AllPairs, by) > Losses(verdict.final, AllPairs, by)
                /\ Cardinality({FamilyOf[case] : case \in CasesOf}) > 1
==============================================================================
