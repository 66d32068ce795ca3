------------------------- MODULE PhysicalPurgeProofs -------------------------
(***************************************************************************)
(* What holds of PhysicalPurge for every set of records, profiles, traces, *)
(* observations and keys, and every number of requests, interruptions,     *)
(* builds, restored data directories and concurrent resolutions.           *)
(*                                                                         *)
(* The lock keeps the ledger still while a build runs (Hidden), a build    *)
(* only adds rows that ledger lets through, so a resolution's reading of   *)
(* the ledger stays good for the rows it selects (Fresh).  A trace file is *)
(* written once, by a resolution that then ends, so the traces of a plan   *)
(* cannot come back (Settled); with the stores held still by the lock, the *)
(* phases of a purge add up to its plan (Erased).                          *)
(***************************************************************************)
EXTENDS PhysicalPurge, TLAPS

USE PurgeAssumption DEF PurgeAssumption

PurgeState == [pc : {"idle", "ledger", "journal", "projection", "compact", "traces",
                     "observations", "canonical"} \union Reports,
               key : Keys, plan : Plan, store : Profiles,
               todo : SUBSET (Profiles \union Resolvers \union Observations \union Records)]
BuildState == [pc : {"idle", "hidden", "wipe", "ingest", "end"}, profile : Profiles,
               ledger : Ledger]
ResolverState == [pc : {"start", "select", "record", "done"}, profile : Profiles,
                  revoked : SUBSET Records, purged : SUBSET Records, pack : SUBSET Records]

LEMMA NoneTyped == NoPlan \in Plan /\ NoLedger \in Ledger /\ NoPurge \in PurgeState
                   /\ NoBuild \in BuildState
<1>1. NoPlan \in Plan /\ NoLedger \in Ledger
  BY DEF NoPlan, Plan, NoLedger, Ledger
<1>2. (CHOOSE k \in Keys : TRUE) \in Keys /\ (CHOOSE p \in Profiles : TRUE) \in Profiles
  OBVIOUS
<1> QED
  BY <1>1, <1>2 DEF NoPurge, PurgeState, NoBuild, BuildState, Reports

LEMMA PurgedTyped == ASSUME NEW l \in Ledger PROVE Purged(l) \in SUBSET Records
  BY DEF Purged, Ledger

LEMMA PlanTyped ==
  ASSUME TypeOK, NEW k \in Keys, NEW canon \in BOOLEAN PROVE PlanOf(k, canon) \in Plan
  BY DEF PlanOf, Plan, Stored, Naming, TypeOK

LEMMA InitType == Init => TypeOK
<1> SUFFICES ASSUME Init PROVE TypeOK
  OBVIOUS
<1>1. resolvers \in [Resolvers -> ResolverState]
  BY NoneTyped DEF Init, ResolverState, BuildState
<1> QED
  BY <1>1, NoneTyped DEF Init, TypeOK, PurgeState, BuildState, ResolverState, NoPurge, NoBuild

LEMMA PurgeTyped ==
  ASSUME TypeOK PROVE purge \in PurgeState /\ build \in BuildState
                      /\ resolvers \in [Resolvers -> ResolverState]
  BY DEF TypeOK, PurgeState, BuildState, ResolverState

LEMMA GotoTyped ==
  ASSUME TypeOK, NEW pc \in {"journal", "projection", "compact", "traces", "observations",
                             "canonical"} \union Reports,
         NEW items \in SUBSET (Profiles \union Resolvers \union Observations \union Records),
         Goto(pc, items)
  PROVE  purge' \in PurgeState /\ purge'.pc = pc /\ purge'.todo = items
         /\ purge'.plan = purge.plan /\ purge'.key = purge.key
  BY PurgeTyped DEF Goto, PurgeState

LEMMA DropTyped ==
  ASSUME TypeOK, NEW item, Drop(item)
  PROVE  purge' \in PurgeState /\ purge'.pc = purge.pc /\ purge'.todo = purge.todo \ {item}
         /\ purge'.plan = purge.plan /\ purge'.key = purge.key
  BY PurgeTyped DEF Drop, PurgeState

LEMMA StartTyped ==
  ASSUME TypeOK, NEW pc \in {"ledger"} \union Reports, NEW k \in Keys, NEW plan \in Plan,
         Start(pc, k, plan)
  PROVE  purge' \in PurgeState /\ purge'.pc = pc /\ purge'.plan = plan
  BY PurgeTyped DEF Start, PurgeState, Reports

LEMMA BudgetTyped ==
  ASSUME TypeOK, \/ budget' = budget
                 \/ budget.requests > 0 /\ budget' = [budget EXCEPT !.requests = @ - 1]
                 \/ budget.failures > 0 /\ budget' = [budget EXCEPT !.failures = @ - 1]
                 \/ budget.builds > 0 /\ budget' = [budget EXCEPT !.builds = @ - 1]
                 \/ budget.restores > 0 /\ budget' = [budget EXCEPT !.restores = @ - 1]
  PROVE  budget' \in [requests : Nat, failures : Nat, builds : Nat, restores : Nat]
  BY DEF TypeOK

\* The parts of TypeOK that a step of the purge leaves to show.
LEMMA PurgeStepTyped ==
  ASSUME TypeOK, purge' \in PurgeState, purge'.pc # "idle", lock = "purge",
         UNCHANGED <<lock, build, resolvers, budget>>,
         ledger' \in Ledger, journals' \in [Keys -> Plan], begun' \in [Keys -> Plan],
         rows' \in [Profiles -> SUBSET Records], bytes' \in [Profiles -> SUBSET Records],
         observations' \in SUBSET Observations, canonical' \in SUBSET Records,
         traces' \in [Resolvers -> SUBSET Records]
  PROVE  TypeOK'
  BY DEF TypeOK, PurgeState

LEMMA PurgeStepType == ASSUME TypeOK, PurgeStep PROVE TypeOK'
<1>0. /\ ledger \in Ledger /\ journals \in [Keys -> Plan] /\ begun \in [Keys -> Plan]
      /\ rows \in [Profiles -> SUBSET Records] /\ bytes \in [Profiles -> SUBSET Records]
      /\ observations \in SUBSET Observations /\ canonical \in SUBSET Records
      /\ traces \in [Resolvers -> SUBSET Records]
      /\ purge.pc # "idle" => lock = "purge"
      /\ purge.key \in Keys /\ purge.plan \in Plan
  BY PurgeTyped DEF TypeOK, PurgeState
<1>1. CASE WriteLedger
  <2>1. NewLedger \in Ledger
    BY <1>0 DEF NewLedger, Ledger, Plan
  <2> QED
    BY <1>0, <1>1, <2>1, GotoTyped, PurgeStepTyped DEF WriteLedger, At, derived
<1>2. CASE WriteJournal
  BY <1>0, <1>2, GotoTyped, PurgeStepTyped DEF WriteJournal, At, derived
<1>3. ASSUME NEW p \in Profiles, SkipStore(p) PROVE TypeOK'
  BY <1>0, <1>3, DropTyped, PurgeStepTyped DEF SkipStore, At, derived
<1>4. ASSUME NEW p \in Profiles, PurgeStore(p) PROVE TypeOK'
  <2>1. purge' \in PurgeState /\ purge'.pc # "idle"
    BY <1>4, PurgeTyped DEF PurgeStore, PurgeState
  <2> QED
    BY <1>0, <1>4, <2>1, PurgeStepTyped DEF PurgeStore, At
<1>5. CASE CompactStore
  <2>1. purge' \in PurgeState /\ purge'.pc # "idle"
    BY <1>5, PurgeTyped DEF CompactStore, PurgeState
  <2>2. bytes' \in [Profiles -> SUBSET Records]
    BY <1>0, <1>5, PurgeTyped DEF CompactStore, PurgeState
  <2> QED
    BY <1>0, <1>5, <2>1, <2>2, PurgeStepTyped DEF CompactStore, At
<1>6. CASE ListTraces
  <2>1. purge.plan.traces \union Naming(purge.plan.recs) \in SUBSET Resolvers
    BY <1>0 DEF Naming, Plan
  <2> QED
    BY <1>0, <1>6, <2>1, GotoTyped, PurgeStepTyped DEF ListTraces, At, derived
<1>7. ASSUME NEW q \in Resolvers, EraseTrace(q) PROVE TypeOK'
  <2>1. traces' \in [Resolvers -> SUBSET Records]
    BY <1>0, <1>7 DEF EraseTrace
  <2> QED
    BY <1>0, <1>7, <2>1, DropTyped, PurgeStepTyped DEF EraseTrace, At
<1>8. CASE ListObservations
  <2>1. purge.plan.obs \in SUBSET Observations
    BY <1>0 DEF Plan
  <2> QED
    BY <1>0, <1>8, <2>1, GotoTyped, PurgeStepTyped DEF ListObservations, At, derived
<1>9. ASSUME NEW o \in Observations, EraseObservation(o) PROVE TypeOK'
  <2>1. observations' \in SUBSET Observations
    BY <1>0, <1>9 DEF EraseObservation
  <2> QED
    BY <1>0, <1>9, <2>1, DropTyped, PurgeStepTyped DEF EraseObservation, At
<1>10. CASE ListCanonical
  <2>1. (IF purge.plan.canon THEN purge.plan.recs ELSE {}) \in SUBSET Records
    BY <1>0 DEF Plan
  <2> QED
    BY <1>0, <1>10, <2>1, GotoTyped, PurgeStepTyped DEF ListCanonical, At, derived
<1>11. ASSUME NEW r \in Records, EraseCanonical(r) PROVE TypeOK'
  <2>1. canonical' \in SUBSET Records
    BY <1>0, <1>11 DEF EraseCanonical
  <2> QED
    BY <1>0, <1>11, <2>1, DropTyped, PurgeStepTyped DEF EraseCanonical, At
<1>12. CASE Finalize
  <2>1. "done" \in Reports
    BY DEF Reports
  <2> QED
    BY <1>0, <1>12, <2>1, NoneTyped, GotoTyped, PurgeStepTyped DEF Finalize, At, derived
<1>13. CASE Report
  <2>1. UNCHANGED <<ledger, journals, derived, build, resolvers, begun, budget>>
        /\ purge' = NoPurge /\ lock' = "free" /\ lock = "purge"
    BY <1>0, <1>13 DEF Report, EndPurge, Reports
  <2> QED
    BY <2>1, NoneTyped DEF TypeOK, derived, PurgeState, NoPurge
<1> QED
  BY <1>1, <1>2, <1>3, <1>4, <1>5, <1>6, <1>7, <1>8, <1>9, <1>10, <1>11, <1>12, <1>13
     DEF PurgeStep

LEMMA StepType == ASSUME TypeOK, [Next]_vars PROVE TypeOK'
<1>0. /\ ledger \in Ledger /\ journals \in [Keys -> Plan]
      /\ rows \in [Profiles -> SUBSET Records] /\ bytes \in [Profiles -> SUBSET Records]
      /\ purge \in PurgeState /\ build \in BuildState
      /\ resolvers \in [Resolvers -> ResolverState]
      /\ lock = "purge" <=> purge.pc # "idle"
      /\ lock = "build" <=> build.pc # "idle"
      /\ lock \in {"free", "purge", "build"}
  BY PurgeTyped DEF TypeOK
<1>1. ASSUME NEW pc \in {"ledger"} \union Reports, NEW k \in Keys, NEW plan \in Plan,
             lock = "free", Start(pc, k, plan),
             budget' \in [requests : Nat, failures : Nat, builds : Nat, restores : Nat]
      PROVE  TypeOK'
  <2>1. pc # "idle"
    BY DEF Reports
  <2> QED
    BY <1>0, <1>1, <2>1, StartTyped DEF Start, TypeOK, PurgeState, derived
<1>2. ASSUME NEW k \in Keys, NEW canon \in BOOLEAN, RequestPurge(k, canon) PROVE TypeOK'
  <2>1. budget' \in [requests : Nat, failures : Nat, builds : Nat, restores : Nat]
    BY <1>2, BudgetTyped DEF RequestPurge
  <2>2. PlanOf(k, canon) \in Plan /\ NoPlan \in Plan
    BY PlanTyped, NoneTyped
  <2> QED
    BY <1>1, <1>2, <2>1, <2>2 DEF RequestPurge, Reports
<1>3. ASSUME NEW k \in Keys, Resume(k) PROVE TypeOK'
  <2>1. PICK canon \in BOOLEAN : ResumePurge(k, canon)
    BY <1>3 DEF Resume
  <2>2. [journals[k] EXCEPT !.canon = @ \/ canon] \in Plan
    BY <1>0 DEF Plan
  <2> QED
    BY <1>1, <2>1, <2>2, BudgetTyped DEF ResumePurge
<1>4. CASE FailPurge
  <2>1. budget' \in [requests : Nat, failures : Nat, builds : Nat, restores : Nat]
    BY <1>4, BudgetTyped DEF FailPurge
  <2>2. lock = "purge"
    BY <1>0, <1>4 DEF FailPurge
  <2> QED
    BY <1>0, <1>4, <2>1, <2>2, NoneTyped DEF FailPurge, EndPurge, TypeOK, derived,
                                              PurgeState, NoPurge
<1>5. ASSUME NEW p \in Profiles, BeginBuild(p) PROVE TypeOK'
  <2>1. budget' \in [requests : Nat, failures : Nat, builds : Nat, restores : Nat]
    BY <1>5, BudgetTyped DEF BeginBuild
  <2>2. build' \in BuildState /\ build'.pc = "hidden"
    BY <1>0, <1>5 DEF BeginBuild, BuildState
  <2> QED
    BY <1>0, <1>5, <2>1, <2>2 DEF BeginBuild, TypeOK, derived, BuildState
<1>6. ASSUME NEW pc \in {"wipe", "ingest", "end"}, BuildTo(pc)
      PROVE  build' \in BuildState /\ build'.pc = pc
  BY <1>0, <1>6 DEF BuildTo, BuildState
<1>7. CASE EraseHidden
  BY <1>0, <1>6, <1>7 DEF EraseHidden, TypeOK, BuildState
<1>8. CASE Wipe
  <2>1. rows' \in [Profiles -> SUBSET Records]
    BY <1>0, <1>8 DEF Wipe, BuildState
  <2> QED
    BY <1>0, <1>6, <1>8, <2>1 DEF Wipe, TypeOK, BuildState
<1>9. CASE Ingest
  <2>1. rows' \in [Profiles -> SUBSET Records] /\ bytes' \in [Profiles -> SUBSET Records]
    BY <1>0, <1>9 DEF Ingest, BuildState
  <2> QED
    BY <1>0, <1>6, <1>9, <2>1 DEF Ingest, TypeOK, BuildState
<1>10. CASE EndBuild
  BY <1>0, <1>10, NoneTyped DEF EndBuild, TypeOK, derived, BuildState, NoBuild
<1>11. ASSUME NEW q \in Resolvers, ResolveStep(q) PROVE TypeOK'
  <2>1. ASSUME NEW p \in Profiles, CheckVisible(q, p) PROVE TypeOK'
    <3>1. resolvers' \in [Resolvers -> ResolverState]
      BY <1>0, <2>1, PurgedTyped DEF CheckVisible, ResolverState
    <3> QED
      BY <1>0, <2>1, <3>1 DEF CheckVisible, TypeOK, derived, ResolverState
  <2>2. CASE Select(q)
    <3>1. resolvers[q] \in ResolverState
      BY <1>0
    <3>2. rows[resolvers[q].profile] \ resolvers[q].revoked \in SUBSET Records
      BY <1>0, <3>1 DEF ResolverState
    <3>3. resolvers' = [resolvers EXCEPT ![q] =
             [resolvers[q] EXCEPT !.pc = "record", !.revoked = {},
                !.pack = rows[resolvers[q].profile] \ resolvers[q].revoked]]
      BY <1>0, <2>2 DEF Select, ResolverState
    <3>4. resolvers' \in [Resolvers -> ResolverState]
      BY <1>0, <3>1, <3>2, <3>3 DEF ResolverState
    <3> QED
      BY <1>0, <2>2, <3>4 DEF Select, TypeOK, derived, ResolverState
  <2>3. CASE RecordTrace(q)
    <3>1. resolvers[q] \in ResolverState
      BY <1>0
    <3>2. traces' \in [Resolvers -> SUBSET Records]
      BY <2>3, <3>1 DEF RecordTrace, TypeOK, ResolverState
    <3>3. resolvers' \in [Resolvers -> ResolverState]
      BY <1>0, <2>3, <3>1 DEF RecordTrace, ResolverState
    <3> QED
      BY <1>0, <2>3, <3>2, <3>3 DEF RecordTrace, TypeOK, ResolverState
  <2> QED
    BY <1>11, <2>1, <2>2, <2>3 DEF ResolveStep
<1>12. ASSUME NEW r \in Records, DeleteSource(r) PROVE TypeOK'
  BY <1>12 DEF DeleteSource, TypeOK
<1>13. CASE Restore
  <2>1. budget' \in [requests : Nat, failures : Nat, builds : Nat, restores : Nat]
    BY <1>13, BudgetTyped DEF Restore
  <2> QED
    BY <1>13, <2>1 DEF Restore, TypeOK
<1>14. CASE UNCHANGED vars
  BY <1>14 DEF vars, derived, TypeOK
<1> QED
  BY <1>2, <1>3, <1>4, <1>5, <1>7, <1>8, <1>9, <1>10, <1>11, <1>12, <1>13, <1>14,
     PurgeStepType DEF Next, BuildStep

\* Type correctness, and the lock belongs to what runs.
THEOREM TypeCorrect == Spec => []TypeOK
  BY InitType, StepType, PTL DEF Spec

-----------------------------------------------------------------------------
(* What is erased, or being erased, is hidden; a build works with the       *)
(* ledger as it is.                                                         *)

Hidden ==
    /\ purge.pc \in {"journal", "projection", "compact", "traces", "observations",
                     "canonical", "done"} =>
         purge.plan.recs \subseteq ledger.recs /\ purge.plan.obs \subseteq ledger.obs
    /\ \A k \in Keys : journals[k].recs \subseteq ledger.recs
                       /\ journals[k].obs \subseteq ledger.obs
    /\ build.pc # "idle" => build.ledger = ledger

LEMMA HiddenInit == Init => Hidden
  BY DEF Init, Hidden, NoPlan, NoPurge, NoBuild

LEMMA StartsHidden ==
  ASSUME Hidden, NEW pc \in {"ledger", "already", "unknown"}, NEW k, NEW plan,
         TypeOK, k \in Keys, plan \in Plan, Start(pc, k, plan)
  PROVE  Hidden'
<1>1. purge'.pc = pc
  BY StartTyped DEF Reports
<1> QED
  BY <1>1 DEF Start, Hidden

LEMMA HiddenStep == ASSUME TypeOK, Hidden, [Next]_vars PROVE Hidden'
<1>0. /\ purge \in PurgeState /\ build \in BuildState /\ ledger \in Ledger
      /\ journals \in [Keys -> Plan]
      /\ lock = "purge" <=> purge.pc # "idle"
      /\ lock = "build" <=> build.pc # "idle"
  BY PurgeTyped DEF TypeOK
<1>1. ASSUME NEW k \in Keys, NEW canon \in BOOLEAN, RequestPurge(k, canon) PROVE Hidden'
  BY <1>1, PlanTyped, NoneTyped, StartsHidden DEF RequestPurge
<1>2. ASSUME NEW k \in Keys, Resume(k) PROVE Hidden'
  <2>1. PICK canon \in BOOLEAN : ResumePurge(k, canon)
    BY <1>2 DEF Resume
  <2>2. [journals[k] EXCEPT !.canon = @ \/ canon] \in Plan
    BY <1>0 DEF Plan
  <2> QED
    BY <2>1, <2>2, StartsHidden DEF ResumePurge
<1>3. CASE WriteLedger
  <2>1. purge'.plan = purge.plan /\ ledger' = NewLedger /\ build.pc = "idle"
        /\ UNCHANGED <<journals, build>>
    BY <1>0, <1>3, GotoTyped DEF WriteLedger, At
  <2> QED
    BY <2>1 DEF Hidden, NewLedger
<1>4. CASE WriteJournal
  <2>1. purge.pc = "journal" /\ purge'.plan = purge.plan /\ UNCHANGED <<ledger, build>>
        /\ journals' = [journals EXCEPT ![purge.key] = purge.plan]
    BY <1>0, <1>4, GotoTyped DEF WriteJournal, At
  <2> QED
    BY <1>0, <2>1 DEF Hidden
<1>5. CASE Finalize
  <2>1. purge.pc = "canonical" /\ purge'.plan = purge.plan /\ UNCHANGED <<ledger, build>>
        /\ journals' = [journals EXCEPT ![purge.key] = NoPlan]
    BY <1>0, <1>5, GotoTyped DEF Finalize, At, Reports, derived
  <2> QED
    BY <1>0, <2>1 DEF Hidden, NoPlan
<1>6. ASSUME UNCHANGED <<ledger, journals, build>>, purge'.plan = purge.plan,
             purge.pc \in {"projection", "compact", "traces", "observations", "canonical"}
      PROVE  Hidden'
  BY <1>6 DEF Hidden
<1>7. ASSUME PurgeStep PROVE Hidden'
  <2>1. ASSUME NEW p \in Profiles, SkipStore(p) \/ PurgeStore(p) PROVE Hidden'
    BY <1>0, <1>6, <2>1 DEF SkipStore, PurgeStore, Drop, At, PurgeState, derived
  <2>2. CASE CompactStore
    BY <1>0, <1>6, <2>2 DEF CompactStore, At, PurgeState
  <2>3. CASE ListTraces \/ ListObservations \/ ListCanonical
    BY <1>0, <1>6, <2>3 DEF ListTraces, ListObservations, ListCanonical, Goto, At, PurgeState
  <2>4. ASSUME NEW x, EraseTrace(x) \/ EraseObservation(x) \/ EraseCanonical(x) PROVE Hidden'
    BY <1>0, <1>6, <2>4 DEF EraseTrace, EraseObservation, EraseCanonical, Drop, At, PurgeState
  <2>5. CASE Report
    BY <2>5 DEF Report, EndPurge, NoPurge, Hidden
  <2> QED
    BY <1>3, <1>4, <1>5, <1>7, <2>1, <2>2, <2>3, <2>4, <2>5 DEF PurgeStep
<1>8. CASE FailPurge
  BY <1>8 DEF FailPurge, EndPurge, NoPurge, Hidden
<1>9. ASSUME NEW p \in Profiles, BeginBuild(p) PROVE Hidden'
  BY <1>9 DEF BeginBuild, Hidden
<1>10. CASE BuildStep
  BY <1>0, <1>10 DEF BuildStep, EraseHidden, Wipe, Ingest, EndBuild, BuildTo, NoBuild,
                     BuildState, Hidden
<1>11. ASSUME UNCHANGED <<ledger, journals, purge, build>> PROVE Hidden'
  BY <1>11 DEF Hidden
<1> QED
  BY <1>1, <1>2, <1>7, <1>8, <1>9, <1>10, <1>11
     DEF Next, ResolveStep, CheckVisible, Select, RecordTrace, DeleteSource, Restore,
         vars, derived

\* Nothing is erased before the ledger blocks its return: what a pending
\* journal lists is hidden.
THEOREM JournalsAreEnforced == Spec => []PlanIsEnforced
<1>1. Hidden => PlanIsEnforced
  BY DEF Hidden, PlanIsEnforced, Purged
<1> QED
  BY <1>1, InitType, StepType, HiddenInit, HiddenStep, PTL DEF Spec

-----------------------------------------------------------------------------
(* What a resolution read of the ledger stays good for what it selects.     *)

LEMMA PurgedGrows ==
  ASSUME NEW l \in Ledger, NEW m \in Ledger, l.keys \subseteq m.keys, l.recs \subseteq m.recs
  PROVE  Purged(l) \subseteq Purged(m)
  BY DEF Purged

LEMMA LedgerGrows ==
  ASSUME TypeOK, [Next]_vars PROVE Purged(ledger) \subseteq Purged(ledger')
<1>1. CASE WriteLedger
  <2>1. ledger \in Ledger /\ ledger' \in Ledger
    BY StepType DEF TypeOK
  <2> QED
    BY <1>1, <2>1, PurgedGrows DEF WriteLedger, NewLedger
<1>2. ASSUME ~WriteLedger PROVE ledger' = ledger
  BY <1>2 DEF Next, RequestPurge, Resume, ResumePurge, Start, PurgeStep, WriteJournal,
     SkipStore, PurgeStore, CompactStore, ListTraces, EraseTrace, ListObservations,
     EraseObservation, ListCanonical, EraseCanonical, Finalize, Report, EndPurge, FailPurge,
     BeginBuild, BuildStep, EraseHidden, Wipe, Ingest, EndBuild, ResolveStep, CheckVisible,
     Select, RecordTrace, DeleteSource, Restore, vars
<1> QED
  BY <1>1, <1>2

\* A step adds to a store only what the ledger lets through, unless it puts a
\* backup back, which no running resolution sees.
LEMMA RowsComeClean ==
  ASSUME TypeOK, Hidden, [Next]_vars, NEW p \in Profiles
  PROVE  \/ (rows'[p] \ rows[p]) \cap Purged(ledger) = {}
         \/ Restore
<1>0. /\ build \in BuildState /\ purge \in PurgeState
      /\ rows \in [Profiles -> SUBSET Records]
  BY PurgeTyped DEF TypeOK
<1>1. CASE Ingest
  <2>1. build.ledger = ledger
    BY <1>1 DEF Ingest, Hidden
  <2> QED
    BY <1>0, <1>1, <2>1 DEF Ingest
<1>2. ASSUME NEW x \in Profiles, PurgeStore(x) PROVE rows'[p] \subseteq rows[p]
  BY <1>0, <1>2 DEF PurgeStore
<1>3. CASE Wipe
  BY <1>0, <1>3 DEF Wipe
<1>4. ASSUME ~Ingest, ~Wipe, ~Restore, \A x \in Profiles : ~PurgeStore(x)
      PROVE  rows' = rows
  BY <1>4 DEF Next, RequestPurge, Resume, ResumePurge, Start, PurgeStep, WriteLedger,
     WriteJournal, SkipStore, CompactStore, ListTraces, EraseTrace, ListObservations,
     EraseObservation, ListCanonical, EraseCanonical, Finalize, Report, EndPurge, FailPurge,
     BeginBuild, BuildStep, EraseHidden, EndBuild, ResolveStep, CheckVisible, Select,
     RecordTrace, DeleteSource, vars, derived
<1> QED
  BY <1>1, <1>2, <1>3, <1>4

Fresh ==
    \A q \in Resolvers :
        /\ resolvers[q].purged \subseteq Purged(ledger)
        /\ resolvers[q].pc = "select" =>
             rows[resolvers[q].profile] \cap resolvers[q].purged \subseteq resolvers[q].revoked
        /\ resolvers[q].pack \cap resolvers[q].purged = {}

LEMMA FreshInit == Init => Fresh
  BY DEF Init, Fresh

LEMMA FreshStep == ASSUME TypeOK, Hidden, Fresh, [Next]_vars PROVE Fresh'
<1>0. /\ rows \in [Profiles -> SUBSET Records]
      /\ resolvers \in [Resolvers -> ResolverState]
      /\ Purged(ledger) \subseteq Purged(ledger')
  BY PurgeTyped, LedgerGrows DEF TypeOK
<1>1. ASSUME resolvers' = resolvers PROVE Fresh'
  <2>1. SUFFICES ASSUME NEW q \in Resolvers, resolvers[q].pc = "select"
                 PROVE  rows'[resolvers[q].profile] \cap resolvers[q].purged
                          \subseteq resolvers[q].revoked
    BY <1>0, <1>1 DEF Fresh
  <2>2. ~Restore /\ resolvers[q].profile \in Profiles
    BY <1>0, <2>1 DEF Restore, ResolverState
  <2> QED
    BY <1>0, <2>1, <2>2, RowsComeClean DEF Fresh
<1>2. ASSUME NEW q \in Resolvers, NEW p \in Profiles, CheckVisible(q, p) PROVE Fresh'
  BY <1>0, <1>2 DEF CheckVisible, Fresh, derived
<1>3. ASSUME NEW q \in Resolvers, Select(q) PROVE Fresh'
  BY <1>0, <1>3 DEF Select, Fresh, derived, ResolverState
<1>4. ASSUME NEW q \in Resolvers, RecordTrace(q) PROVE Fresh'
  BY <1>0, <1>4 DEF RecordTrace, Fresh, ResolverState
<1>5. ASSUME \A q \in Resolvers : ~ResolveStep(q) PROVE resolvers' = resolvers
  BY <1>5 DEF Next, RequestPurge, Resume, ResumePurge, Start, PurgeStep, WriteLedger,
     WriteJournal, SkipStore, PurgeStore, CompactStore, ListTraces, EraseTrace,
     ListObservations, EraseObservation, ListCanonical, EraseCanonical, Finalize, Report,
     EndPurge, FailPurge, BeginBuild, BuildStep, EraseHidden, Wipe, Ingest, EndBuild,
     DeleteSource, Restore, vars
<1> QED
  BY <1>1, <1>2, <1>3, <1>4, <1>5 DEF ResolveStep

\* No resolution delivers what was purged before it began.
THEOREM ResolutionsAreFresh == Spec => []PackIsFresh
<1>1. Fresh => PackIsFresh
  BY DEF Fresh, PackIsFresh
<1> QED
  BY <1>1, InitType, StepType, HiddenInit, HiddenStep, FreshInit, FreshStep, PTL DEF Spec

\* No build brings a purged record back into a store.
THEOREM BuildsRespectPurges == Spec => NeverReingested
<1>1. ASSUME TypeOK, Hidden, [Next]_vars
      PROVE  [\A p \in Profiles : (rows'[p] \ rows[p]) \cap Purged(ledger) # {}
                => budget.restores' # budget.restores]_vars
  <2>1. Restore => budget.restores' # budget.restores
    BY <1>1 DEF Restore, TypeOK
  <2> QED
    BY <1>1, <2>1, RowsComeClean
<1> QED
  BY <1>1, InitType, StepType, HiddenInit, HiddenStep, PTL DEF Spec, NeverReingested

-----------------------------------------------------------------------------
(* A planned trace was written by a resolution that has ended.              *)

Ended(qs) == \A q \in qs : resolvers[q].pc = "done"

Settled ==
    /\ \A q \in Resolvers : traces[q] # {} => resolvers[q].pc = "done"
    /\ Ended(purge.plan.traces)
    /\ \A k \in Keys : Ended(journals[k].traces)

LEMMA SettledInit == Init => Settled
  BY DEF Init, Settled, Ended, NoPlan, NoPurge

LEMMA StartsSettled ==
  ASSUME TypeOK, Settled, NEW pc \in {"ledger"} \union Reports, NEW k \in Keys,
         NEW plan \in Plan, Ended(plan.traces), Start(pc, k, plan)
  PROVE  Settled'
<1>1. purge'.plan = plan
  BY StartTyped
<1>2. UNCHANGED <<journals, resolvers, traces>>
  BY DEF Start, derived
<1> QED
  BY <1>1, <1>2 DEF Settled, Ended

LEMMA SettledStep == ASSUME TypeOK, Settled, [Next]_vars PROVE Settled'
<1>0. /\ purge \in PurgeState /\ journals \in [Keys -> Plan]
      /\ resolvers \in [Resolvers -> ResolverState]
      /\ traces \in [Resolvers -> SUBSET Records]
  BY PurgeTyped DEF TypeOK
<1>1. ASSUME NEW k \in Keys, NEW canon \in BOOLEAN, RequestPurge(k, canon) PROVE Settled'
  <2>1. Ended(PlanOf(k, canon).traces) /\ Ended(NoPlan.traces)
    BY DEF PlanOf, Naming, Ended, Settled, NoPlan
  <2> QED
    BY <1>1, <2>1, PlanTyped, NoneTyped, StartsSettled DEF RequestPurge, Reports
<1>2. ASSUME NEW k \in Keys, Resume(k) PROVE Settled'
  <2>1. PICK canon \in BOOLEAN : ResumePurge(k, canon)
    BY <1>2 DEF Resume
  <2>2. /\ [journals[k] EXCEPT !.canon = @ \/ canon] \in Plan
        /\ [journals[k] EXCEPT !.canon = @ \/ canon].traces = journals[k].traces
    BY <1>0 DEF Plan
  <2> QED
    BY <2>1, <2>2, StartsSettled DEF ResumePurge, Settled
<1>3. ASSUME UNCHANGED resolvers, purge'.plan = purge.plan,
             \A q \in Resolvers : traces'[q] \in {traces[q], {}},
             \/ journals' = journals
             \/ journals' = [journals EXCEPT ![purge.key] = purge.plan]
             \/ journals' = [journals EXCEPT ![purge.key] = NoPlan]
      PROVE  Settled'
  BY <1>0, <1>3 DEF Settled, Ended, NoPlan
<1>4. ASSUME PurgeStep PROVE Settled'
  <2>1. CASE WriteLedger \/ WriteJournal \/ ListTraces \/ ListObservations \/ ListCanonical
             \/ Finalize
    BY <1>0, <1>3, <2>1 DEF WriteLedger, WriteJournal, ListTraces, ListObservations,
                            ListCanonical, Finalize, Goto, At, PurgeState, derived
  <2>2. ASSUME NEW x, SkipStore(x) \/ PurgeStore(x) \/ EraseObservation(x) \/ EraseCanonical(x)
        PROVE  Settled'
    BY <1>0, <1>3, <2>2 DEF SkipStore, PurgeStore, EraseObservation, EraseCanonical, Drop,
                            PurgeState, derived
  <2>3. CASE CompactStore
    BY <1>0, <1>3, <2>3 DEF CompactStore, PurgeState
  <2>4. ASSUME NEW q \in Resolvers, EraseTrace(q) PROVE Settled'
    BY <1>0, <1>3, <2>4 DEF EraseTrace, Drop, PurgeState
  <2>5. CASE Report
    BY <2>5 DEF Report, EndPurge, NoPurge, NoPlan, Settled, Ended, derived
  <2> QED
    BY <1>4, <2>1, <2>2, <2>3, <2>4, <2>5 DEF PurgeStep
<1>5. CASE FailPurge
  BY <1>5 DEF FailPurge, EndPurge, NoPurge, NoPlan, Settled, Ended, derived
<1>6. ASSUME NEW q \in Resolvers, NEW p \in Profiles, CheckVisible(q, p) PROVE Settled'
  <2>1. /\ \A x \in Resolvers : resolvers[x].pc = "done" => resolvers'[x].pc = "done"
        /\ UNCHANGED <<purge, journals, traces>>
    BY <1>0, <1>6 DEF CheckVisible, derived
  <2> QED
    BY <1>0, <2>1 DEF Settled, Ended, PurgeState, Plan
<1>7. ASSUME NEW q \in Resolvers, Select(q) \/ RecordTrace(q) PROVE Settled'
  <2>1. /\ \A x \in Resolvers : resolvers[x].pc = "done" => resolvers'[x].pc = "done"
        /\ \A x \in Resolvers : traces'[x] = traces[x] \/ resolvers'[x].pc = "done"
        /\ UNCHANGED <<purge, journals>>
    BY <1>0, <1>7 DEF Select, RecordTrace, derived, ResolverState
  <2> QED
    BY <1>0, <2>1 DEF Settled, Ended, PurgeState, Plan
<1>8. ASSUME UNCHANGED <<purge, journals, resolvers, traces>> PROVE Settled'
  BY <1>8 DEF Settled, Ended
<1> QED
  BY <1>1, <1>2, <1>4, <1>5, <1>6, <1>7, <1>8
     DEF Next, BeginBuild, BuildStep, EraseHidden, Wipe, Ingest, EndBuild, ResolveStep,
         DeleteSource, Restore, vars, derived

-----------------------------------------------------------------------------
(* What a running purge has already erased stays erased.                    *)

Clean(p) == /\ rows[p] \cap purge.plan.recs = {}
            /\ p \in purge.plan.profiles => bytes[p] \cap purge.plan.recs = {}

Erased ==
    /\ purge.pc \in {"projection", "compact"} => \A p \in Profiles \ purge.todo : Clean(p)
    /\ purge.pc = "compact" => rows[purge.store] \cap purge.plan.recs = {}
    /\ purge.pc \in {"traces", "observations", "canonical", "done"} =>
         \A p \in Profiles : Clean(p)
    /\ purge.pc = "traces" => \A q \in purge.plan.traces \ purge.todo : traces[q] = {}
    /\ purge.pc \in {"observations", "canonical", "done"} =>
         \A q \in purge.plan.traces : traces[q] = {}
    /\ purge.pc = "observations" => observations \cap purge.plan.obs \subseteq purge.todo
    /\ purge.pc \in {"canonical", "done"} => observations \cap purge.plan.obs = {}
    /\ purge.pc = "canonical" /\ purge.plan.canon =>
         canonical \cap purge.plan.recs \subseteq Shared \union purge.todo
    /\ purge.pc = "done" /\ purge.plan.canon => canonical \cap purge.plan.recs \subseteq Shared

LEMMA ErasedInit == Init => Erased
  BY DEF Init, Erased, NoPurge

\* While a purge runs, nothing else undoes its work.
LEMMA ErasedStays ==
  ASSUME Erased, purge' = purge, UNCHANGED <<rows, bytes>>, observations' \subseteq observations,
         canonical' \subseteq canonical,
         \A q \in purge.plan.traces : traces'[q] = traces[q]
  PROVE  Erased'
  BY DEF Erased, Clean

LEMMA ErasedPurgeStep == ASSUME TypeOK, Erased, PurgeStep PROVE Erased'
<1>0. /\ purge \in PurgeState
      /\ rows \in [Profiles -> SUBSET Records] /\ bytes \in [Profiles -> SUBSET Records]
      /\ traces \in [Resolvers -> SUBSET Records]
      /\ purge.plan \in Plan
  BY PurgeTyped DEF TypeOK, PurgeState
<1>1. CASE WriteLedger \/ WriteJournal
  <2>1. /\ purge'.pc \in {"journal", "projection"}
        /\ purge'.pc = "projection" => purge'.todo = Profiles
    BY <1>0, <1>1 DEF WriteLedger, WriteJournal, Goto, PurgeState
  <2> QED
    BY <2>1 DEF Erased
<1>2. ASSUME NEW p \in Profiles, SkipStore(p) PROVE Erased'
  <2>1. /\ purge'.pc = "projection" /\ purge'.todo = purge.todo \ {p}
        /\ purge'.plan = purge.plan /\ purge.pc = "projection"
        /\ UNCHANGED <<rows, bytes>>
    BY <1>0, <1>2 DEF SkipStore, Drop, At, PurgeState, derived
  <2>2. Clean(p)
    BY <1>2 DEF SkipStore, Concerned, Clean
  <2> QED
    BY <2>1, <2>2 DEF Erased, Clean
<1>3. ASSUME NEW p \in Profiles, PurgeStore(p) PROVE Erased'
  <2>1. /\ purge'.pc = "compact" /\ purge'.todo = purge.todo /\ purge'.store = p
        /\ purge'.plan = purge.plan /\ purge.pc = "projection"
        /\ bytes' = bytes /\ rows' = [rows EXCEPT ![p] = @ \ purge.plan.recs]
    BY <1>0, <1>3 DEF PurgeStore, At, PurgeState
  <2> QED
    BY <1>0, <2>1 DEF Erased, Clean
<1>4. CASE CompactStore
  <2>1. /\ purge'.pc = "projection" /\ purge'.todo = purge.todo \ {purge.store}
        /\ purge'.plan = purge.plan /\ purge.pc = "compact" /\ purge.store \in Profiles
        /\ rows' = rows /\ bytes' = [bytes EXCEPT ![purge.store] = rows[purge.store]]
    BY <1>0, <1>4 DEF CompactStore, At, PurgeState
  <2> QED
    BY <1>0, <2>1 DEF Erased, Clean
<1>5. CASE ListTraces
  <2>1. /\ purge'.pc = "traces" /\ purge.pc = "projection" /\ purge.todo = {}
        /\ purge'.plan = purge.plan /\ purge.plan.traces \subseteq purge'.todo
        /\ UNCHANGED <<rows, bytes>>
    BY <1>0, <1>5 DEF ListTraces, Goto, At, PurgeState, derived
  <2> QED
    BY <2>1 DEF Erased, Clean
<1>6. ASSUME NEW q \in Resolvers, EraseTrace(q) PROVE Erased'
  <2>1. /\ purge'.pc = "traces" /\ purge.pc = "traces" /\ purge'.todo = purge.todo \ {q}
        /\ purge'.plan = purge.plan /\ UNCHANGED <<rows, bytes>>
        /\ traces' = [traces EXCEPT ![q] = {}]
    BY <1>0, <1>6 DEF EraseTrace, Drop, At, PurgeState
  <2> QED
    BY <1>0, <2>1 DEF Erased, Clean, Plan
<1>7. CASE ListObservations
  <2>1. /\ purge'.pc = "observations" /\ purge.pc = "traces" /\ purge.todo = {}
        /\ purge'.plan = purge.plan /\ purge'.todo = purge.plan.obs
        /\ UNCHANGED <<rows, bytes, traces, observations>>
    BY <1>0, <1>7 DEF ListObservations, Goto, At, PurgeState, derived
  <2> QED
    BY <2>1 DEF Erased, Clean
<1>8. ASSUME NEW o \in Observations, EraseObservation(o) PROVE Erased'
  <2>1. /\ purge'.pc = "observations" /\ purge.pc = "observations"
        /\ purge'.todo = purge.todo \ {o} /\ purge'.plan = purge.plan
        /\ observations' = observations \ {o} /\ UNCHANGED <<rows, bytes, traces>>
    BY <1>0, <1>8 DEF EraseObservation, Drop, At, PurgeState
  <2> QED
    BY <2>1 DEF Erased, Clean
<1>9. CASE ListCanonical
  <2>1. /\ purge'.pc = "canonical" /\ purge.pc = "observations" /\ purge.todo = {}
        /\ purge'.plan = purge.plan
        /\ purge.plan.canon => purge'.todo = purge.plan.recs
        /\ UNCHANGED <<rows, bytes, traces, observations, canonical>>
    BY <1>0, <1>9 DEF ListCanonical, Goto, At, PurgeState, derived
  <2> QED
    BY <2>1 DEF Erased, Clean
<1>10. ASSUME NEW r \in Records, EraseCanonical(r) PROVE Erased'
  <2>1. /\ purge'.pc = "canonical" /\ purge.pc = "canonical"
        /\ purge'.todo = purge.todo \ {r} /\ purge'.plan = purge.plan
        /\ canonical' = canonical \ ({r} \ Shared)
        /\ UNCHANGED <<rows, bytes, traces, observations>>
    BY <1>0, <1>10 DEF EraseCanonical, Drop, At, PurgeState
  <2> QED
    BY <2>1 DEF Erased, Clean
<1>11. CASE Finalize
  <2>1. /\ purge'.pc = "done" /\ purge.pc = "canonical" /\ purge.todo = {}
        /\ purge'.plan = purge.plan
        /\ UNCHANGED <<rows, bytes, traces, observations, canonical>>
    BY <1>0, <1>11 DEF Finalize, Goto, At, PurgeState, derived
  <2> QED
    BY <2>1 DEF Erased, Clean
<1>12. CASE Report
  BY <1>12 DEF Report, EndPurge, NoPurge, Erased
<1> QED
  BY <1>1, <1>2, <1>3, <1>4, <1>5, <1>6, <1>7, <1>8, <1>9, <1>10, <1>11, <1>12
     DEF PurgeStep

LEMMA ErasedStep == ASSUME TypeOK, Settled, Erased, [Next]_vars PROVE Erased'
<1>0. /\ purge \in PurgeState /\ build \in BuildState
      /\ lock = "purge" <=> purge.pc # "idle"
      /\ lock = "build" <=> build.pc # "idle"
  BY PurgeTyped DEF TypeOK
<1>1. ASSUME NEW pc \in {"ledger", "already", "unknown"}, NEW k, NEW plan, Start(pc, k, plan)
      PROVE  Erased'
  <2>1. purge'.pc = pc
    BY <1>0, <1>1 DEF Start, PurgeState
  <2> QED
    BY <2>1 DEF Erased
<1>2. ASSUME purge' = purge, purge.pc = "idle" PROVE Erased'
  BY <1>2 DEF Erased
<1>3. CASE FailPurge
  BY <1>3 DEF FailPurge, EndPurge, NoPurge, Erased
<1>4. ASSUME NEW q \in Resolvers, NEW p \in Profiles, CheckVisible(q, p) PROVE Erased'
  BY <1>4, ErasedStays DEF CheckVisible, derived
<1>5. ASSUME NEW q \in Resolvers, Select(q) PROVE Erased'
  BY <1>5, ErasedStays DEF Select, derived
<1>6. ASSUME NEW q \in Resolvers, RecordTrace(q) PROVE Erased'
  <2>1. q \notin purge.plan.traces
    BY <1>6 DEF RecordTrace, Settled, Ended
  <2>2. \A x \in purge.plan.traces : traces'[x] = traces[x]
    BY <1>0, <1>6, <2>1 DEF RecordTrace, TypeOK, PurgeState, Plan
  <2> QED
    BY <1>6, <2>2, ErasedStays DEF RecordTrace
<1>7. ASSUME NEW r \in Records, DeleteSource(r) PROVE Erased'
  BY <1>7, ErasedStays DEF DeleteSource
<1>8. CASE UNCHANGED vars
  BY <1>8, ErasedStays DEF vars, derived
<1>9. ASSUME NEW k \in Keys, Resume(k) \/ \E canon \in BOOLEAN : RequestPurge(k, canon)
      PROVE  Erased'
  BY <1>1, <1>9 DEF Resume, ResumePurge, RequestPurge
<1>10. ASSUME BuildStep \/ Restore \/ \E p \in Profiles : BeginBuild(p) PROVE Erased'
  BY <1>0, <1>2, <1>10 DEF BuildStep, EraseHidden, Wipe, Ingest, EndBuild, Restore, BeginBuild
<1> QED
  BY <1>3, <1>4, <1>5, <1>6, <1>7, <1>8, <1>9, <1>10, ErasedPurgeStep DEF Next, ResolveStep

\* A purge that reports success left nothing of its plan, however often it was
\* interrupted and whatever ran in between.
THEOREM SuccessMeansErased == Spec => []ErasedWhenDone
<1>1. TypeOK /\ Erased => ErasedWhenDone
  BY DEF TypeOK, Plan, Erased, Clean, ErasedWhenDone
<1> QED
  BY <1>1, InitType, StepType, SettledInit, SettledStep, ErasedInit, ErasedStep, PTL
     DEF Spec

=============================================================================
