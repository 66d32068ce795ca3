---------------------------- MODULE PhysicalPurge ----------------------------
(***************************************************************************)
(* Physical purge (internal/app/purge.go) beside the operations it has to  *)
(* agree with: builds, which ingest the registered sources again, and      *)
(* resolutions, which read without the maintenance lock and persist traces *)
(* naming the records they found.                                          *)
(*                                                                         *)
(* A purge writes the ledger, then a journal of what it will delete, then  *)
(* deletes item by item; it may stop anywhere and be run again.  The       *)
(* operator may delete source files and restore the data directory.  The   *)
(* ledger is taken to load (TombstoneLedger); it is one atomic value here. *)
(***************************************************************************)
EXTENDS Naturals

CONSTANTS
    Records, Profiles, Observations, Resolvers,
    Keys,         \* what a purge may be asked for: a record or a source
    SourceKeys,   \* the keys that name a source
    Covers,       \* the records each key stands for
    Eligible,     \* the records whose source is registered for a profile
    Restates,     \* the records each observation restates
    Shared,       \* records whose file has other links, or left its root
    MaxRequests,  \* bounds: fresh purge requests, interrupted runs, builds,
    MaxFailures, MaxBuilds, MaxRestores   \* and restored data directories

ASSUME PurgeAssumption ==
    /\ SourceKeys \subseteq Keys
    /\ Covers \in [Keys -> SUBSET Records]
    /\ Eligible \in [Profiles -> SUBSET Records]
    /\ Restates \in [Observations -> SUBSET Records]
    /\ Shared \subseteq Records
    /\ Keys # {} /\ Profiles # {}
    /\ MaxRequests \in Nat /\ MaxFailures \in Nat
    /\ MaxBuilds \in Nat /\ MaxRestores \in Nat

VARIABLES
    ledger,       \* keyed fingerprints: purge keys, records, observations
    journals,     \* the pending plan of each key, or NoPlan
    rows, bytes,  \* per profile: stored records, and what the file still holds
    observations, \* observation files
    canonical,    \* source files
    traces,       \* the records each resolver's persisted trace names
    lock,         \* the maintenance lock
    purge,        \* the running purge
    build,        \* the running build
    resolvers,    \* the resolutions
    begun,        \* history: per key, the plan of an unfinished purge
    budget        \* what the bounds leave

derived == <<rows, bytes, observations, canonical, traces>>
vars == <<ledger, journals, derived, lock, purge, build, resolvers, begun, budget>>

Plan == [canon : BOOLEAN, recs : SUBSET Records, profiles : SUBSET Profiles,
         traces : SUBSET Resolvers, obs : SUBSET Observations]
NoPlan == [canon |-> FALSE, recs |-> {}, profiles |-> {}, traces |-> {}, obs |-> {}]

Ledger == [keys : SUBSET Keys, recs : SUBSET Records, obs : SUBSET Observations]
NoLedger == [keys |-> {}, recs |-> {}, obs |-> {}]

\* Ledger.Purged: by its own identity, or because its source was purged.
Purged(l) == l.recs \union UNION {Covers[k] : k \in l.keys \cap SourceKeys}

\* The trace files that name one of these records.
Naming(recs) == {q \in Resolvers : traces[q] \cap recs # {}}

Stored(k) == UNION {rows[p] : p \in Profiles} \cap Covers[k]

NoPurge == [pc |-> "idle", key |-> CHOOSE k \in Keys : TRUE, plan |-> NoPlan,
            todo |-> {}, store |-> CHOOSE p \in Profiles : TRUE]
NoBuild == [pc |-> "idle", profile |-> CHOOSE p \in Profiles : TRUE, ledger |-> NoLedger]

\* A built deployment.
Init ==
    /\ ledger = NoLedger /\ journals = [k \in Keys |-> NoPlan]
    /\ canonical = Records /\ rows = Eligible /\ bytes = Eligible
    /\ observations = Observations /\ traces = [q \in Resolvers |-> {}]
    /\ lock = "free"
    /\ purge = NoPurge /\ build = NoBuild
    /\ resolvers = [q \in Resolvers |-> [pc |-> "start", profile |-> NoBuild.profile,
                                         revoked |-> {}, purged |-> {}, pack |-> {}]]
    /\ begun = [k \in Keys |-> NoPlan]
    /\ budget = [requests |-> MaxRequests, failures |-> MaxFailures,
                 builds |-> MaxBuilds, restores |-> MaxRestores]

-----------------------------------------------------------------------------
(* PhysicalPurge, from the lock to the report.                             *)

Start(pc, k, plan) ==
    /\ purge' = [purge EXCEPT !.pc = pc, !.key = k, !.plan = plan]
    /\ lock' = "purge"
    /\ UNCHANGED <<ledger, journals, derived, build, resolvers, begun>>

\* planPurge: what the stores, traces and observations hold of the key now.
PlanOf(k, canon) ==
    [canon |-> canon, recs |-> Stored(k),
     profiles |-> {p \in Profiles : rows[p] \cap Stored(k) # {}},
     traces |-> Naming(Stored(k)),
     obs |-> {o \in observations : Restates[o] \cap Stored(k) # {}}]

\* A fresh request.  Nothing stored: the key was purged, or never existed.
RequestPurge(k, canon) ==
    /\ lock = "free" /\ journals[k] = NoPlan /\ budget.requests > 0
    /\ budget' = [budget EXCEPT !.requests = @ - 1]
    /\ \/ Stored(k) # {} /\ Start("ledger", k, PlanOf(k, canon))
       \/ Stored(k) = {} /\ k \in ledger.keys /\ Start("already", k, NoPlan)
       \/ Stored(k) = {} /\ k \notin ledger.keys /\ Start("unknown", k, NoPlan)

\* Variant: a run always plans anew.
PlanAgain(k, canon) ==
    /\ lock = "free" /\ journals[k] # NoPlan
    /\ IF Stored(k) # {} THEN Start("ledger", k, PlanOf(k, canon))
       ELSE Start("already", k, NoPlan)
    /\ UNCHANGED budget

\* A journal is there: the interrupted purge goes on with its plan.
ResumePurge(k, canon) ==
    /\ lock = "free" /\ journals[k] # NoPlan
    /\ Start("ledger", k, [journals[k] EXCEPT !.canon = @ \/ canon])
    /\ UNCHANGED budget

At(pc)          == purge.pc = pc
Goto(pc, items) == purge' = [purge EXCEPT !.pc = pc, !.todo = items]
Drop(item)      == purge' = [purge EXCEPT !.todo = @ \ {item}]

NewLedger == [keys |-> ledger.keys \union {purge.key},
              recs |-> ledger.recs \union purge.plan.recs,
              obs  |-> ledger.obs \union purge.plan.obs]

WriteLedger ==
    /\ At("ledger") /\ Goto("journal", {})
    /\ ledger' = NewLedger
    /\ begun' = [begun EXCEPT ![purge.key] = purge.plan]
    /\ UNCHANGED <<journals, derived, lock, build, resolvers, budget>>

WriteJournal ==
    /\ At("journal") /\ Goto("projection", Profiles)
    /\ journals' = [journals EXCEPT ![purge.key] = purge.plan]
    /\ UNCHANGED <<ledger, derived, lock, build, resolvers, begun, budget>>

\* Variant: a store is worked on only while it holds a record.
HoldsNow(p) == rows[p] \cap purge.plan.recs # {}
\* A store is worked on if it holds a record, or held one at planning.
Concerned(p) == rows[p] \cap purge.plan.recs # {} \/ p \in purge.plan.profiles

SkipStore(p) ==
    /\ At("projection") /\ p \in purge.todo /\ ~Concerned(p)
    /\ Drop(p)
    /\ UNCHANGED <<ledger, journals, derived, lock, build, resolvers, begun, budget>>

\* PurgeRecords deletes the rows in one transaction; their bytes stay in the
\* search index and the write-ahead log until the store is compacted.
PurgeStore(p) ==
    /\ At("projection") /\ p \in purge.todo /\ Concerned(p)
    /\ rows' = [rows EXCEPT ![p] = @ \ purge.plan.recs]
    /\ purge' = [purge EXCEPT !.pc = "compact", !.store = p]
    /\ UNCHANGED <<ledger, journals, bytes, observations, canonical, traces, lock,
                   build, resolvers, begun, budget>>

CompactStore ==
    /\ At("compact")
    /\ bytes' = [bytes EXCEPT ![purge.store] = rows[purge.store]]
    /\ purge' = [purge EXCEPT !.pc = "projection", !.todo = @ \ {purge.store}]
    /\ UNCHANGED <<ledger, journals, rows, observations, canonical, traces, lock,
                   build, resolvers, begun, budget>>

\* The planned traces and those that name a record by now.
ListTraces ==
    /\ At("projection") /\ purge.todo = {}
    /\ Goto("traces", purge.plan.traces \union Naming(purge.plan.recs))
    /\ UNCHANGED <<ledger, journals, derived, lock, build, resolvers, begun, budget>>

EraseTrace(q) ==
    /\ At("traces") /\ q \in purge.todo /\ Drop(q)
    /\ traces' = [traces EXCEPT ![q] = {}]
    /\ UNCHANGED <<ledger, journals, rows, bytes, observations, canonical, lock,
                   build, resolvers, begun, budget>>

ListObservations ==
    /\ At("traces") /\ purge.todo = {} /\ Goto("observations", purge.plan.obs)
    /\ UNCHANGED <<ledger, journals, derived, lock, build, resolvers, begun, budget>>

EraseObservation(o) ==
    /\ At("observations") /\ o \in purge.todo /\ Drop(o)
    /\ observations' = observations \ {o}
    /\ UNCHANGED <<ledger, journals, rows, bytes, canonical, traces, lock, build,
                   resolvers, begun, budget>>

ListCanonical ==
    /\ At("observations") /\ purge.todo = {}
    /\ Goto("canonical", IF purge.plan.canon THEN purge.plan.recs ELSE {})
    /\ UNCHANGED <<ledger, journals, derived, lock, build, resolvers, begun, budget>>

\* A file with other links or outside its root is reported, not erased.
EraseCanonical(r) ==
    /\ At("canonical") /\ r \in purge.todo /\ Drop(r)
    /\ canonical' = canonical \ ({r} \ Shared)
    /\ UNCHANGED <<ledger, journals, rows, bytes, observations, traces, lock, build,
                   resolvers, begun, budget>>

Finalize ==
    /\ At("canonical") /\ purge.todo = {} /\ Goto("done", {})
    /\ journals' = [journals EXCEPT ![purge.key] = NoPlan]
    /\ begun' = [begun EXCEPT ![purge.key] = NoPlan]
    /\ UNCHANGED <<ledger, derived, lock, build, resolvers, budget>>

Reports == {"done", "already", "unknown"}

EndPurge ==
    /\ purge' = NoPurge /\ lock' = "free"
    /\ UNCHANGED <<ledger, journals, derived, build, resolvers, begun>>

Report == purge.pc \in Reports /\ EndPurge /\ UNCHANGED budget

\* A crash or an error that is returned: the lock is released.
FailPurge ==
    /\ purge.pc \notin Reports \union {"idle"} /\ budget.failures > 0
    /\ budget' = [budget EXCEPT !.failures = @ - 1]
    /\ EndPurge

-----------------------------------------------------------------------------
(* BuildProfile, under the same lock.                                      *)

BuildTo(pc) == build' = [build EXCEPT !.pc = pc]

\* Variant: a build does not wait for the lock.
BeginUnlocked(p) ==
    /\ build.pc = "idle" /\ budget.builds > 0
    /\ budget' = [budget EXCEPT !.builds = @ - 1]
    /\ build' = [pc |-> "hidden", profile |-> p, ledger |-> ledger]
    /\ UNCHANGED <<ledger, journals, derived, lock, purge, resolvers, begun>>

BeginBuild(p) ==
    /\ lock = "free" /\ lock' = "build" /\ budget.builds > 0
    /\ budget' = [budget EXCEPT !.builds = @ - 1]
    /\ build' = [pc |-> "hidden", profile |-> p, ledger |-> ledger]
    /\ UNCHANGED <<ledger, journals, derived, purge, resolvers, begun>>

EraseHidden ==
    /\ build.pc = "hidden" /\ BuildTo("wipe")
    /\ observations' = observations \ build.ledger.obs
    /\ UNCHANGED <<ledger, journals, rows, bytes, canonical, traces, lock, purge,
                   resolvers, begun, budget>>

\* Wipe deletes every row; the freed pages keep their bytes.
Wipe ==
    /\ build.pc = "wipe" /\ BuildTo("ingest")
    /\ rows' = [rows EXCEPT ![build.profile] = {}]
    /\ UNCHANGED <<ledger, journals, bytes, observations, canonical, traces, lock,
                   purge, resolvers, begun, budget>>

\* The registered sources contribute what they still hold and the ledger lets
\* through; a source that cannot be read contributes nothing.
Ingest ==
    /\ build.pc = "ingest" /\ BuildTo("end")
    /\ \E new \in SUBSET ((canonical \cap Eligible[build.profile]) \ Purged(build.ledger)) :
         /\ rows' = [rows EXCEPT ![build.profile] = new]
         /\ bytes' = [bytes EXCEPT ![build.profile] = @ \union new]
    /\ UNCHANGED <<ledger, journals, observations, canonical, traces, lock, purge,
                   resolvers, begun, budget>>

\* The build returns, or fails on the way.
EndBuild ==
    /\ build.pc # "idle" /\ build' = NoBuild /\ lock' = "free"
    /\ UNCHANGED <<ledger, journals, derived, purge, resolvers, begun, budget>>

-----------------------------------------------------------------------------
(* Session.Resolve, without the lock.                                      *)

\* Variant: only records purged by their own identity are revoked.
CheckOwnIdentity(q, p) ==
    /\ resolvers[q].pc = "start"
    /\ resolvers' = [resolvers EXCEPT ![q] =
                       [pc |-> "select", profile |-> p, revoked |-> rows[p] \cap ledger.recs,
                        purged |-> Purged(ledger), pack |-> {}]]
    /\ UNCHANGED <<ledger, journals, derived, lock, purge, build, begun, budget>>

\* EffectiveRevoked: the stored records the ledger hides.
CheckVisible(q, p) ==
    /\ resolvers[q].pc = "start"
    /\ resolvers' = [resolvers EXCEPT ![q] =
                       [pc |-> "select", profile |-> p, revoked |-> rows[p] \cap Purged(ledger),
                        purged |-> Purged(ledger), pack |-> {}]]
    /\ UNCHANGED <<ledger, journals, derived, lock, purge, build, begun, budget>>

Select(q) ==
    /\ resolvers[q].pc = "select"
    /\ resolvers' = [resolvers EXCEPT ![q].pc = "record", ![q].revoked = {},
                         ![q].pack = rows[resolvers[q].profile] \ resolvers[q].revoked]
    /\ UNCHANGED <<ledger, journals, derived, lock, purge, build, begun, budget>>

\* The trace of the pack; the cache may refuse it.
RecordTrace(q) ==
    /\ resolvers[q].pc = "record"
    /\ resolvers' = [resolvers EXCEPT ![q].pc = "done"]
    /\ traces' \in {traces, [traces EXCEPT ![q] = resolvers[q].pack]}
    /\ UNCHANGED <<ledger, journals, rows, bytes, observations, canonical, lock, purge,
                   build, begun, budget>>

-----------------------------------------------------------------------------
(* The operator.                                                           *)

DeleteSource(r) ==
    /\ r \in canonical /\ canonical' = canonical \ {r}
    /\ UNCHANGED <<ledger, journals, rows, bytes, observations, traces, lock, purge,
                   build, resolvers, begun, budget>>

\* The first backup of the data directory comes back, with nothing running.
Restore ==
    /\ lock = "free" /\ budget.restores > 0
    /\ \A q \in Resolvers : resolvers[q].pc \in {"start", "done"}
    /\ budget' = [budget EXCEPT !.restores = @ - 1]
    /\ rows' = Eligible /\ bytes' = Eligible /\ observations' = Observations
    /\ UNCHANGED <<ledger, journals, canonical, traces, lock, purge, build, resolvers,
                   begun>>

-----------------------------------------------------------------------------
PurgeStep ==
    \/ WriteLedger \/ WriteJournal
    \/ \E p \in Profiles : SkipStore(p) \/ PurgeStore(p)
    \/ CompactStore
    \/ ListTraces \/ \E q \in Resolvers : EraseTrace(q)
    \/ ListObservations \/ \E o \in Observations : EraseObservation(o)
    \/ ListCanonical \/ \E r \in Records : EraseCanonical(r)
    \/ Finalize \/ Report

Resume(k) == \E canon \in BOOLEAN : ResumePurge(k, canon)

BuildStep == EraseHidden \/ Wipe \/ Ingest \/ EndBuild

ResolveStep(q) ==
    \/ \E p \in Profiles : CheckVisible(q, p)
    \/ Select(q) \/ RecordTrace(q)

Next ==
    \/ \E k \in Keys : Resume(k) \/ \E canon \in BOOLEAN : RequestPurge(k, canon)
    \/ PurgeStep \/ FailPurge
    \/ \E p \in Profiles : BeginBuild(p)
    \/ BuildStep
    \/ \E q \in Resolvers : ResolveStep(q)
    \/ \E r \in Records : DeleteSource(r)
    \/ Restore

Spec == Init /\ [][Next]_vars

\* The running operation goes on, and the operator runs an interrupted purge
\* again.
FairSpec == Spec /\ WF_vars(PurgeStep) /\ WF_vars(BuildStep)
                 /\ \A k \in Keys : WF_vars(Resume(k))

-----------------------------------------------------------------------------
\* Every variable has its type, and the lock is held by what runs.
TypeOK ==
    /\ ledger \in Ledger /\ journals \in [Keys -> Plan]
    /\ rows \in [Profiles -> SUBSET Records] /\ bytes \in [Profiles -> SUBSET Records]
    /\ observations \in SUBSET Observations /\ canonical \in SUBSET Records
    /\ traces \in [Resolvers -> SUBSET Records]
    /\ lock \in {"free", "purge", "build"}
    /\ purge \in [pc : {"idle", "ledger", "journal", "projection", "compact", "traces",
                       "observations", "canonical"} \union Reports,
                 key : Keys, plan : Plan, store : Profiles,
                 todo : SUBSET (Profiles \union Resolvers \union Observations \union Records)]
    /\ build \in [pc : {"idle", "hidden", "wipe", "ingest", "end"}, profile : Profiles,
                  ledger : Ledger]
    /\ resolvers \in [Resolvers ->
                        [pc : {"start", "select", "record", "done"}, profile : Profiles,
                         revoked : SUBSET Records, purged : SUBSET Records,
                         pack : SUBSET Records]]
    /\ begun \in [Keys -> Plan]
    /\ budget \in [requests : Nat, failures : Nat, builds : Nat, restores : Nat]
    /\ lock = "purge" <=> purge.pc # "idle"
    /\ lock = "build" <=> build.pc # "idle"

\* A purge that reports success, however often it was interrupted and whatever
\* ran in between, left nothing of its plan: no row, no byte in a store that
\* held one, no planned trace or observation, no source file it was to remove.
ErasedWhenDone ==
    purge.pc = "done" =>
        LET plan == purge.plan IN
        /\ \A p \in Profiles : rows[p] \cap plan.recs = {}
        /\ \A p \in plan.profiles : bytes[p] \cap plan.recs = {}
        /\ \A q \in plan.traces : traces[q] = {}
        /\ observations \cap plan.obs = {}
        /\ plan.canon => canonical \cap plan.recs \subseteq Shared

\* What a pending journal lists is hidden already: nothing is erased before
\* the ledger blocks its return.
PlanIsEnforced ==
    \A k \in Keys : journals[k].recs \subseteq Purged(ledger) /\ journals[k].obs \subseteq ledger.obs

\* A resolution never delivers what was purged before it began, restored
\* backups and concurrent builds and purges included.
PackIsFresh == \A q \in Resolvers : resolvers[q].pack \cap resolvers[q].purged = {}

\* No build brings a purged record back into a store.
NeverReingested ==
    [][\A p \in Profiles :
          (rows'[p] \ rows[p]) \cap Purged(ledger) # {} => budget.restores' # budget.restores]_vars

\* An interrupted purge that is run again comes to its end.
PendingPurgesEnd == \A k \in Keys : journals[k] # NoPlan ~> journals[k] = NoPlan

\* A key reported as already purged has nothing of its plan left to erase.
AlreadyMeansErased ==
    purge.pc = "already" =>
        LET plan == begun[purge.key] IN
        /\ \A q \in plan.traces : traces[q] = {}
        /\ plan.canon => canonical \cap plan.recs \subseteq Shared

=============================================================================
