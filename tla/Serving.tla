-------------------------------- MODULE Serving --------------------------------
(* One profile's projection store while it is served: builds, forgets and    *)
(* purges of the operator's commands (internal/app/app.go, purge.go), and    *)
(* the calls of an MCP server on the same store (cmd/beme/mcp.go): resolve,   *)
(* status, get_context_item, the evaluation inputs, and beside them export   *)
(* and explain (internal/app/visibility.go, expand.go, health.go, trace.go). *)
(*                                                                           *)
(* Commands hold the maintenance lock; calls take none and read the ledger,  *)
(* the store and its metadata one after the other. A source holds one        *)
(* document, and its version stands for the text. What a purge plans and      *)
(* erases is PhysicalPurge's; what a pack selects is Resolution's.           *)
EXTENDS Naturals, FiniteSets, SequencesExt

CONSTANTS
    SourceOrder,    \* the registered sources, in order
    MaxVersion,
    Scoped,         \* the sources whose records belong to another workspace
    Synthetic,      \* those marked synthetic and public
    Calls, Operations,
    MaxIssued,      \* maxIssuedPacks
    MaxTraces,      \* maxRetainedTraces
    Editable,       \* the sources the operator touches in the instance
    MaxPacks, MaxBuilds, MaxEdits, MaxFaults, MaxRemovals,   \* bounds of the instance
    NoReport, Nothing

SourceIds == Range(SourceOrder)

ASSUME ServingAssumption ==
    /\ MaxIssued \in Nat \ {0} /\ MaxTraces \in Nat \ {0}
    /\ MaxVersion \in Nat \ {0}
    /\ SourceOrder \in Seq(SourceIds) /\ Editable \subseteq SourceIds

VARIABLES
    documents,  \* the version each source holds, 0 when it cannot be walked
    ledger,     \* [revoked, purged], the durable ledger
    proj,       \* [ok, rows, tombs, gen, failed, torn]
    copy,       \* a backup of the store, from before anything here happens
    job,        \* the command that holds the maintenance lock
    attached,   \* the server's handle is on the store's file
    issued,     \* [packs, order], the session's registry
    traces,     \* the trace files, oldest first
    calls,
    spent       \* how much of each bound is used

servingVars == <<documents, ledger, proj, copy, job, attached, issued, traces, calls, spent>>

Empty   == [ok |-> TRUE, rows |-> [s \in SourceIds |-> 0], tombs |-> {}, gen |-> 0,
            failed |-> NoReport, torn |-> FALSE]
\* The store after a build of the documents as they are at first.
Built   == [Empty EXCEPT !.rows = [s \in SourceIds |-> 1], !.gen = 1, !.failed = {}]
NoJob   == [kind |-> "none", at |-> "none", key |-> Nothing, todo |-> <<>>, failed |-> {}]
NoCall  == [op |-> "none", at |-> "idle", gate |-> {}, notices |-> {}, text |-> <<>>, gen |-> 0,
            arms |-> {}, pack |-> 0, wanted |-> Nothing, traced |-> TRUE, gone |-> {}, calm |-> TRUE]

ServingInit ==
    /\ documents = [s \in SourceIds |-> 1] /\ proj \in {Empty, Built} /\ copy = proj
    /\ ledger = [revoked |-> {}, purged |-> {}] /\ job = NoJob /\ attached = TRUE
    /\ issued = [packs |-> <<>>, order |-> <<>>] /\ traces = <<>>
    /\ calls = [c \in Calls |-> NoCall]
    /\ spent = [packs |-> 0, builds |-> 0, edits |-> 0, faults |-> 0, removals |-> 0]

Spend(what) == spent' = [spent EXCEPT ![what] = @ + 1]

\* Ghost: calls that a build, a restore or a fault ran into are no longer calm.
Disturbed == [c \in Calls |-> IF calls[c].at = "idle" THEN calls[c]
                                                     ELSE [calls[c] EXCEPT !.calm = FALSE]]

------------------------------------------------------------------------------
(* The operator's commands *)

\* A document is edited, or can no longer be walked, or can again.
Edit(s, v) ==
    /\ spent.edits < MaxEdits /\ documents[s] # v
    /\ documents' = [documents EXCEPT ![s] = v] /\ Spend("edits")
    /\ UNCHANGED <<ledger, proj, copy, job, attached, issued, traces, calls>>

\* BuildProfile: the lock, and a new file for a store that cannot be opened.
BeginBuild ==
    /\ job.kind = "none" /\ spent.builds < MaxBuilds
    /\ job' = [NoJob EXCEPT !.kind = "build", !.at = "wipe", !.todo = SourceOrder]
    /\ proj' = IF proj.ok THEN proj ELSE Empty
    /\ attached' = (attached /\ proj.ok)
    /\ calls' = Disturbed /\ Spend("builds")
    /\ UNCHANGED <<documents, ledger, copy, issued, traces>>

\* Store.Wipe: rows and provenance, not metadata or tombstones.
Wipe ==
    /\ job.at = "wipe"
    /\ proj' = [proj EXCEPT !.rows = Empty.rows, !.torn = TRUE]
    /\ job' = [job EXCEPT !.at = "ingest"]
    /\ UNCHANGED <<documents, ledger, copy, attached, issued, traces, calls, spent>>

\* One registered source: a failure, a purged record, or its transaction.
IngestNext ==
    /\ job.at = "ingest" /\ job.todo # <<>>
    /\ LET s == Head(job.todo) IN
       /\ job' = [job EXCEPT !.todo = Tail(@), !.failed = IF documents[s] = 0 THEN @ \cup {s} ELSE @]
       /\ proj' = IF s \in ledger.purged THEN proj ELSE [proj EXCEPT !.rows[s] = documents[s]]
    /\ UNCHANGED <<documents, ledger, copy, attached, issued, traces, calls, spent>>

\* SetMeta build_generation: a token no build used before.
Publish ==
    /\ job.at = "ingest" /\ job.todo = <<>>
    /\ proj' = [proj EXCEPT !.gen = spent.builds + 1]
    /\ job' = [job EXCEPT !.at = "report"]
    /\ UNCHANGED <<documents, ledger, copy, attached, issued, traces, calls, spent>>

\* Variant: the failures of a build are counted but not written.
ReportNothing ==
    /\ job.at = "report"
    /\ proj' = [proj EXCEPT !.failed = {}, !.torn = FALSE]
    /\ job' = NoJob
    /\ UNCHANGED <<documents, ledger, copy, attached, issued, traces, calls, spent>>

\* SetMeta build_source_failures, and the lock is released.
Report ==
    /\ job.at = "report"
    /\ proj' = [proj EXCEPT !.failed = job.failed, !.torn = FALSE]
    /\ job' = NoJob
    /\ UNCHANGED <<documents, ledger, copy, attached, issued, traces, calls, spent>>

\* Forget and PhysicalPurge save the ledger before they touch the store.
SaveLedger(kind, s) ==
    /\ job.kind = "none" /\ spent.removals < MaxRemovals
    /\ s \notin (IF kind = "forget" THEN ledger.revoked ELSE ledger.purged)
    /\ ledger' = IF kind = "forget" THEN [ledger EXCEPT !.revoked = @ \cup {s}]
                                    ELSE [ledger EXCEPT !.purged = @ \cup {s}]
    /\ job' = [NoJob EXCEPT !.kind = kind, !.at = "store", !.key = s] /\ Spend("removals")
    /\ UNCHANGED <<documents, proj, copy, attached, issued, traces, calls>>

Tombstone(key) == [proj EXCEPT !.tombs = @ \cup {key}]

\* The row, its index and provenance, and the plain tombstone go together.
PurgeRecords(key) == [proj EXCEPT !.rows[key] = 0, !.tombs = @ \ {key}]

\* The second half of Forget, and the projection step of a purge; a store
\* that cannot be opened ends the command with an error.
ApplyToStore ==
    /\ job.at = "store"
    /\ proj' = IF ~proj.ok THEN proj
               ELSE IF job.kind = "forget" THEN Tombstone(job.key)
               ELSE PurgeRecords(job.key)
    /\ job' = NoJob
    /\ UNCHANGED <<documents, ledger, copy, attached, issued, traces, calls, spent>>

\* The command dies or returns an error; the lock goes with the process.
Die ==
    /\ job.kind # "none" /\ spent.faults < MaxFaults
    /\ job' = NoJob /\ Spend("faults")
    /\ UNCHANGED <<documents, ledger, proj, copy, attached, issued, traces, calls>>

------------------------------------------------------------------------------
(* The data directory from outside *)

\* The store's file becomes unreadable: every read of it fails from here.
Corrupt ==
    /\ spent.faults < MaxFaults /\ proj.ok /\ job.kind = "none"
    /\ proj' = [proj EXCEPT !.ok = FALSE]
    /\ calls' = Disturbed /\ Spend("faults")
    /\ UNCHANGED <<documents, ledger, copy, job, attached, issued, traces>>

\* The backup takes the place of the store; the ledger is not in it.
Restore ==
    /\ job.kind = "none" /\ spent.faults < MaxFaults /\ proj # copy
    /\ proj' = copy /\ attached' = FALSE
    /\ calls' = Disturbed /\ Spend("faults")
    /\ UNCHANGED <<documents, ledger, copy, job, issued, traces>>

\* Serve: a new server process, with an empty registry.
Reopen ==
    /\ ~attached /\ proj.ok /\ \A c \in Calls : calls[c].at = "idle"
    /\ attached' = TRUE /\ issued' = [packs |-> <<>>, order |-> <<>>]
    /\ UNCHANGED <<documents, ledger, proj, copy, job, traces, calls, spent>>

------------------------------------------------------------------------------
(* What a call reads *)

Reachable == proj.ok /\ attached

\* Variant: the tombstones of the store alone.
RevokedInStore == proj.tombs

\* loadVisibility, and the records that are not visible under it.
Revoked == ledger.revoked \cup proj.tombs
Hidden  == Revoked \cup ledger.purged
Rows    == {s \in SourceIds : proj.rows[s] # 0}

\* EffectiveRevoked: purged records count only while the store holds them.
EffectiveRevoked == Revoked \cup (ledger.purged \cap Rows)

\* Health: out of date, no report, sources failed, nothing to show.
Health ==
    {n \in {"outdated", "unreported", "source", "unavailable"} :
        CASE n = "outdated"    -> ledger.purged \cap Rows # {}
          [] n = "unreported"  -> proj.failed = NoReport
          [] n = "source"      -> proj.failed # NoReport /\ proj.failed # {}
          [] n = "unavailable" -> Rows \ Hidden = {}}

Shown(visible) == [s \in visible |-> proj.rows[s]]

Moves(c, changes) == calls' = [calls EXCEPT ![c] = changes]
\* A refusal tells nothing, and the call is over.
Refuse(c) == Moves(c, NoCall)
KeepsAll  == UNCHANGED <<documents, ledger, proj, copy, job, attached, issued, traces, spent>>

\* A call arrives. Ghosts: what is gone already, and whether a build runs.
BeginCall(c, op, id, s) ==
    /\ calls[c].at = "idle"
    /\ calls' = [calls EXCEPT ![c] =
          [NoCall EXCEPT !.op = op, !.pack = id, !.wanted = s,
             !.at = CASE op = "expand" -> "lookup" [] op = "status" -> "health"
                      [] op = "explain" -> "file" [] OTHER -> "gate",
             !.gone = ledger.revoked \cup ledger.purged, !.calm = job.kind # "build"]]
    /\ KeepsAll

\* The call is answered and its caller goes on.
EndCall(c) ==
    /\ calls[c].at = "done"
    /\ Moves(c, NoCall) /\ KeepsAll

\* A strict read fails, or the ledger cannot be verified: the call is refused.
FailClosed(c) ==
    /\ calls[c].at \in {"gate", "health", "visible", "row", "rows", "again", "scan"}
    /\ ~Reachable
    /\ Refuse(c) /\ KeepsAll

\* EffectiveRevoked of Session.Resolve, loadVisibility of export and explain.
GateRecords(c) ==
    /\ calls[c].at = "gate" /\ Reachable
    /\ Moves(c, [calls[c] EXCEPT
          !.gate = IF calls[c].op = "export" THEN Hidden ELSE EffectiveRevoked,
          !.at = IF calls[c].op = "export" THEN "rows" ELSE "health"])
    /\ KeepsAll

\* Session.Health, of a resolution and of status.
ReadHealth(c) ==
    /\ calls[c].at = "health" /\ Reachable
    /\ Moves(c, [calls[c] EXCEPT !.notices = Health,
          !.at = IF calls[c].op = "status" THEN "done" ELSE "records"])
    /\ KeepsAll

\* resolver.Resolve on View.Records, which returns nothing when the read fails.
ReadRecords(c) ==
    /\ calls[c].at = "records"
    /\ Moves(c, [calls[c] EXCEPT !.at = "trace",
          !.text = IF Reachable THEN Shown(Rows \ (calls[c].gate \cup Scoped)) ELSE <<>>])
    /\ KeepsAll

\* The oldest files beyond the limit go.
pruneTraces(files) ==
    SubSeq(files, (IF Len(files) > MaxTraces THEN Len(files) - MaxTraces ELSE 0) + 1, Len(files))

\* recordTrace: the trace is kept, or the pack says that it has none.
RecordTrace(c) ==
    /\ calls[c].at = "trace" /\ spent.packs < MaxPacks
    /\ \/ /\ traces' = pruneTraces(Append(traces, DOMAIN calls[c].text))
          /\ Moves(c, [calls[c] EXCEPT !.at = "generation", !.pack = spent.packs + 1])
       \/ /\ Moves(c, [calls[c] EXCEPT !.at = "generation", !.pack = spent.packs + 1,
                                       !.traced = FALSE])
          /\ UNCHANGED traces
    /\ Spend("packs")
    /\ UNCHANGED <<documents, ledger, proj, copy, job, attached, issued>>

\* registerPack reads the generation before it takes the registry's mutex.
ReadGeneration(c) ==
    /\ calls[c].at = "generation"
    /\ Moves(c, [calls[c] EXCEPT !.at = "register", !.gen = IF Reachable THEN proj.gen ELSE 0])
    /\ KeepsAll

RegisterPack(c) ==
    /\ calls[c].at = "register"
    /\ LET call  == calls[c]
           order == Append(issued.order, call.pack)
           kept  == IF Len(order) > MaxIssued THEN Tail(order) ELSE order
           entry == [gen |-> call.gen, old |-> FALSE, text |-> call.text, calm |-> call.calm]
           packs == [p \in DOMAIN issued.packs \cup {call.pack} |->
                        IF p = call.pack THEN entry ELSE issued.packs[p]]
       IN issued' = [order |-> kept,
                     packs |-> [p \in DOMAIN packs \cap Range(kept) |-> packs[p]]]
    /\ Moves(c, [calls[c] EXCEPT !.at = IF calls[c].op = "inputs" THEN "again" ELSE "done",
                                 !.arms = DOMAIN calls[c].text])
    /\ UNCHANGED <<documents, ledger, proj, copy, job, attached, traces, spent>>

------------------------------------------------------------------------------
(* Evaluation inputs: the gate is read again, then every arm's records *)

GateAgain(c) ==
    /\ calls[c].at = "again" /\ Reachable
    /\ Moves(c, [calls[c] EXCEPT !.gate = EffectiveRevoked, !.at = "eligible"])
    /\ KeepsAll

ReadEligible(c) ==
    /\ calls[c].at = "eligible"
    /\ Moves(c, [calls[c] EXCEPT !.at = "scan",
          !.arms = @ \cup IF Reachable THEN Rows \ (calls[c].gate \cup Scoped) ELSE {}])
    /\ KeepsAll

\* NoScopeRefusal: every source and every record, hidden ones too, is synthetic.
NoScopeRefused == ~(SourceIds \subseteq Synthetic /\ Rows \subseteq Synthetic)

Scan(c) ==
    /\ calls[c].at = "scan" /\ Reachable
    /\ Moves(c, [calls[c] EXCEPT !.at = IF NoScopeRefused THEN "done" ELSE "free"])
    /\ KeepsAll

\* ResolveWithoutScope: every check but those of workspace and task.
ReadFree(c) ==
    /\ calls[c].at = "free"
    /\ Moves(c, [calls[c] EXCEPT !.at = "done",
          !.arms = @ \cup IF Reachable THEN Rows \ calls[c].gate ELSE {}])
    /\ KeepsAll

------------------------------------------------------------------------------
(* ExpandItem *)

\* Time passes for the packs issued so far, the oldest first.
Age(p) ==
    /\ p \in DOMAIN issued.packs /\ ~issued.packs[p].old
    /\ \A q \in DOMAIN issued.packs : q < p => issued.packs[q].old
    /\ issued' = [issued EXCEPT !.packs[p].old = TRUE]
    /\ UNCHANGED <<documents, ledger, proj, copy, job, attached, traces, calls, spent>>

\* Under the mutex: a pack that has expired is removed.
Lookup(c) ==
    /\ calls[c].at = "lookup"
    /\ LET p == calls[c].pack
           held == p \in DOMAIN issued.packs
           expired == held /\ issued.packs[p].old
       IN /\ issued' = IF expired
                         THEN [issued EXCEPT !.packs = [q \in DOMAIN @ \ {p} |-> @[q]]]
                         ELSE issued
          /\ IF held /\ ~expired /\ calls[c].wanted \in DOMAIN issued.packs[p].text
               THEN Moves(c, [calls[c] EXCEPT !.at = "current", !.gen = issued.packs[p].gen,
                                 !.text = issued.packs[p].text,
                                 !.calm = @ /\ issued.packs[p].calm])
               ELSE Refuse(c)
    /\ UNCHANGED <<documents, ledger, proj, copy, job, attached, traces, spent>>

\* Variant: a pack is good for its time whatever was built since.
AnyGeneration(c) ==
    /\ calls[c].at = "current"
    /\ Moves(c, [calls[c] EXCEPT !.at = "visible"])
    /\ KeepsAll

\* A pack of another build is refused.
CheckGeneration(c) ==
    /\ calls[c].at = "current"
    /\ IF (IF Reachable THEN proj.gen ELSE 0) = calls[c].gen
         THEN Moves(c, [calls[c] EXCEPT !.at = "visible"])
         ELSE Refuse(c)
    /\ KeepsAll

ReadVisibility(c) ==
    /\ calls[c].at = "visible" /\ Reachable
    /\ Moves(c, [calls[c] EXCEPT !.gate = Hidden, !.at = "row"])
    /\ KeepsAll

\* RecordByID, visibility and Stage A. `arms` is what is shown, `notices`
\* (a ghost here) says whether it is the version the pack was made of.
ReadRow(c) ==
    /\ calls[c].at = "row" /\ Reachable
    /\ LET s == calls[c].wanted IN
       IF s \in Rows \ (calls[c].gate \cup Scoped)
         THEN Moves(c, [calls[c] EXCEPT !.at = "done", !.arms = {s},
                 !.notices = IF proj.rows[s] = calls[c].text[s] THEN {} ELSE {"other version"}])
         ELSE Refuse(c)
    /\ KeepsAll

------------------------------------------------------------------------------
(* export and explain *)

\* LoadTrace reads the file; afterwards the current projection decides.
ReadTrace(c) ==
    /\ calls[c].at = "file"
    /\ \E i \in DOMAIN traces :
          Moves(c, [calls[c] EXCEPT !.at = "visible", !.arms = traces[i]])
    /\ KeepsAll

\* ExportProjection: every visible record.
ExportRows(c) ==
    /\ calls[c].at = "rows" /\ Reachable
    /\ Moves(c, [calls[c] EXCEPT !.at = "done", !.arms = Rows \ calls[c].gate])
    /\ KeepsAll

\* explain: the steps that name a record still visible and still eligible.
ExplainRows(c) ==
    /\ calls[c].op = "explain" /\ calls[c].at = "row" /\ Reachable
    /\ Moves(c, [calls[c] EXCEPT !.at = "done",
                                 !.arms = @ \cap (Rows \ (calls[c].gate \cup Scoped))])
    /\ KeepsAll

------------------------------------------------------------------------------
Operate ==
    \/ \E s \in Editable, v \in 0 .. MaxVersion : Edit(s, v)
    \/ \E kind \in {"forget", "purge"}, s \in Editable : SaveLedger(kind, s)
    \/ BeginBuild \/ Wipe \/ IngestNext \/ Publish \/ Report
    \/ ApplyToStore \/ Die \/ Corrupt \/ Restore \/ Reopen

CallsFor(c) ==
    \/ \E op \in Operations \ {"expand"} :
          (op = "explain" => traces # <<>>) /\ BeginCall(c, op, 0, Nothing)
    \/ /\ "expand" \in Operations
       /\ \E id \in 1 .. spent.packs, s \in SourceIds : BeginCall(c, "expand", id, s)

ServeCall(c) ==
    \/ EndCall(c) \/ FailClosed(c) \/ GateRecords(c) \/ ReadHealth(c) \/ ReadRecords(c)
    \/ RecordTrace(c) \/ ReadGeneration(c) \/ RegisterPack(c)
    \/ GateAgain(c) \/ ReadEligible(c) \/ Scan(c) \/ ReadFree(c)
    \/ Lookup(c) \/ CheckGeneration(c) \/ (calls[c].op = "expand" /\ ReadRow(c))
    \/ ReadVisibility(c) \/ ReadTrace(c) \/ ExportRows(c) \/ ExplainRows(c)

ServingNext ==
    \/ Operate
    \/ \E c \in Calls : CallsFor(c) \/ ServeCall(c)
    \/ \E p \in DOMAIN issued.packs : Age(p)

ServingSpec == ServingInit /\ [][ServingNext]_servingVars

------------------------------------------------------------------------------
(* Properties *)

Answered(c, ops) == calls[c].at = "done" /\ calls[c].op \in ops

\* What a call's answer names was neither forgotten nor purged when the call
\* began, on every read surface and for every arm of the evaluation inputs:
\* after a removal that died before the store, a restored or recreated store,
\* and against builds (visibility.go "a restored backup containing purged or
\* revoked records cannot surface them").
NothingGoneIsShown ==
    \A c \in Calls : Answered(c, Operations) => calls[c].arms \cap calls[c].gone = {}

\* A pack that calls itself complete, resolved while no build ran on a store
\* whose last build ended, leaves out no registered record of the workspace
\* but those removed: a source that was not ingested is in its notices.
CompleteIsWhole ==
    \A c \in Calls :
        /\ Answered(c, {"resolve", "inputs"}) /\ calls[c].calm /\ ~proj.torn
        /\ calls[c].traced /\ calls[c].notices = {}
        => SourceIds \ (Scoped \cup ledger.revoked \cup ledger.purged) \subseteq DOMAIN calls[c].text

\* An expansion shows the version its pack was resolved from, when no build
\* ran during either call and none has died: packs of earlier builds are
\* refused (expand.go "the projection has not been rebuilt or restored since").
ExpansionIsOfThePack ==
    \A c \in Calls :
        Answered(c, {"expand"}) /\ calls[c].calm /\ ~proj.torn => calls[c].notices = {}

=============================================================================
