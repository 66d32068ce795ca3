------------------------------ MODULE ServingProofs ------------------------------
(* What a served profile never shows, leaves out or mixes up, for every       *)
(* value of the constants.                                                    *)
(*                                                                            *)
(* A call reads its gate, the store and the metadata at different moments,    *)
(* and a purged record is in its gate only while the store holds it. The      *)
(* argument: a store that the server can read never gains a record that the   *)
(* ledger purged, since builds skip it and a restored file is another file    *)
(* than the one the server has open; so what the gate left open at its moment *)
(* stays absent. Of the two properties about builds, the first rests on what  *)
(* a finished build leaves in the store, the second on a build's token being  *)
(* one that no pack of an earlier build carries.                              *)
EXTENDS Serving, SequenceTheorems, TLAPS

-----------------------------------------------------------------------------
Stages == {"idle", "gate", "health", "records", "trace", "generation", "register", "again",
           "eligible", "scan", "free", "lookup", "current", "visible", "row", "rows", "file", "done"}
Notices == {"outdated", "unreported", "source", "unavailable", "other version"}
TextSet == {<<>>} \cup UNION {[visible -> Nat] : visible \in SUBSET SourceIds}

CallState ==
    [op : Operations \cup {"none"}, at : Stages, gate : SUBSET SourceIds, notices : SUBSET Notices,
     text : TextSet, gen : Nat, arms : SUBSET SourceIds, pack : Nat,
     wanted : SourceIds \cup {Nothing}, traced : BOOLEAN, gone : SUBSET SourceIds, calm : BOOLEAN]

StoreState ==
    [ok : BOOLEAN, rows : [SourceIds -> Nat], tombs : SUBSET SourceIds, gen : Nat,
     failed : (SUBSET SourceIds) \cup {NoReport}, torn : BOOLEAN]

JobState ==
    [kind : {"none", "build", "forget", "purge"}, at : {"none", "wipe", "ingest", "report", "store"},
     key : SourceIds \cup {Nothing}, todo : Seq(SourceIds), failed : SUBSET SourceIds]

PackState == [gen : Nat, old : BOOLEAN, text : TextSet, calm : BOOLEAN]

ServingTyped ==
    /\ documents \in [SourceIds -> Nat]
    /\ ledger \in [revoked : SUBSET SourceIds, purged : SUBSET SourceIds]
    /\ proj \in StoreState /\ copy \in StoreState
    /\ job \in JobState
    /\ attached \in BOOLEAN
    /\ issued = [packs |-> issued.packs, order |-> issued.order]
    /\ \A p \in DOMAIN issued.packs : issued.packs[p] \in PackState
    /\ traces \in Seq(SUBSET SourceIds)
    /\ calls \in [Calls -> CallState]
    /\ spent \in [packs : Nat, builds : Nat, edits : Nat, faults : Nat, removals : Nat]

\* The commands, and how far a build is.
JobHolds ==
    /\ job.kind = "build" <=> job.at \in {"wipe", "ingest", "report"}
    /\ job.kind \in {"forget", "purge"} <=> job.at = "store"
    /\ job.at = "wipe" => job.todo = SourceOrder
    /\ job.at \in {"ingest", "report"} =>
          /\ proj.torn
          /\ \A s \in SourceIds :
                \/ \E i \in DOMAIN job.todo : job.todo[i] = s
                \/ proj.rows[s] # 0 \/ s \in job.failed \cup ledger.purged
    /\ job.at = "report" => job.todo = <<>> /\ proj.gen = spent.builds + 1
    /\ job.at = "store" => job.key \in IF job.kind = "forget" THEN ledger.revoked ELSE ledger.purged

\* What a finished build left, and whose tombstones there are.
StoreHolds(st) ==
    /\ st.tombs \subseteq ledger.revoked
    /\ ~st.torn /\ st.failed # NoReport =>
          \A s \in SourceIds : st.rows[s] = 0 => s \in st.failed \cup ledger.purged
    /\ st.gen <= spent.builds + 1

\* The store still holds the versions of a text, or nothing for them.
Same(text) == \A s \in DOMAIN text : proj.rows[s] \in {0, text[s]}

\* The highest token a pack or a call can have read while no build ran.
Latest == IF job.kind = "build" THEN spent.builds ELSE spent.builds + 1

PackHolds(k) ==
    k.calm => /\ k.gen <= Latest
              /\ Reachable /\ ~proj.torn /\ k.gen = proj.gen => Same(k.text)

\* Which operation is at which stage.
StageHolds(k) ==
    /\ k.at \in {"lookup", "current"} => k.op = "expand"
    /\ k.at \in {"visible", "row"} => k.op \in {"expand", "explain"}
    /\ k.at = "file" => k.op = "explain"
    /\ k.at = "rows" => k.op = "export"
    /\ k.at = "gate" => k.op \notin {"expand", "explain", "status"}
    /\ k.at = "health" => k.op \notin {"expand", "explain", "export"}
    /\ k.at \in {"records", "trace", "generation", "register", "again", "eligible", "scan", "free"}
          => k.op \notin {"expand", "explain", "export", "status"}

\* The stages at which a call holds the gate of a resolution.
Gated(k) == k.at \in {"records", "eligible", "scan", "free"} \/ (k.at = "health" /\ k.op # "status")

\* What was gone when the call began is behind its gate, or not in the store.
HiddenHolds(k) ==
    /\ k.gone \subseteq ledger.revoked \cup ledger.purged
    /\ k.at \in {"rows", "row"} => k.gone \subseteq k.gate
    /\ Gated(k) => /\ k.gone \subseteq ledger.purged \cup k.gate
                   /\ Reachable => k.gone \cap Rows \subseteq k.gate
    /\ k.at \in {"trace", "generation", "register"} => DOMAIN k.text \cap k.gone = {}
    /\ k.at \notin {"visible", "row"} => k.arms \cap k.gone = {}

Left == SourceIds \ (Scoped \cup ledger.revoked \cup ledger.purged)

WholeHolds(k) ==
    /\ k.calm => job.kind # "build"
    /\ k.at \in {"health", "records"} /\ k.op # "status" =>
          k.gate \subseteq ledger.revoked \cup ledger.purged
    /\ k.calm /\ k.at = "records" =>
          Reachable /\ (k.notices = {} => proj.failed = {} /\ proj.failed # NoReport)
    /\ /\ k.op \in {"resolve", "inputs"} /\ k.calm /\ ~proj.torn /\ k.notices = {}
       /\ k.at \in {"trace", "generation", "register", "again", "eligible", "scan", "free", "done"}
       => Left \subseteq DOMAIN k.text

VersionHolds(k) ==
    /\ k.op = "expand" /\ k.at \in {"current", "visible", "row"} => k.wanted \in DOMAIN k.text
    /\ k.op = "expand" /\ k.calm /\ ~proj.torn => k.notices = {}
    /\ k.calm => k.gen <= Latest
    /\ /\ k.calm /\ Reachable /\ ~proj.torn
       /\ \/ k.at \in {"trace", "generation", "register"}
          \/ k.op = "expand" /\ k.at \in {"visible", "row"}
          \/ k.at = "current" /\ k.gen = proj.gen
       => Same(k.text)

CallHolds(k) == StageHolds(k) /\ HiddenHolds(k) /\ WholeHolds(k) /\ VersionHolds(k)

PacksHold == \A p \in DOMAIN issued.packs : PackHolds(issued.packs[p])
CallsHold == \A c \in Calls : calls[c].at # "idle" => CallHolds(calls[c])

ServingInv ==
    ServingTyped /\ JobHolds /\ StoreHolds(proj) /\ StoreHolds(copy) /\ PacksHold /\ CallsHold

-----------------------------------------------------------------------------
(* Frames. *)

LEMMA NoCallTyped ==
  NoCall \in CallState /\ NoCall.at = "idle" /\ NoCall.arms = {} /\ NoCall.notices = {}
  /\ NoCall.text = <<>> /\ NoCall.gen = 0 /\ NoCall.op = "none" /\ NoCall.gate = {}
<1>1. <<>> \in TextSet
  BY DEF TextSet
<1> QED
  BY <1>1 DEF NoCall, CallState, Stages

LEMMA TextInSources == ASSUME NEW text \in TextSet PROVE DOMAIN text \subseteq SourceIds
<1>1. CASE text = <<>>
  <2>1. DOMAIN text = {}
    BY <1>1
  <2> QED
    BY <2>1
<1>2. CASE text # <<>>
  <2>1. PICK visible \in SUBSET SourceIds : text \in [visible -> Nat]
    BY <1>2 DEF TextSet
  <2> QED
    BY <2>1
<1> QED
  BY <1>1, <1>2

LEMMA ShownText ==
  ASSUME proj \in StoreState, NEW visible \in SUBSET SourceIds
  PROVE  /\ Shown(visible) \in TextSet /\ DOMAIN Shown(visible) = visible
         /\ \A s \in visible : Shown(visible)[s] = proj.rows[s]
<1>1. \A s \in SourceIds : proj.rows[s] \in Nat
  BY DEF StoreState
<1>2. Shown(visible) \in [visible -> Nat]
  BY <1>1 DEF Shown
<1> QED
  BY <1>2 DEF TextSet, Shown

\* What a step leaves to a call that it does not answer.
Steady ==
    /\ proj'.failed = proj.failed /\ proj'.torn = proj.torn /\ proj'.gen = proj.gen
    /\ \A s \in SourceIds : proj'.rows[s] \in {0, proj.rows[s]}

Grown ==
    /\ ledger.revoked \subseteq ledger'.revoked /\ ledger.purged \subseteq ledger'.purged
    /\ spent.builds <= spent'.builds /\ Latest <= Latest'
    /\ Reachable' =>
          /\ Reachable
          /\ \A s \in SourceIds : proj'.rows[s] # 0 => proj.rows[s] # 0 \/ s \notin ledger.purged

Quiet == job'.kind # "build" /\ (Reachable <=> Reachable') /\ Steady

\* The state that what is said about calls, packs and the store depends on.
LEMMA LatestTyped ==
  ASSUME ServingTyped PROVE spent.builds \in Nat /\ Latest \in Nat
BY DEF ServingTyped, Latest

LEMMA CallStays ==
  ASSUME ServingTyped, Latest' \in Nat, NEW k \in CallState, CallHolds(k), Grown,
         NEW j \in CallState, j = k \/ j = [k EXCEPT !.calm = FALSE], j.calm => Quiet
  PROVE  CallHolds(j)'
<1>1. /\ j.op = k.op /\ j.at = k.at /\ j.gate = k.gate /\ j.notices = k.notices /\ j.text = k.text
      /\ j.gen = k.gen /\ j.arms = k.arms /\ j.wanted = k.wanted /\ j.gone = k.gone
      /\ j.calm => k.calm
  BY DEF CallState
<1>2. StageHolds(j)'
  BY <1>1 DEF StageHolds, CallHolds
<1>3. HiddenHolds(j)'
  <2>1. j.gone \subseteq ledger'.revoked \cup ledger'.purged
    BY <1>1 DEF CallHolds, HiddenHolds, Grown
  <2>2. ASSUME Gated(j) PROVE j.gone \subseteq ledger'.purged \cup j.gate
    BY <1>1, <2>2 DEF CallHolds, HiddenHolds, Grown, Gated
  <2>3. ASSUME Gated(j), Reachable', NEW s \in j.gone, s \in Rows' PROVE s \in j.gate
    <3>1. s \in SourceIds /\ proj'.rows[s] # 0
      BY <2>3 DEF Rows
    <3>2. Gated(k) /\ Reachable /\ s \in k.gone
      BY <1>1, <2>3 DEF Grown, Gated
    <3>3. CASE proj.rows[s] # 0
      <4>1. s \in Rows
        BY <3>1, <3>3 DEF Rows
      <4> QED
        BY <1>1, <3>2, <4>1 DEF CallHolds, HiddenHolds
    <3>4. CASE s \notin ledger.purged
      BY <1>1, <3>2, <3>4 DEF CallHolds, HiddenHolds
    <3> QED
      BY <2>3, <3>1, <3>3, <3>4 DEF Grown
  <2> QED
    BY <1>1, <2>1, <2>2, <2>3 DEF CallHolds, HiddenHolds, Gated
<1>4. WholeHolds(j)'
  <2>1. j.calm => job'.kind # "build"
    BY DEF Quiet
  <2>2. j.at \in {"health", "records"} /\ j.op # "status" =>
          j.gate \subseteq ledger'.revoked \cup ledger'.purged
    BY <1>1 DEF CallHolds, WholeHolds, Grown
  <2>3. j.calm /\ j.at = "records" =>
          Reachable' /\ (j.notices = {} => proj'.failed = {} /\ proj'.failed # NoReport)
    BY <1>1 DEF CallHolds, WholeHolds, Quiet, Steady
  <2>4. ASSUME j.op \in {"resolve", "inputs"}, j.calm, ~proj'.torn, j.notices = {},
               j.at \in {"trace", "generation", "register", "again", "eligible", "scan", "free", "done"}
        PROVE  Left' \subseteq DOMAIN j.text
    <3>1. Left' \subseteq Left
      BY DEF Left, Grown
    <3>2. Left \subseteq DOMAIN k.text
      BY <1>1, <2>4 DEF CallHolds, WholeHolds, Quiet, Steady
    <3> QED
      BY <1>1, <3>1, <3>2
  <2> QED
    BY <2>1, <2>2, <2>3, <2>4 DEF WholeHolds
<1>5. VersionHolds(j)'
  <2>1. j.op = "expand" /\ j.at \in {"current", "visible", "row"} => j.wanted \in DOMAIN j.text
    BY <1>1 DEF CallHolds, VersionHolds
  <2>2. j.op = "expand" /\ j.calm /\ ~proj'.torn => j.notices = {}
    BY <1>1 DEF CallHolds, VersionHolds, Quiet, Steady
  <2>3. j.calm => j.gen <= Latest'
    <3>1. k.gen \in Nat /\ Latest \in Nat /\ Latest <= Latest'
      BY LatestTyped DEF CallState, Grown
    <3> QED
      BY <1>1, <3>1 DEF CallHolds, VersionHolds
  <2>4. ASSUME j.calm, Reachable', ~proj'.torn,
               \/ j.at \in {"trace", "generation", "register"}
               \/ j.op = "expand" /\ j.at \in {"visible", "row"}
               \/ j.at = "current" /\ j.gen = proj'.gen
        PROVE  Same(j.text)'
    <3>1. Quiet /\ Reachable
      BY <2>4 DEF Quiet
    <3>2. Same(k.text)
      BY <1>1, <2>4, <3>1 DEF CallHolds, VersionHolds, Quiet, Steady
    <3>3. ASSUME NEW s \in DOMAIN j.text PROVE proj'.rows[s] \in {0, j.text[s]}
      <4>1. s \in SourceIds
        BY TextInSources, <3>3 DEF CallState
      <4>2. proj.rows[s] \in {0, j.text[s]}
        BY <1>1, <3>2, <3>3 DEF Same
      <4>3. proj'.rows[s] \in {0, proj.rows[s]}
        BY <3>1, <4>1 DEF Quiet, Steady
      <4> QED
        BY <4>2, <4>3
    <3> QED
      BY <3>3 DEF Same
  <2> QED
    BY <2>1, <2>2, <2>3, <2>4 DEF VersionHolds
<1> QED
  BY <1>2, <1>3, <1>4, <1>5 DEF CallHolds


LEMMA CallsKept ==
  ASSUME ServingTyped, JobHolds, CallsHold, Grown, Latest' \in Nat,
         \/ calls' = Disturbed
         \/ calls' = calls /\ (job.kind = "build" \/ Quiet)
  PROVE  calls' \in [Calls -> CallState] /\ CallsHold'
<1>1. ASSUME NEW c \in Calls
      PROVE  /\ calls[c] \in CallState /\ calls'[c] \in CallState
             /\ calls'[c] = calls[c] \/ calls'[c] = [calls[c] EXCEPT !.calm = FALSE]
             /\ calls'[c].at = calls[c].at
             /\ calls[c].at # "idle" => (calls'[c].calm => Quiet) /\ CallHolds(calls[c])
  <2>1. calls[c] \in CallState /\ (calls[c].at # "idle" => CallHolds(calls[c]))
    BY DEF ServingTyped, CallsHold
  <2>2. CASE calls' = calls /\ (job.kind = "build" \/ Quiet)
    BY <2>1, <2>2 DEF CallHolds, WholeHolds
  <2>3. CASE calls' = Disturbed
    <3>1. calls'[c] = IF calls[c].at = "idle" THEN calls[c] ELSE [calls[c] EXCEPT !.calm = FALSE]
      BY <2>3 DEF Disturbed
    <3>2. CASE calls[c].at = "idle"
      BY <2>1, <3>1, <3>2
    <3>3. CASE calls[c].at # "idle"
      <4>1. calls'[c] = [calls[c] EXCEPT !.calm = FALSE]
        BY <3>1, <3>3
      <4>2. calls'[c] \in CallState /\ calls'[c].at = calls[c].at /\ ~calls'[c].calm
        BY <2>1, <4>1 DEF CallState
      <4> QED
        BY <2>1, <4>1, <4>2
    <3> QED
      BY <3>2, <3>3
  <2> QED
    BY <2>2, <2>3
<1>2. calls' \in [Calls -> CallState]
  <2>1. \E f : calls' = [c \in Calls |-> f[c]]
    <3>1. CASE calls' = Disturbed
      <4>1. calls' = [c \in Calls |-> calls'[c]]
        BY <3>1 DEF Disturbed
      <4> QED
        BY <4>1
    <3>2. CASE calls' = calls
      <4>1. calls' = [c \in Calls |-> calls'[c]]
        BY <3>2 DEF ServingTyped
      <4> QED
        BY <4>1
    <3> QED
      BY <3>1, <3>2
  <2> QED
    BY <1>1, <2>1
<1>3. ASSUME NEW c \in Calls, calls'[c].at # "idle" PROVE CallHolds(calls[c])'
  <2>1. ASSUME NEW j \in CallState, j = calls'[c] PROVE CallHolds(j)'
    <3>1. ASSUME NEW k \in CallState, k = calls[c] PROVE CallHolds(j)'
      <4>1. CallHolds(k) /\ (j.calm => Quiet) /\ (j = k \/ j = [k EXCEPT !.calm = FALSE])
        BY <1>1, <1>3, <2>1, <3>1
      <4> QED
        BY <4>1, CallStays
    <3> QED
      BY <1>1, <3>1
  <2> QED
    BY <1>1, <2>1 DEF CallHolds, StageHolds, HiddenHolds, WholeHolds, VersionHolds, Gated, Same
<1> QED
  BY <1>2, <1>3 DEF CallsHold

LEMMA PacksKept ==
  ASSUME ServingTyped, PacksHold, issued' = issued, Grown, Latest' \in Nat,
         Reachable' /\ ~proj'.torn =>
            \/ Steady
            \/ proj'.gen \in Nat /\ proj'.gen > Latest
  PROVE  PacksHold'
<1>1. ASSUME NEW k \in PackState, PackHolds(k) PROVE PackHolds(k)'
  <2>2. k.gen \in Nat /\ k.text \in TextSet /\ Latest \in Nat /\ Latest <= Latest'
    BY <1>1, LatestTyped DEF PackState, Grown
  <2>3. k.calm => k.gen <= Latest /\ k.gen <= Latest'
    BY <1>1, <2>2 DEF PackHolds
  <2>4. ASSUME k.calm, Reachable', ~proj'.torn, k.gen = proj'.gen,
               NEW s \in DOMAIN k.text
        PROVE  proj'.rows[s] \in {0, k.text[s]}
    <3>1. Reachable /\ Steady
      BY <2>2, <2>3, <2>4 DEF Grown
    <3>2. Same(k.text)
      BY <1>1, <2>4, <3>1 DEF PackHolds, Steady
    <3>3. s \in SourceIds
      BY <2>2, <2>4, TextInSources
    <3>4. proj.rows[s] \in {0, k.text[s]}
      BY <2>4, <3>2 DEF Same
    <3>5. proj'.rows[s] \in {0, proj.rows[s]}
      BY <3>1, <3>3 DEF Steady
    <3> QED
      BY <3>4, <3>5
  <2> QED
    BY <2>3, <2>4 DEF PackHolds, Same
<1>2. ASSUME NEW p \in DOMAIN issued.packs PROVE PackHolds(issued.packs[p])'
  <2>1. issued.packs[p] \in PackState /\ PackHolds(issued.packs[p])
    BY DEF ServingTyped, PacksHold
  <2> QED
    BY <1>1, <2>1 DEF PackHolds, Same
<1> QED
  BY <1>2 DEF PacksHold

LEMMA StoreStays ==
  ASSUME NEW st \in StoreState, StoreHolds(st), Grown, spent.builds \in Nat, spent'.builds \in Nat
  PROVE  StoreHolds(st)'
<1>1. st.gen \in Nat
  BY DEF StoreState
<1>2. st.gen <= spent'.builds + 1
  BY <1>1 DEF StoreHolds, Grown
<1> QED
  BY <1>2 DEF StoreHolds, Grown

\* A step of the operator's commands or of the data directory.
LEMMA OperatorStep ==
  ASSUME ServingInv, Grown, UNCHANGED <<copy, issued, traces>>,
         documents' \in [SourceIds -> Nat], attached' \in BOOLEAN,
         ledger' \in [revoked : SUBSET SourceIds, purged : SUBSET SourceIds],
         proj' \in StoreState, job' \in JobState,
         spent' \in [packs : Nat, builds : Nat, edits : Nat, faults : Nat, removals : Nat],
         \/ calls' = Disturbed
         \/ calls' = calls /\ (job.kind = "build" \/ Quiet),
         Reachable' /\ ~proj'.torn =>
            \/ Steady
            \/ proj'.gen \in Nat /\ proj'.gen > Latest,
         JobHolds', StoreHolds(proj)'
  PROVE  ServingInv'
<1>1. /\ ServingTyped /\ JobHolds /\ PacksHold /\ CallsHold /\ StoreHolds(copy)
      /\ spent.builds \in Nat /\ spent'.builds \in Nat /\ Latest' \in Nat /\ copy \in StoreState
  BY LatestTyped DEF ServingInv, ServingTyped, Latest
<1>2. calls' \in [Calls -> CallState] /\ CallsHold'
  BY <1>1, CallsKept
<1>3. PacksHold'
  BY <1>1, PacksKept
<1>4. StoreHolds(copy)'
  <2>1. StoreHolds(copy') <=> StoreHolds(copy)
    OBVIOUS
  <2> QED
    BY <1>1, StoreStays DEF StoreHolds
<1>5. ServingTyped'
  BY <1>1, <1>2 DEF ServingTyped
<1> QED
  BY <1>2, <1>3, <1>4, <1>5 DEF ServingInv

-----------------------------------------------------------------------------
(* The operator's commands and the data directory. *)

LEMMA ServingInitHolds == ServingInit => ServingInv
<1> SUFFICES ASSUME ServingInit PROVE ServingInv
  OBVIOUS
<1>1. /\ documents = [s \in SourceIds |-> 1] /\ proj \in {Empty, Built} /\ copy = proj
      /\ ledger = [revoked |-> {}, purged |-> {}] /\ job = NoJob /\ attached = TRUE
      /\ issued = [packs |-> <<>>, order |-> <<>>] /\ traces = <<>>
      /\ calls = [c \in Calls |-> NoCall]
      /\ spent = [packs |-> 0, builds |-> 0, edits |-> 0, faults |-> 0, removals |-> 0]
  BY DEF ServingInit
<1>2. /\ proj \in StoreState /\ proj.tombs = {} /\ ~proj.torn /\ proj.gen \in {0, 1}
      /\ proj.failed = NoReport \/ (\A s \in SourceIds : proj.rows[s] = 1)
  <2>1. CASE proj = Empty
    BY <2>1 DEF Empty, StoreState
  <2>2. CASE proj = Built
    <3>1. proj = [ok |-> TRUE, rows |-> [s \in SourceIds |-> 1], tombs |-> {}, gen |-> 1,
                   failed |-> {}, torn |-> FALSE]
      BY <2>2 DEF Built, Empty
    <3> QED
      BY <3>1 DEF StoreState
  <2> QED
    BY <1>1, <2>1, <2>2
<1>3. /\ job \in JobState /\ job.kind = "none" /\ job.at = "none"
  BY <1>1 DEF NoJob, JobState
<1>4. DOMAIN issued.packs = {} /\ traces \in Seq(SUBSET SourceIds)
      /\ issued = [packs |-> issued.packs, order |-> issued.order]
  BY <1>1
<1>5. ServingTyped
  <2>1. documents \in [SourceIds -> Nat] /\ attached \in BOOLEAN
        /\ ledger \in [revoked : SUBSET SourceIds, purged : SUBSET SourceIds]
        /\ spent \in [packs : Nat, builds : Nat, edits : Nat, faults : Nat, removals : Nat]
    BY <1>1
  <2>2. calls \in [Calls -> CallState]
    BY <1>1, NoCallTyped
  <2> QED
    BY <1>1, <1>2, <1>3, <1>4, <2>1, <2>2 DEF ServingTyped
<1>6. JobHolds
  BY <1>3 DEF JobHolds
<1>7. StoreHolds(proj)
  BY <1>1, <1>2 DEF StoreHolds
<1>8. StoreHolds(copy)
  BY <1>1, <1>7
<1>9. PacksHold /\ CallsHold
  BY <1>1, <1>4, NoCallTyped DEF PacksHold, CallsHold
<1> QED
  BY <1>5, <1>6, <1>7, <1>8, <1>9 DEF ServingInv

LEMMA Unpacked ==
  ASSUME ServingInv
  PROVE  /\ ServingTyped /\ JobHolds /\ StoreHolds(proj) /\ StoreHolds(copy) /\ PacksHold /\ CallsHold
         /\ proj \in StoreState /\ copy \in StoreState /\ job \in JobState
         /\ documents \in [SourceIds -> Nat] /\ attached \in BOOLEAN
         /\ ledger \in [revoked : SUBSET SourceIds, purged : SUBSET SourceIds]
         /\ spent \in [packs : Nat, builds : Nat, edits : Nat, faults : Nat, removals : Nat]
         /\ spent.builds \in Nat /\ Latest \in Nat
BY LatestTyped DEF ServingInv, ServingTyped

LEMMA Spending ==
  ASSUME spent \in [packs : Nat, builds : Nat, edits : Nat, faults : Nat, removals : Nat],
         NEW what \in {"packs", "builds", "edits", "faults", "removals"}, Spend(what)
  PROVE  /\ spent' \in [packs : Nat, builds : Nat, edits : Nat, faults : Nat, removals : Nat]
         /\ spent'.builds = IF what = "builds" THEN spent.builds + 1 ELSE spent.builds
BY DEF Spend

\* The store, the ledger and what is readable stay.
LEMMA SameStore ==
  ASSUME ServingInv, UNCHANGED <<proj, ledger, attached>>, spent'.builds = spent.builds,
         job.kind = "build" \/ job'.kind # "build"
  PROVE  Grown /\ Steady /\ (Reachable <=> Reachable') /\ StoreHolds(proj)'
         /\ (job.kind # "build" => Quiet)
<1>1. proj \in StoreState /\ spent.builds \in Nat /\ StoreHolds(proj)
  BY Unpacked
<1>2. \A s \in SourceIds : proj.rows[s] \in Nat
  BY <1>1 DEF StoreState
<1>3. Steady
  BY DEF Steady
<1>4. Reachable <=> Reachable'
  BY DEF Reachable
<1>5. Latest <= Latest'
  BY <1>1 DEF Latest
<1>6. Grown
  BY <1>1, <1>4, <1>5 DEF Grown
<1>7. StoreHolds(proj)'
  BY <1>1 DEF StoreHolds
<1> QED
  BY <1>3, <1>4, <1>6, <1>7 DEF Quiet

LEMMA EditKeeps ==
  ASSUME ServingInv, NEW s \in Editable, NEW v \in 0 .. MaxVersion, Edit(s, v) PROVE ServingInv'
<1>1. /\ documents' = [documents EXCEPT ![s] = v] /\ Spend("edits")
      /\ UNCHANGED <<ledger, proj, copy, job, attached, issued, traces, calls>>
  BY DEF Edit
<1>2. v \in Nat /\ documents' \in [SourceIds -> Nat]
  BY <1>1, Unpacked, ServingAssumption
<1>3. /\ spent' \in [packs : Nat, builds : Nat, edits : Nat, faults : Nat, removals : Nat]
      /\ spent'.builds = spent.builds
  BY <1>1, Unpacked, Spending
<1>4. Grown /\ Steady /\ StoreHolds(proj)' /\ (job.kind # "build" => Quiet)
  BY <1>1, <1>3, SameStore
<1>5. JobHolds'
  BY <1>1, <1>3, Unpacked DEF JobHolds
<1> QED
  BY <1>1, <1>2, <1>3, <1>4, <1>5, Unpacked, OperatorStep

LEMMA LedgerKeeps ==
  ASSUME ServingInv, NEW kind \in {"forget", "purge"}, NEW s \in Editable, SaveLedger(kind, s)
  PROVE  ServingInv'
<1>1. /\ job.kind = "none" /\ Spend("removals")
      /\ ledger' = IF kind = "forget" THEN [ledger EXCEPT !.revoked = @ \cup {s}]
                                      ELSE [ledger EXCEPT !.purged = @ \cup {s}]
      /\ job' = [NoJob EXCEPT !.kind = kind, !.at = "store", !.key = s]
      /\ UNCHANGED <<documents, proj, copy, attached, issued, traces, calls>>
  BY DEF SaveLedger
<1>2. s \in SourceIds
  BY ServingAssumption
<1>3. /\ ledger' \in [revoked : SUBSET SourceIds, purged : SUBSET SourceIds]
      /\ ledger.revoked \subseteq ledger'.revoked /\ ledger.purged \subseteq ledger'.purged
      /\ s \in IF kind = "forget" THEN ledger'.revoked ELSE ledger'.purged
  BY <1>1, <1>2, Unpacked
<1>4. /\ spent' \in [packs : Nat, builds : Nat, edits : Nat, faults : Nat, removals : Nat]
      /\ spent'.builds = spent.builds
  BY <1>1, Unpacked, Spending
<1>5. job' \in JobState /\ job'.kind = kind /\ job'.at = "store" /\ job'.key = s
  <2>1. job' = [kind |-> kind, at |-> "store", key |-> s, todo |-> <<>>, failed |-> {}]
    BY <1>1 DEF NoJob
  <2>2. <<>> \in Seq(SourceIds)
    OBVIOUS
  <2> QED
    BY <1>2, <2>1, <2>2 DEF JobState
<1>6. Steady /\ (Reachable <=> Reachable') /\ Latest <= Latest'
  <2>1. Steady
    BY <1>1, Unpacked DEF Steady, StoreState
  <2>2. Reachable <=> Reachable'
    BY <1>1 DEF Reachable
  <2> QED
    BY <1>1, <1>4, <1>5, <2>1, <2>2, Unpacked DEF Latest
<1>7. Grown /\ Quiet
  BY <1>1, <1>3, <1>4, <1>5, <1>6, Unpacked DEF Grown, Quiet
<1>8. JobHolds'
  BY <1>3, <1>5 DEF JobHolds
<1>9. StoreHolds(proj)'
  BY <1>1, <1>3, <1>4, Unpacked DEF StoreHolds
<1> QED
  BY <1>1, <1>3, <1>4, <1>5, <1>7, <1>8, <1>9, Unpacked, OperatorStep DEF Quiet

LEMMA DieKeeps == ASSUME ServingInv, Die PROVE ServingInv'
<1>1. /\ job' = NoJob /\ Spend("faults")
      /\ UNCHANGED <<documents, ledger, proj, copy, attached, issued, traces, calls>>
  BY DEF Die
<1>2. /\ spent' \in [packs : Nat, builds : Nat, edits : Nat, faults : Nat, removals : Nat]
      /\ spent'.builds = spent.builds
  BY <1>1, Unpacked, Spending
<1>3. job' \in JobState /\ job'.kind = "none" /\ job'.at = "none"
  BY <1>1 DEF NoJob, JobState
<1>4. Grown /\ Steady /\ StoreHolds(proj)' /\ (job.kind # "build" => Quiet)
  BY <1>1, <1>2, <1>3, SameStore
<1>5. JobHolds'
  BY <1>3 DEF JobHolds
<1> QED
  BY <1>1, <1>2, <1>3, <1>4, <1>5, Unpacked, OperatorStep

LEMMA EmptyTyped ==
  /\ Empty \in StoreState /\ Empty.tombs = {} /\ Empty.gen = 0 /\ Empty.failed = NoReport
  /\ ~Empty.torn /\ Empty.ok /\ Empty.rows = [s \in SourceIds |-> 0]
BY DEF Empty, StoreState

LEMMA BeginKeeps == ASSUME ServingInv, BeginBuild PROVE ServingInv'
<1>1. /\ job.kind = "none" /\ Spend("builds") /\ calls' = Disturbed
      /\ job' = [NoJob EXCEPT !.kind = "build", !.at = "wipe", !.todo = SourceOrder]
      /\ proj' = (IF proj.ok THEN proj ELSE Empty) /\ attached' = (attached /\ proj.ok)
      /\ UNCHANGED <<documents, ledger, copy, issued, traces>>
  BY DEF BeginBuild
<1>2. /\ spent' \in [packs : Nat, builds : Nat, edits : Nat, faults : Nat, removals : Nat]
      /\ spent'.builds = spent.builds + 1
  BY <1>1, Unpacked, Spending
<1>3. job' \in JobState /\ job'.kind = "build" /\ job'.at = "wipe" /\ job'.todo = SourceOrder
  BY <1>1, ServingAssumption DEF NoJob, JobState
<1>4. /\ proj' \in StoreState /\ attached' \in BOOLEAN /\ (Reachable' => Reachable /\ proj' = proj)
      /\ \A s \in SourceIds : proj'.rows[s] # 0 => proj.rows[s] # 0
      /\ proj'.gen <= spent.builds + 1
  <2>1. CASE proj.ok
    BY <1>1, <2>1, Unpacked DEF Reachable, StoreHolds
  <2>2. CASE ~proj.ok
    <3>1. proj' = Empty /\ attached' = FALSE
      BY <1>1, <2>2
    <3>2. \A s \in SourceIds : Empty.rows[s] = 0
      BY EmptyTyped
    <3>3. proj'.gen <= spent.builds + 1
      BY <3>1, EmptyTyped, Unpacked
    <3>4. attached' \in BOOLEAN /\ ~Reachable'
      BY <3>1, Unpacked DEF Reachable
    <3>5. \A s \in SourceIds : proj'.rows[s] = 0
      BY <3>1, <3>2
    <3>6. proj' \in StoreState
      BY <3>1, EmptyTyped
    <3> QED
      BY <3>3, <3>4, <3>5, <3>6
  <2> QED
    BY <2>1, <2>2
<1>5. Grown
  BY <1>1, <1>2, <1>3, <1>4, Unpacked DEF Grown, Latest
<1>6. Reachable' => Steady
  BY <1>4, Unpacked DEF Steady, StoreState
<1>7. JobHolds'
  BY <1>3 DEF JobHolds
<1>8. StoreHolds(proj)'
  <2>1. proj'.gen \in Nat
    BY <1>4 DEF StoreState
  <2>2. proj'.gen <= spent'.builds + 1
    BY <1>2, <1>4, <2>1, Unpacked
  <2>3. CASE proj.ok
    BY <1>1, <2>2, <2>3, Unpacked DEF StoreHolds
  <2>4. CASE ~proj.ok
    <3>1. proj' = Empty
      BY <1>1, <2>4
    <3> QED
      BY <2>2, <3>1, EmptyTyped DEF StoreHolds
  <2> QED
    BY <2>3, <2>4
<1> QED
  BY <1>1, <1>2, <1>3, <1>4, <1>5, <1>6, <1>7, <1>8, Unpacked, OperatorStep

\* A step of the build under way: the calls that are active are not calm.
LEMMA BuildStep ==
  ASSUME ServingInv, job.kind = "build", proj' \in StoreState, job' \in JobState,
         UNCHANGED <<documents, ledger, copy, attached, issued, traces, calls, spent>>,
         proj'.ok = proj.ok,
         \A s \in SourceIds : proj'.rows[s] # 0 => proj.rows[s] # 0 \/ s \notin ledger.purged,
         proj'.torn \/ (proj'.gen \in Nat /\ proj'.gen > Latest),
         JobHolds', StoreHolds(proj)'
  PROVE  ServingInv'
<1>1. Reachable <=> Reachable'
  BY DEF Reachable
<1>2. Latest <= Latest'
  BY Unpacked DEF Latest
<1>3. Grown
  BY <1>1, <1>2, Unpacked DEF Grown
<1> QED
  BY <1>3, Unpacked, OperatorStep

LEMMA WipeKeeps == ASSUME ServingInv, Wipe PROVE ServingInv'
<1>1. /\ job.at = "wipe" /\ job' = [job EXCEPT !.at = "ingest"]
      /\ proj' = [proj EXCEPT !.rows = Empty.rows, !.torn = TRUE]
      /\ UNCHANGED <<documents, ledger, copy, attached, issued, traces, calls, spent>>
  BY DEF Wipe
<1>2. /\ proj' \in StoreState /\ proj'.torn /\ proj'.ok = proj.ok /\ proj'.gen = proj.gen
      /\ proj'.tombs = proj.tombs /\ \A s \in SourceIds : proj'.rows[s] = 0
  BY <1>1, EmptyTyped, Unpacked DEF StoreState
<1>3. /\ job' \in JobState /\ job'.at = "ingest" /\ job'.kind = job.kind /\ job'.todo = job.todo
  BY <1>1, Unpacked DEF JobState
<1>4. job.kind = "build" /\ job.todo = SourceOrder
  BY <1>1, Unpacked DEF JobHolds
<1>5. JobHolds'
  <2>1. \A s \in SourceIds : \E i \in DOMAIN SourceOrder : SourceOrder[i] = s
    BY DEF SourceIds, Range
  <2> QED
    BY <1>2, <1>3, <1>4, <2>1 DEF JobHolds
<1>6. StoreHolds(proj)'
  BY <1>1, <1>2, Unpacked DEF StoreHolds
<1> QED
  BY <1>1, <1>2, <1>3, <1>4, <1>5, <1>6, BuildStep

LEMMA IngestKeeps == ASSUME ServingInv, IngestNext PROVE ServingInv'
<1> DEFINE s == Head(job.todo)
           failed == IF documents[s] = 0 THEN job.failed \cup {s} ELSE job.failed
<1>1. /\ job.at = "ingest" /\ job.todo # <<>>
      /\ job' = [job EXCEPT !.todo = Tail(@), !.failed = failed]
      /\ proj' = (IF s \in ledger.purged THEN proj ELSE [proj EXCEPT !.rows[s] = documents[s]])
      /\ UNCHANGED <<documents, ledger, copy, attached, issued, traces, calls, spent>>
  BY DEF IngestNext
<1>2. /\ job.kind = "build" /\ proj.torn
      /\ job.todo \in Seq(SourceIds) /\ job.failed \in SUBSET SourceIds
      /\ \A r \in SourceIds : \/ \E i \in DOMAIN job.todo : job.todo[i] = r
                              \/ proj.rows[r] # 0 \/ r \in job.failed \cup ledger.purged
  BY <1>1, Unpacked DEF JobHolds, JobState
<1>3. /\ s \in SourceIds /\ Tail(job.todo) \in Seq(SourceIds)
      /\ \A i \in DOMAIN job.todo : job.todo[i] = s \/ \E j \in DOMAIN Tail(job.todo) : Tail(job.todo)[j] = job.todo[i]
  <2>1. Len(job.todo) \in Nat /\ Len(job.todo) > 0 /\ DOMAIN job.todo = 1 .. Len(job.todo)
    BY <1>1, <1>2
  <2>2. /\ s = job.todo[1] /\ s \in SourceIds /\ Tail(job.todo) \in Seq(SourceIds)
        /\ Len(Tail(job.todo)) = Len(job.todo) - 1
        /\ \A j \in 1 .. Len(Tail(job.todo)) : Tail(job.todo)[j] = job.todo[j + 1]
    BY <1>1, <1>2, <2>1
  <2>3. ASSUME NEW i \in DOMAIN job.todo, i # 1
        PROVE  \E j \in DOMAIN Tail(job.todo) : Tail(job.todo)[j] = job.todo[i]
    <3>1. i - 1 \in 1 .. Len(Tail(job.todo)) /\ (i - 1) + 1 = i
      BY <2>1, <2>2, <2>3
    <3>2. i - 1 \in DOMAIN Tail(job.todo) /\ Tail(job.todo)[i - 1] = job.todo[i]
      BY <2>2, <3>1
    <3> QED
      BY <3>2
  <2> QED
    BY <2>2, <2>3
<1>4. documents[s] \in Nat
  BY <1>3, Unpacked
<1>5. failed \in SUBSET SourceIds /\ job.failed \subseteq failed /\ (documents[s] = 0 => s \in failed)
  BY <1>2, <1>3
<1> HIDE DEF s, failed
<1>6. /\ job' \in JobState /\ job'.at = "ingest" /\ job'.kind = "build"
      /\ job'.todo = Tail(job.todo) /\ job'.failed = failed
  BY <1>1, <1>2, <1>3, <1>5, Unpacked DEF JobState
<1>7. /\ proj' \in StoreState /\ proj'.torn /\ proj'.ok = proj.ok /\ proj'.gen = proj.gen
      /\ proj'.tombs = proj.tombs
      /\ \A r \in SourceIds : r # s => proj'.rows[r] = proj.rows[r]
      /\ s \in ledger.purged => proj'.rows[s] = proj.rows[s]
      /\ s \notin ledger.purged => proj'.rows[s] = documents[s]
  <2>1. CASE s \in ledger.purged
    BY <1>1, <1>2, <2>1, Unpacked
  <2>2. CASE s \notin ledger.purged
    <3>1. proj' = [proj EXCEPT !.rows[s] = documents[s]]
      BY <1>1, <2>2
    <3> QED
      BY <1>2, <1>3, <1>4, <2>2, <3>1, Unpacked DEF StoreState
  <2> QED
    BY <2>1, <2>2
<1>8. JobHolds'
  <2>1. ASSUME NEW r \in SourceIds
        PROVE  \/ \E i \in DOMAIN job'.todo : job'.todo[i] = r
               \/ proj'.rows[r] # 0 \/ r \in job'.failed \cup ledger.purged
    <3>1. CASE r = s
      <4>1. CASE s \in ledger.purged
        BY <3>1, <4>1
      <4>2. CASE s \notin ledger.purged
        <5>1. proj'.rows[s] = documents[s]
          BY <1>7, <4>2
        <5> QED
          BY <1>5, <1>6, <3>1, <5>1
      <4> QED
        BY <4>1, <4>2
    <3>2. CASE r # s
      <4>1. ASSUME NEW i \in DOMAIN job.todo, job.todo[i] = r
            PROVE  \E j \in DOMAIN job'.todo : job'.todo[j] = r
        BY <1>3, <1>6, <3>2, <4>1
      <4>2. proj.rows[r] # 0 => proj'.rows[r] # 0
        BY <1>7, <3>2
      <4>3. r \in job.failed => r \in job'.failed
        BY <1>5, <1>6
      <4> QED
        BY <1>2, <4>1, <4>2, <4>3
    <3> QED
      BY <3>1, <3>2
  <2> QED
    BY <1>1, <1>6, <1>7, <2>1 DEF JobHolds
<1>9. StoreHolds(proj)'
  BY <1>1, <1>7, Unpacked DEF StoreHolds
<1>10. \A r \in SourceIds : proj'.rows[r] # 0 => proj.rows[r] # 0 \/ r \notin ledger.purged
  BY <1>7
<1> QED
  BY <1>1, <1>2, <1>6, <1>7, <1>8, <1>9, <1>10, BuildStep

LEMMA PublishKeeps == ASSUME ServingInv, Publish PROVE ServingInv'
<1>1. /\ job.at = "ingest" /\ job.todo = <<>>
      /\ proj' = [proj EXCEPT !.gen = spent.builds + 1]
      /\ job' = [job EXCEPT !.at = "report"]
      /\ UNCHANGED <<documents, ledger, copy, attached, issued, traces, calls, spent>>
  BY DEF Publish
<1>2. /\ proj' \in StoreState /\ proj'.ok = proj.ok /\ proj'.gen = spent.builds + 1
      /\ proj'.tombs = proj.tombs /\ proj'.rows = proj.rows /\ proj'.torn = proj.torn
  <2>1. spent.builds + 1 \in Nat /\ proj \in StoreState
    BY Unpacked
  <2> QED
    BY <1>1, <2>1 DEF StoreState
<1>3. /\ job' \in JobState /\ job'.at = "report" /\ job'.kind = job.kind /\ job'.todo = <<>>
      /\ job'.failed = job.failed
  BY <1>1, Unpacked DEF JobState
<1>4. job.kind = "build" /\ proj.torn
  BY <1>1, Unpacked DEF JobHolds
<1>5. JobHolds'
  BY <1>1, <1>2, <1>3, <1>4, Unpacked DEF JobHolds
<1>6. StoreHolds(proj)'
  BY <1>1, <1>2, <1>4, Unpacked DEF StoreHolds
<1> QED
  BY <1>1, <1>2, <1>3, <1>4, <1>5, <1>6, BuildStep

LEMMA ReportKeeps == ASSUME ServingInv, Report PROVE ServingInv'
<1>1. /\ job.at = "report" /\ job' = NoJob
      /\ proj' = [proj EXCEPT !.failed = job.failed, !.torn = FALSE]
      /\ UNCHANGED <<documents, ledger, copy, attached, issued, traces, calls, spent>>
  BY DEF Report
<1>2. /\ job.kind = "build" /\ job.todo = <<>> /\ proj.gen = spent.builds + 1
      /\ job.failed \in SUBSET SourceIds
      /\ \A s \in SourceIds : proj.rows[s] # 0 \/ s \in job.failed \cup ledger.purged
  BY <1>1, Unpacked DEF JobHolds, JobState
<1>3. /\ proj' \in StoreState /\ proj'.ok = proj.ok /\ proj'.gen = proj.gen
      /\ proj'.tombs = proj.tombs /\ proj'.rows = proj.rows /\ proj'.failed = job.failed
  BY <1>1, <1>2, Unpacked DEF StoreState
<1>4. job' \in JobState /\ job'.kind = "none" /\ job'.at = "none"
  BY <1>1 DEF NoJob, JobState
<1>5. JobHolds'
  BY <1>4 DEF JobHolds
<1>6. StoreHolds(proj)'
  BY <1>1, <1>2, <1>3, Unpacked DEF StoreHolds
<1>7. proj'.gen \in Nat /\ proj'.gen > Latest
  BY <1>2, <1>3, Unpacked DEF Latest
<1> QED
  BY <1>1, <1>2, <1>3, <1>4, <1>5, <1>6, <1>7, BuildStep

LEMMA ApplyKeeps == ASSUME ServingInv, ApplyToStore PROVE ServingInv'
<1>1. /\ job.at = "store" /\ job' = NoJob
      /\ proj' = IF ~proj.ok THEN proj
                  ELSE IF job.kind = "forget" THEN Tombstone(job.key) ELSE PurgeRecords(job.key)
      /\ UNCHANGED <<documents, ledger, copy, attached, issued, traces, calls, spent>>
  BY DEF ApplyToStore
<1>2. /\ job.kind \in {"forget", "purge"}
      /\ job.key \in IF job.kind = "forget" THEN ledger.revoked ELSE ledger.purged
      /\ job.key \in SourceIds
  BY <1>1, Unpacked DEF JobHolds
<1>3. job' \in JobState /\ job'.kind = "none" /\ job'.at = "none"
  BY <1>1 DEF NoJob, JobState
<1>4. \A s \in SourceIds : proj.rows[s] \in Nat
  BY Unpacked DEF StoreState
<1>5. /\ proj' \in StoreState /\ proj'.ok = proj.ok /\ proj'.gen = proj.gen
      /\ proj'.torn = proj.torn /\ proj'.failed = proj.failed
      /\ proj'.tombs \subseteq ledger.revoked
      /\ \A s \in SourceIds : \/ proj'.rows[s] = proj.rows[s]
                              \/ proj'.rows[s] = 0 /\ s \in ledger.purged
  <2>0. proj.tombs \subseteq ledger.revoked
    BY Unpacked DEF StoreHolds
  <2>1. CASE ~proj.ok
    BY <1>1, <2>0, <2>1, Unpacked
  <2>2. CASE proj.ok /\ job.kind = "forget"
    <3>1. proj' = [proj EXCEPT !.tombs = @ \cup {job.key}]
      BY <1>1, <2>2 DEF Tombstone
    <3> QED
      BY <1>2, <2>0, <2>2, <3>1, Unpacked DEF StoreState
  <2>3. CASE proj.ok /\ job.kind # "forget"
    <3>1. proj' = [proj EXCEPT !.rows[job.key] = 0, !.tombs = @ \ {job.key}]
      BY <1>1, <2>3 DEF PurgeRecords
    <3>2. job.key \in ledger.purged
      BY <1>2, <2>3
    <3> QED
      BY <1>2, <2>0, <2>3, <3>1, <3>2, Unpacked DEF StoreState
  <2> QED
    BY <2>1, <2>2, <2>3
<1>6. Steady /\ (Reachable <=> Reachable')
  BY <1>1, <1>4, <1>5 DEF Steady, Reachable
<1>7. Latest <= Latest'
  BY <1>1, <1>3, Unpacked DEF Latest
<1>8. Grown
  BY <1>1, <1>5, <1>6, <1>7, Unpacked DEF Grown
<1>9. Quiet
  BY <1>3, <1>6 DEF Quiet
<1>10. JobHolds'
  BY <1>3 DEF JobHolds
<1>11. StoreHolds(proj)'
  BY <1>1, <1>5, Unpacked DEF StoreHolds
<1> QED
  BY <1>1, <1>3, <1>5, <1>6, <1>8, <1>9, <1>10, <1>11, Unpacked, OperatorStep

LEMMA CorruptKeeps == ASSUME ServingInv, Corrupt PROVE ServingInv'
<1>1. /\ job.kind = "none" /\ proj' = [proj EXCEPT !.ok = FALSE] /\ calls' = Disturbed
      /\ Spend("faults") /\ UNCHANGED <<documents, ledger, copy, job, attached, issued, traces>>
  BY DEF Corrupt
<1>2. /\ spent' \in [packs : Nat, builds : Nat, edits : Nat, faults : Nat, removals : Nat]
      /\ spent'.builds = spent.builds
  BY <1>1, Unpacked, Spending
<1>3. /\ proj' \in StoreState /\ ~proj'.ok /\ proj'.gen = proj.gen /\ proj'.tombs = proj.tombs
      /\ proj'.torn = proj.torn /\ proj'.failed = proj.failed /\ proj'.rows = proj.rows
  BY <1>1, Unpacked DEF StoreState
<1>4. ~Reachable'
  BY <1>3 DEF Reachable
<1>5. Latest <= Latest'
  BY <1>1, <1>2, Unpacked DEF Latest
<1>6. Grown
  BY <1>1, <1>2, <1>3, <1>4, <1>5, Unpacked DEF Grown
<1>7. JobHolds'
  BY <1>1, <1>2, <1>3, Unpacked DEF JobHolds
<1>8. StoreHolds(proj)'
  BY <1>1, <1>2, <1>3, Unpacked DEF StoreHolds
<1> QED
  BY <1>1, <1>2, <1>3, <1>4, <1>6, <1>7, <1>8, Unpacked, OperatorStep

LEMMA RestoreKeeps == ASSUME ServingInv, Restore PROVE ServingInv'
<1>1. /\ job.kind = "none" /\ proj' = copy /\ attached' = FALSE /\ calls' = Disturbed
      /\ Spend("faults") /\ UNCHANGED <<documents, ledger, copy, job, issued, traces>>
  BY DEF Restore
<1>2. /\ spent' \in [packs : Nat, builds : Nat, edits : Nat, faults : Nat, removals : Nat]
      /\ spent'.builds = spent.builds
  BY <1>1, Unpacked, Spending
<1>3. ~Reachable' /\ attached' \in BOOLEAN /\ proj' \in StoreState
  BY <1>1, Unpacked DEF Reachable
<1>4. Latest <= Latest'
  BY <1>1, <1>2, Unpacked DEF Latest
<1>5. Grown
  BY <1>1, <1>2, <1>3, <1>4, Unpacked DEF Grown
<1>6. JobHolds'
  BY <1>1, <1>2, Unpacked DEF JobHolds
<1>7. StoreHolds(proj)'
  BY <1>1, <1>2, Unpacked DEF StoreHolds
<1> QED
  BY <1>1, <1>2, <1>3, <1>5, <1>6, <1>7, Unpacked, OperatorStep

\* The registry is empty and no call is active when the server is new.
LEMMA ReopenKeeps == ASSUME ServingInv, Reopen PROVE ServingInv'
<1>1. /\ \A c \in Calls : calls[c].at = "idle"
      /\ attached' = TRUE /\ issued' = [packs |-> <<>>, order |-> <<>>]
      /\ UNCHANGED <<documents, ledger, proj, copy, job, traces, calls, spent>>
  BY DEF Reopen
<1>2. DOMAIN issued'.packs = {} /\ issued' = [packs |-> issued'.packs, order |-> issued'.order]
  BY <1>1
<1>3. ServingTyped'
  BY <1>1, <1>2, Unpacked DEF ServingTyped
<1>4. PacksHold' /\ CallsHold'
  BY <1>1, <1>2 DEF PacksHold, CallsHold
<1>5. JobHolds' /\ StoreHolds(proj)' /\ StoreHolds(copy)'
  BY <1>1, Unpacked DEF JobHolds, StoreHolds
<1> QED
  BY <1>3, <1>4, <1>5 DEF ServingInv

LEMMA OperateKeeps == ASSUME ServingInv, Operate PROVE ServingInv'
<1>1. ASSUME NEW s \in Editable, NEW v \in 0 .. MaxVersion, Edit(s, v) PROVE ServingInv'
  BY <1>1, EditKeeps
<1>2. ASSUME NEW kind \in {"forget", "purge"}, NEW s \in Editable, SaveLedger(kind, s)
      PROVE  ServingInv'
  BY <1>2, LedgerKeeps
<1> QED
  BY <1>1, <1>2, BeginKeeps, WipeKeeps, IngestKeeps, PublishKeeps, ReportKeeps, ApplyKeeps,
     DieKeeps, CorruptKeeps, RestoreKeeps, ReopenKeeps DEF Operate

-----------------------------------------------------------------------------
(* The calls. *)

\* A step of one call: what is said of the other calls, of the packs and of the
\* store depends on none of the variables it changes.
LEMMA CallMoves ==
  ASSUME ServingInv, NEW c \in Calls, NEW k \in CallState, k.at = "idle" \/ CallHolds(k),
         Moves(c, k), UNCHANGED <<documents, ledger, proj, copy, job, attached>>,
         spent' \in [packs : Nat, builds : Nat, edits : Nat, faults : Nat, removals : Nat],
         spent'.builds = spent.builds, traces' \in Seq(SUBSET SourceIds),
         issued' = [packs |-> issued'.packs, order |-> issued'.order],
         \A p \in DOMAIN issued'.packs : issued'.packs[p] \in PackState /\ PackHolds(issued'.packs[p])
  PROVE  ServingInv'
<1>1. /\ calls \in [Calls -> CallState] /\ calls' = [calls EXCEPT ![c] = k]
      /\ ServingTyped /\ JobHolds /\ StoreHolds(proj) /\ StoreHolds(copy) /\ CallsHold
  BY Unpacked DEF Moves, ServingTyped
<1>2. calls' \in [Calls -> CallState] /\ calls'[c] = k /\ \A d \in Calls : d # c => calls'[d] = calls[d]
  BY <1>1
<1>3. ServingTyped'
  BY <1>1, <1>2 DEF ServingTyped
<1>4. JobHolds' /\ StoreHolds(proj)' /\ StoreHolds(copy)'
  BY <1>1 DEF JobHolds, StoreHolds
<1>5. Latest' = Latest /\ (Reachable' <=> Reachable) /\ Rows' = Rows /\ Left' = Left
  BY DEF Latest, Reachable, Rows, Left
<1>6. PacksHold'
  BY <1>5 DEF PacksHold, PackHolds, Same
<1>7. ASSUME NEW d \in Calls, calls'[d].at # "idle" PROVE CallHolds(calls[d])'
  <2>1. ASSUME NEW j \in CallState, CallHolds(j) PROVE CallHolds(j)'
    BY <1>5, <2>1 DEF CallHolds, StageHolds, HiddenHolds, WholeHolds, VersionHolds, Gated, Same
  <2>2. calls'[d] \in CallState /\ CallHolds(calls'[d])
    <3>1. CASE d = c
      BY <1>2, <1>7, <3>1
    <3>2. CASE d # c
      BY <1>1, <1>2, <1>7, <3>2 DEF CallsHold
    <3> QED
      BY <3>1, <3>2
  <2> QED
    BY <2>1, <2>2 DEF CallHolds, StageHolds, HiddenHolds, WholeHolds, VersionHolds, Gated, Same
<1> QED
  BY <1>3, <1>4, <1>6, <1>7 DEF ServingInv, CallsHold

\* The same for a step that changes the call alone.
LEMMA CallReads ==
  ASSUME ServingInv, NEW c \in Calls, NEW k \in CallState, k.at = "idle" \/ CallHolds(k),
         Moves(c, k), KeepsAll
  PROVE  ServingInv'
<1>1. /\ issued' = issued /\ traces' = traces /\ spent' = spent
      /\ UNCHANGED <<documents, ledger, proj, copy, job, attached>>
  BY DEF KeepsAll
<1>2. /\ traces' \in Seq(SUBSET SourceIds)
      /\ issued' = [packs |-> issued'.packs, order |-> issued'.order]
      /\ \A p \in DOMAIN issued'.packs : issued'.packs[p] \in PackState /\ PackHolds(issued'.packs[p])
  BY <1>1, Unpacked DEF ServingTyped, PacksHold
<1>3. spent' \in [packs : Nat, builds : Nat, edits : Nat, faults : Nat, removals : Nat]
      /\ spent'.builds = spent.builds
  BY <1>1, Unpacked
<1> QED
  BY <1>1, <1>2, <1>3, CallMoves

LEMMA Refuses ==
  ASSUME ServingInv, NEW c \in Calls, Refuse(c), KeepsAll PROVE ServingInv'
BY NoCallTyped, CallReads DEF Refuse

LEMMA Active ==
  ASSUME ServingInv, NEW c \in Calls, calls[c].at # "idle"
  PROVE  calls[c] \in CallState /\ CallHolds(calls[c])
BY Unpacked DEF ServingTyped, CallsHold

LEMMA BeginCallKeeps ==
  ASSUME ServingInv, NEW c \in Calls, NEW op \in Operations, NEW id \in Nat,
         NEW s \in SourceIds \cup {Nothing}, BeginCall(c, op, id, s)
  PROVE  ServingInv'
<1> DEFINE at == CASE op = "expand" -> "lookup" [] op = "status" -> "health"
                   [] op = "explain" -> "file" [] OTHER -> "gate"
           calm == job.kind # "build"
           gone == ledger.revoked \cup ledger.purged
           k == [NoCall EXCEPT !.op = op, !.pack = id, !.wanted = s, !.at = at,
                               !.gone = gone, !.calm = calm]
<1>1. Moves(c, k) /\ KeepsAll
  BY DEF BeginCall, Moves
<1>2. /\ \/ at = "lookup" /\ op = "expand"
         \/ at = "health" /\ op = "status"
         \/ at = "file" /\ op = "explain"
         \/ at = "gate" /\ op \notin {"expand", "explain", "status"}
      /\ at \in Stages /\ gone \in SUBSET SourceIds /\ calm \in BOOLEAN /\ <<>> \in TextSet
  BY Unpacked DEF TextSet, Stages
<1> HIDE DEF at
<1>3. /\ k \in CallState /\ k.op = op /\ k.at = at /\ k.gone = gone /\ k.arms = {}
      /\ k.notices = {} /\ k.gen = 0
      /\ k.calm = calm
  <2> HIDE DEF calm, gone
  <2> QED
    BY <1>2, NoCallTyped DEF CallState
<1>4. k.calm => job.kind # "build"
  BY <1>3
<1> HIDE DEF k, calm
<1>5. StageHolds(k)
  BY <1>2, <1>3, <1>4 DEF StageHolds
<1>6. HiddenHolds(k)
  BY <1>2, <1>3, <1>4 DEF HiddenHolds, Gated
<1>7. WholeHolds(k)
  BY <1>2, <1>3, <1>4 DEF WholeHolds
<1>8. VersionHolds(k)
  BY <1>2, <1>3, <1>4, Unpacked DEF VersionHolds
<1> QED
  BY <1>1, <1>3, <1>5, <1>6, <1>7, <1>8, CallReads DEF CallHolds

LEMMA GateKeeps == ASSUME ServingInv, NEW c \in Calls, GateRecords(c) PROVE ServingInv'
<1> DEFINE call == calls[c]
           gate == IF call.op = "export" THEN Hidden ELSE EffectiveRevoked
           at == IF call.op = "export" THEN "rows" ELSE "health"
           k == [call EXCEPT !.gate = gate, !.at = at]
<1>1. call.at = "gate" /\ Reachable /\ Moves(c, k) /\ KeepsAll
  BY DEF GateRecords
<1>2. call \in CallState /\ CallHolds(call) /\ call.op \notin {"expand", "explain", "status"}
  BY <1>1, Active DEF CallHolds, StageHolds
<1>3. proj.tombs \in SUBSET SourceIds /\ proj.tombs \subseteq ledger.revoked
  BY Unpacked DEF StoreState, StoreHolds
<1>4. /\ gate \in SUBSET SourceIds /\ gate \subseteq ledger.revoked \cup ledger.purged
      /\ call.op = "export" => ledger.revoked \cup ledger.purged \subseteq gate
      /\ ledger.revoked \cup (ledger.purged \cap Rows) \subseteq gate
  BY <1>3, Unpacked DEF Hidden, EffectiveRevoked, Revoked, Rows
<1> HIDE DEF gate, call
<1>5. /\ k \in CallState /\ k.op = call.op /\ k.at = at /\ k.gate = gate /\ k.gone = call.gone
      /\ k.arms = call.arms /\ k.calm = call.calm /\ k.gen = call.gen
      /\ at \in {"rows", "health"} /\ (at = "rows" <=> call.op = "export")
  BY <1>2, <1>4 DEF CallState, Stages
<1> HIDE DEF k, at
<1>6. StageHolds(k)
  BY <1>2, <1>5 DEF StageHolds
<1>7. HiddenHolds(k)
  BY <1>1, <1>2, <1>4, <1>5 DEF HiddenHolds, Gated, CallHolds
<1>8. WholeHolds(k)
  BY <1>2, <1>4, <1>5 DEF WholeHolds, CallHolds
<1>9. VersionHolds(k)
  BY <1>2, <1>5 DEF VersionHolds, CallHolds
<1> QED
  BY <1>1, <1>5, <1>6, <1>7, <1>8, <1>9, CallReads DEF CallHolds

LEMMA HealthTells ==
  /\ Health \in SUBSET Notices
  /\ Health = {} => proj.failed = {} /\ proj.failed # NoReport
<1>1. "unreported" \in Health <=> proj.failed = NoReport
  BY DEF Health
<1>2. "source" \in Health <=> proj.failed # NoReport /\ proj.failed # {}
  BY DEF Health
<1>3. Health \in SUBSET Notices
  BY DEF Health, Notices
<1> QED
  BY <1>1, <1>2, <1>3

LEMMA HealthKeeps == ASSUME ServingInv, NEW c \in Calls, ReadHealth(c) PROVE ServingInv'
<1> DEFINE call == calls[c]
           at == IF call.op = "status" THEN "done" ELSE "records"
           k == [call EXCEPT !.notices = Health, !.at = at]
<1>1. call.at = "health" /\ Reachable /\ Moves(c, k) /\ KeepsAll
  BY DEF ReadHealth
<1>2. call \in CallState /\ CallHolds(call) /\ call.op \notin {"expand", "explain", "export"}
  BY <1>1, Active DEF CallHolds, StageHolds
<1> HIDE DEF call
<1>3. /\ k \in CallState /\ k.op = call.op /\ k.at = at /\ k.gate = call.gate /\ k.gone = call.gone
      /\ k.arms = call.arms /\ k.calm = call.calm /\ k.gen = call.gen /\ k.notices = Health
      /\ at \in {"done", "records"} /\ (at = "done" <=> call.op = "status")
  BY <1>2, HealthTells DEF CallState, Stages
<1> HIDE DEF k, at
<1>4. StageHolds(k)
  BY <1>2, <1>3 DEF StageHolds
<1>5. HiddenHolds(k)
  BY <1>1, <1>2, <1>3 DEF HiddenHolds, Gated, CallHolds
<1>6. WholeHolds(k)
  BY <1>1, <1>2, <1>3, HealthTells DEF WholeHolds, CallHolds
<1>7. VersionHolds(k)
  BY <1>2, <1>3 DEF VersionHolds, CallHolds
<1> QED
  BY <1>1, <1>3, <1>4, <1>5, <1>6, <1>7, CallReads DEF CallHolds

LEMMA RecordsKeeps == ASSUME ServingInv, NEW c \in Calls, ReadRecords(c) PROVE ServingInv'
<1> DEFINE call == calls[c]
           shown == Rows \ (call.gate \cup Scoped)
           text == IF Reachable THEN Shown(shown) ELSE <<>>
           k == [call EXCEPT !.at = "trace", !.text = text]
<1>1. call.at = "records" /\ Moves(c, k) /\ KeepsAll
  BY DEF ReadRecords
<1>2. call \in CallState /\ CallHolds(call)
      /\ call.op \notin {"expand", "explain", "export", "status"}
  BY <1>1, Active DEF CallHolds, StageHolds
<1> HIDE DEF call
<1>3. shown \in SUBSET SourceIds
  BY DEF Rows
<1>4. /\ text \in TextSet
      /\ Reachable => DOMAIN text = shown /\ \A s \in shown : text[s] = proj.rows[s]
      /\ ~Reachable => DOMAIN text = {}
  <2>1. CASE Reachable
    BY <1>3, <2>1, ShownText, Unpacked
  <2>2. CASE ~Reachable
    <3>1. text = <<>>
      BY <2>2
    <3> QED
      BY <2>2, <3>1 DEF TextSet
  <2> QED
    BY <2>1, <2>2
<1> HIDE DEF text
<1>5. /\ k \in CallState /\ k.op = call.op /\ k.at = "trace" /\ k.gone = call.gone
      /\ k.arms = call.arms /\ k.calm = call.calm /\ k.gen = call.gen /\ k.notices = call.notices
      /\ k.text = text
  BY <1>2, <1>4 DEF CallState, Stages
<1> HIDE DEF k
<1>6. StageHolds(k)
  BY <1>2, <1>5 DEF StageHolds
<1>7. HiddenHolds(k)
  <2>1. DOMAIN text \cap call.gone = {}
    BY <1>1, <1>2, <1>4 DEF CallHolds, HiddenHolds, Gated
  <2> QED
    BY <1>1, <1>2, <1>5, <2>1 DEF HiddenHolds, Gated, CallHolds
<1>8. WholeHolds(k)
  <2>1. ASSUME call.calm, ~proj.torn, call.notices = {} PROVE Left \subseteq DOMAIN text
    <3>1. /\ Reachable /\ proj.failed = {} /\ proj.failed # NoReport
          /\ call.gate \subseteq ledger.revoked \cup ledger.purged
      BY <1>1, <1>2, <2>1 DEF CallHolds, WholeHolds
    <3>2. \A s \in SourceIds : proj.rows[s] = 0 => s \in ledger.purged
      BY <2>1, <3>1, Unpacked DEF StoreHolds
    <3>3. Left \subseteq shown
      BY <3>1, <3>2 DEF Left, Rows
    <3> QED
      BY <1>4, <3>1, <3>3
  <2> QED
    BY <1>2, <1>5, <2>1 DEF WholeHolds, CallHolds
<1>9. VersionHolds(k)
  <2>1. Reachable => Same(text)
    BY <1>4 DEF Same
  <2> QED
    BY <1>2, <1>5, <2>1 DEF VersionHolds, CallHolds
<1> QED
  BY <1>1, <1>5, <1>6, <1>7, <1>8, <1>9, CallReads DEF CallHolds

LEMMA Pruned ==
  ASSUME NEW files \in Seq(SUBSET SourceIds) PROVE pruneTraces(files) \in Seq(SUBSET SourceIds)
<1> DEFINE m == (IF Len(files) > MaxTraces THEN Len(files) - MaxTraces ELSE 0) + 1
<1>1. m \in Int /\ Len(files) \in Int /\ m \in Nat /\ m >= 1
  BY ServingAssumption
<1>2. \A i \in m .. Len(files) : files[i] \in SUBSET SourceIds
  <2> HIDE DEF m
  <2>1. ASSUME NEW i \in m .. Len(files) PROVE i \in 1 .. Len(files)
    BY <1>1
  <2> QED
    BY <2>1
<1> HIDE DEF m
<1>3. SubSeq(files, m, Len(files)) \in Seq(SUBSET SourceIds)
  BY <1>1, <1>2, SubSeqProperties
<1> QED
  BY <1>3 DEF pruneTraces, m

\* The trace, the number of the pack: no part of what is said of a call.
LEMMA TraceKeeps == ASSUME ServingInv, NEW c \in Calls, RecordTrace(c) PROVE ServingInv'
<1> DEFINE call == calls[c]
<1>1. /\ call.at = "trace" /\ Spend("packs")
      /\ UNCHANGED <<documents, ledger, proj, copy, job, attached, issued>>
  BY DEF RecordTrace
<1>2. call \in CallState /\ CallHolds(call) /\ DOMAIN call.text \in SUBSET SourceIds
  BY <1>1, Active, TextInSources DEF CallState
<1>3. /\ spent' \in [packs : Nat, builds : Nat, edits : Nat, faults : Nat, removals : Nat]
      /\ spent'.builds = spent.builds /\ spent.packs + 1 \in Nat
  BY <1>1, Unpacked, Spending
<1>4. traces \in Seq(SUBSET SourceIds)
  BY Unpacked DEF ServingTyped
<1>5. traces' \in Seq(SUBSET SourceIds)
  <2>1. Append(traces, DOMAIN call.text) \in Seq(SUBSET SourceIds)
    BY <1>2, <1>4
  <2>2. pruneTraces(Append(traces, DOMAIN call.text)) \in Seq(SUBSET SourceIds)
    BY <2>1, Pruned
  <2> QED
    BY <1>4, <2>2 DEF RecordTrace
<1>6. PICK traced \in BOOLEAN :
        Moves(c, [call EXCEPT !.at = "generation", !.pack = spent.packs + 1, !.traced = traced])
  <2>1. CASE Moves(c, [call EXCEPT !.at = "generation", !.pack = spent.packs + 1])
    <3>1. [call EXCEPT !.at = "generation", !.pack = spent.packs + 1]
          = [call EXCEPT !.at = "generation", !.pack = spent.packs + 1, !.traced = call.traced]
      BY <1>2 DEF CallState
    <3>2. call.traced \in BOOLEAN
      BY <1>2 DEF CallState
    <3> QED
      BY <2>1, <3>1, <3>2
  <2>2. CASE Moves(c, [call EXCEPT !.at = "generation", !.pack = spent.packs + 1, !.traced = FALSE])
    BY <2>2
  <2> QED
    BY <2>1, <2>2 DEF RecordTrace
<1> DEFINE k == [call EXCEPT !.at = "generation", !.pack = spent.packs + 1, !.traced = traced]
<1>7. /\ k \in CallState /\ k.op = call.op /\ k.at = "generation" /\ k.gone = call.gone
      /\ k.arms = call.arms /\ k.calm = call.calm /\ k.gen = call.gen /\ k.notices = call.notices
      /\ k.text = call.text
  <2> HIDE DEF call
  <2> QED
    BY <1>2, <1>3 DEF CallState, Stages
<1>8. Moves(c, k)
  BY <1>6
<1> HIDE DEF k, call
<1>9. CallHolds(k)
  <2>1. StageHolds(k) /\ HiddenHolds(k)
    BY <1>1, <1>2, <1>7 DEF StageHolds, HiddenHolds, Gated, CallHolds
  <2>2. WholeHolds(k)
    BY <1>1, <1>2, <1>7 DEF WholeHolds, CallHolds
  <2>3. VersionHolds(k)
    BY <1>1, <1>2, <1>7 DEF VersionHolds, CallHolds
  <2> QED
    BY <2>1, <2>2, <2>3 DEF CallHolds
<1>10. /\ issued' = [packs |-> issued'.packs, order |-> issued'.order]
       /\ \A p \in DOMAIN issued'.packs : issued'.packs[p] \in PackState /\ PackHolds(issued'.packs[p])
  BY <1>1, Unpacked DEF ServingTyped, PacksHold
<1> QED
  BY <1>1, <1>3, <1>5, <1>7, <1>8, <1>9, <1>10, CallMoves

LEMMA GenerationKeeps == ASSUME ServingInv, NEW c \in Calls, ReadGeneration(c) PROVE ServingInv'
<1> DEFINE call == calls[c]
           gen == IF Reachable THEN proj.gen ELSE 0
           k == [call EXCEPT !.at = "register", !.gen = gen]
<1>1. call.at = "generation" /\ Moves(c, k) /\ KeepsAll
  BY DEF ReadGeneration
<1>2. call \in CallState /\ CallHolds(call)
  BY <1>1, Active
<1> HIDE DEF call
<1>3. gen \in Nat /\ gen <= spent.builds + 1
  BY Unpacked DEF StoreState, StoreHolds
<1> HIDE DEF gen
<1>4. /\ k \in CallState /\ k.op = call.op /\ k.at = "register" /\ k.gone = call.gone
      /\ k.arms = call.arms /\ k.calm = call.calm /\ k.gen = gen /\ k.notices = call.notices
      /\ k.text = call.text
  BY <1>2, <1>3 DEF CallState, Stages
<1> HIDE DEF k
<1>5. StageHolds(k) /\ HiddenHolds(k)
  BY <1>1, <1>2, <1>4 DEF StageHolds, HiddenHolds, Gated, CallHolds
<1>6. WholeHolds(k)
  BY <1>1, <1>2, <1>4 DEF WholeHolds, CallHolds
<1>7. VersionHolds(k)
  <2>1. call.calm => gen <= Latest
    BY <1>2, <1>3 DEF CallHolds, WholeHolds, Latest
  <2> QED
    BY <1>1, <1>2, <1>4, <2>1 DEF VersionHolds, CallHolds
<1> QED
  BY <1>1, <1>4, <1>5, <1>6, <1>7, CallReads DEF CallHolds

LEMMA RegisterKeeps == ASSUME ServingInv, NEW c \in Calls, RegisterPack(c) PROVE ServingInv'
<1> DEFINE call  == calls[c]
           order == Append(issued.order, call.pack)
           kept  == IF Len(order) > MaxIssued THEN Tail(order) ELSE order
           entry == [gen |-> call.gen, old |-> FALSE, text |-> call.text, calm |-> call.calm]
           packs == [p \in DOMAIN issued.packs \cup {call.pack} |->
                        IF p = call.pack THEN entry ELSE issued.packs[p]]
           left  == [p \in DOMAIN packs \cap Range(kept) |-> packs[p]]
           at    == IF call.op = "inputs" THEN "again" ELSE "done"
           k     == [call EXCEPT !.at = at, !.arms = DOMAIN call.text]
<1>1. /\ call.at = "register" /\ issued' = [order |-> kept, packs |-> left] /\ Moves(c, k)
      /\ UNCHANGED <<documents, ledger, proj, copy, job, attached, traces, spent>>
  BY DEF RegisterPack
<1>2. call \in CallState /\ CallHolds(call) /\ DOMAIN call.text \in SUBSET SourceIds
      /\ call.op \notin {"expand", "explain", "export", "status"}
  BY <1>1, Active, TextInSources DEF CallState, CallHolds, StageHolds
<1>3. entry \in PackState /\ PackHolds(entry)
  <2>1. entry \in PackState /\ entry.gen = call.gen /\ entry.text = call.text /\ entry.calm = call.calm
    BY <1>2 DEF CallState, PackState
  <2> HIDE DEF entry
  <2> QED
    BY <1>1, <1>2, <2>1 DEF PackHolds, CallHolds, VersionHolds
<1> HIDE DEF entry
<1>4. ASSUME NEW p \in DOMAIN issued.packs \cup {call.pack}
      PROVE  packs[p] \in PackState /\ PackHolds(packs[p])
  <2>1. CASE p = call.pack
    <3>1. packs[p] = entry
      BY <2>1
    <3> QED
      BY <1>3, <3>1
  <2>2. CASE p # call.pack
    <3>1. packs[p] = issued.packs[p]
      BY <2>2
    <3>2. issued.packs[p] \in PackState /\ PackHolds(issued.packs[p])
      BY <2>2, Unpacked DEF ServingTyped, PacksHold
    <3> QED
      BY <3>1, <3>2
  <2> QED
    BY <2>1, <2>2
<1>5. DOMAIN packs = DOMAIN issued.packs \cup {call.pack}
  OBVIOUS
<1> HIDE DEF packs, kept, order
<1>6. /\ issued' = [packs |-> issued'.packs, order |-> issued'.order]
      /\ \A p \in DOMAIN issued'.packs : issued'.packs[p] \in PackState /\ PackHolds(issued'.packs[p])
  <2>1. issued'.packs = left /\ issued' = [packs |-> issued'.packs, order |-> issued'.order]
    BY <1>1
  <2>2. ASSUME NEW p \in DOMAIN left PROVE left[p] \in PackState /\ PackHolds(left[p])
    <3>1. left[p] = packs[p] /\ p \in DOMAIN issued.packs \cup {call.pack}
      BY <1>5, <2>2
    <3> QED
      BY <1>4, <3>1
  <2> HIDE DEF left
  <2> QED
    BY <2>1, <2>2
<1>7. /\ k \in CallState /\ k.op = call.op /\ k.at = at /\ k.gone = call.gone
      /\ k.arms = DOMAIN call.text /\ k.calm = call.calm /\ k.gen = call.gen
      /\ k.notices = call.notices /\ k.text = call.text /\ at \in {"again", "done"}
  <2> HIDE DEF call
  <2> QED
    BY <1>2 DEF CallState, Stages
<1> HIDE DEF k, at, call
<1>8. StageHolds(k) /\ HiddenHolds(k)
  BY <1>1, <1>2, <1>7 DEF StageHolds, HiddenHolds, Gated, CallHolds
<1>9. WholeHolds(k)
  BY <1>1, <1>2, <1>7 DEF WholeHolds, CallHolds
<1>10. VersionHolds(k)
  BY <1>1, <1>2, <1>7 DEF VersionHolds, CallHolds
<1>11. /\ spent' \in [packs : Nat, builds : Nat, edits : Nat, faults : Nat, removals : Nat]
       /\ spent'.builds = spent.builds /\ traces' \in Seq(SUBSET SourceIds)
  BY <1>1, Unpacked DEF ServingTyped
<1>12. CallHolds(k)
  BY <1>8, <1>9, <1>10 DEF CallHolds
<1>13. Moves(c, k) /\ UNCHANGED <<documents, ledger, proj, copy, job, attached>>
  BY <1>1
<1> QED
  BY <1>6, <1>7, <1>11, <1>12, <1>13, CallMoves

LEMMA EvaluationKeeps ==
  ASSUME ServingInv, NEW c \in Calls, GateAgain(c) \/ ReadEligible(c) \/ Scan(c) \/ ReadFree(c)
  PROVE  ServingInv'
<1> DEFINE call == calls[c]
<1>0. call.at \in {"again", "eligible", "scan", "free"} /\ KeepsAll
  BY DEF GateAgain, ReadEligible, Scan, ReadFree
<1>1. call \in CallState /\ CallHolds(call)
      /\ call.op \notin {"expand", "explain", "export", "status"}
  BY <1>0, Active DEF CallHolds, StageHolds
<1>2. ASSUME NEW k \in CallState, k.op = call.op, k.gone = call.gone, k.text = call.text,
             k.calm = call.calm, k.gen = call.gen, k.notices = call.notices,
             k.at \in {"eligible", "scan", "free", "done"},
             k.arms \cap call.gone = {},
             k.at # "done" => /\ k.gone \subseteq ledger.purged \cup k.gate
                              /\ Reachable => k.gone \cap Rows \subseteq k.gate
      PROVE  CallHolds(k)
  <2> HIDE DEF call
  <2>1. StageHolds(k) /\ HiddenHolds(k)
    BY <1>0, <1>1, <1>2 DEF StageHolds, HiddenHolds, Gated, CallHolds
  <2>2. WholeHolds(k)
    BY <1>0, <1>1, <1>2 DEF WholeHolds, CallHolds
  <2>3. VersionHolds(k)
    BY <1>0, <1>1, <1>2 DEF VersionHolds, CallHolds
  <2> QED
    BY <2>1, <2>2, <2>3 DEF CallHolds
<1>3. call.arms \cap call.gone = {} /\ call.gone \subseteq ledger.revoked \cup ledger.purged
  BY <1>0, <1>1 DEF CallHolds, HiddenHolds
<1>4. CASE GateAgain(c)
  <2> DEFINE k == [call EXCEPT !.gate = EffectiveRevoked, !.at = "eligible"]
  <2>1. call.at = "again" /\ Moves(c, k)
    BY <1>4 DEF GateAgain
  <2>2. /\ EffectiveRevoked \in SUBSET SourceIds
        /\ ledger.revoked \cup (ledger.purged \cap Rows) \subseteq EffectiveRevoked
    BY Unpacked DEF EffectiveRevoked, Revoked, Rows, StoreState
  <2> HIDE DEF call
  <2>3. /\ k \in CallState /\ k.op = call.op /\ k.gone = call.gone /\ k.text = call.text
        /\ k.calm = call.calm /\ k.gen = call.gen /\ k.notices = call.notices
        /\ k.at = "eligible" /\ k.arms = call.arms /\ k.gate = EffectiveRevoked
    BY <1>1, <2>2 DEF CallState, Stages
  <2> HIDE DEF k
  <2>4. CallHolds(k)
    BY <1>2, <1>3, <2>2, <2>3
  <2> QED
    BY <1>0, <2>1, <2>3, <2>4, CallReads
<1>5. CASE ReadEligible(c)
  <2> DEFINE arms == call.arms \cup IF Reachable THEN Rows \ (call.gate \cup Scoped) ELSE {}
             k == [call EXCEPT !.at = "scan", !.arms = arms]
  <2>1. call.at = "eligible" /\ Moves(c, k)
    BY <1>5 DEF ReadEligible
  <2>2. /\ call.gone \subseteq ledger.purged \cup call.gate
        /\ Reachable => call.gone \cap Rows \subseteq call.gate
    BY <1>1, <2>1 DEF CallHolds, HiddenHolds, Gated
  <2>3. arms \in SUBSET SourceIds /\ arms \cap call.gone = {}
    BY <1>1, <1>3, <2>2 DEF Rows, CallState
  <2> HIDE DEF call, arms
  <2>4. /\ k \in CallState /\ k.op = call.op /\ k.gone = call.gone /\ k.text = call.text
        /\ k.calm = call.calm /\ k.gen = call.gen /\ k.notices = call.notices
        /\ k.at = "scan" /\ k.arms = arms /\ k.gate = call.gate
    BY <1>1, <2>3 DEF CallState, Stages
  <2> HIDE DEF k
  <2>5. CallHolds(k)
    BY <1>2, <2>2, <2>3, <2>4
  <2> QED
    BY <1>0, <2>1, <2>4, <2>5, CallReads
<1>6. CASE Scan(c)
  <2> DEFINE at == IF NoScopeRefused THEN "done" ELSE "free"
             k == [call EXCEPT !.at = at]
  <2>1. call.at = "scan" /\ Moves(c, k)
    BY <1>6 DEF Scan
  <2>2. /\ call.gone \subseteq ledger.purged \cup call.gate
        /\ Reachable => call.gone \cap Rows \subseteq call.gate
    BY <1>1, <2>1 DEF CallHolds, HiddenHolds, Gated
  <2>3. at \in {"done", "free"}
    OBVIOUS
  <2> HIDE DEF call, at
  <2>4. /\ k \in CallState /\ k.op = call.op /\ k.gone = call.gone /\ k.text = call.text
        /\ k.calm = call.calm /\ k.gen = call.gen /\ k.notices = call.notices
        /\ k.at = at /\ k.arms = call.arms /\ k.gate = call.gate
    BY <1>1, <2>3 DEF CallState, Stages
  <2> HIDE DEF k
  <2>5. CallHolds(k)
    BY <1>2, <1>3, <2>2, <2>3, <2>4
  <2> QED
    BY <1>0, <2>1, <2>4, <2>5, CallReads
<1>7. CASE ReadFree(c)
  <2> DEFINE arms == call.arms \cup IF Reachable THEN Rows \ call.gate ELSE {}
             k == [call EXCEPT !.at = "done", !.arms = arms]
  <2>1. call.at = "free" /\ Moves(c, k)
    BY <1>7 DEF ReadFree
  <2>2. Reachable => call.gone \cap Rows \subseteq call.gate
    BY <1>1, <2>1 DEF CallHolds, HiddenHolds, Gated
  <2>3. arms \in SUBSET SourceIds /\ arms \cap call.gone = {}
    BY <1>1, <1>3, <2>2 DEF Rows, CallState
  <2> HIDE DEF call, arms
  <2>4. /\ k \in CallState /\ k.op = call.op /\ k.gone = call.gone /\ k.text = call.text
        /\ k.calm = call.calm /\ k.gen = call.gen /\ k.notices = call.notices
        /\ k.at = "done" /\ k.arms = arms
    BY <1>1, <2>3 DEF CallState, Stages
  <2> HIDE DEF k
  <2>5. CallHolds(k)
    BY <1>2, <2>3, <2>4
  <2> QED
    BY <1>0, <2>1, <2>4, <2>5, CallReads
<1> QED
  BY <1>4, <1>5, <1>6, <1>7

LEMMA LookupKeeps == ASSUME ServingInv, NEW c \in Calls, Lookup(c) PROVE ServingInv'
<1> DEFINE call == calls[c]
           p == call.pack
           held == p \in DOMAIN issued.packs
           expired == held /\ issued.packs[p].old
           found == held /\ ~expired /\ call.wanted \in DOMAIN issued.packs[p].text
           fewer == [q \in DOMAIN issued.packs \ {p} |-> issued.packs[q]]
           pack == issued.packs[p]
           k == [call EXCEPT !.at = "current", !.gen = pack.gen, !.text = pack.text,
                             !.calm = call.calm /\ pack.calm]
<1>1. /\ call.at = "lookup" /\ IF found THEN Moves(c, k) ELSE Moves(c, NoCall)
      /\ issued' = IF expired THEN [issued EXCEPT !.packs = fewer] ELSE issued
      /\ UNCHANGED <<documents, ledger, proj, copy, job, attached, traces, spent>>
  BY DEF Lookup, Refuse
<1>2. call \in CallState /\ CallHolds(call) /\ call.op = "expand"
  BY <1>1, Active DEF CallHolds, StageHolds
<1>3. /\ issued = [packs |-> issued.packs, order |-> issued.order]
      /\ \A q \in DOMAIN issued.packs : issued.packs[q] \in PackState /\ PackHolds(issued.packs[q])
  BY Unpacked DEF ServingTyped, PacksHold
<1>4. /\ issued' = [packs |-> issued'.packs, order |-> issued'.order]
      /\ \A q \in DOMAIN issued'.packs : issued'.packs[q] \in PackState /\ PackHolds(issued'.packs[q])
  <2>1. CASE expired
    <3>1. issued' = [issued EXCEPT !.packs = fewer]
      BY <1>1, <2>1
    <3>2. issued' = [packs |-> fewer, order |-> issued.order]
      <4> HIDE DEF fewer
      <4> QED
        BY <1>3, <3>1
    <3>3. \A q \in DOMAIN fewer : fewer[q] \in PackState /\ PackHolds(fewer[q])
      <4>1. ASSUME NEW q \in DOMAIN fewer PROVE fewer[q] = issued.packs[q] /\ q \in DOMAIN issued.packs
        BY <4>1
      <4> HIDE DEF fewer
      <4> QED
        BY <1>3, <4>1
    <3> HIDE DEF fewer
    <3>4. issued'.packs = fewer /\ issued'.order = issued.order
      BY <3>2
    <3> QED
      BY <3>2, <3>3, <3>4
  <2>2. CASE ~expired
    BY <1>1, <1>3, <2>2
  <2> QED
    BY <2>1, <2>2
<1>5. /\ spent' \in [packs : Nat, builds : Nat, edits : Nat, faults : Nat, removals : Nat]
      /\ spent'.builds = spent.builds /\ traces' \in Seq(SUBSET SourceIds)
  BY <1>1, Unpacked DEF ServingTyped
<1>6. CASE ~found
  <2>1. Moves(c, NoCall)
    BY <1>1, <1>6
  <2> QED
    BY <1>1, <1>4, <1>5, <2>1, NoCallTyped, CallMoves
<1>7. CASE found
  <2>1. Moves(c, k) /\ pack \in PackState /\ PackHolds(pack) /\ call.wanted \in DOMAIN pack.text
    BY <1>1, <1>3, <1>7
  <2>2. (call.calm /\ pack.calm) \in BOOLEAN /\ pack.gen \in Nat /\ pack.text \in TextSet
    BY <2>1 DEF PackState
  <2> DEFINE calm == call.calm /\ pack.calm
  <2> HIDE DEF call, pack, calm
  <2>3. /\ k \in CallState /\ k.op = "expand" /\ k.at = "current" /\ k.gone = call.gone
        /\ k.arms = call.arms /\ k.calm = calm /\ k.gen = pack.gen /\ k.notices = call.notices
        /\ k.text = pack.text /\ k.wanted = call.wanted
    BY <1>2, <2>2 DEF CallState, Stages, calm
  <2>4. k.calm => call.calm /\ pack.calm
    BY <2>3 DEF calm
  <2>5. Moves(c, k)
    BY <2>1
  <2> HIDE DEF k
  <2>6. StageHolds(k) /\ HiddenHolds(k)
    BY <1>1, <1>2, <2>3 DEF StageHolds, HiddenHolds, Gated, CallHolds
  <2>7. WholeHolds(k)
    BY <1>1, <1>2, <2>3, <2>4 DEF WholeHolds, CallHolds
  <2>8. VersionHolds(k)
    BY <1>1, <1>2, <2>1, <2>3, <2>4 DEF VersionHolds, CallHolds, PackHolds
  <2> QED
    BY <1>1, <1>4, <1>5, <2>3, <2>5, <2>6, <2>7, <2>8, CallMoves DEF CallHolds
<1> QED
  BY <1>6, <1>7

LEMMA CheckKeeps == ASSUME ServingInv, NEW c \in Calls, CheckGeneration(c) PROVE ServingInv'
<1> DEFINE call == calls[c]
           gen == IF Reachable THEN proj.gen ELSE 0
           k == [call EXCEPT !.at = "visible"]
<1>1. /\ call.at = "current" /\ KeepsAll
      /\ IF gen = call.gen THEN Moves(c, k) ELSE Refuse(c)
  BY DEF CheckGeneration
<1>2. call \in CallState /\ CallHolds(call) /\ call.op = "expand"
  BY <1>1, Active DEF CallHolds, StageHolds
<1>3. CASE gen # call.gen
  BY <1>1, <1>3, Refuses
<1>4. CASE gen = call.gen
  <2>1. Moves(c, k) /\ (Reachable => call.gen = proj.gen)
    BY <1>1, <1>4
  <2> HIDE DEF call, gen
  <2>2. /\ k \in CallState /\ k.op = call.op /\ k.at = "visible" /\ k.gone = call.gone
        /\ k.arms = call.arms /\ k.calm = call.calm /\ k.gen = call.gen /\ k.notices = call.notices
        /\ k.text = call.text /\ k.wanted = call.wanted
    BY <1>2 DEF CallState, Stages
  <2> HIDE DEF k
  <2>3. StageHolds(k) /\ HiddenHolds(k)
    BY <1>1, <1>2, <2>2 DEF StageHolds, HiddenHolds, Gated, CallHolds
  <2>4. WholeHolds(k)
    BY <1>1, <1>2, <2>2 DEF WholeHolds, CallHolds
  <2>5. VersionHolds(k)
    BY <1>1, <1>2, <2>1, <2>2 DEF VersionHolds, CallHolds
  <2> QED
    BY <1>1, <2>1, <2>2, <2>3, <2>4, <2>5, CallReads DEF CallHolds
<1> QED
  BY <1>3, <1>4

LEMMA VisibilityKeeps == ASSUME ServingInv, NEW c \in Calls, ReadVisibility(c) PROVE ServingInv'
<1> DEFINE call == calls[c]
           k == [call EXCEPT !.gate = Hidden, !.at = "row"]
<1>1. call.at = "visible" /\ Reachable /\ Moves(c, k) /\ KeepsAll
  BY DEF ReadVisibility
<1>2. call \in CallState /\ CallHolds(call) /\ call.op \in {"expand", "explain"}
  BY <1>1, Active DEF CallHolds, StageHolds
<1>3. Hidden \in SUBSET SourceIds /\ ledger.revoked \cup ledger.purged \subseteq Hidden
  BY Unpacked DEF Hidden, Revoked, StoreState
<1> HIDE DEF call
<1>4. /\ k \in CallState /\ k.op = call.op /\ k.at = "row" /\ k.gone = call.gone
      /\ k.arms = call.arms /\ k.calm = call.calm /\ k.gen = call.gen /\ k.notices = call.notices
      /\ k.text = call.text /\ k.wanted = call.wanted /\ k.gate = Hidden
  BY <1>2, <1>3 DEF CallState, Stages
<1> HIDE DEF k
<1>5. StageHolds(k) /\ HiddenHolds(k)
  BY <1>1, <1>2, <1>3, <1>4 DEF StageHolds, HiddenHolds, Gated, CallHolds
<1>6. WholeHolds(k)
  BY <1>1, <1>2, <1>4 DEF WholeHolds, CallHolds
<1>7. VersionHolds(k)
  BY <1>1, <1>2, <1>4 DEF VersionHolds, CallHolds
<1> QED
  BY <1>1, <1>4, <1>5, <1>6, <1>7, CallReads DEF CallHolds

LEMMA RowKeeps ==
  ASSUME ServingInv, NEW c \in Calls, calls[c].op = "expand", ReadRow(c) PROVE ServingInv'
<1> DEFINE call == calls[c]
           s == call.wanted
           notices == IF proj.rows[s] = call.text[s] THEN {} ELSE {"other version"}
           k == [call EXCEPT !.at = "done", !.arms = {s}, !.notices = notices]
<1>1. /\ call.at = "row" /\ Reachable /\ KeepsAll
      /\ IF s \in Rows \ (call.gate \cup Scoped) THEN Moves(c, k) ELSE Refuse(c)
  BY DEF ReadRow
<1>2. call \in CallState /\ CallHolds(call)
  BY <1>1, Active
<1>3. CASE s \notin Rows \ (call.gate \cup Scoped)
  BY <1>1, <1>3, Refuses
<1>4. CASE s \in Rows \ (call.gate \cup Scoped)
  <2>1. /\ Moves(c, k) /\ s \in SourceIds /\ proj.rows[s] # 0 /\ s \notin call.gone
        /\ notices \in SUBSET Notices
    BY <1>1, <1>2, <1>4 DEF Rows, CallHolds, HiddenHolds, Notices
  <2>2. call.calm /\ ~proj.torn => notices = {}
    <3>1. call.calm /\ ~proj.torn => Same(call.text) /\ s \in DOMAIN call.text
      BY <1>1, <1>2 DEF CallHolds, VersionHolds
    <3> QED
      BY <2>1, <3>1 DEF Same
  <2>3. s = call.wanted
    OBVIOUS
  <2> HIDE DEF call, notices, s
  <2>4. /\ k \in CallState /\ k.op = call.op /\ k.at = "done" /\ k.gone = call.gone
        /\ k.arms = {s} /\ k.calm = call.calm /\ k.gen = call.gen /\ k.notices = notices
        /\ k.text = call.text
    BY <1>2, <2>1 DEF CallState, Stages
  <2>5. k.op = "expand"
    BY <2>4 DEF call
  <2> HIDE DEF k
  <2>6. StageHolds(k) /\ HiddenHolds(k)
    BY <1>2, <2>1, <2>4 DEF StageHolds, HiddenHolds, Gated, CallHolds
  <2>7. WholeHolds(k)
    BY <1>2, <2>4, <2>5 DEF WholeHolds, CallHolds
  <2>8. VersionHolds(k)
    BY <1>2, <2>2, <2>4, <2>5 DEF VersionHolds, CallHolds
  <2> QED
    BY <1>1, <2>1, <2>4, <2>6, <2>7, <2>8, CallReads DEF CallHolds
<1> QED
  BY <1>3, <1>4

LEMMA ExportKeeps ==
  ASSUME ServingInv, NEW c \in Calls, ReadTrace(c) \/ ExportRows(c) \/ ExplainRows(c)
  PROVE  ServingInv'
<1> DEFINE call == calls[c]
<1>0. call.at \in {"file", "rows", "row"} /\ KeepsAll
  BY DEF ReadTrace, ExportRows, ExplainRows
<1>1. call \in CallState /\ CallHolds(call)
  BY <1>0, Active
<1>2. call.op \in {"explain", "export"}
  BY <1>0, <1>1 DEF CallHolds, StageHolds, ReadTrace, ExportRows, ExplainRows
<1>3. ASSUME NEW k \in CallState, k.op = call.op, k.gone = call.gone, k.calm = call.calm,
             k.gen = call.gen, k.notices = call.notices,
             \/ k.at = "visible" /\ call.op = "explain"
             \/ k.at = "done" /\ k.arms \cap call.gone = {}
      PROVE  CallHolds(k)
  <2> HIDE DEF call
  <2>1. StageHolds(k) /\ HiddenHolds(k)
    BY <1>1, <1>2, <1>3 DEF StageHolds, HiddenHolds, Gated, CallHolds
  <2>2. WholeHolds(k)
    BY <1>1, <1>2, <1>3, <1>0 DEF WholeHolds, CallHolds
  <2>3. VersionHolds(k)
    BY <1>1, <1>2, <1>3 DEF VersionHolds, CallHolds
  <2> QED
    BY <2>1, <2>2, <2>3 DEF CallHolds
<1>4. CASE ReadTrace(c)
  <2>1. PICK i \in DOMAIN traces : Moves(c, [call EXCEPT !.at = "visible", !.arms = traces[i]])
    BY <1>4 DEF ReadTrace
  <2> DEFINE k == [call EXCEPT !.at = "visible", !.arms = traces[i]]
  <2>2. traces[i] \in SUBSET SourceIds /\ call.op = "explain"
    <3>1. traces \in Seq(SUBSET SourceIds)
      BY Unpacked DEF ServingTyped
    <3>2. traces[i] \in SUBSET SourceIds
      BY <2>1, <3>1
    <3>3. call.at = "file"
      BY <1>4 DEF ReadTrace
    <3> QED
      BY <1>1, <3>2, <3>3 DEF CallHolds, StageHolds
  <2>3. Moves(c, k)
    BY <2>1
  <2> HIDE DEF call
  <2>4. /\ k \in CallState /\ k.op = call.op /\ k.gone = call.gone /\ k.calm = call.calm
        /\ k.gen = call.gen /\ k.notices = call.notices /\ k.at = "visible"
    BY <1>1, <2>2 DEF CallState, Stages
  <2> HIDE DEF k
  <2>5. CallHolds(k)
    BY <1>3, <2>2, <2>4
  <2> QED
    BY <1>0, <2>3, <2>4, <2>5, CallReads
<1>5. CASE ExportRows(c)
  <2> DEFINE arms == Rows \ call.gate
             k == [call EXCEPT !.at = "done", !.arms = arms]
  <2>1. call.at = "rows" /\ Moves(c, k)
    BY <1>5 DEF ExportRows
  <2>2. arms \in SUBSET SourceIds /\ arms \cap call.gone = {}
    BY <1>1, <2>1 DEF Rows, CallHolds, HiddenHolds
  <2> HIDE DEF call, arms
  <2>3. /\ k \in CallState /\ k.op = call.op /\ k.gone = call.gone /\ k.calm = call.calm
        /\ k.gen = call.gen /\ k.notices = call.notices /\ k.at = "done" /\ k.arms = arms
    BY <1>1, <2>2 DEF CallState, Stages
  <2> HIDE DEF k
  <2>4. CallHolds(k)
    BY <1>3, <2>2, <2>3
  <2> QED
    BY <1>0, <2>1, <2>3, <2>4, CallReads
<1>6. CASE ExplainRows(c)
  <2> DEFINE arms == call.arms \cap (Rows \ (call.gate \cup Scoped))
             k == [call EXCEPT !.at = "done", !.arms = arms]
  <2>1. call.at = "row" /\ Moves(c, k)
    BY <1>6 DEF ExplainRows
  <2>2. arms \in SUBSET SourceIds /\ arms \cap call.gone = {}
    BY <1>1, <2>1 DEF Rows, CallHolds, HiddenHolds
  <2> HIDE DEF call, arms
  <2>3. /\ k \in CallState /\ k.op = call.op /\ k.gone = call.gone /\ k.calm = call.calm
        /\ k.gen = call.gen /\ k.notices = call.notices /\ k.at = "done" /\ k.arms = arms
    BY <1>1, <2>2 DEF CallState, Stages
  <2> HIDE DEF k
  <2>4. CallHolds(k)
    BY <1>3, <2>2, <2>3
  <2> QED
    BY <1>0, <2>1, <2>3, <2>4, CallReads
<1> QED
  BY <1>4, <1>5, <1>6

LEMMA AgeKeeps == ASSUME ServingInv, NEW p \in DOMAIN issued.packs, Age(p) PROVE ServingInv'
<1>1. /\ issued' = [issued EXCEPT !.packs[p].old = TRUE]
      /\ UNCHANGED <<documents, ledger, proj, copy, job, attached, traces, calls, spent>>
  BY DEF Age
<1>2. /\ issued = [packs |-> issued.packs, order |-> issued.order]
      /\ \A q \in DOMAIN issued.packs : issued.packs[q] \in PackState /\ PackHolds(issued.packs[q])
      /\ ServingTyped /\ JobHolds /\ StoreHolds(proj) /\ StoreHolds(copy) /\ CallsHold
  BY Unpacked DEF ServingTyped, PacksHold
<1> DEFINE aged == [issued.packs[p] EXCEPT !.old = TRUE]
<1>3. aged \in PackState /\ PackHolds(aged)
  <2>1. issued.packs[p] \in PackState /\ PackHolds(issued.packs[p])
    BY <1>2
  <2>2. /\ aged \in PackState /\ aged.gen = issued.packs[p].gen /\ aged.text = issued.packs[p].text
        /\ aged.calm = issued.packs[p].calm
    BY <2>1 DEF PackState
  <2> HIDE DEF aged
  <2> QED
    BY <2>1, <2>2 DEF PackHolds
<1>4. /\ issued' = [packs |-> [issued.packs EXCEPT ![p] = aged], order |-> issued.order]
  BY <1>1, <1>2
<1> HIDE DEF aged
<1>5. /\ issued' = [packs |-> issued'.packs, order |-> issued'.order]
      /\ \A q \in DOMAIN issued'.packs : issued'.packs[q] \in PackState /\ PackHolds(issued'.packs[q])
  <2>1. issued'.packs = [issued.packs EXCEPT ![p] = aged] /\ issued'.order = issued.order
    BY <1>4
  <2>2. ASSUME NEW q \in DOMAIN issued'.packs
        PROVE  /\ q \in DOMAIN issued.packs
               /\ issued'.packs[q] = aged \/ issued'.packs[q] = issued.packs[q]
    BY <2>1, <2>2
  <2> QED
    BY <1>2, <1>3, <1>4, <2>1, <2>2
<1>6. ServingTyped'
  BY <1>1, <1>2, <1>5 DEF ServingTyped
<1>7. Latest' = Latest /\ (Reachable' <=> Reachable) /\ Rows' = Rows /\ Left' = Left
  BY <1>1 DEF Latest, Reachable, Rows, Left
<1>8. PacksHold'
  BY <1>1, <1>5, <1>7 DEF PacksHold, PackHolds, Same
<1>9. JobHolds' /\ StoreHolds(proj)' /\ StoreHolds(copy)'
  BY <1>1, <1>2 DEF JobHolds, StoreHolds
<1>10. CallsHold'
  BY <1>1, <1>2, <1>7 DEF CallsHold, CallHolds, StageHolds, HiddenHolds, WholeHolds, VersionHolds,
     Gated, Same
<1> QED
  BY <1>6, <1>8, <1>9, <1>10 DEF ServingInv

-----------------------------------------------------------------------------
LEMMA CallsKeep == ASSUME ServingInv, NEW c \in Calls, CallsFor(c) \/ ServeCall(c) PROVE ServingInv'
<1>1. CASE CallsFor(c)
  <2>1. ASSUME NEW op \in Operations, BeginCall(c, op, 0, Nothing) PROVE ServingInv'
    BY <2>1, BeginCallKeeps
  <2>2. ASSUME "expand" \in Operations, NEW id \in 1 .. spent.packs, NEW s \in SourceIds,
               BeginCall(c, "expand", id, s)
        PROVE  ServingInv'
    <3>1. id \in Nat
      BY <2>2, Unpacked
    <3> QED
      BY <2>2, <3>1, BeginCallKeeps
  <2> QED
    BY <1>1, <2>1, <2>2 DEF CallsFor
<1>2. CASE EndCall(c) \/ FailClosed(c)
  BY <1>2, Refuses, NoCallTyped, CallReads DEF EndCall, FailClosed
<1> QED
  BY <1>1, <1>2, GateKeeps, HealthKeeps, RecordsKeeps, TraceKeeps, GenerationKeeps, RegisterKeeps,
     EvaluationKeeps, LookupKeeps, CheckKeeps, RowKeeps, VisibilityKeeps, ExportKeeps DEF ServeCall

LEMMA ServingStep == ServingInv /\ [ServingNext]_servingVars => ServingInv'
<1> SUFFICES ASSUME ServingInv, [ServingNext]_servingVars PROVE ServingInv'
  OBVIOUS
<1>1. CASE UNCHANGED servingVars
  <2>1. UNCHANGED <<documents, ledger, proj, copy, job, attached, issued, traces, calls, spent>>
    BY <1>1 DEF servingVars
  <2> QED
    BY <2>1 DEF ServingInv, ServingTyped, JobHolds, StoreHolds, PacksHold, PackHolds, Latest,
       Reachable, Same, CallsHold, CallHolds, StageHolds, HiddenHolds, WholeHolds, VersionHolds,
       Gated, Rows, Left
<1> QED
  BY <1>1, OperateKeeps, CallsKeep, AgeKeeps DEF ServingNext

LEMMA ServingAlways == ServingSpec => []ServingInv
BY ServingInitHolds, ServingStep, PTL DEF ServingSpec

\* Nothing that was forgotten or purged when a call began is in its answer, on
\* any read surface and in any arm of the evaluation inputs, whatever builds,
\* removals, restored stores and failures run beside it (visibility.go).
THEOREM NothingGoneIsEverShown == ServingSpec => []NothingGoneIsShown
<1>1. ServingInv => NothingGoneIsShown
  <2> SUFFICES ASSUME ServingInv, NEW c \in Calls, Answered(c, Operations)
               PROVE  calls[c].arms \cap calls[c].gone = {}
    BY DEF NothingGoneIsShown
  <2>1. calls[c].at = "done"
    BY DEF Answered
  <2> QED
    BY <2>1, Active DEF CallHolds, HiddenHolds
<1> QED
  BY <1>1, ServingAlways, PTL

\* A pack that calls itself complete leaves out no registered record of the
\* workspace but the removed ones, if no build ran into it (health.go, app.go
\* BuildProfile).
THEOREM CompletePacksAreWhole == ServingSpec => []CompleteIsWhole
<1>1. ServingInv => CompleteIsWhole
  <2> SUFFICES ASSUME ServingInv, NEW c \in Calls, Answered(c, {"resolve", "inputs"}), calls[c].calm,
                      ~proj.torn, calls[c].notices = {}
               PROVE  Left \subseteq DOMAIN calls[c].text
    BY DEF CompleteIsWhole, Left
  <2>1. calls[c].at = "done" /\ calls[c].op \in {"resolve", "inputs"}
    BY DEF Answered
  <2> QED
    BY <2>1, Active DEF CallHolds, WholeHolds
<1> QED
  BY <1>1, ServingAlways, PTL

\* An expansion shows the version that its pack was resolved from, if no build
\* ran into either call: packs of earlier builds are refused (expand.go).
THEOREM ExpansionsAreOfTheirPack == ServingSpec => []ExpansionIsOfThePack
<1>1. ServingInv => ExpansionIsOfThePack
  <2> SUFFICES ASSUME ServingInv, NEW c \in Calls, Answered(c, {"expand"}), calls[c].calm, ~proj.torn
               PROVE  calls[c].notices = {}
    BY DEF ExpansionIsOfThePack
  <2>1. calls[c].at = "done" /\ calls[c].op = "expand"
    BY DEF Answered
  <2> QED
    BY <2>1, Active DEF CallHolds, VersionHolds
<1> QED
  BY <1>1, ServingAlways, PTL

=============================================================================
