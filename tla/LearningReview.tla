----------------------------- MODULE LearningReview -----------------------------
(* The observation queue of agents' feedback and its review by the operator   *)
(* (internal/learning/store.go, internal/app/learning.go, cmd/beme/mcp.go      *)
(* report_feedback, cmd/beme/candidate.go).                                    *)
(*                                                                             *)
(* Every call opens the store of its own: it loads the purge ledger and        *)
(* indexes the rejected proposals before it takes the maintenance lock. What   *)
(* it finds and writes under the lock is read again then. A text stands for a  *)
(* kind and a normalised hypothesis, which is what a fingerprint tells apart.  *)
EXTENDS Naturals, FiniteSets

CONSTANTS
    Callers,
    Texts, Families,
    Answers,         \* the review actions tried
    MaxFiles, MaxCallsMade, MaxMishaps,   \* bounds of the instance
    NoText

\* The answers of Review; the last four stand for defer, situational,
\* scope_limit and counterexample, and are named for the status they give.
ASSUME ReviewAssumption ==
    /\ MaxFiles \in Nat
    /\ Answers \subseteq {"approve", "reject", "edit", "merge",
                          "deferred", "situational", "scope_limited", "pending_review"}

VARIABLES
    files,      \* the observations directory, by observation id
    purged,     \* the ids hidden by the durable ledger
    lockedBy,   \* the callers that hold the maintenance lock, one at most
    asked,      \* what every caller is doing
    tally       \* ghosts: reports accepted and in doubt by id, and the bounds used

learningVars == <<files, purged, lockedBy, asked, tally>>

Ids == 1 .. MaxFiles

Gone     == [on |-> FALSE, text |-> NoText, family |-> NoText, count |-> 0, status |-> "gone",
             print |-> NoText, edited |-> FALSE, over |-> FALSE, missed |-> {}]
Asking   == [at |-> "idle", op |-> "none", text |-> NoText, family |-> NoText, id |-> 0,
             answer |-> "none", hidden |-> {}, index |-> {}, unread |-> {}, got |-> Gone,
             knew |-> {}, before |-> {}, shown |-> {}]

LearningInit ==
    /\ files = [i \in Ids |-> Gone] /\ purged = {} /\ lockedBy = {}
    /\ asked = [c \in Callers |-> Asking]
    /\ tally = [accepted |-> [i \in Ids |-> 0], doubtful |-> [i \in Ids |-> 0],
                made |-> 0, mishaps |-> 0]

Present == {i \in Ids : files[i].on}
Visible(c) == Present \ asked[c].hidden
isTerminalReject(status) == status \in {"rejected", "superseded"}

Becomes(c, changes) == asked' = [asked EXCEPT ![c] = changes]

\* A call ends: the lock is released by a deferred function, or by the
\* system when the process dies.
Ends(c) ==
    /\ Becomes(c, Asking)
    /\ lockedBy' = lockedBy \ {c}

\* A scan of the directory passes over the files that it cannot read or that do
\* not parse: unlike a failed read of one file by its id, that is no error.
PassesOver(c, missed) ==
    /\ missed # {} => tally.mishaps < MaxMishaps
    /\ tally' = [tally EXCEPT !.mishaps = @ + (IF missed = {} THEN 0 ELSE 1)]

------------------------------------------------------------------------------
\* A call arrives. Ghosts: the rejections to be seen, and what was purged.
Arrive(c, op, text, family, id, answer) ==
    /\ asked[c].at = "idle" /\ tally.made < MaxCallsMade
    /\ Becomes(c, [Asking EXCEPT !.at = "ledger", !.op = op, !.text = text, !.family = family,
                     !.id = id, !.answer = answer, !.before = purged,
                     !.knew = {i \in Present \ purged : isTerminalReject(files[i].status)}])
    /\ tally' = [tally EXCEPT !.made = @ + 1]
    /\ UNCHANGED <<files, purged, lockedBy>>

\* OpenLearning: the hidden observations are those of the ledger as it is now.
OpenLearning(c) ==
    /\ asked[c].at = "ledger"
    /\ Becomes(c, [asked[c] EXCEPT !.hidden = purged, !.at = "open"])
    /\ UNCHANGED <<files, purged, lockedBy, tally>>

\* OpenWith: the fingerprints of the rejected proposals that can be read. Ghost:
\* the files that cannot.
OpenWith(c) ==
    /\ asked[c].at = "open"
    /\ \E missed \in SUBSET Visible(c) :
          /\ PassesOver(c, missed)
          /\ Becomes(c, [asked[c] EXCEPT
                !.index = {files[i].print : i \in {j \in Visible(c) \ missed :
                                                      isTerminalReject(files[j].status)}},
                !.unread = missed,
                !.at = IF asked[c].op = "list" THEN "list" ELSE "lock"])
    /\ UNCHANGED <<files, purged, lockedBy>>

\* List, of candidate list: no lock.
List(c) ==
    /\ asked[c].at = "list"
    /\ \E missed \in SUBSET Visible(c) :
          /\ PassesOver(c, missed)
          /\ Becomes(c, [asked[c] EXCEPT !.shown = Visible(c) \ missed, !.at = "shown"])
    /\ UNCHANGED <<files, purged, lockedBy>>

\* The answer is read.
Answered(c) ==
    /\ asked[c].at = "shown" /\ Ends(c)
    /\ UNCHANGED <<files, purged, tally>>

Lock(c) ==
    /\ asked[c].at = "lock" /\ lockedBy = {}
    /\ lockedBy' = {c} /\ Becomes(c, [asked[c] EXCEPT !.at = "find"])
    /\ UNCHANGED <<files, purged, tally>>

------------------------------------------------------------------------------
(* Observe *)

\* Variant: an approved observation takes up a repetition as well.
FindApprovedToo(c, missed) ==
    {i \in Visible(c) \ missed :
        /\ files[i].text = asked[c].text /\ files[i].family = asked[c].family
        /\ ~isTerminalReject(files[i].status)}

\* findByFingerprint; names are random, so which match comes first is open.
findByFingerprint(c, missed) ==
    {i \in Visible(c) \ missed :
        /\ files[i].text = asked[c].text /\ files[i].family = asked[c].family
        /\ ~isTerminalReject(files[i].status) /\ files[i].status # "approved"}

\* The observation of a first report. Ghosts: whether the call knew of a rejection
\* of it that it could read, and the files its search for others passed over.
First(c, missed) ==
    [Gone EXCEPT !.on = TRUE, !.text = asked[c].text, !.family = asked[c].family,
        !.count = 1, !.status = "quarantined", !.missed = missed,
        !.over = \E r \in asked[c].knew \ (purged \cup asked[c].unread) :
                    files[r].on /\ files[r].text = asked[c].text]

\* Tombstone check first, then the family's live observation, or a new one: also
\* when the directory cannot be read, which passes over every file.
Observe(c) ==
    /\ asked[c].at = "find" /\ asked[c].op = "observe"
    /\ IF asked[c].text \in asked[c].index
         THEN Ends(c) /\ UNCHANGED tally
         ELSE \E missed \in SUBSET Visible(c) :
              /\ PassesOver(c, missed)
              /\ IF findByFingerprint(c, missed) # {}
                   THEN \E i \in findByFingerprint(c, missed) :
                           Becomes(c, [asked[c] EXCEPT !.at = "write", !.id = i,
                                         !.got = [files[i] EXCEPT !.count = @ + 1]])
                   ELSE \E i \in Ids :
                           /\ i \notin purged /\ files[i] = Gone
                           /\ \A j \in Ids : j < i => files[j] # Gone \/ j \in purged
                           /\ Becomes(c, [asked[c] EXCEPT !.at = "write", !.id = i,
                                                          !.got = First(c, missed)])
              /\ UNCHANGED lockedBy
    /\ UNCHANGED <<files, purged>>

------------------------------------------------------------------------------
(* Review *)

\* Variant: a rejection leaves no fingerprint behind.
DecideWithoutFingerprint(obs, answer, text) ==
    CASE answer = "approve" -> [obs EXCEPT !.status = "approved", !.print = obs.text]
      [] answer = "reject"  -> [obs EXCEPT !.status = "rejected", !.print = NoText]
      [] answer = "merge"   -> [obs EXCEPT !.status = "merged", !.print = obs.text]
      [] answer = "edit"    -> [obs EXCEPT !.status = "pending_review", !.text = text,
                                           !.print = NoText, !.edited = TRUE]
      [] OTHER              -> [obs EXCEPT !.status = answer, !.print = NoText]

\* The observation after a review action. Deferred, situational, limited and
\* countered ones stay live, and so does a merged one.
Decide(obs, answer, text) ==
    CASE answer = "approve" -> [obs EXCEPT !.status = "approved", !.print = obs.text]
      [] answer = "reject"  -> [obs EXCEPT !.status = "rejected", !.print = obs.text]
      [] answer = "merge"   -> [obs EXCEPT !.status = "merged", !.print = obs.text]
      [] answer = "edit"    -> [obs EXCEPT !.status = "pending_review", !.text = text,
                                           !.print = NoText, !.edited = TRUE]
      [] OTHER              -> [obs EXCEPT !.status = answer, !.print = NoText]

\* Get: a purged, absent or emptied observation is not found.
Get(c) == asked[c].id \in Visible(c)

Review(c) ==
    /\ asked[c].at = "find" /\ asked[c].op = "review"
    /\ LET obs == files[asked[c].id] IN
       IF Get(c) /\ obs.status # "approved" /\ ~isTerminalReject(obs.status)
         THEN /\ Becomes(c, [asked[c] EXCEPT !.at = "write",
                               !.got = Decide(obs, asked[c].answer, asked[c].text)])
              /\ UNCHANGED lockedBy
         ELSE Ends(c)
    /\ UNCHANGED <<files, purged, tally>>

------------------------------------------------------------------------------
\* write (durable.WriteFile): done and answered.
Write(c) ==
    /\ asked[c].at = "write"
    /\ files' = [files EXCEPT ![asked[c].id] = asked[c].got]
    /\ tally' = IF asked[c].op = "observe" THEN [tally EXCEPT !.accepted[asked[c].id] = @ + 1] ELSE tally
    /\ Becomes(c, [asked[c] EXCEPT !.at = "shown", !.shown = {asked[c].id}])
    /\ UNCHANGED <<purged, lockedBy>>

\* The directory flush fails or the process dies after the rename: the file
\* is replaced and the caller was told nothing good.
WriteUnanswered(c) ==
    /\ asked[c].at = "write" /\ tally.mishaps < MaxMishaps
    /\ files' = [files EXCEPT ![asked[c].id] = asked[c].got]
    /\ tally' = [tally EXCEPT !.mishaps = @ + 1,
                   !.doubtful[asked[c].id] = @ + (IF asked[c].op = "observe" THEN 1 ELSE 0)]
    /\ Ends(c)
    /\ UNCHANGED purged

\* A step fails or the process dies before it changed anything.
Fail(c) ==
    /\ asked[c].at \notin {"idle", "shown"} /\ tally.mishaps < MaxMishaps
    /\ tally' = [tally EXCEPT !.mishaps = @ + 1]
    /\ Ends(c)
    /\ UNCHANGED <<files, purged>>

------------------------------------------------------------------------------
(* Purge and build, under the same lock *)

\* The ledger hides the observation first.
Purge(c) ==
    /\ asked[c].at = "find" /\ asked[c].op = "purge"
    /\ purged' = purged \cup {asked[c].id}
    /\ Becomes(c, [asked[c] EXCEPT !.at = "erase"])
    /\ UNCHANGED <<files, lockedBy, tally>>

\* RemoveObservation.
RemoveObservation(c) ==
    /\ asked[c].at = "erase"
    /\ files' = [files EXCEPT ![asked[c].id] = Gone]
    /\ Ends(c)
    /\ UNCHANGED <<purged, tally>>

\* eraseHiddenObservations of a build: HiddenPresent under the ledger of now.
EraseHidden(c) ==
    /\ asked[c].at = "find" /\ asked[c].op = "build"
    /\ files' = [i \in Ids |-> IF i \in purged THEN Gone ELSE files[i]]
    /\ Ends(c)
    /\ UNCHANGED <<purged, tally>>

\* A backup brings the file of a purged observation back.
Reappear(i, text, family) ==
    /\ i \in purged /\ files[i] = Gone /\ tally.mishaps < MaxMishaps
    /\ files' = [files EXCEPT ![i] = [Gone EXCEPT !.on = TRUE, !.text = text, !.family = family,
                                         !.count = 1, !.status = "quarantined"]]
    /\ tally' = [tally EXCEPT !.mishaps = @ + 1]
    /\ UNCHANGED <<purged, lockedBy, asked>>

------------------------------------------------------------------------------
Arrivals(c) ==
    \/ \E t \in Texts, f \in Families : Arrive(c, "observe", t, f, 0, "none")
    \/ \E i \in Present, a \in Answers, t \in Texts :
          (a # "edit" => t = CHOOSE x \in Texts : TRUE) /\ Arrive(c, "review", t, NoText, i, a)
    \/ \E i \in Present : Arrive(c, "purge", NoText, NoText, i, "none")
    \/ \E op \in {"list", "build"} : Arrive(c, op, NoText, NoText, 0, "none")

LearningNext ==
    \/ \E c \in Callers :
          \/ Arrivals(c) \/ OpenLearning(c) \/ OpenWith(c) \/ List(c) \/ Answered(c) \/ Lock(c)
          \/ Observe(c) \/ Review(c) \/ Write(c) \/ WriteUnanswered(c) \/ Fail(c)
          \/ Purge(c) \/ RemoveObservation(c) \/ EraseHidden(c)
    \/ \E i \in Ids, t \in Texts, f \in Families : Reappear(i, t, f)

LearningSpec == LearningInit /\ [][LearningNext]_learningVars

------------------------------------------------------------------------------
(* Properties *)

\* The count of an observation is the number of reports it was told of, give
\* or take those whose caller got no answer.
CountsAreReports ==
    \A i \in Present \ purged :
        /\ tally.accepted[i] <= files[i].count
        /\ files[i].count <= tally.accepted[i] + tally.doubtful[i]

\* Repetitions of one family are one observation: two live ones of the same
\* text exist only after an edit by the operator, or when the call that filed
\* one of them could not read the other.
OneProposalPerFamily ==
    \A i, j \in Present \ purged :
        /\ i # j /\ files[i].text = files[j].text /\ files[i].family = files[j].family
        /\ ~files[i].edited /\ ~files[j].edited
        /\ i \notin files[j].missed /\ j \notin files[i].missed
        => \E k \in {i, j} : files[k].status \in {"approved", "rejected"}

\* A proposal rejected before the call began is not filed again, unless the call
\* could not read the rejection.
RejectedStaysRejected == \A i \in Present : ~files[i].over

\* No answer names an observation purged before its call began.
PurgedStaysHidden == \A c \in Callers : asked[c].shown \cap asked[c].before = {}

\* What the review queue owes its reporters and its operator, whatever calls
\* meet, fail or die (store.go "correlated repetitions never appear
\* independent", "equivalent rejected proposals are not re-filed"), as far as
\* the files can be read: a scan passes over one that cannot, and files the
\* proposal again (store.go:125-132, 186, 229-232).
QueueIsHonest ==
    /\ CountsAreReports /\ OneProposalPerFamily
    /\ RejectedStaysRejected /\ PurgedStaysHidden

\* An approved or rejected observation is never changed again, by repetitions
\* or by reviews that were asked for before.
DecisionsStand ==
    [][\A i \in Ids :
          files[i].on /\ files[i].status \in {"approved", "rejected"} /\ files'[i].on
          => files'[i] = files[i]]_learningVars
=============================================================================
