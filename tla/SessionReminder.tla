---------------------------- MODULE SessionReminder ----------------------------
(* The capture reminder of the Stop hook (cmd/beme/brain_stopcheck.go and      *)
(* internal/brain/nudge.go): what the transcript of a session adds up to, and  *)
(* the marks that keep a session from being reminded twice of the same edits.  *)
(*                                                                             *)
(* A session does nothing else while its hook runs. The hooks of the sessions  *)
(* of a project share one state file, replaced whole under its lock; a read of *)
(* it takes no lock.                                                           *)
EXTENDS Naturals, FiniteSets, SequencesExt

CONSTANTS
    Sessions,
    nudgeMutations,     \* weighted edits that earn a reminder
    nudgeWindow,        \* marks kept
    MaxToolUses, MaxTroubles   \* bounds of the instance

ASSUME ReminderAssumption == nudgeMutations \in Nat /\ nudgeWindow \in Nat

VARIABLES
    work,        \* [mutations, atLastCapture], what the transcript adds up to
    nudgeMarks,  \* the sessions reminded, in the order they were first marked
    stateRead,   \* whether the project's state file can be read
    hook,        \* what the hook of every session is doing
    since,       \* ghost: the edits, and whether some were committed, since the last
                 \* capture or reminder; whether a reminder came after the capture
    answer,      \* ghost: what the last hook said, and whether it was earned
    used         \* how much of each bound is used

reminderVars == <<work, nudgeMarks, stateRead, hook, since, answer, used>>

NoWork  == [mutations |-> 0, atLastCapture |-> 0]
NoHook  == [at |-> "idle", mark |-> 0, blind |-> FALSE]
Nothing == [edits |-> 0, committed |-> FALSE, reminded |-> FALSE, aged |-> 0]
Unasked == [said |-> "nothing yet", earned |-> FALSE]

ReminderInit ==
    /\ work = [s \in Sessions |-> NoWork] /\ nudgeMarks = <<>> /\ stateRead = TRUE
    /\ hook = [s \in Sessions |-> NoHook] /\ since = [s \in Sessions |-> Nothing]
    /\ answer = [s \in Sessions |-> Unasked]
    /\ used = [toolUses |-> 0, troubles |-> 0]

Larger(a, b) == IF a > b THEN a ELSE b

\* What earns a reminder: enough new edits; or a commit of new edits, the first
\* time after a capture only: a session reminded since its last capture counts
\* edits, and a commit adds nothing to them.
EnoughEdits(s) == since[s].edits >= nudgeMutations
FirstCommit(s) == since[s].committed /\ ~since[s].reminded
Due(s) == EnoughEdits(s) \/ FirstCommit(s)

------------------------------------------------------------------------------
(* The transcript: countToolUses, one tool use at a time *)

ToolUse(s, counted, ghost) ==
    /\ hook[s].at = "idle" /\ used.toolUses < MaxToolUses
    /\ work' = [work EXCEPT ![s] = counted]
    /\ since' = [since EXCEPT ![s] = ghost]
    /\ answer' = [answer EXCEPT ![s] = Unasked]
    /\ used' = [used EXCEPT !.toolUses = @ + 1]
    /\ UNCHANGED <<nudgeMarks, stateRead, hook>>

Edit(s) == ToolUse(s, [work[s] EXCEPT !.mutations = @ + 1], [since[s] EXCEPT !.edits = @ + 1])

\* Any command that names brain capture, accepted or not.
Capture(s) ==
    ToolUse(s, [work[s] EXCEPT !.atLastCapture = work[s].mutations],
            [Nothing EXCEPT !.aged = since[s].aged])

\* Variant: a commit counts without edits to capture.
CommitAlwaysCounts(w) ==
    [w EXCEPT !.mutations = Larger(@, w.atLastCapture + nudgeMutations)]

\* A commit is worth a reminder when there are edits nobody captured.
CommitCounts(w) ==
    IF w.mutations > w.atLastCapture
    THEN [w EXCEPT !.mutations = Larger(@, w.atLastCapture + nudgeMutations)] ELSE w

Commit(s) ==
    ToolUse(s, CommitCounts(work[s]),
            [since[s] EXCEPT !.committed = @ \/ since[s].edits > 0])

------------------------------------------------------------------------------
(* The hook: brainStopCheck *)

MarkOf(s) == IF \E i \in DOMAIN nudgeMarks : nudgeMarks[i].session = s
             THEN LET i == CHOOSE j \in DOMAIN nudgeMarks : nudgeMarks[j].session = s
                  IN nudgeMarks[i].at
             ELSE 0

\* NudgeMark: state that cannot be read says that nobody was reminded.
NudgeMark(s) == IF stateRead THEN MarkOf(s) ELSE 0

\* A stop that is not the answer to a reminder, in a registered project of a
\* vault that takes writes, with a transcript that can be read to its end.
StopCheck(s) ==
    LET enough == Larger(work[s].atLastCapture, NudgeMark(s)) + nudgeMutations <= work[s].mutations
    IN /\ hook[s].at = "idle" /\ answer[s] = Unasked
       /\ IF enough
          THEN /\ hook' = [hook EXCEPT ![s] = [at |-> "mark", mark |-> work[s].mutations,
                                               blind |-> ~stateRead]]
               /\ UNCHANGED answer
          ELSE /\ answer' = [answer EXCEPT ![s] = [said |-> "silence", earned |-> Due(s)]]
               /\ UNCHANGED hook
       /\ UNCHANGED <<work, nudgeMarks, stateRead, since, used>>

\* Any other stop is silent: a vault that is frozen or not there, no project,
\* a transcript that fails or takes too long.
StayOut(s) ==
    /\ hook[s].at = "idle" /\ answer[s] = Unasked
    /\ answer' = [answer EXCEPT ![s] = [said |-> "out", earned |-> FALSE]]
    /\ UNCHANGED <<work, nudgeMarks, stateRead, hook, since, used>>

\* SetNudgeMark: in place, or at the end, where the window drops the oldest.
Marked(s, at) ==
    IF \E i \in DOMAIN nudgeMarks : nudgeMarks[i].session = s
    THEN [i \in DOMAIN nudgeMarks |->
            IF nudgeMarks[i].session = s THEN [nudgeMarks[i] EXCEPT !.at = at] ELSE nudgeMarks[i]]
    ELSE LET all == Append(nudgeMarks, [session |-> s, at |-> at])
         IN IF Len(all) > nudgeWindow THEN Tail(all) ELSE all

\* The update under the lock, then the reminder. Ghost: a session ages with
\* every other that is marked for the first time, or again.
Remind(s) ==
    LET new == ~\E i \in DOMAIN nudgeMarks : nudgeMarks[i].session = s
    IN /\ hook[s].at = "mark" /\ stateRead
       /\ nudgeMarks' = Marked(s, hook[s].mark)
       /\ hook' = [hook EXCEPT ![s] = NoHook]
       /\ answer' = [answer EXCEPT ![s] =
             [said |-> "reminder",
              earned |-> Due(s) \/ since[s].aged >= nudgeWindow \/ hook[s].blind]]
       /\ since' = [t \in Sessions |->
             IF t = s THEN [Nothing EXCEPT !.reminded = TRUE,
                                           !.aged = IF new THEN 0 ELSE since[s].aged]
             ELSE IF new THEN [since[t] EXCEPT !.aged = @ + 1] ELSE since[t]]
       /\ UNCHANGED <<work, stateRead, used>>

\* The mark is not stored: the lock is not had in time, or the vault or the
\* state file refuses.
NotMarked(s) ==
    /\ hook[s].at = "mark"
    /\ hook' = [hook EXCEPT ![s] = NoHook]
    /\ answer' = [answer EXCEPT ![s] = [said |-> "out", earned |-> FALSE]]
    /\ UNCHANGED <<work, nudgeMarks, stateRead, since, used>>

\* The state file is damaged, or mended.
Trouble ==
    /\ used.troubles < MaxTroubles
    /\ stateRead' = ~stateRead
    /\ used' = [used EXCEPT !.troubles = @ + 1]
    /\ UNCHANGED <<work, nudgeMarks, hook, since, answer>>

ReminderNext ==
    \/ \E s \in Sessions : \/ Edit(s) \/ Capture(s) \/ Commit(s)
                           \/ StopCheck(s) \/ StayOut(s) \/ Remind(s) \/ NotMarked(s)
    \/ Trouble

ReminderSpec == ReminderInit /\ [][ReminderNext]_reminderVars

------------------------------------------------------------------------------
(* Properties *)

\* A hook that got through is silent only when the session has fewer new edits
\* than it takes since its last capture or reminder, and committed none of them
\* or was reminded since its last capture already; it reminds only when that is
\* not so: no reminder comes twice for the same edits, unless a whole window of
\* other sessions was marked since this one, or the state could not be read at
\* the time. (brain_stopcheck.go:103-110, 150-161, nudge.go:36-55)
RemindersFollowWork ==
    \A s \in Sessions : /\ answer[s].said = "silence" => ~answer[s].earned
                        /\ answer[s].said = "reminder" => answer[s].earned

\* What the comment of the commit case says, that only a commit without edits to
\* capture stays silent: no hook is silent about new edits that were committed.
\* It does not hold: the weight of a commit is counted from the last capture,
\* and a reminder has used it up. (brain_stopcheck.go:103-110, 152-155)
CommitsAreReminded ==
    \A s \in Sessions : answer[s].said = "silence" => ~since[s].committed

==============================================================================
