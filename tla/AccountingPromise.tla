-------------------------- MODULE AccountingPromise --------------------------
(***************************************************************************)
(* What the capture accounting of one project promises its readers,        *)
(* without slots, lock or files.  A reader (a briefing, `beme brain        *)
(* status`) is told how many session starts there were since a capture was *)
(* last accounted for, or that this is unknown; it is never told a number  *)
(* that ignores a capture accepted before it asked.                        *)
(***************************************************************************)
EXTENDS Naturals

CONSTANTS
    Captures,   \* the captures that may be accepted
    Readers     \* the processes that ask

VARIABLES
    published,  \* captures accepted so far (their note reached the inbox)
    included,   \* captures the committed state accounts for
    silent,     \* session starts counted since the last reconciliation
    asked       \* per reader: what it saw when it asked, and its answer

promiseVars == <<published, included, silent, asked>>

Snapshot == [before : SUBSET Captures, included : SUBSET Captures, silent : Nat]

PromiseTypeOK ==
    /\ published \in SUBSET Captures
    /\ included \in SUBSET published
    /\ silent \in Nat
    /\ asked \in [Readers -> [answer : {"none", "pending", "known", "unknown"},
                              view   : Snapshot]]

NoView == [before |-> {}, included |-> {}, silent |-> 0]

PromiseInit ==
    /\ published = {} /\ included = {} /\ silent = 0
    /\ asked = [r \in Readers |-> [answer |-> "none", view |-> NoView]]

Accept(c) ==
    /\ c \notin published
    /\ published' = published \union {c}
    /\ UNCHANGED <<included, silent, asked>>

\* Reconciling accounts for some accepted captures and starts the count over.
Reconcile ==
    \E S \in SUBSET published :
        /\ S # {}
        /\ included' = included \union S
        /\ silent' = 0
        /\ UNCHANGED <<published, asked>>

CountSession ==
    /\ silent' = silent + 1
    /\ UNCHANGED <<published, included, asked>>

Ask(r) ==
    /\ asked[r].answer = "none"
    /\ asked' = [asked EXCEPT ![r] =
                   [answer |-> "pending",
                    view   |-> [before   |-> published,
                                included |-> included,
                                silent   |-> silent]]]
    /\ UNCHANGED <<published, included, silent>>

\* The number read may be told only when nothing accepted earlier is missing.
AnswerKnown(r) ==
    /\ asked[r].answer = "pending"
    /\ asked[r].view.before \subseteq asked[r].view.included
    /\ asked' = [asked EXCEPT ![r].answer = "known"]
    /\ UNCHANGED <<published, included, silent>>

AnswerUnknown(r) ==
    /\ asked[r].answer = "pending"
    /\ asked' = [asked EXCEPT ![r].answer = "unknown"]
    /\ UNCHANGED <<published, included, silent>>

PromiseNext ==
    \/ \E c \in Captures : Accept(c)
    \/ Reconcile
    \/ CountSession
    \/ \E r \in Readers : Ask(r) \/ AnswerKnown(r) \/ AnswerUnknown(r)

PromiseSpec == PromiseInit /\ [][PromiseNext]_promiseVars
=============================================================================
