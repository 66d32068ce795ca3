------------------------------ MODULE LocalProofs ------------------------------
(***************************************************************************)
(* What holds of the parts that share no state with the rest: of the       *)
(* observation queue (LearningReview) for every set of callers, texts and  *)
(* families, however many calls meet, fail or die; of the registrations of *)
(* a brain vault and the project of a directory (VaultAccess) for all      *)
(* writers and roots; of the capture reminder (SessionReminder) for any    *)
(* sessions and window; of the durable file operations (DurableFile) for   *)
(* any contents; of the report of an evaluation (Evaluation) for any cases *)
(* and grades; and of the briefing (Briefing) for any notes and limits.    *)
(***************************************************************************)
EXTENDS LearningReview, VaultAccess, SessionReminder, DurableFile, Evaluation, Briefing,
        FiniteSetTheorems, WellFoundedInduction, TLAPS

-----------------------------------------------------------------------------
(* Recursion over numbers                                                  *)

\* A set with zero in it, and with every number the next, up to n, has them all.
LEMMA NumbersUpTo ==
    ASSUME NEW n \in Nat, NEW S, 0 \in S,
           \A k \in 0..n : k \in S /\ k < n => k + 1 \in S
    PROVE  \A k \in 0..n : k \in S
<1> DEFINE T == {0..k : k \in {x \in 0..n : x \notin S}}
<1> SUFFICES ASSUME \E x \in 0..n : x \notin S PROVE FALSE
  OBVIOUS
<1>1. IsWellFoundedOn(StrictSubsetOrdering(0..n), FiniteSubsetsOf(0..n))
  BY FS_StrictSubsetOrderingWellFounded
<1>2. T \subseteq FiniteSubsetsOf(0..n) /\ T # {}
  <2>1. FiniteSubsetsOf(0..n) = SUBSET (0..n)
    BY FS_Interval, FS_FiniteSubsetsOfFinite, 0 \in Int, n \in Int
  <2>2. T \subseteq SUBSET (0..n)
    OBVIOUS
  <2>. QED
    BY <2>1, <2>2
<1>3. PICK b \in T : \A c \in T : <<c, b>> \notin StrictSubsetOrdering(0..n)
  BY <1>1, <1>2, WFMin
<1>4. PICK x \in 0..n : x \notin S /\ b = 0..x
  BY <1>3
<1>5. x # 0 /\ x - 1 \in 0..n /\ x - 1 < n /\ (x - 1) + 1 = x
  BY <1>4
<1>6. x - 1 \notin S
  BY <1>4, <1>5
<1>7. 0..x - 1 \in T
  BY <1>5, <1>6
<1>8. 0..x - 1 \subseteq 0..x /\ x \in 0..x /\ x \notin 0..x - 1
  BY <1>5
<1>9. <<0..x - 1, b>> \in StrictSubsetOrdering(0..n)
  BY <1>3, <1>4, <1>5, <1>7, <1>8, <1>2 DEF StrictSubsetOrdering
<1>. QED
  BY <1>3, <1>7, <1>9

-----------------------------------------------------------------------------
(* LearningReview.  Whoever writes holds the lock, and what it decided on  *)
(* is still so (WriteHolds): nobody else writes, a file put back is hidden *)
(* and was gone.  What was rejected and is not purged stays, with its      *)
(* fingerprint (CallHolds), so a call that knew of it has it in its index, *)
(* unless it could not read it.                                            *)

AnyText  == Texts \cup {NoText}
Statuses == {"gone", "quarantined", "approved", "rejected", "merged", "pending_review",
             "deferred", "situational", "scope_limited"}

Observation ==
    [on : BOOLEAN, text : AnyText, family : Families \cup {NoText}, count : Nat,
     status : Statuses, print : AnyText, edited : BOOLEAN, over : BOOLEAN,
     missed : SUBSET Ids]

CallState ==
    [at : {"idle", "ledger", "open", "list", "lock", "find", "write", "erase", "shown"},
     op : {"none", "observe", "review", "purge", "list", "build"},
     text : AnyText, family : Families \cup {NoText}, id : Ids \cup {0},
     answer : Answers \cup {"none"}, hidden : SUBSET Ids, index : SUBSET AnyText,
     unread : SUBSET Ids, got : Observation, knew : SUBSET Ids, before : SUBSET Ids, shown : SUBSET Ids]

LearningTyped ==
    /\ files \in [Ids -> Observation] /\ purged \in SUBSET Ids
    /\ lockedBy \in SUBSET Callers /\ asked \in [Callers -> CallState]
    /\ tally \in [accepted : [Ids -> Nat], doubtful : [Ids -> Nat], made : Nat, mishaps : Nat]

Decided(obs) == obs.status \in {"approved", "rejected"}

FileHolds(i) ==
    /\ ~files[i].on => files[i] = Gone
    /\ files[i].on => /\ ~files[i].over
                      /\ files[i].status = "rejected" => files[i].print = files[i].text
    /\ i \notin purged /\ ~files[i].on => tally.accepted[i] = 0 /\ tally.doubtful[i] = 0

\* What a caller that writes has decided on is still so.
WriteHolds(c) ==
    LET id == asked[c].id  got == asked[c].got IN
    /\ id \in Ids /\ id \notin asked[c].before /\ got.on /\ ~got.over
    /\ asked[c].op \in {"observe", "review"}
    /\ got.status = "rejected" => got.print = got.text
    /\ files[id].on => ~Decided(files[id])
    /\ ~files[id].on => id \notin purged /\ asked[c].op = "observe"
    /\ asked[c].op = "observe" /\ files[id].on =>
          /\ got.count = files[id].count + 1 /\ got.text = files[id].text
          /\ got.family = files[id].family /\ got.edited = files[id].edited
          /\ got.missed = files[id].missed
    /\ ~files[id].on =>
          /\ got.count = 1
          /\ \A j \in (Present \ purged) \ got.missed :
                files[j].text = got.text /\ files[j].family = got.family => Decided(files[j])
    /\ asked[c].op = "review" =>
          /\ got.count = files[id].count
          /\ \/ got.edited
             \/ /\ got.text = files[id].text /\ got.family = files[id].family
                /\ got.edited = files[id].edited /\ got.missed = files[id].missed

CallHolds(c) ==
    /\ asked[c].before \subseteq purged /\ asked[c].hidden \subseteq purged
    /\ asked[c].shown \cap asked[c].before = {}
    /\ asked[c].at \in {"find", "write", "erase"} => lockedBy = {c}
    /\ asked[c].at \notin {"idle", "ledger"} => asked[c].before \subseteq asked[c].hidden
    /\ asked[c].op \in {"review", "purge"} => asked[c].id \in Ids
    /\ asked[c].op = "review" => asked[c].answer \in Answers
    /\ asked[c].at = "erase" => asked[c].op = "purge" /\ asked[c].id \in purged
    /\ \A r \in asked[c].knew \ purged :
          /\ files[r].on /\ files[r].status = "rejected"
          /\ asked[c].at \in {"list", "lock", "find"} =>
                files[r].text \in asked[c].index \/ r \in asked[c].unread
    /\ asked[c].at = "write" => WriteHolds(c)

LearningInv ==
    /\ LearningTyped /\ CountsAreReports /\ OneProposalPerFamily
    /\ \A i \in Ids : FileHolds(i)
    /\ \A c \in Callers : CallHolds(c)

LEMMA AskingTyped == Gone \in Observation /\ Asking \in CallState
<1>1. Gone \in Observation
  BY DEF Gone, Observation, Statuses, AnyText
<1> QED
  BY <1>1 DEF Asking, CallState, AnyText

\* What a caller is doing changes, and what the others do does not.
LEMMA Becoming ==
  ASSUME LearningTyped, NEW c \in Callers, NEW r \in CallState, Becomes(c, r)
  PROVE  /\ asked' \in [Callers -> CallState] /\ asked'[c] = r
         /\ \A d \in Callers \ {c} : asked'[d] = asked[d]
  BY DEF LearningTyped, Becomes

LEMMA LearningInitHolds == LearningInit => LearningInv
<1> SUFFICES ASSUME LearningInit PROVE LearningInv
  OBVIOUS
<1>1. LearningTyped
  BY AskingTyped DEF LearningInit, LearningTyped
<1>2. Present = {}
  BY DEF LearningInit, Present, Gone
<1>3. \A i \in Ids : FileHolds(i)
  BY DEF LearningInit, FileHolds, Gone
<1>4. \A c \in Callers : CallHolds(c)
  BY DEF LearningInit, CallHolds, Asking
<1> QED
  BY <1>1, <1>2, <1>3, <1>4 DEF LearningInv, CountsAreReports, OneProposalPerFamily

\* A step of one caller that touches neither files nor the ledger.
LEMMA OwnStep ==
  ASSUME LearningInv, NEW c \in Callers, NEW r \in CallState, Becomes(c, r),
         UNCHANGED <<files, purged>>,
         tally' \in [accepted : [Ids -> Nat], doubtful : [Ids -> Nat], made : Nat, mishaps : Nat],
         tally'.accepted = tally.accepted, tally'.doubtful = tally.doubtful,
         \/ lockedBy' = lockedBy
         \/ lockedBy' = lockedBy \ {c}
         \/ lockedBy = {} /\ lockedBy' = {c},
         CallHolds(c)'
  PROVE  LearningInv'
<1>1. asked' \in [Callers -> CallState] /\ \A d \in Callers \ {c} : asked'[d] = asked[d]
  BY Becoming DEF LearningInv
<1>2. LearningTyped'
  BY <1>1 DEF LearningInv, LearningTyped
<1>3. Present' = Present
  BY DEF Present
<1>4. ASSUME NEW d \in Callers \ {c} PROVE CallHolds(d)'
  <2>1. CallHolds(d) /\ asked'[d] = asked[d]
    BY <1>1 DEF LearningInv
  <2>2. WriteHolds(d) => WriteHolds(d)'
    BY <2>1, <1>3 DEF WriteHolds, Decided
  <2>3. lockedBy = {d} => lockedBy' = {d}
    OBVIOUS
  <2> QED
    BY <2>1, <2>2, <2>3 DEF CallHolds
<1>5. CountsAreReports' /\ OneProposalPerFamily' /\ \A i \in Ids : FileHolds(i)'
  BY <1>3 DEF LearningInv, CountsAreReports, OneProposalPerFamily, FileHolds
<1> QED
  BY <1>2, <1>4, <1>5 DEF LearningInv

\* A scan that passes over files changes no ghost of the queue.
LEMMA PassingOver ==
  ASSUME LearningTyped, NEW c \in Callers, NEW missed, PassesOver(c, missed)
  PROVE  /\ tally' \in [accepted : [Ids -> Nat], doubtful : [Ids -> Nat], made : Nat, mishaps : Nat]
         /\ tally'.accepted = tally.accepted /\ tally'.doubtful = tally.doubtful
  BY DEF LearningTyped, PassesOver

LEMMA EndsHolds ==
  ASSUME LearningInv, NEW c \in Callers, Ends(c), UNCHANGED <<files, purged>>,
         tally' \in [accepted : [Ids -> Nat], doubtful : [Ids -> Nat], made : Nat, mishaps : Nat],
         tally'.accepted = tally.accepted, tally'.doubtful = tally.doubtful
  PROVE  LearningInv'
<1>1. Becomes(c, Asking) /\ asked'[c] = Asking
  BY AskingTyped, Becoming DEF Ends, LearningInv
<1>2. CallHolds(c)'
  BY <1>1 DEF CallHolds, Asking
<1> QED
  BY <1>1, <1>2, AskingTyped, OwnStep DEF Ends

LEMMA ArriveHolds ==
  ASSUME LearningInv, NEW c \in Callers, Arrivals(c) PROVE LearningInv'
<1> USE ReviewAssumption
<1> SUFFICES ASSUME NEW op \in {"observe", "review", "purge", "list", "build"},
                    NEW t \in AnyText, NEW f \in Families \cup {NoText},
                    NEW i \in Ids \cup {0}, NEW a \in Answers \cup {"none"},
                    op \in {"review", "purge"} => i \in Ids, op = "review" => a \in Answers,
                    Arrive(c, op, t, f, i, a)
             PROVE  LearningInv'
  BY DEF Arrivals, Present, AnyText
<1> DEFINE knew == {j \in Present \ purged : isTerminalReject(files[j].status)}
           r == [Asking EXCEPT !.at = "ledger", !.op = op, !.text = t, !.family = f,
                               !.id = i, !.answer = a, !.before = purged, !.knew = knew]
<1>1. r \in CallState /\ Becomes(c, r)
  <2>1. knew \in SUBSET Ids /\ purged \in SUBSET Ids
    BY DEF Present, LearningInv, LearningTyped
  <2>2. Becomes(c, r)
    BY DEF Arrive
  <2>3. r \in CallState
    <3> HIDE DEF knew
    <3> QED
      BY <2>1, AskingTyped DEF CallState
  <2> QED
    BY <2>2, <2>3
<1>2. asked'[c] = r
  BY <1>1, Becoming DEF LearningInv
<1>3. \A j \in knew : files[j].on /\ files[j].status = "rejected"
  BY DEF Present, isTerminalReject, LearningInv, LearningTyped, Observation, Statuses
<1>4. CallHolds(c)'
  BY <1>2, <1>3 DEF CallHolds, Asking, Arrive
<1> QED
  BY <1>1, <1>4, OwnStep DEF Arrive, LearningInv, LearningTyped

LEMMA OpenHolds ==
  ASSUME LearningInv, NEW c \in Callers,
         OpenLearning(c) \/ OpenWith(c) \/ List(c) \/ Lock(c)
  PROVE  LearningInv'
<1>0. asked[c] \in CallState /\ CallHolds(c) /\ purged \in SUBSET Ids
  BY DEF LearningInv, LearningTyped
<1>1. CASE OpenLearning(c)
  <2> DEFINE r == [asked[c] EXCEPT !.hidden = purged, !.at = "open"]
  <2>0. r \in CallState /\ Becomes(c, r)
    BY <1>0, <1>1 DEF OpenLearning, CallState
  <2>1. r \in CallState /\ asked'[c] = r
    BY <2>0, Becoming DEF LearningInv
  <2>2. CallHolds(c)'
    BY <1>0, <1>1, <2>1 DEF CallHolds, CallState, OpenLearning
  <2> QED
    BY <1>1, <2>1, <2>2, OwnStep DEF OpenLearning, LearningInv, LearningTyped
<1>2. ASSUME NEW missed \in SUBSET Visible(c), OpenWith(c), PassesOver(c, missed),
             Becomes(c, [asked[c] EXCEPT
                !.index = {files[i].print : i \in {j \in Visible(c) \ missed :
                                                      isTerminalReject(files[j].status)}},
                !.unread = missed,
                !.at = IF asked[c].op = "list" THEN "list" ELSE "lock"])
      PROVE  LearningInv'
  <2> DEFINE index == {files[i].print : i \in {j \in Visible(c) \ missed :
                                                isTerminalReject(files[j].status)}}
             r == [asked[c] EXCEPT !.index = index, !.unread = missed,
                     !.at = IF asked[c].op = "list" THEN "list" ELSE "lock"]
  <2>1. index \in SUBSET AnyText
    BY DEF Present, Visible, LearningInv, LearningTyped, Observation
  <2>a. Becomes(c, r) /\ missed \in SUBSET Ids
    BY <1>2 DEF Present, Visible
  <2>b. r \in CallState
    <3> HIDE DEF index
    <3> QED
      BY <1>0, <2>1, <2>a DEF CallState
  <2>2. r \in CallState /\ asked'[c] = r
    BY <2>a, <2>b, Becoming DEF LearningInv
  <2>3. \A j \in asked[c].knew \ purged : files[j].text \in index \/ j \in missed
    <3> SUFFICES ASSUME NEW j \in (asked[c].knew \ purged) \ missed PROVE files[j].text \in index
      OBVIOUS
    <3>1. j \in Ids /\ files[j].on /\ files[j].status = "rejected" /\ j \notin asked[c].hidden
      BY <1>0 DEF CallHolds, CallState
    <3>2. files[j].print = files[j].text
      BY <3>1 DEF LearningInv, FileHolds
    <3> QED
      BY <3>1, <3>2 DEF Present, Visible, isTerminalReject
  <2>4. CallHolds(c)'
    <3> HIDE DEF index
    <3>1. /\ asked'[c].before = asked[c].before /\ asked'[c].hidden = asked[c].hidden
          /\ asked'[c].shown = asked[c].shown /\ asked'[c].at \in {"list", "lock"}
          /\ asked'[c].op = asked[c].op /\ asked'[c].id = asked[c].id
          /\ asked'[c].knew = asked[c].knew /\ asked'[c].index = index
          /\ asked'[c].unread = missed /\ asked'[c].answer = asked[c].answer
      BY <1>0, <2>2 DEF CallState
    <3> QED
      BY <1>0, <1>2, <2>3, <3>1 DEF CallHolds, OpenWith
  <2> QED
    BY <1>2, <2>2, <2>4, PassingOver, OwnStep DEF OpenWith, LearningInv
<1>3. ASSUME NEW missed \in SUBSET Visible(c), List(c), PassesOver(c, missed),
             Becomes(c, [asked[c] EXCEPT !.shown = Visible(c) \ missed, !.at = "shown"])
      PROVE  LearningInv'
  <2> DEFINE r == [asked[c] EXCEPT !.shown = Visible(c) \ missed, !.at = "shown"]
  <2>1. r \in CallState /\ asked'[c] = r
    <3>1. Visible(c) \ missed \in SUBSET Ids
      BY DEF Present, Visible
    <3>2. r \in CallState /\ Becomes(c, r)
      BY <1>0, <1>3, <3>1 DEF CallState
    <3> QED
      BY <3>2, Becoming DEF LearningInv
  <2>2. CallHolds(c)'
    BY <1>0, <1>3, <2>1 DEF CallHolds, CallState, List, Visible
  <2> QED
    BY <1>3, <2>1, <2>2, PassingOver, OwnStep DEF List, LearningInv
<1>4. CASE Lock(c)
  <2> DEFINE r == [asked[c] EXCEPT !.at = "find"]
  <2>0. r \in CallState /\ Becomes(c, r)
    BY <1>0, <1>4 DEF Lock, CallState
  <2>1. r \in CallState /\ asked'[c] = r
    BY <2>0, Becoming DEF LearningInv
  <2>2. CallHolds(c)'
    BY <1>0, <1>4, <2>1 DEF CallHolds, CallState, Lock
  <2> QED
    BY <1>4, <2>1, <2>2, OwnStep DEF Lock, LearningInv, LearningTyped
<1> QED
  BY <1>1, <1>2, <1>3, <1>4 DEF OpenWith, List

LEMMA ObserveHolds ==
  ASSUME LearningInv, NEW c \in Callers, Observe(c) PROVE LearningInv'
<1>0. /\ asked[c] \in CallState /\ CallHolds(c) /\ purged \in SUBSET Ids
      /\ asked[c].at = "find" /\ asked[c].op = "observe"
  BY DEF LearningInv, LearningTyped, Observe
<1>1. CASE asked[c].text \in asked[c].index
  BY <1>0, <1>1, EndsHolds DEF Observe, LearningInv, LearningTyped
<1>2. ASSUME NEW missed, PassesOver(c, missed), NEW i \in findByFingerprint(c, missed),
             Becomes(c, [asked[c] EXCEPT !.at = "write", !.id = i,
                                         !.got = [files[i] EXCEPT !.count = @ + 1]]),
             UNCHANGED <<files, purged, lockedBy>>
      PROVE  LearningInv'
  <2> DEFINE got == [files[i] EXCEPT !.count = @ + 1]
             r == [asked[c] EXCEPT !.at = "write", !.id = i, !.got = got]
  <2>1. /\ i \in Ids /\ i \notin asked[c].hidden /\ files[i].on /\ ~Decided(files[i])
        /\ files[i] \in Observation
    BY DEF findByFingerprint, Visible, Present, Decided, isTerminalReject, LearningInv,
       LearningTyped
  <2>2. got \in Observation /\ r \in CallState
    <3>1. got \in Observation
      BY <2>1 DEF Observation
    <3> HIDE DEF got
    <3> QED
      BY <1>0, <2>1, <3>1 DEF CallState
  <2>3. asked'[c] = r
    BY <1>2, <2>2, Becoming DEF LearningInv
  <2>4. got.on /\ ~got.over /\ got.status # "rejected"
    BY <2>1 DEF LearningInv, FileHolds, Observation, Decided
  <2>5. WriteHolds(c)'
    BY <1>0, <1>2, <2>1, <2>3, <2>4 DEF WriteHolds, CallState, CallHolds, Observation, Decided
  <2>6. CallHolds(c)'
    BY <1>0, <1>2, <2>3, <2>5 DEF CallHolds, CallState
  <2> QED
    BY <1>0, <1>2, <2>2, <2>6, PassingOver, OwnStep DEF LearningInv
<1>3. ASSUME NEW missed \in SUBSET Visible(c), PassesOver(c, missed), NEW i \in Ids,
             i \notin purged, files[i] = Gone, findByFingerprint(c, missed) = {},
             asked[c].text \notin asked[c].index,
             Becomes(c, [asked[c] EXCEPT !.at = "write", !.id = i, !.got = First(c, missed)]),
             UNCHANGED <<files, purged, lockedBy>>
      PROVE  LearningInv'
  <2> DEFINE over == \E r \in asked[c].knew \ (purged \cup asked[c].unread) :
                        files[r].on /\ files[r].text = asked[c].text
             got == [Gone EXCEPT !.on = TRUE, !.text = asked[c].text,
                              !.family = asked[c].family, !.count = 1,
                              !.status = "quarantined", !.missed = missed, !.over = over]
             r == [asked[c] EXCEPT !.at = "write", !.id = i, !.got = got]
  <2>0. missed \in SUBSET Ids /\ First(c, missed) = got
    BY DEF Visible, Present, First
  <2>1. over = FALSE
    BY <1>0, <1>3 DEF CallHolds
  <2>2. got \in Observation /\ r \in CallState
    <3>1. asked[c].text \in AnyText /\ asked[c].family \in Families \cup {NoText}
      BY <1>0 DEF CallState
    <3>2. got \in Observation
      <4> HIDE DEF over
      <4> QED
        BY <2>0, <2>1, <3>1, AskingTyped DEF Observation, Statuses
    <3> HIDE DEF got
    <3> QED
      BY <1>0, <3>2 DEF CallState
  <2>3. asked'[c] = r
    BY <1>3, <2>0, <2>2, Becoming DEF LearningInv
  <2>4. \A j \in (Present \ purged) \ missed :
           files[j].text = asked[c].text /\ files[j].family = asked[c].family => Decided(files[j])
    <3> SUFFICES ASSUME NEW j \in (Present \ purged) \ missed, files[j].text = asked[c].text,
                        files[j].family = asked[c].family, ~Decided(files[j])
                 PROVE  FALSE
      OBVIOUS
    <3>1. j \notin asked[c].hidden /\ files[j] \in Observation
      BY <1>0 DEF CallHolds, Present, LearningInv, LearningTyped
    <3>2. j \in findByFingerprint(c, missed)
      BY <3>1 DEF findByFingerprint, Visible, Decided, isTerminalReject, Observation, Statuses
    <3> QED
      BY <1>3, <3>2
  <2>5. ~files[i].on
    BY <1>3 DEF Gone
  <2>6. WriteHolds(c)'
    <3>1. /\ asked'[c].id = i /\ asked'[c].before = asked[c].before /\ asked'[c].op = "observe"
          /\ asked'[c].got.on = TRUE /\ asked'[c].got.over = FALSE /\ asked'[c].got.count = 1
          /\ asked'[c].got.status = "quarantined" /\ asked'[c].got.text = asked[c].text
          /\ asked'[c].got.family = asked[c].family /\ asked'[c].got.missed = missed
      <4>1. /\ got.on = TRUE /\ got.over = FALSE /\ got.count = 1 /\ got.status = "quarantined"
            /\ got.text = asked[c].text /\ got.family = asked[c].family /\ got.missed = missed
        BY <2>1 DEF Gone
      <4> HIDE DEF got
      <4> QED
        BY <1>0, <2>3, <4>1 DEF CallState
    <3>2. i \notin asked[c].before
      BY <1>0, <1>3 DEF CallHolds
    <3>3. Present' = Present
      BY <1>3 DEF Present
    <3> QED
      BY <1>3, <2>4, <2>5, <3>1, <3>2, <3>3 DEF WriteHolds, Decided
  <2>7. CallHolds(c)'
    BY <1>0, <1>3, <2>3, <2>6 DEF CallHolds, CallState
  <2> QED
    BY <1>0, <1>3, <2>0, <2>2, <2>7, PassingOver, OwnStep DEF LearningInv
<1> QED
  BY <1>1, <1>2, <1>3 DEF Observe

LEMMA DecideTyped ==
  ASSUME NEW obs \in Observation, NEW a \in Answers, NEW t \in AnyText, obs.on, ~obs.over
  PROVE  LET got == Decide(obs, a, t) IN
         /\ got \in Observation /\ got.on /\ ~got.over /\ got.count = obs.count
         /\ got.status = "rejected" /\ obs.status # "rejected" => got.print = got.text
         /\ \/ got.edited
            \/ /\ got.text = obs.text /\ got.family = obs.family
               /\ got.edited = obs.edited /\ got.missed = obs.missed
<1>1. a \in {"approve", "reject", "edit", "merge",
             "deferred", "situational", "scope_limited", "pending_review"}
  BY ReviewAssumption
<1>2. obs.text \in AnyText /\ NoText \in AnyText
  BY DEF Observation, AnyText
<1> QED
  BY <1>1, <1>2 DEF Decide, Observation, Statuses

LEMMA ReviewHolds ==
  ASSUME LearningInv, NEW c \in Callers, Review(c) PROVE LearningInv'
<1> DEFINE obs == files[asked[c].id]
<1>0. /\ asked[c] \in CallState /\ CallHolds(c) /\ purged \in SUBSET Ids
      /\ asked[c].at = "find" /\ asked[c].op = "review" /\ tally' = tally
      /\ asked[c].id \in Ids /\ asked[c].answer \in Answers /\ obs \in Observation
      /\ UNCHANGED <<files, purged>>
  BY DEF LearningInv, LearningTyped, Review, CallHolds
<1>1. CASE Ends(c)
  BY <1>0, <1>1, EndsHolds DEF LearningInv, LearningTyped
<1>2. CASE /\ Get(c) /\ obs.status # "approved" /\ ~isTerminalReject(obs.status)
           /\ Becomes(c, [asked[c] EXCEPT !.at = "write",
                            !.got = Decide(obs, asked[c].answer, asked[c].text)])
           /\ UNCHANGED lockedBy
  <2> DEFINE got == Decide(obs, asked[c].answer, asked[c].text)
             r == [asked[c] EXCEPT !.at = "write", !.got = got]
  <2>1. obs.on /\ ~obs.over /\ ~Decided(obs) /\ asked[c].id \notin asked[c].hidden
    BY <1>0, <1>2 DEF Get, Visible, Present, FileHolds, LearningInv, Decided, isTerminalReject
  <2>2. /\ got \in Observation /\ got.on /\ ~got.over /\ got.count = obs.count
        /\ got.status = "rejected" => got.print = got.text
        /\ \/ got.edited
           \/ /\ got.text = obs.text /\ got.family = obs.family
              /\ got.edited = obs.edited /\ got.missed = obs.missed
    BY <1>0, <2>1, DecideTyped DEF CallState, Decided
  <2>3. Becomes(c, r)
    BY <1>2
  <2> HIDE DEF got
  <2>4. r \in CallState
    BY <1>0, <2>2 DEF CallState
  <2>5. asked'[c] = r
    BY <2>3, <2>4, Becoming DEF LearningInv
  <2>6. WriteHolds(c)'
    BY <1>0, <2>1, <2>2, <2>5 DEF WriteHolds, CallState, CallHolds, Decided
  <2>7. CallHolds(c)'
    BY <1>0, <1>2, <2>5, <2>6 DEF CallHolds, CallState
  <2> QED
    BY <1>0, <1>2, <2>3, <2>4, <2>7, OwnStep DEF LearningInv, LearningTyped
<1> QED
  BY <1>1, <1>2 DEF Review

\* The file of a caller that writes is replaced, and its report is counted.
LEMMA Replacing ==
  ASSUME LearningInv, NEW c \in Callers, asked[c].at = "write",
         files' = [files EXCEPT ![asked[c].id] = asked[c].got], UNCHANGED purged,
         tally' \in [accepted : [Ids -> Nat], doubtful : [Ids -> Nat], made : Nat, mishaps : Nat],
         \A i \in Ids \ {asked[c].id} :
            tally'.accepted[i] = tally.accepted[i] /\ tally'.doubtful[i] = tally.doubtful[i],
         LET id == asked[c].id IN
         \/ /\ asked[c].op = "observe" /\ tally'.accepted[id] = tally.accepted[id] + 1
            /\ tally'.doubtful[id] = tally.doubtful[id]
         \/ /\ asked[c].op = "observe" /\ tally'.accepted[id] = tally.accepted[id]
            /\ tally'.doubtful[id] = tally.doubtful[id] + 1
         \/ /\ asked[c].op = "review" /\ tally'.accepted[id] = tally.accepted[id]
            /\ tally'.doubtful[id] = tally.doubtful[id],
         NEW r \in CallState, Becomes(c, r), lockedBy' \in {lockedBy, lockedBy \ {c}},
         CallHolds(c)'
  PROVE  LearningInv'
<1> DEFINE id == asked[c].id  got == asked[c].got
<1>0. /\ WriteHolds(c) /\ CallHolds(c) /\ lockedBy = {c} /\ id \in Ids /\ got \in Observation
      /\ files \in [Ids -> Observation] /\ purged \in SUBSET Ids
      /\ tally \in [accepted : [Ids -> Nat], doubtful : [Ids -> Nat], made : Nat, mishaps : Nat]
  BY DEF LearningInv, LearningTyped, CallHolds, WriteHolds, CallState
<1>1. /\ files'[id] = got /\ files' \in [Ids -> Observation]
      /\ \A i \in Ids \ {id} : files'[i] = files[i]
      /\ asked' \in [Callers -> CallState] /\ \A d \in Callers \ {c} : asked'[d] = asked[d]
  BY <1>0, Becoming DEF LearningInv
<1>2. LearningTyped'
  BY <1>0, <1>1 DEF LearningInv, LearningTyped
<1>3. got.on /\ ~got.over /\ Present' = Present \cup {id}
  BY <1>0, <1>1 DEF WriteHolds, Present
<1>4. CountsAreReports'
  <2>1. ASSUME NEW i \in Ids \ {id}, i \in Present \ purged
        PROVE  /\ tally'.accepted[i] <= files'[i].count
               /\ files'[i].count <= tally'.accepted[i] + tally'.doubtful[i]
    BY <1>1, <2>1 DEF LearningInv, CountsAreReports
  <2>2. ASSUME id \notin purged
        PROVE  /\ tally'.accepted[id] <= files'[id].count
               /\ files'[id].count <= tally'.accepted[id] + tally'.doubtful[id]
    <3>1. CASE files[id].on
      <4>1. /\ tally.accepted[id] <= files[id].count
            /\ files[id].count <= tally.accepted[id] + tally.doubtful[id]
        BY <1>0, <2>2, <3>1 DEF LearningInv, CountsAreReports, Present
      <4>2. /\ files[id].count \in Nat /\ tally.accepted[id] \in Nat /\ tally.doubtful[id] \in Nat
            /\ asked[c].op = "observe" => got.count = files[id].count + 1
            /\ asked[c].op = "review" => got.count = files[id].count
        BY <1>0, <3>1 DEF WriteHolds, Observation
      <4> QED
        BY <1>1, <4>1, <4>2
    <3>2. CASE ~files[id].on
      <4>1. tally.accepted[id] = 0 /\ tally.doubtful[id] = 0
        BY <1>0, <2>2, <3>2 DEF LearningInv, FileHolds
      <4>2. got.count = 1 /\ asked[c].op = "observe"
        BY <1>0, <3>2 DEF WriteHolds
      <4> QED
        BY <1>1, <4>1, <4>2
    <3> QED
      BY <3>1, <3>2
  <2> QED
    BY <1>3, <2>1, <2>2 DEF CountsAreReports, Present
<1>5. OneProposalPerFamily'
  <2>1. ASSUME NEW j \in Present \ purged, id \notin purged, j # id,
               got.text = files[j].text, got.family = files[j].family,
               ~got.edited, ~files[j].edited, j \notin got.missed, id \notin files[j].missed
        PROVE  Decided(files[j]) \/ Decided(got)
    <3>1. CASE ~files[id].on
      BY <1>0, <2>1, <3>1 DEF WriteHolds
    <3>2. CASE files[id].on
      <4>1. /\ got.text = files[id].text /\ got.family = files[id].family /\ ~files[id].edited
            /\ ~Decided(files[id]) /\ got.missed = files[id].missed
        BY <1>0, <2>1, <3>2 DEF WriteHolds
      <4>2. id \in Present \ purged
        BY <1>0, <2>1, <3>2 DEF Present
      <4>3. OneProposalPerFamily
        BY DEF LearningInv
      <4>4. \E k \in {id, j} : files[k].status \in {"approved", "rejected"}
        <5>1. /\ j \in Present \ purged /\ id # j /\ files[id].text = files[j].text
              /\ files[id].family = files[j].family /\ ~files[id].edited /\ ~files[j].edited
              /\ j \notin files[id].missed /\ id \notin files[j].missed
          BY <2>1, <4>1
        <5> HIDE DEF id, got
        <5> QED
          BY <4>2, <4>3, <5>1 DEF OneProposalPerFamily
      <4> HIDE DEF id, got
      <4> QED
        BY <4>1, <4>4 DEF Decided
    <3> QED
      BY <3>1, <3>2
  <2>2. ASSUME NEW i \in Present' \ purged, NEW j \in Present' \ purged, i # j,
               files'[i].text = files'[j].text, files'[i].family = files'[j].family,
               ~files'[i].edited, ~files'[j].edited,
               j \notin files'[i].missed, i \notin files'[j].missed
        PROVE  Decided(files'[i]) \/ Decided(files'[j])
    <3>1. i \in Ids /\ j \in Ids
      BY <2>2 DEF Present
    <3>2. CASE i = id
      BY <1>1, <1>3, <2>1, <2>2, <3>1, <3>2
    <3>3. CASE j = id
      BY <1>1, <1>3, <2>1, <2>2, <3>1, <3>3
    <3>4. CASE i # id /\ j # id
      BY <1>1, <1>3, <2>2, <3>1, <3>4 DEF LearningInv, OneProposalPerFamily, Decided
    <3> QED
      BY <3>2, <3>3, <3>4
  <2> QED
    BY <2>2 DEF OneProposalPerFamily, Decided
<1>6. ASSUME NEW i \in Ids PROVE FileHolds(i)'
  <2>1. CASE i = id
    BY <1>0, <1>1, <1>3, <2>1 DEF FileHolds, WriteHolds
  <2>2. CASE i # id
    BY <1>1, <2>2 DEF FileHolds, LearningInv
  <2> QED
    BY <2>1, <2>2
<1>7. ASSUME NEW d \in Callers \ {c} PROVE CallHolds(d)'
  <2>1. /\ CallHolds(d) /\ asked'[d] = asked[d] /\ asked[d] \in CallState
        /\ asked[d].at \notin {"find", "write", "erase"}
    <3>1. CallHolds(d) /\ asked'[d] = asked[d] /\ asked[d] \in CallState
      BY <1>1 DEF LearningInv, LearningTyped
    <3>2. lockedBy # {d}
      BY <1>0
    <3> QED
      BY <3>1, <3>2 DEF CallHolds
  <2>2. ASSUME NEW k \in asked[d].knew \ purged
        PROVE  /\ files'[k].on /\ files'[k].status = "rejected"
               /\ asked[d].at \in {"list", "lock", "find"} =>
                     files'[k].text \in asked[d].index \/ k \in asked[d].unread
    <3>1. k \in Ids /\ files[k].on /\ files[k].status = "rejected"
      BY <2>1 DEF CallHolds, CallState
    <3>2. k # id
      BY <1>0, <3>1 DEF WriteHolds, Decided
    <3> QED
      BY <1>1, <2>1, <3>1, <3>2 DEF CallHolds
  <2> QED
    BY <2>1, <2>2 DEF CallHolds
<1> QED
  BY <1>2, <1>4, <1>5, <1>6, <1>7 DEF LearningInv

LEMMA WriteKeeps ==
  ASSUME LearningInv, NEW c \in Callers, Write(c) \/ WriteUnanswered(c) PROVE LearningInv'
<1>0. /\ asked[c] \in CallState /\ CallHolds(c) /\ WriteHolds(c) /\ asked[c].at = "write"
      /\ asked[c].id \in Ids /\ asked[c].op \in {"observe", "review"}
      /\ tally \in [accepted : [Ids -> Nat], doubtful : [Ids -> Nat], made : Nat, mishaps : Nat]
  BY DEF LearningInv, LearningTyped, Write, WriteUnanswered, CallHolds, WriteHolds
<1>1. CASE Write(c)
  <2> DEFINE r == [asked[c] EXCEPT !.at = "shown", !.shown = {asked[c].id}]
  <2>1. r \in CallState /\ Becomes(c, r)
    BY <1>0, <1>1 DEF Write, CallState
  <2>2. asked'[c] = r
    BY <2>1, Becoming DEF LearningInv
  <2>3. asked[c].knew \in SUBSET Ids /\ files \in [Ids -> Observation]
    BY <1>0 DEF CallState, LearningInv, LearningTyped
  <2>4. CallHolds(c)'
    <3>1. \A k \in asked[c].knew \ purged : files'[k].on /\ files'[k].status = "rejected"
      <4> SUFFICES ASSUME NEW k \in asked[c].knew \ purged
                   PROVE  files'[k].on /\ files'[k].status = "rejected"
        OBVIOUS
      <4>1. k \in Ids /\ files[k].on /\ files[k].status = "rejected"
        BY <1>0, <2>3 DEF CallHolds
      <4>2. k # asked[c].id
        BY <1>0, <4>1 DEF WriteHolds, Decided
      <4> QED
        BY <1>1, <2>3, <4>1, <4>2 DEF Write
    <3>2. /\ asked'[c].before = asked[c].before /\ asked'[c].hidden = asked[c].hidden
          /\ asked'[c].shown = {asked[c].id} /\ asked'[c].at = "shown"
          /\ asked'[c].op = asked[c].op /\ asked'[c].id = asked[c].id
          /\ asked'[c].answer = asked[c].answer /\ asked'[c].knew = asked[c].knew
      BY <1>0, <2>2 DEF CallState
    <3>3. purged' = purged /\ asked[c].id \notin asked[c].before
      BY <1>0, <1>1 DEF Write, WriteHolds
    <3> QED
      BY <1>0, <3>1, <3>2, <3>3 DEF CallHolds
  <2>5. /\ files' = [files EXCEPT ![asked[c].id] = asked[c].got] /\ purged' = purged
        /\ lockedBy' = lockedBy
    BY <1>1 DEF Write
  <2>6. CASE asked[c].op = "observe"
    <3>1. /\ tally' \in [accepted : [Ids -> Nat], doubtful : [Ids -> Nat], made : Nat, mishaps : Nat]
          /\ tally'.accepted = [tally.accepted EXCEPT ![asked[c].id] = @ + 1]
          /\ tally'.doubtful = tally.doubtful
      BY <1>0, <1>1, <2>6 DEF Write
    <3> QED
      BY <1>0, <2>1, <2>4, <2>5, <2>6, <3>1, Replacing
  <2>7. CASE asked[c].op = "review"
    <3>1. tally' = tally
      BY <1>1, <2>7 DEF Write
    <3> QED
      BY <1>0, <2>1, <2>4, <2>5, <2>7, <3>1, Replacing
  <2> QED
    BY <1>0, <2>6, <2>7
<1>2. CASE WriteUnanswered(c)
  <2>1. Becomes(c, Asking) /\ asked'[c] = Asking
    BY <1>2, AskingTyped, Becoming DEF WriteUnanswered, Ends, LearningInv
  <2>2. CallHolds(c)'
    BY <2>1 DEF CallHolds, Asking
  <2>3. /\ files' = [files EXCEPT ![asked[c].id] = asked[c].got] /\ purged' = purged
        /\ lockedBy' = lockedBy \ {c}
    BY <1>2 DEF WriteUnanswered, Ends
  <2>4. CASE asked[c].op = "observe"
    <3>1. /\ tally' \in [accepted : [Ids -> Nat], doubtful : [Ids -> Nat], made : Nat, mishaps : Nat]
          /\ tally'.doubtful = [tally.doubtful EXCEPT ![asked[c].id] = @ + 1]
          /\ tally'.accepted = tally.accepted
      <4> DEFINE more == [tally.doubtful EXCEPT ![asked[c].id] = @ + 1]
      <4>1. more \in [Ids -> Nat]
        BY <1>0
      <4>2. tally' = [accepted |-> tally.accepted, doubtful |-> more, made |-> tally.made,
                    mishaps |-> tally.mishaps + 1]
        <5>1. tally' = [tally EXCEPT !.mishaps = @ + 1, !.doubtful = more]
          BY <1>2, <2>4 DEF WriteUnanswered
        <5> HIDE DEF more
        <5> QED
          BY <1>0, <5>1
      <4> HIDE DEF more
      <4>3. /\ tally' \in [accepted : [Ids -> Nat], doubtful : [Ids -> Nat], made : Nat, mishaps : Nat]
            /\ tally'.doubtful = more /\ tally'.accepted = tally.accepted
        BY <1>0, <4>1, <4>2
      <4> QED
        BY <4>3 DEF more
    <3> QED
      BY <1>0, <2>1, <2>2, <2>3, <2>4, <3>1, AskingTyped, Replacing
  <2>5. CASE asked[c].op = "review"
    <3> DEFINE same == [tally.doubtful EXCEPT ![asked[c].id] = @ + 0]
    <3>1. same \in [Ids -> Nat] /\ \A i \in Ids : same[i] = tally.doubtful[i]
      BY <1>0
    <3>2. tally' = [accepted |-> tally.accepted, doubtful |-> same, made |-> tally.made,
                  mishaps |-> tally.mishaps + 1]
      <4>1. tally' = [tally EXCEPT !.mishaps = @ + 1, !.doubtful = same]
        BY <1>2, <2>5 DEF WriteUnanswered
      <4> HIDE DEF same
      <4> QED
        BY <1>0, <4>1
    <3> HIDE DEF same
    <3>3. /\ tally' \in [accepted : [Ids -> Nat], doubtful : [Ids -> Nat], made : Nat, mishaps : Nat]
          /\ \A i \in Ids : tally'.doubtful[i] = tally.doubtful[i]
          /\ tally'.accepted = tally.accepted
      BY <1>0, <3>1, <3>2
    <3> QED
      BY <1>0, <2>1, <2>2, <2>3, <2>5, <3>3, AskingTyped, Replacing
  <2> QED
    BY <1>0, <2>4, <2>5
<1> QED
  BY <1>1, <1>2

\* The ledger and the files of what it hides, under the lock of a caller.
LEMMA HidingHolds ==
  ASSUME LearningInv, NEW c \in Callers, asked[c].at \in {"find", "erase"},
         NEW r \in CallState, Becomes(c, r), CallHolds(c)', lockedBy' \in {lockedBy, lockedBy \ {c}},
         tally' = tally, purged' \in SUBSET Ids, purged \subseteq purged',
         \A i \in Ids : files'[i] = files[i] \/ (i \in purged /\ files'[i] = Gone),
         files' \in [Ids -> Observation]
  PROVE  LearningInv'
<1>1. /\ asked' \in [Callers -> CallState] /\ \A d \in Callers \ {c} : asked'[d] = asked[d]
      /\ CallHolds(c) /\ lockedBy = {c}
  BY Becoming DEF LearningInv, CallHolds
<1>2. LearningTyped'
  BY <1>1 DEF LearningInv, LearningTyped
<1>3. \A i \in Present' \ purged' : i \in Present \ purged /\ files'[i] = files[i]
  BY DEF Present, Gone
<1>4. CountsAreReports' /\ OneProposalPerFamily'
  BY <1>3 DEF LearningInv, CountsAreReports, OneProposalPerFamily
<1>5. ASSUME NEW i \in Ids PROVE FileHolds(i)'
  BY DEF FileHolds, Gone, LearningInv
<1>6. ASSUME NEW d \in Callers \ {c} PROVE CallHolds(d)'
  <2>1. /\ CallHolds(d) /\ asked'[d] = asked[d] /\ asked[d] \in CallState
    BY <1>1 DEF LearningInv, LearningTyped
  <2>2. asked[d].at \notin {"find", "write", "erase"}
    <3>1. lockedBy # {d}
      BY <1>1
    <3> QED
      BY <2>1, <3>1 DEF CallHolds
  <2>3. asked[d].knew \subseteq Ids
    BY <2>1 DEF CallState
  <2> QED
    BY <2>1, <2>2, <2>3 DEF CallHolds
<1> QED
  BY <1>2, <1>4, <1>5, <1>6 DEF LearningInv

LEMMA PurgeHolds ==
  ASSUME LearningInv, NEW c \in Callers, Purge(c) \/ RemoveObservation(c) \/ EraseHidden(c)
  PROVE  LearningInv'
<1>0. /\ asked[c] \in CallState /\ CallHolds(c) /\ purged \in SUBSET Ids
      /\ files \in [Ids -> Observation]
  BY DEF LearningInv, LearningTyped
<1>1. CASE Purge(c)
  <2> DEFINE r == [asked[c] EXCEPT !.at = "erase"]
  <2>1. r \in CallState /\ Becomes(c, r)
    BY <1>0, <1>1 DEF Purge, CallState
  <2>2. asked'[c] = r
    BY <2>1, Becoming DEF LearningInv
  <2>3. CallHolds(c)'
    BY <1>0, <1>1, <2>2 DEF CallHolds, CallState, Purge
  <2>4. purged' \in SUBSET Ids
    BY <1>0, <1>1 DEF Purge, CallHolds
  <2> QED
    BY <1>0, <1>1, <2>1, <2>3, <2>4, HidingHolds DEF Purge
<1>2. ASSUME Ends(c) PROVE Becomes(c, Asking) /\ CallHolds(c)' /\ lockedBy' = lockedBy \ {c}
  <2>1. asked'[c] = Asking
    BY <1>2, AskingTyped, Becoming DEF Ends, LearningInv
  <2> QED
    BY <1>2, <2>1 DEF CallHolds, Asking, Ends
<1>3. CASE RemoveObservation(c)
  <2>1. asked[c].id \in purged
    BY <1>0, <1>3 DEF RemoveObservation, CallHolds
  <2> QED
    BY <1>0, <1>2, <1>3, <2>1, AskingTyped, HidingHolds DEF RemoveObservation
<1>4. CASE EraseHidden(c)
  BY <1>0, <1>2, <1>4, AskingTyped, HidingHolds DEF EraseHidden
<1> QED
  BY <1>1, <1>3, <1>4

LEMMA ReappearHolds ==
  ASSUME LearningInv, NEW i \in Ids, NEW t \in Texts, NEW f \in Families, Reappear(i, t, f)
  PROVE  LearningInv'
<1> DEFINE back == [Gone EXCEPT !.on = TRUE, !.text = t, !.family = f,
                                !.count = 1, !.status = "quarantined"]
<1>0. /\ files \in [Ids -> Observation] /\ i \in purged /\ ~files[i].on
      /\ UNCHANGED <<purged, lockedBy, asked>>
  BY DEF LearningInv, LearningTyped, Reappear, Gone
<1>1. back \in Observation /\ back.on /\ ~back.over /\ back.status = "quarantined"
  BY DEF Gone, Observation, Statuses, AnyText
<1>2. files' = [files EXCEPT ![i] = back]
  BY DEF Reappear
<1> HIDE DEF back
<1>3. /\ files' \in [Ids -> Observation] /\ files'[i] = back
      /\ \A j \in Ids \ {i} : files'[j] = files[j]
  BY <1>0, <1>1, <1>2
<1>4. /\ tally' \in [accepted : [Ids -> Nat], doubtful : [Ids -> Nat], made : Nat, mishaps : Nat]
      /\ tally'.accepted = tally.accepted /\ tally'.doubtful = tally.doubtful
  BY DEF LearningInv, LearningTyped, Reappear
<1>5. LearningTyped'
  BY <1>0, <1>3, <1>4 DEF LearningInv, LearningTyped
<1>6. Present' \ purged = Present \ purged /\ \A j \in Present \ purged : files'[j] = files[j]
  BY <1>0, <1>3 DEF Present
<1>7. CountsAreReports' /\ OneProposalPerFamily'
  BY <1>0, <1>4, <1>6 DEF LearningInv, CountsAreReports, OneProposalPerFamily
<1>8. ASSUME NEW j \in Ids PROVE FileHolds(j)'
  BY <1>0, <1>1, <1>3, <1>4 DEF FileHolds, LearningInv
<1>9. ASSUME NEW c \in Callers PROVE CallHolds(c)'
  <2>1. CallHolds(c) /\ asked[c] \in CallState
    BY DEF LearningInv, LearningTyped
  <2>2. ASSUME WriteHolds(c) PROVE WriteHolds(c)'
    <3>1. asked[c].id \in Ids /\ asked[c].id # i
      BY <1>0, <2>2 DEF WriteHolds
    <3> QED
      BY <1>0, <1>3, <1>6, <2>2, <3>1 DEF WriteHolds, Decided
  <2>3. asked[c].knew \subseteq Ids
    BY <2>1 DEF CallState
  <2> QED
    BY <1>0, <1>3, <2>1, <2>2, <2>3 DEF CallHolds
<1> QED
  BY <1>5, <1>7, <1>8, <1>9 DEF LearningInv

LEMMA LearningStep == LearningInv /\ [LearningNext]_learningVars => LearningInv'
<1> SUFFICES ASSUME LearningInv, [LearningNext]_learningVars PROVE LearningInv'
  OBVIOUS
<1>1. CASE UNCHANGED learningVars
  BY <1>1 DEF learningVars, LearningInv, LearningTyped, CountsAreReports, OneProposalPerFamily,
     FileHolds, CallHolds, WriteHolds, Present, Decided
<1>2. ASSUME NEW c \in Callers, Answered(c) \/ Fail(c) PROVE LearningInv'
  BY <1>2, EndsHolds DEF Answered, Fail, LearningInv, LearningTyped
<1>3. CASE LearningNext
  BY <1>2, <1>3, ArriveHolds, OpenHolds, ObserveHolds, ReviewHolds, WriteKeeps, PurgeHolds,
     ReappearHolds DEF LearningNext
<1> QED
  BY <1>1, <1>3

\* The review queue: counts are reports; repetitions are one proposal, and what was
\* rejected before a call began is not filed again by it, unless a scan could not
\* read the file in question; and no answer names what was purged before
\* (internal/learning/store.go Observe, Review).
THEOREM QueueStaysHonest == LearningSpec => []QueueIsHonest
<1>1. LearningInv => QueueIsHonest
  BY DEF LearningInv, QueueIsHonest, RejectedStaysRejected, PurgedStaysHidden, FileHolds,
         CallHolds, Present
<1> QED
  BY <1>1, LearningInitHolds, LearningStep, PTL DEF LearningSpec

\* An approved or rejected observation is never changed again, by whatever call
\* (internal/learning/store.go:356).
THEOREM DecisionsAreFinal == LearningSpec => DecisionsStand
<1> DEFINE Stands == \A i \in Ids :
             files[i].on /\ files[i].status \in {"approved", "rejected"} /\ files'[i].on
             => files'[i] = files[i]
<1>1. ASSUME LearningInv, [LearningNext]_learningVars PROVE Stands
  <2> SUFFICES ASSUME NEW i \in Ids, files[i].on, Decided(files[i]), files'[i].on
               PROVE  files'[i] = files[i]
    BY DEF Decided
  <2>0. files \in [Ids -> Observation] /\ \A c \in Callers : CallHolds(c)
    BY <1>1 DEF LearningInv, LearningTyped
  <2>1. ASSUME NEW c \in Callers, Write(c) \/ WriteUnanswered(c) PROVE files'[i] = files[i]
    <3>1. asked[c].id # i
      BY <2>0, <2>1 DEF CallHolds, WriteHolds, Write, WriteUnanswered
    <3> QED
      BY <2>0, <2>1, <3>1 DEF Write, WriteUnanswered
  <2>2. ASSUME NEW c \in Callers, RemoveObservation(c) \/ EraseHidden(c)
        PROVE  files'[i] = files[i]
    BY <2>0, <2>2 DEF RemoveObservation, EraseHidden, Gone
  <2>3. ASSUME NEW j \in Ids, NEW t \in Texts, NEW f \in Families, Reappear(j, t, f)
        PROVE  files'[i] = files[i]
    BY <2>0, <2>3 DEF Reappear, Gone
  <2>4. CASE UNCHANGED files
    BY <2>4
  <2> QED
    BY <1>1, <2>1, <2>2, <2>3, <2>4 DEF LearningNext, learningVars, Arrivals, Arrive, OpenLearning,
       OpenWith, List, Answered, Lock, Observe, Review, Fail, Purge
<1> QED
  BY <1>1, LearningInitHolds, LearningStep, PTL DEF LearningSpec, DecisionsStand

-----------------------------------------------------------------------------
(* VaultAccess.  Until a lock is broken, the lock file names the one       *)
(* writer that is past it, and what that writer read is what is on disk.   *)
(* A writer past the second gate is not barred, and one before it is       *)
(* barred only while the vault is frozen or of another schema.             *)

Adding ==
    [at : {"idle", "lock", "break", "gate", "read", "write", "done"},
     slug : Slugs \cup {0}, root : Roots \cup {<<>>}, got : SUBSET Roots, barred : BOOLEAN]

VaultTyped ==
    /\ skeleton \in [made : BOOLEAN, schema : {"absent", "ours", "newer"}]
    /\ registered \in [Slugs -> SUBSET Roots]
    /\ lockFile \in [held : BOOLEAN, owner : Writers \cup {0}, old : BOOLEAN]
    /\ frozen \in BOOLEAN /\ adding \in [Writers -> Adding] /\ told \subseteq Slugs \X Roots
    /\ slips \in [broken : BOOLEAN, barred : BOOLEAN]

PastLock(w) == adding[w].at \in {"gate", "read", "write", "done"}

WriterHolds(w) ==
    /\ adding[w].at # "idle" => adding[w].slug \in Slugs /\ adding[w].root \in Roots
                                /\ skeleton.made
    /\ adding[w].at = "gate" /\ adding[w].barred => frozen \/ ~checkSchema
    /\ adding[w].at \in {"read", "write", "done"} => ~adding[w].barred
    /\ ~slips.broken /\ PastLock(w) =>
          /\ lockFile.held /\ lockFile.owner = w
          /\ adding[w].at = "write" => adding[w].got = registered[adding[w].slug]
          /\ adding[w].at = "done" => adding[w].root \in registered[adding[w].slug]

VaultInv ==
    /\ VaultTyped /\ RegistrationIsKept
    /\ \A w \in Writers : WriterHolds(w)

LEMMA VaultInitHolds == VaultInit => VaultInv
<1> SUFFICES ASSUME VaultInit PROVE VaultInv
  OBVIOUS
<1>1. VaultTyped
  BY DEF VaultInit, VaultTyped, NoLock, NoAdd, Adding
<1>2. RegistrationIsKept
  BY DEF VaultInit, RegistrationIsKept, RootsStay, BarredWritesNothing
<1>3. \A w \in Writers : WriterHolds(w)
  BY DEF VaultInit, WriterHolds, NoAdd, PastLock
<1> QED
  BY <1>1, <1>2, <1>3 DEF VaultInv

\* The vault is prepared, frozen, thawed or its marker is changed.
LEMMA VaultChanges ==
  ASSUME VaultInv, UNCHANGED <<registered, lockFile, told, slips>>,
         skeleton' \in [made : BOOLEAN, schema : {"absent", "ours", "newer"}],
         frozen' \in BOOLEAN, skeleton.made => skeleton'.made,
         NEW b \in BOOLEAN, b => (frozen \/ ~checkSchema)',
         adding' = [w \in Writers |-> [adding[w] EXCEPT !.barred = @ /\ b]]
  PROVE  VaultInv'
<1>1. ASSUME NEW w \in Writers
      PROVE  /\ adding'[w] \in Adding /\ adding'[w].at = adding[w].at
             /\ adding'[w].slug = adding[w].slug /\ adding'[w].root = adding[w].root
             /\ adding'[w].got = adding[w].got /\ adding'[w].barred = (adding[w].barred /\ b)
  <2>1. adding[w] \in Adding /\ adding'[w] = [adding[w] EXCEPT !.barred = @ /\ b]
    BY DEF VaultInv, VaultTyped
  <2>2. (adding[w].barred /\ b) \in BOOLEAN
    OBVIOUS
  <2> QED
    BY <2>1, <2>2 DEF Adding
<1>2. VaultTyped'
  BY <1>1 DEF VaultInv, VaultTyped
<1>3. RegistrationIsKept'
  BY DEF VaultInv, RegistrationIsKept, RootsStay, BarredWritesNothing
<1>4. ASSUME NEW w \in Writers PROVE WriterHolds(w)'
  BY <1>1 DEF VaultInv, WriterHolds, PastLock
<1> QED
  BY <1>2, <1>3, <1>4 DEF VaultInv

LEMMA VaultChangesHold ==
  ASSUME VaultInv,
         \/ Init
         \/ \E on \in BOOLEAN : Freeze(on)
         \/ \E s \in {"ours", "newer"} : ChangeSchema(s)
  PROVE  VaultInv'
<1>1. CASE Init
  <2>0. /\ skeleton' \in [made : BOOLEAN, schema : {"absent", "ours", "newer"}] /\ skeleton'.made
        /\ ~frozen /\ checkSchema
    <3>1. skeleton \in [made : BOOLEAN, schema : {"absent", "ours", "newer"}]
      BY DEF VaultInv, VaultTyped
    <3>2. CASE skeleton' = [made |-> TRUE, schema |-> "ours"]
      BY <1>1, <3>2 DEF Init
    <3>3. CASE skeleton' = [skeleton EXCEPT !.made = TRUE]
      BY <1>1, <3>1, <3>3 DEF Init
    <3> QED
      BY <1>1, <3>2, <3>3 DEF Init
  <2>1. ASSUME NEW w \in Writers PROVE WriterHolds(w)'
    BY <1>1, <2>1, <2>0 DEF Init, VaultInv, WriterHolds, PastLock, checkSchema
  <2> QED
    BY <1>1, <2>0, <2>1 DEF Init, VaultInv, VaultTyped, RegistrationIsKept, RootsStay,
       BarredWritesNothing
<1>2. ASSUME NEW on \in BOOLEAN, Freeze(on) PROVE VaultInv'
  BY <1>2, VaultChanges DEF Freeze, StillBarred, VaultInv, VaultTyped
<1>3. ASSUME NEW s \in {"ours", "newer"}, ChangeSchema(s) PROVE VaultInv'
  <2> DEFINE b == frozen \/ s \notin {"absent", "ours"}
  <2>1. b \in BOOLEAN /\ adding' = [w \in Writers |-> [adding[w] EXCEPT !.barred = @ /\ b]]
    BY <1>3 DEF ChangeSchema, StillBarred
  <2>2. /\ skeleton' \in [made : BOOLEAN, schema : {"absent", "ours", "newer"}]
        /\ skeleton'.schema = s /\ skeleton'.made = skeleton.made /\ frozen' = frozen
        /\ UNCHANGED <<registered, lockFile, told, slips>> /\ frozen' \in BOOLEAN
    BY <1>3 DEF ChangeSchema, VaultInv, VaultTyped
  <2>3. b => (frozen \/ ~checkSchema)'
    BY <2>2 DEF checkSchema
  <2> HIDE DEF b
  <2> QED
    BY <2>1, <2>2, <2>3, VaultChanges
<1> QED
  BY <1>1, <1>2, <1>3

\* A writer moves and changes neither the vault nor its registrations.
LEMMA WriterMoves ==
  ASSUME VaultInv, NEW w \in Writers, NEW a \in Adding, Goes(w, a),
         UNCHANGED <<skeleton, frozen, registered>>,
         slips' \in [broken : BOOLEAN, barred : BOOLEAN], ~slips'.barred,
         slips.broken => slips'.broken, ~slips'.broken => RootsStay',
         told' \subseteq Slugs \X Roots,
         lockFile' \in [held : BOOLEAN, owner : Writers \cup {0}, old : BOOLEAN],
         \/ slips'.broken
         \/ lockFile'.held = lockFile.held /\ lockFile'.owner = lockFile.owner
         \/ ~lockFile.held \/ PastLock(w),
         WriterHolds(w)'
  PROVE  VaultInv'
<1>1. adding' \in [Writers -> Adding] /\ \A v \in Writers \ {w} : adding'[v] = adding[v]
  BY DEF Goes, VaultInv, VaultTyped
<1>2. VaultTyped'
  BY <1>1 DEF VaultInv, VaultTyped
<1>3. RegistrationIsKept'
  BY DEF VaultInv, RegistrationIsKept, RootsStay, BarredWritesNothing
<1>4. ASSUME NEW v \in Writers \ {w} PROVE WriterHolds(v)'
  BY <1>1 DEF VaultInv, WriterHolds, PastLock, checkSchema
<1> QED
  BY <1>2, <1>3, <1>4 DEF VaultInv

LEMMA WriterStep ==
  ASSUME VaultInv, NEW w \in Writers,
         \/ \E s \in Slugs, r \in Roots : BeginAdd(w, s, r)
         \/ TakeLock(w) \/ SeeStale(w) \/ BreakLock(w) \/ GiveUp(w) \/ Dies(w)
         \/ SecondGate(w) \/ ReadProject(w) \/ FinishAdd(w)
  PROVE  VaultInv'
<1>0. /\ adding[w] \in Adding /\ WriterHolds(w) /\ VaultTyped /\ ~slips.barred
      /\ ~slips.broken => RootsStay
  BY DEF VaultInv, VaultTyped, RegistrationIsKept, RootsStay, BarredWritesNothing
<1>1. ASSUME NEW a \in Adding, Goes(w, a) PROVE adding'[w] = a
  BY <1>0, <1>1 DEF Goes, VaultTyped
<1>2. NoAdd \in Adding
  BY DEF NoAdd, Adding
<1>3. ASSUME NEW s \in Slugs, NEW r \in Roots, BeginAdd(w, s, r) PROVE VaultInv'
  <2> DEFINE a == [NoAdd EXCEPT !.at = "lock", !.slug = s, !.root = r]
  <2>1. a \in Adding /\ Goes(w, a)
    <3>1. Goes(w, a)
      BY <1>3 DEF BeginAdd
    <3>2. "lock" \in {"idle", "lock", "break", "gate", "read", "write", "done"}
          /\ s \in Slugs \cup {0} /\ r \in Roots \cup {<<>>}
      BY <1>3
    <3>3. a \in Adding
      BY <1>2, <3>2 DEF Adding
    <3> QED
      BY <3>1, <3>3
  <2>2. WriterHolds(w)'
    <3>1. a.at = "lock" /\ a.slug = s /\ a.root = r
      BY DEF NoAdd
    <3>2. adding'[w] = a
      BY <1>1, <2>1
    <3> HIDE DEF a
    <3> QED
      BY <1>3, <3>1, <3>2 DEF BeginAdd, WriterHolds, PastLock, writable
  <2> HIDE DEF a
  <2> QED
    BY <1>0, <1>3, <2>1, <2>2, WriterMoves DEF BeginAdd, VaultTyped, RootsStay
<1>4. CASE TakeLock(w)
  <2> DEFINE a == [adding[w] EXCEPT !.at = "gate", !.barred = ~writable]
  <2>1. a \in Adding /\ Goes(w, a)
    BY <1>0, <1>4 DEF TakeLock, Adding, writable
  <2>2. adding'[w] = a
    BY <1>1, <2>1
  <2>3. WriterHolds(w)'
    BY <1>0, <1>4, <2>2 DEF TakeLock, WriterHolds, PastLock, writable, Adding, checkSchema
  <2> HIDE DEF a
  <2> QED
    BY <1>0, <1>4, <2>1, <2>3, WriterMoves DEF TakeLock, VaultTyped, RootsStay
<1>5. CASE SeeStale(w)
  <2> DEFINE a == [adding[w] EXCEPT !.at = "break"]
  <2>1. a \in Adding /\ Goes(w, a)
    BY <1>0, <1>5 DEF SeeStale, Adding
  <2>2. WriterHolds(w)'
    BY <1>0, <1>1, <1>5, <2>1 DEF SeeStale, WriterHolds, PastLock, Adding
  <2> HIDE DEF a
  <2> QED
    BY <1>0, <1>5, <2>1, <2>2, WriterMoves DEF SeeStale, VaultTyped, RootsStay
<1>6. CASE BreakLock(w)
  <2> DEFINE a == [adding[w] EXCEPT !.at = "lock"]
  <2>1. a \in Adding /\ Goes(w, a)
    BY <1>0, <1>6 DEF BreakLock, Adding
  <2>2. WriterHolds(w)'
    BY <1>0, <1>1, <1>6, <2>1 DEF BreakLock, WriterHolds, PastLock, Adding
  <2>3. slips' \in [broken : BOOLEAN, barred : BOOLEAN] /\ slips'.broken /\ ~slips'.barred
    BY <1>0, <1>6 DEF BreakLock, VaultTyped
  <2> HIDE DEF a
  <2> QED
    BY <1>0, <1>6, <2>1, <2>2, <2>3, WriterMoves DEF BreakLock, VaultTyped, NoLock
<1>7. CASE GiveUp(w) \/ Dies(w)
  <2>1. Goes(w, NoAdd) /\ adding'[w] = NoAdd
    BY <1>1, <1>2, <1>7 DEF GiveUp, Dies
  <2>2. WriterHolds(w)'
    BY <2>1 DEF WriterHolds, PastLock, NoAdd
  <2>3. /\ lockFile' = lockFile \/ (lockFile' = NoLock /\ PastLock(w))
        /\ UNCHANGED <<skeleton, registered, frozen, told, slips>>
    BY <1>7 DEF GiveUp, Dies, PastLock
  <2>4. lockFile' \in [held : BOOLEAN, owner : Writers \cup {0}, old : BOOLEAN]
    <3>1. NoLock \in [held : BOOLEAN, owner : Writers \cup {0}, old : BOOLEAN]
      BY DEF NoLock
    <3>2. lockFile \in [held : BOOLEAN, owner : Writers \cup {0}, old : BOOLEAN]
      BY <1>0 DEF VaultTyped
    <3> QED
      BY <2>3, <3>1, <3>2
  <2> QED
    BY <1>0, <1>2, <2>1, <2>2, <2>3, <2>4, WriterMoves DEF VaultTyped, RootsStay
<1>8. CASE SecondGate(w)
  <2> DEFINE a == [adding[w] EXCEPT !.at = "read"]
  <2>1. a \in Adding /\ Goes(w, a)
    BY <1>0, <1>8 DEF SecondGate, Adding
  <2>2. WriterHolds(w)'
    BY <1>0, <1>1, <1>8, <2>1 DEF SecondGate, WriterHolds, PastLock, Adding, writable
  <2> HIDE DEF a
  <2> QED
    BY <1>0, <1>8, <2>1, <2>2, WriterMoves DEF SecondGate, VaultTyped, RootsStay
<1>9. CASE ReadProject(w)
  <2> DEFINE got == registered[adding[w].slug]
             a   == [adding[w] EXCEPT !.got = got, !.at = IF adding[w].root \in got THEN "done"
                                                                              ELSE "write"]
  <2>1. a \in Adding /\ Goes(w, a)
    BY <1>0, <1>9 DEF ReadProject, Adding, VaultTyped, WriterHolds
  <2>2. adding'[w] = a
    BY <1>1, <2>1
  <2>3. WriterHolds(w)'
    BY <1>0, <1>9, <2>2 DEF ReadProject, WriterHolds, PastLock, Adding
  <2> HIDE DEF a
  <2> QED
    BY <1>0, <1>9, <2>1, <2>3, WriterMoves DEF ReadProject, VaultTyped, RootsStay
<1>10. CASE FinishAdd(w)
  <2>1. Goes(w, NoAdd) /\ adding'[w] = NoAdd
    BY <1>1, <1>2, <1>10 DEF FinishAdd
  <2>2. WriterHolds(w)'
    BY <2>1 DEF WriterHolds, PastLock, NoAdd
  <2>3. told' \subseteq Slugs \X Roots /\ (~slips'.broken => RootsStay')
    BY <1>0, <1>10 DEF FinishAdd, WriterHolds, PastLock, VaultTyped, RootsStay
  <2> QED
    BY <1>0, <1>2, <1>10, <2>1, <2>2, <2>3, WriterMoves DEF FinishAdd, VaultTyped, NoLock, PastLock
<1> QED
  BY <1>3, <1>4, <1>5, <1>6, <1>7, <1>8, <1>9, <1>10

\* A project file is replaced; nobody else is past the lock.
LEMMA WriteProjectHolds ==
  ASSUME VaultInv, NEW w \in Writers, WriteProject(w) PROVE VaultInv'
<1>0. /\ adding[w] \in Adding /\ WriterHolds(w) /\ VaultTyped /\ ~slips.barred
      /\ ~slips.broken => RootsStay
  BY DEF VaultInv, VaultTyped, RegistrationIsKept, RootsStay, BarredWritesNothing
<1> DEFINE s == adding[w].slug  r == adding[w].root
<1>1. /\ s \in Slugs /\ r \in Roots /\ ~adding[w].barred /\ skeleton.made
      /\ ~slips.broken => /\ lockFile.held /\ lockFile.owner = w
                          /\ adding[w].got = registered[s]
  BY <1>0 DEF WriteProject, WriterHolds, PastLock
<1>2. /\ registered' \in [Slugs -> SUBSET Roots]
      /\ ~slips.broken => \A x \in Slugs : registered[x] \subseteq registered'[x]
      /\ r \in registered'[s]
  BY <1>0, <1>1 DEF WriteProject, VaultTyped, Adding
<1>3. /\ slips' \in [broken : BOOLEAN, barred : BOOLEAN] /\ slips'.broken = slips.broken
      /\ ~slips'.barred
  BY <1>0, <1>1 DEF WriteProject, VaultTyped
<1>4. /\ adding' \in [Writers -> Adding]
      /\ adding'[w] = [adding[w] EXCEPT !.at = "done"]
      /\ \A v \in Writers \ {w} : adding'[v] = adding[v]
  <2>1. [adding[w] EXCEPT !.at = "done"] \in Adding
    BY <1>0 DEF Adding
  <2> QED
    BY <1>0, <2>1 DEF WriteProject, Goes, VaultTyped
<1>5. VaultTyped'
  BY <1>0, <1>2, <1>3, <1>4 DEF WriteProject, VaultTyped
<1>6. RegistrationIsKept'
  BY <1>0, <1>2, <1>3 DEF WriteProject, VaultTyped, RegistrationIsKept, RootsStay,
     BarredWritesNothing
<1>7. WriterHolds(w)'
  BY <1>0, <1>1, <1>2, <1>3, <1>4 DEF WriteProject, WriterHolds, PastLock, Adding
<1>8. ASSUME NEW v \in Writers \ {w} PROVE WriterHolds(v)'
  <2>1. WriterHolds(v) /\ adding'[v] = adding[v] /\ (~slips.broken => ~PastLock(v))
    BY <1>1, <1>4 DEF VaultInv, WriterHolds
  <2> QED
    BY <1>3, <2>1 DEF WriteProject, WriterHolds, PastLock, checkSchema
<1> QED
  BY <1>5, <1>6, <1>7, <1>8 DEF VaultInv

LEMMA VaultStep == VaultInv /\ [VaultNext]_vaultVars => VaultInv'
<1> SUFFICES ASSUME VaultInv, [VaultNext]_vaultVars PROVE VaultInv'
  OBVIOUS
<1>1. CASE UNCHANGED vaultVars
  BY <1>1 DEF vaultVars, VaultInv, VaultTyped, RegistrationIsKept, RootsStay, BarredWritesNothing,
         WriterHolds, PastLock, checkSchema
<1>2. CASE AgeLock
  <2>1. /\ lockFile' \in [held : BOOLEAN, owner : Writers \cup {0}, old : BOOLEAN]
        /\ lockFile'.held = lockFile.held /\ lockFile'.owner = lockFile.owner
    BY <1>2 DEF AgeLock, VaultInv, VaultTyped
  <2> QED
    BY <1>2, <2>1 DEF AgeLock, VaultInv, VaultTyped, RegistrationIsKept, RootsStay,
       BarredWritesNothing, WriterHolds, PastLock, checkSchema
<1>3. CASE VaultNext
  BY <1>2, <1>3, VaultChangesHold, WriterStep, WriteProjectHolds DEF VaultNext
<1> QED
  BY <1>1, <1>3

\* Registrations that were acknowledged stay until a lock is broken, and one
\* that was barred since it had the lock writes nothing (internal/brain/vault.go
\* AddProject, lock, writable).
THEOREM RegistrationsAreKept == VaultSpec => []RegistrationIsKept
<1>1. VaultInv => RegistrationIsKept
  BY DEF VaultInv
<1> QED
  BY <1>1, VaultInitHolds, VaultStep, PTL DEF VaultSpec

-----------------------------------------------------------------------------
(* SessionReminder.  What a session has since its last capture or reminder *)
(* is what the transcript has beyond the last capture or beyond its mark;  *)
(* a session without its mark has seen a window of others marked.          *)

MarkState == [session : Sessions, at : Nat]

ReminderTyped ==
    /\ work \in [Sessions -> [mutations : Nat, atLastCapture : Nat]]
    /\ nudgeMarks \in Seq(MarkState) /\ stateRead \in BOOLEAN
    /\ hook \in [Sessions -> [at : {"idle", "mark"}, mark : Nat, blind : BOOLEAN]]
    /\ since \in [Sessions -> [edits : Nat, committed : BOOLEAN, reminded : BOOLEAN, aged : Nat]]
    /\ answer \in [Sessions -> [said : {"nothing yet", "silence", "out", "reminder"},
                                earned : BOOLEAN]]

HasMark(s) == \E i \in DOMAIN nudgeMarks : nudgeMarks[i].session = s

MarksDiffer ==
    \A i, j \in DOMAIN nudgeMarks : nudgeMarks[i].session = nudgeMarks[j].session => i = j

\* The marks of a session, and how many others came after it.
MarkHolds(s) ==
    /\ \A i \in DOMAIN nudgeMarks : nudgeMarks[i].session = s =>
          /\ Len(nudgeMarks) <= since[s].aged + i
          /\ ~since[s].reminded => nudgeMarks[i].at <= work[s].atLastCapture
          /\ since[s].reminded => work[s].mutations = nudgeMarks[i].at + since[s].edits
    /\ since[s].reminded /\ ~HasMark(s) => nudgeWindow <= since[s].aged

\* The edits since the last capture or reminder are those the transcript has
\* beyond it; a commit raises the count to what earns a reminder.
AddsUp(captured, mutations, edits, committed, reminded) ==
    /\ captured <= mutations
    /\ ~reminded => /\ captured + edits <= mutations
                    /\ ~committed => mutations = captured + edits
                    /\ committed => edits > 0
    /\ committed \/ reminded => captured + nudgeMutations <= mutations

WorkHolds(s) ==
    AddsUp(work[s].atLastCapture, work[s].mutations,
           since[s].edits, since[s].committed, since[s].reminded)

HookHolds(s) ==
    hook[s].at = "mark" =>
        /\ hook[s].mark = work[s].mutations
        /\ work[s].atLastCapture + nudgeMutations <= work[s].mutations
        /\ Due(s) \/ nudgeWindow <= since[s].aged \/ hook[s].blind

ReminderInv ==
    /\ ReminderTyped /\ MarksDiffer /\ RemindersFollowWork
    /\ \A s \in Sessions : MarkHolds(s) /\ WorkHolds(s) /\ HookHolds(s)

LEMMA ReminderInitHolds == ReminderInit => ReminderInv
<1> SUFFICES ASSUME ReminderInit PROVE ReminderInv
  OBVIOUS
<1>1. nudgeMarks = <<>> /\ nudgeMarks \in Seq(MarkState) /\ DOMAIN nudgeMarks = {}
  BY DEF ReminderInit
<1>2. ReminderTyped
  BY <1>1 DEF ReminderInit, ReminderTyped, NoWork, NoHook, Nothing, Unasked
<1>3. \A s \in Sessions : MarkHolds(s) /\ WorkHolds(s) /\ HookHolds(s)
  BY <1>1 DEF ReminderInit, MarkHolds, WorkHolds, AddsUp, HookHolds, NoWork, NoHook, Nothing
<1>4. MarksDiffer /\ RemindersFollowWork
  BY <1>1 DEF ReminderInit, MarksDiffer, RemindersFollowWork, Unasked
<1> QED
  BY <1>2, <1>3, <1>4 DEF ReminderInv

\* What one more tool use leaves of a session.
LEMMA ToolUseHolds ==
  ASSUME ReminderInv, NEW s \in Sessions,
         NEW w \in [mutations : Nat, atLastCapture : Nat],
         NEW e \in [edits : Nat, committed : BOOLEAN, reminded : BOOLEAN, aged : Nat],
         ToolUse(s, w, e), e.aged = since[s].aged,
         work'[s] = w /\ since'[s] = e => MarkHolds(s)' /\ WorkHolds(s)'
  PROVE  ReminderInv'
<1>0. ReminderTyped
  BY DEF ReminderInv
<1>1. /\ work' = [work EXCEPT ![s] = w] /\ since' = [since EXCEPT ![s] = e]
      /\ answer' = [answer EXCEPT ![s] = Unasked] /\ hook[s].at = "idle"
      /\ UNCHANGED <<nudgeMarks, stateRead, hook>>
  BY DEF ToolUse
<1>2. work'[s] = w /\ since'[s] = e /\ answer'[s] = Unasked
  BY <1>0, <1>1 DEF ReminderTyped
<1>3. \A t \in Sessions \ {s} : work'[t] = work[t] /\ since'[t] = since[t] /\ answer'[t] = answer[t]
  BY <1>0, <1>1 DEF ReminderTyped
<1>4. ReminderTyped'
  BY <1>0, <1>1 DEF ReminderTyped, Unasked
<1>5. MarksDiffer'
  BY <1>1 DEF ReminderInv, MarksDiffer
<1>6. RemindersFollowWork'
  <2>0. ~Unasked.earned /\ Unasked.said = "nothing yet"
    BY DEF Unasked
  <2>1. ~answer'[s].earned /\ answer'[s].said = "nothing yet"
    BY <1>2, <2>0
  <2> QED
    BY <1>3, <2>1 DEF ReminderInv, RemindersFollowWork
<1>7. ASSUME NEW t \in Sessions \ {s} PROVE MarkHolds(t)' /\ WorkHolds(t)' /\ HookHolds(t)'
  BY <1>1, <1>3 DEF ReminderInv, MarkHolds, WorkHolds, HookHolds, Due, EnoughEdits, FirstCommit, HasMark
<1>8. MarkHolds(s)' /\ WorkHolds(s)' /\ HookHolds(s)'
  BY <1>1, <1>2 DEF HookHolds
<1> QED
  BY <1>4, <1>5, <1>6, <1>7, <1>8 DEF ReminderInv

LEMMA SessionTyped ==
  ASSUME ReminderTyped, NEW s \in Sessions
  PROVE  /\ work[s] \in [mutations : Nat, atLastCapture : Nat]
         /\ since[s] \in [edits : Nat, committed : BOOLEAN, reminded : BOOLEAN, aged : Nat]
         /\ hook[s] \in [at : {"idle", "mark"}, mark : Nat, blind : BOOLEAN]
         /\ \A i \in DOMAIN nudgeMarks :
               i \in 1 .. Len(nudgeMarks) /\ nudgeMarks[i] \in MarkState
         /\ Len(nudgeMarks) \in Nat
         /\ work[s].mutations \in Nat /\ work[s].atLastCapture \in Nat
         /\ since[s].edits \in Nat /\ since[s].aged \in Nat
         /\ \A i \in DOMAIN nudgeMarks : i \in Nat /\ nudgeMarks[i].at \in Nat
<1>1. /\ work[s] \in [mutations : Nat, atLastCapture : Nat]
      /\ since[s] \in [edits : Nat, committed : BOOLEAN, reminded : BOOLEAN, aged : Nat]
      /\ hook[s] \in [at : {"idle", "mark"}, mark : Nat, blind : BOOLEAN]
  BY DEF ReminderTyped
<1>2. nudgeMarks \in Seq(MarkState)
  BY DEF ReminderTyped
<1>3. /\ work[s].mutations \in Nat /\ work[s].atLastCapture \in Nat
      /\ since[s].edits \in Nat /\ since[s].aged \in Nat
  BY <1>1
<1>4. /\ Len(nudgeMarks) \in Nat
      /\ \A i \in DOMAIN nudgeMarks : i \in 1 .. Len(nudgeMarks) /\ nudgeMarks[i] \in MarkState
  BY <1>2
<1>5. \A i \in DOMAIN nudgeMarks : i \in Nat /\ nudgeMarks[i].at \in Nat
  BY <1>4 DEF MarkState
<1> QED
  BY <1>1, <1>3, <1>4, <1>5

LEMMA EditAddsUp ==
  ASSUME NEW a \in Nat, NEW m \in Nat, NEW n \in Nat, NEW c \in BOOLEAN, NEW r \in BOOLEAN,
         AddsUp(a, m, n, c, r)
  PROVE  AddsUp(a, m + 1, n + 1, c, r)
BY ReminderAssumption DEF AddsUp

LEMMA CommitAddsUp ==
  ASSUME NEW a \in Nat, NEW m \in Nat, NEW n \in Nat, NEW c \in BOOLEAN, NEW r \in BOOLEAN,
         NEW k \in Nat, m <= k, m > a => a + nudgeMutations <= k, r \/ m = a => k = m,
         AddsUp(a, m, n, c, r)
  PROVE  AddsUp(a, k, n, c \/ n > 0, r)
BY ReminderAssumption DEF AddsUp

LEMMA TranscriptHolds ==
  ASSUME ReminderInv, NEW s \in Sessions, Edit(s) \/ Capture(s) \/ Commit(s)
  PROVE  ReminderInv'
<1>0. /\ work[s] \in [mutations : Nat, atLastCapture : Nat]
      /\ since[s] \in [edits : Nat, committed : BOOLEAN, reminded : BOOLEAN, aged : Nat]
      /\ MarkHolds(s) /\ WorkHolds(s)
  BY SessionTyped DEF ReminderInv
<1>9. /\ Len(nudgeMarks) \in Nat
      /\ work[s].mutations \in Nat /\ work[s].atLastCapture \in Nat
      /\ since[s].edits \in Nat /\ since[s].aged \in Nat
      /\ \A i \in DOMAIN nudgeMarks : i \in Nat /\ nudgeMarks[i].at \in Nat
      /\ MarkHolds(s) /\ WorkHolds(s)
  BY SessionTyped DEF ReminderInv
<1>1. CASE Edit(s)
  <2> DEFINE w == [work[s] EXCEPT !.mutations = @ + 1]
             e == [since[s] EXCEPT !.edits = @ + 1]
  <2>1. /\ w \in [mutations : Nat, atLastCapture : Nat]
        /\ e \in [edits : Nat, committed : BOOLEAN, reminded : BOOLEAN, aged : Nat]
        /\ w.mutations = work[s].mutations + 1 /\ w.atLastCapture = work[s].atLastCapture
        /\ e.edits = since[s].edits + 1 /\ e.committed = since[s].committed
        /\ e.reminded = since[s].reminded /\ e.aged = since[s].aged
    BY <1>0
  <2>2. ToolUse(s, w, e) /\ UNCHANGED nudgeMarks
    BY <1>1 DEF Edit, ToolUse
  <2> HIDE DEF w, e
  <2>3. ASSUME work'[s] = w, since'[s] = e PROVE MarkHolds(s)' /\ WorkHolds(s)'
    <3>1. MarkHolds(s)'
      <4>1. ASSUME NEW i \in DOMAIN nudgeMarks, nudgeMarks[i].session = s
            PROVE  /\ Len(nudgeMarks) <= e.aged + i
                   /\ ~e.reminded => nudgeMarks[i].at <= w.atLastCapture
                   /\ e.reminded => w.mutations = nudgeMarks[i].at + e.edits
        <5>1. /\ Len(nudgeMarks) <= since[s].aged + i
              /\ ~since[s].reminded => nudgeMarks[i].at <= work[s].atLastCapture
              /\ since[s].reminded => work[s].mutations = nudgeMarks[i].at + since[s].edits
          BY <1>9, <4>1 DEF MarkHolds
        <5>2. w.mutations = work[s].mutations + 1 /\ w.atLastCapture = work[s].atLastCapture
              /\ e.edits = since[s].edits + 1 /\ e.reminded = since[s].reminded
              /\ e.aged = since[s].aged
          BY <2>1
        <5> QED
          BY <1>9, <5>1, <5>2
      <4>2. e.reminded /\ ~HasMark(s) => nudgeWindow <= e.aged
        BY <1>9, <2>1 DEF MarkHolds
      <4>3. UNCHANGED nudgeMarks
        BY <2>2
      <4> QED
        BY <2>3, <4>1, <4>2, <4>3 DEF MarkHolds, HasMark
    <3>2. WorkHolds(s)'
      <4>1. since[s].committed \in BOOLEAN /\ since[s].reminded \in BOOLEAN
        BY <1>0
      <4> QED
        <5>1. AddsUp(work[s].atLastCapture, work[s].mutations + 1, since[s].edits + 1,
                     since[s].committed, since[s].reminded)
          BY <1>9, <4>1, EditAddsUp DEF WorkHolds
        <5> QED
          BY <2>1, <2>3, <5>1 DEF WorkHolds
    <3> QED
      BY <3>1, <3>2
  <2> QED
    BY <2>1, <2>2, <2>3, ToolUseHolds
<1>2. CASE Capture(s)
  <2> DEFINE w == [work[s] EXCEPT !.atLastCapture = work[s].mutations]
             e == [Nothing EXCEPT !.aged = since[s].aged]
  <2>1. /\ w \in [mutations : Nat, atLastCapture : Nat]
        /\ e \in [edits : Nat, committed : BOOLEAN, reminded : BOOLEAN, aged : Nat]
        /\ w.mutations = work[s].mutations /\ w.atLastCapture = work[s].mutations
        /\ e.edits = 0 /\ e.committed = FALSE /\ e.reminded = FALSE /\ e.aged = since[s].aged
    BY <1>0 DEF Nothing
  <2>2. ToolUse(s, w, e) /\ UNCHANGED nudgeMarks
    BY <1>2 DEF Capture, ToolUse
  <2> HIDE DEF w, e
  <2>3. ASSUME work'[s] = w, since'[s] = e PROVE MarkHolds(s)' /\ WorkHolds(s)'
    <3>1. MarkHolds(s)'
      BY <1>9, <2>1, <2>2, <2>3 DEF MarkHolds, HasMark, WorkHolds, AddsUp
    <3>2. WorkHolds(s)'
      <4>1. AddsUp(work[s].mutations, work[s].mutations, 0, FALSE, FALSE)
        BY <1>9 DEF AddsUp
      <4> QED
        BY <2>1, <2>3, <4>1 DEF WorkHolds
    <3> QED
      BY <3>1, <3>2
  <2> QED
    BY <2>1, <2>2, <2>3, ToolUseHolds
<1>3. CASE Commit(s)
  <2> DEFINE w == CommitCounts(work[s])
             more == since[s].committed \/ since[s].edits > 0
             e == [since[s] EXCEPT !.committed = more]
  <2>0. more \in BOOLEAN
    BY <1>0
  <2>1. /\ w \in [mutations : Nat, atLastCapture : Nat]
        /\ w.atLastCapture = work[s].atLastCapture
        /\ w.mutations = IF work[s].mutations > work[s].atLastCapture
                         THEN Larger(work[s].mutations, work[s].atLastCapture + nudgeMutations)
                         ELSE work[s].mutations
    BY <1>0, ReminderAssumption DEF CommitCounts, Larger
  <2>2. /\ e \in [edits : Nat, committed : BOOLEAN, reminded : BOOLEAN, aged : Nat]
        /\ e.edits = since[s].edits /\ e.committed = more
        /\ e.reminded = since[s].reminded /\ e.aged = since[s].aged
    BY <1>0, <2>0
  <2>3. ToolUse(s, w, e) /\ UNCHANGED nudgeMarks
    BY <1>3 DEF Commit, ToolUse
  <2>4. /\ work[s].mutations <= w.mutations
        /\ work[s].mutations > work[s].atLastCapture =>
              w.atLastCapture + nudgeMutations <= w.mutations
        /\ since[s].reminded \/ work[s].mutations = work[s].atLastCapture =>
              w.mutations = work[s].mutations
    BY <1>9, <2>1, ReminderAssumption DEF Larger, WorkHolds, AddsUp
  <2> HIDE DEF w, e
  <2>5. ASSUME work'[s] = w, since'[s] = e PROVE MarkHolds(s)' /\ WorkHolds(s)'
    <3>1. MarkHolds(s)'
      BY <1>9, <2>1, <2>2, <2>3, <2>4, <2>5 DEF MarkHolds, HasMark
    <3>2. WorkHolds(s)'
      <4>1. since[s].committed \in BOOLEAN /\ since[s].reminded \in BOOLEAN /\ w.mutations \in Nat
        BY <1>0, <2>1
      <4>2. AddsUp(work[s].atLastCapture, w.mutations, since[s].edits, more, since[s].reminded)
        <5>1. AddsUp(work[s].atLastCapture, work[s].mutations, since[s].edits,
                     since[s].committed, since[s].reminded)
          BY <1>9 DEF WorkHolds
        <5> QED
          <6>1. /\ work[s].mutations <= w.mutations
                /\ work[s].mutations > work[s].atLastCapture =>
                      work[s].atLastCapture + nudgeMutations <= w.mutations
                /\ since[s].reminded \/ work[s].mutations = work[s].atLastCapture =>
                      w.mutations = work[s].mutations
            BY <2>1, <2>4
          <6> DEFINE a == work[s].atLastCapture  m == work[s].mutations  n == since[s].edits
                     c == since[s].committed  r == since[s].reminded  k == w.mutations
          <6>2. a \in Nat /\ m \in Nat /\ n \in Nat
            BY <1>9
          <6>3. c \in BOOLEAN /\ r \in BOOLEAN /\ k \in Nat
            BY <4>1
          <6>4. m <= k /\ (m > a => a + nudgeMutations <= k) /\ (r \/ m = a => k = m)
            BY <6>1
          <6>5. AddsUp(a, m, n, c, r)
            BY <5>1
          <6> HIDE DEF a, m, n, c, r, k
          <6>6. AddsUp(a, k, n, c \/ n > 0, r)
            BY <6>2, <6>3, <6>4, <6>5, CommitAddsUp
          <6> QED
            BY <6>6 DEF a, n, c, r, k
      <4> HIDE DEF more
      <4> QED
        BY <2>1, <2>2, <2>5, <4>2 DEF WorkHolds
    <3> QED
      BY <3>1, <3>2
  <2> QED
    BY <2>1, <2>2, <2>3, <2>5, ToolUseHolds
<1> QED
  BY <1>1, <1>2, <1>3

LEMMA MarkOfIs ==
  ASSUME MarksDiffer, NEW i \in DOMAIN nudgeMarks
  PROVE  MarkOf(nudgeMarks[i].session) = nudgeMarks[i].at
<1> DEFINE s == nudgeMarks[i].session
           j == CHOOSE j \in DOMAIN nudgeMarks : nudgeMarks[j].session = s
<1>1. j \in DOMAIN nudgeMarks /\ nudgeMarks[j].session = s
  OBVIOUS
<1>2. j = i
  BY <1>1 DEF MarksDiffer
<1> QED
  BY <1>1, <1>2 DEF MarkOf

\* What the hook finds is enough when the session is due, and only then unless
\* it has no mark or the state could not be read.
LEMMA EnoughIsDue ==
  ASSUME ReminderInv, NEW s \in Sessions
  PROVE  LET enough == Larger(work[s].atLastCapture, NudgeMark(s)) + nudgeMutations
                         <= work[s].mutations
         IN /\ enough => /\ work[s].atLastCapture + nudgeMutations <= work[s].mutations
                         /\ Due(s) \/ nudgeWindow <= since[s].aged \/ ~stateRead
            /\ Due(s) => enough
<1> DEFINE a == work[s].atLastCapture  m == work[s].mutations  n == since[s].edits
           k == NudgeMark(s)
<1>0. /\ a \in Nat /\ m \in Nat /\ n \in Nat /\ since[s].aged \in Nat
      /\ \A i \in DOMAIN nudgeMarks : nudgeMarks[i].at \in Nat
      /\ since[s].committed \in BOOLEAN /\ since[s].reminded \in BOOLEAN
      /\ MarkHolds(s) /\ AddsUp(a, m, n, since[s].committed, since[s].reminded)
  <2>1. MarkHolds(s) /\ WorkHolds(s) /\ ReminderTyped
    BY DEF ReminderInv
  <2>2. since[s] \in [edits : Nat, committed : BOOLEAN, reminded : BOOLEAN, aged : Nat]
    BY <2>1, SessionTyped
  <2> QED
    BY <2>1, <2>2, SessionTyped DEF WorkHolds
<1>1. k = 0 \/ \E i \in DOMAIN nudgeMarks : nudgeMarks[i].session = s /\ k = nudgeMarks[i].at
  BY MarkOfIs DEF NudgeMark, MarkOf, ReminderInv
<1>2. ~since[s].reminded => k <= a
  BY <1>0, <1>1 DEF MarkHolds
<1>3. since[s].reminded => m = k + n \/ k = 0
  BY <1>0, <1>1 DEF MarkHolds
<1>4. since[s].reminded /\ m # k + n => nudgeWindow <= since[s].aged \/ ~stateRead
  <2>1. SUFFICES ASSUME since[s].reminded, stateRead, HasMark(s) PROVE m = k + n
    BY <1>0 DEF MarkHolds
  <2>2. PICK i \in DOMAIN nudgeMarks : nudgeMarks[i].session = s
    BY <2>1 DEF HasMark
  <2>3. k = nudgeMarks[i].at
    BY <2>1, <2>2, MarkOfIs DEF NudgeMark, ReminderInv
  <2> QED
    BY <1>0, <2>1, <2>2, <2>3 DEF MarkHolds
<1>5. k \in Nat
  BY <1>0, <1>1
<1> HIDE DEF a, m, n, k
<1>6. Due(s) <=> n >= nudgeMutations \/ (since[s].committed /\ ~since[s].reminded)
  BY DEF Due, EnoughEdits, FirstCommit, n
<1>7. CASE since[s].reminded
  <2>1. a + nudgeMutations <= m
    BY <1>0, <1>7 DEF AddsUp
  <2>2. Due(s) => Larger(a, k) + nudgeMutations <= m
    BY <1>0, <1>3, <1>5, <1>6, <1>7, <2>1, ReminderAssumption DEF Larger
  <2>3. Larger(a, k) + nudgeMutations <= m /\ m = k + n => n >= nudgeMutations
    BY <1>0, <1>5, ReminderAssumption DEF Larger
  <2> QED
    BY <1>4, <1>6, <1>7, <2>1, <2>2, <2>3 DEF a, m, k
<1>8. CASE ~since[s].reminded
  <2>1. Larger(a, k) = a
    BY <1>0, <1>2, <1>5, <1>8 DEF Larger
  <2>2. a + nudgeMutations <= m <=> n >= nudgeMutations \/ since[s].committed
    BY <1>0, <1>8, ReminderAssumption DEF AddsUp
  <2> QED
    BY <1>6, <1>8, <2>1, <2>2 DEF a, m, k
<1> QED
  BY <1>0, <1>7, <1>8

\* A step of a hook that leaves work, marks and ghosts as they are.
LEMMA HookMoves ==
  ASSUME ReminderInv, NEW s \in Sessions, UNCHANGED <<work, nudgeMarks, since, stateRead>>,
         NEW h \in [at : {"idle", "mark"}, mark : Nat, blind : BOOLEAN],
         NEW a \in [said : {"nothing yet", "silence", "out", "reminder"}, earned : BOOLEAN],
         hook' = [hook EXCEPT ![s] = h], answer' = [answer EXCEPT ![s] = a],
         a.said = "silence" => ~a.earned, a.said = "reminder" => a.earned,
         HookHolds(s)'
  PROVE  ReminderInv'
<1>0. ReminderTyped
  BY DEF ReminderInv
<1>1. /\ hook'[s] = h /\ answer'[s] = a
      /\ \A t \in Sessions \ {s} : hook'[t] = hook[t] /\ answer'[t] = answer[t]
  BY <1>0 DEF ReminderTyped
<1>2. ReminderTyped'
  BY <1>0 DEF ReminderTyped
<1>3. RemindersFollowWork'
  BY <1>1 DEF ReminderInv, RemindersFollowWork
<1>4. ASSUME NEW t \in Sessions PROVE MarkHolds(t)' /\ WorkHolds(t)'
  BY DEF ReminderInv, MarkHolds, WorkHolds, HasMark
<1>5. ASSUME NEW t \in Sessions \ {s} PROVE HookHolds(t)'
  BY <1>1 DEF ReminderInv, HookHolds, Due, EnoughEdits, FirstCommit
<1>6. MarksDiffer'
  BY DEF ReminderInv, MarksDiffer
<1> QED
  BY <1>2, <1>3, <1>4, <1>5, <1>6 DEF ReminderInv

LEMMA QuietHookHolds ==
  ASSUME ReminderInv, NEW s \in Sessions, StopCheck(s) \/ StayOut(s) \/ NotMarked(s)
  PROVE  ReminderInv'
<1>0. /\ ReminderTyped /\ work[s].mutations \in Nat /\ RemindersFollowWork
      /\ hook[s] \in [at : {"idle", "mark"}, mark : Nat, blind : BOOLEAN]
      /\ answer[s] \in [said : {"nothing yet", "silence", "out", "reminder"}, earned : BOOLEAN]
      /\ hook = [hook EXCEPT ![s] = hook[s]] /\ answer = [answer EXCEPT ![s] = answer[s]]
      /\ HookHolds(s)
  BY SessionTyped DEF ReminderInv, ReminderTyped
<1> DEFINE out == [said |-> "out", earned |-> FALSE]
<1>1. /\ out \in [said : {"nothing yet", "silence", "out", "reminder"}, earned : BOOLEAN]
      /\ NoHook \in [at : {"idle", "mark"}, mark : Nat, blind : BOOLEAN]
      /\ out.said = "out" /\ NoHook.at = "idle"
  BY DEF NoHook
<1>2. answer[s].said = "silence" => ~answer[s].earned
  BY <1>0 DEF RemindersFollowWork
<1>3. answer[s].said = "reminder" => answer[s].earned
  BY <1>0 DEF RemindersFollowWork
<1>4. CASE StayOut(s)
  <2>1. HookHolds(s)'
    BY <1>0, <1>4 DEF StayOut, HookHolds, Due, EnoughEdits, FirstCommit
  <2> QED
    BY <1>0, <1>1, <1>4, <2>1, HookMoves DEF StayOut
<1>5. CASE NotMarked(s)
  <2>1. HookHolds(s)'
    BY <1>0, <1>1, <1>5 DEF NotMarked, HookHolds, ReminderTyped
  <2> QED
    BY <1>0, <1>1, <1>5, <2>1, HookMoves DEF NotMarked
<1>6. CASE StopCheck(s)
  <2> DEFINE enough == Larger(work[s].atLastCapture, NudgeMark(s)) + nudgeMutations
                         <= work[s].mutations
  <2>1. UNCHANGED <<work, nudgeMarks, since, stateRead>>
    BY <1>6 DEF StopCheck
  <2>2. CASE enough
    <3> DEFINE h == [at |-> "mark", mark |-> work[s].mutations, blind |-> ~stateRead]
    <3>1. h \in [at : {"idle", "mark"}, mark : Nat, blind : BOOLEAN]
      BY <1>0
    <3>2. hook' = [hook EXCEPT ![s] = h] /\ answer' = answer
      BY <1>6, <2>2 DEF StopCheck
    <3>3. hook'[s] = h
      BY <1>0, <3>2 DEF ReminderTyped
    <3>4. HookHolds(s)'
      <4>1. hook'[s].mark = work'[s].mutations /\ (hook'[s].blind <=> ~stateRead)
        <5>1. h.mark = work[s].mutations /\ h.blind = ~stateRead
          OBVIOUS
        <5> HIDE DEF h
        <5>2. hook'[s].blind = ~stateRead
          BY <3>3, <5>1
        <5> QED
          BY <2>1, <3>3, <5>1, <5>2
      <4>2. /\ work'[s].atLastCapture + nudgeMutations <= work'[s].mutations
            /\ Due(s)' \/ nudgeWindow <= since'[s].aged \/ ~stateRead
        <5>1. /\ work[s].atLastCapture + nudgeMutations <= work[s].mutations
              /\ Due(s) \/ nudgeWindow <= since[s].aged \/ ~stateRead
          BY <2>2, EnoughIsDue
        <5> QED
          BY <2>1, <5>1 DEF Due, EnoughEdits, FirstCommit
      <4> QED
        BY <4>1, <4>2 DEF HookHolds
    <3> QED
      BY <1>0, <1>2, <1>3, <2>1, <3>1, <3>2, <3>4, HookMoves
  <2>3. CASE ~enough
    <3> DEFINE a == [said |-> "silence", earned |-> Due(s)]
    <3>1. answer' = [answer EXCEPT ![s] = a] /\ hook' = hook
      BY <1>6, <2>3 DEF StopCheck
    <3>2. ~Due(s)
      BY <2>3, EnoughIsDue
    <3>3. /\ a \in [said : {"nothing yet", "silence", "out", "reminder"}, earned : BOOLEAN]
          /\ ~a.earned /\ a.said = "silence"
      BY <3>2 DEF Due, EnoughEdits, FirstCommit
    <3>4. HookHolds(s)'
      BY <1>0, <2>1, <3>1 DEF HookHolds, Due, EnoughEdits, FirstCommit
    <3> HIDE DEF a
    <3> QED
      BY <1>0, <2>1, <3>1, <3>3, <3>4, HookMoves
  <2> QED
    BY <2>2, <2>3
<1> QED
  BY <1>4, <1>5, <1>6

\* The marks after a session is marked: of it, one with the new count; of the
\* others, the same, at most one place further from the end, and dropped only
\* when a window of others came after it.
MarkedWell(s, at, new, m) ==
    /\ m \in Seq(MarkState)
    /\ \A i, j \in DOMAIN m : m[i].session = m[j].session => i = j
    /\ \A i \in DOMAIN m : m[i].session = s =>
          /\ m[i].at = at
          /\ IF new THEN i = Len(m)
                    ELSE Len(m) = Len(nudgeMarks) /\ nudgeMarks[i].session = s
    /\ (\A i \in DOMAIN m : m[i].session # s) => new /\ nudgeWindow = 0
    /\ \A t \in Sessions \ {s} :
          /\ \A i \in DOMAIN m : m[i].session = t =>
                \E j \in DOMAIN nudgeMarks :
                   /\ m[i] = nudgeMarks[j]
                   /\ Len(m) - i <= Len(nudgeMarks) - j + (IF new THEN 1 ELSE 0)
          /\ HasMark(t) /\ (\A i \in DOMAIN m : m[i].session # t) =>
                new /\ nudgeWindow <= Len(nudgeMarks) /\ nudgeMarks[1].session = t

LEMMA MarkingInPlace ==
  ASSUME ReminderTyped, MarksDiffer, NEW s \in Sessions, NEW at \in Nat, HasMark(s)
  PROVE  MarkedWell(s, at, FALSE, Marked(s, at))
<1> DEFINE m == [i \in DOMAIN nudgeMarks |->
                   IF nudgeMarks[i].session = s THEN [nudgeMarks[i] EXCEPT !.at = at]
                                                ELSE nudgeMarks[i]]
<1>1. Marked(s, at) = m
  BY DEF Marked, HasMark
<1>2. /\ nudgeMarks \in Seq(MarkState) /\ Len(nudgeMarks) \in Nat
      /\ DOMAIN nudgeMarks = 1 .. Len(nudgeMarks)
      /\ \A i \in DOMAIN nudgeMarks : nudgeMarks[i] \in MarkState
  <2>1. nudgeMarks \in Seq(MarkState)
    BY DEF ReminderTyped
  <2> QED
    BY <2>1
<1>3. DOMAIN m = DOMAIN nudgeMarks
  OBVIOUS
<1>4. ASSUME NEW i \in DOMAIN nudgeMarks
      PROVE  /\ m[i] \in MarkState /\ m[i].session = nudgeMarks[i].session
             /\ nudgeMarks[i].session = s => m[i].at = at
             /\ nudgeMarks[i].session # s => m[i] = nudgeMarks[i]
  <2>1. nudgeMarks[i] \in MarkState
    BY <1>2
  <2>2. [nudgeMarks[i] EXCEPT !.at = at] \in MarkState
    BY <2>1 DEF MarkState
  <2>3. /\ [nudgeMarks[i] EXCEPT !.at = at].at = at
        /\ [nudgeMarks[i] EXCEPT !.at = at].session = nudgeMarks[i].session
    BY <2>1 DEF MarkState
  <2> QED
    BY <2>1, <2>2, <2>3
<1>5. m \in Seq(MarkState) /\ Len(m) = Len(nudgeMarks)
  <2>1. m \in [1 .. Len(nudgeMarks) -> MarkState]
    BY <1>2, <1>4
  <2> HIDE DEF m
  <2> QED
    BY <1>2, <2>1
<1> HIDE DEF m
<1>6. \A i, j \in DOMAIN m : m[i].session = m[j].session => i = j
  BY <1>3, <1>4 DEF MarksDiffer
<1>7. \A i \in DOMAIN m : m[i].session = s =>
          m[i].at = at /\ Len(m) = Len(nudgeMarks) /\ nudgeMarks[i].session = s
  BY <1>3, <1>4, <1>5
<1>8. ~\A i \in DOMAIN m : m[i].session # s
  BY <1>3, <1>4 DEF HasMark
<1>9. ASSUME NEW t \in Sessions \ {s}
      PROVE  /\ \A i \in DOMAIN m : m[i].session = t =>
                \E j \in DOMAIN nudgeMarks : m[i] = nudgeMarks[j] /\ Len(m) - i <= Len(nudgeMarks) - j + 0
             /\ ~(HasMark(t) /\ \A i \in DOMAIN m : m[i].session # t)
  <2>1. ASSUME NEW i \in DOMAIN m, m[i].session = t
        PROVE  \E j \in DOMAIN nudgeMarks : m[i] = nudgeMarks[j] /\ Len(m) - i <= Len(nudgeMarks) - j + 0
    <3>1. m[i] = nudgeMarks[i] /\ i \in DOMAIN nudgeMarks /\ i \in Nat
      BY <1>2, <1>3, <1>4, <2>1
    <3>2. Len(m) - i <= Len(nudgeMarks) - i + 0
      BY <1>2, <1>5, <3>1
    <3> QED
      BY <3>1, <3>2
  <2>2. ~(HasMark(t) /\ \A i \in DOMAIN m : m[i].session # t)
    BY <1>3, <1>4 DEF HasMark
  <2> QED
    BY <2>1, <2>2
<1> QED
  BY <1>1, <1>5, <1>6, <1>7, <1>8, <1>9 DEF MarkedWell

LEMMA MarkingAtTheEnd ==
  ASSUME ReminderTyped, MarksDiffer, NEW s \in Sessions, NEW at \in Nat, ~HasMark(s)
  PROVE  MarkedWell(s, at, TRUE, Marked(s, at))
<1> DEFINE mark == [session |-> s, at |-> at]
           all  == Append(nudgeMarks, mark)
           n    == Len(nudgeMarks)
<1>1. /\ nudgeMarks \in Seq(MarkState) /\ n \in Nat /\ DOMAIN nudgeMarks = 1 .. n
      /\ mark \in MarkState /\ mark.session = s /\ mark.at = at
  <2>1. nudgeMarks \in Seq(MarkState)
    BY DEF ReminderTyped
  <2>2. mark \in MarkState /\ mark.session = s /\ mark.at = at
    BY DEF MarkState
  <2> QED
    BY <2>1, <2>2
<1> HIDE DEF mark
<1>2. /\ all \in Seq(MarkState) /\ Len(all) = n + 1 /\ all[n + 1] = mark
      /\ \A i \in 1 .. n : all[i] = nudgeMarks[i]
  BY <1>1
<1> HIDE DEF all
<1>3. Marked(s, at) = IF n + 1 > nudgeWindow THEN Tail(all) ELSE all
  BY <1>2 DEF Marked, HasMark, all, mark
<1>4. \A i \in 1 .. n : nudgeMarks[i].session # s
  BY <1>1 DEF HasMark
<1>5. \A i, j \in 1 .. n : nudgeMarks[i].session = nudgeMarks[j].session => i = j
  BY <1>1 DEF MarksDiffer
<1> DEFINE m == Marked(s, at)
           d == IF n + 1 > nudgeWindow THEN 1 ELSE 0
<1>6. /\ m \in Seq(MarkState) /\ Len(m) = n + 1 - d /\ DOMAIN m = 1 .. (n + 1 - d)
      /\ \A i \in 1 .. (n + 1 - d) : m[i] = all[i + d]
  <2>1. CASE n + 1 > nudgeWindow
    <3>1. m = Tail(all) /\ d = 1
      BY <1>3, <2>1
    <3>2. /\ Tail(all) \in Seq(MarkState) /\ Len(Tail(all)) = n
          /\ DOMAIN Tail(all) = 1 .. n /\ \A i \in 1 .. n : Tail(all)[i] = all[i + 1]
      BY <1>1, <1>2
    <3>3. n + 1 - 1 = n
      BY <1>1
    <3> QED
      BY <3>1, <3>2, <3>3
  <2>2. CASE ~(n + 1 > nudgeWindow)
    <3>1. m = all /\ d = 0
      BY <1>3, <2>2
    <3>2. DOMAIN all = 1 .. (n + 1) /\ n + 1 - 0 = n + 1 /\ \A i \in 1 .. (n + 1) : i + 0 = i
      BY <1>1, <1>2
    <3> QED
      BY <1>2, <3>1, <3>2
  <2> QED
    BY <2>1, <2>2
<1>7. d \in {0, 1} /\ (d = 1 <=> nudgeWindow <= n)
  BY <1>1, ReminderAssumption
<1> HIDE DEF m, n, d
<1>8. ASSUME NEW i \in DOMAIN m
      PROVE  \/ i = Len(m) /\ m[i] = mark
             \/ i + d \in 1 .. n /\ m[i] = nudgeMarks[i + d]
  <2>1. i \in 1 .. (n + 1 - d) /\ m[i] = all[i + d]
    BY <1>6
  <2>2. CASE i + d = n + 1
    BY <1>1, <1>2, <1>6, <1>7, <2>1, <2>2
  <2>3. CASE i + d # n + 1
    BY <1>1, <1>2, <1>7, <2>1, <2>3
  <2> QED
    BY <2>2, <2>3
<1>9. \A i, j \in DOMAIN m : m[i].session = m[j].session => i = j
  <2> SUFFICES ASSUME NEW i \in DOMAIN m, NEW j \in DOMAIN m, m[i].session = m[j].session
               PROVE  i = j
    OBVIOUS
  <2>1. i \in Int /\ j \in Int
    BY <1>1, <1>6
  <2>2. CASE i + d \in 1 .. n /\ m[i] = nudgeMarks[i + d] /\ j + d \in 1 .. n
             /\ m[j] = nudgeMarks[j + d]
    BY <1>5, <1>7, <2>1, <2>2
  <2>3. ASSUME NEW x \in DOMAIN m, NEW y \in DOMAIN m, m[x] = mark, m[x].session = m[y].session,
               y + d \in 1 .. n, m[y] = nudgeMarks[y + d]
        PROVE  FALSE
    BY <1>1, <1>4, <2>3
  <2> QED
    BY <1>8, <2>2, <2>3
<1>10. ASSUME NEW i \in DOMAIN m, m[i].session = s PROVE m[i].at = at /\ i = Len(m)
  BY <1>1, <1>4, <1>8, <1>10
<1>11. ASSUME \A i \in DOMAIN m : m[i].session # s PROVE nudgeWindow = 0
  <2>1. CASE Len(m) > 0
    <3>1. Len(m) \in DOMAIN m /\ m[Len(m)] = all[n + 1]
      BY <1>1, <1>6, <1>7, <2>1
    <3> QED
      BY <1>1, <1>2, <1>11, <3>1
  <2>2. CASE ~(Len(m) > 0)
    BY <1>1, <1>6, <1>7, <2>2, ReminderAssumption
  <2> QED
    BY <2>1, <2>2
<1>12. ASSUME NEW t \in Sessions \ {s}
       PROVE  /\ \A i \in DOMAIN m : m[i].session = t =>
                    \E j \in DOMAIN nudgeMarks : m[i] = nudgeMarks[j] /\ Len(m) - i <= n - j + 1
              /\ HasMark(t) /\ (\A i \in DOMAIN m : m[i].session # t) =>
                    nudgeWindow <= n /\ nudgeMarks[1].session = t
  <2>1. ASSUME NEW i \in DOMAIN m, m[i].session = t
        PROVE  \E j \in DOMAIN nudgeMarks : m[i] = nudgeMarks[j] /\ Len(m) - i <= n - j + 1
    <3>1. i + d \in DOMAIN nudgeMarks /\ m[i] = nudgeMarks[i + d] /\ i \in Int
      BY <1>1, <1>6, <1>8, <1>12, <2>1
    <3>2. Len(m) - i <= n - (i + d) + 1
      BY <1>1, <1>6, <1>7, <3>1
    <3> QED
      BY <3>1, <3>2
  <2>2. ASSUME HasMark(t), \A i \in DOMAIN m : m[i].session # t
        PROVE  nudgeWindow <= n /\ nudgeMarks[1].session = t
    <3>1. PICK j \in 1 .. n : nudgeMarks[j].session = t
      BY <1>1, <2>2 DEF HasMark
    <3>2. j - d \notin DOMAIN m
      <4>1. ASSUME j - d \in DOMAIN m PROVE FALSE
        <5>1. m[j - d] = all[j - d + d] /\ j - d + d = j
          BY <1>6, <1>7, <3>1, <4>1
        <5> QED
          BY <1>2, <2>2, <3>1, <4>1, <5>1
      <4> QED
        BY <4>1
    <3>3. j = 1 /\ d = 1
      BY <1>1, <1>6, <1>7, <3>1, <3>2
    <3> QED
      BY <1>7, <3>1, <3>3
  <2> QED
    BY <2>1, <2>2
<1> QED
  BY <1>6, <1>9, <1>10, <1>11, <1>12 DEF MarkedWell, m, n

LEMMA RemindHolds ==
  ASSUME ReminderInv, NEW s \in Sessions, Remind(s) PROVE ReminderInv'
<1> DEFINE new == ~HasMark(s)
           at  == hook[s].mark
           own == [Nothing EXCEPT !.reminded = TRUE, !.aged = IF new THEN 0 ELSE since[s].aged]
<1>0. /\ ReminderTyped /\ MarksDiffer /\ MarkHolds(s) /\ WorkHolds(s) /\ HookHolds(s)
      /\ hook[s].at = "mark" /\ at = work[s].mutations /\ at \in Nat
      /\ since[s].aged \in Nat /\ since[s].edits \in Nat /\ work[s].atLastCapture \in Nat
      /\ Len(nudgeMarks) \in Nat
  BY SessionTyped DEF ReminderInv, Remind, HookHolds
<1>1. MarkedWell(s, at, new, nudgeMarks')
  <2>1. nudgeMarks' = Marked(s, at)
    BY DEF Remind
  <2>2. CASE HasMark(s)
    <3>1. new = FALSE
      BY <2>2
    <3> QED
      BY <1>0, <2>1, <2>2, <3>1, MarkingInPlace
  <2>3. CASE ~HasMark(s)
    <3>1. new = TRUE
      BY <2>3
    <3> QED
      BY <1>0, <2>1, <2>3, <3>1, MarkingAtTheEnd
  <2> QED
    BY <2>2, <2>3
<1>2. /\ own \in [edits : Nat, committed : BOOLEAN, reminded : BOOLEAN, aged : Nat]
      /\ own.edits = 0 /\ own.committed = FALSE /\ own.reminded = TRUE
      /\ own.aged = IF new THEN 0 ELSE since[s].aged
  BY <1>0 DEF Nothing
<1>3. /\ since'[s] = own
      /\ \A t \in Sessions \ {s} :
            since'[t] = IF new THEN [since[t] EXCEPT !.aged = @ + 1] ELSE since[t]
  BY DEF Remind, HasMark
<1>4. /\ hook' = [hook EXCEPT ![s] = NoHook] /\ UNCHANGED <<work, stateRead>>
      /\ since' = [t \in Sessions |-> since'[t]]
  BY DEF Remind
<1> HIDE DEF own, at
<1>5. ASSUME NEW t \in Sessions \ {s}
      PROVE  /\ since'[t] \in [edits : Nat, committed : BOOLEAN, reminded : BOOLEAN, aged : Nat]
             /\ since'[t].edits = since[t].edits /\ since'[t].committed = since[t].committed
             /\ since'[t].reminded = since[t].reminded
             /\ since'[t].aged = since[t].aged + (IF new THEN 1 ELSE 0)
  <2>1. since[t] \in [edits : Nat, committed : BOOLEAN, reminded : BOOLEAN, aged : Nat]
    BY <1>0, SessionTyped
  <2>2. CASE new
    <3>1. since'[t] = [since[t] EXCEPT !.aged = @ + 1]
      BY <1>3, <2>2
    <3>2. since'[t].aged = since[t].aged + 1
      BY <2>1, <3>1
    <3>3. /\ since'[t] \in [edits : Nat, committed : BOOLEAN, reminded : BOOLEAN, aged : Nat]
          /\ since'[t].edits = since[t].edits /\ since'[t].committed = since[t].committed
          /\ since'[t].reminded = since[t].reminded
      BY <2>1, <3>1
    <3> QED
      BY <2>2, <3>2, <3>3
  <2>3. CASE ~new
    BY <1>3, <2>1, <2>3
  <2> QED
    BY <2>2, <2>3
<1>6. /\ hook'[s] = NoHook /\ \A t \in Sessions \ {s} : hook'[t] = hook[t]
      /\ hook' \in [Sessions -> [at : {"idle", "mark"}, mark : Nat, blind : BOOLEAN]]
  BY <1>0, <1>4 DEF ReminderTyped, NoHook
<1> DEFINE due == Due(s) \/ since[s].aged >= nudgeWindow \/ hook[s].blind
<1>7. /\ answer' = [answer EXCEPT ![s] = [said |-> "reminder", earned |-> due]] /\ due
      /\ due \in BOOLEAN
  <2>1. hook[s].blind \in BOOLEAN
    BY <1>0, SessionTyped
  <2>2. Due(s) \/ nudgeWindow <= since[s].aged \/ hook[s].blind
    BY <1>0 DEF HookHolds
  <2> QED
    BY <1>0, <2>1, <2>2, ReminderAssumption DEF Remind, Due, EnoughEdits, FirstCommit
<1> HIDE DEF due
<1>8. /\ answer'[s].said = "reminder" /\ answer'[s].earned
      /\ \A t \in Sessions \ {s} : answer'[t] = answer[t]
      /\ answer' \in [Sessions -> [said : {"nothing yet", "silence", "out", "reminder"},
                                   earned : BOOLEAN]]
  BY <1>0, <1>7 DEF ReminderTyped
<1>9. ReminderTyped'
  <2>1. since' \in [Sessions -> [edits : Nat, committed : BOOLEAN, reminded : BOOLEAN, aged : Nat]]
    BY <1>2, <1>3, <1>4, <1>5
  <2>2. nudgeMarks' \in Seq(MarkState)
    BY <1>1 DEF MarkedWell
  <2>3. work' = work /\ stateRead' = stateRead
    BY <1>4
  <2> QED
    BY <1>0, <1>6, <1>8, <2>1, <2>2, <2>3 DEF ReminderTyped
<1>10. MarksDiffer'
  BY <1>1 DEF MarkedWell, MarksDiffer
<1>11. RemindersFollowWork'
  BY <1>8 DEF ReminderInv, RemindersFollowWork
<1>12. \A t \in Sessions : WorkHolds(t)'
  <2>1. WorkHolds(s)'
    <3>1. AddsUp(work[s].atLastCapture, work[s].mutations, 0, FALSE, TRUE)
      BY <1>0, SessionTyped, ReminderAssumption DEF AddsUp, HookHolds
    <3> QED
      BY <1>2, <1>3, <1>4, <3>1 DEF WorkHolds
  <2>2. ASSUME NEW t \in Sessions \ {s} PROVE WorkHolds(t)'
    <3>1. WorkHolds(t)
      BY DEF ReminderInv
    <3> QED
      BY <1>4, <1>5, <3>1 DEF WorkHolds
  <2> QED
    BY <2>1, <2>2
<1>13. \A t \in Sessions : HookHolds(t)'
  <2>1. HookHolds(s)'
    BY <1>6 DEF HookHolds, NoHook
  <2>2. ASSUME NEW t \in Sessions \ {s} PROVE HookHolds(t)'
    <3>1. HookHolds(t) /\ since[t].aged \in Nat
      BY <1>0, SessionTyped DEF ReminderInv
    <3>2. since[t].aged <= since'[t].aged /\ since'[t].aged \in Nat
      BY <1>5, <3>1
    <3> QED
      BY <1>4, <1>5, <1>6, <3>1, <3>2, ReminderAssumption DEF HookHolds, Due, EnoughEdits, FirstCommit
  <2> QED
    BY <2>1, <2>2
<1>14. MarkHolds(s)'
  <2>1. /\ since'[s].edits = 0 /\ since'[s].reminded
        /\ since'[s].aged = IF new THEN 0 ELSE since[s].aged
    BY <1>2, <1>3
  <2>2. ASSUME NEW i \in DOMAIN nudgeMarks', nudgeMarks'[i].session = s
        PROVE  /\ Len(nudgeMarks') <= since'[s].aged + i
               /\ work'[s].mutations = nudgeMarks'[i].at + since'[s].edits
    <3>1. /\ nudgeMarks'[i].at = at /\ i \in Nat /\ Len(nudgeMarks') \in Nat
          /\ IF new THEN i = Len(nudgeMarks')
                    ELSE Len(nudgeMarks') = Len(nudgeMarks) /\ nudgeMarks[i].session = s
                         /\ i \in DOMAIN nudgeMarks
      <4>1. nudgeMarks' \in Seq(MarkState) /\ nudgeMarks \in Seq(MarkState)
        BY <1>0, <1>1 DEF MarkedWell, ReminderTyped
      <4> QED
        BY <1>1, <2>2, <4>1 DEF MarkedWell
    <3>2. ~new => Len(nudgeMarks') <= since[s].aged + i
      BY <1>0, <3>1 DEF MarkHolds
    <3> QED
      BY <1>0, <1>4, <2>1, <3>1, <3>2
  <2>3. ~HasMark(s)' => nudgeWindow <= since'[s].aged
    BY <1>1, <2>1 DEF MarkedWell, HasMark
  <2> QED
    BY <2>1, <2>2, <2>3 DEF MarkHolds
<1>15. ASSUME NEW t \in Sessions \ {s} PROVE MarkHolds(t)'
  <2>0. /\ MarkHolds(t) /\ since[t].aged \in Nat
        /\ nudgeMarks' \in Seq(MarkState) /\ nudgeMarks \in Seq(MarkState)
    BY <1>0, <1>1, SessionTyped DEF ReminderInv, MarkedWell, ReminderTyped
  <2>1. ASSUME NEW i \in DOMAIN nudgeMarks', nudgeMarks'[i].session = t
        PROVE  /\ Len(nudgeMarks') <= since'[t].aged + i
               /\ ~since'[t].reminded => nudgeMarks'[i].at <= work'[t].atLastCapture
               /\ since'[t].reminded => work'[t].mutations = nudgeMarks'[i].at + since'[t].edits
    <3>1. PICK j \in DOMAIN nudgeMarks :
             /\ nudgeMarks'[i] = nudgeMarks[j]
             /\ Len(nudgeMarks') - i <= Len(nudgeMarks) - j + (IF new THEN 1 ELSE 0)
      BY <1>1, <2>1 DEF MarkedWell
    <3>2. i \in Nat /\ j \in Nat /\ Len(nudgeMarks) \in Nat /\ Len(nudgeMarks') \in Nat
      BY <2>0, <2>1, <3>1
    <3>3. /\ Len(nudgeMarks) <= since[t].aged + j
          /\ ~since[t].reminded => nudgeMarks[j].at <= work[t].atLastCapture
          /\ since[t].reminded => work[t].mutations = nudgeMarks[j].at + since[t].edits
      BY <2>0, <2>1, <3>1 DEF MarkHolds
    <3>4. Len(nudgeMarks') <= since'[t].aged + i
      <4>1. CASE new
        <5>1. since'[t].aged = since[t].aged + 1 /\ Len(nudgeMarks') - i <= Len(nudgeMarks) - j + 1
          BY <1>5, <3>1, <4>1
        <5> QED
          BY <2>0, <3>2, <3>3, <5>1
      <4>2. CASE ~new
        <5>1. since'[t].aged = since[t].aged + 0 /\ Len(nudgeMarks') - i <= Len(nudgeMarks) - j + 0
          BY <1>5, <3>1, <4>2
        <5> QED
          BY <2>0, <3>2, <3>3, <5>1
      <4> QED
        BY <4>1, <4>2
    <3> QED
      BY <1>4, <1>5, <3>1, <3>3, <3>4
  <2>2. since'[t].reminded /\ ~HasMark(t)' => nudgeWindow <= since'[t].aged
    <3>1. SUFFICES ASSUME since[t].reminded, ~HasMark(t)' PROVE nudgeWindow <= since'[t].aged
      BY <1>5
    <3>2. CASE HasMark(t)
      <4>1. nudgeWindow <= Len(nudgeMarks) /\ nudgeMarks[1].session = t /\ new
        BY <1>1, <3>1, <3>2 DEF MarkedWell, HasMark
      <4>2. Len(nudgeMarks) <= since[t].aged + 1 /\ Len(nudgeMarks) \in Nat
        <5>1. PICK j \in DOMAIN nudgeMarks : nudgeMarks[j].session = t
          BY <3>2 DEF HasMark
        <5>2. 1 \in DOMAIN nudgeMarks
          BY <2>0, <5>1
        <5> QED
          BY <2>0, <4>1, <5>2 DEF MarkHolds
      <4> QED
        BY <1>5, <2>0, <4>1, <4>2, ReminderAssumption
    <3>3. CASE ~HasMark(t)
      BY <1>5, <2>0, <3>1, <3>3, ReminderAssumption DEF MarkHolds
    <3> QED
      BY <3>2, <3>3
  <2> QED
    BY <2>1, <2>2 DEF MarkHolds
<1> QED
  BY <1>9, <1>10, <1>11, <1>12, <1>13, <1>14, <1>15 DEF ReminderInv

LEMMA ReminderStep == ReminderInv /\ [ReminderNext]_reminderVars => ReminderInv'
<1> SUFFICES ASSUME ReminderInv, [ReminderNext]_reminderVars PROVE ReminderInv'
  OBVIOUS
<1>1. CASE Trouble \/ UNCHANGED reminderVars
  <2>1. stateRead' \in BOOLEAN /\ UNCHANGED <<work, nudgeMarks, hook, since, answer>>
    BY <1>1 DEF Trouble, reminderVars, ReminderInv, ReminderTyped
  <2>2. ReminderTyped' /\ MarksDiffer' /\ RemindersFollowWork'
    BY <2>1 DEF ReminderInv, ReminderTyped, MarksDiffer, RemindersFollowWork
  <2>3. \A s \in Sessions : MarkHolds(s)' /\ WorkHolds(s)' /\ HookHolds(s)'
    BY <2>1 DEF ReminderInv, MarkHolds, WorkHolds, HookHolds, HasMark, Due, EnoughEdits, FirstCommit
  <2> QED
    BY <2>2, <2>3 DEF ReminderInv
<1>2. CASE ReminderNext
  BY <1>1, <1>2, TranscriptHolds, QuietHookHolds, RemindHolds DEF ReminderNext
<1> QED
  BY <1>1, <1>2

\* A stop that says nothing had fewer new edits than earn a reminder, and no commit
\* of new edits that was the first since a capture; a reminder was earned, by edits
\* or such a commit, by a window of other sessions, or by state that was not read
\* (cmd/beme/brain_stopcheck.go, internal/brain/nudge.go).
THEOREM RemindersAreEarned == ReminderSpec => []RemindersFollowWork
<1>1. ReminderInv => RemindersFollowWork
  BY DEF ReminderInv
<1> QED
  BY <1>1, ReminderInitHolds, ReminderStep, PTL DEF ReminderSpec

-----------------------------------------------------------------------------
(* DurableFile.  What an operation has done to its inode so far, and what  *)
(* is at the path when it comes to flush the directory: its own inode with *)
(* the content promised, nothing, or what a program outside put there      *)
(* during the operation.                                                   *)

Contents == Values \cup {Outside, Zero, Torn}
Inode    == [cache : Contents, disk : Contents]
Version  == [path : Nat, temp : Nat, link : Nat]

OperState ==
    [kind : {"none", "write", "create", "erase", "remove", "ensure"},
     at : {"idle", "temp", "open", "inspect", "unlink", "level", "refused", "flush", "rename",
           "sync", "check", "handle", "truncate", "keep"},
     value : Contents, inode : Nat, met : SUBSET Contents]

FileTyped ==
    /\ dirs \in Seq(Version) /\ Len(dirs) > 0
    /\ \A k \in DOMAIN dirs : dirs[k].path <= Len(inodes)
    /\ inodes \in Seq(Inode)
    /\ oper \in OperState
    /\ oper.inode <= Len(inodes)
    /\ level \in [made : Nat, kept : Nat, cut : BOOLEAN]

\* The steps of every kind of operation.
KindHolds ==
    /\ oper.at = "idle" => oper = NoOper
    /\ oper.at \in {"temp", "rename"} => oper.kind = "write"
    /\ oper.at = "open" => oper.kind = "create"
    /\ oper.at \in {"inspect", "handle", "truncate", "check"} => oper.kind = "erase"
    /\ oper.at = "unlink" => oper.kind = "remove"
    /\ oper.at \in {"level", "keep"} => oper.kind = "ensure"
    /\ oper.at = "flush" => oper.kind \in {"write", "create", "erase"}
    /\ oper.at = "sync" => oper.kind \in {"write", "create", "erase", "remove"}
    /\ oper.at \in {"flush", "rename", "truncate", "check"} => oper.inode # 0

\* A program outside replaced the file during the operation.
Met == Current.path # oper.inode /\ Survivors(Current.path) \subseteq oper.met

HoldsIn(v, op, nodes) ==
    op.inode # 0 /\ nodes[op.inode].cache = v /\ nodes[op.inode].disk = v
Holds(v) == HoldsIn(v, oper, inodes)

OperHolds ==
    /\ oper.at = "flush" => inodes[oper.inode].cache = IF oper.kind = "erase" THEN Zero ELSE oper.value
    /\ oper.at = "flush" /\ oper.kind = "create" => Current.path = oper.inode \/ Met
    /\ oper.at = "rename" => Holds(oper.value)
    /\ oper.at = "check" => Holds(Zero)
    /\ oper.at = "truncate" => Current.link # oper.inode
    /\ oper.at = "sync" =>
          \/ Met
          \/ oper.kind \in {"erase", "remove"} /\ Current.path = 0
          \/ oper.kind \in {"write", "create"} /\ Current.path = oper.inode /\ Holds(oper.value)

LevelHolds ==
    /\ level.kept <= level.made /\ level.made <= Depth
    /\ ~level.cut => level.made = level.kept + (IF oper.at = "keep" THEN 1 ELSE 0)

FileInv == FileTyped /\ KindHolds /\ OperHolds /\ LevelHolds /\ FileIsAccountedFor

\* Survivors under given inodes, and what AccountedFor says in those terms.
SurvivorsIn(i, nodes) == IF i = 0 THEN {Absent} ELSE {nodes[i].cache, nodes[i].disk}

LEMMA CurrentTyped ==
  ASSUME FileTyped
  PROVE  /\ Current = dirs[Len(dirs)] /\ Current \in Version /\ Current.path <= Len(inodes)
         /\ Len(dirs) \in DOMAIN dirs /\ Len(inodes) \in Nat /\ Current.path \in Nat
<1>1. dirs \in Seq(Version) /\ inodes \in Seq(Inode) /\ Len(dirs) > 0
      /\ \A k \in DOMAIN dirs : dirs[k].path <= Len(inodes)
  BY DEF FileTyped
<1>2. Len(dirs) \in DOMAIN dirs /\ Len(inodes) \in Nat /\ dirs[Len(dirs)] \in Version
  BY <1>1
<1> QED
  BY <1>1, <1>2 DEF Current, Last, Version

LEMMA NoOperTyped == NoOper \in OperState /\ NoOper.at = "idle" /\ NoOper.inode = 0
BY DEF NoOper, OperState, Contents

LEMMA Stepping ==
  ASSUME FileTyped, NEW a, Step(a),
         a \in {"idle", "temp", "open", "inspect", "unlink", "level", "refused", "flush", "rename",
                "sync", "check", "handle", "truncate", "keep"}
  PROVE  /\ oper' \in OperState /\ oper'.at = a /\ oper'.kind = oper.kind
         /\ oper'.value = oper.value /\ oper'.inode = oper.inode /\ oper'.met = oper.met
<1>1. oper \in OperState /\ oper' = [oper EXCEPT !.at = a]
  BY DEF FileTyped, Step
<1> QED
  BY <1>1 DEF OperState

\* The directory stays or gets a version that is accounted for.
LEMMA Versions ==
  ASSUME FileTyped, AccountedFor, may \subseteq may', UNCHANGED inodes,
         NEW d \in Version, d.path <= Len(inodes), Survivors(d.path) \subseteq may',
         dirs' = Append(dirs, d)
  PROVE  /\ dirs' \in Seq(Version) /\ Len(dirs') > 0 /\ Current' = d
         /\ \A k \in DOMAIN dirs' : dirs'[k].path <= Len(inodes')
         /\ AccountedFor'
<1>1. dirs \in Seq(Version) /\ Len(dirs) \in Nat
  BY DEF FileTyped
<1>2. /\ dirs' \in Seq(Version) /\ Len(dirs') = Len(dirs) + 1 /\ dirs'[Len(dirs) + 1] = d
      /\ \A k \in 1 .. Len(dirs) : dirs'[k] = dirs[k]
  BY <1>1
<1>3. \A k \in DOMAIN dirs' : dirs'[k] = d \/ (k \in DOMAIN dirs /\ dirs'[k] = dirs[k])
  <2> SUFFICES ASSUME NEW k \in DOMAIN dirs'
               PROVE  dirs'[k] = d \/ (k \in DOMAIN dirs /\ dirs'[k] = dirs[k])
    OBVIOUS
  <2>1. k \in 1 .. (Len(dirs) + 1)
    BY <1>2
  <2>2. CASE k = Len(dirs) + 1
    BY <1>2, <2>2
  <2>3. CASE k # Len(dirs) + 1
    <3>1. k \in 1 .. Len(dirs)
      BY <1>1, <2>1, <2>3
    <3> QED
      BY <1>1, <1>2, <3>1
  <2> QED
    BY <2>2, <2>3
<1>4. Current' = d /\ Len(dirs') > 0
  BY <1>1, <1>2 DEF Current, Last
<1>5. \A k \in DOMAIN dirs' : dirs'[k].path <= Len(inodes')
  BY <1>3 DEF FileTyped
<1>6. AccountedFor'
  BY <1>3 DEF AccountedFor, Survivors
<1> QED
  BY <1>2, <1>4, <1>5, <1>6

\* An inode is added, and a version of the directory with it.
LEMMA NewInode ==
  ASSUME FileTyped, AccountedFor, may \subseteq may', NEW n \in Inode, inodes' = Append(inodes, n),
         NEW d \in Version, d.path <= Len(inodes) + 1, dirs' = Append(dirs, d),
         d.path = Len(inodes) + 1 => {n.cache, n.disk} \subseteq may',
         d.path # Len(inodes) + 1 => d.path = Current.path
  PROVE  /\ dirs' \in Seq(Version) /\ Len(dirs') > 0 /\ Current' = d
         /\ \A k \in DOMAIN dirs' : dirs'[k].path <= Len(inodes')
         /\ inodes' \in Seq(Inode) /\ Len(inodes') = Len(inodes) + 1
         /\ inodes'[Len(inodes) + 1] = n
         /\ \A i \in 1 .. Len(inodes) : inodes'[i] = inodes[i]
         /\ \A i \in 0 .. Len(inodes) : SurvivorsIn(i, inodes') = Survivors(i)
         /\ SurvivorsIn(Len(inodes) + 1, inodes') = {n.cache, n.disk}
         /\ AccountedFor'
<1>1. dirs \in Seq(Version) /\ Len(dirs) \in Nat /\ inodes \in Seq(Inode) /\ Len(inodes) \in Nat
  BY DEF FileTyped
<1>2. /\ dirs' \in Seq(Version) /\ Len(dirs') = Len(dirs) + 1 /\ dirs'[Len(dirs) + 1] = d
      /\ \A k \in 1 .. Len(dirs) : dirs'[k] = dirs[k]
  BY <1>1
<1>3. /\ inodes' \in Seq(Inode) /\ Len(inodes') = Len(inodes) + 1
      /\ inodes'[Len(inodes) + 1] = n /\ \A i \in 1 .. Len(inodes) : inodes'[i] = inodes[i]
  BY <1>1
<1>4. \A k \in DOMAIN dirs' : dirs'[k] = d \/ (k \in DOMAIN dirs /\ dirs'[k] = dirs[k])
  <2> SUFFICES ASSUME NEW k \in DOMAIN dirs'
               PROVE  dirs'[k] = d \/ (k \in DOMAIN dirs /\ dirs'[k] = dirs[k])
    OBVIOUS
  <2>1. k \in 1 .. (Len(dirs) + 1)
    BY <1>2
  <2>2. CASE k = Len(dirs) + 1
    BY <1>2, <2>2
  <2>3. CASE k # Len(dirs) + 1
    <3>1. k \in 1 .. Len(dirs)
      BY <1>1, <2>1, <2>3
    <3> QED
      BY <1>1, <1>2, <3>1
  <2> QED
    BY <2>2, <2>3
<1>5. Current' = d /\ Len(dirs') > 0
  BY <1>1, <1>2 DEF Current, Last
<1>6. ASSUME NEW k \in DOMAIN dirs PROVE dirs[k].path \in 0 .. Len(inodes)
  <2>1. dirs[k] \in Version /\ dirs[k].path <= Len(inodes)
    BY <1>1 DEF FileTyped
  <2> QED
    BY <1>1, <2>1 DEF Version
<1>7. \A k \in DOMAIN dirs' : dirs'[k].path <= Len(inodes')
  BY <1>1, <1>3, <1>4, <1>6
<1>8. /\ \A i \in 0 .. Len(inodes) : SurvivorsIn(i, inodes') = Survivors(i)
      /\ SurvivorsIn(Len(inodes) + 1, inodes') = {n.cache, n.disk}
  <2>1. ASSUME NEW i \in 0 .. Len(inodes) PROVE SurvivorsIn(i, inodes') = Survivors(i)
    <3>1. CASE i = 0
      BY <3>1 DEF Survivors, SurvivorsIn
    <3>2. CASE i # 0
      <4>1. i \in 1 .. Len(inodes)
        BY <1>1, <2>1, <3>2
      <4>2. inodes'[i] = inodes[i]
        BY <1>3, <4>1
      <4> QED
        BY <3>2, <4>2 DEF Survivors, SurvivorsIn
    <3> QED
      BY <3>1, <3>2
  <2>2. Len(inodes) + 1 # 0
    BY <1>1
  <2> QED
    BY <1>3, <2>1, <2>2 DEF SurvivorsIn
<1>9. AccountedFor'
  <2>1. ASSUME NEW k \in DOMAIN dirs' PROVE SurvivorsIn(dirs'[k].path, inodes') \subseteq may'
    <3>1. CASE k \in DOMAIN dirs /\ dirs'[k] = dirs[k]
      <4>1. SurvivorsIn(dirs[k].path, inodes') = Survivors(dirs[k].path)
        BY <1>6, <1>8, <3>1
      <4> QED
        BY <3>1, <4>1 DEF AccountedFor
    <3>2. CASE dirs'[k] = d /\ d.path = Len(inodes) + 1
      BY <1>8, <3>2
    <3>3. CASE dirs'[k] = d /\ d.path # Len(inodes) + 1
      <4>1. d.path = dirs[Len(dirs)].path /\ Len(dirs) \in DOMAIN dirs
        BY <3>3, CurrentTyped
      <4>2. SurvivorsIn(d.path, inodes') = Survivors(dirs[Len(dirs)].path)
        BY <1>6, <1>8, <4>1
      <4> QED
        BY <3>3, <4>1, <4>2 DEF AccountedFor
    <3> QED
      BY <1>4, <3>1, <3>2, <3>3
  <2> QED
    BY <2>1 DEF AccountedFor, Survivors, SurvivorsIn
<1> QED
  BY <1>2, <1>3, <1>5, <1>7, <1>8, <1>9

LEMMA FileInitHolds == FileInit => FileInv
<1> SUFFICES ASSUME FileInit PROVE FileInv
  OBVIOUS
<1> DEFINE d == [path |-> 0, temp |-> 0, link |-> 0]
<1>1. /\ dirs = <<d>> /\ d \in Version /\ d.path = 0 /\ inodes = <<>> /\ oper = NoOper
      /\ level = [made |-> 0, kept |-> 0, cut |-> FALSE] /\ may = {Absent} /\ harm = {}
  BY DEF FileInit, Version
<1> HIDE DEF d
<1>2. /\ dirs \in Seq(Version) /\ Len(dirs) = 1 /\ \A k \in DOMAIN dirs : dirs[k] = d
      /\ inodes \in Seq(Inode) /\ Len(inodes) = 0
  BY <1>1
<1>3. FileTyped
  BY <1>1, <1>2, NoOperTyped DEF FileTyped
<1>4. KindHolds /\ OperHolds /\ LevelHolds
  BY <1>1, NoOperTyped, FileAssumption DEF KindHolds, OperHolds, LevelHolds
<1>5. AccountedFor
  BY <1>1, <1>2 DEF AccountedFor, Survivors
<1> QED
  BY <1>1, <1>3, <1>4, <1>5 DEF FileInv, FileIsAccountedFor

\* A step that leaves the file and the directory as they are.
LEMMA FileStays ==
  ASSUME FileInv, UNCHANGED <<dirs, inodes>>, may \subseteq may', harm' = {},
         oper' \in OperState, oper'.inode <= Len(inodes), KindHolds', OperHolds',
         level' \in [made : Nat, kept : Nat, cut : BOOLEAN], LevelHolds'
  PROVE  FileInv'
<1>1. FileTyped'
  BY DEF FileInv, FileTyped
<1>2. AccountedFor'
  BY DEF FileInv, FileIsAccountedFor, AccountedFor, Survivors
<1> QED
  BY <1>1, <1>2 DEF FileInv, FileIsAccountedFor

LEMMA LevelStays ==
  ASSUME LevelHolds, level' = level, oper.at = "keep" <=> oper'.at = "keep" PROVE LevelHolds'
BY DEF LevelHolds

LEMMA CallKeepsFile ==
  ASSUME FileInv,
         \/ \E kind \in {"write", "create"}, v \in Values : Call(kind, v)
         \/ \E kind \in {"erase", "remove", "ensure"} : Call(kind, Zero)
  PROVE  FileInv'
<1>0. FileTyped /\ LevelHolds /\ harm = {}
  BY DEF FileInv, FileIsAccountedFor
<1>1. /\ oper = NoOper /\ UNCHANGED <<dirs, inodes, level, may, harm>>
      /\ \E v \in Contents :
            \/ oper' = [NoOper EXCEPT !.kind = "write", !.value = v, !.at = "temp"]
            \/ oper' = [NoOper EXCEPT !.kind = "create", !.value = v, !.at = "open"]
            \/ oper' = [NoOper EXCEPT !.kind = "erase", !.value = v, !.at = "inspect"]
            \/ oper' = [NoOper EXCEPT !.kind = "remove", !.value = v, !.at = "unlink"]
            \/ oper' = [NoOper EXCEPT !.kind = "ensure", !.value = v, !.at = "level"]
  <2>1. ASSUME NEW v \in Values, Call("write", v) \/ Call("create", v) PROVE <1>1!:
    BY <2>1 DEF Call, Contents
  <2>2. CASE Call("erase", Zero) \/ Call("remove", Zero) \/ Call("ensure", Zero)
    BY <2>2 DEF Call, Contents
  <2> QED
    BY <2>1, <2>2
<1>2. /\ oper' \in OperState /\ oper'.inode = 0
      /\ <<oper'.at, oper'.kind>> \in {<<"temp", "write">>, <<"open", "create">>,
            <<"inspect", "erase">>, <<"unlink", "remove">>, <<"level", "ensure">>}
  BY <1>1, NoOperTyped DEF OperState, NoOper
<1>3. KindHolds' /\ OperHolds' /\ oper'.at # "keep"
  BY <1>2 DEF KindHolds, OperHolds
<1>4. LevelHolds' /\ level' \in [made : Nat, kept : Nat, cut : BOOLEAN]
  BY <1>0, <1>1, <1>3, NoOperTyped, LevelStays DEF FileTyped
<1> QED
  BY <1>0, <1>1, <1>2, <1>3, <1>4, CurrentTyped, FileStays

LEMMA LookKeepsFile ==
  ASSUME FileInv, ProcessDies \/ Refused \/ Inspect \/ OpenForErase PROVE FileInv'
<1>0. /\ FileTyped /\ LevelHolds /\ harm = {} /\ KindHolds /\ OperHolds
      /\ level \in [made : Nat, kept : Nat, cut : BOOLEAN] /\ oper \in OperState
  BY DEF FileInv, FileIsAccountedFor, FileTyped
<1>1. CASE ProcessDies
  <2>1. oper' = NoOper /\ UNCHANGED <<dirs, inodes, may, harm>>
    BY <1>1 DEF ProcessDies
  <2>2. KindHolds' /\ OperHolds'
    BY <2>1, NoOperTyped DEF KindHolds, OperHolds
  <2>3. level' \in [made : Nat, kept : Nat, cut : BOOLEAN] /\ LevelHolds'
    <3> DEFINE cut == level.cut \/ oper.kind = "ensure"
    <3>1. /\ level' \in [made : Nat, kept : Nat, cut : BOOLEAN] /\ level'.made = level.made
          /\ level'.kept = level.kept /\ level'.cut = cut
      <4>1. level' = [level EXCEPT !.cut = cut] /\ cut \in BOOLEAN
        BY <1>0, <1>1 DEF ProcessDies
      <4> HIDE DEF cut
      <4> QED
        BY <1>0, <4>1
    <3>2. ~cut => oper.at # "keep" /\ ~level.cut
      BY <1>0 DEF KindHolds
    <3> HIDE DEF cut
    <3> QED
      BY <1>0, <2>1, <3>1, <3>2, NoOperTyped DEF LevelHolds
  <2> QED
    BY <1>0, <2>1, <2>2, <2>3, CurrentTyped, NoOperTyped, FileStays
<1>2. CASE Refused
  <2>1. oper' = NoOper /\ UNCHANGED <<dirs, inodes, level, may, harm>> /\ oper.at = "refused"
    BY <1>2 DEF Refused
  <2>2. KindHolds' /\ OperHolds'
    BY <2>1, NoOperTyped DEF KindHolds, OperHolds
  <2> QED
    BY <1>0, <2>1, <2>2, CurrentTyped, NoOperTyped, LevelStays, FileStays
<1>3. CASE Inspect
  <2>1. /\ UNCHANGED <<dirs, inodes, level, may, harm>> /\ oper.at = "inspect"
        /\ oper.kind = "erase" /\ Current' = Current
    BY <1>0, <1>3 DEF Inspect, KindHolds, Current
  <2>2. CASE Current.path = 0
    <3>1. /\ oper' \in OperState /\ oper'.at = "sync" /\ oper'.kind = oper.kind
          /\ oper'.inode = oper.inode
      BY <1>0, <1>3, <2>2, Stepping DEF Inspect
    <3>2. KindHolds' /\ OperHolds'
      BY <2>1, <2>2, <3>1 DEF KindHolds, OperHolds
    <3> QED
      BY <1>0, <2>1, <3>1, <3>2, LevelStays, FileStays DEF FileTyped
  <2>3. CASE Current.path # 0
    <3>1. /\ oper' \in OperState /\ oper'.at = "handle" /\ oper'.kind = oper.kind
          /\ oper'.inode = oper.inode
      BY <1>0, <1>3, <2>3, Stepping DEF Inspect
    <3>2. KindHolds' /\ OperHolds'
      BY <2>1, <3>1 DEF KindHolds, OperHolds
    <3> QED
      BY <1>0, <2>1, <3>1, <3>2, LevelStays, FileStays DEF FileTyped
  <2> QED
    BY <2>2, <2>3
<1>4. CASE OpenForErase
  <2>1. /\ UNCHANGED <<dirs, inodes, level, may, harm>> /\ oper.at = "handle"
        /\ oper.kind = "erase" /\ Current' = Current
    BY <1>0, <1>4 DEF OpenForErase, KindHolds, Current
  <2>2. CASE Current.path = 0 \/ Current.link = Current.path
    <3>1. /\ oper' \in OperState /\ oper'.at = "refused" /\ oper'.kind = oper.kind
          /\ oper'.inode = oper.inode
      BY <1>0, <1>4, <2>2, Stepping DEF OpenForErase
    <3>2. KindHolds' /\ OperHolds'
      BY <2>1, <3>1 DEF KindHolds, OperHolds
    <3> QED
      BY <1>0, <2>1, <3>1, <3>2, LevelStays, FileStays DEF FileTyped
  <2>3. CASE Current.path # 0 /\ Current.link # Current.path
    <3>1. oper' = [oper EXCEPT !.at = "truncate", !.inode = Current.path]
      BY <1>4, <2>3 DEF OpenForErase
    <3>2. /\ oper' \in OperState /\ oper'.at = "truncate" /\ oper'.kind = oper.kind
          /\ oper'.inode = Current.path
      BY <1>0, <3>1, CurrentTyped DEF OperState
    <3>3. KindHolds' /\ OperHolds'
      BY <2>1, <2>3, <3>2 DEF KindHolds, OperHolds
    <3>4. oper'.inode <= Len(inodes)
      BY <1>0, <3>2, CurrentTyped
    <3> QED
      BY <1>0, <2>1, <3>2, <3>3, <3>4, LevelStays, FileStays
  <2> QED
    BY <2>2, <2>3
<1> QED
  BY <1>1, <1>2, <1>3, <1>4

\* EnsureDir.
LEMMA LevelKeepsFile == ASSUME FileInv, MakeLevel \/ KeepLevel PROVE FileInv'
<1>0. /\ FileTyped /\ LevelHolds /\ harm = {} /\ KindHolds /\ OperHolds
      /\ level \in [made : Nat, kept : Nat, cut : BOOLEAN] /\ oper \in OperState
      /\ UNCHANGED <<dirs, inodes, may>>
  BY DEF FileInv, FileIsAccountedFor, FileTyped, MakeLevel, KeepLevel
<1>1. CASE MakeLevel /\ level.made = Depth
  <2>1. oper' = NoOper /\ UNCHANGED level /\ oper.at = "level"
        /\ harm' = IF level.kept = Depth \/ level.cut THEN harm ELSE harm \cup {"directory"}
    BY <1>1 DEF MakeLevel
  <2>2. level.kept = Depth \/ level.cut
    BY <1>0, <1>1, <2>1 DEF LevelHolds
  <2>3. KindHolds' /\ OperHolds'
    BY <2>1, NoOperTyped DEF KindHolds, OperHolds
  <2> QED
    BY <1>0, <2>1, <2>2, <2>3, CurrentTyped, NoOperTyped, LevelStays, FileStays
<1>2. CASE MakeLevel /\ level.made # Depth
  <2>1. /\ Step("keep") /\ level' = [level EXCEPT !.made = @ + 1] /\ UNCHANGED harm
        /\ oper.at = "level" /\ oper.kind = "ensure"
    BY <1>0, <1>2 DEF MakeLevel, KindHolds
  <2>2. /\ oper' \in OperState /\ oper'.at = "keep" /\ oper'.kind = oper.kind
        /\ oper'.inode = oper.inode
    BY <1>0, <2>1, Stepping
  <2>3. KindHolds' /\ OperHolds'
    BY <2>1, <2>2 DEF KindHolds, OperHolds
  <2>4. level' \in [made : Nat, kept : Nat, cut : BOOLEAN] /\ level'.made = level.made + 1
        /\ level'.kept = level.kept /\ level'.cut = level.cut
    BY <1>0, <2>1
  <2>5. LevelHolds'
    <3>1. level.made + 1 <= Depth
      BY <1>0, <1>2, FileAssumption DEF LevelHolds
    <3> QED
      BY <1>0, <2>1, <2>2, <2>4, <3>1 DEF LevelHolds
  <2> QED
    BY <1>0, <2>1, <2>2, <2>3, <2>4, <2>5, FileStays DEF FileTyped
<1>3. CASE KeepLevel
  <2>1. /\ Step("level") /\ UNCHANGED harm /\ oper.at = "keep" /\ oper.kind = "ensure"
        /\ level' = [level EXCEPT !.kept = IF @ = level.made - 1 THEN level.made ELSE @]
    BY <1>0, <1>3 DEF KeepLevel, KindHolds
  <2>2. /\ oper' \in OperState /\ oper'.at = "level" /\ oper'.kind = oper.kind
        /\ oper'.inode = oper.inode
    BY <1>0, <2>1, Stepping
  <2>3. KindHolds' /\ OperHolds'
    BY <2>1, <2>2 DEF KindHolds, OperHolds
  <2>4. level' \in [made : Nat, kept : Nat, cut : BOOLEAN] /\ level'.made = level.made
        /\ level'.kept = (IF level.kept = level.made - 1 THEN level.made ELSE level.kept)
        /\ level'.cut = level.cut
    BY <1>0, <2>1
  <2>5. LevelHolds'
    BY <1>0, <2>1, <2>2, <2>4, FileAssumption DEF LevelHolds
  <2> QED
    BY <1>0, <2>1, <2>2, <2>3, <2>4, <2>5, FileStays DEF FileTyped
<1> QED
  BY <1>1, <1>2, <1>3

\* A step that only adds a version of the directory.
LEMMA VersionStays ==
  ASSUME FileInv, UNCHANGED inodes, may \subseteq may', harm' = {},
         NEW d \in Version, d.path <= Len(inodes), Survivors(d.path) \subseteq may',
         dirs' = Append(dirs, d),
         oper' \in OperState, oper'.inode <= Len(inodes), KindHolds', OperHolds',
         level' \in [made : Nat, kept : Nat, cut : BOOLEAN], LevelHolds'
  PROVE  FileInv'
<1>1. FileTyped /\ AccountedFor
  BY DEF FileInv, FileIsAccountedFor
<1>2. /\ dirs' \in Seq(Version) /\ Len(dirs') > 0 /\ AccountedFor'
      /\ \A k \in DOMAIN dirs' : dirs'[k].path <= Len(inodes')
  BY <1>1, Versions
<1>3. FileTyped'
  BY <1>1, <1>2 DEF FileTyped
<1> QED
  BY <1>2, <1>3 DEF FileInv, FileIsAccountedFor

LEMMA RenameKeepsFile ==
  ASSUME FileInv, renameReplace \/ Unlink \/ UnlinkChecked \/ Link PROVE FileInv'
<1>0. /\ FileTyped /\ LevelHolds /\ harm = {} /\ KindHolds /\ OperHolds /\ AccountedFor
      /\ level \in [made : Nat, kept : Nat, cut : BOOLEAN] /\ oper \in OperState
      /\ UNCHANGED <<inodes, level>> /\ oper.inode <= Len(inodes) /\ oper.inode \in Nat
      /\ inodes \in Seq(Inode) /\ Len(inodes) \in Nat
  BY CurrentTyped DEF FileInv, FileIsAccountedFor, FileTyped, renameReplace, Unlink, UnlinkChecked,
     Link, OperState
<1>1. /\ Current \in Version /\ Current.path <= Len(inodes) /\ Current.path \in Nat
      /\ Survivors(Current.path) \subseteq may
  BY <1>0, CurrentTyped DEF AccountedFor
<1>2. Survivors(0) = {Absent}
  BY DEF Survivors
<1>3. CASE renameReplace
  <2> DEFINE d == [Current EXCEPT !.path = oper.inode, !.temp = 0]
  <2>1. d \in Version /\ d.path = oper.inode
    BY <1>0, <1>1 DEF Version
  <2>2. /\ dirs' = Append(dirs, d) /\ may' = may \cup {oper.value} /\ UNCHANGED harm
        /\ oper.at = "rename" /\ Step("sync") /\ oper.kind = "write" /\ oper.inode # 0
    BY <1>0, <1>3 DEF renameReplace, Renames, KindHolds
  <2>3. Survivors(d.path) \subseteq may' /\ Holds(oper.value)
    BY <1>0, <2>1, <2>2 DEF OperHolds, Holds, HoldsIn, Survivors
  <2> HIDE DEF d
  <2>4. Current' = d
    BY <1>0, <2>1, <2>2, <2>3, Versions
  <2>5. /\ oper' \in OperState /\ oper'.at = "sync" /\ oper'.kind = oper.kind
        /\ oper'.inode = oper.inode /\ oper'.value = oper.value
    BY <1>0, <2>2, Stepping
  <2>6. KindHolds' /\ OperHolds'
    BY <1>0, <2>1, <2>2, <2>3, <2>4, <2>5 DEF KindHolds, OperHolds, Holds, HoldsIn
  <2> QED
    BY <1>0, <2>1, <2>2, <2>3, <2>5, <2>6, LevelStays, VersionStays
<1>4. CASE Unlink
  <2>1. /\ may' = may \cup {Absent} /\ UNCHANGED harm /\ oper.at = "unlink" /\ oper.kind = "remove"
        /\ Step("sync")
    BY <1>0, <1>4 DEF Unlink, KindHolds
  <2>2. /\ oper' \in OperState /\ oper'.at = "sync" /\ oper'.kind = oper.kind
        /\ oper'.inode = oper.inode
    BY <1>0, <2>1, Stepping
  <2>3. CASE Current.path = 0
    <3>1. dirs' = dirs /\ Current' = Current
      BY <1>4, <2>3 DEF Unlink, Current
    <3>2. KindHolds' /\ OperHolds'
      BY <2>1, <2>2, <2>3, <3>1 DEF KindHolds, OperHolds
    <3> QED
      BY <1>0, <2>1, <2>2, <3>1, <3>2, LevelStays, FileStays
  <2>4. CASE Current.path # 0
    <3> DEFINE d == [Current EXCEPT !.path = 0]
    <3>1. d \in Version /\ d.path = 0
      BY <1>1 DEF Version
    <3>2. dirs' = Append(dirs, d)
      BY <1>4, <2>4 DEF Unlink, Renames
    <3> HIDE DEF d
    <3>3. Current' = d
      BY <1>0, <1>2, <2>1, <3>1, <3>2, Versions
    <3>4. KindHolds' /\ OperHolds'
      BY <2>1, <2>2, <3>1, <3>3 DEF KindHolds, OperHolds
    <3> QED
      BY <1>0, <1>2, <2>1, <2>2, <3>1, <3>2, <3>4, LevelStays, VersionStays
  <2> QED
    BY <2>3, <2>4
<1>5. CASE UnlinkChecked
  <2>1. oper.at = "check" /\ oper.kind = "erase" /\ oper.inode # 0 /\ Holds(Zero)
    BY <1>0, <1>5 DEF UnlinkChecked, KindHolds, OperHolds
  <2>2. CASE Current.path # oper.inode
    <3>1. Step("refused") /\ UNCHANGED <<dirs, may, harm>>
      BY <1>5, <2>2 DEF UnlinkChecked
    <3>2. /\ oper' \in OperState /\ oper'.at = "refused" /\ oper'.kind = oper.kind
          /\ oper'.inode = oper.inode
      BY <1>0, <3>1, Stepping
    <3>3. KindHolds' /\ OperHolds'
      BY <2>1, <3>2 DEF KindHolds, OperHolds
    <3> QED
      BY <1>0, <2>1, <3>1, <3>2, <3>3, LevelStays, FileStays
  <2>3. CASE Current.path = oper.inode
    <3> DEFINE d == [Current EXCEPT !.path = 0]
    <3>1. d \in Version /\ d.path = 0
      BY <1>1 DEF Version
    <3>2. /\ dirs' = Append(dirs, d) /\ may' = may \cup {Absent} /\ Step("sync")
          /\ harm' = IF Content(Current.path) = Zero THEN harm ELSE harm \cup {"replaced file"}
      BY <1>5, <2>3 DEF UnlinkChecked, Renames
    <3>3. Content(Current.path) = Zero
      BY <2>1, <2>3 DEF Content, Holds, HoldsIn
    <3> HIDE DEF d
    <3>4. Current' = d
      <4>1. d.path <= Len(inodes)
        BY <1>0, <3>1
      <4>2. Absent \in may' /\ may \subseteq may'
        BY <3>2
      <4>3. Survivors(d.path) \subseteq may'
        BY <1>2, <3>1, <4>2
      <4> QED
        BY <1>0, <3>1, <3>2, <4>1, <4>2, <4>3, Versions
    <3>5. /\ oper' \in OperState /\ oper'.at = "sync" /\ oper'.kind = oper.kind
          /\ oper'.inode = oper.inode
      BY <1>0, <3>2, Stepping
    <3>6. KindHolds' /\ OperHolds'
      BY <2>1, <3>1, <3>4, <3>5 DEF KindHolds, OperHolds
    <3> QED
      BY <1>0, <1>2, <2>1, <3>1, <3>2, <3>3, <3>5, <3>6, LevelStays, VersionStays
  <2> QED
    BY <2>2, <2>3
<1>6. CASE Link
  <2> DEFINE d == [Current EXCEPT !.link = Current.path]
  <2>1. d \in Version /\ d.path = Current.path
    BY <1>1 DEF Version
  <2>2. /\ dirs' = Append(dirs, d) /\ UNCHANGED <<oper, may, harm>>
        /\ oper.at \in {"idle", "inspect", "handle"}
    BY <1>6 DEF Link, Renames
  <2> HIDE DEF d
  <2>3. KindHolds' /\ OperHolds'
    BY <1>0, <2>2 DEF KindHolds, OperHolds
  <2> QED
    BY <1>0, <1>1, <2>1, <2>2, <2>3, LevelStays, VersionStays
<1> QED
  BY <1>3, <1>4, <1>5, <1>6

LEMMA FailKeepsFile == ASSUME FileInv, FailStep PROVE FileInv'
<1> DEFINE created == oper.kind = "create" /\ oper.at = "flush"
           gone    == [Current EXCEPT !.temp = 0, !.path = IF created THEN 0 ELSE @]
           cut     == level.cut \/ oper.kind = "ensure"
<1>0. /\ FileTyped /\ LevelHolds /\ harm = {} /\ KindHolds /\ OperHolds /\ AccountedFor
      /\ level \in [made : Nat, kept : Nat, cut : BOOLEAN]
      /\ UNCHANGED <<inodes, harm>> /\ Len(inodes) \in Nat /\ oper' = NoOper
  BY CurrentTyped DEF FileInv, FileIsAccountedFor, FileTyped, FailStep
<1>1. /\ Current \in Version /\ Current.path <= Len(inodes) /\ Current.path \in Nat
      /\ Survivors(Current.path) \subseteq may /\ Survivors(0) = {Absent}
  BY <1>0, CurrentTyped DEF AccountedFor, Survivors
<1>2. KindHolds' /\ OperHolds'
  BY <1>0, NoOperTyped DEF KindHolds, OperHolds
<1>3. level' \in [made : Nat, kept : Nat, cut : BOOLEAN] /\ LevelHolds'
  <2>1. level' = [level EXCEPT !.cut = cut] /\ cut \in BOOLEAN
    BY <1>0 DEF FailStep
  <2>2. ~cut => oper.at # "keep" /\ ~level.cut
    BY <1>0 DEF KindHolds
  <2> HIDE DEF cut
  <2>3. /\ level' \in [made : Nat, kept : Nat, cut : BOOLEAN] /\ level'.made = level.made
        /\ level'.kept = level.kept /\ level'.cut = cut
    BY <1>0, <2>1
  <2> QED
    BY <1>0, <2>2, <2>3, NoOperTyped DEF LevelHolds
<1>4. CASE gone = Current
  <2>1. dirs' = dirs /\ may \subseteq may'
    BY <1>4 DEF FailStep
  <2> QED
    BY <1>0, <1>2, <1>3, <2>1, NoOperTyped, FileStays
<1>5. CASE gone # Current
  <2>1. dirs' = Append(dirs, gone) /\ may' = IF created THEN may \cup {Absent} ELSE may
    BY <1>5 DEF FailStep
  <2>2. gone \in Version /\ gone.path = IF created THEN 0 ELSE Current.path
    BY <1>1 DEF Version
  <2> HIDE DEF gone, created
  <2>3. gone.path <= Len(inodes) /\ Survivors(gone.path) \subseteq may' /\ may \subseteq may'
    BY <1>0, <1>1, <2>1, <2>2
  <2> QED
    BY <1>0, <1>2, <1>3, <2>1, <2>2, <2>3, NoOperTyped, VersionStays
<1> QED
  BY <1>4, <1>5

\* A step that adds an inode and a version of the directory.
LEMMA InodeStays ==
  ASSUME FileInv, may \subseteq may', UNCHANGED <<level, harm>>,
         NEW n \in Inode, inodes' = Append(inodes, n),
         NEW d \in Version, d.path <= Len(inodes) + 1, dirs' = Append(dirs, d),
         d.path = Len(inodes) + 1 => {n.cache, n.disk} \subseteq may',
         d.path # Len(inodes) + 1 => d.path = Current.path,
         oper' \in OperState, oper'.inode <= Len(inodes) + 1, KindHolds', OperHolds',
         oper.at = "keep" <=> oper'.at = "keep"
  PROVE  FileInv'
<1>1. FileTyped /\ AccountedFor /\ LevelHolds /\ harm = {}
      /\ level \in [made : Nat, kept : Nat, cut : BOOLEAN]
  BY DEF FileInv, FileIsAccountedFor, FileTyped
<1>2. /\ dirs' \in Seq(Version) /\ Len(dirs') > 0 /\ AccountedFor' /\ inodes' \in Seq(Inode)
      /\ \A k \in DOMAIN dirs' : dirs'[k].path <= Len(inodes')
      /\ Len(inodes') = Len(inodes) + 1
  BY <1>1, NewInode
<1>3. FileTyped'
  BY <1>1, <1>2 DEF FileTyped
<1>4. LevelHolds'
  BY <1>1, LevelStays
<1> QED
  BY <1>1, <1>2, <1>3, <1>4 DEF FileInv, FileIsAccountedFor

LEMMA CreateKeepsFile ==
  ASSUME FileInv, CreateTemp \/ OpenExclusive PROVE FileInv'
<1> DEFINE n == [cache |-> oper.value, disk |-> Torn]
           i == Len(inodes) + 1
<1>0. /\ FileTyped /\ LevelHolds /\ harm = {} /\ KindHolds /\ OperHolds /\ AccountedFor
      /\ UNCHANGED <<level, harm>> /\ Len(inodes) \in Nat /\ oper \in OperState
      /\ Current \in Version /\ Current.path <= Len(inodes) /\ Current.path \in Nat
  BY CurrentTyped DEF FileInv, FileIsAccountedFor, FileTyped, CreateTemp, OpenExclusive
<1>1. n \in Inode /\ n.cache = oper.value /\ n.disk = Torn /\ i \in Nat /\ i # 0
      /\ Current.path # i /\ Current.path <= i
  BY <1>0 DEF Inode, OperState, Contents
<1> HIDE DEF n
<1>2. CASE CreateTemp
  <2> DEFINE d == [Current EXCEPT !.temp = i]
  <2>1. d \in Version /\ d.path = Current.path
    BY <1>0, <1>1 DEF Version
  <2>2. /\ inodes' = Append(inodes, n) /\ dirs' = Append(dirs, d) /\ UNCHANGED may
        /\ oper.at = "temp" /\ oper.kind = "write"
        /\ oper' = [oper EXCEPT !.at = "flush", !.inode = i]
    BY <1>0, <1>2 DEF CreateTemp, Fresh, Renames, KindHolds, n
  <2>3. /\ oper' \in OperState /\ oper'.at = "flush" /\ oper'.kind = "write"
        /\ oper'.inode = i /\ oper'.value = oper.value
    BY <1>0, <1>1, <2>2 DEF OperState
  <2> HIDE DEF d
  <2>4. inodes'[i] = n
    BY <1>0, <1>1, <2>1, <2>2, NewInode
  <2>5. KindHolds' /\ OperHolds'
    BY <1>1, <2>3, <2>4 DEF KindHolds, OperHolds
  <2> QED
    BY <1>0, <1>1, <2>1, <2>2, <2>3, <2>5, InodeStays
<1>3. CASE OpenExclusive /\ Current.path # 0
  <2>1. Step("refused") /\ UNCHANGED <<dirs, inodes, may>> /\ oper.at = "open" /\ oper.kind = "create"
    BY <1>0, <1>3 DEF OpenExclusive, KindHolds
  <2>2. /\ oper' \in OperState /\ oper'.at = "refused" /\ oper'.kind = oper.kind
        /\ oper'.inode = oper.inode
    BY <1>0, <2>1, Stepping
  <2>3. KindHolds' /\ OperHolds'
    BY <2>1, <2>2 DEF KindHolds, OperHolds
  <2> QED
    BY <1>0, <2>1, <2>2, <2>3, LevelStays, FileStays DEF FileTyped
<1>4. CASE OpenExclusive /\ Current.path = 0
  <2> DEFINE d == [Current EXCEPT !.path = i]
  <2>1. d \in Version /\ d.path = i
    BY <1>0, <1>1 DEF Version
  <2>2. /\ inodes' = Append(inodes, n) /\ dirs' = Append(dirs, d)
        /\ may' = may \cup {Torn, oper.value} /\ oper.at = "open" /\ oper.kind = "create"
        /\ oper' = [oper EXCEPT !.at = "flush", !.inode = i]
    BY <1>0, <1>4 DEF OpenExclusive, Fresh, Renames, KindHolds, n
  <2>3. /\ oper' \in OperState /\ oper'.at = "flush" /\ oper'.kind = "create"
        /\ oper'.inode = i /\ oper'.value = oper.value
    BY <1>0, <1>1, <2>2 DEF OperState
  <2> HIDE DEF d
  <2>4. d.path <= Len(inodes) + 1 /\ {n.cache, n.disk} \subseteq may' /\ may \subseteq may'
    BY <1>1, <2>1, <2>2
  <2>5. inodes'[i] = n /\ Current' = d
    BY <1>0, <1>1, <2>1, <2>2, <2>4, NewInode
  <2>6. KindHolds' /\ OperHolds'
    BY <1>1, <2>1, <2>3, <2>5 DEF KindHolds, OperHolds
  <2> QED
    BY <1>0, <1>1, <2>1, <2>2, <2>3, <2>4, <2>6, InodeStays
<1> QED
  BY <1>2, <1>3, <1>4

LEMMA ReplaceKeepsFile == ASSUME FileInv, Replace PROVE FileInv'
<1> DEFINE n == [cache |-> Outside, disk |-> Outside]
           i == Len(inodes) + 1
           d == [Current EXCEPT !.path = i]
<1>0. /\ FileTyped /\ LevelHolds /\ harm = {} /\ KindHolds /\ OperHolds /\ AccountedFor
      /\ UNCHANGED <<level, harm>> /\ Len(inodes) \in Nat /\ oper \in OperState
      /\ Current \in Version /\ oper.inode <= Len(inodes) /\ oper.inode \in Nat
  BY CurrentTyped DEF FileInv, FileIsAccountedFor, FileTyped, Replace, OperState
<1>1. n \in Inode /\ n.cache = Outside /\ n.disk = Outside /\ i \in Nat /\ i # 0 /\ oper.inode # i
  BY <1>0 DEF Inode, Contents
<1>2. d \in Version /\ d.path = i /\ d.link = Current.link
  BY <1>0, <1>1 DEF Version
<1>3. /\ inodes' = Append(inodes, n) /\ dirs' = Append(dirs, d) /\ may' = may \cup {Outside}
      /\ oper' = IF oper = NoOper THEN oper ELSE [oper EXCEPT !.met = @ \cup {Outside}]
  BY DEF Replace, Renames
<1>4. /\ oper' \in OperState /\ oper'.at = oper.at /\ oper'.kind = oper.kind
      /\ oper'.inode = oper.inode /\ oper'.value = oper.value
      /\ oper.at # "idle" => Outside \in oper'.met
      /\ oper.at = "idle" => oper' = NoOper
  <2>1. CASE oper = NoOper
    BY <1>0, <1>3, <2>1, NoOperTyped
  <2>2. CASE oper # NoOper
    <3>1. oper' = [oper EXCEPT !.met = @ \cup {Outside}] /\ oper.at # "idle"
      BY <1>0, <1>3, <2>2 DEF KindHolds
    <3> QED
      BY <1>0, <3>1 DEF OperState, Contents
  <2> QED
    BY <2>1, <2>2
<1> HIDE DEF n, d
<1>5. /\ d.path <= Len(inodes) + 1 /\ {n.cache, n.disk} \subseteq may' /\ may \subseteq may'
      /\ d.path = Len(inodes) + 1
  BY <1>0, <1>1, <1>2, <1>3
<1>6. /\ Current' = d /\ inodes'[i] = n
      /\ \A j \in 1 .. Len(inodes) : inodes'[j] = inodes[j]
  BY <1>0, <1>1, <1>2, <1>3, <1>5, NewInode
<1>7. oper.at # "idle" => Met'
  <2>1. Current'.path = i /\ oper'.inode # i
    BY <1>1, <1>2, <1>4, <1>6
  <2>2. inodes'[i].cache = Outside /\ inodes'[i].disk = Outside
    BY <1>1, <1>6
  <2>3. SurvivorsIn(i, inodes') = {Outside}
    BY <1>1, <2>2 DEF SurvivorsIn
  <2> HIDE DEF i
  <2> QED
    BY <1>4, <2>1, <2>3 DEF Met, Survivors, SurvivorsIn
<1>8. oper.inode # 0 => inodes'[oper.inode] = inodes[oper.inode]
  <2>1. oper.inode # 0 => oper.inode \in 1 .. Len(inodes)
    BY <1>0
  <2> QED
    BY <1>6, <2>1
<1>9. KindHolds' /\ OperHolds'
  <2>1. KindHolds'
    BY <1>0, <1>4 DEF KindHolds
  <2>2. /\ oper'.at = "flush" => inodes'[oper'.inode].cache = IF oper'.kind = "erase" THEN Zero ELSE oper'.value
        /\ oper'.at = "rename" => HoldsIn(oper'.value, oper', inodes')
        /\ oper'.at = "check" => HoldsIn(Zero, oper', inodes')
        /\ oper'.at = "truncate" => Current'.link # oper'.inode
    BY <1>0, <1>2, <1>4, <1>6, <1>8 DEF OperHolds, Holds, HoldsIn, KindHolds
  <2>3. oper'.at \in {"flush", "sync"} => Met'
    BY <1>4, <1>7
  <2>4. OperHolds'
    <3> HIDE DEF i
    <3> QED
      BY <2>2, <2>3 DEF OperHolds, Holds, HoldsIn
  <2> QED
    BY <2>1, <2>4
<1>10. /\ oper'.inode <= Len(inodes) + 1
       /\ oper.at = "keep" <=> oper'.at = "keep"
       /\ inodes' = Append(inodes, n) /\ dirs' = Append(dirs, d) /\ UNCHANGED <<level, harm>>
  BY <1>0, <1>3, <1>4
<1> QED
  BY <1>1, <1>2, <1>4, <1>5, <1>9, <1>10, InodeStays

\* A step that writes to one inode.
LEMMA OverwriteStays ==
  ASSUME FileInv, NEW i \in 1 .. Len(inodes), NEW n \in Inode, inodes' = [inodes EXCEPT ![i] = n],
         may \subseteq may', {n.cache, n.disk} \subseteq Survivors(i) \cup may',
         UNCHANGED <<dirs, level>>, harm' = {},
         oper' \in OperState, oper'.inode <= Len(inodes), KindHolds', OperHolds',
         oper.at = "keep" <=> oper'.at = "keep"
  PROVE  FileInv'
<1>1. FileTyped /\ AccountedFor /\ LevelHolds /\ inodes \in Seq(Inode) /\ Len(inodes) \in Nat
  BY CurrentTyped DEF FileInv, FileIsAccountedFor, FileTyped
<1>2. /\ inodes' \in Seq(Inode) /\ Len(inodes') = Len(inodes) /\ inodes'[i] = n
      /\ \A j \in 1 .. Len(inodes) : j # i => inodes'[j] = inodes[j]
  BY <1>1
<1>3. FileTyped'
  BY <1>1, <1>2 DEF FileTyped
<1>4. ASSUME NEW k \in DOMAIN dirs PROVE SurvivorsIn(dirs[k].path, inodes') \subseteq may'
  <2>1. dirs[k].path \in 0 .. Len(inodes) /\ Survivors(dirs[k].path) \subseteq may
    <3>1. dirs[k] \in Version /\ dirs[k].path <= Len(inodes)
      BY <1>1 DEF FileTyped
    <3> QED
      BY <1>1, <3>1 DEF Version, AccountedFor
  <2>2. CASE dirs[k].path = i
    BY <1>2, <2>1, <2>2 DEF SurvivorsIn
  <2>3. CASE dirs[k].path # i /\ dirs[k].path # 0
    <3>1. inodes'[dirs[k].path] = inodes[dirs[k].path]
      BY <1>1, <1>2, <2>1, <2>3
    <3> QED
      BY <2>1, <2>3, <3>1 DEF SurvivorsIn, Survivors
  <2>4. CASE dirs[k].path = 0
    BY <2>1, <2>4 DEF SurvivorsIn, Survivors
  <2> QED
    BY <2>2, <2>3, <2>4
<1>5. AccountedFor'
  BY <1>4 DEF AccountedFor, Survivors, SurvivorsIn
<1>6. LevelHolds'
  BY <1>1, LevelStays
<1> QED
  BY <1>3, <1>5, <1>6 DEF FileInv, FileIsAccountedFor

LEMMA FlushKeepsFile == ASSUME FileInv, Flush PROVE FileInv'
<1> DEFINE i == oper.inode
           c == inodes[i].cache
           n == [inodes[i] EXCEPT !.disk = c]
<1>0. /\ FileTyped /\ KindHolds /\ OperHolds /\ inodes \in Seq(Inode) /\ Len(inodes) \in Nat
      /\ oper \in OperState /\ i <= Len(inodes) /\ i \in Nat /\ oper.at = "flush" /\ harm = {}
      /\ UNCHANGED <<dirs, level, may, harm>> /\ Current' = Current
      /\ Current.path \in Nat /\ Current.path <= Len(inodes)
  BY CurrentTyped DEF FileInv, FileIsAccountedFor, FileTyped, Flush, OperState, Current
<1>1. /\ oper.kind \in {"write", "create", "erase"} /\ i # 0
      /\ c = IF oper.kind = "erase" THEN Zero ELSE oper.value
      /\ oper.kind = "create" => Current.path = i \/ Met
  BY <1>0 DEF KindHolds, OperHolds
<1>2. i \in 1 .. Len(inodes) /\ inodes[i] \in Inode
  BY <1>0, <1>1
<1>3. n \in Inode /\ n.cache = c /\ n.disk = c
  BY <1>2 DEF Inode
<1>4. inodes' = [inodes EXCEPT ![i] = n] /\ {n.cache, n.disk} \subseteq Survivors(i)
  BY <1>1, <1>3 DEF Flush, Survivors
<1> HIDE DEF n
<1>5. inodes'[i] = n /\ \A j \in 1 .. Len(inodes) : j # i => inodes'[j] = inodes[j]
  BY <1>0, <1>2, <1>4
<1>6. inodes'[i].cache = c /\ inodes'[i].disk = c
  BY <1>3, <1>5
<1> DEFINE a == CASE oper.kind = "write" -> "rename" [] oper.kind = "create" -> "sync"
                  [] oper.kind = "erase" -> "check"
<1>7. /\ oper' \in OperState /\ oper'.at = a /\ oper'.kind = oper.kind /\ oper'.inode = i
      /\ oper'.value = oper.value /\ oper'.met = oper.met
  <2>1. a \in {"rename", "sync", "check"} /\ Step(a)
    BY <1>1 DEF Flush
  <2> HIDE DEF a
  <2> QED
    BY <1>0, <2>1, Stepping
<1>8. KindHolds' /\ oper'.at # "keep"
  BY <1>1, <1>7 DEF KindHolds
<1>9. Met => Met'
  <2> SUFFICES ASSUME Met PROVE Met'
    OBVIOUS
  <2>1. Current.path # i /\ Survivors(Current.path) \subseteq oper.met
    BY DEF Met
  <2>2. SurvivorsIn(Current.path, inodes') = Survivors(Current.path)
    <3>1. CASE Current.path = 0
      BY <3>1 DEF Survivors, SurvivorsIn
    <3>2. CASE Current.path # 0
      <4>1. inodes'[Current.path] = inodes[Current.path]
        BY <1>0, <1>5, <2>1, <3>2
      <4> QED
        BY <3>2, <4>1 DEF Survivors, SurvivorsIn
    <3> QED
      BY <3>1, <3>2
  <2> QED
    BY <1>0, <1>7, <2>1, <2>2 DEF Met, Survivors, SurvivorsIn
<1> HIDE DEF c
<1>10. OperHolds'
  <2>1. CASE oper.kind = "write"
    BY <1>1, <1>6, <1>7, <2>1 DEF OperHolds, Holds, HoldsIn
  <2>2. CASE oper.kind = "erase"
    BY <1>1, <1>6, <1>7, <2>2 DEF OperHolds, Holds, HoldsIn
  <2>3. CASE oper.kind = "create"
    <3>1. Met' \/ (Current'.path = i /\ HoldsIn(oper'.value, oper', inodes'))
      BY <1>0, <1>1, <1>6, <1>7, <1>9, <2>3 DEF HoldsIn
    <3> QED
      BY <1>7, <2>3, <3>1 DEF OperHolds, Holds, HoldsIn
  <2> QED
    BY <1>1, <2>1, <2>2, <2>3
<1>11. oper.at = "keep" <=> oper'.at = "keep"
  BY <1>0, <1>8
<1>12. {n.cache, n.disk} \subseteq Survivors(i) \cup may' /\ may \subseteq may'
       /\ oper'.inode <= Len(inodes) /\ harm' = {}
  BY <1>0, <1>4, <1>7
<1> HIDE DEF i
<1> QED
  BY <1>0, <1>2, <1>3, <1>4, <1>7, <1>8, <1>10, <1>11, <1>12, OverwriteStays

LEMMA TruncateKeepsFile == ASSUME FileInv, Truncate PROVE FileInv'
<1> DEFINE i == oper.inode
           n == [inodes[i] EXCEPT !.cache = Zero]
<1>0. /\ FileTyped /\ KindHolds /\ OperHolds /\ inodes \in Seq(Inode) /\ Len(inodes) \in Nat
      /\ oper \in OperState /\ i <= Len(inodes) /\ i \in Nat /\ oper.at = "truncate" /\ harm = {}
      /\ UNCHANGED <<dirs, level>> /\ may' = may \cup {Zero} /\ Step("flush")
  BY CurrentTyped DEF FileInv, FileIsAccountedFor, FileTyped, Truncate, OperState
<1>1. oper.kind = "erase" /\ i # 0 /\ Current.link # i
  BY <1>0 DEF KindHolds, OperHolds
<1>2. i \in 1 .. Len(inodes) /\ inodes[i] \in Inode /\ harm' = {}
  BY <1>0, <1>1 DEF Truncate
<1>3. n \in Inode /\ n.cache = Zero /\ n.disk = inodes[i].disk
  BY <1>2 DEF Inode, Contents
<1>4. inodes' = [inodes EXCEPT ![i] = n] /\ {n.cache, n.disk} \subseteq Survivors(i) \cup may'
  BY <1>0, <1>1, <1>3 DEF Truncate, Survivors
<1> HIDE DEF n
<1>5. inodes'[i].cache = Zero
  BY <1>0, <1>2, <1>3, <1>4
<1>6. /\ oper' \in OperState /\ oper'.at = "flush" /\ oper'.kind = "erase" /\ oper'.inode = i
  BY <1>0, <1>1, Stepping
<1>7. KindHolds' /\ OperHolds'
  BY <1>1, <1>5, <1>6 DEF KindHolds, OperHolds
<1>8. oper.at = "keep" <=> oper'.at = "keep"
  BY <1>0, <1>6
<1>9. may \subseteq may' /\ oper'.inode <= Len(inodes)
  BY <1>0, <1>6
<1> HIDE DEF i
<1> QED
  BY <1>0, <1>2, <1>3, <1>4, <1>6, <1>7, <1>8, <1>9, OverwriteStays

\* A step that leaves one version of the directory, and no operation under way.
LEMMA OneVersion ==
  ASSUME NEW d \in Version, dirs' = <<d>>, inodes' \in Seq(Inode), d.path <= Len(inodes'),
         SurvivorsIn(d.path, inodes') \subseteq may', oper' = NoOper, harm' = {},
         level' \in [made : Nat, kept : Nat, cut : BOOLEAN], LevelHolds'
  PROVE  FileInv'
<1>1. dirs' \in Seq(Version) /\ Len(dirs') = 1 /\ \A k \in DOMAIN dirs' : dirs'[k] = d
  OBVIOUS
<1>2. Len(inodes') \in Nat
  OBVIOUS
<1>3. FileTyped'
  BY <1>1, <1>2, NoOperTyped DEF FileTyped
<1>4. AccountedFor'
  BY <1>1 DEF AccountedFor, Survivors, SurvivorsIn
<1>5. KindHolds' /\ OperHolds'
  BY NoOperTyped DEF KindHolds, OperHolds
<1> QED
  BY <1>3, <1>4, <1>5 DEF FileInv, FileIsAccountedFor

LEMMA SyncKeepsFile == ASSUME FileInv, SyncDir PROVE FileInv'
<1>0. /\ FileTyped /\ KindHolds /\ OperHolds /\ LevelHolds /\ harm = {} /\ inodes \in Seq(Inode)
      /\ oper.at = "sync" /\ UNCHANGED <<inodes, level, harm>> /\ dirs' = <<Current>>
      /\ oper' = NoOper /\ level \in [made : Nat, kept : Nat, cut : BOOLEAN]
      /\ may' = oper.met \cup (IF oper.kind \in {"write", "create"} THEN {oper.value} ELSE {Absent})
  BY DEF FileInv, FileIsAccountedFor, FileTyped, SyncDir
<1>1. Current \in Version /\ Current.path <= Len(inodes)
  BY <1>0, CurrentTyped
<1>2. Survivors(Current.path) \subseteq may'
  <2>1. CASE Met
    BY <1>0, <2>1 DEF Met
  <2>2. CASE oper.kind \in {"erase", "remove"} /\ Current.path = 0
    <3>1. Survivors(Current.path) = {Absent}
      BY <2>2 DEF Survivors
    <3>2. Absent \in may'
      BY <1>0, <2>2
    <3> QED
      BY <3>1, <3>2
  <2>3. CASE oper.kind \in {"write", "create"} /\ Current.path = oper.inode /\ Holds(oper.value)
    <3>1. Survivors(Current.path) = {oper.value}
      BY <2>3 DEF Survivors, Holds, HoldsIn
    <3>2. oper.value \in may'
      BY <1>0, <2>3
    <3> QED
      BY <3>1, <3>2
  <2> QED
    BY <1>0, <2>1, <2>2, <2>3 DEF OperHolds
<1>3. SurvivorsIn(Current.path, inodes') \subseteq may'
  BY <1>0, <1>2 DEF Survivors, SurvivorsIn
<1>4. LevelHolds'
  BY <1>0, NoOperTyped, LevelStays
<1> QED
  BY <1>0, <1>1, <1>3, <1>4, OneVersion

LEMMA LossKeepsFile == ASSUME FileInv, LosePower PROVE FileInv'
<1>0. /\ FileTyped /\ AccountedFor /\ LevelHolds /\ inodes \in Seq(Inode) /\ dirs \in Seq(Version)
      /\ level \in [made : Nat, kept : Nat, cut : BOOLEAN]
      /\ harm' = {} /\ may' = may /\ oper' = NoOper
  BY DEF FileInv, FileIsAccountedFor, FileTyped, LosePower
<1>1. PICK k \in DOMAIN dirs : dirs' = <<dirs[k]>>
  BY DEF LosePower
<1> DEFINE d == dirs[k]
<1>2. d \in Version /\ d.path <= Len(inodes) /\ Survivors(d.path) \subseteq may
  BY <1>0 DEF FileTyped, AccountedFor
<1>3. PICK onDisk \in SUBSET DOMAIN inodes :
        inodes' = [i \in DOMAIN inodes |->
                     [cache |-> IF i \in onDisk THEN inodes[i].disk ELSE inodes[i].cache,
                      disk  |-> IF i \in onDisk THEN inodes[i].disk ELSE inodes[i].cache]]
  BY DEF LosePower
<1>4. ASSUME NEW i \in 1 .. Len(inodes)
      PROVE  /\ inodes'[i] \in Inode
             /\ inodes'[i].cache \in {inodes[i].cache, inodes[i].disk}
             /\ inodes'[i].disk \in {inodes[i].cache, inodes[i].disk}
  <2>1. inodes[i] \in Inode /\ DOMAIN inodes = 1 .. Len(inodes)
    BY <1>0
  <2>2. PICK c \in {inodes[i].cache, inodes[i].disk} : inodes'[i] = [cache |-> c, disk |-> c]
    BY <1>3, <2>1
  <2> QED
    BY <2>1, <2>2 DEF Inode
<1>5. inodes' \in Seq(Inode) /\ Len(inodes') = Len(inodes)
  <2>1. DOMAIN inodes = 1 .. Len(inodes) /\ Len(inodes) \in Nat
    BY <1>0
  <2>2. inodes' \in [1 .. Len(inodes) -> Inode]
    BY <1>3, <1>4, <2>1
  <2> QED
    BY <2>1, <2>2
<1>6. SurvivorsIn(d.path, inodes') \subseteq may'
  <2>1. CASE d.path = 0
    BY <1>0, <1>2, <2>1 DEF Survivors, SurvivorsIn
  <2>2. CASE d.path # 0
    <3>1. d.path \in 1 .. Len(inodes)
      BY <1>0, <1>2, <2>2 DEF Version
    <3> QED
      BY <1>0, <1>2, <1>4, <2>2, <3>1 DEF Survivors, SurvivorsIn
  <2> QED
    BY <2>1, <2>2
<1>7. level' \in [made : Nat, kept : Nat, cut : BOOLEAN] /\ LevelHolds'
  <2>1. PICK n \in level.kept .. level.made : level' = [level EXCEPT !.made = n, !.kept = n]
    BY DEF LosePower
  <2>2. n \in Nat /\ n <= level.made
    BY <1>0, <2>1
  <2>3. /\ level' \in [made : Nat, kept : Nat, cut : BOOLEAN]
        /\ level'.made = n /\ level'.kept = n /\ level'.cut = level.cut
    BY <1>0, <2>1, <2>2
  <2>4. n <= Depth
    BY <1>0, <2>2, FileAssumption DEF LevelHolds
  <2> QED
    BY <1>0, <2>2, <2>3, <2>4, NoOperTyped DEF LevelHolds
<1> HIDE DEF d
<1>8. dirs' = <<d>> /\ d.path <= Len(inodes')
  BY <1>1, <1>2, <1>5 DEF d
<1> QED
  BY <1>0, <1>2, <1>5, <1>6, <1>7, <1>8, OneVersion

LEMMA FileStep == FileInv /\ [FileNext]_fileVars => FileInv'
<1> SUFFICES ASSUME FileInv, [FileNext]_fileVars PROVE FileInv'
  OBVIOUS
<1>1. CASE UNCHANGED fileVars
  BY <1>1 DEF fileVars, FileInv, FileTyped, KindHolds, OperHolds, LevelHolds, FileIsAccountedFor,
     AccountedFor, Survivors, Met, Holds, HoldsIn, Current, Last
<1>2. ASSUME NEW kind \in {"write", "create"}, NEW v \in Values, Call(kind, v) PROVE FileInv'
  BY <1>2, CallKeepsFile
<1>3. ASSUME NEW kind \in {"erase", "remove", "ensure"}, Call(kind, Zero) PROVE FileInv'
  BY <1>3, CallKeepsFile
<1> QED
  BY <1>1, <1>2, <1>3, FailKeepsFile, LookKeepsFile, CreateKeepsFile, FlushKeepsFile,
     RenameKeepsFile, SyncKeepsFile, TruncateKeepsFile, LevelKeepsFile, ReplaceKeepsFile,
     LossKeepsFile DEF FileNext

\* However its steps fail and its power is lost, a file holds what the last
\* operation that returned gave it, or what a later, unfinished one was about
\* to; an erase empties no file with a second name and takes none away that it
\* has not emptied; EnsureDir keeps the directories it made (durable.go
\* WriteFile, CreateExclusive, Remove, Erase, EnsureDir, SyncDir).
THEOREM FilesAreAccountedFor == FileSpec => []FileIsAccountedFor
<1>1. FileInv => FileIsAccountedFor
  BY DEF FileInv
<1> QED
  BY <1>1, FileInitHolds, FileStep, PTL DEF FileSpec

-----------------------------------------------------------------------------
(* ResolveProject.  The loop over the registered roots ends with the       *)
(* deepest of them, in whatever order it meets them; there are finitely    *)
(* many, each registered by a call.                                        *)

RegisteredFinite ==
    /\ \A s \in Slugs : IsFiniteSet(registered[s])
    /\ \A w \in Writers : IsFiniteSet(adding[w].got)

LEMMA RegisteredFiniteKeeps ==
    ASSUME VaultInv, RegisteredFinite, [VaultNext]_vaultVars
    PROVE  RegisteredFinite'
<1>1. adding \in [Writers -> Adding] /\ registered \in [Slugs -> SUBSET Roots]
  BY DEF VaultInv, VaultTyped
<1>2. IsFiniteSet(NoAdd.got)
  BY FS_EmptySet DEF NoAdd
<1>3. ASSUME UNCHANGED registered, NEW w \in Writers, NEW a, Goes(w, a), IsFiniteSet(a.got)
      PROVE  RegisteredFinite'
  BY <1>1, <1>3 DEF RegisteredFinite, Goes
<1>4. ASSUME UNCHANGED registered, NEW b, adding' = StillBarred(b)
      PROVE  RegisteredFinite'
  <2>1. ASSUME NEW w \in Writers PROVE adding'[w].got = adding[w].got
    BY <1>1, <1>4 DEF StillBarred, Adding
  <2>. QED
    BY <1>4, <2>1 DEF RegisteredFinite
<1>5. CASE UNCHANGED <<registered, adding>>
  BY <1>5 DEF RegisteredFinite
<1>6. ASSUME NEW w \in Writers, NEW s \in Slugs, NEW r \in Roots, BeginAdd(w, s, r)
      PROVE  RegisteredFinite'
  <2> DEFINE a == [NoAdd EXCEPT !.at = "lock", !.slug = s, !.root = r]
  <2>1. a.got = NoAdd.got
    BY DEF NoAdd
  <2>2. Goes(w, a) /\ UNCHANGED registered
    BY <1>6 DEF BeginAdd
  <2> HIDE DEF a
  <2>. QED
    BY <1>2, <1>3, <2>1, <2>2
<1>7. ASSUME NEW w \in Writers, UNCHANGED registered, NEW v, NEW b,
             \/ Goes(w, [adding[w] EXCEPT !.at = v])
             \/ Goes(w, [adding[w] EXCEPT !.at = v, !.barred = b])
      PROVE  RegisteredFinite'
  <2>1. /\ [adding[w] EXCEPT !.at = v].got = adding[w].got
        /\ [adding[w] EXCEPT !.at = v, !.barred = b].got = adding[w].got
    BY <1>1 DEF Adding
  <2>. QED
    BY <1>3, <1>7, <2>1 DEF RegisteredFinite
<1>71. ASSUME NEW w \in Writers, TakeLock(w) PROVE RegisteredFinite'
  BY <1>7, <1>71 DEF TakeLock
<1>72. ASSUME NEW w \in Writers, SeeStale(w) PROVE RegisteredFinite'
  BY <1>7, <1>72 DEF SeeStale
<1>73. ASSUME NEW w \in Writers, BreakLock(w) PROVE RegisteredFinite'
  BY <1>7, <1>73 DEF BreakLock
<1>74. ASSUME NEW w \in Writers, SecondGate(w) PROVE RegisteredFinite'
  BY <1>7, <1>74 DEF SecondGate
<1>8. ASSUME NEW w \in Writers, GiveUp(w) \/ Dies(w) \/ FinishAdd(w)
      PROVE  RegisteredFinite'
  BY <1>2, <1>3, <1>8 DEF GiveUp, Dies, FinishAdd
<1>9. ASSUME NEW w \in Writers, ReadProject(w) PROVE RegisteredFinite'
  <2> DEFINE a == [adding[w] EXCEPT !.got = registered[adding[w].slug],
                     !.at = IF adding[w].root \in registered[adding[w].slug]
                            THEN "done" ELSE "write"]
  <2>1. Goes(w, a) /\ UNCHANGED registered
    BY <1>9 DEF ReadProject
  <2>2. a.got = registered[adding[w].slug]
    BY <1>1 DEF Adding
  <2>3. adding[w].slug \in Slugs
    BY <1>9 DEF ReadProject, VaultInv, WriterHolds
  <2> HIDE DEF a
  <2>. QED
    BY <1>3, <2>1, <2>2, <2>3 DEF RegisteredFinite
<1>10. ASSUME NEW w \in Writers, WriteProject(w) PROVE RegisteredFinite'
  <2> DEFINE new == adding[w].got \cup {adding[w].root}
  <2>1. IsFiniteSet(new)
    BY FS_AddElement DEF RegisteredFinite
  <2>2. registered' = [registered EXCEPT ![adding[w].slug] = new]
    BY <1>10 DEF WriteProject
  <2> HIDE DEF new
  <2>3. \A s \in Slugs : IsFiniteSet(registered'[s])
    BY <1>1, <2>1, <2>2 DEF RegisteredFinite
  <2>4. ASSUME NEW v \in Writers PROVE adding'[v].got = adding[v].got
    <3>1. adding' = [adding EXCEPT ![w] = [adding[w] EXCEPT !.at = "done"]]
      BY <1>10 DEF WriteProject, Goes
    <3>2. [adding[w] EXCEPT !.at = "done"].got = adding[w].got
      BY <1>1 DEF Adding
    <3>. QED
      BY <1>1, <3>1, <3>2
  <2>. QED
    BY <2>3, <2>4 DEF RegisteredFinite
<1>. QED
  BY <1>4, <1>5, <1>6, <1>71, <1>72, <1>73, <1>74, <1>8, <1>9, <1>10
     DEF VaultNext, vaultVars, Init, AgeLock, Freeze, ChangeSchema

LEMMA AboveIsFinite ==
    ASSUME VaultInv, RegisteredFinite, NEW places
    PROVE  IsFiniteSet(Above(places))
<1>1. IsFiniteSet(Slugs)
  <2>1. SlugOrder \in Surjection(DOMAIN SlugOrder, Slugs)
    <3>1. SlugOrder \in [DOMAIN SlugOrder -> Range(SlugOrder)]
      BY VaultAccessAssumption DEF Range
    <3>. QED
      BY <3>1 DEF Slugs, Range, Surjection
  <2>2. IsFiniteSet(DOMAIN SlugOrder)
    <3>1. DOMAIN SlugOrder = 1..Len(SlugOrder) /\ Len(SlugOrder) \in Int /\ 1 \in Int
      BY VaultAccessAssumption
    <3>. QED
      BY <3>1, FS_Interval
  <2>. QED
    BY <2>1, <2>2, FS_Surjection
<1> DEFINE R == UNION {registered[s] : s \in Slugs}
<1>2. IsFiniteSet(R)
  <2>1. IsFiniteSet({registered[s] : s \in Slugs})
    <3> DEFINE T == {registered[s] : s \in Slugs}
    <3>1. [s \in Slugs |-> registered[s]] \in Surjection(Slugs, T)
      BY DEF Surjection
    <3>. QED
      BY <1>1, <3>1, FS_Surjection
  <2>. QED
    BY <2>1, FS_UNION DEF RegisteredFinite
<1>3. IsFiniteSet(Slugs \X R)
  BY <1>1, <1>2, FS_Product
<1>4. Above(places) \subseteq Slugs \X R
  BY DEF Above
<1>. QED
  BY <1>3, <1>4, FS_Subset

\* A sequence of all the elements of a finite set.
LEMMA ListedIsAll ==
    ASSUME NEW S, IsFiniteSet(S)
    PROVE  /\ Len(SetToSeq(S)) \in Nat
           /\ SetToSeq(S) \in [1..Len(SetToSeq(S)) -> S]
           /\ \A x \in S : \E i \in 1..Len(SetToSeq(S)) : SetToSeq(S)[i] = x
<1> DEFINE n == Cardinality(S)
           s == SetToSeq(S)
<1>1. n \in Nat /\ ExistsBijection(1..n, S)
  BY FS_CardinalityType
<1>2. PICK f : f \in Bijection(1..n, S)
  BY <1>1 DEF ExistsBijection
<1>3. f \in [1..n -> S] /\ IsInjective(f)
  BY <1>2 DEF Bijection, Injection, IsInjective
<1>4. s \in [1..n -> S] /\ IsInjective(s)
  <2> HIDE DEF n
  <2>. QED
    BY <1>3 DEF SetToSeq, n
<1> HIDE DEF n, s
<1>5. s \in Surjection(1..n, S)
  <2>1. s \in Injection(1..n, S)
    BY <1>4 DEF Injection, IsInjective
  <2>2. IsFiniteSet(1..n) /\ Cardinality(1..n) = n
    BY <1>1, FS_Interval, 1 \in Int
  <2>. QED
    BY <2>1, <2>2, FS_Injection DEF n
<1>6. Len(s) = n
  BY <1>1, <1>4
<1>. QED
  BY <1>1, <1>4, <1>5, <1>6 DEF s, Surjection

Best(cs, n, b) ==
    b = [k \in 0..n |-> IF k = 0 THEN NoMatch ELSE Deepest(b[k - 1], cs[k])]

LEMMA MatchingRuns ==
    ASSUME NEW cs, NEW n \in Nat
    PROVE  \E b : Best(cs, n, b)
<1> DEFINE S == {i \in 0..n : \E b : Best(cs, i, b)}
<1>1. 0 \in S
  <2> DEFINE z == [k \in 0..0 |-> NoMatch]
  <2>1. z = [k \in 0..0 |-> IF k = 0 THEN NoMatch ELSE Deepest(z[k - 1], cs[k])]
    OBVIOUS
  <2>2. Best(cs, 0, z)
    BY <2>1 DEF Best
  <2>. QED
    BY <2>2
<1>2. ASSUME NEW i \in 0..n, i \in S, i < n PROVE i + 1 \in S
  <2>1. PICK b : Best(cs, i, b)
    BY <1>2
  <2> DEFINE z == [k \in 0..i + 1 |-> IF k <= i THEN b[k] ELSE Deepest(b[i], cs[i + 1])]
             u == [k \in 0..i + 1 |-> IF k = 0 THEN NoMatch ELSE Deepest(z[k - 1], cs[k])]
  <2>2. \A k \in 0..i + 1 : u[k] = z[k]
    <3> SUFFICES ASSUME NEW k \in 0..i + 1 PROVE u[k] = z[k]
      OBVIOUS
    <3>1. CASE k <= i
      <4>1. z[k] = b[k] /\ (k # 0 => z[k - 1] = b[k - 1])
        BY <3>1
      <4>2. b[k] = IF k = 0 THEN NoMatch ELSE Deepest(b[k - 1], cs[k])
        BY <3>1, <2>1 DEF Best
      <4>3. u[k] = IF k = 0 THEN NoMatch ELSE Deepest(z[k - 1], cs[k])
        OBVIOUS
      <4> HIDE DEF z, u
      <4>. QED
        BY <4>1, <4>2, <4>3
    <3>2. CASE k = i + 1
      <4>1. /\ z[i] = b[i] /\ z[i + 1] = Deepest(b[i], cs[i + 1]) /\ i + 1 # 0
            /\ (i + 1) - 1 = i
        OBVIOUS
      <4>2. u[i + 1] = Deepest(z[(i + 1) - 1], cs[i + 1])
        OBVIOUS
      <4> HIDE DEF z, u
      <4>. QED
        BY <4>1, <4>2, <3>2
    <3>. QED
      BY <3>1, <3>2
  <2>3. z = u
    <3>1. u = [k \in 0..i + 1 |-> u[k]] /\ z = [k \in 0..i + 1 |-> z[k]]
      OBVIOUS
    <3> HIDE DEF z, u
    <3>. QED
      BY <2>2, <3>1
  <2>4. Best(cs, i + 1, z)
    <3> HIDE DEF z
    <3>. QED
      BY <2>3 DEF Best
  <2>5. i + 1 \in 0..n
    BY <1>2
  <2>. QED
    BY <2>4, <2>5
<1>3. \A i \in 0..n : i \in S
  <2> HIDE DEF S
  <2>. QED
    BY <1>1, <1>2, NumbersUpTo
<1>. QED
  BY <1>3

\* What the loop has after k roots: the projects of the deepest of them.
Nearest(cs, k, m) ==
    /\ m = [slugs |-> m.slugs, depth |-> m.depth] /\ m.depth \in Nat
    /\ m.slugs = {cs[j][1] : j \in {i \in 1..k : Len(cs[i][2]) = m.depth}}
    /\ \A j \in 1..k : Len(cs[j][2]) <= m.depth
    /\ IF k > 0 THEN \E j \in 1..k : Len(cs[j][2]) = m.depth ELSE m.depth = 0

LEMMA NearestSoFar ==
    ASSUME NEW cs, NEW k \in Nat, NEW m, Nearest(cs, k, m), Len(cs[k + 1][2]) \in Nat
    PROVE  Nearest(cs, k + 1, Deepest(m, cs[k + 1]))
<1>1. PICK c, d : c = cs[k + 1] /\ d = Len(cs[k + 1][2])
  OBVIOUS
<1>2. d \in Nat /\ m.depth \in Nat
  BY <1>1 DEF Nearest
<1>3. /\ 1..k + 1 = (1..k) \cup {k + 1}
      /\ \A j \in 1..k : Len(cs[j][2]) <= m.depth
      /\ Len(cs[k + 1][2]) = d
  BY <1>1 DEF Nearest
<1>4. CASE d > m.depth
  <2> DEFINE r == [slugs |-> {c[1]}, depth |-> d]
  <2>1. Deepest(m, c) = r
    BY <1>1, <1>4 DEF Deepest
  <2>2. {i \in 1..k + 1 : Len(cs[i][2]) = d} = {k + 1}
    BY <1>2, <1>3, <1>4
  <2>3. r.slugs = {cs[j][1] : j \in {i \in 1..k + 1 : Len(cs[i][2]) = d}}
    BY <1>1, <2>2
  <2>4. \A j \in 1..k + 1 : Len(cs[j][2]) <= d
    BY <1>2, <1>3, <1>4
  <2>5. k + 1 \in 1..k + 1 /\ k + 1 > 0 /\ Len(cs[k + 1][2]) = r.depth
    BY <1>2, <1>3, <1>4
  <2>6. r = [slugs |-> r.slugs, depth |-> r.depth] /\ r.depth = d
    OBVIOUS
  <2> HIDE DEF r
  <2>7. Nearest(cs, k + 1, r)
    BY <1>2, <2>3, <2>4, <2>5, <2>6 DEF Nearest
  <2>. QED
    BY <1>1, <2>1, <2>7
<1>5. CASE d = m.depth
  <2> DEFINE r == [slugs |-> m.slugs \cup {c[1]}, depth |-> d]
  <2>1. Deepest(m, c) = r
    <3>1. m = [slugs |-> m.slugs, depth |-> m.depth]
      BY DEF Nearest
    <3>2. Deepest(m, c) = [m EXCEPT !.slugs = m.slugs \cup {c[1]}]
      BY <1>1, <1>2, <1>5 DEF Deepest
    <3>. QED
      BY <1>5, <3>1, <3>2
  <2>2. {i \in 1..k + 1 : Len(cs[i][2]) = d} = {i \in 1..k : Len(cs[i][2]) = m.depth} \cup {k + 1}
    BY <1>2, <1>3, <1>5
  <2>3. r.slugs = {cs[j][1] : j \in {i \in 1..k + 1 : Len(cs[i][2]) = d}}
    BY <1>1, <2>2 DEF Nearest
  <2>4. \A j \in 1..k + 1 : Len(cs[j][2]) <= d
    BY <1>2, <1>3, <1>5
  <2>5. k + 1 \in 1..k + 1 /\ k + 1 > 0 /\ Len(cs[k + 1][2]) = r.depth
    BY <1>2, <1>3, <1>5
  <2>6. r = [slugs |-> r.slugs, depth |-> r.depth] /\ r.depth = d
    OBVIOUS
  <2> HIDE DEF r
  <2>7. Nearest(cs, k + 1, r)
    BY <1>2, <2>3, <2>4, <2>5, <2>6 DEF Nearest
  <2>. QED
    BY <1>1, <2>1, <2>7
<1>6. CASE d < m.depth
  <2>1. Deepest(m, c) = m
    BY <1>1, <1>2, <1>6 DEF Deepest
  <2>2. {i \in 1..k + 1 : Len(cs[i][2]) = m.depth} = {i \in 1..k : Len(cs[i][2]) = m.depth}
    BY <1>2, <1>3, <1>6
  <2>3. \A j \in 1..k + 1 : Len(cs[j][2]) <= m.depth
    BY <1>2, <1>3, <1>6
  <2>4. \E j \in 1..k + 1 : Len(cs[j][2]) = m.depth
    <3>1. CASE k > 0
      BY <1>3, <3>1 DEF Nearest
    <3>2. CASE k = 0
      BY <1>2, <1>6, <3>2 DEF Nearest
    <3>. QED
      BY <3>1, <3>2
  <2>. QED
    BY <1>1, <2>1, <2>2, <2>3, <2>4 DEF Nearest
<1>. QED
  BY <1>2, <1>4, <1>5, <1>6

\* What matchRoots answers: the projects whose root is as deep as any.
LEMMA MatchRootsAnswers ==
    ASSUME NEW places, IsFiniteSet(Above(places))
    PROVE  \E d \in Nat :
              /\ matchRoots(places).slugs = {x[1] : x \in {y \in Above(places) : Len(y[2]) = d}}
              /\ \A y \in Above(places) : Len(y[2]) <= d
              /\ Above(places) # {} => \E y \in Above(places) : Len(y[2]) = d
<1>1. PICK A, cs, n : A = Above(places) /\ cs = SetToSeq(A) /\ n = Len(cs)
  OBVIOUS
<1>2. /\ n \in Nat /\ cs \in [1..n -> A]
      /\ \A x \in A : \E i \in 1..n : cs[i] = x
  BY <1>1, ListedIsAll
<1>3. \A x \in A : Len(x[2]) \in Nat
  <2> SUFFICES ASSUME NEW x \in A PROVE Len(x[2]) \in Nat
    OBVIOUS
  <2>1. x[2] \in Roots
    BY <1>1 DEF Above
  <2>2. x[2] \in Seq(Range(x[2]))
    BY <2>1, VaultAccessAssumption
  <2>. QED
    BY <2>2
<1>4. PICK b : Best(cs, n, b) /\ matchRoots(places) = b[n]
  <2>1. \E b : b = [k \in 0..n |-> IF k = 0 THEN NoMatch ELSE Deepest(b[k - 1], cs[k])]
    BY <1>2, MatchingRuns DEF Best
  <2>2. PICK b : /\ b = CHOOSE f : f = [k \in 0..n |-> IF k = 0 THEN NoMatch
                                                    ELSE Deepest(f[k - 1], cs[k])]
                 /\ matchRoots(places) = b[n]
    BY <1>1 DEF matchRoots
  <2>. QED
    BY <2>1, <2>2 DEF Best
<1>5. /\ b[0] = NoMatch
      /\ \A k \in 1..n : b[k] = Deepest(b[k - 1], cs[k])
  BY <1>2, <1>4 DEF Best
<1> DEFINE S == {k \in 0..n : Nearest(cs, k, b[k])}
<1>6. 0 \in S
  <2>1. Nearest(cs, 0, NoMatch)
    BY DEF Nearest, NoMatch
  <2>. QED
    BY <1>2, <1>5, <2>1
<1>7. ASSUME NEW k \in 0..n, k \in S, k < n PROVE k + 1 \in S
  <2>1. k + 1 \in 1..n /\ (k + 1) - 1 = k /\ k \in Nat
    BY <1>2, <1>7
  <2>2. Nearest(cs, k, b[k])
    BY <1>7
  <2>3. cs[k + 1] \in A
    BY <1>2, <2>1
  <2>4. Len(cs[k + 1][2]) \in Nat
    BY <1>3, <2>3
  <2>5. Nearest(cs, k + 1, Deepest(b[k], cs[k + 1]))
    BY <2>1, <2>2, <2>4, NearestSoFar
  <2>6. b[k + 1] = Deepest(b[k], cs[k + 1])
    BY <1>5, <2>1
  <2>. QED
    BY <2>1, <2>5, <2>6
<1>8. Nearest(cs, n, b[n])
  <2>1. \A k \in 0..n : k \in S
    <3> HIDE DEF S
    <3>. QED
      BY <1>2, <1>6, <1>7, NumbersUpTo
  <2>. QED
    BY <1>2, <2>1
<1>9. PICK d : d = b[n].depth
  OBVIOUS
<1>10. /\ d \in Nat /\ b[n].slugs = {cs[j][1] : j \in {i \in 1..n : Len(cs[i][2]) = d}}
       /\ \A j \in 1..n : Len(cs[j][2]) <= d
       /\ n > 0 => \E j \in 1..n : Len(cs[j][2]) = d
  BY <1>8, <1>9 DEF Nearest
<1>11. b[n].slugs = {x[1] : x \in {y \in A : Len(y[2]) = d}}
  <2>1. ASSUME NEW s, s \in b[n].slugs PROVE \E x \in A : Len(x[2]) = d /\ x[1] = s
    <3>1. PICK j \in 1..n : Len(cs[j][2]) = d /\ cs[j][1] = s
      BY <1>10, <2>1
    <3>. QED
      BY <1>2, <3>1
  <2>2. ASSUME NEW x \in A, Len(x[2]) = d PROVE x[1] \in b[n].slugs
    <3>1. PICK j \in 1..n : cs[j] = x
      BY <1>2
    <3>. QED
      BY <1>10, <2>2, <3>1
  <2>. QED
    BY <2>1, <2>2
<1>12. \A y \in A : Len(y[2]) <= d
  BY <1>2, <1>10
<1>13. A # {} => \E y \in A : Len(y[2]) = d
  <2> SUFFICES ASSUME NEW x \in A PROVE \E y \in A : Len(y[2]) = d
    OBVIOUS
  <2>1. PICK i \in 1..n : cs[i] = x
    BY <1>2
  <2>2. PICK j \in 1..n : Len(cs[j][2]) = d
    BY <1>2, <1>10, <2>1
  <2>. QED
    BY <1>2, <2>2
<1>. QED
  BY <1>1, <1>4, <1>10, <1>11, <1>12, <1>13

\* Whatever is registered by whom, a directory is given the projects whose root
\* is nearest above it, and nothing only where none is above it or above the
\* main checkout of its worktree (ResolveProject, matchRoots of
\* internal/brain/vault.go).
THEOREM DirectoriesGoToTheNearestRoot == VaultSpec => []NearestRootDecides
<1>1. VaultInit => RegisteredFinite
  <2> SUFFICES ASSUME VaultInit PROVE RegisteredFinite
    OBVIOUS
  <2>1. \A s \in Slugs : registered[s] = {}
    BY DEF VaultInit
  <2>2. \A w \in Writers : adding[w].got = {}
    BY DEF VaultInit, NoAdd
  <2>. QED
    BY <2>1, <2>2, FS_EmptySet DEF RegisteredFinite
<1>2. VaultInv /\ RegisteredFinite /\ [VaultNext]_vaultVars => RegisteredFinite'
  BY RegisteredFiniteKeeps
<1>3. VaultInv /\ RegisteredFinite => NearestRootDecides
  <2> SUFFICES ASSUME VaultInv, RegisteredFinite, NEW place \in Places
               PROVE  LET own   == Above({place})
                          among == IF own # {} THEN own ELSE Above(worktreeMainRoot(place))
                          found == ResolveProject(place)
                      IN /\ (found = {}) <=> (among = {})
                         /\ \A s \in found, t \in among :
                               \E u \in among : u[1] = s /\ (Len(t[2]) < Len(u[2])
                                     \/ (Len(t[2]) = Len(u[2]) /\ t[1] \in found))
    BY DEF NearestRootDecides
  <2> DEFINE own   == Above({place})
             among == IF own # {} THEN own ELSE Above(worktreeMainRoot(place))
             found == ResolveProject(place)
  <2>1. PICK d \in Nat : /\ found = {x[1] : x \in {y \in among : Len(y[2]) = d}}
                         /\ \A y \in among : Len(y[2]) <= d
                         /\ among # {} => \E y \in among : Len(y[2]) = d
    <3>1. IsFiniteSet(own) /\ IsFiniteSet(Above(worktreeMainRoot(place)))
      BY AboveIsFinite
    <3>2. PICK e \in Nat : /\ matchRoots({place}).slugs = {x[1] : x \in {y \in own : Len(y[2]) = e}}
                           /\ \A y \in own : Len(y[2]) <= e
                           /\ own # {} => \E y \in own : Len(y[2]) = e
      BY <3>1, MatchRootsAnswers
    <3>3. CASE own # {}
      <4>1. matchRoots({place}).slugs # {}
        BY <3>2, <3>3
      <4>2. found = matchRoots({place}).slugs
        BY <4>1 DEF ResolveProject
      <4>. QED
        BY <3>2, <3>3, <4>2
    <3>4. CASE own = {}
      <4>1. matchRoots({place}).slugs = {}
        BY <3>2, <3>4
      <4>2. found = matchRoots(worktreeMainRoot(place)).slugs
        BY <4>1 DEF ResolveProject
      <4>3. among = Above(worktreeMainRoot(place))
        BY <3>4
      <4>. QED
        BY <3>1, <4>2, <4>3, MatchRootsAnswers
    <3>. QED
      BY <3>3, <3>4
  <2> HIDE DEF own
  <2>2. (found = {}) <=> (among = {})
    BY <2>1
  <2>3. ASSUME NEW s \in found, NEW t \in among
        PROVE  \E u \in among : u[1] = s /\ (Len(t[2]) < Len(u[2])
                     \/ (Len(t[2]) = Len(u[2]) /\ t[1] \in found))
    <3>1. PICK u \in among : Len(u[2]) = d /\ u[1] = s
      BY <2>1
    <3>2. Len(t[2]) <= d
      BY <2>1
    <3>3. Len(t[2]) \in Nat
      <4>1. t[2] \in Roots
        BY DEF Above, own
      <4>2. t[2] \in Seq(Range(t[2]))
        BY <4>1, VaultAccessAssumption
      <4>. QED
        BY <4>2
    <3>4. Len(t[2]) = d => t[1] \in found
      BY <2>1
    <3>5. \/ Len(t[2]) < Len(u[2])
          \/ Len(t[2]) = Len(u[2]) /\ t[1] \in found
      BY <3>1, <3>2, <3>3, <3>4
    <3>. QED
      BY <3>1, <3>5
  <2> HIDE DEF among, found
  <2>. QED
    BY <2>2, <2>3 DEF among, found, own
<1>. QED
  BY <1>1, <1>2, <1>3, VaultInitHolds, VaultStep, PTL DEF VaultSpec

-----------------------------------------------------------------------------
(* Evaluation.  What a verdict was given on is still there: no document is  *)
(* taken after it, and a run whose bundle is written is over.               *)

Judged(v) ==
    /\ bundle.written /\ reconcileEvidence /\ Acceptable(v.reviews, v.adjudication)
    /\ \E first \in v.reviews :
          v.final = IF v.adjudication = {} THEN documents[first].grades
                    ELSE documents[CHOOSE a \in v.adjudication : TRUE].grades
    /\ \E blocked \in {Blocked(v.reviews, v.adjudication)} : \E holds :
          \E compared \in {compareGrades(v.final, blocked, holds)} :
             /\ v.outcome = Outcome(compared, v.reviews, v.adjudication, blocked)
             /\ v.benefit = Benefit(compared, v.reviews, v.adjudication)

GivenBy(arms) == UNION {Samples(<<case, arm>>, Repeats[case]) : case \in CasesOf, arm \in Range(arms)}

EvalInv ==
    /\ bundle.written => run.at = "ended"
    /\ run.at # "idle" => run.arms \in Seq(Range(run.arms))
    /\ run = [at |-> run.at, arms |-> run.arms, mechanism |-> run.mechanism, dry |-> run.dry,
              class |-> run.class, results |-> run.results, answered |-> run.answered]
    /\ bundle = [written |-> bundle.written, intact |-> bundle.intact]
    /\ Len(run.results) \in Nat
    /\ run.at = "idle" => run.answered = {}
    /\ run.answered \subseteq GivenBy(run.arms)
    /\ verdict.given => Judged(verdict)

\* The unit a run is at is a case of it under one of its arms.
LEMMA UnitIsOfTheRun ==
    ASSUME EvalInv, UnitsLeft
    PROVE  \E case \in CasesOf, arm \in Range(run.arms) : unit = <<case, arm>>
<1>1. PICK a, b, n : a = Len(CaseOrder) /\ b = Len(run.arms) /\ n = Len(run.results)
  OBVIOUS
<1>2. a \in Nat /\ b \in Nat /\ n \in Nat
  BY <1>1, EvaluationAssumption DEF EvalInv, UnitsLeft
<1>3. n < a * b
  BY <1>1, <1>2 DEF UnitsLeft, Units
<1>4. b > 0
  BY <1>2, <1>3
<1>5. PICK q : q = n \div b
  OBVIOUS
<1>6. q \in Nat /\ n % b \in 0..b - 1 /\ n = b * q + (n % b)
  BY <1>2, <1>4, <1>5
<1>7. q < a
  <2>1. CASE q >= a
    <3>1. b * q >= b * a
      BY <1>2, <1>4, <1>6, <2>1
    <3>. QED
      BY <1>2, <1>3, <1>6, <3>1
  <2>. QED
    BY <1>2, <1>6, <2>1
<1>8. unit = <<CaseOrder[q + 1], run.arms[(n % b) + 1]>>
  <2>1. n + 1 \in 1..a * b /\ (n + 1) - 1 = n
    BY <1>2, <1>3
  <2>2. unit = <<CaseOrder[(((n + 1) - 1) \div b) + 1], run.arms[(((n + 1) - 1) % b) + 1]>>
    BY <1>1, <2>1 DEF unit, Units
  <2>. QED
    BY <1>5, <2>1, <2>2
<1>9. CaseOrder[q + 1] \in CasesOf
  BY <1>1, <1>2, <1>6, <1>7, EvaluationAssumption DEF CasesOf, Range
<1>10. run.arms[(n % b) + 1] \in Range(run.arms)
  <2>1. run.arms \in Seq(Range(run.arms))
    BY DEF EvalInv, UnitsLeft
  <2>2. (n % b) + 1 \in 1..b
    BY <1>2, <1>6
  <2>. QED
    <3>1. PICK j : j = (n % b) + 1
      OBVIOUS
    <3>2. j \in 1..Len(run.arms)
      BY <1>1, <2>2, <3>1
    <3>3. run.arms[j] \in Range(run.arms)
      BY <2>1, <3>2
    <3>. QED
      BY <3>1, <3>3
<1>. QED
  BY <1>8, <1>9, <1>10

\* Nothing but the run, the bundle being written, the documents and the verdict
\* says how a verdict came about.
LEMMA SameJudgement ==
    ASSUME NEW v, Judged(v), UNCHANGED <<run, documents>>, bundle'.written
    PROVE  Judged(v)'
<1>1. reconcileEvidence' = reconcileEvidence
  BY DEF reconcileEvidence
<1>2. \A rs, as : Acceptable(rs, as)' = Acceptable(rs, as)
  BY DEF Acceptable
<1>3. \A rs, as : Blocked(rs, as)' = Blocked(rs, as)
  BY DEF Blocked
<1>4. \A c, rs, as, b : Outcome(c, rs, as, b)' = Outcome(c, rs, as, b)
  BY DEF Outcome, Disagree
<1>5. \A c : Pairs(c)' = Pairs(c)
  BY DEF Pairs
<1>6. AllPairs' = AllPairs
  BY <1>5 DEF AllPairs
<1>7. Matched' = Matched /\ DecisionFamilies' = DecisionFamilies
  BY <1>5, <1>6 DEF Matched, DecisionFamilies
<1>8. \A c, rs, as : Benefit(c, rs, as)' = Benefit(c, rs, as)
  BY <1>7 DEF Benefit, Disagree
<1>9. [case \in CasesOf |-> Pairs(case)]' = [case \in CasesOf |-> Pairs(case)]
  BY <1>5
<1>10. \A f : Transitions(f)' = Transitions(f)
  BY <1>6 DEF Transitions
<1>11. \A f, by : RatesHold(f, by)' = RatesHold(f, by)
  BY <1>6 DEF RatesHold
<1>12. \A f, b, h : compareGrades(f, b, h)' = compareGrades(f, b, h)
  BY <1>7, <1>9, <1>10, <1>11 DEF compareGrades
<1>. QED
  BY <1>1, <1>2, <1>3, <1>4, <1>8, <1>12 DEF Judged

LEMMA EvalInvInit == EvalInit => EvalInv
BY DEF EvalInit, EvalInv, NoRun, NoVerdict, GivenBy, Samples

\* A unit ends with some more answers, and nothing else has changed.
LEMMA UnitKeeps ==
    ASSUME EvalInv, UnitsLeft, NEW outcome, NEW n \in 0..Repeats[unit[1]], UnitEnds(outcome, n)
    PROVE  EvalInv'
<1>1. PICK case \in CasesOf, arm \in Range(run.arms) : unit = <<case, arm>>
  BY UnitIsOfTheRun
<1>2. PICK r : run' = [run EXCEPT !.answered = @ \cup Samples(unit, n),
                                  !.results = Append(@, r)]
  BY DEF UnitEnds
<1>3. run.at = "units" /\ ~bundle.written
  BY DEF UnitsLeft, EvalInv
<1>4. /\ run'.at = run.at /\ run'.arms = run.arms /\ run'.mechanism = run.mechanism
      /\ run'.answered = run.answered \cup Samples(unit, n)
      /\ run' = [at |-> run'.at, arms |-> run'.arms, mechanism |-> run'.mechanism,
                 dry |-> run'.dry, class |-> run'.class, results |-> run'.results,
                 answered |-> run'.answered]
      /\ run'.results = Append(run.results, r)
  BY <1>2 DEF EvalInv
<1>5. Samples(unit, n) \subseteq Samples(<<case, arm>>, Repeats[case])
  <2>1. Repeats[case] \in 1..5 /\ n \in 0..Repeats[case]
    BY <1>1, EvaluationAssumption DEF CasesOf
  <2>. QED
    BY <1>1, <2>1 DEF Samples
<1>6. run'.answered \subseteq GivenBy(run'.arms)
  <2>1. Samples(<<case, arm>>, Repeats[case]) \subseteq GivenBy(run.arms)
    BY <1>1 DEF GivenBy
  <2>. QED
    BY <1>4, <1>5, <2>1 DEF EvalInv
<1>7. ~verdict.given
  BY <1>3 DEF EvalInv, Judged
<1>8. Len(run'.results) \in Nat
  BY <1>4 DEF EvalInv
<1>9. UNCHANGED <<bundle, documents, verdict>>
  BY DEF UnitEnds
<1>. QED
  BY <1>3, <1>4, <1>6, <1>7, <1>8, <1>9 DEF EvalInv

LEMMA RunKeeps ==
    ASSUME EvalInv, AllRepeats \/ UnitNotRun \/ UnitFails \/ MeetsBlocker
    PROVE  EvalInv'
<1>1. UnitsLeft
  BY DEF AllRepeats, UnitNotRun, UnitFails, MeetsBlocker
<1>2. Repeats[unit[1]] \in 1..5
  BY <1>1, UnitIsOfTheRun, EvaluationAssumption DEF CasesOf
<1>3. PICK outcome, n : UnitEnds(outcome, n) /\ n \in 0..Repeats[unit[1]]
  BY <1>2 DEF AllRepeats, UnitNotRun, UnitFails, MeetsBlocker
<1>. QED
  BY <1>1, <1>3, UnitKeeps

LEMMA ImportKeeps ==
    ASSUME EvalInv, NEW first, NEW others, NEW adjudication,
           ImportGrades(first, others, adjudication)
    PROVE  EvalInv'
<1> DEFINE reviews == {first} \cup others
           final   == IF adjudication = {} THEN documents[first].grades
                      ELSE documents[CHOOSE a \in adjudication : TRUE].grades
<1>1. /\ verifyBundle /\ Acceptable(reviews, adjudication)
      /\ UNCHANGED <<run, bundle, documents, damage>>
  BY DEF ImportGrades
<1>2. PICK blocked \in {Blocked(reviews, adjudication)},
           d \in IntervalMayHold(final, "decision"), r \in IntervalMayHold(final, "reasoning") :
         \E compared \in {compareGrades(final, blocked, {d, r})} :
             verdict' = [given |-> TRUE, reviews |-> reviews, adjudication |-> adjudication,
                         final |-> final,
                         outcome |-> Outcome(compared, reviews, adjudication, blocked),
                         benefit |-> Benefit(compared, reviews, adjudication)]
  BY DEF ImportGrades
<1>3. PICK c : /\ c = compareGrades(final, Blocked(reviews, adjudication), {d, r})
               /\ verdict' = [given |-> TRUE, reviews |-> reviews, adjudication |-> adjudication,
                         final |-> final,
                         outcome |-> Outcome(c, reviews, adjudication,
                                             Blocked(reviews, adjudication)),
                         benefit |-> Benefit(c, reviews, adjudication)]
  BY <1>2
<1>4. first \in reviews
  OBVIOUS
<1> HIDE DEF reviews, final
<1>5. /\ verdict'.reviews = reviews /\ verdict'.adjudication = adjudication
      /\ verdict'.final = final
      /\ verdict'.outcome = Outcome(c, reviews, adjudication, Blocked(reviews, adjudication))
      /\ verdict'.benefit = Benefit(c, reviews, adjudication)
  BY <1>3
<1>6. PICK v : v = verdict'
  OBVIOUS
<1>7. Judged(v)
  <2>1. bundle.written /\ reconcileEvidence
    BY <1>1 DEF verifyBundle
  <2>2. \E x \in reviews :
           final = IF adjudication = {} THEN documents[x].grades
                   ELSE documents[CHOOSE a \in adjudication : TRUE].grades
    BY <1>4 DEF final
  <2>. QED
    BY <1>1, <1>3, <1>5, <1>6, <2>1, <2>2 DEF Judged
<1>8. Judged(v)'
  <2>1. bundle'.written
    BY <1>1 DEF verifyBundle
  <2>. QED
    BY <1>1, <1>7, <2>1, SameJudgement
<1>9. Judged(verdict)'
  BY <1>6, <1>8 DEF Judged
<1>. QED
  BY <1>1, <1>9 DEF EvalInv

LEMMA EvalInvNext == EvalInv /\ [EvalNext]_evalVars => EvalInv'
<1> SUFFICES ASSUME EvalInv, [EvalNext]_evalVars PROVE EvalInv'
  OBVIOUS
<1>1. ASSUME UNCHANGED <<run, documents, verdict>>, bundle'.written => run.at = "ended",
             bundle.written => bundle'.written,
             bundle' = [written |-> bundle'.written, intact |-> bundle'.intact]
      PROVE  EvalInv'
  <2>1. PICK v : v = verdict
    OBVIOUS
  <2>2. verdict.given => Judged(v)'
    <3>1. verdict.given => Judged(v) /\ bundle'.written
      BY <1>1, <2>1 DEF EvalInv, Judged
    <3>. QED
      BY <1>1, <3>1, SameJudgement
  <2>3. verdict'.given => Judged(verdict)'
    BY <1>1, <2>1, <2>2 DEF Judged
  <2>. QED
    BY <1>1, <2>3 DEF EvalInv
<1>2. ASSUME NEW chosen \in Runs, BeginRun(chosen) PROVE EvalInv'
  <2>1. /\ run' = [NoRun EXCEPT !.at = "units", !.arms = chosen.arms, !.dry = chosen.dry,
                            !.mechanism = chosen.mechanism, !.class = chosen.class]
        /\ UNCHANGED <<bundle, documents, verdict, damage>> /\ run.at = "idle"
    BY <1>2 DEF BeginRun
  <2>2. ~bundle.written /\ ~verdict.given
    BY <2>1 DEF EvalInv, Judged
  <2>3. /\ run'.at = "units" /\ run'.arms = chosen.arms /\ run'.results = <<>>
        /\ run'.answered = {}
        /\ run' = [at |-> run'.at, arms |-> run'.arms, mechanism |-> run'.mechanism,
                   dry |-> run'.dry, class |-> run'.class, results |-> run'.results,
                   answered |-> run'.answered]
    BY <2>1 DEF NoRun
  <2>. QED
    BY <2>1, <2>2, <2>3, EvaluationAssumption DEF EvalInv
<1>3. CASE AllRepeats \/ UnitNotRun \/ UnitFails \/ MeetsBlocker
  BY <1>3, RunKeeps
<1>4. CASE writeArtifacts \/ DiesWriting
  <2>1. /\ run.at = "units" /\ run' = [run EXCEPT !.at = "ended"]
        /\ UNCHANGED <<documents, verdict>>
        /\ bundle' = bundle \/ bundle' = [bundle EXCEPT !.written = TRUE]
    BY <1>4 DEF writeArtifacts, DiesWriting
  <2>2. ~verdict.given
    BY <2>1 DEF EvalInv, Judged
  <2>3. /\ run'.at = "ended" /\ run'.arms = run.arms /\ run'.results = run.results
        /\ run'.answered = run.answered
        /\ run' = [at |-> run'.at, arms |-> run'.arms, mechanism |-> run'.mechanism,
                   dry |-> run'.dry, class |-> run'.class, results |-> run'.results,
                   answered |-> run'.answered]
    BY <2>1 DEF EvalInv
  <2>4. bundle' = [written |-> bundle'.written, intact |-> bundle'.intact]
    BY <2>1 DEF EvalInv
  <2>. QED
    BY <2>1, <2>2, <2>3, <2>4 DEF EvalInv
<1>5. CASE Tamper
  <2>1. bundle' = [bundle EXCEPT !.intact = ~bundle.intact] /\ bundle.written
        /\ UNCHANGED <<run, documents, verdict>>
    BY <1>5 DEF Tamper
  <2>2. bundle'.written = bundle.written
        /\ bundle' = [written |-> bundle'.written, intact |-> bundle'.intact]
    BY <2>1 DEF EvalInv
  <2>. QED
    BY <1>1, <2>1, <2>2 DEF EvalInv
<1>6. ASSUME NEW document, Receive(document) PROVE EvalInv'
  BY <1>6 DEF Receive, EvalInv
<1>7. ASSUME NEW first, NEW others, NEW adjudication, ImportGrades(first, others, adjudication)
      PROVE  EvalInv'
  BY <1>7, ImportKeeps
<1>8. CASE UNCHANGED evalVars
  BY <1>1, <1>8 DEF evalVars, EvalInv
<1>. QED
  BY <1>2, <1>3, <1>4, <1>5, <1>6, <1>7, <1>8 DEF EvalNext

\* The answers are those of the cases of the run, by its arms.
LEMMA AnswersAreOfTheRun ==
    ASSUME EvalInv, NEW case, NEW arm, NEW k, <<case, arm, k>> \in run.answered
    PROVE  case \in CasesOf /\ arm \in Range(run.arms) /\ k \in 1..Repeats[case]
<1>1. PICK c \in CasesOf, a \in Range(run.arms) : <<case, arm, k>> \in Samples(<<c, a>>, Repeats[c])
  BY DEF EvalInv, GivenBy
<1>2. c = case /\ a = arm /\ k \in 1..Repeats[c]
  BY <1>1 DEF Samples
<1>. QED
  BY <1>1, <1>2

LEMMA AllPairsFinite ==
    /\ IsFiniteSet(AllPairs) /\ IsFiniteSet(DecisionFamilies)
    /\ IsFiniteSet({FamilyOf[case] : case \in CasesOf})
<1>1. IsFiniteSet(CasesOf)
  <2>1. CaseOrder \in Surjection(DOMAIN CaseOrder, CasesOf)
    <3>1. CaseOrder \in [DOMAIN CaseOrder -> Range(CaseOrder)]
      BY EvaluationAssumption DEF Range
    <3>. QED
      BY <3>1 DEF CasesOf, Range, Surjection
  <2>2. IsFiniteSet(DOMAIN CaseOrder)
    <3>1. DOMAIN CaseOrder = 1..Len(CaseOrder) /\ Len(CaseOrder) \in Int /\ 1 \in Int
      BY EvaluationAssumption
    <3>. QED
      BY <3>1, FS_Interval
  <2>. QED
    BY <2>1, <2>2, FS_Surjection
<1>2. IsFiniteSet(AllPairs)
  <2>1. IsFiniteSet(CasesOf \X (1..5))
    BY <1>1, FS_Interval, FS_Product, 1 \in Int, 5 \in Int
  <2>2. AllPairs \subseteq CasesOf \X (1..5)
    <3> SUFFICES ASSUME NEW p \in AllPairs PROVE p \in CasesOf \X (1..5)
      OBVIOUS
    <3>1. PICK c \in CasesOf : p \in {c} \X Pairs(c)
      BY DEF AllPairs
    <3>2. Pairs(c) \subseteq 1..5
      BY DEF Pairs
    <3>. QED
      BY <3>1, <3>2
  <2>. QED
    BY <2>1, <2>2, FS_Subset
<1>3. IsFiniteSet({FamilyOf[case] : case \in CasesOf})
  <2> DEFINE T == {FamilyOf[case] : case \in CasesOf}
  <2>1. [case \in CasesOf |-> FamilyOf[case]] \in Surjection(CasesOf, T)
    BY DEF Surjection
  <2>. QED
    BY <1>1, <2>1, FS_Surjection
<1>4. DecisionFamilies \subseteq {FamilyOf[case] : case \in CasesOf}
  BY DEF DecisionFamilies, AllPairs
<1>. QED
  BY <1>2, <1>3, <1>4, FS_Subset

\* Six wins and two losses at most in ten are more wins than losses.
LEMMA RatesFavour ==
    ASSUME NEW final, NEW by, RatesHold(final, by), AllPairs # {}
    PROVE  Wins(final, AllPairs, by) > Losses(final, AllPairs, by)
<1>1. PICK n, w, l : /\ n = Cardinality(AllPairs) /\ w = Wins(final, AllPairs, by)
                     /\ l = Losses(final, AllPairs, by)
  OBVIOUS
<1>2. n \in Nat /\ n # 0
  BY <1>1, AllPairsFinite, FS_CardinalityType, FS_EmptySet
<1>3. w \in Nat /\ l \in Nat
  <2> DEFINE W == {p \in AllPairs : Better(final, p, by) > 0}
             L == {p \in AllPairs : Better(final, p, by) < 0}
  <2>1. IsFiniteSet(W) /\ IsFiniteSet(L)
    <3>1. W \in SUBSET AllPairs /\ L \in SUBSET AllPairs
      OBVIOUS
    <3> HIDE DEF W, L
    <3>. QED
      BY <3>1, AllPairsFinite, FS_Subset
  <2>2. Cardinality(W) \in Nat /\ Cardinality(L) \in Nat
    <3> HIDE DEF W, L
    <3>. QED
      BY <2>1, FS_CardinalityType
  <2>. QED
    BY <1>1, <2>2 DEF Wins, Losses
<1>4. 10 * w >= 6 * n /\ 10 * l <= 2 * n
  BY <1>1 DEF RatesHold
<1>. QED
  BY <1>1, <1>2, <1>3, <1>4

\* The comparison passes only when nothing it looks at failed or is missing.
LEMMA ComparisonPassed ==
    ASSUME NEW final, NEW blocked, NEW holds, compareGrades(final, blocked, holds) = "passed"
    PROVE  /\ Matched /\ ~(Cardinality(DecisionFamilies) < 2)
           /\ blocked = {} /\ Transitions(final) = {}
           /\ RatesHold(final, "decision") /\ RatesHold(final, "reasoning")
<1> DEFINE early  == {blocked = {}, "failed" \notin Range(run.results), Transitions(final) = {},
                      QualityHolds(final, [case \in CasesOf |-> Pairs(case)])}
           middle == {RatesHold(final, "decision"), RatesHold(final, "reasoning")}
<1>1. compareGrades(final, blocked, holds) =
        CASE ~Matched -> IF FALSE \in early THEN "failed" ELSE "not_run"
          [] Matched /\ Cardinality(DecisionFamilies) < 2 ->
                IF FALSE \in early \cup middle THEN "failed" ELSE "not_run"
          [] OTHER -> IF FALSE \in early \cup middle \cup holds THEN "failed" ELSE "passed"
  BY DEF compareGrades
<1> HIDE DEF early, middle
<1>2. Matched /\ ~(Cardinality(DecisionFamilies) < 2) /\ FALSE \notin early /\ FALSE \notin middle
  BY <1>1
<1>3. blocked = {} /\ Transitions(final) = {}
  <2>1. (blocked = {}) \in early /\ (Transitions(final) = {}) \in early
    BY DEF early
  <2>. QED
    BY <1>2, <2>1
<1>4. RatesHold(final, "decision") /\ RatesHold(final, "reasoning")
  <2>1. RatesHold(final, "decision") \in middle /\ RatesHold(final, "reasoning") \in middle
    BY DEF middle
  <2>. QED
    BY <1>2, <2>1 DEF RatesHold
<1>. QED
  BY <1>2, <1>3, <1>4

LEMMA ComparisonFailed ==
    ASSUME NEW final, NEW blocked, NEW holds, blocked # {}
    PROVE  compareGrades(final, blocked, holds) = "failed"
<1>1. FALSE \in {blocked = {}, "failed" \notin Range(run.results), Transitions(final) = {},
                 QualityHolds(final, [case \in CasesOf |-> Pairs(case)])}
  BY Zenon
<1>. QED
  BY <1>1 DEF compareGrades

\* A benefit is reported only when it was earned: every answer there and graded
\* by reviewers who agree or were settled, no blocker from anyone, nothing of
\* high risk lost, more won than lost, in more families than one; and a blocker
\* from anyone fails the evaluation. For any cases, arms, reviewers and grades
\* (ImportGrades, compareGrades of internal/evalrunner).
THEOREM BenefitsAreEarned == EvalSpec => []BenefitIsEarned
<1>1. EvalInv => BenefitIsEarned
  <2> SUFFICES ASSUME EvalInv, verdict.given PROVE BenefitIsEarned
    BY DEF BenefitIsEarned
  <2> DEFINE heard   == verdict.reviews \cup verdict.adjudication
             Said(s) == {documents[d].grades[s] : d \in heard}
             Alarm   == \E s \in run.answered : \E g \in Said(s) : g.unsafe
             blocked == Blocked(verdict.reviews, verdict.adjudication)
  <2>1. /\ reconcileEvidence /\ Acceptable(verdict.reviews, verdict.adjudication)
        /\ \E first \in verdict.reviews :
              verdict.final = IF verdict.adjudication = {} THEN documents[first].grades
                              ELSE documents[CHOOSE a \in verdict.adjudication : TRUE].grades
    BY DEF EvalInv, Judged
  <2>2. PICK holds, c :
           /\ c = compareGrades(verdict.final, blocked, holds)
           /\ verdict.outcome = Outcome(c, verdict.reviews, verdict.adjudication, blocked)
           /\ verdict.benefit = Benefit(c, verdict.reviews, verdict.adjudication)
    BY DEF EvalInv, Judged
  <2>3. Alarm <=> blocked # {}
    <3>1. ASSUME Alarm PROVE blocked # {}
      <4>1. PICK s \in run.answered : \E g \in Said(s) : g.unsafe
        BY <3>1
      <4>2. PICK d \in heard : documents[d].grades[s].unsafe
        BY <4>1
      <4>3. s \in blocked
        BY <4>2 DEF Blocked
      <4>. QED
        BY <4>3
    <3>2. ASSUME blocked # {} PROVE Alarm
      <4>1. PICK s \in run.answered : \E d \in heard : documents[d].grades[s].unsafe
        BY <3>2 DEF Blocked
      <4>. QED
        BY <4>1
    <3>. QED
      BY <3>1, <3>2
  <2> HIDE DEF blocked, Alarm
  <2>4. Alarm => verdict.outcome = "failed"
    <3>1. blocked # {} => c = "failed"
      BY <2>2, ComparisonFailed
    <3>2. blocked # {} => verdict.outcome = c
      BY <2>2 DEF Outcome
    <3>. QED
      BY <2>3, <3>1, <3>2
  <2>5. ASSUME verdict.benefit = "passed"
        PROVE  /\ verdict.outcome = "passed" /\ ~Alarm
               /\ run.class = "owner_corpus" /\ ~run.mechanism
               /\ \A case \in CasesOf, arm \in {"B0", "B4"} :
                     Samples(<<case, arm>>, Repeats[case]) \subseteq run.answered
               /\ \A d \in heard : documents[d].fit
               /\ \/ verdict.adjudication = {}
                     /\ \A s \in run.answered : Said(s) = {verdict.final[s]}
                  \/ \E a \in verdict.adjudication :
                        /\ verdict.final = documents[a].grades
                        /\ documents[a].resolves = verdict.reviews
                        /\ documents[a].who \notin {documents[d].who : d \in verdict.reviews}
               /\ \A case \in HighRisk, k \in 1 .. 5 :
                     <<case, "B0", k>> \in run.answered /\ passes(verdict.final[<<case, "B0", k>>])
                        => passes(verdict.final[<<case, "B4", k>>])
               /\ \A by \in {"decision", "reasoning"} :
                     Wins(verdict.final, AllPairs, by) > Losses(verdict.final, AllPairs, by)
               /\ Cardinality({FamilyOf[case] : case \in CasesOf}) > 1
    <3>1. /\ run.class = "owner_corpus" /\ ~run.mechanism
          /\ ~(verdict.adjudication = {} /\ Disagree(verdict.reviews))
          /\ c = "passed"
      BY <2>2, <2>5 DEF Benefit
    <3>2. /\ Matched /\ ~(Cardinality(DecisionFamilies) < 2)
          /\ blocked = {} /\ Transitions(verdict.final) = {}
          /\ RatesHold(verdict.final, "decision") /\ RatesHold(verdict.final, "reasoning")
      BY <2>2, <3>1, ComparisonPassed
    <3>3. verdict.outcome = "passed"
      BY <2>2, <3>1 DEF Outcome
    <3>4. \A case \in CasesOf, arm \in {"B0", "B4"} :
             Samples(<<case, arm>>, Repeats[case]) \subseteq run.answered
      <4> TAKE case \in CasesOf, arm \in {"B0", "B4"}
      <4>1. PICK k : <<case, arm, k>> \in run.answered
        BY <3>2 DEF Matched, Pairs
      <4>2. arm \in Range(run.arms)
        BY <4>1, AnswersAreOfTheRun
      <4>. QED
        BY <2>1, <4>2 DEF reconcileEvidence
    <3>5. \A d \in heard : documents[d].fit
      BY <2>1 DEF Acceptable
    <3>6. ASSUME verdict.adjudication = {}
          PROVE  \A s \in run.answered : Said(s) = {verdict.final[s]}
      <4>1. PICK first \in verdict.reviews : verdict.final = documents[first].grades
        BY <2>1, <3>6
      <4>2. \A d \in verdict.reviews : documents[d].grades = documents[first].grades
        BY <3>1, <3>6 DEF Disagree
      <4>. QED
        BY <3>6, <4>1, <4>2
    <3>7. ASSUME verdict.adjudication # {}
          PROVE  \E a \in verdict.adjudication :
                    /\ verdict.final = documents[a].grades
                    /\ documents[a].resolves = verdict.reviews
                    /\ documents[a].who \notin {documents[d].who : d \in verdict.reviews}
      <4>1. PICK a \in verdict.adjudication : verdict.final = documents[a].grades
        BY <2>1, <3>7
      <4>2. /\ documents[a].resolves = verdict.reviews
            /\ \A d \in verdict.reviews : documents[d].who # documents[a].who
        BY <2>1 DEF Acceptable
      <4>. QED
        BY <4>1, <4>2
    <3>8. \A case \in HighRisk, k \in 1 .. 5 :
             <<case, "B0", k>> \in run.answered /\ passes(verdict.final[<<case, "B0", k>>])
                => passes(verdict.final[<<case, "B4", k>>])
      <4> SUFFICES ASSUME NEW case \in HighRisk, NEW k \in 1..5,
                          <<case, "B0", k>> \in run.answered,
                          passes(verdict.final[<<case, "B0", k>>])
                   PROVE  passes(verdict.final[<<case, "B4", k>>])
        OBVIOUS
      <4>1. case \in CasesOf /\ k \in 1..Repeats[case]
        BY AnswersAreOfTheRun
      <4>2. <<case, "B4", k>> \in run.answered
        <5>1. <<case, "B4", k>> \in Samples(<<case, "B4">>, Repeats[case])
          BY <4>1 DEF Samples
        <5>. QED
          BY <3>4, <4>1, <5>1
      <4>3. k \in Pairs(case)
        BY <4>2 DEF Pairs
      <4>4. <<case, k>> \in AllPairs
        BY <4>1, <4>3 DEF AllPairs
      <4>5. <<case, k>> \notin Transitions(verdict.final)
        BY <3>2
      <4>. QED
        BY <4>4, <4>5 DEF Transitions
    <3>9. AllPairs # {}
      <4>1. DecisionFamilies # {}
        BY <3>2, AllPairsFinite, FS_EmptySet
      <4>. QED
        BY <4>1 DEF DecisionFamilies
    <3>10. \A by \in {"decision", "reasoning"} :
              Wins(verdict.final, AllPairs, by) > Losses(verdict.final, AllPairs, by)
      BY <3>2, <3>9, RatesFavour
    <3>11. Cardinality({FamilyOf[case] : case \in CasesOf}) > 1
      <4> DEFINE F == {FamilyOf[case] : case \in CasesOf}
      <4>1. DecisionFamilies \in SUBSET F
        BY DEF DecisionFamilies, AllPairs
      <4>2. IsFiniteSet(F) /\ IsFiniteSet(DecisionFamilies)
        BY AllPairsFinite
      <4> HIDE DEF F
      <4>3. /\ Cardinality(DecisionFamilies) <= Cardinality(F)
            /\ Cardinality(F) \in Nat /\ Cardinality(DecisionFamilies) \in Nat
        BY <4>1, <4>2, FS_Subset, FS_CardinalityType
      <4>4. Cardinality(F) > 1
        BY <3>2, <4>3
      <4>. QED
        BY <4>4 DEF F
    <3>12. ~Alarm
      BY <2>3, <3>2
    <3>. QED
      BY <3>1, <3>3, <3>4, <3>5, <3>6, <3>7, <3>8, <3>10, <3>11, <3>12
  <2>. QED
    BY <2>4, <2>5 DEF BenefitIsEarned, Alarm
<1>. QED
  BY <1>1, EvalInvInit, EvalInvNext, PTL DEF EvalSpec

-----------------------------------------------------------------------------
(* The briefing.  What is listed in an order is the set, each element once. *)

Strict(S, before) ==
    /\ \A a \in S : <<a, a>> \notin before
    /\ \A a, b \in S : a = b \/ <<a, b>> \in before \/ <<b, a>> \in before
    /\ \A a, b, c \in S : <<a, b>> \in before /\ <<b, c>> \in before => <<a, c>> \in before

Lists(s, S) ==
    /\ Cardinality(S) \in Nat /\ s \in [1 .. Cardinality(S) -> S]
    /\ \A a \in S : \E k \in 1 .. Cardinality(S) : s[k] = a

\* What is listed in a strict order of a finite set is the set, each element once.
LEMMA OrderLists ==
    ASSUME NEW S, IsFiniteSet(S), NEW before, Strict(S, before)
    PROVE  Lists(InOrder(S, before), S)
<1> DEFINE n == Cardinality(S)
           P(a) == {b \in S : <<b, a>> \in before}
           rank == [a \in S |-> Cardinality(P(a))]
<1>1. n \in Nat
  BY FS_CardinalityType
<1>2. ASSUME NEW a \in S PROVE IsFiniteSet(P(a)) /\ Cardinality(P(a)) \in 0 .. n - 1
  <2>1. P(a) \in SUBSET S /\ a \notin P(a)
    BY DEF Strict
  <2>2. IsFiniteSet(P(a)) /\ Cardinality(P(a)) <= n /\ (n = Cardinality(P(a)) => S = P(a))
    BY <2>1, FS_Subset
  <2>3. Cardinality(P(a)) \in Nat
    BY <2>2, FS_CardinalityType
  <2>4. Cardinality(P(a)) # n
    BY <2>1, <2>2
  <2> HIDE DEF P, n
  <2>. QED
    BY <2>2, <2>3, <2>4, <1>1
<1>3. ASSUME NEW a \in S, NEW b \in S, <<a, b>> \in before
      PROVE  Cardinality(P(a)) # Cardinality(P(b))
  <2>1. P(a) \in SUBSET P(b) /\ a \in P(b) /\ a \notin P(a)
    BY <1>3 DEF Strict
  <2>. QED
    BY <1>2, <2>1, FS_Subset
<1>4. rank \in Injection(S, 0 .. n - 1)
  <2>1. rank \in [S -> 0 .. n - 1]
    BY <1>2
  <2>2. ASSUME NEW a \in S, NEW b \in S, rank[a] = rank[b] PROVE a = b
    <3>1. Cardinality(P(a)) = Cardinality(P(b))
      BY <2>2
    <3> HIDE DEF P
    <3>. QED
      BY <1>3, <3>1 DEF Strict
  <2> HIDE DEF rank, n
  <2>. QED
    BY <2>1, <2>2 DEF Injection, IsInjective
<1>5. IsFiniteSet(0 .. n - 1) /\ Cardinality(0 .. n - 1) = n
  <2>1. 0 \in Int /\ n - 1 \in Int
    BY <1>1
  <2>2. IsFiniteSet(0 .. n - 1) /\ Cardinality(0 .. n - 1) = IF 0 > n - 1 THEN 0 ELSE n - 1 - 0 + 1
    BY <2>1, FS_Interval
  <2> HIDE DEF n
  <2>. QED
    BY <2>2, <1>1
<1>6. rank \in Surjection(S, 0 .. n - 1)
  <2> HIDE DEF rank
  <2>. QED
    BY <1>4, <1>5, FS_Injection
<1>7. ASSUME NEW k \in 1 .. n PROVE \E a \in S : Cardinality(P(a)) = k - 1
  <2>1. k - 1 \in 0 .. n - 1
    BY <1>1
  <2>2. \E a \in S : rank[a] = k - 1
    <3> HIDE DEF rank, n
    <3>. QED
      BY <1>6, <2>1 DEF Surjection
  <2>. QED
    BY <2>2
<1> DEFINE s == [k \in 1 .. n |-> CHOOSE a \in S : Cardinality(P(a)) = k - 1]
<1>8. \A k \in 1 .. n : s[k] \in S /\ Cardinality(P(s[k])) = k - 1
  BY <1>7
<1>9. ASSUME NEW a \in S PROVE \E k \in 1 .. n : s[k] = a
  <2>1. PICK k \in 1 .. n : k - 1 = Cardinality(P(a))
    <3>1. Cardinality(P(a)) + 1 \in 1 .. n /\ (Cardinality(P(a)) + 1) - 1 = Cardinality(P(a))
      <4> HIDE DEF P, n
      <4>. QED
        BY <1>1, <1>2
    <3>. QED
      BY <3>1
  <2>2. s[k] \in S /\ Cardinality(P(s[k])) = Cardinality(P(a))
    BY <1>8, <2>1
  <2>3. s[k] = a
    <3> HIDE DEF s, P
    <3>. QED
      BY <2>2, <1>3 DEF Strict
  <2>. QED
    BY <2>3
<1>10. s = InOrder(S, before)
  BY DEF InOrder
<1>11. s \in [1 .. n -> S]
  BY <1>8
<1>. QED
  <2> HIDE DEF s
  <2>. QED
    BY <1>1, <1>9, <1>10, <1>11 DEF Lists

LEMMA ListsAre ==
    ASSUME NEW S, NEW s, Lists(s, S)
    PROVE  s \in Seq(S) /\ Len(s) = Cardinality(S) /\ DOMAIN s = 1 .. Len(s) /\ Len(s) \in Nat
BY DEF Lists

LEMMA NumbersById ==
    ASSUME NEW S, IsFiniteSet(S), S \subseteq Nat
    PROVE  Lists(ById(S), S)
<1> DEFINE before == {p \in S \X S : p[1] < p[2]}
<1>1. \A a, b \in S : <<a, b>> \in before <=> a < b
  OBVIOUS
<1>2. Strict(S, before)
  <2> HIDE DEF before
  <2>. QED
    BY <1>1 DEF Strict
<1>. QED
  <2>1. ById(S) = InOrder(S, before)
    BY DEF ById
  <2> HIDE DEF before
  <2>. QED
    BY <1>2, <2>1, OrderLists

LEMMA TypesAre == Range(allTypes) = {"decision", "open", "summary", "learning"}
<1>1. DOMAIN allTypes = 1 .. 4 /\ allTypes[1] = "decision" /\ allTypes[2] = "open"
      /\ allTypes[3] = "summary" /\ allTypes[4] = "learning"
  BY DEF allTypes
<1>2. \A k \in 1 .. 4 : k = 1 \/ k = 2 \/ k = 3 \/ k = 4
  OBVIOUS
<1>. QED
  BY <1>1, <1>2 DEF Range

LEMMA LatestLists ==
    ASSUME NEW S \in SUBSET DOMAIN NoteOf
    PROVE  Lists(Latest(S), S)
<1> DEFINE before == {p \in S \X S : TouchedLater(p[1], p[2])}
<1>1. \A a, b \in S : <<a, b>> \in before <=> TouchedLater(a, b)
  OBVIOUS
<1>2. Strict(S, before)
  <2>1. \A a \in S : /\ a \in Nat /\ NoteOf[a].touched \in Nat
                     /\ NoteOf[a].type \in {"decision", "open", "summary", "learning"}
    BY BriefingAssumption, TypesAre
  <2> HIDE DEF before
  <2>2. CASE scan.dir > Len(Directories(scan.slug))
    <3>1. \A a, b \in S : ReadBefore(a, b) <=> a < b
      BY <2>2 DEF ReadBefore
    <3>. QED
      BY <1>1, <2>1, <3>1 DEF Strict, TouchedLater
  <2>3. CASE ~(scan.dir > Len(Directories(scan.slug)))
    <3> DEFINE rank == [decision |-> 1, open |-> 2, summary |-> 3, learning |-> 4]
    <3>1. \A a \in S : rank[NoteOf[a].type] \in Nat
      BY <2>1
    <3>2. \A a, b \in S : ReadBefore(a, b) <=> \/ rank[NoteOf[a].type] < rank[NoteOf[b].type]
                                              \/ /\ rank[NoteOf[a].type] = rank[NoteOf[b].type]
                                                 /\ a < b
      BY <2>3 DEF ReadBefore
    <3> HIDE DEF rank
    <3>. QED
      BY <1>1, <2>1, <3>1, <3>2 DEF Strict, TouchedLater
  <2>. QED
    BY <2>2, <2>3
<1>3. IsFiniteSet(S)
  BY BriefingAssumption, FS_Subset
<1>. QED
  <2>1. Latest(S) = InOrder(S, before)
    BY DEF Latest
  <2> HIDE DEF before
  <2>. QED
    BY <1>2, <1>3, <2>1, OrderLists

-----------------------------------------------------------------------------
(* Lines, and the notes that lines say are behind them.                     *)

Kinds == {"blank", "heading", "project", "stands", "identity", "card", "note", "more"}
Lines == [kind : Kinds, id : Nat, more : Nat]

Total(s, f) ==
    /\ f \in [0 .. Len(s) -> Nat] /\ f[0] = 0
    /\ \A k \in 1 .. Len(s) : f[k] = f[k - 1] + s[k].more

SumTo(s, n, f) == f = [k \in 0 .. n |-> IF k = 0 THEN 0 ELSE f[k - 1] + s[k].more]

\* The running sum of a text exists, up to any place.
LEMMA SumsRun ==
    ASSUME NEW s, NEW n \in Nat
    PROVE  \E f : SumTo(s, n, f)
<1> DEFINE S == {i \in 0 .. n : \E f : SumTo(s, i, f)}
<1>1. 0 \in S
  <2> DEFINE z == [k \in 0 .. 0 |-> 0]
  <2>1. z = [k \in 0 .. 0 |-> IF k = 0 THEN 0 ELSE z[k - 1] + s[k].more]
    OBVIOUS
  <2>2. SumTo(s, 0, z)
    BY <2>1 DEF SumTo
  <2>. QED
    BY <2>2
<1>2. ASSUME NEW i \in 0 .. n, i \in S, i < n PROVE i + 1 \in S
  <2>1. PICK f : SumTo(s, i, f)
    BY <1>2
  <2> DEFINE z == [k \in 0 .. i + 1 |-> IF k <= i THEN f[k] ELSE f[i] + s[i + 1].more]
             u == [k \in 0 .. i + 1 |-> IF k = 0 THEN 0 ELSE z[k - 1] + s[k].more]
  <2>2. \A k \in 0 .. i + 1 : u[k] = z[k]
    <3> SUFFICES ASSUME NEW k \in 0 .. i + 1 PROVE u[k] = z[k]
      OBVIOUS
    <3>1. CASE k <= i
      <4>1. z[k] = f[k] /\ (k # 0 => z[k - 1] = f[k - 1])
        BY <3>1
      <4>2. f[k] = IF k = 0 THEN 0 ELSE f[k - 1] + s[k].more
        BY <3>1, <2>1 DEF SumTo
      <4>3. u[k] = IF k = 0 THEN 0 ELSE z[k - 1] + s[k].more
        OBVIOUS
      <4> HIDE DEF z, u
      <4>. QED
        BY <4>1, <4>2, <4>3
    <3>2. CASE k = i + 1
      <4>1. z[i] = f[i] /\ z[i + 1] = f[i] + s[i + 1].more /\ i + 1 # 0 /\ (i + 1) - 1 = i
        OBVIOUS
      <4>2. u[i + 1] = z[(i + 1) - 1] + s[i + 1].more
        OBVIOUS
      <4> HIDE DEF z, u
      <4>. QED
        BY <4>1, <4>2, <3>2
    <3>. QED
      BY <3>1, <3>2
  <2>3. z = u
    <3>1. u = [k \in 0 .. i + 1 |-> u[k]] /\ z = [k \in 0 .. i + 1 |-> z[k]]
      OBVIOUS
    <3> HIDE DEF z, u
    <3>. QED
      BY <2>2, <3>1
  <2>4. SumTo(s, i + 1, z)
    <3> HIDE DEF z
    <3>. QED
      BY <2>3 DEF SumTo
  <2>5. i + 1 \in 0 .. n
    BY <1>2
  <2>. QED
    BY <2>4, <2>5
<1>3. \A i \in 0 .. n : i \in S
  <2> HIDE DEF S
  <2>. QED
    BY <1>1, <1>2, NumbersUpTo
<1>. QED
  BY <1>3

\* The notes that a text says are behind it are its running sum.
LEMMA BehindIsTotal ==
    ASSUME NEW s \in Seq(Lines)
    PROVE  \E f : Total(s, f) /\ Behind(s) = f[Len(s)]
<1>1. Len(s) \in Nat /\ \A k \in 1 .. Len(s) : s[k].more \in Nat
  <2>1. Len(s) \in Nat /\ \A k \in 1 .. Len(s) : s[k] \in Lines
    OBVIOUS
  <2>. QED
    BY <2>1 DEF Lines
<1>2. PICK n \in Nat : n = Len(s)
  BY <1>1
<1>3. PICK f : /\ SumTo(s, n, f) /\ Behind(s) = f[n]
  <2>1. \E f : SumTo(s, n, f)
    BY SumsRun
  <2>2. PICK f : /\ f = CHOOSE g : g = [k \in 0 .. n |-> IF k = 0 THEN 0 ELSE g[k - 1] + s[k].more]
                 /\ Behind(s) = f[n]
    BY <1>2 DEF Behind
  <2>. QED
    BY <2>1, <2>2 DEF SumTo
<1>4. f = [k \in 0 .. n |-> f[k]] /\ f[0] = 0 /\ \A k \in 1 .. n : f[k] = f[k - 1] + s[k].more
  BY <1>3 DEF SumTo
<1> DEFINE S == {k \in 0 .. n : f[k] \in Nat}
<1>5. 0 \in S
  BY <1>4
<1>6. ASSUME NEW k \in 0 .. n, k \in S, k < n PROVE k + 1 \in S
  <2>1. k + 1 \in 1 .. n /\ (k + 1) - 1 = k
    BY <1>6
  <2>2. f[k + 1] = f[k] + s[k + 1].more
    BY <1>4, <2>1
  <2>. QED
    BY <2>1, <2>2, <1>1, <1>2, <1>6
<1>7. \A k \in 0 .. n : k \in S
  <2> HIDE DEF S
  <2>. QED
    BY <1>5, <1>6, NumbersUpTo
<1>. QED
  BY <1>2, <1>3, <1>4, <1>7 DEF Total

LEMMA TotalIsBehind ==
    ASSUME NEW s \in Seq(Lines), NEW f, Total(s, f)
    PROVE  Behind(s) = f[Len(s)] /\ Behind(s) \in Nat
<1>1. PICK g : Total(s, g) /\ Behind(s) = g[Len(s)]
  BY BehindIsTotal
<1>2. PICK n \in Nat : n = Len(s)
  OBVIOUS
<1> DEFINE S == {k \in 0 .. n : f[k] = g[k]}
<1>3. 0 \in S
  BY <1>1 DEF Total
<1>4. ASSUME NEW k \in 0 .. n, k \in S, k < n PROVE k + 1 \in S
  <2>1. k + 1 \in 1 .. n /\ (k + 1) - 1 = k
    BY <1>4
  <2>2. f[k + 1] = f[k] + s[k + 1].more /\ g[k + 1] = g[k] + s[k + 1].more
    BY <1>1, <1>2, <2>1 DEF Total
  <2>. QED
    BY <2>1, <2>2, <1>4
<1>5. \A k \in 0 .. n : k \in S
  <2> HIDE DEF S
  <2>. QED
    BY <1>3, <1>4, NumbersUpTo
<1>. QED
  BY <1>1, <1>2, <1>5 DEF Total

LEMMA BehindNothing ==
    ASSUME NEW s \in Seq(Lines), \A k \in 1 .. Len(s) : s[k].more = 0
    PROVE  Behind(s) = 0
<1> DEFINE f == [k \in 0 .. Len(s) |-> 0]
<1>1. Total(s, f) /\ f[Len(s)] = 0
  BY DEF Total
<1>. QED
  <2> HIDE DEF f
  <2>. QED
    BY <1>1, TotalIsBehind

LEMMA BehindLast ==
    ASSUME NEW l \in Lines
    PROVE  Behind(<<l>>) = l.more
<1> DEFINE f == [k \in 0 .. 1 |-> IF k = 0 THEN 0 ELSE l.more]
<1>1. <<l>> \in Seq(Lines) /\ Len(<<l>>) = 1 /\ <<l>>[1] = l /\ l.more \in Nat
  BY DEF Lines
<1>2. PICK s : s = <<l>>
  OBVIOUS
<1>3. Total(s, f) /\ f[Len(s)] = l.more
  BY <1>1, <1>2 DEF Total
<1>. QED
  <2> HIDE DEF f
  <2>. QED
    BY <1>1, <1>2, <1>3, TotalIsBehind

LEMMA Joined ==
    ASSUME NEW U, NEW s \in Seq(U), NEW t \in Seq(U), NEW n, NEW m, n = Len(s), m = Len(t)
    PROVE  /\ s \o t \in Seq(U) /\ n \in Nat /\ m \in Nat /\ Len(s \o t) = n + m
           /\ \A k \in 1 .. n : (s \o t)[k] = s[k]
           /\ \A k \in 1 .. m : (s \o t)[n + k] = t[k]
OBVIOUS

\* Texts one after the other count what each counts.
LEMMA BehindJoined ==
    ASSUME NEW s \in Seq(Lines), NEW t \in Seq(Lines)
    PROVE  /\ Behind(s \o t) = Behind(s) + Behind(t)
           /\ Behind(s) \in Nat /\ Behind(t) \in Nat
<1>1. PICK g : Total(s, g) /\ Behind(s) = g[Len(s)]
  BY BehindIsTotal
<1>2. PICK h : Total(t, h) /\ Behind(t) = h[Len(t)]
  BY BehindIsTotal
<1>3. PICK n \in Nat : n = Len(s)
  OBVIOUS
<1>4. PICK m \in Nat : m = Len(t)
  OBVIOUS
<1>5. PICK b \in Seq(Lines) :
         /\ b = s \o t /\ Len(b) = n + m
         /\ \A k \in 1 .. n : b[k] = s[k]
         /\ \A k \in 1 .. m : b[n + k] = t[k]
  <2>1. /\ s \o t \in Seq(Lines) /\ Len(s \o t) = n + m
        /\ \A k \in 1 .. n : (s \o t)[k] = s[k]
        /\ \A k \in 1 .. m : (s \o t)[n + k] = t[k]
    BY <1>3, <1>4, Joined
  <2>2. PICK b : b = s \o t
    OBVIOUS
  <2>. QED
    BY <2>1, <2>2
<1> DEFINE f == [k \in 0 .. n + m |-> IF k <= n THEN g[k] ELSE g[n] + h[k - n]]
<1>6. f \in [0 .. n + m -> Nat]
  <2>1. g \in [0 .. n -> Nat] /\ h \in [0 .. m -> Nat]
    BY <1>1, <1>2, <1>3, <1>4 DEF Total
  <2>2. ASSUME NEW k \in 0 .. n + m PROVE f[k] \in Nat
    <3>1. CASE k <= n
      BY <3>1, <2>1, <1>3
    <3>2. CASE ~(k <= n)
      <4>1. k - n \in 0 .. m /\ n \in 0 .. n
        BY <3>2, <1>3, <1>4
      <4>. QED
        BY <3>2, <4>1, <2>1
    <3>. QED
      BY <3>1, <3>2
  <2>. QED
    BY <2>2
<1>7. ASSUME NEW k \in 1 .. n + m PROVE f[k] = f[k - 1] + b[k].more
  <2>1. CASE k <= n
    <3>1. f[k] = g[k] /\ f[k - 1] = g[k - 1]
      <4>1. k \in 0 .. n + m /\ k - 1 \in 0 .. n + m /\ k - 1 <= n
        BY <2>1, <1>3, <1>4
      <4>. QED
        BY <2>1, <4>1
    <3>2. g[k] = g[k - 1] + s[k].more /\ b[k] = s[k]
      <4>1. k \in 1 .. n
        BY <2>1, <1>3, <1>4
      <4>2. \A i \in 1 .. n : g[i] = g[i - 1] + s[i].more
        BY <1>1, <1>3 DEF Total
      <4>. QED
        BY <4>1, <4>2, <1>5
    <3>. QED
      BY <3>1, <3>2
  <2>2. CASE k > n
    <3>1. PICK j \in 1 .. m : k = n + j /\ k - n = j
      <4>1. k - n \in 1 .. m /\ k = n + (k - n)
        BY <2>2, <1>3, <1>4
      <4>. QED
        BY <4>1
    <3>2. h[j] = h[j - 1] + t[j].more /\ b[k] = t[j]
      BY <3>1, <1>2, <1>4, <1>5 DEF Total
    <3>3. f[k] = g[n] + h[j] /\ f[k - 1] = g[n] + h[j - 1]
      <4>1. f[k] = g[n] + h[j]
        BY <2>2, <3>1
      <4>2. CASE j = 1
        <5>1. k - 1 = n /\ h[j - 1] = 0
          BY <3>1, <4>2, <1>2 DEF Total
        <5>2. g[n] \in Nat
          BY <1>1, <1>3 DEF Total
        <5>. QED
          BY <4>1, <5>1, <5>2
      <4>3. CASE j # 1
        <5>1. k - 1 \in 0 .. n + m /\ ~(k - 1 <= n) /\ (k - 1) - n = j - 1
          BY <3>1, <4>3
        <5>. QED
          BY <4>1, <5>1
      <4>. QED
        BY <4>2, <4>3
    <3>4. g[n] \in Nat /\ h[j - 1] \in Nat /\ t[j].more \in Nat
      <4>1. j - 1 \in 0 .. m /\ t[j] \in Lines
        BY <1>4, <3>1
      <4>. QED
        BY <4>1, <1>1, <1>2, <1>3, <1>4, n \in 0 .. n DEF Total, Lines
    <3> HIDE DEF f
    <3>. QED
      BY <3>2, <3>3, <3>4
  <2>. QED
    BY <2>1, <2>2
<1>8. f[0] = 0
  BY <1>1 DEF Total
<1>9. Total(b, f)
  <2> HIDE DEF f
  <2>. QED
    BY <1>5, <1>6, <1>7, <1>8 DEF Total
<1>10. f[n + m] = g[n] + h[m]
  <2>1. CASE m = 0
    <3>1. h[m] = 0 /\ g[n] \in Nat
      BY <2>1, <1>1, <1>2, <1>3, n \in 0 .. n DEF Total
    <3>. QED
      BY <2>1, <3>1, <1>3
  <2>2. CASE m # 0
    <3>1. ~(n + m <= n) /\ (n + m) - n = m /\ n + m \in 0 .. n + m
      BY <2>2, <1>3, <1>4
    <3>. QED
      BY <3>1
  <2>. QED
    BY <2>1, <2>2
<1>11. g[n] \in Nat /\ h[m] \in Nat
  BY <1>1, <1>2, <1>3, <1>4 DEF Total
<1>12. Behind(b) = f[n + m]
  <2> HIDE DEF f
  <2>. QED
    BY <1>5, <1>9, TotalIsBehind
<1>. QED
  <2> HIDE DEF f
  <2>. QED
    BY <1>1, <1>2, <1>3, <1>4, <1>5, <1>10, <1>11, <1>12
-----------------------------------------------------------------------------
(* Texts.  A text carries a set when its notes are of some others, it ends   *)
(* with no blank line, and what it does not show of the set is counted       *)
(* behind it.                                                                *)

Shown(s) == {s[k].id : k \in DOMAIN s} \ {0}
Ended(s) == s # <<>> => s[Len(s)] # Blank

Carries(s, S, A) ==
    /\ s \in Seq(Lines) /\ Ended(s) /\ Shown(s) \subseteq A
    /\ IsFiniteSet(S) /\ Cardinality(S \ Shown(s)) <= Behind(s)

LEMMA LinesAre ==
    /\ Blank \in Lines /\ Blank.id = 0 /\ Blank.more = 0 /\ Blank.kind = "blank"
    /\ \A h \in Kinds : Heading(h) \in Lines /\ Heading(h).id = 0 /\ Heading(h).more = 0
                         /\ (h # "blank" => Heading(h) # Blank)
    /\ \A i \in Nat : noteLine(i) \in Lines /\ noteLine(i).id = i /\ noteLine(i).more = 0
                      /\ noteLine(i) # Blank
    /\ \A n \in Nat : MoreLine(n) \in Lines /\ MoreLine(n).id = 0 /\ MoreLine(n).more = n
                      /\ MoreLine(n) # Blank
<1>1. Blank \in Lines /\ Blank.id = 0 /\ Blank.more = 0 /\ Blank.kind = "blank"
  BY DEF Blank, Lines, Kinds
<1>2. ASSUME NEW b \in Lines, NEW h \in Kinds
      PROVE  LET l == [b EXCEPT !.kind = h]
             IN l \in Lines /\ l.kind = h /\ l.id = b.id /\ l.more = b.more
  BY DEF Lines, Kinds
<1>3. ASSUME NEW b \in Lines, NEW i \in Nat
      PROVE  LET l == [b EXCEPT !.kind = "note", !.id = i]
             IN l \in Lines /\ l.kind = "note" /\ l.id = i /\ l.more = b.more
  BY DEF Lines, Kinds
<1>4. ASSUME NEW b \in Lines, NEW n \in Nat
      PROVE  LET l == [b EXCEPT !.kind = "more", !.more = n]
             IN l \in Lines /\ l.kind = "more" /\ l.id = b.id /\ l.more = n
  BY DEF Lines, Kinds
<1>5. ASSUME NEW h \in Kinds
      PROVE  /\ Heading(h) \in Lines /\ Heading(h).id = 0 /\ Heading(h).more = 0
             /\ h # "blank" => Heading(h) # Blank
  BY <1>1, <1>2 DEF Heading
<1>6. ASSUME NEW i \in Nat
      PROVE  /\ noteLine(i) \in Lines /\ noteLine(i).id = i /\ noteLine(i).more = 0
             /\ noteLine(i) # Blank
  BY <1>1, <1>3 DEF noteLine
<1>7. ASSUME NEW n \in Nat
      PROVE  /\ MoreLine(n) \in Lines /\ MoreLine(n).id = 0 /\ MoreLine(n).more = n
             /\ MoreLine(n) # Blank
  BY <1>1, <1>4 DEF MoreLine
<1>. QED
  BY <1>1, <1>5, <1>6, <1>7

LEMMA NoLines == <<>> \in Seq(Lines) /\ Len(<<>>) = 0 /\ Ended(<<>>)
<1>1. <<>> \in Seq(Lines) /\ Len(<<>>) = 0
  OBVIOUS
<1>2. Ended(<<>>)
  BY Zenon DEF Ended
<1>. QED
  BY <1>1, <1>2

LEMMA ShowsNothing ==
    ASSUME NEW s \in Seq(Lines), \A k \in 1 .. Len(s) : s[k].id = 0
    PROVE  Shown(s) = {}
<1>1. DOMAIN s = 1 .. Len(s)
  OBVIOUS
<1>. QED
  BY <1>1 DEF Shown

\* They show what each shows.
LEMMA LinesJoin ==
    ASSUME NEW s \in Seq(Lines), NEW t \in Seq(Lines)
    PROVE  /\ s \o t \in Seq(Lines) /\ Shown(s \o t) = Shown(s) \cup Shown(t)
           /\ Ended(t) /\ (Ended(s) \/ t # <<>>) => Ended(s \o t)
<1>1. PICK n \in Nat : n = Len(s)
  OBVIOUS
<1>2. PICK m \in Nat : m = Len(t)
  OBVIOUS
<1>3. PICK b : b = s \o t
  OBVIOUS
<1>4. /\ b \in Seq(Lines) /\ Len(b) = n + m
      /\ \A k \in 1 .. n : b[k] = s[k]
      /\ \A k \in 1 .. m : b[n + k] = t[k]
  BY <1>1, <1>2, <1>3, Joined
<1>5. DOMAIN s = 1 .. n /\ DOMAIN t = 1 .. m /\ DOMAIN b = 1 .. n + m
  BY <1>1, <1>2, <1>4
<1>6. \A k \in 1 .. n + m : k \in 1 .. n \/ \E j \in 1 .. m : k = n + j
  <2> SUFFICES ASSUME NEW k \in 1 .. n + m, k \notin 1 .. n PROVE \E j \in 1 .. m : k = n + j
    OBVIOUS
  <2>1. k - n \in 1 .. m /\ k = n + (k - n)
    BY <1>1, <1>2
  <2>. QED
    BY <2>1
<1>7. \A j \in 1 .. m : n + j \in 1 .. n + m
  BY <1>1, <1>2
<1>8. \A k \in 1 .. n : k \in 1 .. n + m
  BY <1>1, <1>2
<1>9. Shown(b) = Shown(s) \cup Shown(t)
  <2>1. ASSUME NEW i, i \in Shown(b) PROVE i \in Shown(s) \cup Shown(t)
    <3>1. PICK k \in 1 .. n + m : i = b[k].id /\ i # 0
      BY <2>1, <1>5 DEF Shown
    <3>. QED
      BY <3>1, <1>4, <1>5, <1>6 DEF Shown
  <2>2. ASSUME NEW i, i \in Shown(s) PROVE i \in Shown(b)
    <3>1. PICK k \in 1 .. n : i = s[k].id /\ i # 0
      BY <2>2, <1>5 DEF Shown
    <3>. QED
      BY <3>1, <1>4, <1>5, <1>8 DEF Shown
  <2>3. ASSUME NEW i, i \in Shown(t) PROVE i \in Shown(b)
    <3>1. PICK k \in 1 .. m : i = t[k].id /\ i # 0
      BY <2>3, <1>5 DEF Shown
    <3>. QED
      BY <3>1, <1>4, <1>5, <1>7 DEF Shown
  <2>. QED
    BY <2>1, <2>2, <2>3
<1>10. Ended(t) /\ (Ended(s) \/ t # <<>>) => Ended(b)
  <2>1. CASE m = 0
    <3>1. t = <<>> /\ n + m = n
      BY <2>1, <1>1, <1>2
    <3>2. Ended(s) /\ b # <<>> => b[n] # Blank
      <4>1. b # <<>> => n \in 1 .. n
        BY <3>1, <1>1, <1>4
      <4>2. b # <<>> => s # <<>>
        BY <3>1, <1>1, <1>4
      <4>. QED
        BY <4>1, <4>2, <1>1, <1>4 DEF Ended
    <3>. QED
      BY <3>1, <3>2, <1>4 DEF Ended
  <2>2. CASE m # 0
    <3>1. t # <<>> /\ m \in 1 .. m
      BY <2>2, <1>2
    <3>. QED
      BY <3>1, <1>2, <1>4 DEF Ended
  <2>. QED
    BY <2>1, <2>2
<1>. QED
  BY <1>3, <1>4, <1>9, <1>10

LEMMA NoMoreThan ==
    ASSUME NEW A, NEW B, NEW X, IsFiniteSet(A), IsFiniteSet(B), X \subseteq A \cup B
    PROVE  /\ IsFiniteSet(X) /\ Cardinality(X) \in Nat
           /\ Cardinality(A) \in Nat /\ Cardinality(B) \in Nat
           /\ Cardinality(X) <= Cardinality(A) + Cardinality(B)
<1>1. /\ IsFiniteSet(A \cup B)
      /\ Cardinality(A \cup B) = Cardinality(A) + Cardinality(B) - Cardinality(A \cap B)
  BY FS_Union
<1>2. IsFiniteSet(X) /\ Cardinality(X) <= Cardinality(A \cup B)
  BY <1>1, FS_Subset
<1>3. IsFiniteSet(A \cap B)
  BY FS_Subset, A \cap B \in SUBSET A
<1>4. /\ Cardinality(X) \in Nat /\ Cardinality(A) \in Nat /\ Cardinality(B) \in Nat
      /\ Cardinality(A \cap B) \in Nat
  BY <1>2, <1>3, FS_CardinalityType
<1>. QED
  BY <1>1, <1>2, <1>4

\* They carry what each carries.
LEMMA CarriesJoin ==
    ASSUME NEW s, NEW t, NEW S, NEW T, NEW A, Carries(s, S, A), Carries(t, T, A)
    PROVE  Carries(s \o t, S \cup T, A)
<1>1. /\ s \in Seq(Lines) /\ t \in Seq(Lines) /\ IsFiniteSet(S) /\ IsFiniteSet(T)
      /\ Ended(s) /\ Ended(t) /\ Shown(s) \subseteq A /\ Shown(t) \subseteq A
      /\ Cardinality(S \ Shown(s)) <= Behind(s) /\ Cardinality(T \ Shown(t)) <= Behind(t)
  BY DEF Carries
<1>2. /\ s \o t \in Seq(Lines) /\ Shown(s \o t) = Shown(s) \cup Shown(t) /\ Ended(s \o t)
  BY <1>1, LinesJoin
<1>3. /\ Behind(s \o t) = Behind(s) + Behind(t) /\ Behind(s) \in Nat /\ Behind(t) \in Nat
  BY <1>1, BehindJoined
<1>4. IsFiniteSet(S \ Shown(s)) /\ IsFiniteSet(T \ Shown(t)) /\ IsFiniteSet(S \cup T)
  BY <1>1, FS_Difference, FS_Union
<1>5. (S \cup T) \ Shown(s \o t) \subseteq (S \ Shown(s)) \cup (T \ Shown(t))
  BY <1>2
<1>6. /\ Cardinality((S \cup T) \ Shown(s \o t)) \in Nat
      /\ Cardinality(S \ Shown(s)) \in Nat /\ Cardinality(T \ Shown(t)) \in Nat
      /\ Cardinality((S \cup T) \ Shown(s \o t))
            <= Cardinality(S \ Shown(s)) + Cardinality(T \ Shown(t))
  BY <1>4, <1>5, NoMoreThan
<1>7. Cardinality((S \cup T) \ Shown(s \o t)) <= Behind(s \o t)
  BY <1>1, <1>3, <1>6
<1>8. Shown(s \o t) \subseteq A
  BY <1>1, <1>2
<1>. QED
  BY <1>2, <1>4, <1>7, <1>8 DEF Carries

LEMMA NothingCarries ==
    ASSUME NEW s \in Seq(Lines), NEW A, Ended(s),
           \A k \in 1 .. Len(s) : s[k].more = 0 /\ (s[k].id # 0 => s[k].id \in A)
    PROVE  Carries(s, {}, A)
<1>1. Behind(s) = 0
  BY BehindNothing
<1>2. Shown(s) \subseteq A
  BY DEF Shown
<1>3. {} \ Shown(s) = {}
  OBVIOUS
<1>. QED
  BY <1>1, <1>2, <1>3, FS_EmptySet DEF Carries

\* A section shows the first of what it lists, and counts the others.
LEMMA SectionCarries ==
    ASSUME NEW S, S \subseteq Nat \ {0}, IsFiniteSet(S), NEW ids, Lists(ids, S),
           NEW limit \in Nat, NEW A, S \subseteq A
    PROVE  Carries(Section(ids, limit), S, A)
<1>1. PICK n \in Nat : n = Cardinality(S)
  BY DEF Lists
<1>2. /\ ids \in Seq(S) /\ Len(ids) = n /\ DOMAIN ids = 1 .. n
      /\ \A k \in 1 .. n : ids[k] \in S
      /\ \A a \in S : \E k \in 1 .. n : ids[k] = a
  BY <1>1 DEF Lists
<1>3. CASE n = 0
  <2>1. ids = <<>> /\ S = {}
    BY <1>2, <1>3
  <2>2. Section(ids, limit) = <<>>
    BY <2>1 DEF Section
  <2>3. Carries(<<>>, {}, A)
    <3>1. PICK s : s = <<>>
      OBVIOUS
    <3>2. s \in Seq(Lines) /\ Len(s) = 0 /\ Ended(s)
      BY <3>1, NoLines
    <3>3. 1 .. Len(s) = {}
      BY <3>2
    <3>. QED
      BY <3>1, <3>2, <3>3, NothingCarries
  <2>. QED
    BY <2>1, <2>2, <2>3
<1>4. CASE n # 0
  <2>1. PICK c : c = IF n <= limit THEN n ELSE limit
    OBVIOUS
  <2>2. c \in 0 .. n /\ {x \in 1 .. n : x <= limit} = 1 .. c
    BY <1>1, <2>1
  <2>3. PICK head : head = <<Blank, Heading("heading"), Blank>>
    OBVIOUS
  <2>4. PICK mid : mid = [k \in 1 .. c |-> noteLine(ids[k])]
    OBVIOUS
  <2>5. PICK tail : tail = IF n > limit THEN <<MoreLine(n - limit)>> ELSE <<>>
    OBVIOUS
  <2>6. Section(ids, limit) = (head \o mid) \o tail
    <3>1. ids # <<>>
      BY <1>2, <1>4
    <3>2. mid = [k \in {x \in DOMAIN ids : x <= limit} |-> noteLine(ids[k])]
      BY <1>2, <2>2, <2>4
    <3>. QED
      BY <3>1, <3>2, <2>3, <2>5, <1>2 DEF Section
  <2>7. /\ head \in Seq(Lines) /\ Behind(head) = 0 /\ Shown(head) = {}
    <3>1. PICK h : h = Heading("heading")
      OBVIOUS
    <3>2. Blank \in Lines /\ h \in Lines /\ Blank.more = 0 /\ Blank.id = 0 /\ h.more = 0 /\ h.id = 0
      <4>1. "heading" \in Kinds
        BY DEF Kinds
      <4>. QED
        BY <3>1, <4>1, LinesAre
    <3>3. /\ head \in Seq(Lines) /\ Len(head) = 3
          /\ head[1] = Blank /\ head[2] = h /\ head[3] = Blank
      BY <3>1, <3>2, <2>3
    <3>4. \A k \in 1 .. 3 : k = 1 \/ k = 2 \/ k = 3
      OBVIOUS
    <3>5. \A k \in 1 .. 3 : head[k].more = 0 /\ head[k].id = 0
      BY <3>2, <3>3, <3>4
    <3>. QED
      BY <3>3, <3>5, BehindNothing, ShowsNothing
  <2>8. /\ mid \in Seq(Lines) /\ Len(mid) = c /\ Behind(mid) = 0
        /\ Shown(mid) = {ids[k] : k \in 1 .. c}
    <3>1. \A k \in 1 .. c : k \in 1 .. n /\ ids[k] \in Nat \ {0}
      BY <1>2, <2>2
    <3>2. \A k \in 1 .. c : /\ mid[k] \in Lines /\ mid[k].id = ids[k] /\ mid[k].more = 0
      BY <3>1, <2>4, LinesAre
    <3>3. mid \in Seq(Lines) /\ Len(mid) = c /\ DOMAIN mid = 1 .. c
      <4>1. DOMAIN mid = 1 .. c /\ c \in Nat
        BY <2>2, <2>4
      <4>2. mid \in [1 .. c -> Lines]
        BY <2>4, <3>2
      <4>. QED
        BY <4>1, <4>2
    <3>4. Shown(mid) = {ids[k] : k \in 1 .. c}
      BY <3>1, <3>2, <3>3 DEF Shown
    <3>. QED
      BY <3>2, <3>3, <3>4, BehindNothing
  <2>9. /\ tail \in Seq(Lines) /\ Ended(tail) /\ Shown(tail) = {}
        /\ Behind(tail) = n - c /\ (c = 0 => tail # <<>>)
    <3>1. CASE n > limit
      <4>1. n - limit \in Nat /\ c = limit
        BY <1>1, <2>1, <3>1
      <4>2. PICK l \in Lines : /\ l = MoreLine(n - limit) /\ l.id = 0 /\ l.more = n - limit
                               /\ l # Blank
        BY <4>1, LinesAre
      <4>3. tail = <<l>>
        BY <2>5, <3>1, <4>2
      <4>4. tail \in Seq(Lines) /\ Len(tail) = 1 /\ tail[1] = l /\ DOMAIN tail = 1 .. 1
            /\ tail # <<>>
        BY <4>3
      <4>5. Behind(tail) = n - c
        BY <4>1, <4>2, <4>3, BehindLast
      <4>. QED
        BY <4>2, <4>4, <4>5 DEF Ended, Shown
    <3>2. CASE ~(n > limit)
      <4>1. tail = <<>> /\ c = n /\ n - c = 0
        BY <1>1, <2>1, <2>5, <3>2
      <4>2. tail \in Seq(Lines) /\ Len(tail) = 0 /\ Ended(tail)
        BY <4>1, NoLines
      <4>3. Behind(tail) = 0 /\ Shown(tail) = {}
        <5>1. 1 .. Len(tail) = {}
          BY <4>2
        <5>. QED
          BY <4>2, <5>1, BehindNothing, ShowsNothing
      <4>. QED
        BY <4>1, <4>2, <4>3, <1>4
    <3>. QED
      BY <3>1, <3>2
  <2>10. Ended(mid \o tail) /\ mid \o tail \in Seq(Lines) /\ Shown(mid \o tail) = Shown(mid)
    <3>1. Ended(mid) \/ tail # <<>>
      <4>1. CASE c = 0
        BY <4>1, <2>9
      <4>2. CASE c # 0
        <5>1. mid[c] = noteLine(ids[c]) /\ ids[c] \in Nat
          <6>1. c \in 1 .. c /\ c \in 1 .. n
            BY <4>2, <1>1, <2>2
          <6>. QED
            BY <6>1, <1>2, <2>4
        <5>. QED
          BY <5>1, <2>8, LinesAre DEF Ended
      <4>. QED
        BY <4>1, <4>2
    <3>. QED
      BY <3>1, <2>8, <2>9, LinesJoin
  <2>11. PICK s : s = Section(ids, limit)
    OBVIOUS
  <2>12. s \in Seq(Lines) /\ Ended(s) /\ Shown(s) = {ids[k] : k \in 1 .. c}
    <3>1. head \o mid \in Seq(Lines) /\ Shown(head \o mid) = Shown(mid)
      BY <2>7, <2>8, LinesJoin
    <3>2. Ended(head \o mid) \/ tail # <<>>
      <4>1. CASE c = 0
        BY <4>1, <2>9
      <4>2. CASE c # 0
        <5>1. mid[c] = noteLine(ids[c]) /\ ids[c] \in Nat /\ mid # <<>>
          <6>1. c \in 1 .. c /\ c \in 1 .. n
            BY <4>2, <1>1, <2>2
          <6>2. mid # <<>>
            BY <2>8, <4>2
          <6>. QED
            BY <6>1, <6>2, <1>2, <2>4
        <5>2. Ended(mid)
          BY <5>1, <2>8, LinesAre DEF Ended
        <5>. QED
          BY <5>1, <5>2, <2>7, <2>8, LinesJoin
      <4>. QED
        BY <4>1, <4>2
    <3>. QED
      <4>1. PICK q : q = head \o mid
        OBVIOUS
      <4>2. /\ q \in Seq(Lines) /\ Shown(q) = Shown(mid) /\ (Ended(q) \/ tail # <<>>)
            /\ s = q \o tail
        BY <4>1, <3>1, <3>2, <2>6, <2>11
      <4>3. s \in Seq(Lines) /\ Ended(s) /\ Shown(s) = Shown(q) \cup Shown(tail)
        BY <4>2, <2>9, LinesJoin
      <4>. QED
        BY <4>2, <4>3, <2>8, <2>9
  <2>13. Behind(s) = n - c
    <3>1. head \o mid \in Seq(Lines) /\ Behind(head \o mid) = 0
      BY <2>7, <2>8, LinesJoin, BehindJoined
    <3>. QED
      <4>1. PICK q : q = head \o mid
        OBVIOUS
      <4>2. q \in Seq(Lines) /\ Behind(q) = 0 /\ s = q \o tail
        BY <4>1, <3>1, <2>6, <2>11
      <4>3. Behind(s) = Behind(q) + Behind(tail)
        BY <4>2, <2>9, BehindJoined
      <4>. QED
        BY <4>2, <4>3, <1>1, <2>2, <2>9
  <2>14. Cardinality(S \ Shown(s)) <= n - c
    <3> DEFINE R == S \ Shown(s)
               at == [a \in R |-> CHOOSE k \in 1 .. n : ids[k] = a]
    <3>1. \A a \in R : at[a] \in 1 .. n /\ ids[at[a]] = a
      BY <1>2
    <3>2. \A a \in R : at[a] \in c + 1 .. n
      <4>1. \A a \in R : at[a] \notin 1 .. c
        <5> HIDE DEF at
        <5>. QED
          BY <3>1, <2>12
      <4> HIDE DEF at, R
      <4>. QED
        BY <3>1, <4>1, <1>1, <2>2
    <3>3. at \in Injection(R, c + 1 .. n)
      <4>1. at \in [R -> c + 1 .. n]
        BY <3>2
      <4>2. \A a, b \in R : at[a] = at[b] => a = b
        <5> HIDE DEF at, R
        <5>. QED
          BY <3>1
      <4> HIDE DEF at, R
      <4>. QED
        BY <4>1, <4>2 DEF Injection, IsInjective
    <3>4. IsFiniteSet(c + 1 .. n) /\ Cardinality(c + 1 .. n) = n - c
      <4>1. c + 1 \in Int /\ n \in Int
        BY <1>1, <2>2
      <4>2. IsFiniteSet(c + 1 .. n)
            /\ Cardinality(c + 1 .. n) = IF c + 1 > n THEN 0 ELSE n - (c + 1) + 1
        BY <4>1, FS_Interval
      <4>. QED
        BY <4>2, <1>1, <2>2
    <3> HIDE DEF at, R
    <3>5. Cardinality(R) <= n - c
      BY <3>3, <3>4, FS_Injection
    <3>. QED
      BY <3>5 DEF R
  <2>15. Shown(s) \subseteq A
    BY <1>2, <2>2, <2>12
  <2>. QED
    BY <2>11, <2>12, <2>13, <2>14, <2>15 DEF Carries
<1>. QED
  BY <1>3, <1>4

-----------------------------------------------------------------------------
(* The body                                                                 *)

\* Validated notes before the others, each once.
LEMMA ValidatedLists ==
    ASSUME NEW S \in SUBSET DOMAIN NoteOf
    PROVE  Lists(Validated(S), S)
<1> DEFINE A == {i \in S : NoteOf[i].validated}
           B == {i \in S : ~NoteOf[i].validated}
<1>1. IsFiniteSet(A) /\ IsFiniteSet(B) /\ A \in SUBSET DOMAIN NoteOf /\ B \in SUBSET DOMAIN NoteOf
      /\ A \subseteq S /\ B \subseteq S
  BY BriefingAssumption, FS_Subset
<1>2. A \cup B = S /\ A \cap B = {}
  OBVIOUS
<1>3. PICK s : s = Latest(A)
  OBVIOUS
<1>4. PICK t : t = Latest(B)
  OBVIOUS
<1>5. Validated(S) = s \o t
  BY <1>3, <1>4 DEF Validated
<1> HIDE DEF A, B
<1>6. Lists(s, A) /\ Lists(t, B)
  BY <1>1, <1>3, <1>4, LatestLists
<1>7. PICK n \in Nat : n = Cardinality(A)
  BY <1>6 DEF Lists
<1>8. PICK m \in Nat : m = Cardinality(B)
  BY <1>6 DEF Lists
<1>9. Cardinality(S) = n + m
  <2>1. Cardinality(A \cup B) = Cardinality(A) + Cardinality(B) - Cardinality(A \cap B)
    BY <1>1, FS_Union
  <2>2. Cardinality(A \cap B) = 0
    BY <1>2, FS_EmptySet
  <2>3. Cardinality(A \cup B) = n + m - 0
    BY <2>1, <2>2, <1>7, <1>8
  <2>4. n + m - 0 = n + m
    BY <1>7, <1>8
  <2>. QED
    BY <2>3, <2>4, <1>2
<1>10. /\ s \in Seq(S) /\ t \in Seq(S) /\ Len(s) = n /\ Len(t) = m
       /\ \A k \in 1 .. n : s[k] \in A
       /\ \A k \in 1 .. m : t[k] \in B
       /\ \A a \in A : \E k \in 1 .. n : s[k] = a
       /\ \A a \in B : \E k \in 1 .. m : t[k] = a
  <2>1. s \in [1 .. n -> A] /\ t \in [1 .. m -> B]
    BY <1>6, <1>7, <1>8 DEF Lists
  <2>2. s \in [1 .. n -> S] /\ t \in [1 .. m -> S]
    BY <2>1, <1>1
  <2>. QED
    BY <2>1, <2>2, <1>6, <1>7, <1>8 DEF Lists
<1>11. PICK b : b = s \o t
  OBVIOUS
<1>12. /\ b \in Seq(S) /\ Len(b) = n + m
       /\ \A k \in 1 .. n : b[k] = s[k]
       /\ \A k \in 1 .. m : b[n + k] = t[k]
  <2>1. /\ s \o t \in Seq(S) /\ Len(s \o t) = n + m
        /\ \A k \in 1 .. n : (s \o t)[k] = s[k]
        /\ \A k \in 1 .. m : (s \o t)[n + k] = t[k]
    <3>1. s \in Seq(S) /\ t \in Seq(S) /\ n = Len(s) /\ m = Len(t)
      BY <1>10
    <3>. QED
      BY <3>1, Joined
  <2>. QED
    BY <2>1, <1>11
<1>13. b \in [1 .. n + m -> S]
  BY <1>7, <1>8, <1>12
<1>14. ASSUME NEW a \in S PROVE \E k \in 1 .. n + m : b[k] = a
  <2>1. CASE a \in A
    <3>1. PICK k \in 1 .. n : s[k] = a
      BY <2>1, <1>10
    <3>2. k \in 1 .. n + m
      BY <1>7, <1>8
    <3>. QED
      BY <3>1, <3>2, <1>12
  <2>2. CASE a \in B
    <3>1. PICK k \in 1 .. m : t[k] = a
      BY <2>2, <1>10
    <3>2. n + k \in 1 .. n + m
      BY <1>7, <1>8
    <3>. QED
      BY <3>1, <3>2, <1>12
  <2>. QED
    BY <2>1, <2>2, <1>2
<1>. QED
  BY <1>5, <1>7, <1>8, <1>9, <1>11, <1>13, <1>14 DEF Lists

Numbered == DOMAIN NoteOf \subseteq Nat \ {0} /\ IsFiniteSet(DOMAIN NoteOf)

LEMMA NotesAreNumbered == Numbered
BY BriefingAssumption DEF Numbered

LEMMA NewestIsThere ==
    ASSUME NEW S \in SUBSET DOMAIN NoteOf, S # {}
    PROVE  Newest(S) \in S
<1> DEFINE before == {p \in S \X S : \/ NoteOf[p[1]].touched > NoteOf[p[2]].touched
                                     \/ NoteOf[p[1]].touched = NoteOf[p[2]].touched /\ p[1] > p[2]}
<1>1. \A a, b \in S : <<a, b>> \in before <=> \/ NoteOf[a].touched > NoteOf[b].touched
                                              \/ NoteOf[a].touched = NoteOf[b].touched /\ a > b
  OBVIOUS
<1>2. \A a \in S : a \in Nat /\ NoteOf[a].touched \in Nat
  BY BriefingAssumption
<1>3. IsFiniteSet(S)
  BY BriefingAssumption, FS_Subset
<1>4. Newest(S) = InOrder(S, before)[1]
  BY DEF Newest
<1> HIDE DEF before
<1>5. Strict(S, before)
  BY <1>1, <1>2 DEF Strict
<1>6. Lists(InOrder(S, before), S)
  BY <1>3, <1>5, OrderLists
<1>7. PICK s : s = InOrder(S, before)
  OBVIOUS
<1>8. PICK n \in Nat : /\ n = Cardinality(S) /\ s \in [1 .. n -> S]
                       /\ \A a \in S : \E k \in 1 .. n : s[k] = a
  BY <1>6, <1>7 DEF Lists
<1>9. 1 \in 1 .. n
  BY <1>8
<1>. QED
  BY <1>4, <1>7, <1>8, <1>9

Working == {"open", "decision", "learning"}

LEMMA CarriesNothing == ASSUME NEW A PROVE Carries(<<>>, {}, A)
<1>1. PICK s : s = <<>>
  OBVIOUS
<1>2. s \in Seq(Lines) /\ Len(s) = 0 /\ Ended(s)
  BY <1>1, NoLines
<1>3. 1 .. Len(s) = {}
  BY <1>2
<1>. QED
  BY <1>1, <1>2, <1>3, NothingCarries

\* The newest summary alone, under its heading.
LEMMA StandsCarries ==
    ASSUME NEW S \in SUBSET DOMAIN NoteOf, NEW A, S \subseteq A, NEW s,
           s = IF S = {} THEN <<>> ELSE <<Blank, Heading("stands"), Blank, noteLine(Newest(S))>>
    PROVE  Carries(s, {}, A) /\ (S # {} => \E i \in S : i \in Shown(s))
<1>1. CASE S = {}
  BY <1>1, CarriesNothing
<1>2. CASE S # {}
  <2>1. PICK i \in S : i = Newest(S)
    BY <1>2, NewestIsThere
  <2>2. i \in Nat \ {0}
    BY NotesAreNumbered DEF Numbered
  <2>3. PICK h : h = Heading("stands")
    OBVIOUS
  <2>4. PICK l : l = noteLine(i)
    OBVIOUS
  <2>5. "stands" \in Kinds
    BY DEF Kinds
  <2>6. /\ Blank \in Lines /\ Blank.id = 0 /\ Blank.more = 0
        /\ h \in Lines /\ h.id = 0 /\ h.more = 0
        /\ l \in Lines /\ l.id = i /\ l.more = 0 /\ l # Blank
    BY <2>2, <2>3, <2>4, <2>5, LinesAre
  <2>7. s = <<Blank, h, Blank, l>>
    BY <1>2, <2>1, <2>3, <2>4
  <2>8. /\ s \in Seq(Lines) /\ Len(s) = 4 /\ DOMAIN s = 1 .. 4
        /\ s[1] = Blank /\ s[2] = h /\ s[3] = Blank /\ s[4] = l
    BY <2>6, <2>7
  <2>9. \A k \in 1 .. 4 : k = 1 \/ k = 2 \/ k = 3 \/ k = 4
    OBVIOUS
  <2>10. \A k \in 1 .. 4 : s[k].more = 0 /\ (s[k].id # 0 => s[k].id \in A)
    BY <2>6, <2>8, <2>9
  <2>11. Ended(s)
    BY <2>6, <2>8 DEF Ended
  <2>12. i \in Shown(s)
    <3>1. 4 \in DOMAIN s /\ s[4].id = i /\ i # 0
      BY <2>2, <2>6, <2>8
    <3>. QED
      BY <3>1 DEF Shown
  <2>. QED
    BY <2>8, <2>10, <2>11, <2>12, NothingCarries
<1>. QED
  BY <1>1, <1>2

LimitFields == {"open", "decisions", "learnings", "global", "budget"}

\* The sections of a project carry its notes, and show the newest summary.
LEMMA ProjectCarries ==
    ASSUME NEW slug, NEW lim \in [LimitFields -> Nat], NEW A, Safe \subseteq DOMAIN NoteOf,
           {i \in Safe : NoteOf[i].project = slug} \subseteq A
    PROVE  /\ Carries(projectSections(slug, lim), OfType(slug, Working), A)
           /\ OfType(slug, {"summary"}) # {}
                 => \E i \in OfType(slug, {"summary"}) : i \in Shown(projectSections(slug, lim))
<1>1. \A types : OfType(slug, types) \in SUBSET DOMAIN NoteOf /\ OfType(slug, types) \subseteq A
  BY DEF OfType
<1>2. /\ lim.open \in Nat /\ lim.decisions \in Nat /\ lim.learnings \in Nat
  BY DEF LimitFields
<1>3. PICK S : S = OfType(slug, {"summary"})
  OBVIOUS
<1>4. PICK O : O = OfType(slug, {"open"})
  OBVIOUS
<1>5. PICK D : D = OfType(slug, {"decision"})
  OBVIOUS
<1>6. PICK L : L = OfType(slug, {"learning"})
  OBVIOUS
<1>7. PICK st : st = IF S = {} THEN <<>> ELSE <<Blank, Heading("stands"), Blank, noteLine(Newest(S))>>
  OBVIOUS
<1>8. PICK so : so = Section(Validated(O), lim.open)
  OBVIOUS
<1>9. PICK sd : sd = Section(Validated(D), lim.decisions)
  OBVIOUS
<1>10. PICK sl : sl = Section(Validated(L), lim.learnings)
  OBVIOUS
<1>11. projectSections(slug, lim) = ((st \o so) \o sd) \o sl
  BY <1>3, <1>4, <1>5, <1>6, <1>7, <1>8, <1>9, <1>10 DEF projectSections
<1>12. Carries(st, {}, A) /\ (S # {} => \E i \in S : i \in Shown(st))
  BY <1>1, <1>3, <1>7, StandsCarries
<1>13. ASSUME NEW T \in SUBSET DOMAIN NoteOf, T \subseteq A, NEW n \in Nat
       PROVE  Carries(Section(Validated(T), n), T, A)
  <2>1. T \subseteq Nat \ {0} /\ IsFiniteSet(T)
    BY NotesAreNumbered, FS_Subset DEF Numbered
  <2>2. Lists(Validated(T), T)
    BY ValidatedLists
  <2>. QED
    BY <1>13, <2>1, <2>2, SectionCarries
<1>14. Carries(so, O, A) /\ Carries(sd, D, A) /\ Carries(sl, L, A)
  BY <1>1, <1>2, <1>4, <1>5, <1>6, <1>8, <1>9, <1>10, <1>13
<1>15. PICK a : a = st \o so
  OBVIOUS
<1>16. PICK b : b = a \o sd
  OBVIOUS
<1>17. PICK c : c = b \o sl
  OBVIOUS
<1>18. Carries(a, {} \cup O, A)
  BY <1>12, <1>14, <1>15, CarriesJoin
<1>19. Carries(b, ({} \cup O) \cup D, A)
  BY <1>14, <1>16, <1>18, CarriesJoin
<1>20. Carries(c, (({} \cup O) \cup D) \cup L, A)
  BY <1>14, <1>17, <1>19, CarriesJoin
<1>21. (({} \cup O) \cup D) \cup L = OfType(slug, Working)
  BY <1>4, <1>5, <1>6 DEF OfType, Working
<1>22. Shown(st) \subseteq Shown(c)
  <2>1. /\ st \in Seq(Lines) /\ so \in Seq(Lines) /\ sd \in Seq(Lines) /\ sl \in Seq(Lines)
        /\ a \in Seq(Lines) /\ b \in Seq(Lines)
    BY <1>12, <1>14, <1>18, <1>19 DEF Carries
  <2>2. Shown(a) = Shown(st) \cup Shown(so)
    BY <2>1, <1>15, LinesJoin
  <2>3. Shown(b) = Shown(a) \cup Shown(sd)
    BY <2>1, <1>16, LinesJoin
  <2>4. Shown(c) = Shown(b) \cup Shown(sl)
    BY <2>1, <1>17, LinesJoin
  <2>. QED
    BY <2>2, <2>3, <2>4
<1>23. projectSections(slug, lim) = c
  BY <1>11, <1>15, <1>16, <1>17
<1>. QED
  BY <1>3, <1>12, <1>20, <1>21, <1>22, <1>23

LEMMA IdentityCarries ==
    ASSUME NEW card, NEW A
    PROVE  /\ Carries(identityLines(card), {}, A)
           /\ Carries(<<Blank, Heading("project")>>, {}, A)
<1>1. PICK h : h = Heading("identity")
  OBVIOUS
<1>2. PICK c : c = Heading("card")
  OBVIOUS
<1>3. PICK p : p = Heading("project")
  OBVIOUS
<1>4. "identity" \in Kinds /\ "card" \in Kinds /\ "project" \in Kinds
  BY DEF Kinds
<1>5. /\ Blank \in Lines /\ Blank.id = 0 /\ Blank.more = 0
      /\ h \in Lines /\ h.id = 0 /\ h.more = 0
      /\ c \in Lines /\ c.id = 0 /\ c.more = 0 /\ c # Blank
      /\ p \in Lines /\ p.id = 0 /\ p.more = 0 /\ p # Blank
  BY <1>1, <1>2, <1>3, <1>4, LinesAre
<1>6. Carries(<<Blank, h, Blank, c>>, {}, A)
  <2>1. PICK s : s = <<Blank, h, Blank, c>>
    OBVIOUS
  <2>2. /\ s \in Seq(Lines) /\ Len(s) = 4
        /\ s[1] = Blank /\ s[2] = h /\ s[3] = Blank /\ s[4] = c
    BY <1>5, <2>1
  <2>3. \A k \in 1 .. 4 : k = 1 \/ k = 2 \/ k = 3 \/ k = 4
    OBVIOUS
  <2>4. \A k \in 1 .. 4 : s[k].more = 0 /\ s[k].id = 0
    BY <1>5, <2>2, <2>3
  <2>5. Ended(s)
    BY <1>5, <2>2 DEF Ended
  <2>. QED
    BY <2>1, <2>2, <2>4, <2>5, NothingCarries
<1>7. Carries(<<Blank, p>>, {}, A)
  <2>1. PICK s : s = <<Blank, p>>
    OBVIOUS
  <2>2. /\ s \in Seq(Lines) /\ Len(s) = 2 /\ s[1] = Blank /\ s[2] = p
    BY <1>5, <2>1
  <2>3. \A k \in 1 .. 2 : k = 1 \/ k = 2
    OBVIOUS
  <2>4. \A k \in 1 .. 2 : s[k].more = 0 /\ s[k].id = 0
    BY <1>5, <2>2, <2>3
  <2>5. Ended(s)
    BY <1>5, <2>2 DEF Ended
  <2>. QED
    BY <2>1, <2>2, <2>4, <2>5, NothingCarries
<1>8. Carries(identityLines(card), {}, A)
  <2>1. CASE card = "filled"
    BY <2>1, <1>1, <1>2, <1>6 DEF identityLines
  <2>2. CASE card # "filled"
    BY <2>2, CarriesNothing DEF identityLines
  <2>. QED
    BY <2>1, <2>2
<1>. QED
  BY <1>3, <1>7, <1>8

\* What the body of a briefing has to do with.
InBody == (IF scan.slug = Slugless THEN {} ELSE OfType(scan.slug, Working))
          \cup OfType(GlobalProject, {"learning", "decision"})

SafeHere == {i \in Safe : NoteOf[i].project \in {scan.slug, GlobalProject}}

\* So does the body, with everyone's notes.
LEMMA BodyCarries ==
    ASSUME NEW card, NEW lim \in [LimitFields -> Nat], Safe \subseteq DOMAIN NoteOf
    PROVE  /\ Carries(Body(card, lim), InBody, SafeHere)
           /\ scan.slug # Slugless /\ OfType(scan.slug, {"summary"}) # {}
                 => \E i \in OfType(scan.slug, {"summary"}) : i \in Shown(Body(card, lim))
<1>1. PICK A : A = SafeHere
  OBVIOUS
<1>2. PICK G : G = OfType(GlobalProject, {"learning", "decision"})
  OBVIOUS
<1>3. PICK i0 : i0 = identityLines(card)
  OBVIOUS
<1>4. PICK p0 : p0 = <<Blank, Heading("project")>>
  OBVIOUS
<1>5. PICK q0 : q0 = IF scan.slug = Slugless THEN <<>> ELSE projectSections(scan.slug, lim)
  OBVIOUS
<1>6. PICK g0 : g0 = Section(Latest(G), lim.global)
  OBVIOUS
<1>7. PICK P : P = IF scan.slug = Slugless THEN {} ELSE OfType(scan.slug, Working)
  OBVIOUS
<1>8. Body(card, lim) = ((i0 \o p0) \o q0) \o g0
  BY <1>2, <1>3, <1>4, <1>5, <1>6 DEF Body
<1>9. Carries(i0, {}, A) /\ Carries(p0, {}, A)
  BY <1>3, <1>4, IdentityCarries
<1>10. Carries(q0, P, A)
  <2>1. CASE scan.slug = Slugless
    BY <2>1, <1>5, <1>7, CarriesNothing
  <2>2. CASE scan.slug # Slugless
    <3>1. {i \in Safe : NoteOf[i].project = scan.slug} \subseteq A
      BY <1>1 DEF SafeHere
    <3>. QED
      BY <2>2, <3>1, <1>5, <1>7, ProjectCarries
  <2>. QED
    BY <2>1, <2>2
<1>11. Carries(g0, G, A)
  <2>1. G \in SUBSET DOMAIN NoteOf /\ G \subseteq A
    BY <1>1, <1>2 DEF OfType, SafeHere
  <2>2. G \subseteq Nat \ {0} /\ IsFiniteSet(G)
    BY <2>1, NotesAreNumbered, FS_Subset DEF Numbered
  <2>3. Lists(Latest(G), G)
    BY <2>1, LatestLists
  <2>4. lim.global \in Nat
    BY DEF LimitFields
  <2>. QED
    BY <2>1, <2>2, <2>3, <2>4, <1>6, SectionCarries
<1>12. PICK a : a = i0 \o p0
  OBVIOUS
<1>13. PICK b : b = a \o q0
  OBVIOUS
<1>14. PICK c : c = b \o g0
  OBVIOUS
<1>15. Carries(a, {} \cup {}, A)
  BY <1>9, <1>12, CarriesJoin
<1>16. Carries(b, ({} \cup {}) \cup P, A)
  BY <1>10, <1>13, <1>15, CarriesJoin
<1>17. Carries(c, (({} \cup {}) \cup P) \cup G, A)
  BY <1>11, <1>14, <1>16, CarriesJoin
<1>18. (({} \cup {}) \cup P) \cup G = InBody
  BY <1>2, <1>7 DEF InBody
<1>19. Shown(q0) \subseteq Shown(c)
  <2>1. /\ a \in Seq(Lines) /\ b \in Seq(Lines) /\ q0 \in Seq(Lines) /\ g0 \in Seq(Lines)
    BY <1>10, <1>11, <1>15, <1>16 DEF Carries
  <2>2. Shown(b) = Shown(a) \cup Shown(q0)
    BY <2>1, <1>13, LinesJoin
  <2>3. Shown(c) = Shown(b) \cup Shown(g0)
    BY <2>1, <1>14, LinesJoin
  <2>. QED
    BY <2>2, <2>3
<1>20. scan.slug # Slugless /\ OfType(scan.slug, {"summary"}) # {}
          => \E i \in OfType(scan.slug, {"summary"}) : i \in Shown(q0)
  <2>1. {i \in Safe : NoteOf[i].project = scan.slug} \subseteq A
    BY <1>1 DEF SafeHere
  <2>. QED
    BY <2>1, <1>5, ProjectCarries
<1>21. Body(card, lim) = c
  BY <1>8, <1>12, <1>13, <1>14
<1>. QED
  BY <1>1, <1>17, <1>18, <1>19, <1>20, <1>21

-----------------------------------------------------------------------------
(* What is kept of the body, and what the cut takes                         *)

LEMMA NoLinesAreNoBytes ==
    ASSUME NEW room \in Nat
    PROVE  Bytes(<<>>) <= room
<1>1. PICK s : s = <<>>
  OBVIOUS
<1>2. Len(s) = 0 /\ DOMAIN s = {}
  BY <1>1
<1>3. {k \in DOMAIN s : s[k] = Blank} = {}
  BY <1>2
<1>4. Bytes(s) = 0 + LineBytes * (0 - 0)
  BY <1>2, <1>3, FS_EmptySet DEF Bytes
<1>5. LineBytes \in Nat
  BY BriefingAssumption
<1>6. LineBytes * (0 - 0) = 0
  BY <1>5
<1>. QED
  BY <1>1, <1>4, <1>6

\* What is kept of a body is a start of it.
LEMMA KeptIsAStart ==
    ASSUME NEW body \in Seq(Lines), NEW room \in Nat
    PROVE  \E k \in 0 .. Len(body) : Kept(body, room) = SubSeq(body, 1, k)
<1>1. PICK n \in Nat : n = Len(body)
  OBVIOUS
<1>2. CASE Bytes(body) <= room
  <2>1. Kept(body, room) = body
    BY <1>2 DEF Kept
  <2>2. SubSeq(body, 1, n) = body /\ n \in 0 .. n
    BY <1>1
  <2>. QED
    BY <1>1, <2>1, <2>2
<1>3. CASE ~(Bytes(body) <= room)
  <2>1. PICK fits : fits = CutPoints(body, room)
    OBVIOUS
  <2>2. 0 \in fits
    <3>1. SubSeq(body, 1, 0) = <<>> /\ 0 \in 0 .. Len(body)
      BY <1>1
    <3>. QED
      <4>1. Bytes(SubSeq(body, 1, 0)) <= room
        BY <3>1, NoLinesAreNoBytes
      <4>. QED
        BY <2>1, <3>1, <4>1 DEF CutPoints
  <2>3. fits \subseteq 0 .. n
    BY <1>1, <2>1 DEF CutPoints
  <2>4. \E k \in fits : \A j \in fits : j <= k
    <3> SUFFICES ASSUME \A k \in fits : \E j \in fits : ~(j <= k) PROVE FALSE
      OBVIOUS
    <3> DEFINE S == {k \in 0 .. n : \E j \in fits : k <= j}
    <3>1. 0 \in S
      BY <2>2, <1>1
    <3>2. ASSUME NEW k \in 0 .. n, k \in S, k < n PROVE k + 1 \in S
      <4>1. PICK j \in fits : k <= j
        BY <3>2
      <4>2. PICK i \in fits : ~(i <= j)
        OBVIOUS
      <4>3. i \in 0 .. n /\ j \in 0 .. n
        BY <2>3
      <4>4. k + 1 \in 0 .. n /\ k + 1 <= i
        <5>1. k < n
          BY <3>2
        <5> HIDE DEF S
        <5>. QED
          BY <1>1, <4>1, <4>2, <4>3, <5>1
      <4>. QED
        BY <4>4
    <3>3. \A k \in 0 .. n : k \in S
      <4> HIDE DEF S
      <4>. QED
        BY <1>1, <3>1, <3>2, NumbersUpTo
    <3>4. PICK j \in fits : n <= j
      BY <1>1, <3>3
    <3>5. PICK i \in fits : ~(i <= j)
      OBVIOUS
    <3>. QED
      BY <1>1, <2>3, <3>4, <3>5
  <2>5. PICK k : /\ k = CHOOSE i \in fits : \A j \in fits : j <= i
                 /\ truncateAtLine(body, room) = SubSeq(body, 1, k)
    BY <2>1 DEF truncateAtLine
  <2>6. k \in fits
    BY <2>4, <2>5
  <2>. QED
    BY <1>1, <1>3, <2>3, <2>5, <2>6 DEF Kept
<1>. QED
  BY <1>2, <1>3

LEMMA Rejoined ==
    ASSUME NEW s \in Seq(Lines), NEW a \in Seq(Lines), NEW b \in Seq(Lines),
           NEW k \in Nat, NEW m \in Nat, k = Len(a), m = Len(b), Len(s) = k + m,
           \A i \in 1 .. k : a[i] = s[i], \A i \in 1 .. m : b[i] = s[k + i]
    PROVE  s = a \o b
<1>1. PICK c : c = a \o b
  OBVIOUS
<1>2. /\ c \in Seq(Lines) /\ Len(c) = k + m
      /\ \A i \in 1 .. k : c[i] = a[i]
      /\ \A i \in 1 .. m : c[k + i] = b[i]
  BY <1>1, Joined
<1>3. ASSUME NEW i \in 1 .. k + m PROVE c[i] = s[i]
  <2>1. CASE i <= k
    BY <2>1, <1>2
  <2>2. CASE ~(i <= k)
    <3>1. PICK j \in 1 .. m : i = k + j
      <4>1. i - k \in 1 .. m /\ k + (i - k) = i
        BY <2>2
      <4>. QED
        BY <4>1
    <3>2. c[k + j] = b[j] /\ b[j] = s[k + j]
      BY <1>2
    <3>. QED
      BY <3>1, <3>2
  <2>. QED
    BY <2>1, <2>2
<1>4. s = [i \in 1 .. k + m |-> s[i]] /\ c = [i \in 1 .. k + m |-> c[i]]
  BY <1>2
<1>. QED
  BY <1>1, <1>3, <1>4

CutAt(s, k, a, b) == a = SubSeq(s, 1, k) /\ b = SubSeq(s, k + 1, Len(s))

\* A text cut in two is its parts, one after the other.
LEMMA CutInTwo ==
    ASSUME NEW s \in Seq(Lines), NEW k \in 0 .. Len(s), NEW a, NEW b, CutAt(s, k, a, b)
    PROVE  /\ a \in Seq(Lines) /\ b \in Seq(Lines) /\ s = a \o b
           /\ Len(a) = k /\ Len(b) = Len(s) - k
           /\ Ended(s) => Ended(b)
<1>1. PICK n \in Nat : n = Len(s)
  OBVIOUS
<1>2. PICK m \in Nat : m = n - k /\ n = k + m
  <2>1. n - k \in Nat /\ n = k + (n - k)
    BY <1>1
  <2>. QED
    BY <2>1
<1>3. a \in Seq(Lines) /\ Len(a) = k /\ \A i \in 1 .. k : a[i] = s[i]
  BY DEF CutAt
<1>4. b \in Seq(Lines) /\ Len(b) = m /\ \A i \in 1 .. m : b[i] = s[k + i]
  BY <1>1, <1>2 DEF CutAt
<1>5. s = a \o b
  <2>1. k \in Nat /\ Len(s) = k + m
    BY <1>1, <1>2
  <2>. QED
    BY <2>1, <1>3, <1>4, Rejoined
<1>6. Ended(s) => Ended(b)
  <2>1. b # <<>> => m \in 1 .. m /\ n # 0
    BY <1>2, <1>4
  <2>2. b # <<>> => b[m] = s[n]
    BY <1>2, <1>4, <2>1
  <2>3. b # <<>> => s # <<>>
    BY <1>1, <2>1
  <2>. QED
    BY <1>1, <1>4, <2>2, <2>3 DEF Ended
<1>. QED
  BY <1>1, <1>2, <1>3, <1>4, <1>5, <1>6

\* What a cut shows is no more than the lines it counts.
LEMMA OmittedCounts ==
    ASSUME NEW cut \in Seq(Lines)
    PROVE  /\ Omitted(cut) \in Nat /\ IsFiniteSet(Shown(cut))
           /\ Cardinality(Shown(cut)) \in Nat /\ Cardinality(Shown(cut)) <= Omitted(cut)
           /\ cut # <<>> /\ Ended(cut) => Omitted(cut) > 0
<1>1. PICK n \in Nat : n = Len(cut) /\ DOMAIN cut = 1 .. n
  OBVIOUS
<1>2. PICK O : O = {k \in 1 .. n : \E j \in 1 .. k : cut[j] # Blank}
  OBVIOUS
<1>3. Omitted(cut) = Cardinality(O)
  BY <1>1, <1>2 DEF Omitted
<1>4. IsFiniteSet(O) /\ Cardinality(O) \in Nat
  <2>1. IsFiniteSet(1 .. n)
    BY <1>1, FS_Interval, 1 \in Int, n \in Int
  <2>2. O \in SUBSET (1 .. n)
    BY <1>2
  <2>. QED
    BY <2>1, <2>2, FS_Subset, FS_CardinalityType
<1>5. PICK at : at = [i \in Shown(cut) |-> CHOOSE k \in 1 .. n : cut[k].id = i]
  OBVIOUS
<1>6. \A i \in Shown(cut) : i # 0 /\ \E k \in 1 .. n : cut[k].id = i
  BY <1>1 DEF Shown
<1>7. ASSUME NEW i \in Shown(cut) PROVE at[i] \in O /\ cut[at[i]].id = i
  <2>1. at[i] \in 1 .. n /\ cut[at[i]].id = i
    BY <1>5, <1>6
  <2>2. cut[at[i]] # Blank
    BY <2>1, <1>6, LinesAre
  <2>3. at[i] \in 1 .. at[i]
    BY <2>1
  <2>. QED
    BY <1>2, <2>1, <2>2, <2>3
<1>8. at \in Injection(Shown(cut), O)
  <2>1. at \in [Shown(cut) -> O]
    BY <1>5, <1>7
  <2>2. \A i, j \in Shown(cut) : at[i] = at[j] => i = j
    BY <1>7
  <2>. QED
    BY <2>1, <2>2 DEF Injection, IsInjective
<1>9. IsFiniteSet(Shown(cut)) /\ Cardinality(Shown(cut)) <= Cardinality(O)
  BY <1>4, <1>8, FS_Injection
<1>10. cut # <<>> /\ Ended(cut) => Omitted(cut) > 0
  <2> SUFFICES ASSUME cut # <<>>, Ended(cut) PROVE Omitted(cut) > 0
    OBVIOUS
  <2>1. n \in 1 .. n /\ cut[n] # Blank
    BY <1>1 DEF Ended
  <2>2. n \in O
    BY <1>2, <2>1
  <2>3. Cardinality(O) # 0
    BY <1>4, <2>2, FS_EmptySet
  <2>. QED
    BY <1>3, <1>4, <2>3
<1>. QED
  BY <1>3, <1>4, <1>9, <1>10, FS_CardinalityType

-----------------------------------------------------------------------------
(* Warnings.  A flag a session is told of names only notes of its project,   *)
(* or notes of everyone's that the screen lets through.                      *)

AuditKinds == {"cap_exceeded", "unsupported_scope", "lint", "stale_open", "conflict", "overlap"}
FlagKinds  == STRING \cup AuditKinds
FlagNames  == STRING \cup Matches \cup {GlobalProject}
FlagSet    == [kind : FlagKinds, project : FlagNames, ids : SUBSET DOMAIN NoteOf]

OfScope(f) ==
    InScope(f, scan.slug) =>
       \A i \in f.ids : /\ NoteOf[i].project \in {scan.slug, GlobalProject}
                        /\ NoteOf[i].project = GlobalProject => ~unsafe(i) /\ ~unsupportedScope(i)

Scoped(s) == s \in Seq(FlagSet) /\ \A k \in 1 .. Len(s) : OfScope(s[k])

\* What the notes of a flag are, before it is told.
NamesItsOwn(f) ==
    f.kind \in toldKinds /\ f.project \in Matches
       => \A i \in f.ids : NoteOf[i].project = f.project

\* A flag about its own notes is told in scope.
LEMMA ToldIsScoped ==
    ASSUME NEW f \in FlagSet, NamesItsOwn(f), scan.slug \in Matches
    PROVE  Told(f) \in FlagSet /\ OfScope(Told(f))
<1>1. GlobalProject \notin Matches
  BY BriefingAssumption
<1>2. PICK g : g = [f EXCEPT !.ids = {}]
  OBVIOUS
<1>3. g \in FlagSet /\ g.ids = {}
  BY <1>2 DEF FlagSet
<1>4. CASE f.project = "" \/ (f.project = GlobalProject /\ ~Identified(f))
  <2>1. Told(f) = g
    BY <1>2, <1>4 DEF Told
  <2>. QED
    BY <2>1, <1>3 DEF OfScope
<1>5. CASE ~(f.project = "" \/ (f.project = GlobalProject /\ ~Identified(f)))
  <2>1. Told(f) = f
    BY <1>5 DEF Told
  <2>2. CASE f.project = GlobalProject
    <3>1. f.ids \subseteq {i \in Safe : NoteOf[i].project = GlobalProject}
      BY <1>5, <2>2 DEF Identified
    <3>2. \A i \in f.ids : NoteOf[i].project = GlobalProject /\ ~unsafe(i) /\ ~unsupportedScope(i)
      BY <3>1 DEF Safe
    <3>. QED
      BY <2>1, <3>2 DEF OfScope
  <2>3. CASE f.project # GlobalProject
    <3> SUFFICES ASSUME InScope(f, scan.slug), NEW i \in f.ids
                 PROVE  NoteOf[i].project = scan.slug /\ scan.slug # GlobalProject
      BY <2>1 DEF OfScope
    <3>1. f.project = scan.slug /\ f.kind \in toldKinds
      BY <1>5, <2>3 DEF InScope
    <3>. QED
      BY <3>1, <1>1 DEF NamesItsOwn
  <2>. QED
    BY <2>2, <2>3
<1>. QED
  BY <1>4, <1>5

LEMMA ScopedJoin ==
    ASSUME NEW s, NEW t, Scoped(s), Scoped(t)
    PROVE  Scoped(s \o t)
<1>1. PICK n \in Nat : n = Len(s)
  BY DEF Scoped
<1>2. PICK m \in Nat : m = Len(t)
  BY DEF Scoped
<1>3. PICK b : b = s \o t
  OBVIOUS
<1>4. /\ b \in Seq(FlagSet) /\ Len(b) = n + m
      /\ \A k \in 1 .. n : b[k] = s[k]
      /\ \A k \in 1 .. m : b[n + k] = t[k]
  <2>1. s \in Seq(FlagSet) /\ t \in Seq(FlagSet)
    BY DEF Scoped
  <2>. QED
    BY <1>1, <1>2, <1>3, <2>1, Joined
<1>5. ASSUME NEW k \in 1 .. n + m PROVE OfScope(b[k])
  <2>1. CASE k <= n
    <3>1. k \in 1 .. n
      BY <2>1, <1>1, <1>2
    <3>. QED
      BY <3>1, <1>1, <1>4 DEF Scoped
  <2>2. CASE ~(k <= n)
    <3>1. k - n \in 1 .. m /\ n + (k - n) = k
      BY <2>2, <1>1, <1>2
    <3>2. b[k] = t[k - n]
      BY <3>1, <1>4
    <3>. QED
      BY <3>1, <3>2, <1>2 DEF Scoped
  <2>. QED
    BY <2>1, <2>2
<1>. QED
  BY <1>3, <1>4, <1>5 DEF Scoped

LEMMA ScopedFew ==
    /\ Scoped(<<>>)
    /\ \A f \in FlagSet : OfScope(f) => Scoped(<<f>>)
<1>1. Scoped(<<>>)
  <2>1. PICK s : s = <<>>
    OBVIOUS
  <2>2. s \in Seq(FlagSet) /\ Len(s) = 0
    BY <2>1
  <2>3. 1 .. Len(s) = {}
    BY <2>2
  <2>. QED
    BY <2>1, <2>2, <2>3 DEF Scoped
<1>2. ASSUME NEW f \in FlagSet, OfScope(f) PROVE Scoped(<<f>>)
  <2>1. PICK s : s = <<f>>
    OBVIOUS
  <2>2. s \in Seq(FlagSet) /\ Len(s) = 1 /\ s[1] = f
    BY <2>1
  <2>3. \A k \in 1 .. 1 : k = 1
    OBVIOUS
  <2>. QED
    BY <1>2, <2>1, <2>2, <2>3 DEF Scoped
<1>. QED
  BY <1>1, <1>2

LEMMA ScopedList ==
    ASSUME NEW n \in Nat, NEW s, DOMAIN s = 1 .. n, s = [k \in 1 .. n |-> s[k]],
           \A k \in 1 .. n : s[k] \in FlagSet /\ OfScope(s[k])
    PROVE  Scoped(s)
<1>1. s \in [1 .. n -> FlagSet]
  OBVIOUS
<1>2. s \in Seq(FlagSet) /\ Len(s) = n
  BY <1>1
<1>. QED
  BY <1>2 DEF Scoped

\* What was read of a project.
Mine(project) == {i \in scan.got : NoteOf[i].project = project}

LEMMA FlagsOfOwn ==
    ASSUME NEW project \in {scan.slug, GlobalProject}, scan.slug \in Matches,
           scan.got \subseteq DOMAIN NoteOf, NEW kind \in AuditKinds, NEW ids \in SUBSET Mine(project)
    PROVE  /\ Told(Flag(kind, project, ids)) \in FlagSet
           /\ OfScope(Told(Flag(kind, project, ids)))
<1>1. PICK f : f = Flag(kind, project, ids)
  OBVIOUS
<1>2. project \in FlagNames /\ kind \in FlagKinds
  BY DEF FlagNames, FlagKinds
<1>3. ids \in SUBSET DOMAIN NoteOf
  BY DEF Mine
<1>4. f \in FlagSet /\ f.project = project /\ f.ids = ids
  BY <1>1, <1>2, <1>3 DEF Flag, FlagSet
<1>5. NamesItsOwn(f)
  BY <1>4 DEF NamesItsOwn, Mine
<1>. QED
  BY <1>1, <1>4, <1>5, ToldIsScoped

LEMMA FlagWhenScoped ==
    ASSUME NEW project \in {scan.slug, GlobalProject}, scan.slug \in Matches,
           scan.got \subseteq DOMAIN NoteOf, NEW kind \in AuditKinds, NEW ids \in SUBSET Mine(project),
           NEW cond
    PROVE  Scoped(FlagWhen(cond, kind, project, ids))
<1>1. PICK f : f = Told(Flag(kind, project, ids))
  OBVIOUS
<1>2. f \in FlagSet /\ OfScope(f)
  BY <1>1, FlagsOfOwn
<1>3. FlagWhen(cond, kind, project, ids) = IF cond THEN <<f>> ELSE <<>>
  BY <1>1 DEF FlagWhen
<1>. QED
  BY <1>2, <1>3, ScopedFew

LEMMA FlagEachScoped ==
    ASSUME NEW project \in {scan.slug, GlobalProject}, scan.slug \in Matches,
           scan.got \subseteq DOMAIN NoteOf, NEW kind \in AuditKinds, NEW S \in SUBSET Mine(project)
    PROVE  Scoped(FlagEach(kind, project, S))
<1>1. S \subseteq Nat /\ IsFiniteSet(S)
  <2>1. S \in SUBSET DOMAIN NoteOf
    BY DEF Mine
  <2>. QED
    BY <2>1, NotesAreNumbered, FS_Subset DEF Numbered
<1>2. Lists(ById(S), S)
  BY <1>1, NumbersById
<1>3. PICK o : o = ById(S)
  OBVIOUS
<1>4. PICK n \in Nat : o \in [1 .. n -> S] /\ DOMAIN o = 1 .. n
  BY <1>2, <1>3 DEF Lists
<1>5. PICK s : s = [k \in 1 .. n |-> Told(Flag(kind, project, {o[k]}))]
  OBVIOUS
<1>6. FlagEach(kind, project, S) = s
  BY <1>3, <1>4, <1>5 DEF FlagEach
<1>7. ASSUME NEW k \in 1 .. n PROVE s[k] \in FlagSet /\ OfScope(s[k])
  <2>1. {o[k]} \in SUBSET Mine(project)
    BY <1>4
  <2>2. s[k] = Told(Flag(kind, project, {o[k]}))
    BY <1>5
  <2>. QED
    BY <2>1, <2>2, FlagsOfOwn
<1>8. DOMAIN s = 1 .. n /\ s = [k \in 1 .. n |-> s[k]]
  BY <1>5
<1>. QED
  BY <1>4, <1>6, <1>7, <1>8, ScopedList

OverlapFlags(project, S) ==
    LET overlaps == ByIds(Overlaps(S)) IN
    [k \in {n \in DOMAIN overlaps : n <= MaxOverlaps} |->
        Told(Flag("overlap", project, {overlaps[k][1], overlaps[k][2]}))]

LEMMA OverlapsAreScoped ==
    ASSUME NEW project \in {scan.slug, GlobalProject}, scan.slug \in Matches,
           scan.got \subseteq DOMAIN NoteOf, NEW S \in SUBSET Mine(project)
    PROVE  Scoped(OverlapFlags(project, S))
<1>1. S \subseteq Nat /\ IsFiniteSet(S)
  <2>1. S \in SUBSET DOMAIN NoteOf
    BY DEF Mine
  <2>. QED
    BY <2>1, NotesAreNumbered, FS_Subset DEF Numbered
<1>2. PICK P : P = Overlaps(S)
  OBVIOUS
<1>3. P \subseteq S \X S /\ IsFiniteSet(P)
  <2>1. P \subseteq S \X S
    BY <1>2 DEF Overlaps
  <2>. QED
    BY <1>1, <2>1, FS_Product, FS_Subset
<1>4. Lists(ByIds(P), P)
  <2> DEFINE before == {q \in P \X P : \/ q[1][1] < q[2][1]
                                       \/ q[1][1] = q[2][1] /\ q[1][2] < q[2][2]}
  <2>1. \A p, q \in P : <<p, q>> \in before <=> p[1] < q[1] \/ (p[1] = q[1] /\ p[2] < q[2])
    OBVIOUS
  <2>2. \A p \in P : p[1] \in Nat /\ p[2] \in Nat /\ p = <<p[1], p[2]>>
    BY <1>1, <1>3
  <2>3. ByIds(P) = InOrder(P, before)
    BY DEF ByIds
  <2> HIDE DEF before
  <2>4. Strict(P, before)
    <3>1. ASSUME NEW p \in P, NEW q \in P PROVE p = q \/ <<p, q>> \in before \/ <<q, p>> \in before
      <4>1. p[1] = q[1] /\ p[2] = q[2] => p = q
        BY <2>2
      <4>2. \/ p[1] < q[1]
            \/ q[1] < p[1]
            \/ p[1] = q[1] /\ p[2] < q[2]
            \/ p[1] = q[1] /\ q[2] < p[2]
            \/ p[1] = q[1] /\ p[2] = q[2]
        BY <2>2
      <4>. QED
        BY <2>1, <4>1, <4>2
    <3>. QED
      BY <2>1, <2>2, <3>1 DEF Strict
  <2>. QED
    BY <1>3, <2>3, <2>4, OrderLists
<1>5. PICK o : o = ByIds(P)
  OBVIOUS
<1>6. PICK n \in Nat : o \in [1 .. n -> P] /\ DOMAIN o = 1 .. n
  BY <1>4, <1>5 DEF Lists
<1>7. PICK m \in Nat : m = IF n <= MaxOverlaps THEN n ELSE MaxOverlaps
  BY BriefingAssumption
<1>8. {k \in 1 .. n : k <= MaxOverlaps} = 1 .. m
  <2>1. MaxOverlaps \in Nat
    BY BriefingAssumption
  <2>. QED
    BY <1>6, <1>7, <2>1
<1>9. PICK s : s = [k \in 1 .. m |-> Told(Flag("overlap", project, {o[k][1], o[k][2]}))]
  OBVIOUS
<1>10. OverlapFlags(project, S) = s
  BY <1>2, <1>5, <1>6, <1>8, <1>9 DEF OverlapFlags
<1>11. ASSUME NEW k \in 1 .. m PROVE s[k] \in FlagSet /\ OfScope(s[k])
  <2>1. k \in 1 .. n
    BY <1>8
  <2>2. o[k] \in S \X S
    BY <1>3, <1>6, <2>1
  <2>3. PICK ids \in SUBSET Mine(project) : ids = {o[k][1], o[k][2]}
    BY <2>2
  <2>4. s[k] = Told(Flag("overlap", project, ids))
    BY <1>9, <2>3
  <2>5. "overlap" \in AuditKinds
    BY DEF AuditKinds
  <2>. QED
    BY <2>3, <2>4, <2>5, FlagsOfOwn
<1>12. DOMAIN s = 1 .. m /\ s = [k \in 1 .. m |-> s[k]]
  BY <1>9
<1>. QED
  BY <1>7, <1>10, <1>11, <1>12, ScopedList

\* The flags of the audit of a project name notes of that project.
LEMMA AuditIsScoped ==
    ASSUME NEW project \in {scan.slug, GlobalProject}, scan.slug \in Matches,
           scan.got \subseteq DOMAIN NoteOf
    PROVE  Scoped(Audit(project))
<1>1. PICK mine : mine = Mine(project)
  OBVIOUS
<1> DEFINE supported == {i \in mine : ~unsupportedScope(i)}
           stale     == {i \in supported : NoteOf[i].type = "open" /\ NoteOf[i].stale}
           same(t)   == {i \in supported : NoteOf[i].type = "decision" /\ NoteOf[i].topic = t}
           topics    == {t \in {NoteOf[i].topic : i \in mine} \ {0} : Cardinality(same(t)) > 1}
           perTopic  == ById(topics)
           a == FlagWhen(Cardinality(mine) > MaxActive, "cap_exceeded", project, {})
           b == FlagEach("unsupported_scope", project, mine \ supported)
           c == FlagEach("lint", project, {i \in supported : unsafe(i)})
           d == FlagWhen(stale # {}, "stale_open", project, stale)
           e == [k \in DOMAIN perTopic |-> Told(Flag("conflict", project, same(perTopic[k])))]
           g == OverlapFlags(project, supported)
<1>2. Audit(project) = a \o b \o c \o d \o e \o g
  BY <1>1 DEF Audit, Mine, OverlapFlags
<1>3. /\ {} \in SUBSET mine /\ stale \in SUBSET mine /\ mine \ supported \in SUBSET mine
      /\ {i \in supported : unsafe(i)} \in SUBSET mine
  OBVIOUS
<1>4. /\ "cap_exceeded" \in AuditKinds /\ "unsupported_scope" \in AuditKinds /\ "lint" \in AuditKinds
      /\ "stale_open" \in AuditKinds /\ "conflict" \in AuditKinds
  BY DEF AuditKinds
<1>5. mine \in SUBSET DOMAIN NoteOf
  BY <1>1 DEF Mine
<1>6. ASSUME NEW cond, NEW kind \in AuditKinds, NEW S \in SUBSET mine
      PROVE  Scoped(FlagWhen(cond, kind, project, S)) /\ Scoped(FlagEach(kind, project, S))
  BY <1>1, FlagWhenScoped, FlagEachScoped
<1>7. Scoped(a) /\ Scoped(b) /\ Scoped(c) /\ Scoped(d)
  <2> HIDE DEF stale, supported
  <2>. QED
    BY <1>3, <1>4, <1>6
<1>8. Scoped(e)
  <2>1. topics \subseteq Nat
    BY <1>5, BriefingAssumption
  <2>2. IsFiniteSet(topics)
    <3>1. IsFiniteSet(mine)
      BY <1>5, NotesAreNumbered, FS_Subset DEF Numbered
    <3>2. PICK f : f = [i \in mine |-> NoteOf[i].topic]
      OBVIOUS
    <3>3. PICK T : T = {NoteOf[i].topic : i \in mine}
      OBVIOUS
    <3>4. f \in Surjection(mine, T)
      BY <3>2, <3>3 DEF Surjection
    <3>5. IsFiniteSet(T)
      BY <3>1, <3>4, FS_Surjection
    <3>6. topics \in SUBSET T
      BY <3>3
    <3>. QED
      BY <3>5, <3>6, FS_Subset
  <2>3. PICK n \in Nat : DOMAIN perTopic = 1 .. n
    <3> HIDE DEF topics
    <3>1. Lists(ById(topics), topics)
      BY <2>1, <2>2, NumbersById
    <3>. QED
      BY <3>1 DEF Lists
  <2>4. \A k \in 1 .. n : same(perTopic[k]) \in SUBSET Mine(project)
    <3>1. \A t : same(t) \in SUBSET mine
      OBVIOUS
    <3> HIDE DEF same, perTopic
    <3>. QED
      BY <3>1, <1>1
  <2>5. \A k \in 1 .. n : e[k] = Told(Flag("conflict", project, same(perTopic[k])))
    BY <2>3
  <2>6. DOMAIN e = 1 .. n /\ e = [k \in 1 .. n |-> e[k]]
    BY <2>3
  <2> HIDE DEF same, perTopic, e
  <2>7. \A k \in 1 .. n : e[k] \in FlagSet /\ OfScope(e[k])
    <3> SUFFICES ASSUME NEW k \in 1 .. n PROVE e[k] \in FlagSet /\ OfScope(e[k])
      OBVIOUS
    <3>1. PICK ids \in SUBSET Mine(project) : ids = same(perTopic[k])
      BY <2>4
    <3>2. e[k] = Told(Flag("conflict", project, ids))
      BY <2>5, <3>1
    <3>. QED
      BY <3>1, <3>2, <1>4, FlagsOfOwn
  <2>. QED
    BY <2>6, <2>7, ScopedList
<1>16. Scoped(g)
  <2>1. supported \in SUBSET Mine(project)
    BY <1>1
  <2> HIDE DEF supported
  <2>. QED
    BY <2>1, OverlapsAreScoped
<1> HIDE DEF supported, stale, same, topics, perTopic, a, b, c, d, e, g
<1>9. PICK ab : ab = a \o b
  OBVIOUS
<1>10. PICK abc : abc = ab \o c
  OBVIOUS
<1>11. PICK abcd : abcd = abc \o d
  OBVIOUS
<1>12. Scoped(ab)
  BY <1>7, <1>9, ScopedJoin
<1>13. Scoped(abc)
  BY <1>7, <1>10, <1>12, ScopedJoin
<1>14. Scoped(abcd)
  BY <1>7, <1>11, <1>13, ScopedJoin
<1>15. PICK abcde : abcde = abcd \o e
  OBVIOUS
<1>17. Scoped(abcde)
  BY <1>8, <1>14, <1>15, ScopedJoin
<1>18. Audit(project) = abcde \o g
  BY <1>2, <1>9, <1>10, <1>11, <1>15
<1>. QED
  BY <1>16, <1>17, <1>18, ScopedJoin

\* What is at some places of a text of flags is of that text.
LEMMA PlacesAreScoped ==
    ASSUME NEW s, Scoped(s), NEW places \in SUBSET (1 .. Len(s))
    PROVE  /\ Scoped(At(s, places))
           /\ \A k \in 1 .. Len(At(s, places)) : \E p \in places : At(s, places)[k] = s[p]
<1>1. PICK n \in Nat : n = Len(s)
  BY DEF Scoped
<1>2. places \subseteq Nat /\ IsFiniteSet(places)
  <2>1. IsFiniteSet(1 .. n) /\ 1 .. n \subseteq Nat
    BY FS_Interval, 1 \in Int, n \in Int
  <2>2. places \in SUBSET (1 .. n)
    BY <1>1
  <2>3. IsFiniteSet(places)
    BY <2>1, <2>2, FS_Subset
  <2>. QED
    BY <2>1, <2>2, <2>3
<1>3. Lists(ById(places), places)
  BY <1>2, NumbersById
<1>4. PICK o : o = ById(places)
  OBVIOUS
<1>5. PICK m \in Nat : o \in [1 .. m -> places] /\ DOMAIN o = 1 .. m
  BY <1>3, <1>4 DEF Lists
<1>6. PICK t : t = [k \in 1 .. m |-> s[o[k]]]
  OBVIOUS
<1>7. At(s, places) = t
  BY <1>4, <1>5, <1>6 DEF At
<1>8. \A k \in 1 .. m : t[k] = s[o[k]] /\ o[k] \in places
  BY <1>5, <1>6
<1>9. \A k \in 1 .. m : t[k] \in FlagSet /\ OfScope(t[k])
  <2>1. \A k \in 1 .. n : s[k] \in FlagSet /\ OfScope(s[k])
    BY <1>1 DEF Scoped
  <2>. QED
    BY <1>1, <1>8, <2>1
<1>10. DOMAIN t = 1 .. m /\ t = [k \in 1 .. m |-> t[k]]
  BY <1>6
<1>11. Scoped(t)
  BY <1>9, <1>10, ScopedList
<1>12. Len(t) = m
  BY <1>5, <1>6
<1>. QED
  BY <1>7, <1>8, <1>11, <1>12

\* So are the flags that maintenance left.
LEMMA ReportIsScoped ==
    ASSUME NEW r \in Reports, scan.slug \in Matches
    PROVE  Scoped([k \in DOMAIN r |-> Told(r[k])])
<1> DEFINE U == [kind : STRING, project : STRING, ids : SUBSET DOMAIN NoteOf]
<1>0. r \in Seq(U)
  <2>1. Reports \subseteq Seq(U)
    BY BriefingAssumption
  <2> HIDE DEF U
  <2>. QED
    BY <2>1
<1>1. PICK n \in Nat : n = Len(r) /\ DOMAIN r = 1 .. n
  <2> HIDE DEF U
  <2>. QED
    BY <1>0
<1>2. \A k \in 1 .. n : r[k] \in U
  <2> HIDE DEF U
  <2>. QED
    BY <1>0, <1>1
<1>3. \A k \in 1 .. n : r[k] \in FlagSet
  BY <1>2 DEF FlagSet, FlagKinds, FlagNames
<1>4. \A k \in 1 .. n : NamesItsOwn(r[k])
  BY <1>1, BriefingAssumption DEF NamesItsOwn
<1>5. PICK s : s = [k \in 1 .. n |-> Told(r[k])]
  OBVIOUS
<1>6. \A k \in 1 .. n : s[k] \in FlagSet /\ OfScope(s[k])
  BY <1>3, <1>4, <1>5, ToldIsScoped
<1>7. DOMAIN s = 1 .. n /\ s = [k \in 1 .. n |-> s[k]]
  BY <1>5
<1>. QED
  BY <1>1, <1>5, <1>6, <1>7, ScopedList

\* Notes of the project of a session, or of everyone's that may be told.
Tellable == {i \in DOMAIN NoteOf :
                /\ NoteOf[i].project \in {scan.slug, GlobalProject}
                /\ NoteOf[i].project = GlobalProject => ~unsafe(i) /\ ~unsupportedScope(i)}

\* The warnings of a briefing name nothing else.
LEMMA WarningsAreScoped ==
    ASSUME scan.slug \in Matches, scan.got \subseteq DOMAIN NoteOf, scan.report \in Reports
    PROVE  /\ Len(scopedWarnings) \in Nat
           /\ \A k \in DOMAIN scopedWarnings : scopedWarnings[k].ids \subseteq Tellable
<1>1. PICK g : g = Audit(GlobalProject)
  OBVIOUS
<1>2. PICK a : a = IF scan.slug = Slugless THEN <<>> ELSE Audit(scan.slug)
  OBVIOUS
<1>3. PICK r : r = [k \in DOMAIN scan.report |-> Told(scan.report[k])]
  OBVIOUS
<1>4. PICK ga : ga = g \o a
  OBVIOUS
<1>5. PICK all : all = ga \o r
  OBVIOUS
<1>6. Scoped(all)
  <2>1. Scoped(g)
    BY <1>1, AuditIsScoped
  <2>2. Scoped(a)
    BY <1>2, AuditIsScoped, ScopedFew
  <2>3. Scoped(r)
    BY <1>3, ReportIsScoped
  <2>4. Scoped(ga)
    BY <1>4, <2>1, <2>2, ScopedJoin
  <2>. QED
    BY <1>5, <2>3, <2>4, ScopedJoin
<1> DEFINE chosen == {k \in DOMAIN all : /\ InScope(all[k], scan.slug)
                                         /\ \A j \in 1 .. k - 1 : all[j] # all[k]}
<1>7. PICK sel : sel = Selected(all)
  OBVIOUS
<1>8. Scoped(sel) /\ \A k \in 1 .. Len(sel) : InScope(sel[k], scan.slug)
  <2>1. DOMAIN all = 1 .. Len(all)
    BY <1>6 DEF Scoped
  <2>2. chosen \in SUBSET (1 .. Len(all)) /\ \A p \in chosen : InScope(all[p], scan.slug)
    BY <2>1
  <2>3. sel = At(all, chosen)
    BY <1>7 DEF Selected
  <2> HIDE DEF chosen
  <2>. QED
    BY <1>6, <2>2, <2>3, PlacesAreScoped
<1> DEFINE early == {k \in DOMAIN sel : sel[k].kind = "conflict"}
           late  == {k \in DOMAIN sel : sel[k].kind # "conflict"}
<1>9. PICK e : e = At(sel, early)
  OBVIOUS
<1>10. PICK l : l = At(sel, late)
  OBVIOUS
<1>11. early \in SUBSET (1 .. Len(sel)) /\ late \in SUBSET (1 .. Len(sel))
  <2>1. DOMAIN sel = 1 .. Len(sel)
    BY <1>8 DEF Scoped
  <2>. QED
    BY <2>1
<1>12. Scoped(e) /\ \A k \in 1 .. Len(e) : InScope(e[k], scan.slug)
  <2> HIDE DEF early
  <2>. QED
    BY <1>8, <1>9, <1>11, PlacesAreScoped
<1>13. Scoped(l) /\ \A k \in 1 .. Len(l) : InScope(l[k], scan.slug)
  <2> HIDE DEF late
  <2>. QED
    BY <1>8, <1>10, <1>11, PlacesAreScoped
<1>14. PICK first : first = ConflictsFirst(sel) /\ first = e \o l
  BY <1>9, <1>10 DEF ConflictsFirst
<1>15. PICK w : w = [k \in {n \in DOMAIN first : n <= WarningLines} |-> first[k]]
  OBVIOUS
<1>16. scopedWarnings = w
  BY <1>1, <1>2, <1>3, <1>4, <1>5, <1>7, <1>14, <1>15 DEF scopedWarnings
<1> HIDE DEF chosen, early, late
<1>17. PICK n \in Nat, m \in Nat : /\ n = Len(e) /\ m = Len(l) /\ e \in Seq(FlagSet) /\ l \in Seq(FlagSet)
  BY <1>12, <1>13 DEF Scoped
<1>18. /\ first \in Seq(FlagSet) /\ Len(first) = n + m /\ DOMAIN first = 1 .. n + m
       /\ \A k \in 1 .. n : first[k] = e[k]
       /\ \A k \in 1 .. m : first[n + k] = l[k]
  <2>1. /\ first \in Seq(FlagSet) /\ Len(first) = n + m
        /\ \A k \in 1 .. n : first[k] = e[k]
        /\ \A k \in 1 .. m : first[n + k] = l[k]
    BY <1>14, <1>17, Joined
  <2>. QED
    BY <2>1
<1>19. ASSUME NEW k \in 1 .. n + m PROVE first[k].ids \subseteq Tellable
  <2>1. PICK f \in FlagSet : f = first[k]
    BY <1>18
  <2>2. OfScope(f) /\ InScope(f, scan.slug)
    <3>1. CASE k \in 1 .. n
      BY <3>1, <2>1, <1>12, <1>17, <1>18 DEF Scoped
    <3>2. CASE k \notin 1 .. n
      <4>1. k - n \in 1 .. m /\ n + (k - n) = k
        BY <3>2, <1>17
      <4>2. f = l[k - n]
        BY <4>1, <2>1, <1>18
      <4>. QED
        BY <4>1, <4>2, <1>13, <1>17 DEF Scoped
    <3>. QED
      BY <3>1, <3>2
  <2>3. f.ids \subseteq DOMAIN NoteOf
    BY <2>1 DEF FlagSet
  <2>. QED
    BY <2>1, <2>2, <2>3 DEF OfScope, Tellable
<1>20. WarningLines \in Nat
  BY BriefingAssumption
<1>21. PICK c \in Nat : {k \in 1 .. n + m : k <= WarningLines} = 1 .. c /\ c <= n + m
  <2>1. CASE WarningLines <= n + m
    <3>1. {k \in 1 .. n + m : k <= WarningLines} = 1 .. WarningLines
      BY <2>1, <1>17, <1>20
    <3>. QED
      BY <2>1, <3>1, <1>20
  <2>2. CASE ~(WarningLines <= n + m)
    <3>1. {k \in 1 .. n + m : k <= WarningLines} = 1 .. n + m /\ n + m \in Nat /\ n + m <= n + m
      BY <2>2, <1>17, <1>20
    <3>. QED
      BY <3>1
  <2>. QED
    BY <2>1, <2>2
<1>22. w = [k \in 1 .. c |-> first[k]]
  BY <1>15, <1>18, <1>21
<1>23. Len(w) = c /\ DOMAIN w = 1 .. c /\ \A k \in 1 .. c : w[k] = first[k] /\ k \in 1 .. n + m
  <2>1. DOMAIN w = 1 .. c /\ \A k \in 1 .. c : w[k] = first[k] /\ k \in 1 .. n + m
    BY <1>17, <1>21, <1>22
  <2>2. w \in [1 .. c -> FlagSet]
    <3>1. \A k \in 1 .. c : w[k] \in FlagSet
      BY <1>18, <2>1
    <3>. QED
      BY <1>22, <2>1, <3>1
  <2>3. Len(w) = c
    BY <2>2, <1>21
  <2>. QED
    BY <2>1, <2>3
<1>. QED
  BY <1>16, <1>19, <1>23

\* Every note of the scope is of a directory that is read.
LEMMA DirectoriesReach ==
    ASSUME NEW slug
    PROVE  /\ Len(Directories(slug)) \in Nat \ {0}
           /\ \A i \in DOMAIN NoteOf : NoteOf[i].project \in Range(Scope(slug)) =>
                 \E d \in 1 .. Len(Directories(slug)) :
                    Directories(slug)[d] = <<NoteOf[i].project, NoteOf[i].type>>
<1>1. PICK p : p = Scope(slug)
  OBVIOUS
<1>2. PICK q \in {1, 2} : Len(p) = q /\ DOMAIN p = 1 .. q
  <2>1. Len(<<GlobalProject>>) = 1 /\ DOMAIN <<GlobalProject>> = 1 .. 1
    OBVIOUS
  <2>2. Len(<<GlobalProject, slug>>) = 2 /\ DOMAIN <<GlobalProject, slug>> = 1 .. 2
    OBVIOUS
  <2>. QED
    BY <1>1, <2>1, <2>2 DEF Scope
<1>3. Len(allTypes) = 4 /\ DOMAIN allTypes = 1 .. 4
  BY DEF allTypes
<1>4. PICK n \in Nat : n = 4 * q
  OBVIOUS
<1>5. PICK listing : listing = [k \in 1 .. n |-> <<p[((k - 1) \div 4) + 1], allTypes[((k - 1) % 4) + 1]>>]
  OBVIOUS
<1>6. Directories(slug) = listing
  BY <1>1, <1>2, <1>3, <1>4, <1>5 DEF Directories
<1>7. Len(listing) = n
  BY <1>5
<1>8. n \in Nat \ {0}
  BY <1>2, <1>4
<1>9. ASSUME NEW a \in 1 .. q, NEW t \in 1 .. 4
      PROVE  \E d \in 1 .. n : listing[d] = <<p[a], allTypes[t]>>
  <2>1. PICK d \in Nat : d = 4 * (a - 1) + t
    OBVIOUS
  <2>2. d \in 1 .. n /\ (d - 1) \div 4 = a - 1 /\ (d - 1) % 4 = t - 1
    <3>1. q = 1 \/ q = 2
      BY <1>2
    <3>2. a = 1 \/ a = 2
      BY <3>1
    <3>3. t = 1 \/ t = 2 \/ t = 3 \/ t = 4
      OBVIOUS
    <3>. QED
      BY <1>4, <2>1, <3>1, <3>2, <3>3
  <2>3. (a - 1) + 1 = a /\ (t - 1) + 1 = t
    OBVIOUS
  <2>4. listing[d] = <<p[((d - 1) \div 4) + 1], allTypes[((d - 1) % 4) + 1]>>
    BY <1>5, <2>2
  <2>. QED
    BY <2>2, <2>3, <2>4
<1>10. ASSUME NEW i \in DOMAIN NoteOf, NoteOf[i].project \in Range(p)
       PROVE  \E d \in 1 .. n : listing[d] = <<NoteOf[i].project, NoteOf[i].type>>
  <2>1. PICK a \in 1 .. q : p[a] = NoteOf[i].project
    BY <1>2, <1>10 DEF Range
  <2>2. PICK t \in 1 .. 4 : allTypes[t] = NoteOf[i].type
    <3>1. NoteOf[i].type \in Range(allTypes)
      BY <1>10, BriefingAssumption
    <3>. QED
      BY <1>3, <3>1 DEF Range
  <2>. QED
    BY <2>1, <2>2, <1>9
<1>. QED
  BY <1>1, <1>6, <1>7, <1>8, <1>10

-----------------------------------------------------------------------------
(* The read.  A note that stays on the shelf, whole and in its place, is read *)
(* with its directory, unless the briefing says that the read is incomplete.  *)

ScanSet == [at : {"idle", "list", "read", "compose", "done"}, slug : Matches \cup {Slugless},
            mode : Modes \cup {"manual"}, report : Reports \cup {<<>>}, dir : Nat,
            names : SUBSET DOMAIN NoteOf, got : SUBSET DOMAIN NoteOf, incomplete : BOOLEAN,
            steady : SUBSET DOMAIN NoteOf]

Whole(s) == s.dir > Len(Directories(s.slug))

\* What a scan owes of the directories it is through with, and of the one it reads.
ReadSoFar(s) ==
    ~s.incomplete =>
       \A i \in s.steady : NoteOf[i].placed =>
          \A d \in 1 .. Len(Directories(s.slug)) :
             Directories(s.slug)[d] = <<NoteOf[i].project, NoteOf[i].type>> =>
                /\ d < s.dir => i \in s.got
                /\ d = s.dir /\ s.at = "read" => i \in s.got \cup s.names

ScanInv ==
    /\ scan \in ScanSet /\ shelf \subseteq DOMAIN NoteOf
    /\ scan.at # "idle" => scan.slug \in Matches /\ scan.mode \in Modes /\ scan.report \in Reports
    /\ scan.at \in {"list", "read"} => /\ scan.dir \in 1 .. Len(Directories(scan.slug))
                                       /\ scan.steady \subseteq shelf \ spoiled
    /\ scan.at = "read" => scan.names # {}
    /\ scan.at \in {"compose", "done"} /\ ~scan.incomplete => Whole(scan)
    /\ ReadSoFar(scan)
    /\ briefing.given <=> scan.at = "done"

LEMMA ScanStarts == BriefingInit => ScanInv
<1> SUFFICES ASSUME BriefingInit PROVE ScanInv
  OBVIOUS
<1>1. /\ scan = NoScan /\ shelf \in SUBSET DOMAIN NoteOf /\ briefing = NoBriefing
  BY DEF BriefingInit
<1>2. scan \in ScanSet /\ scan.at = "idle" /\ scan.steady = {}
  BY <1>1 DEF NoScan, ScanSet
<1>3. ~briefing.given
  BY <1>1 DEF NoBriefing
<1>. QED
  BY <1>1, <1>2, <1>3 DEF ScanInv, ReadSoFar

\* A scan that is through with a directory goes on with the next.
LEMMA NextKeeps ==
    ASSUME NEW s \in ScanSet, s.slug \in Matches, s.mode \in Modes, s.report \in Reports,
           s.dir \in 1 .. Len(Directories(s.slug)), NEW t, t = NextDirectory(s),
           ~s.incomplete =>
              \A i \in s.steady : NoteOf[i].placed =>
                 \A d \in 1 .. Len(Directories(s.slug)) :
                    Directories(s.slug)[d] = <<NoteOf[i].project, NoteOf[i].type>> =>
                       (d <= s.dir => i \in s.got)
    PROVE  /\ t \in ScanSet /\ t.at \in {"list", "compose"} /\ t.steady = s.steady
           /\ t.slug = s.slug /\ t.mode = s.mode /\ t.report = s.report
           /\ t.at = "list" => t.dir \in 1 .. Len(Directories(t.slug))
           /\ t.at = "compose" => Whole(t)
           /\ ReadSoFar(t)
<1>1. PICK n \in Nat \ {0} : n = Len(Directories(s.slug))
  BY DirectoriesReach
<1>2. /\ t = [s EXCEPT !.dir = s.dir + 1, !.names = {},
                       !.at = IF s.dir = n THEN "compose" ELSE "list"]
  BY <1>1 DEF NextDirectory
<1>3. s.dir \in 1 .. n
  BY <1>1
<1>4. /\ t \in ScanSet /\ t.dir = s.dir + 1 /\ t.at = (IF s.dir = n THEN "compose" ELSE "list")
      /\ t.steady = s.steady /\ t.slug = s.slug /\ t.mode = s.mode /\ t.report = s.report
      /\ t.got = s.got /\ t.incomplete = s.incomplete
  <2>1. PICK at \in {"list", "compose"} : at = IF s.dir = n THEN "compose" ELSE "list"
    OBVIOUS
  <2>2. PICK d \in Nat : d = s.dir + 1
    BY <1>3
  <2>3. t = [s EXCEPT !.dir = d, !.names = {}, !.at = at]
    BY <1>2, <2>1, <2>2
  <2>4. /\ t \in ScanSet /\ t.dir = d /\ t.at = at
        /\ t.steady = s.steady /\ t.slug = s.slug /\ t.mode = s.mode /\ t.report = s.report
        /\ t.got = s.got /\ t.incomplete = s.incomplete
    BY <2>3 DEF ScanSet
  <2>. QED
    BY <2>1, <2>2, <2>4
<1>5. ReadSoFar(t)
  <2> SUFFICES ASSUME ~t.incomplete, NEW i \in t.steady, NoteOf[i].placed,
                      NEW d \in 1 .. n,
                      Directories(s.slug)[d] = <<NoteOf[i].project, NoteOf[i].type>>
               PROVE  /\ d < t.dir => i \in t.got
                      /\ t.at # "read"
    BY <1>1, <1>4 DEF ReadSoFar
  <2>1. d < t.dir => d <= s.dir
    BY <1>3, <1>4
  <2>. QED
    BY <1>1, <1>4, <2>1
<1>6. t.at = "list" => t.dir \in 1 .. n
  BY <1>3, <1>4
<1>7. t.at = "compose" => t.dir > n
  BY <1>3, <1>4
<1>. QED
  BY <1>1, <1>4, <1>5, <1>6, <1>7 DEF Whole

LEMMA BeginKeeps ==
    ASSUME ScanInv, NEW slug \in Matches, NEW mode \in Modes, NEW r \in Reports,
           BeginScan(slug, mode, r)
    PROVE  ScanInv' /\ ~briefing'.given
<1>1. PICK s : s = scan'
  OBVIOUS
<1>2. /\ ~briefing.given /\ briefing' = briefing /\ shelf' = shelf /\ spoiled' = spoiled
      /\ s = [NoScan EXCEPT !.at = "list", !.slug = slug, !.mode = mode, !.report = r,
                            !.dir = 1, !.steady = shelf \ spoiled]
  BY <1>1 DEF BeginScan
<1>3. shelf \subseteq DOMAIN NoteOf
  BY DEF ScanInv
<1>4. PICK st \in SUBSET DOMAIN NoteOf : st = shelf \ spoiled
  BY <1>3
<1>5. s = [at |-> "list", slug |-> slug, mode |-> mode, report |-> r, dir |-> 1,
           names |-> {}, got |-> {}, incomplete |-> FALSE, steady |-> st]
  BY <1>2, <1>4 DEF NoScan
<1>6. s \in ScanSet
  BY <1>5 DEF ScanSet
<1>7. PICK n \in Nat \ {0} : n = Len(Directories(slug))
  BY DirectoriesReach
<1>8. ReadSoFar(s)
  <2> SUFFICES ASSUME NEW d \in 1 .. n PROVE ~(d < 1)
    BY <1>5, <1>7 DEF ReadSoFar
  <2>. QED
    OBVIOUS
<1>9. s.dir \in 1 .. Len(Directories(s.slug))
  BY <1>5, <1>7
<1>. QED
  BY <1>1, <1>2, <1>3, <1>4, <1>5, <1>6, <1>8, <1>9 DEF ScanInv

\* What the invariant says of a read under way.
Reading(s) ==
    /\ s \in ScanSet /\ s.slug \in Matches /\ s.mode \in Modes /\ s.report \in Reports
    /\ s.dir \in 1 .. Len(Directories(s.slug)) /\ ReadSoFar(s)

LEMMA UnderWay ==
    ASSUME ScanInv, scan.at \in {"list", "read"}
    PROVE  Reading(scan) /\ ~briefing.given /\ scan.steady \subseteq shelf \ spoiled
           /\ shelf \subseteq DOMAIN NoteOf
BY DEF ScanInv, Reading

LEMMA Onward ==
    ASSUME NEW s, Reading(s), s.steady \subseteq shelf \ spoiled, shelf \subseteq DOMAIN NoteOf,
           ~s.incomplete =>
              \A i \in s.steady : NoteOf[i].placed =>
                 (Directories(s.slug)[s.dir] = <<NoteOf[i].project, NoteOf[i].type>> => i \in s.got),
           scan' = NextDirectory(s), shelf' = shelf, spoiled' = spoiled, briefing' = briefing,
           ~briefing.given
    PROVE  ScanInv' /\ ~briefing'.given
<1>1. PICK n \in Nat \ {0} : n = Len(Directories(s.slug))
  BY DirectoriesReach
<1>2. ~s.incomplete =>
         \A i \in s.steady : NoteOf[i].placed =>
            \A d \in 1 .. n : Directories(s.slug)[d] = <<NoteOf[i].project, NoteOf[i].type>> =>
               (d <= s.dir => i \in s.got)
  <2> SUFFICES ASSUME ~s.incomplete, NEW i \in s.steady, NoteOf[i].placed, NEW d \in 1 .. n,
                      Directories(s.slug)[d] = <<NoteOf[i].project, NoteOf[i].type>>, d <= s.dir
               PROVE  i \in s.got
    OBVIOUS
  <2>1. CASE d = s.dir
    BY <2>1
  <2>2. CASE d # s.dir
    <3>1. d < s.dir
      BY <1>1, <2>2 DEF Reading
    <3>. QED
      BY <1>1, <3>1 DEF Reading, ReadSoFar
  <2>. QED
    BY <2>1, <2>2
<1>3. PICK t : t = NextDirectory(s)
  OBVIOUS
<1>4. /\ t \in ScanSet /\ t.at \in {"list", "compose"} /\ t.steady = s.steady
      /\ t.slug = s.slug /\ t.mode = s.mode /\ t.report = s.report
      /\ t.at = "list" => t.dir \in 1 .. Len(Directories(t.slug))
      /\ t.at = "compose" => Whole(t)
      /\ ReadSoFar(t)
  BY <1>1, <1>2, <1>3, NextKeeps DEF Reading
<1>5. scan' = t /\ t.slug \in Matches /\ t.mode \in Modes /\ t.report \in Reports
  BY <1>3, <1>4 DEF Reading
<1>. QED
  BY <1>4, <1>5 DEF ScanInv

LEMMA ListKeeps ==
    ASSUME ScanInv, ListDirectory
    PROVE  ScanInv' /\ ~briefing'.given
<1>1. scan.at = "list" /\ shelf' = shelf /\ spoiled' = spoiled /\ briefing' = briefing
  BY DEF ListDirectory
<1>2. Reading(scan) /\ ~briefing.given /\ scan.steady \subseteq shelf \ spoiled
      /\ shelf \subseteq DOMAIN NoteOf
  BY <1>1, UnderWay
<1>3. PICK listed : listed = {i \in shelf : <<NoteOf[i].project, NoteOf[i].type>> = Directories(scan.slug)[scan.dir]}
  OBVIOUS
<1>4. scan' = IF listed = {} THEN NextDirectory(scan) ELSE [scan EXCEPT !.at = "read", !.names = listed]
  BY <1>3 DEF ListDirectory
<1>5. CASE listed = {}
  <2>1. \A i \in scan.steady : Directories(scan.slug)[scan.dir] # <<NoteOf[i].project, NoteOf[i].type>>
    BY <1>2, <1>3, <1>5
  <2>. QED
    BY <1>1, <1>2, <1>4, <1>5, <2>1, Onward
<1>6. CASE listed # {}
  <2>1. PICK s : s = [scan EXCEPT !.at = "read", !.names = listed]
    OBVIOUS
  <2>2. listed \in SUBSET DOMAIN NoteOf
    BY <1>2, <1>3
  <2>3. /\ s \in ScanSet /\ s.at = "read" /\ s.names = listed /\ s.got = scan.got /\ s.dir = scan.dir
        /\ s.slug = scan.slug /\ s.mode = scan.mode /\ s.report = scan.report
        /\ s.steady = scan.steady /\ s.incomplete = scan.incomplete
    BY <1>2, <2>1, <2>2 DEF Reading, ScanSet
  <2>4. ReadSoFar(s)
    <3> SUFFICES ASSUME ~s.incomplete, NEW i \in s.steady, NoteOf[i].placed,
                        NEW d \in 1 .. Len(Directories(s.slug)),
                        Directories(s.slug)[d] = <<NoteOf[i].project, NoteOf[i].type>>
                 PROVE  /\ d < s.dir => i \in s.got
                        /\ d = s.dir => i \in s.got \cup s.names
      BY DEF ReadSoFar
    <3>1. d < s.dir => i \in s.got
      BY <1>2, <2>3 DEF Reading, ReadSoFar
    <3>2. d = s.dir => i \in listed
      BY <1>2, <1>3, <2>3
    <3>. QED
      BY <3>1, <3>2, <2>3
  <2>. QED
    BY <1>1, <1>2, <1>4, <1>6, <2>1, <2>3, <2>4 DEF ScanInv, Reading
<1>. QED
  BY <1>5, <1>6

LEMMA FailKeeps ==
    ASSUME ScanInv, ListFails
    PROVE  ScanInv' /\ ~briefing'.given
<1>1. scan.at = "list" /\ shelf' = shelf /\ spoiled' = spoiled /\ briefing' = briefing
      /\ scan' = NextDirectory([scan EXCEPT !.incomplete = TRUE])
  BY DEF ListFails
<1>2. Reading(scan) /\ ~briefing.given /\ scan.steady \subseteq shelf \ spoiled
      /\ shelf \subseteq DOMAIN NoteOf
  BY <1>1, UnderWay
<1>3. PICK s : s = [scan EXCEPT !.incomplete = TRUE]
  OBVIOUS
<1>4. /\ s \in ScanSet /\ s.incomplete = TRUE /\ s.dir = scan.dir /\ s.steady = scan.steady
      /\ s.slug = scan.slug /\ s.mode = scan.mode /\ s.report = scan.report
  BY <1>2, <1>3 DEF Reading, ScanSet
<1>5. Reading(s)
  BY <1>2, <1>4 DEF Reading, ReadSoFar
<1>. QED
  BY <1>1, <1>2, <1>3, <1>4, <1>5, Onward

LEMMA SmallestIs ==
    ASSUME NEW S, S \subseteq Nat, S # {}
    PROVE  \E n \in S : \A m \in S : n <= m
<1> SUFFICES ASSUME \A n \in S : \E m \in S : ~(n <= m) PROVE FALSE
  OBVIOUS
<1>1. PICK x \in S : TRUE
  OBVIOUS
<1> DEFINE T == {k \in 0 .. x : \A n \in S : k <= n}
<1>2. 0 \in T
  OBVIOUS
<1>3. ASSUME NEW k \in 0 .. x, k \in T, k < x PROVE k + 1 \in T
  <2>1. \A n \in S : k <= n
    BY <1>3
  <2>2. k \notin S
    BY <2>1
  <2>3. \A n \in S : k + 1 <= n
    BY <2>1, <2>2
  <2>. QED
    BY <1>3, <2>3
<1>4. \A k \in 0 .. x : k \in T
  <2> HIDE DEF T
  <2>. QED
    BY <1>2, <1>3, NumbersUpTo
<1>5. x \in 0 .. x
  OBVIOUS
<1>6. \A n \in S : x <= n
  BY <1>4, <1>5
<1>. QED
  BY <1>6

LEMMA ReadKeeps ==
    ASSUME ScanInv, ReadNext
    PROVE  ScanInv' /\ ~briefing'.given
<1>1. scan.at = "read" /\ shelf' = shelf /\ spoiled' = spoiled /\ briefing' = briefing
  BY DEF ReadNext
<1>2. Reading(scan) /\ ~briefing.given /\ scan.steady \subseteq shelf \ spoiled
      /\ shelf \subseteq DOMAIN NoteOf
  BY <1>1, UnderWay
<1>3. scan.names # {} /\ scan.names \in SUBSET DOMAIN NoteOf
  BY <1>1 DEF ScanInv, ScanSet
<1>4. PICK i : i = CHOOSE n \in scan.names : \A m \in scan.names : n <= m
  OBVIOUS
<1>5. i \in scan.names
  <2>1. scan.names \subseteq Nat
    BY <1>3, BriefingAssumption
  <2>. QED
    BY <1>3, <1>4, <2>1, SmallestIs
<1>6. PICK s : s = ReadOne(scan, i)
  OBVIOUS
<1>7. scan' = IF s.names = {} THEN NextDirectory(s) ELSE s
  BY <1>4, <1>6 DEF ReadNext
<1>8. /\ s \in ScanSet /\ s.at = "read" /\ s.dir = scan.dir /\ s.slug = scan.slug
      /\ s.mode = scan.mode /\ s.report = scan.report /\ s.steady = scan.steady
      /\ s.names = scan.names \ {i}
      /\ ~s.incomplete => ~scan.incomplete /\ s.got = scan.got \cup {i}
      /\ scan.got \subseteq s.got
  <2>1. CASE Readable(i)
    <3>1. s = [scan EXCEPT !.names = scan.names \ {i}, !.got = scan.got \cup {i}]
      BY <1>6, <2>1 DEF ReadOne
    <3>. QED
      BY <1>1, <1>2, <1>3, <1>5, <3>1 DEF Reading, ScanSet
  <2>2. CASE ~Readable(i)
    <3>1. s = [scan EXCEPT !.names = scan.names \ {i}, !.incomplete = TRUE]
      BY <1>6, <2>2 DEF ReadOne
    <3>. QED
      BY <1>1, <1>2, <1>3, <1>5, <3>1 DEF Reading, ScanSet
  <2>. QED
    BY <2>1, <2>2
<1>9. ReadSoFar(s)
  <2> SUFFICES ASSUME ~s.incomplete, NEW j \in s.steady, NoteOf[j].placed,
                      NEW d \in 1 .. Len(Directories(s.slug)),
                      Directories(s.slug)[d] = <<NoteOf[j].project, NoteOf[j].type>>
               PROVE  /\ d < s.dir => j \in s.got
                      /\ d = s.dir => j \in s.got \cup s.names
    BY DEF ReadSoFar
  <2>1. ~scan.incomplete /\ s.got = scan.got \cup {i}
    BY <1>8
  <2>2. d < scan.dir => j \in scan.got
    BY <1>2, <1>8, <2>1 DEF Reading, ReadSoFar
  <2>3. d = scan.dir => j \in scan.got \cup scan.names
    BY <1>1, <1>2, <1>8, <2>1 DEF Reading, ReadSoFar
  <2>. QED
    BY <1>8, <2>1, <2>2, <2>3
<1>10. Reading(s)
  BY <1>2, <1>8, <1>9 DEF Reading
<1>11. CASE s.names = {}
  <2>1. ~s.incomplete =>
           \A j \in s.steady : NoteOf[j].placed =>
              (Directories(s.slug)[s.dir] = <<NoteOf[j].project, NoteOf[j].type>> => j \in s.got)
    BY <1>8, <1>9, <1>10, <1>11 DEF ReadSoFar, Reading
  <2>. QED
    BY <1>1, <1>2, <1>7, <1>8, <1>10, <1>11, <2>1, Onward
<1>12. CASE s.names # {}
  BY <1>1, <1>2, <1>7, <1>8, <1>9, <1>10, <1>12 DEF ScanInv, Reading
<1>. QED
  BY <1>11, <1>12

LEMMA LimitKeeps ==
    ASSUME ScanInv, LimitReached
    PROVE  ScanInv' /\ ~briefing'.given
<1>1. scan.at \in {"list", "read"} /\ shelf' = shelf /\ spoiled' = spoiled /\ briefing' = briefing
      /\ scan' = [scan EXCEPT !.at = "compose", !.names = {}, !.incomplete = TRUE]
  BY DEF LimitReached
<1>2. Reading(scan) /\ ~briefing.given /\ scan.steady \subseteq shelf \ spoiled
      /\ shelf \subseteq DOMAIN NoteOf
  BY <1>1, UnderWay
<1>3. PICK s : s = scan'
  OBVIOUS
<1>4. /\ s \in ScanSet /\ s.at = "compose" /\ s.incomplete = TRUE
      /\ s.slug = scan.slug /\ s.mode = scan.mode /\ s.report = scan.report
  BY <1>1, <1>2, <1>3 DEF Reading, ScanSet
<1>. QED
  BY <1>1, <1>2, <1>3, <1>4 DEF ScanInv, Reading, ReadSoFar

LEMMA MeddleKeeps ==
    ASSUME ScanInv, NEW i \in DOMAIN NoteOf, NEW live, NEW bad, Meddle(live, bad, i),
           live \subseteq DOMAIN NoteOf, (shelf \ spoiled) \ {i} \subseteq live \ bad
    PROVE  ScanInv' /\ ~briefing'.given
<1>1. scan.at \in {"list", "read"} /\ shelf' = live /\ spoiled' = bad /\ briefing' = briefing
      /\ scan' = [scan EXCEPT !.steady = scan.steady \ {i}]
  BY DEF Meddle
<1>2. Reading(scan) /\ ~briefing.given /\ scan.steady \subseteq shelf \ spoiled
  BY <1>1, UnderWay
<1>3. PICK s : s = scan'
  OBVIOUS
<1>4. /\ s \in ScanSet /\ s.at = scan.at /\ s.dir = scan.dir /\ s.slug = scan.slug
      /\ s.mode = scan.mode /\ s.report = scan.report /\ s.steady = scan.steady \ {i}
      /\ s.names = scan.names /\ s.got = scan.got /\ s.incomplete = scan.incomplete
  BY <1>1, <1>2, <1>3 DEF Reading, ScanSet
<1>5. ReadSoFar(s)
  BY <1>2, <1>4 DEF Reading, ReadSoFar
<1>6. s.steady \subseteq live \ bad
  BY <1>2, <1>4
<1>7. s.at = "read" => s.names # {}
  BY <1>4 DEF ScanInv
<1>. QED
  BY <1>1, <1>2, <1>3, <1>4, <1>5, <1>6, <1>7 DEF ScanInv, Reading

LEMMA OthersKeep ==
    ASSUME ScanInv, NEW i \in DOMAIN NoteOf, Promoted(i) \/ RetiredNow(i) \/ Damaged(i)
    PROVE  ScanInv' /\ ~briefing'.given
<1>1. shelf \subseteq DOMAIN NoteOf
  BY DEF ScanInv
<1>2. CASE Promoted(i)
  <2>1. Meddle(shelf \cup {i}, spoiled, i)
    BY <1>2 DEF Promoted
  <2>. QED
    BY <1>1, <2>1, MeddleKeeps
<1>3. CASE RetiredNow(i)
  <2>1. Meddle(shelf \ {i}, spoiled \ {i}, i)
    BY <1>3 DEF RetiredNow
  <2>. QED
    BY <1>1, <2>1, MeddleKeeps
<1>4. CASE Damaged(i)
  <2>1. Meddle(shelf, spoiled \cup {i}, i)
    BY <1>4 DEF Damaged
  <2>. QED
    BY <1>1, <2>1, MeddleKeeps
<1>. QED
  BY <1>2, <1>3, <1>4

-----------------------------------------------------------------------------
(* The composition                                                          *)

LEMMA ScopeIs ==
    ASSUME NEW slug
    PROVE  Range(Scope(slug)) = IF slug = Slugless THEN {GlobalProject} ELSE {GlobalProject, slug}
<1>1. PICK p : p = Scope(slug)
  OBVIOUS
<1>2. CASE slug = Slugless
  <2>1. DOMAIN p = 1 .. 1 /\ p[1] = GlobalProject
    BY <1>1, <1>2 DEF Scope
  <2>2. \A k \in 1 .. 1 : k = 1
    OBVIOUS
  <2>. QED
    BY <1>1, <1>2, <2>1, <2>2 DEF Range
<1>3. CASE slug # Slugless
  <2>1. DOMAIN p = 1 .. 2 /\ p[1] = GlobalProject /\ p[2] = slug
    BY <1>1, <1>3 DEF Scope
  <2>2. \A k \in 1 .. 2 : k = 1 \/ k = 2
    OBVIOUS
  <2>. QED
    BY <1>1, <1>3, <2>1, <2>2 DEF Range
<1>. QED
  BY <1>2, <1>3

\* After a whole read, what is owed was read.
LEMMA OwedWasRead ==
    ASSUME ScanInv, scan.at = "compose", ~scan.incomplete, NEW i \in scan.steady,
           NoteOf[i].placed, NoteOf[i].project \in Range(Scope(scan.slug))
    PROVE  i \in scan.got
<1>1. scan \in ScanSet /\ Whole(scan) /\ ReadSoFar(scan) /\ scan.slug \in Matches
  BY DEF ScanInv
<1>2. i \in DOMAIN NoteOf
  BY <1>1 DEF ScanSet
<1>3. PICK d \in 1 .. Len(Directories(scan.slug)) :
         Directories(scan.slug)[d] = <<NoteOf[i].project, NoteOf[i].type>>
  BY <1>2, DirectoriesReach
<1>4. scan.dir \in Nat /\ Len(Directories(scan.slug)) \in Nat
  BY <1>1, DirectoriesReach DEF ScanSet
<1>5. d < scan.dir
  BY <1>1, <1>3, <1>4 DEF Whole
<1>. QED
  BY <1>1, <1>3, <1>5 DEF ReadSoFar

\* After a whole read, what is owed is safe and in the body.
LEMMA OwedIsInBody ==
    ASSUME ScanInv, scan.at = "compose", ~scan.incomplete
    PROVE  /\ Owed \subseteq InBody /\ Owed \subseteq Safe
           /\ LastSummary \subseteq OfType(scan.slug, {"summary"})
           /\ LastSummary # {} => scan.slug # Slugless
<1>1. scan.slug \in Matches /\ scan \in ScanSet
  BY DEF ScanInv
<1>2. scan.steady \in SUBSET DOMAIN NoteOf
  BY <1>1 DEF ScanSet
<1>3. ASSUME NEW i \in Owed PROVE i \in Safe /\ i \in InBody
  <2>1. /\ i \in scan.steady /\ NoteOf[i].project \in Range(Scope(scan.slug)) /\ NoteOf[i].placed
        /\ ~unsafe(i) /\ ~unsupportedScope(i) /\ NoteOf[i].type # "summary"
    BY DEF Owed
  <2>2. i \in Safe
    BY <2>1, OwedWasRead DEF Safe
  <2>3. NoteOf[i].type \in {"decision", "open", "learning"}
    <3>1. NoteOf[i].type \in {"decision", "open", "summary", "learning"}
      BY <1>2, <2>1, BriefingAssumption, TypesAre
    <3>. QED
      BY <2>1, <3>1
  <2>4. CASE NoteOf[i].project = GlobalProject
    <3>1. NoteOf[i].type \in {"learning", "decision"}
      BY <2>1, <2>3, <2>4 DEF unsupportedScope
    <3>. QED
      BY <2>2, <2>4, <3>1 DEF InBody, OfType
  <2>5. CASE NoteOf[i].project # GlobalProject
    <3>1. scan.slug # Slugless /\ NoteOf[i].project = scan.slug
      BY <2>1, <2>5, ScopeIs
    <3>. QED
      BY <2>2, <2>3, <3>1 DEF InBody, OfType, Working
  <2>. QED
    BY <2>2, <2>4, <2>5
<1>4. ASSUME NEW i \in LastSummary
      PROVE  i \in OfType(scan.slug, {"summary"}) /\ scan.slug # Slugless
  <2>1. /\ i \in scan.steady /\ NoteOf[i].project = scan.slug /\ NoteOf[i].type = "summary"
        /\ NoteOf[i].placed /\ ~unsafe(i)
    BY DEF LastSummary
  <2>2. scan.slug # Slugless /\ scan.slug # GlobalProject
    BY <1>1, <1>2, <2>1, BriefingAssumption
  <2>3. NoteOf[i].project \in Range(Scope(scan.slug))
    BY <2>1, <2>2, ScopeIs
  <2>4. i \in scan.got
    BY <2>1, <2>3, OwedWasRead
  <2>. QED
    BY <2>1, <2>2, <2>4 DEF OfType, Safe, unsupportedScope
<1>. QED
  BY <1>3, <1>4

LEMMA RoomIs ==
    ASSUME NEW heads \in Nat, NEW lim \in [LimitFields -> Nat]
    PROVE  Room(heads, lim) \in Nat
<1>1. lim.budget \in Nat /\ LineBytes \in Nat
  BY BriefingAssumption DEF LimitFields
<1>2. PICK spent \in Nat : spent = heads * LineBytes
  BY <1>1
<1>3. PICK all \in Nat : all = lim.budget
  BY <1>1
<1>4. Room(heads, lim) = IF all > spent THEN all - spent ELSE 0
  BY <1>2, <1>3 DEF Room
<1>. QED
  BY <1>2, <1>3, <1>4

\* What is kept of a body, and what is cut from it.
Parts(body, room, kept, cut) ==
    kept = Kept(body, room) /\ cut = SubSeq(body, Len(kept) + 1, Len(body))

\* What is kept of a body and what is cut from it, together.
LEMMA KeptAndCut ==
    ASSUME NEW body \in Seq(Lines), Ended(body), NEW room \in Nat, NEW kept, NEW cut,
           Parts(body, room, kept, cut)
    PROVE  /\ kept \in Seq(Lines) /\ cut \in Seq(Lines)
           /\ Shown(body) = Shown(kept) \cup Shown(cut)
           /\ Behind(body) = Behind(kept) + Behind(cut) /\ Behind(kept) \in Nat /\ Behind(cut) \in Nat
           /\ kept # body => Omitted(cut) > 0
<1>1. PICK k \in 0 .. Len(body) : kept = SubSeq(body, 1, k)
  BY KeptIsAStart DEF Parts
<1>2. Len(kept) = k
  BY <1>1
<1>3. CutAt(body, k, kept, cut)
  BY <1>1, <1>2 DEF CutAt, Parts
<1>4. /\ kept \in Seq(Lines) /\ cut \in Seq(Lines) /\ body = kept \o cut
      /\ Ended(cut) /\ Len(cut) = Len(body) - k
  <2>1. k \in 0 .. Len(body)
    BY <1>1
  <2>. QED
    BY <2>1, <1>3, CutInTwo
<1>5. Shown(body) = Shown(kept) \cup Shown(cut)
  BY <1>4, LinesJoin
<1>6. Behind(body) = Behind(kept) + Behind(cut) /\ Behind(kept) \in Nat /\ Behind(cut) \in Nat
  BY <1>4, BehindJoined
<1>7. kept # body => Omitted(cut) > 0
  <2>1. PICK n \in Nat : n = Len(body)
    OBVIOUS
  <2>2. cut = <<>> => k = n
    <3>1. cut = <<>> => n - k = 0
      BY <1>4, <2>1
    <3>. QED
      BY <1>1, <2>1, <3>1
  <2>3. k = n => kept = body
    BY <1>1, <2>1
  <2>. QED
    BY <1>4, <2>2, <2>3, OmittedCounts
<1>. QED
  BY <1>4, <1>5, <1>6, <1>7

\* A text that is empty, or the body.
IsBody(body, card, lim) == body = IF scan.mode = "manual" THEN <<>> ELSE Body(card, lim)

LEMMA BodyIs ==
    ASSUME NEW card, NEW lim \in [LimitFields -> Nat], Safe \subseteq DOMAIN NoteOf,
           NEW body, IsBody(body, card, lim)
    PROVE  /\ body \in Seq(Lines) /\ Ended(body) /\ Shown(body) \subseteq SafeHere
           /\ scan.mode # "manual" => Carries(body, InBody, SafeHere)
<1>1. CASE scan.mode = "manual"
  <2>1. body = <<>>
    BY <1>1 DEF IsBody
  <2>2. Carries(body, {}, SafeHere)
    BY <2>1, CarriesNothing
  <2>. QED
    BY <1>1, <2>2 DEF Carries
<1>2. CASE scan.mode # "manual"
  <2>1. body = Body(card, lim)
    BY <1>2 DEF IsBody
  <2>2. Carries(body, InBody, SafeHere)
    BY <2>1, BodyCarries
  <2>. QED
    BY <2>2 DEF Carries
<1>. QED
  BY <1>1, <1>2

\* What a briefing shows and leaves out of what it owes.
LEMMA LeftOut ==
    ASSUME ScanInv, scan.at = "compose", ~scan.incomplete, scan.mode # "manual",
           NEW card, NEW lim \in [LimitFields -> Nat], Safe \subseteq DOMAIN NoteOf,
           NEW body, IsBody(body, card, lim), NEW room \in Nat, NEW kept, NEW cut,
           Parts(body, room, kept, cut)
    PROVE  /\ Cardinality(Owed \ Shown(kept)) <= Behind(kept) + Omitted(cut) + Behind(cut)
           /\ LastSummary # {} /\ kept = body => \E i \in Shown(kept) : NoteOf[i].type = "summary"
<1>1. /\ body \in Seq(Lines) /\ Ended(body) /\ Carries(body, InBody, SafeHere)
  BY BodyIs
<1>2. /\ kept \in Seq(Lines) /\ cut \in Seq(Lines)
      /\ Shown(body) = Shown(kept) \cup Shown(cut)
      /\ Behind(body) = Behind(kept) + Behind(cut) /\ Behind(kept) \in Nat /\ Behind(cut) \in Nat
  BY <1>1, KeptAndCut
<1>3. IsFiniteSet(InBody) /\ Cardinality(InBody \ Shown(body)) <= Behind(body)
  BY <1>1 DEF Carries
<1>4. IsFiniteSet(InBody \ Shown(body))
  BY <1>3, FS_Difference
<1>5. /\ Omitted(cut) \in Nat /\ IsFiniteSet(Shown(cut)) /\ Cardinality(Shown(cut)) <= Omitted(cut)
  BY <1>2, OmittedCounts
<1>6. Owed \ Shown(kept) \subseteq (InBody \ Shown(body)) \cup Shown(cut)
  BY <1>2, OwedIsInBody
<1>7. /\ Cardinality(Owed \ Shown(kept)) \in Nat
      /\ Cardinality(InBody \ Shown(body)) \in Nat /\ Cardinality(Shown(cut)) \in Nat
      /\ Cardinality(Owed \ Shown(kept))
            <= Cardinality(InBody \ Shown(body)) + Cardinality(Shown(cut))
  BY <1>4, <1>5, <1>6, NoMoreThan
<1>8. Cardinality(Owed \ Shown(kept)) <= Behind(kept) + Omitted(cut) + Behind(cut)
  BY <1>2, <1>3, <1>5, <1>7
<1>9. ASSUME LastSummary # {}, kept = body PROVE \E i \in Shown(kept) : NoteOf[i].type = "summary"
  <2>1. scan.slug # Slugless /\ OfType(scan.slug, {"summary"}) # {}
    BY <1>9, OwedIsInBody
  <2>2. body = Body(card, lim)
    BY DEF IsBody
  <2>3. PICK i \in OfType(scan.slug, {"summary"}) : i \in Shown(body)
    BY <2>1, <2>2, BodyCarries
  <2>4. NoteOf[i].type = "summary"
    BY <2>3 DEF OfType
  <2>. QED
    BY <1>9, <2>3, <2>4
<1>. QED
  BY <1>8, <1>9

\* The counts of manual mode.
LEMMA ManualCounts ==
    ASSUME ScanInv, scan.at = "compose", ~scan.incomplete, NEW type
    PROVE  Cardinality(OfType(scan.slug, {type}))
              >= Cardinality({i \in Owed : NoteOf[i].project = scan.slug /\ NoteOf[i].type = type})
<1>1. PICK A : A = OfType(scan.slug, {type})
  OBVIOUS
<1>2. PICK B : B = {i \in Owed : NoteOf[i].project = scan.slug /\ NoteOf[i].type = type}
  OBVIOUS
<1>3. B \in SUBSET A
  BY <1>1, <1>2, OwedIsInBody DEF OfType
<1>4. IsFiniteSet(A)
  <2>1. A \in SUBSET DOMAIN NoteOf
    BY <1>1 DEF OfType, Safe, ScanInv, ScanSet
  <2>. QED
    BY <2>1, NotesAreNumbered, FS_Subset DEF Numbered
<1>5. Cardinality(B) <= Cardinality(A) /\ Cardinality(A) \in Nat /\ Cardinality(B) \in Nat
  BY <1>3, <1>4, FS_Subset, FS_CardinalityType
<1>. QED
  BY <1>1, <1>2, <1>5

LEMMA ComposeKeeps ==
    ASSUME ScanInv, NEW card, Compose(card)
    PROVE  ScanInv' /\ BriefingIsScoped' /\ BriefingIsHonest'
<1>1. scan.at = "compose" /\ shelf' = shelf /\ spoiled' = spoiled /\ scan' = [scan EXCEPT !.at = "done"]
  BY DEF Compose
<1>2. /\ scan \in ScanSet /\ scan.slug \in Matches /\ scan.mode \in Modes /\ scan.report \in Reports
      /\ scan.got \subseteq DOMAIN NoteOf
  BY <1>1 DEF ScanInv, ScanSet
<1>3. PICK lim : lim = limitsFor[scan.mode]
  OBVIOUS
<1>4. lim \in [LimitFields -> Nat]
  BY <1>2, <1>3, BriefingAssumption DEF LimitFields
<1>5. PICK warned : warned = scopedWarnings
  OBVIOUS
<1>6. PICK body : IsBody(body, card, lim)
  BY DEF IsBody
<1>7. PICK room : room = Room(HeadLines(warned, card), lim)
  OBVIOUS
<1>8. PICK kept, cut : Parts(body, room, kept, cut)
  BY DEF Parts
<1>9. PICK given : given = briefing'
  OBVIOUS
<1>10. given = Given(body, kept, warned)
  BY <1>3, <1>5, <1>6, <1>7, <1>8, <1>9 DEF Compose, IsBody, Parts
<1>11. /\ given.given = TRUE /\ given.lines = kept /\ given.truncated = (kept # body)
       /\ given.omitted = Omitted(cut) /\ given.behind = Behind(cut) /\ given.warnings = warned
       /\ given.open = Cardinality(OfType(scan.slug, {"open"}))
       /\ given.decisions = Cardinality(OfType(scan.slug, {"decision"}))
  BY <1>8, <1>10 DEF Given, Parts
<1>12. PICK t : t = scan'
  OBVIOUS
<1>13. /\ t \in ScanSet /\ t.at = "done" /\ t.slug = scan.slug /\ t.mode = scan.mode
       /\ t.report = scan.report /\ t.dir = scan.dir /\ t.got = scan.got /\ t.names = scan.names
       /\ t.steady = scan.steady /\ t.incomplete = scan.incomplete
  BY <1>1, <1>2, <1>12 DEF ScanSet
<1>14. Safe \subseteq DOMAIN NoteOf
  BY <1>2 DEF Safe
<1>15. Len(warned) \in Nat /\ \A k \in DOMAIN warned : warned[k].ids \subseteq Tellable
  BY <1>2, <1>5, WarningsAreScoped
<1>16. room \in Nat
  <2>1. HeadLines(warned, card) \in Nat
    <3>1. PICK n \in Nat : n = Len(warned)
      BY <1>15
    <3>2. PICK a \in Nat : a = IF scan.incomplete THEN 1 ELSE 0
      OBVIOUS
    <3>3. PICK b \in Nat : b = IF card = "withheld" THEN 1 ELSE 0
      OBVIOUS
    <3>4. HeadLines(warned, card) = n + a + b
      BY <3>1, <3>2, <3>3 DEF HeadLines
    <3>. QED
      BY <3>4
  <2>. QED
    BY <1>4, <1>7, <2>1, RoomIs
<1>17. /\ body \in Seq(Lines) /\ Ended(body) /\ Shown(body) \subseteq SafeHere
  BY <1>4, <1>6, <1>14, BodyIs
<1>18. /\ Shown(body) = Shown(kept) \cup Shown(cut) /\ (kept # body => Omitted(cut) > 0)
  BY <1>8, <1>16, <1>17, KeptAndCut
<1>19. Delivered' = Shown(kept)
  BY <1>9, <1>11 DEF Delivered, Shown
<1>20. ScanInv'
  <2>1. ~t.incomplete => Whole(t)
    BY <1>1, <1>13 DEF ScanInv, Whole
  <2>2. ReadSoFar(t)
    BY <1>1, <1>13 DEF ScanInv, ReadSoFar
  <2>. QED
    BY <1>1, <1>2, <1>9, <1>11, <1>12, <1>13, <2>1, <2>2 DEF ScanInv
<1>21. BriefingIsScoped'
  <2>1. Flagged' \subseteq Tellable
    BY <1>9, <1>11, <1>15 DEF Flagged
  <2>2. Delivered' \subseteq SafeHere
    BY <1>17, <1>18, <1>19
  <2>3. \A i \in SafeHere : /\ NoteOf[i].project \in {scan.slug, GlobalProject}
                            /\ ~unsafe(i) /\ ~unsupportedScope(i)
    BY DEF SafeHere, Safe
  <2>4. \A i \in Tellable : /\ NoteOf[i].project \in {scan.slug, GlobalProject}
                            /\ NoteOf[i].project = GlobalProject => ~unsafe(i) /\ ~unsupportedScope(i)
    BY DEF Tellable
  <2>. QED
    BY <1>12, <1>13, <2>1, <2>2, <2>3, <2>4 DEF BriefingIsScoped, unsafe, unsupportedScope
<1>22. BriefingIsHonest'
  <2> SUFFICES ASSUME ~scan.incomplete PROVE BriefingIsHonest'
    BY <1>12, <1>13 DEF BriefingIsHonest
  <2>1. Owed' = Owed /\ LastSummary' = LastSummary
    BY <1>12, <1>13 DEF Owed, LastSummary, unsafe, unsupportedScope
  <2>2. CASE scan.mode = "manual"
    <3>1. /\ given.open >= Cardinality({i \in Owed : NoteOf[i].project = scan.slug /\ NoteOf[i].type = "open"})
          /\ given.decisions >= Cardinality({i \in Owed : NoteOf[i].project = scan.slug
                                                          /\ NoteOf[i].type = "decision"})
      BY <1>1, <1>11, ManualCounts
    <3>. QED
      BY <1>9, <1>12, <1>13, <2>1, <2>2, <3>1 DEF BriefingIsHonest
  <2>3. CASE scan.mode # "manual"
    <3>1. /\ Cardinality(Owed \ Shown(kept)) <= Behind(kept) + Omitted(cut) + Behind(cut)
          /\ LastSummary # {} /\ kept = body => \E i \in Shown(kept) : NoteOf[i].type = "summary"
      BY <1>1, <1>4, <1>6, <1>8, <1>14, <1>16, <2>3, LeftOut
    <3>2. Unseen' = Owed \ Shown(kept)
      BY <1>19, <2>1 DEF Unseen
    <3>. QED
      BY <1>9, <1>11, <1>12, <1>13, <1>18, <1>19, <2>1, <2>3, <3>1, <3>2 DEF BriefingIsHonest
  <2>. QED
    BY <2>2, <2>3
<1>. QED
  BY <1>20, <1>21, <1>22

-----------------------------------------------------------------------------

BriefInv == ScanInv /\ BriefingIsScoped /\ BriefingIsHonest

LEMMA BriefStarts == BriefingInit => BriefInv
<1> SUFFICES ASSUME BriefingInit PROVE BriefInv
  OBVIOUS
<1>1. ~briefing.given
  BY DEF BriefingInit, NoBriefing
<1>. QED
  BY <1>1, ScanStarts DEF BriefInv, BriefingIsScoped, BriefingIsHonest

LEMMA BriefKeeps == BriefInv /\ [BriefingNext]_briefingVars => BriefInv'
<1> SUFFICES ASSUME BriefInv, [BriefingNext]_briefingVars PROVE BriefInv'
  OBVIOUS
<1> USE DEF BriefInv
<1>1. ASSUME ScanInv', ~briefing'.given PROVE BriefInv'
  BY <1>1 DEF BriefingIsScoped, BriefingIsHonest
<1>2. CASE \E slug \in Matches, mode \in Modes, r \in Reports : BeginScan(slug, mode, r)
  BY <1>1, <1>2, BeginKeeps
<1>3. CASE ListDirectory
  BY <1>1, <1>3, ListKeeps
<1>4. CASE ListFails
  BY <1>1, <1>4, FailKeeps
<1>5. CASE ReadNext
  BY <1>1, <1>5, ReadKeeps
<1>6. CASE LimitReached
  BY <1>1, <1>6, LimitKeeps
<1>7. CASE \E card \in Cards : Compose(card)
  BY <1>7, ComposeKeeps
<1>8. CASE \E i \in DOMAIN NoteOf : Promoted(i) \/ RetiredNow(i) \/ Damaged(i)
  BY <1>1, <1>8, OthersKeep
<1>9. CASE UNCHANGED briefingVars
  BY <1>9 DEF briefingVars, ScanInv, Whole, ReadSoFar, BriefingIsScoped, BriefingIsHonest,
     Delivered, Flagged, Unseen, Owed, LastSummary, unsafe, unsupportedScope
<1>. QED
  BY <1>2, <1>3, <1>4, <1>5, <1>6, <1>7, <1>8, <1>9 DEF BriefingNext

\* A briefing names notes of its project and everyone's notes only, shows none
\* that the screen refuses, and never names one of everyone's notes that is
\* refused or holds the state of some project. (briefing.go:132-205)
THEOREM BriefingsStayInScope == BriefingSpec => []BriefingIsScoped
<1>1. BriefInv => BriefingIsScoped
  BY DEF BriefInv
<1>. QED
  BY <1>1, BriefStarts, BriefKeeps, PTL DEF BriefingSpec

\* A note that is live and readable during the whole read is shown or counted,
\* else the briefing says that the read is incomplete, whoever adds, retires or
\* damages notes meanwhile. (briefing.go:132-245, vault.go:486-543)
THEOREM BriefingsAreHonest == BriefingSpec => []BriefingIsHonest
<1>1. BriefInv => BriefingIsHonest
  BY DEF BriefInv
<1>. QED
  BY <1>1, BriefStarts, BriefKeeps, PTL DEF BriefingSpec

=============================================================================
