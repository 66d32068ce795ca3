---------------------------- MODULE MCBrainDoctor ----------------------------
(* Instances of BrainDoctor for TLC.                                        *)
EXTENDS BrainDoctor, TLC

CONSTANTS a, b, c

Budget(faults, archives, edits) == [faults |-> faults, archives |-> archives, edits |-> edits]
OneFault  == {Budget(1, 0, 0)}
OneEach   == {Budget(1, 1, 0)}
Disturbed == {Budget(2, 1, 0), Budget(1, 1, 1)}

\* One topic: a first decision, two recaptures of it, and another decision
\* captured between them whose file sorts after theirs.
TopicIds    == 1 .. 4
TopicKind   == [n \in TopicIds |-> "decision"]
OneTopic    == [n \in TopicIds |-> "t"]
TopicClaim  == (1 :> a) @@ (2 :> a) @@ (3 :> a) @@ (4 :> b)
TopicTime   == (1 :> 1) @@ (2 :> 3) @@ (3 :> 3) @@ (4 :> 2)

\* The same topic with a proposal that the gate refuses.
TopicIds5   == 1 .. 5
TopicKind5  == (5 :> "other") @@ TopicKind
OneTopic5   == (5 :> "none") @@ OneTopic
TopicClaim5 == (5 :> c) @@ TopicClaim
TopicTime5  == (5 :> 2) @@ TopicTime

\* A summary of the global project, which sorts first, a decision and its
\* recapture, and two summaries of one instant.
MixedIds    == 0 .. 4
GlobalFirst == {0}
MixedKind   == (0 :> "summary") @@ (1 :> "decision") @@ (2 :> "decision")
                 @@ (3 :> "summary") @@ (4 :> "summary")
MixedTopic  == (0 :> "none") @@ (1 :> "t") @@ (2 :> "t") @@ (3 :> "none") @@ (4 :> "none")
MixedClaim  == (0 :> c) @@ (1 :> a) @@ (2 :> a) @@ (3 :> b) @@ (4 :> c)
MixedTime   == (0 :> 1) @@ (1 :> 1) @@ (2 :> 2) @@ (3 :> 1) @@ (4 :> 1)
Nothing     == {}
=============================================================================
