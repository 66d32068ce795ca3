--------------------------- MODULE MCPhysicalPurge ---------------------------
(* Instances of PhysicalPurge for TLC.                                      *)
EXTENDS PhysicalPurge, TLC

CONSTANTS a, b, personal, worksafe, o, q, keyA, sourceS

TwoRecords  == {a, b}
TwoProfiles == {personal, worksafe}
OneObs      == {o}
OneResolver == {q}
TwoKeys     == {keyA, sourceS}
OneSource   == {sourceS}

\* Both records come from the source, which is not cleared for work.
KeyCovers   == (keyA :> {a}) @@ (sourceS :> {a, b})
PersonalOnly == (personal :> {a, b}) @@ (worksafe :> {})
ObsRestates == o :> {a}
None        == {}
SharedB     == {b}
=============================================================================
