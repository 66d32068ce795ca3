------------------------- MODULE MCCaptureAccounting -------------------------
(* Instances of CaptureAccounting for TLC.                                  *)
EXTENDS CaptureAccounting, TLC

CONSTANTS a, b, s, r, i1, i2

OneCapturer  == {a}
TwoCapturers == {a, b}
OneRecorder  == {s}
BothKinds    == {a, s}
OneReader    == {r}
TwoInodes    == {i1, i2}
Nobody       == {}

InodeSymmetry == Permutations(Inodes)
=============================================================================
