--------------------------- MODULE MCRevisionQueue ---------------------------
(* TLC instances of RevisionQueue: values of the constants.   *)
EXTENDS RevisionQueue

CONSTANTS d1, d2, i1, i2, i3

TwoDesigns == {d1, d2}
ThreeInputs == {i1, i2, i3}
SomeRevisions == 0..1
===============================================================================
