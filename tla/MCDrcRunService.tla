---------------------------- MODULE MCDrcRunService ----------------------------
(* TLC instances of DrcRunService: the callers and the designs.             *)
EXTENDS DrcRunService

CONSTANTS c1, c2, d1, d2

TwoCallers == {c1, c2}
TwoDesigns == {d1, d2}
===============================================================================
