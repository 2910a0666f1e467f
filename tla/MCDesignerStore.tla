---------------------------- MODULE MCDesignerStore ----------------------------
(* TLC instances of DesignerStore: the commands that callers send. *)
EXTENDS DesignerStore, TLC

CONSTANTS d1, d2, sch, pcb, x, y, c1, c2

OneDesign == {d1}
TwoSessions == {sch, pcb}
TwoConnections == {c1, c2}
TwoCells == {x, y}
SomeValues == 0..2
FewBases == {-1, 1}

Edit(i, s, kind, cell, value) ==
    [id |-> i, design |-> d1, session |-> s,
     command |-> [kind |-> kind, cell |-> cell, value |-> value,
                  confirmMerge |-> FALSE]]

\* A placement and an edit of one session and an edit of the other, sent again
\* and again, and an edit that reuses the id of the placement.
MixedRequests ==
    {Edit(1, sch, "place", x, 1), Edit(2, sch, "edit", x, 2),
     Edit(1, sch, "edit", x, 2), Edit(3, pcb, "edit", y, 1)}

Symmetry == Permutations({c1, c2})
===============================================================================
