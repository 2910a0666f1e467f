----------------------------- MODULE MCCommandPath -----------------------------
(* TLC instances of CommandPath: what the user and the other writers do. *)
EXTENDS CommandPath, TLC

CONSTANTS d1, sch, x, c1, c2, place, edit, undo, none

OneDesign == {d1}
OneSession == {sch}
OneConnection == {c1}
TwoConnections == {c1, c2}
OneCell == {x}
SomeValues == 0..3

Cmd(kind, value) ==
    [kind |-> kind, cell |-> x, value |-> value, confirmMerge |-> FALSE]
Act(kind, command) == [kind |-> kind, session |-> sch, command |-> command]

PlaceEditUndo == {place, edit, undo}
EditAndUndo == {edit, undo}
Actions == [i \in Inputs |->
              CASE i = place -> Act("command", Cmd("place", 1))
                [] i = edit  -> Act("command", Cmd("edit", 2))
                [] i = undo -> Act("undo", Cmd("edit", 0))]

NobodyElse == {}
OneWriter == {[id |-> 100, design |-> d1, session |-> sch,
               command |-> Cmd("edit", 3)]}

Symmetry == Permutations({c1, c2})
===============================================================================
