-------------------------------- MODULE PageRow --------------------------------
(***************************************************************************)
(* One row of knowledge_page, as far as the guard of a save goes           *)
(* (src/modules/knowledge/backend/db/repositories/page-repository.ts).     *)
(* The token of a save is the row's updated_at, in milliseconds.           *)
(***************************************************************************)
EXTENDS Naturals

CONSTANTS Field, Texts

Row == [text : [Field -> Texts], revision : Nat, at : Nat, live : BOOLEAN]

NewRow(text, now) == [text |-> text, revision |-> 1, at |-> now, live |-> TRUE]

Later(m, n) == IF m < n THEN n ELSE m

\* The WHERE clause of updateMeta and updateContent.
Accepts(row, token) == row.live /\ row.at = token

\* Their SET clause.  Mutant of SavedAt: the clock alone.
ClockAlone(row, now) == now

SavedAt(row, now) == Later(row.at + 1, now)

Saved(row, field, value, now) ==
    [text |-> [row.text EXCEPT ![field] = value],
     revision |-> row.revision + 1,
     at |-> SavedAt(row, now),
     live |-> row.live]

\* move: a new updated_at, the same revision.
Moved(row, now) == [row EXCEPT !.at = now]

Removed(row) == [row EXCEPT !.live = FALSE]

Restored(row, now) == [row EXCEPT !.live = TRUE, !.at = now]
=============================================================================
