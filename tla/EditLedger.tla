------------------------------ MODULE EditLedger ------------------------------
(***************************************************************************)
(* What the designer promises the person editing: every edit that was      *)
(* handed to the command queue stays accounted for until it is             *)
(* acknowledged, declined in the net-merge dialog, or discarded.           *)
(*                                                                         *)
(* An edit under "review" is known not to have been applied and may be     *)
(* sent again; an "uncertain" edit may have been applied (the answer was   *)
(* lost), so it is never sent again.  RevisionQueue implements this.       *)
(***************************************************************************)
CONSTANT Inputs   \* the edits a user may make, each made at most once

VARIABLE fate     \* what became of each edit

Fates == {"new", "open", "review", "uncertain",
          "acknowledged", "declined", "discarded"}

TypeOK == fate \in [Inputs -> Fates]

Move(i, from, to) == fate[i] = from /\ fate' = [fate EXCEPT ![i] = to]

Init == fate = [i \in Inputs |-> "new"]

Make(i)        == Move(i, "new", "open")
Acknowledge(i) == Move(i, "open", "acknowledged")
Decline(i)     == Move(i, "open", "declined")
Hold(i)        == Move(i, "open", "review")
Doubt(i)       == Move(i, "open", "uncertain")
Resend(i)      == Move(i, "review", "open")

\* Discarding gives up a whole set of held edits in one confirmed action.
Discard(held) ==
    /\ \A i \in held : fate[i] \in {"review", "uncertain"}
    /\ fate' = [i \in Inputs |-> IF i \in held THEN "discarded" ELSE fate[i]]

Next ==
    \/ \E i \in Inputs :
          \/ Make(i) \/ Acknowledge(i) \/ Decline(i)
          \/ Hold(i) \/ Doubt(i) \/ Resend(i)
    \/ \E held \in SUBSET Inputs : Discard(held)

Spec == Init /\ [][Next]_fate
===============================================================================
