------------------------------- MODULE PageStore -------------------------------
(***************************************************************************)
(* The page service of the knowledge module                                *)
(* (src/modules/knowledge/backend/services/page-service.ts and its         *)
(* repository) under several windows, agents or scripts that each read a   *)
(* page and save it under the token of what they read.  A row is changed   *)
(* by one UPDATE statement, so a step is atomic; the clock is Date.now().  *)
(***************************************************************************)
EXTENDS PageRow

CONSTANTS
    Clients,
    Nothing         \* a client that holds no page

VARIABLES row, now, copy    \* copy[c]: the page as client c last saw it
vars == <<row, now, copy>>

TypeOK ==
    /\ row \in Row
    /\ now \in Nat
    /\ copy \in [Clients -> Row \cup {Nothing}]
    /\ \A c \in Clients : copy[c] # Nothing => copy[c].live

Init ==
    /\ now = 0
    /\ \E text \in [Field -> Texts] : row = NewRow(text, 0)
    /\ copy = [c \in Clients |-> Nothing]

Tick ==
    /\ now' = now + 1
    /\ UNCHANGED <<row, copy>>

\* getPage
Read(c) ==
    /\ row.live
    /\ copy' = [copy EXCEPT ![c] = row]
    /\ UNCHANGED <<row, now>>

\* updatePageMeta and updatePageContent with If-Unmodified-Since: the answer
\* carries the new row.
Save(c, field, value) ==
    /\ copy[c] # Nothing
    /\ Accepts(row, copy[c].at)
    /\ row' = Saved(row, field, value, now)
    /\ copy' = [copy EXCEPT ![c] = row']
    /\ UNCHANGED now

\* PageContentConflictError carries the current page, PAGE_DELETED none.
Refused(c) ==
    /\ copy[c] # Nothing
    /\ ~Accepts(row, copy[c].at)
    /\ copy' = [copy EXCEPT ![c] = IF row.live THEN row ELSE Nothing]
    /\ UNCHANGED <<row, now>>

Move ==
    /\ row.live
    /\ row' = Moved(row, now)
    /\ UNCHANGED <<now, copy>>

Delete ==
    /\ row.live
    /\ row' = Removed(row)
    /\ UNCHANGED <<now, copy>>

Restore ==
    /\ row' = Restored(row, now)
    /\ UNCHANGED <<now, copy>>

Next ==
    \/ Tick \/ Move \/ Delete \/ Restore
    \/ \E c \in Clients :
        \/ Read(c) \/ Refused(c)
        \/ \E field \in Field, value \in Texts : Save(c, field, value)

Spec == Init /\ [][Next]_vars

-----------------------------------------------------------------------------
\* A token that a save would still be accepted under belongs to the revision
\* that is stored: of two saves under one token at most one is accepted, and
\* none replaces what its author has not seen, in whatever millisecond they
\* are made ("simultaneous writes using one token acknowledge exactly one
\* mutation", knowledge-page-save-conflict.test.ts).
TokenNamesOneRevision ==
    \A c \in Clients : copy[c] # Nothing =>
        (Accepts(row, copy[c].at) => copy[c].revision = row.revision)

\* What it takes: move and restore write the clock without looking at the
\* token, which saves may have pushed up to it or past it.
MovesComeLater == [][Move \/ Restore => row.at < now]_vars
=============================================================================
