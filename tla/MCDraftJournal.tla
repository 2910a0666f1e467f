----------------------------- MODULE MCDraftJournal -----------------------------
(* TLC instances of DraftJournal: the drafts.                                  *)
EXTENDS DraftJournal

CONSTANTS snap1, snap2

TwoDrafts == {snap1, snap2}
===============================================================================
