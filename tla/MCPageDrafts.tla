----------------------------- MODULE MCPageDrafts -----------------------------
(* TLC instances of PageDrafts.                                                *)
EXTENDS PageDrafts

TitleAndBody == {"title", "content"}
TwoTexts == {"old", "new"}
===============================================================================
