----------------------------- MODULE DraftRegister -----------------------------
(***************************************************************************)
(* What the journal of a page's draft promises to the editor that feeds    *)
(* it, tokens and generations aside: it is handed the draft that is wanted *)
(* on disk, again and again, puts one at a time there, and says durable    *)
(* only of the newest.  A write that failed may or may not have landed; it *)
(* is the first to be tried again.                                         *)
(***************************************************************************)
CONSTANTS
    Drafts,
    NoDraft,        \* nothing retained
    Nothing         \* no write under way

VARIABLES
    wanted,     \* the draft to retain
    underway,   \* the one being written, kept while its fate is unknown
    stored,     \* the one on disk
    state       \* what the editor is told

rvars == <<wanted, underway, stored, state>>

Retained == Drafts \cup {NoDraft}
State == {"loading", "durable", "writing", "error", "blocked"}

Init ==
    /\ stored \in Retained
    /\ wanted = stored
    /\ underway = Nothing
    /\ state = "loading"

\* The record is read; one that cannot be is neither shown nor replaced.
Open ==
    /\ state = "loading"
    /\ state' \in {"durable", "blocked"}
    /\ UNCHANGED <<wanted, underway, stored>>

Want(v) ==
    /\ state # "loading"
    /\ wanted' = v
    /\ IF state \in {"error", "blocked"} THEN UNCHANGED <<underway, state>>
       ELSE IF underway = Nothing /\ v = NoDraft /\ stored = NoDraft
         THEN state' = "durable" /\ UNCHANGED underway
         ELSE /\ state' = "writing"
              /\ underway' = IF underway = Nothing THEN v ELSE underway
    /\ UNCHANGED stored

Land ==
    /\ state = "writing"
    /\ stored' = underway
    /\ UNCHANGED <<wanted, underway, state>>

\* The write is acknowledged; a draft wanted since is next.
Answer ==
    /\ state = "writing" /\ stored = underway
    /\ \/ wanted = underway /\ underway' = Nothing /\ state' = "durable"
       \/ underway' = wanted /\ UNCHANGED state
    /\ UNCHANGED <<wanted, stored>>

Fail ==
    /\ state = "writing"
    /\ state' = "error"
    /\ UNCHANGED <<wanted, underway, stored>>

Retry ==
    /\ state = "error"
    /\ state' = "writing"
    /\ UNCHANGED <<wanted, underway, stored>>

\* The window is closed, reloaded or killed, and opened again: a write that
\* was under way may have landed.
Restart ==
    /\ stored' \in {stored} \cup (IF state = "writing" THEN {underway} ELSE {})
    /\ wanted' = stored'
    /\ underway' = Nothing
    /\ state' = "loading"

Next ==
    \/ \E v \in Retained : Want(v)
    \/ Open \/ Land \/ Answer \/ Fail \/ Retry \/ Restart

Spec == Init /\ [][Next]_rvars
=============================================================================
