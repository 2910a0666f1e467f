----------------------------- MODULE DraftJournal -----------------------------
(***************************************************************************)
(* The journal of one page's draft in the window                           *)
(* (src/modules/knowledge/frontend/lib/page-draft-journal.ts): snapshots   *)
(* are handed over synchronously, one compare-and-swap operation is under  *)
(* way at a time, and an operation whose answer was lost is kept and       *)
(* repeated as it was.  The bridge and the store behind it are one atomic  *)
(* step that may fail before or after it took effect; AtomicRecord shows   *)
(* that it is one.                                                         *)
(***************************************************************************)
EXTENDS Naturals

CONSTANTS
    Drafts,
    NoDraft,        \* nothing retained: null
    Nothing,        \* no desired draft, no operation
    MaxSets,        \* bound on the snapshots handed over
    MaxFailures,    \* bound on operations that fail
    MaxRestarts     \* bound on windows closed or killed

Retained == Drafts \cup {NoDraft}
Token == Nat            \* 0: no record
Disk == [token : Token, value : Retained]
Desired == [generation : Nat, value : Retained]
Attempt == [generation : Nat, token : Token, expected : Token, value : Retained]

ASSUME NoDraftAssumption == NoDraft \notin Drafts
ASSUME NothingAssumption == Nothing \notin Retained \cup Desired \cup Attempt
ASSUME BoundsAssumption == {MaxSets, MaxFailures, MaxRestarts} \subseteq Nat

VARIABLES
    disk,       \* the stored record: a token and a draft, or no draft
    status,
    token,      \* of the record last known to be stored
    desired,    \* the newest snapshot and its generation
    attempt,    \* the operation to settle next
    acknowledged,
    call,       \* the bridge call: none, sent, or executed but not answered
    generation, tokens, failures, restarts  \* counters

journal == <<status, token, desired, attempt, acknowledged, call, generation>>
vars == <<disk, journal, tokens, failures, restarts>>

TypeOK ==
    /\ disk \in Disk /\ (disk.token = 0 <=> disk.value = NoDraft)
    /\ status \in {"loading", "writing", "durable", "error", "blocked"}
    /\ token \in Token
    /\ desired \in Desired \cup {Nothing}
    /\ attempt \in Attempt \cup {Nothing}
    /\ {acknowledged, generation, tokens} \subseteq Nat
    /\ call \in {"none", "sent", "executed"}
    /\ failures \in 0..MaxFailures
    /\ restarts \in 0..MaxRestarts

Fresh ==
    /\ status = "loading"
    /\ token = 0
    /\ desired = Nothing
    /\ attempt = Nothing
    /\ acknowledged = 0
    /\ call = "none"
    /\ generation = 0

Init ==
    /\ tokens = 1
    /\ disk \in {[token |-> 0, value |-> NoDraft]} \cup [token : {1}, value : Drafts]
    /\ Fresh
    /\ failures = 0
    /\ restarts = 0

-----------------------------------------------------------------------------
Load ==
    /\ status = "loading"
    /\ token' = disk.token
    /\ status' = "durable"
    /\ UNCHANGED <<disk, desired, attempt, acknowledged, call, generation, tokens,
                   failures, restarts>>

\* block: "blocked" is status "error" with the flag that forbids retries.
LoadFails ==
    /\ status = "loading"
    /\ failures < MaxFailures
    /\ failures' = failures + 1
    /\ status' = "blocked"
    /\ UNCHANGED <<disk, token, desired, attempt, acknowledged, call, generation,
                   tokens, restarts>>

\* A write under a new token, a removal (token 0), or nothing to do.
NextAttempt(d, known) ==
    IF d.value = NoDraft /\ known = 0 THEN Nothing
    ELSE [generation |-> d.generation,
          token |-> IF d.value = NoDraft THEN 0 ELSE tokens + 1,
          expected |-> known,
          value |-> d.value]

\* drain, up to its next await: the attempt that is kept comes first; with
\* none, and nothing to do for d, the snapshot is durable.
Drain(kept, d, known) ==
    LET a == IF kept = Nothing THEN NextAttempt(d, known) ELSE kept
    IN  /\ attempt' = a
        /\ tokens' = IF kept = Nothing /\ a # Nothing /\ a.token # 0
                     THEN tokens + 1 ELSE tokens
        /\ IF a = Nothing
             THEN status' = "durable" /\ call' = "none" /\ acknowledged' = d.generation
             ELSE status' = "writing" /\ call' = "sent" /\ UNCHANGED acknowledged

\* Mutant of Set: a snapshot handed over while a call is out replaces the
\* operation that the call carries.
SetReplacesAttempt(v) ==
    /\ status # "loading"
    /\ generation < MaxSets
    /\ desired # Nothing => desired.value # v
    /\ generation' = generation + 1
    /\ desired' = [generation |-> generation + 1, value |-> v]
    /\ IF status \in {"error", "blocked"}
         THEN UNCHANGED <<status, attempt, acknowledged, call, tokens>>
         ELSE Drain(Nothing, desired', token)
    /\ UNCHANGED <<disk, token, failures, restarts>>

\* A snapshot is handed over.  It starts a drain unless one runs; after an
\* error it waits for the retry.
Set(v) ==
    /\ status # "loading"
    /\ generation < MaxSets
    /\ desired # Nothing => desired.value # v
    /\ generation' = generation + 1
    /\ desired' = [generation |-> generation + 1, value |-> v]
    /\ IF status \in {"error", "blocked"} \/ call # "none"
         THEN UNCHANGED <<status, attempt, acknowledged, call, tokens>>
         ELSE Drain(attempt, desired', token)
    /\ UNCHANGED <<disk, token, failures, restarts>>

\* Mutant of Retry: a retry starts a new operation instead of repeating the
\* one whose answer was lost.
RetryAfresh ==
    /\ status = "error" /\ desired # Nothing
    /\ Drain(Nothing, desired, token)
    /\ UNCHANGED <<disk, token, desired, generation, failures, restarts>>

Retry ==
    /\ status = "error" /\ desired # Nothing
    /\ Drain(attempt, desired, token)
    /\ UNCHANGED <<disk, token, desired, generation, failures, restarts>>

\* The store: compare and swap, or the exact record again.
Accepts(a) ==
    \/ disk.token = a.expected
    \/ disk.token = a.token /\ disk.value = a.value

Outcome(a) == [token |-> a.token, value |-> a.value]

Execute ==
    /\ call = "sent" /\ Accepts(attempt)
    /\ disk' = Outcome(attempt)
    /\ call' = "executed"
    /\ UNCHANGED <<status, token, desired, attempt, acknowledged, generation, tokens,
                   failures, restarts>>

\* The answer.  A snapshot of a later generation is written next.
Acknowledged ==
    /\ call = "executed"
    /\ token' = attempt.token
    /\ IF attempt.generation = desired.generation
         THEN /\ attempt' = Nothing /\ status' = "durable" /\ call' = "none"
              /\ acknowledged' = desired.generation
              /\ UNCHANGED tokens
         ELSE Drain(Nothing, desired, attempt.token)
    /\ UNCHANGED <<disk, desired, generation, failures, restarts>>

\* The call is rejected, before or after it took effect; the operation is kept.
\* (A refusal by the store would end here too: OwnWritesAreAccepted.)
CallFails ==
    /\ call # "none"
    /\ failures < MaxFailures
    /\ failures' = failures + 1
    /\ status' = "error"
    /\ call' = "none"
    /\ UNCHANGED <<disk, token, desired, attempt, acknowledged, generation, tokens,
                   restarts>>

\* The window goes; the call it sent may still be executed, before the next
\* window reads the record.
Restart ==
    /\ restarts < MaxRestarts
    /\ restarts' = restarts + 1
    /\ disk' \in {disk} \cup (IF call = "sent" /\ Accepts(attempt)
                              THEN {Outcome(attempt)} ELSE {})
    /\ status' = "loading"
    /\ token' = 0
    /\ desired' = Nothing
    /\ attempt' = Nothing
    /\ acknowledged' = 0
    /\ call' = "none"
    /\ generation' = 0
    /\ UNCHANGED <<tokens, failures>>

Next ==
    \/ Load \/ LoadFails
    \/ \E v \in Retained : Set(v)
    \/ Retry \/ Execute \/ Acknowledged \/ CallFails \/ Restart

\* The bridge answers; the user, shown an error, retries.
Fairness ==
    /\ WF_vars(Load) /\ WF_vars(Execute) /\ WF_vars(Acknowledged)
    /\ WF_vars(Retry)

Spec == Init /\ [][Next]_vars /\ Fairness

-----------------------------------------------------------------------------
\* Durable is said of the newest snapshot only when it is the one on disk, and
\* never before an operation that is still in doubt was settled: closing the
\* window and sending the save to the backend both rely on it (safeToClose,
\* flush).
DurableIsStored ==
    status = "durable" /\ desired # Nothing =>
        disk.value = desired.value /\ disk.token = token /\ attempt = Nothing

\* The store never refuses the journal's own operations, however many answers
\* were lost and whatever was snapshot meanwhile: a refusal is final, for every
\* retry repeats the operation ("lost write acknowledgement retries the exact
\* CAS before publishing a newer draft", draft-journal.test.ts).
OwnWritesAreAccepted == call = "sent" => Accepts(attempt)

\* A draft handed over is durably retained in the end, if the user retries
\* after an error, unless the window goes first or could not read the record.
DraftsAreRetained ==
    status \in {"writing", "error"} ~> status \in {"durable", "loading"}

\* To the editor the journal is a register of one draft.
Register == INSTANCE DraftRegister WITH
    wanted <- IF desired = Nothing THEN disk.value ELSE desired.value,
    underway <- IF attempt = Nothing THEN Nothing ELSE attempt.value,
    stored <- disk.value,
    state <- status

\* The promise the page's editor relies on (DraftRegister): tokens, repeated
\* operations and generations never show.
JournalIsRegister == Register!Spec
=============================================================================
