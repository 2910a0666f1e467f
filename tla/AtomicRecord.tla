----------------------------- MODULE AtomicRecord -----------------------------
(***************************************************************************)
(* One key of the store that keeps drafts and credentials on disk          *)
(* (src/core/backend/storage/atomic-record-store.ts): compare-and-swap     *)
(* writes and removals, run one at a time in the order of the calls, each  *)
(* over several awaited file operations any of which may fail.  The        *)
(* process may be killed between any two of them, and the power may go,    *)
(* which forgets directory changes and file contents not yet synced.       *)
(*                                                                         *)
(* A record is a token and a value; its checksum and envelope are the      *)
(* difference between a record and Unreadable, which stands for a file the *)
(* store does not recognise or one whose contents were never synced.       *)
(***************************************************************************)
EXTENDS Naturals, Sequences, FiniteSets

CONSTANTS
    Tokens,
    Values,
    Absent,         \* no file under the key's name
    Unreadable,     \* a file that fails decode
    Initially,      \* what the file may be when the first process starts
    MaxCalls,       \* bound on the calls
    MaxFailures,    \* bound on failing file operations
    MaxRestarts     \* bound on kills and power losses

Record == [token : Tokens, value : Values]
File == Record \cup {Absent, Unreadable}

ASSUME NoRecordAssumption ==
    /\ Absent # Unreadable
    /\ {Absent, Unreadable} \cap (Record \cup Tokens) = {}
ASSUME InitiallyAssumption == Initially \subseteq File
ASSUME FailureBounds == MaxFailures \in Nat
ASSUME RestartBounds == MaxRestarts \in Nat

VARIABLES
    file,       \* what the directory entry names now
    synced,     \* what it names after a power loss
    ready,      \* the directory was prepared by this process
    calls,      \* every call, in order: what was asked and how far it is
    failures,
    restarts,
    possible    \* every file a caller must be prepared to find

vars == <<file, synced, ready, calls, failures, restarts, possible>>

Op ==
    [kind : {"read"}]
        \cup [kind : {"write"}, record : Record, expected : Tokens \cup {Absent}]
        \cup [kind : {"remove"}, expected : Tokens]

Running == {"load", "stage", "rename", "unlink", "sync"}
Settled == {"done", "failed", "lost"}

\* whole: the contents of the call's temporary file are synced.
CallState ==
    [op : Op, step : {"queued"} \cup Running \cup Settled, whole : BOOLEAN]

TypeOK ==
    /\ {file, synced} \subseteq File
    /\ ready \in BOOLEAN
    /\ calls \in Seq(CallState)
    /\ failures \in 0..MaxFailures
    /\ restarts \in 0..MaxRestarts
    /\ possible \subseteq File

Init ==
    /\ file \in Initially
    /\ synced = file
    /\ ready = FALSE
    /\ calls = <<>>
    /\ failures = 0
    /\ restarts = 0
    /\ possible = {file}

-----------------------------------------------------------------------------
Token(f) == IF f \in Record THEN f.token ELSE Absent

Call(o) ==
    /\ Len(calls) < MaxCalls
    /\ calls' = Append(calls, [op |-> o, step |-> "queued", whole |-> FALSE])
    /\ UNCHANGED <<file, synced, ready, failures, restarts, possible>>

At(i, step) == calls[i].step = step
Goto(i, step) == calls' = [calls EXCEPT ![i].step = step]
OnlyReads == UNCHANGED <<file, synced, ready, failures, restarts, possible>>

\* Mutant of Start: calls of one key are not chained.
StartAtOnce(i) ==
    /\ At(i, "queued")
    /\ ready' = TRUE
    /\ Goto(i, "load")
    /\ UNCHANGED <<file, synced, failures, restarts, possible>>

\* Mutant of Start: a call waits for the success of the ones before it.
StartAfterSuccess(i) ==
    /\ At(i, "queued")
    /\ \A j \in 1..(i - 1) : calls[j].step \in {"done", "lost"}
    /\ ready' = TRUE
    /\ Goto(i, "load")
    /\ UNCHANGED <<file, synced, failures, restarts, possible>>

\* A call starts when the ones before it are settled, done or failed; the
\* first of a process has prepared the directory.
Start(i) ==
    /\ At(i, "queued")
    /\ \A j \in 1..(i - 1) : calls[j].step \in Settled
    /\ ready' = TRUE
    /\ Goto(i, "load")
    /\ UNCHANGED <<file, synced, failures, restarts, possible>>

PrepareFails(i) ==
    /\ At(i, "queued") /\ ~ready
    /\ \A j \in 1..(i - 1) : calls[j].step \in Settled
    /\ failures < MaxFailures
    /\ failures' = failures + 1
    /\ Goto(i, "failed")
    /\ UNCHANGED <<file, synced, ready, restarts, possible>>

\* A write is refused unless it names the record it replaces; the very record
\* that is stored already is accepted again, and synced again.
Replayed(o) == file = o.record
Refused(o) == Token(file) # o.expected \/ Token(file) = o.record.token

\* Mutant of LoadForWrite: a replay is answered from the directory alone.
LoadAndAnswerReplay(i) ==
    /\ At(i, "load") /\ calls[i].op.kind = "write" /\ file # Unreadable
    /\ LET o == calls[i].op
       IN  /\ Goto(i, IF Replayed(o) THEN "done"
                       ELSE IF Refused(o) THEN "failed" ELSE "stage")
           /\ possible' = IF Replayed(o) THEN {file} ELSE possible
    /\ UNCHANGED <<file, synced, ready, failures, restarts>>

LoadForWrite(i) ==
    /\ At(i, "load") /\ calls[i].op.kind = "write" /\ file # Unreadable
    /\ LET o == calls[i].op
       IN  Goto(i, IF Replayed(o) THEN "sync"
                   ELSE IF Refused(o) THEN "failed" ELSE "stage")
    /\ OnlyReads

\* A removal is refused when another record took the place of the one it
\* names; a record that is gone already counts as removed.
LoadForRemove(i) ==
    /\ At(i, "load") /\ calls[i].op.kind = "remove" /\ file # Unreadable
    /\ Goto(i, IF file = Absent THEN "sync"
                ELSE IF Token(file) # calls[i].op.expected THEN "failed"
                ELSE "unlink")
    /\ OnlyReads

LoadForRead(i) ==
    /\ At(i, "load") /\ calls[i].op.kind = "read" /\ file # Unreadable
    /\ Goto(i, "done")
    /\ OnlyReads

\* A file the store cannot read is refused and left as it is.
LoadUnreadable(i) ==
    /\ At(i, "load") /\ file = Unreadable
    /\ Goto(i, "failed")
    /\ OnlyReads

\* The temporary file is written, synced and closed.
Stage(i) ==
    /\ At(i, "stage")
    /\ calls' = [calls EXCEPT ![i].step = "rename", ![i].whole = TRUE]
    /\ OnlyReads

\* The directory entry changes: from now on a power loss may leave the old
\* file or the new one, unreadable if renamed before its contents were synced.
Replace(i, new, after) ==
    /\ file' = new
    /\ synced' \in {synced, after}
    /\ Goto(i, "sync")
    /\ possible' = possible \cup {new}
    /\ UNCHANGED <<ready, failures, restarts>>

Rename(i) ==
    /\ At(i, "rename")
    /\ LET new == calls[i].op.record
       IN  Replace(i, new, IF calls[i].whole THEN new ELSE Unreadable)

Unlink(i) ==
    /\ At(i, "unlink")
    /\ Replace(i, Absent, Absent)

\* The directory is synced and the call answered: nothing else may be found.
Sync(i) ==
    /\ At(i, "sync")
    /\ synced' = IF synced = Unreadable THEN synced ELSE file
    /\ possible' = {file}
    /\ Goto(i, "done")
    /\ UNCHANGED <<file, ready, failures, restarts>>

\* A file operation fails: the call is rejected and its temporary file
\* removed.  (A failed directory sync leaves the new entry in place.)
Fail(i) ==
    /\ calls[i].step \in Running
    /\ failures < MaxFailures
    /\ failures' = failures + 1
    /\ Goto(i, "failed")
    /\ UNCHANGED <<file, synced, ready, restarts, possible>>

\* The process ends, with its queue.
Restart ==
    /\ restarts < MaxRestarts
    /\ restarts' = restarts + 1
    /\ calls' = [i \in DOMAIN calls |->
                    IF calls[i].step \in Settled THEN calls[i]
                    ELSE [calls[i] EXCEPT !.step = "lost"]]
    /\ ready' = FALSE
    /\ UNCHANGED <<synced, failures, possible>>

\* It is killed: the directory stays as it is, and a change of it that was not
\* synced still is not; the next process finds it, and a later power loss may
\* take it back.
Kill == Restart /\ UNCHANGED file

\* The power goes: the directory goes back to what was synced.
PowerLoss == Restart /\ file' = synced

Work(i) ==
    \/ Start(i)
    \/ LoadForWrite(i) \/ LoadForRemove(i) \/ LoadForRead(i) \/ LoadUnreadable(i)
    \/ Stage(i) \/ Rename(i) \/ Unlink(i) \/ Sync(i)

Next ==
    \/ \E o \in Op : Call(o)
    \/ \E i \in DOMAIN calls : Work(i) \/ PrepareFails(i) \/ Fail(i)
    \/ Kill \/ PowerLoss

\* File operations end, one way or another.
Fairness == WF_vars(\E i \in DOMAIN calls : Work(i))

Spec == Init /\ [][Next]_vars /\ Fairness

-----------------------------------------------------------------------------
\* Whatever kills and power losses, one after the other, may leave is something
\* the callers were told to expect: once a write or a removal was acknowledged,
\* the directory holds its outcome or that of a call made since, never what was
\* there before, although a process may find, and build on, changes that one
\* before it did not live to sync (DRAFT-RECOVERY.md: file sync and directory
\* sync before acknowledgement).
AcknowledgedSurvives == {file, synced} \subseteq possible

\* The record changes, by a running call, only from the one the call named:
\* two calls that overlap cannot both replace it, and a file that cannot be
\* read is never replaced ("Record conflict; existing draft retained", and the
\* test "concurrent compare-and-swap has one winner").
ReplacesOnlyWhatItNamed ==
    [][file' # file /\ restarts' = restarts =>
         \E i \in DOMAIN calls :
            /\ calls[i].step \in {"rename", "unlink"} /\ calls'[i].step = "sync"
            /\ file # Unreadable /\ Token(file) = calls[i].op.expected]_vars

\* Every call is answered or lost with its process, whatever became of the
\* calls before it.
EveryCallSettles ==
    \A i \in 1..MaxCalls :
        i \in DOMAIN calls ~> i \in DOMAIN calls /\ calls[i].step \in Settled
=============================================================================
