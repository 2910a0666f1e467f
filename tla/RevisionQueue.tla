---------------------------- MODULE RevisionQueue ----------------------------
(***************************************************************************)
(* RevisionCommandQueue, the FIFO of edits the Schematic and PCB editors   *)
(* share (src/shared/frontend/commands/revision-command-queue.ts).  One    *)
(* lane per design.  A lane sends one command at a time, each on top of    *)
(* the revision the previous acknowledgement returned; a rejected or       *)
(* uncertain command blocks the lane and keeps the command and everything  *)
(* queued behind it for review.                                            *)
(*                                                                         *)
(* The sender passed to submit() is the environment here: it settles with  *)
(* any outcome the promise can have.  CommandPath puts the coordinator     *)
(* and the store in its place.                                             *)
(*                                                                         *)
(* lane.state, a label of the last outcome that no code branches on, and   *)
(* the retained messages are left out.  Retained edits are a set: their    *)
(* order is only the order they are listed in.                             *)
(***************************************************************************)
EXTENDS Integers, Sequences

CONSTANTS
    Designs,        \* aggregate ids; one lane each
    Inputs,         \* the edits a user makes, each submitted at most once
    Revisions,      \* revisions the backend may report
    MaxCommands     \* bound on the command ids issued

ASSUME RevisionsAssumption == Revisions \subseteq Nat
ASSUME MaxCommandsAssumption == MaxCommands \in Nat

NoRevision == -1    \* null: the lane has not seen a revision

VARIABLES
    revision,       \* the revision the next command is based on
    tail,           \* promise chain of the lane: the tasks, head first
    running,        \* the head's sender was called and has not settled
    pending,        \* lane.pending, the counter the guards read
    retained,       \* edits kept for review
    blocked,        \* lane.blocked: unreviewed commands are not sent
    issued,         \* command ids handed out (crypto.randomUUID)
    settled         \* history: how an edit that left the queue was settled

vars == <<revision, tail, running, pending, retained, blocked, issued, settled>>

Task == [id : Nat, input : Inputs, reviewed : BOOLEAN]
RetainedState == {"conflicted", "cancelled", "failed"}
RetainedCommand == [id : Nat, input : Inputs, state : RetainedState]

TypeOK ==
    /\ revision \in [Designs -> Nat \cup {NoRevision}]
    /\ tail \in [Designs -> Seq(Task)]
    /\ running \in [Designs -> BOOLEAN]
    /\ pending \in [Designs -> Nat]
    /\ retained \in [Designs -> SUBSET RetainedCommand]
    /\ blocked \in [Designs -> BOOLEAN]
    /\ issued \in Nat
    /\ settled \in [Inputs -> {"none", "acknowledged", "declined", "discarded"}]

Init ==
    /\ revision = [d \in Designs |-> NoRevision]
    /\ tail = [d \in Designs |-> <<>>]
    /\ running = [d \in Designs |-> FALSE]
    /\ pending = [d \in Designs |-> 0]
    /\ retained = [d \in Designs |-> {}]
    /\ blocked = [d \in Designs |-> FALSE]
    /\ issued = 0
    /\ settled = [i \in Inputs |-> "none"]

-----------------------------------------------------------------------------
Queued(i) == \E d \in Designs : \E k \in 1..Len(tail[d]) : tail[d][k].input = i
HeldAs(i, states) ==
    \E d \in Designs : \E r \in retained[d] : r.input = i /\ r.state \in states
Fresh(i) == settled[i] = "none" /\ ~Queued(i) /\ ~HeldAs(i, RetainedState)

\* The head of the lane is refused without being sent: a predecessor failed.
MustCancel(d) == blocked[d] /\ ~Head(tail[d]).reviewed

\* enqueue(): a fresh command id, chained behind the lane's tail.
Enqueue(d, input, reviewed) ==
    /\ issued < MaxCommands
    /\ issued' = issued + 1
    /\ tail' = [tail EXCEPT ![d] =
                  Append(@, [id |-> issued + 1, input |-> input,
                             reviewed |-> reviewed])]
    /\ pending' = [pending EXCEPT ![d] = @ + 1]

\* The head of the lane is done: `finally` and the resolution of lane.tail.
Dequeue(d) ==
    /\ tail' = [tail EXCEPT ![d] = Tail(@)]
    /\ running' = [running EXCEPT ![d] = FALSE]
    /\ pending' = [pending EXCEPT ![d] = @ - 1]

\* The catch branch: the head is kept for review and the lane is blocked.
Retain(d, state) ==
    /\ retained' = [retained EXCEPT ![d] =
                      @ \cup {[id |-> Head(tail[d]).id,
                               input |-> Head(tail[d]).input,
                               state |-> state]}]
    /\ blocked' = [blocked EXCEPT ![d] = TRUE]
    /\ Dequeue(d)
    /\ UNCHANGED <<revision, issued, settled>>

-----------------------------------------------------------------------------
\* Mutants of Observable: a busy lane takes a revision; an older one counts.
ObservableWhileBusy(d, n) == revision[d] = NoRevision \/ n > revision[d]

\* observe(): a projection or an external bump reports a revision.
Observable(d, n) ==
    pending[d] = 0 /\ (revision[d] = NoRevision \/ n > revision[d])

Observe(d, n) ==
    /\ Observable(d, n)
    /\ revision' = [revision EXCEPT ![d] = n]
    /\ UNCHANGED <<tail, running, pending, retained, blocked, issued, settled>>

Submit(d, i) ==
    /\ Fresh(i)
    /\ Enqueue(d, i, FALSE)
    /\ UNCHANGED <<revision, running, retained, blocked, settled>>

\* Mutant of Reapply: an uncertain edit is sent again.
ReapplyUncertain(d, r) ==
    /\ pending[d] = 0
    /\ retained' = [retained EXCEPT ![d] = @ \ {r}]
    /\ Enqueue(d, r.input, TRUE)
    /\ UNCHANGED <<revision, running, blocked, settled>>

\* reapply(): only on an idle lane, and never for an uncertain edit.
Reapply(d, r) ==
    /\ pending[d] = 0
    /\ r.state # "failed"
    /\ retained' = [retained EXCEPT ![d] = @ \ {r}]
    /\ Enqueue(d, r.input, TRUE)
    /\ UNCHANGED <<revision, running, blocked, settled>>

DiscardRetained(d) ==
    /\ pending[d] = 0
    /\ settled' = [i \in Inputs |->
                     IF \E r \in retained[d] : r.input = i
                       THEN "discarded" ELSE settled[i]]
    /\ retained' = [retained EXCEPT ![d] = {}]
    /\ blocked' = [blocked EXCEPT ![d] = FALSE]
    /\ UNCHANGED <<revision, tail, running, pending, issued>>

\* execute() reaches the head of the lane and calls its sender ...
Start(d) ==
    /\ tail[d] # <<>> /\ ~running[d]
    /\ ~MustCancel(d)
    /\ running' = [running EXCEPT ![d] = TRUE]
    /\ UNCHANGED <<revision, tail, pending, retained, blocked, issued, settled>>

\* ... or retains the command unsent.
CancelUnsent(d) ==
    /\ tail[d] # <<>> /\ ~running[d]
    /\ MustCancel(d)
    /\ Retain(d, "cancelled")

\* Mutant of Acknowledge: any success unblocks the lane.
AcknowledgeUnblocks(d, n) ==
    /\ running[d]
    /\ revision' = [revision EXCEPT ![d] = n]
    /\ blocked' = [blocked EXCEPT ![d] = FALSE]
    /\ settled' = [settled EXCEPT ![Head(tail[d]).input] = "acknowledged"]
    /\ Dequeue(d)
    /\ UNCHANGED <<retained, issued>>

\* The sender resolved with the revision its command produced.
Acknowledge(d, n) ==
    /\ running[d]
    /\ revision' = [revision EXCEPT ![d] = n]
    /\ blocked' = [blocked EXCEPT ![d] = retained[d] # {}]
    /\ settled' = [settled EXCEPT ![Head(tail[d]).input] = "acknowledged"]
    /\ Dequeue(d)
    /\ UNCHANGED <<retained, issued>>

\* The user declined the net merge: nothing was written, nothing is retained.
Decline(d) ==
    /\ running[d]
    /\ settled' = [settled EXCEPT ![Head(tail[d]).input] = "declined"]
    /\ Dequeue(d)
    /\ UNCHANGED <<revision, retained, blocked, issued>>

\* A verified revision conflict: the command is known not to be applied.
Conflict(d) == running[d] /\ Retain(d, "conflicted")

\* Mutant of Fail: every error counts as a conflict.
FailAsConflict(d) == running[d] /\ Retain(d, "conflicted")

\* Any other error, a lost answer included: the outcome is unknown.
Fail(d) == running[d] /\ Retain(d, "failed")

Settle(d) ==
    \/ \E n \in Revisions : Acknowledge(d, n)
    \/ Decline(d) \/ Conflict(d) \/ Fail(d)

Next ==
    \E d \in Designs :
        \/ \E n \in Revisions : Observe(d, n)
        \/ \E i \in Inputs : Submit(d, i)
        \/ \E r \in retained[d] : Reapply(d, r)
        \/ DiscardRetained(d)
        \/ Start(d) \/ CancelUnsent(d) \/ Settle(d)

\* The promise chain always advances, and a request always settles: the
\* backend answers, the transport fails, or the user answers the dialog.
Fairness ==
    \A d \in Designs : WF_vars(Start(d) \/ CancelUnsent(d)) /\ WF_vars(Settle(d))

Spec == Init /\ [][Next]_vars /\ Fairness

-----------------------------------------------------------------------------
(* Properties *)

\* Mutant of HasUnsettledEdits: retained edits are forgotten.
HasPendingEdits == \E d \in Designs : pending[d] > 0

\* hasUnsettledEdits(): what the beforeunload guard asks.
HasUnsettledEdits ==
    \E d \in Designs : pending[d] > 0 \/ retained[d] # {}

\* No edit overtakes one that failed before it: while a command that nobody
\* reviewed is on its way, its lane holds no edit for review.
NothingOvertakes ==
    \A d \in Designs :
        running[d] /\ ~Head(tail[d]).reviewed => retained[d] = {}

\* Closing the window unguarded loses nothing: when hasUnsettledEdits() is
\* false every edit was settled or never made.
CloseGuardIsComplete ==
    ~HasUnsettledEdits =>
        \A i \in Inputs : ~Queued(i) /\ ~HeldAs(i, RetainedState)

\* The fate of an edit, read off the lanes.
Fate(i) ==
    IF settled[i] # "none" THEN settled[i]
    ELSE IF Queued(i) THEN "open"
    ELSE IF HeldAs(i, {"conflicted", "cancelled"}) THEN "review"
    ELSE IF HeldAs(i, {"failed"}) THEN "uncertain"
    ELSE "new"

\* Every edit is accounted for from submission to settlement, none is sent
\* again after an acknowledgement or an uncertain outcome.
Ledger == INSTANCE EditLedger WITH fate <- [i \in Inputs |-> Fate(i)]
EveryEditAccountedFor == Ledger!Spec

\* "Not sent: an earlier command needs review" is only ever said when an
\* earlier command of the lane is there to be reviewed.
CancelledOnlyBehindReview ==
    [][\A d \in Designs : \A r \in retained'[d] \ retained[d] :
          r.state = "cancelled" => retained[d] # {}]_vars

===============================================================================
