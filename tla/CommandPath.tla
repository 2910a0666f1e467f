------------------------------ MODULE CommandPath ------------------------------
(***************************************************************************)
(* One editor window and the designer backend, with everything between     *)
(* them: the DesignerCommandCoordinator                                    *)
(* (src/modules/designer/frontend/lib/command-coordinator.ts) sends        *)
(* the head of each RevisionQueue lane over HTTP to the DesignerStore,     *)
(* reads the design head when the lane has no revision, asks the user when *)
(* nets would merge, and the workspace hook refreshes, discards and        *)
(* reapplies (useDesignerWorkspace.ts).                                    *)
(*                                                                         *)
(* A request or its answer can be lost at any time, and the backend can    *)
(* restart; the window then has an uncertain command while the backend may *)
(* still be working on it.  Other writers (an SDK module, the assistant,   *)
(* a second window) send commands of their own.                            *)
(***************************************************************************)
EXTENDS Integers, Sequences, FiniteSets

CONSTANTS
    Designs, Sessions, Connections, Cells, Values,
    Inputs,             \* what the user does in the window, each once
    ActionOf,           \* the DesignerAction of an input
    ExternalRequests,   \* commands of the other writers
    NoConnection,
    DepthLimit, MaxRevision, MaxCommands

VARIABLES
    \* RevisionQueue: the lanes of the window
    revision, tail, running, pending, retained, blocked, issued, settled,
    \* DesignerStore: the backend
    head, doc, view, log, histories, waiting, answers, trail,
    \* the coordinator's sender, while a lane runs
    step,       \* where the sender of a lane stands
    base,       \* baseRevision or expectedRevision of its request
    link,       \* the connection that carries its answer
    review,     \* refresh, discard or reapply under way in the workspace
    \* history variables
    behind,     \* the task a task was queued behind, by command id; 0 if none
    origin,     \* the input of each command id issued
    acks        \* <<command id, revision>> of each acknowledgement

queueVars == <<revision, tail, running, pending, retained, blocked, issued, settled>>
storeVars == <<head, doc, view, log, histories, waiting, answers, trail>>
senderVars == <<step, base, link>>
historyVars == <<behind, origin, acks>>
vars == <<queueVars, storeVars, senderVars, review, historyVars>>

NoRevision == -1
Revisions == 0..MaxRevision

Queue == INSTANCE RevisionQueue
Store == INSTANCE DesignerStore WITH
            Requests <- ExternalRequests, Bases <- {NoRevision} \cup Revisions

Action == [kind : {"command", "undo", "redo"}, session : Sessions,
           command : Store!Command]
ASSUME ActionsAssumption == ActionOf \in [Inputs -> Action]
ASSUME BoundsAssumption ==
    DepthLimit \in Nat \ {0} /\ MaxRevision \in Nat /\ MaxCommands \in Nat
ASSUME ValuesAssumption == 0 \in Values
ASSUME ConnectionsAssumption == NoConnection \notin Connections
\* Command ids are UUIDs: the other writers' are none of the window's.
ASSUME ExternalAssumption ==
    /\ ExternalRequests \subseteq Store!Request
    /\ \A req \in ExternalRequests : req.id > 2 * MaxCommands
ASSUME FiniteAssumption == IsFiniteSet(Designs) /\ IsFiniteSet(Inputs)

Steps == {"idle", "reading", "sending", "awaiting", "asking",
          "resending", "reawaiting"}
Review == [phase : {"idle", "reading", "read", "refreshed"}, revision : Int,
           then : {"nothing", "discard", "reapply"}, item : Nat]
NoReview == [phase |-> "idle", revision |-> NoRevision,
             then |-> "nothing", item |-> 0]

TypeOK ==
    /\ Queue!TypeOK
    /\ Store!TypeOK
    /\ step \in [Designs -> Steps]
    /\ base \in [Designs -> Int]
    /\ link \in [Designs -> Connections \cup {NoConnection}]
    /\ review \in [Designs -> Review]
    /\ behind \in Seq(Nat)
    /\ origin \in Seq(Inputs)
    /\ acks \subseteq Nat \X Nat

Init ==
    /\ Queue!Init
    /\ Store!Init
    /\ step = [d \in Designs |-> "idle"]
    /\ base = [d \in Designs |-> NoRevision]
    /\ link = [d \in Designs |-> NoConnection]
    /\ review = [d \in Designs |-> NoReview]
    /\ behind = <<>>
    /\ origin = <<>>
    /\ acks = {}

-----------------------------------------------------------------------------
Task(d) == Head(tail[d])
TaskAction(d) == ActionOf[Task(d).input]
IsHistory(i) == ActionOf[i].kind # "command"

Linked(c) == \E d \in Designs : link[d] = c

\* history(): a second undo or redo of a session joins the one under way.
\* The code holds the key a little longer, until the refresh that follows.
HistoryPending(d, i) ==
    \E k \in 1..Len(tail[d]) :
        /\ IsHistory(tail[d][k].input)
        /\ ActionOf[tail[d][k].input].session = ActionOf[i].session

\* What is remembered of a task when it joins the lane.
Remember(d, i) ==
    /\ behind' = Append(behind, IF tail[d] = <<>> THEN 0
                                ELSE tail[d][Len(tail[d])].id)
    /\ origin' = Append(origin, i)
    /\ UNCHANGED acks

\* The request of the running task.  A confirmed merge is sent under a fresh
\* id; the ids above MaxCommands stand for these.
ResendId(id) == MaxCommands + id
RequestOf(d, confirmed) ==
    LET act == TaskAction(d) IN
    [id |-> IF confirmed THEN ResendId(Task(d).id) ELSE Task(d).id,
     design |-> d,
     session |-> act.session,
     command |-> IF confirmed THEN [act.command EXCEPT !.confirmMerge = TRUE]
                 ELSE act.command]

SenderDone(d) ==
    /\ step' = [step EXCEPT ![d] = "idle"]
    /\ link' = [link EXCEPT ![d] = NoConnection]
    /\ UNCHANGED base

-----------------------------------------------------------------------------
(* The window *)

UserActs(d, i) ==
    /\ IsHistory(i) => ~HistoryPending(d, i)
    /\ Queue!Submit(d, i)
    /\ Remember(d, i)
    /\ UNCHANGED <<storeVars, senderVars, review>>

\* Mutant of Begin: the lane is left to a sender that never starts.
BeginAndForget(d) ==
    /\ Queue!Start(d)
    /\ UNCHANGED <<storeVars, senderVars, review, historyVars>>

\* The lane reaches a task: read the head first when no revision is known.
Begin(d) ==
    /\ Queue!Start(d)
    /\ IF revision[d] = NoRevision
       THEN step' = [step EXCEPT ![d] = "reading"] /\ UNCHANGED base
       ELSE /\ step' = [step EXCEPT ![d] = "sending"]
            /\ base' = [base EXCEPT ![d] = revision[d]]
    /\ UNCHANGED <<storeVars, link, review, historyVars>>

Cancel(d) ==
    /\ Queue!CancelUnsent(d)
    /\ UNCHANGED <<storeVars, senderVars, review, historyVars>>

\* getSchematicProjection() answered with the head it read.
ReadHead(d) ==
    /\ step[d] = "reading" /\ Store!Exists(d)
    /\ base' = [base EXCEPT ![d] = head[d]]
    /\ step' = [step EXCEPT ![d] = "sending"]
    /\ UNCHANGED <<queueVars, storeVars, link, review, historyVars>>

\* Mutant of Send: the request names no revision to build on.
SendWithoutBase(d, c) ==
    /\ step[d] \in {"sending", "resending"}
    /\ ~Linked(c)
    /\ IF IsHistory(Task(d).input)
       THEN Store!ReplayHistory(c, d, TaskAction(d).session,
                                TaskAction(d).kind, NoRevision)
       ELSE Store!Dispatch(c, RequestOf(d, step[d] = "resending"), NoRevision)
    /\ link' = [link EXCEPT ![d] = c]
    /\ step' = [step EXCEPT ![d] =
                  IF @ = "sending" THEN "awaiting" ELSE "reawaiting"]
    /\ UNCHANGED <<queueVars, base, review, historyVars>>

\* The request of the running task reaches the backend.
Send(d, c) ==
    /\ step[d] \in {"sending", "resending"}
    /\ ~Linked(c)
    /\ IF IsHistory(Task(d).input)
       THEN Store!ReplayHistory(c, d, TaskAction(d).session,
                                TaskAction(d).kind, base[d])
       ELSE Store!Dispatch(c, RequestOf(d, step[d] = "resending"), base[d])
    /\ link' = [link EXCEPT ![d] = c]
    /\ step' = [step EXCEPT ![d] =
                  IF @ = "sending" THEN "awaiting" ELSE "reawaiting"]
    /\ UNCHANGED <<queueVars, base, review, historyVars>>

AnswerOf(d, a) ==
    /\ step[d] \in {"awaiting", "reawaiting"}
    /\ a.conn = link[d]
    /\ Store!Deliver(a)
    /\ UNCHANGED review

\* Mutant of Acknowledged: any answer that arrives is a success.
AcknowledgedUnread(d, a) ==
    /\ AnswerOf(d, a)
    /\ Queue!Acknowledge(d, a.result.revision)
    /\ acks' = acks \cup {<<Task(d).id, a.result.revision>>}
    /\ SenderDone(d)
    /\ UNCHANGED <<behind, origin>>

Acknowledged(d, a) ==
    /\ AnswerOf(d, a)
    /\ a.result.code = "OK"
    /\ Queue!Acknowledge(d, a.result.revision)
    /\ acks' = acks \cup {<<Task(d).id, a.result.revision>>}
    /\ SenderDone(d)
    /\ UNCHANGED <<behind, origin>>

\* A merge is put to the user, once.
AsksUser(a, d) == a.result.code = "NET_MERGE_REQUIRES_CONFIRM" /\ step[d] = "awaiting"

MergeRefused(d, a) ==
    /\ AnswerOf(d, a)
    /\ AsksUser(a, d)
    /\ step' = [step EXCEPT ![d] = "asking"]
    /\ link' = [link EXCEPT ![d] = NoConnection]
    /\ UNCHANGED <<queueVars, base, historyVars>>

\* reject(): a conflict counts as verified only when it names a revision.
VerifiedConflict(a, i) ==
    /\ a.result.code = "REVISION_CONFLICT"
    /\ IsHistory(i) \/ a.result.revision >= 0

Rejected(d, a) ==
    /\ AnswerOf(d, a)
    /\ a.result.code # "OK" /\ ~AsksUser(a, d)
    /\ IF VerifiedConflict(a, Task(d).input) THEN Queue!Conflict(d)
       ELSE Queue!Fail(d)
    /\ SenderDone(d)
    /\ UNCHANGED historyVars

UserConfirms(d) ==
    /\ step[d] = "asking"
    /\ step' = [step EXCEPT ![d] = "resending"]
    /\ UNCHANGED <<queueVars, storeVars, base, link, review, historyVars>>

UserDeclines(d) ==
    /\ step[d] = "asking"
    /\ Queue!Decline(d)
    /\ SenderDone(d)
    /\ UNCHANGED <<storeVars, review, historyVars>>

\* Mutant of ConnectionLost: what was not answered was not done.
LostMeansUndone(d) ==
    /\ step[d] \in {"reading", "sending", "awaiting", "resending", "reawaiting"}
    /\ Queue!Conflict(d)
    /\ SenderDone(d)
    /\ UNCHANGED <<storeVars, review, historyVars>>

\* The request or its answer is lost; the backend may go on regardless.
ConnectionLost(d) ==
    /\ step[d] \in {"reading", "sending", "awaiting", "resending", "reawaiting"}
    /\ Queue!Fail(d)
    /\ SenderDone(d)
    /\ UNCHANGED <<storeVars, review, historyVars>>

-----------------------------------------------------------------------------
(* The workspace: refresh, and the confirmed discard or reapply after it. *)

AskReview(d, then, item) ==
    /\ review[d].phase = "idle"
    /\ review' = [review EXCEPT ![d] = [phase |-> "reading", then |-> then,
                                        item |-> item, revision |-> NoRevision]]
    /\ UNCHANGED <<queueVars, storeVars, senderVars, historyVars>>

Refresh(d) == AskReview(d, "nothing", 0)

\* The notice offers these only for an idle lane that retains edits.
AskDiscard(d) == pending[d] = 0 /\ retained[d] # {} /\ AskReview(d, "discard", 0)

AskReapply(d) ==
    \E r \in retained[d] :
        /\ pending[d] = 0 /\ r.state # "failed" /\ ~IsHistory(r.input)
        /\ AskReview(d, "reapply", r.id)

RefreshReads(d) ==
    /\ review[d].phase = "reading" /\ Store!Exists(d)
    /\ review' = [review EXCEPT ![d].phase = "read", ![d].revision = head[d]]
    /\ UNCHANGED <<queueVars, storeVars, senderVars, historyVars>>

\* The refresh returned without an error: what it was asked for comes next.
RefreshReturns(d) ==
    /\ review[d].phase = "read"
    /\ review' = [review EXCEPT ![d] =
                    IF @.then = "nothing" THEN NoReview
                    ELSE [@ EXCEPT !.phase = "refreshed"]]
    /\ UNCHANGED <<storeVars, senderVars, historyVars>>

\* A projection older than the lane is ignored, a busy lane observes nothing.
RefreshArrives(d) ==
    /\ RefreshReturns(d)
    /\ IF Queue!Observable(d, review[d].revision)
       THEN Queue!Observe(d, review[d].revision)
       ELSE UNCHANGED queueVars

\* Another refresh was started, or another design opened, since this one was:
\* the projection is dropped.
RefreshSuperseded(d) == RefreshReturns(d) /\ UNCHANGED queueVars

RefreshFails(d) ==
    /\ review[d].phase \in {"reading", "read"}
    /\ review' = [review EXCEPT ![d] = NoReview]
    /\ UNCHANGED <<queueVars, storeVars, senderVars, historyVars>>

\* discardRetained() throws when a command was submitted meanwhile.
Discard(d) ==
    /\ review[d].phase = "refreshed" /\ review[d].then = "discard"
    /\ IF pending[d] = 0 THEN Queue!DiscardRetained(d) ELSE UNCHANGED queueVars
    /\ review' = [review EXCEPT ![d] = NoReview]
    /\ UNCHANGED <<storeVars, senderVars, historyVars>>

\* reapply() rejects on a busy lane, or when the edit is gone.
Reapply(d) ==
    /\ review[d].phase = "refreshed" /\ review[d].then = "reapply"
    /\ review' = [review EXCEPT ![d] = NoReview]
    /\ \/ \E r \in retained[d] :
            /\ r.id = review[d].item
            /\ Queue!Reapply(d, r)
            /\ Remember(d, r.input)
       \/ /\ pending[d] > 0 \/ \A r \in retained[d] : r.id # review[d].item
          /\ UNCHANGED <<queueVars, historyVars>>
    /\ UNCHANGED <<storeVars, senderVars>>

-----------------------------------------------------------------------------
(* The backend, and the other writers *)

LibraryAnswers ==
    /\ \E w \in waiting : Store!LibraryResolved(w) \/ Store!LibraryFailed(w)
    /\ UNCHANGED <<queueVars, senderVars, review, historyVars>>

ExternalWrite(c, req) ==
    /\ ~Linked(c)
    /\ Store!Dispatch(c, req, NoRevision)
    /\ UNCHANGED <<queueVars, senderVars, review, historyVars>>

\* An answer nobody in the window waits for.
ExternalAnswer(a) ==
    /\ ~Linked(a.conn)
    /\ Store!Deliver(a)
    /\ UNCHANGED <<queueVars, senderVars, review, historyVars>>

BackendRestart ==
    /\ Store!Restart
    /\ UNCHANGED <<queueVars, senderVars, review, historyVars>>

\* The sender of a lane goes on, whatever comes of it.
SenderMoves(d) ==
    \/ ReadHead(d) \/ \E c \in Connections : Send(d, c)
    \/ \E a \in answers : Acknowledged(d, a) \/ MergeRefused(d, a) \/ Rejected(d, a)
    \/ UserConfirms(d) \/ UserDeclines(d)
    \/ ConnectionLost(d)

LaneMoves(d) == Begin(d) \/ Cancel(d)

Next ==
    \/ \E d \in Designs, i \in Inputs : UserActs(d, i)
    \/ \E d \in Designs :
          \/ LaneMoves(d) \/ SenderMoves(d)
          \/ Refresh(d) \/ AskDiscard(d) \/ AskReapply(d)
          \/ RefreshReads(d) \/ RefreshFails(d)
          \/ RefreshArrives(d) \/ RefreshSuperseded(d)
          \/ Discard(d) \/ Reapply(d)
    \/ LibraryAnswers
    \/ \E c \in Connections, req \in ExternalRequests : ExternalWrite(c, req)
    \/ \E a \in answers : ExternalAnswer(a)
    \/ BackendRestart

\* The lane's promise chain advances.  A request is answered or its
\* connection breaks, the library answers, the user closes the dialog.
Fairness ==
    /\ \A d \in Designs : WF_vars(LaneMoves(d)) /\ WF_vars(SenderMoves(d))
    /\ WF_vars(LibraryAnswers)

Spec == Init /\ [][Next]_vars /\ Fairness

-----------------------------------------------------------------------------
(* Properties *)

\* The command of the window behind an id, 0 when it is somebody else's.
OwnId(id) ==
    IF id <= MaxCommands THEN id
    ELSE IF id <= 2 * MaxCommands THEN id - MaxCommands ELSE 0
CommandOf(change) == OwnId(change.request.id)

OwnDos(d) == {n \in 1..Len(trail[d]) :
                trail[d][n].kind = "do" /\ CommandOf(trail[d][n]) # 0}
AppliedTo(d, i) == {n \in OwnDos(d) : origin[CommandOf(trail[d][n])] = i}

\* An edit takes effect at most once, through lost answers, reviews and
\* reapplies under fresh command ids.
EditAppliedAtMostOnce ==
    \A d \in Designs, i \in Inputs : \A m, n \in AppliedTo(d, i) : m = n

\* What the window says of an edit is true: one it offers for another try,
\* or that was declined, is not in the design.
ReviewedEditsAreUnapplied ==
    \A d \in Designs :
        /\ \A r \in retained[d] : r.state # "failed" => AppliedTo(d, r.input) = {}
        /\ \A i \in Inputs : settled[i] = "declined" => AppliedTo(d, i) = {}

\* Edits land in the order the user made (or reviewed) them, even when an
\* abandoned request reaches the database late.
EditsLandInOrder ==
    \A d \in Designs : \A m, n \in OwnDos(d) :
        m < n => CommandOf(trail[d][m]) < CommandOf(trail[d][n])

\* An in-flight queue is never silently rebased: of two commands queued one
\* behind the other, the later builds on exactly what the earlier produced.
NoSilentRebase ==
    \A x, y \in acks :
        behind[y[1]] = x[1] => y[2] \in {x[2], x[2] + 1}

\* The lane's revision is never ahead of the design and never behind a write
\* the backend acknowledged to it.
LaneKnowsItsWrites ==
    \A d \in Designs :
        /\ revision[d] <= head[d]
        /\ \A n \in OwnDos(d) :
              <<CommandOf(trail[d][n]), n>> \in acks => n <= revision[d]

\* An undo sent right behind an edit that changed the document reverts that
\* edit and no other, whoever else has been writing.
UndoRevertsItsEdit ==
    \A d \in Designs : \A x, y \in acks :
        /\ behind[y[1]] = x[1] /\ ActionOf[origin[y[1]]].kind = "undo"
        /\ x[2] \in OwnDos(d) /\ CommandOf(trail[d][x[2]]) = x[1]
        => trail[d][y[2]].kind = "undo" /\ CommandOf(trail[d][y[2]]) = x[1]

\* Undo and redo take effect at most once each: one that is up for review as
\* a conflict, or was never made, did nothing.
Replays(kind) == {r \in Designs \X (1..MaxRevision) :
                    /\ r[2] <= Len(trail[r[1]])
                    /\ trail[r[1]][r[2]].kind = kind}
MayHaveReplayed(i) ==
    \/ Queue!Queued(i) \/ Queue!HeldAs(i, {"failed"})
    \/ settled[i] \in {"acknowledged", "discarded"}
HistoryTakesEffectOnce ==
    \A kind \in {"undo", "redo"} :
        Cardinality(Replays(kind)) <=
            Cardinality({i \in Inputs : ActionOf[i].kind = kind /\ MayHaveReplayed(i)})

\* Whatever the user did takes effect at most once.
ActionsTakeEffectOnce == EditAppliedAtMostOnce /\ HistoryTakesEffectOnce

\* The lane's revision follows the design through the lane's own writes alone.
LaneTracksDesign == NoSilentRebase /\ LaneKnowsItsWrites

\* Retained edits are given up only after the design was refreshed: the lane
\* has seen the revision that the refresh before the discard read.
DiscardSeesTheDesign ==
    [][\A d \in Designs :
          /\ review[d].phase = "refreshed" /\ review[d].then = "discard"
          /\ retained[d] # {} /\ retained'[d] = {}
          => revision[d] >= review[d].revision]_vars

\* A command the user made leaves the lane.
Travels(n) == \E d \in Designs : \E k \in 1..Len(tail[d]) : tail[d][k].id = n
EveryCommandSettles == \A n \in 1..MaxCommands : Travels(n) ~> ~Travels(n)
===============================================================================
