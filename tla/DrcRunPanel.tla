------------------------------ MODULE DrcRunPanel ------------------------------
(***************************************************************************)
(* The DRC panel of one design: the run controller                         *)
(* (frontend/pcb/drc/use-drc-run.ts) over the panel's store (drc-store.ts) *)
(* and the run routes of the backend (backend/routes.ts).  A run is        *)
(* started by POST, watched through an event stream, polled when the       *)
(* stream drops, cancelled by POST; its report is fetched when it is       *)
(* completed.  Answers arrive in any order, or as errors.                  *)
(*                                                                         *)
(* Runs are numbered as the backend creates them.  The backend is what     *)
(* DrcRunService shows of itself: a start joins the active run of the same *)
(* revision or supersedes it.  Closing the view disposes its controller,   *)
(* which then ignores its answers: they are dropped at once.  Progress     *)
(* frames and the notices of the view are left out.                        *)
(***************************************************************************)
EXTENDS Naturals, FiniteSets

CONSTANTS
    MaxRuns,        \* bound on the runs of the backend
    MaxRevision,    \* bound on the revision of the design
    MaxPolls,       \* MAX_POLLS
    MaxStarts,      \* bound on the clicks on Run
    MaxCancels,     \* bound on the clicks on Cancel
    MaxOpens,       \* bound on opening the view again
    MaxHydrations,  \* bound on the canvas opened without a report
    MaxClicks       \* bound on all of these

ASSUME BoundsAssumption ==
    /\ MaxRuns \in Nat \ {0} /\ MaxRevision \in Nat \ {0} /\ MaxPolls \in Nat \ {0}
    /\ MaxStarts \in Nat /\ MaxCancels \in Nat
    /\ MaxOpens \in Nat /\ MaxHydrations \in Nat /\ MaxClicks \in Nat

VARIABLES
    backend,    \* the design's revision, its runs and the stored report
    store,      \* useDrcStore
    control,    \* the controller of the open view
    calls,      \* requests on their way, and their answers
    used        \* clicks counted against the bounds

vars == <<backend, store, control, calls, used>>

NoRun == 0
NoReport == 0
Run == 1..MaxRuns
Statuses == {"none", "active", "completed", "cancelled", "failed"}
Ended == {"completed", "cancelled", "failed"}

Backend == [revision : 1..MaxRevision, last : 0..MaxRuns,
            status : [Run -> Statuses], of : [Run -> 0..MaxRevision],
            row : 0..MaxRevision]
Store == [run : 0..MaxRuns, status : Statuses, starting : BOOLEAN,
          report : 0..MaxRevision, reportIsPrevious : BOOLEAN]
Timer == [run : Run, attempt : Nat]
NoTimer == [run |-> NoRun, attempt |-> 0]
Control == [open : BOOLEAN, finished : BOOLEAN, stream : 0..MaxRuns,
            timers : SUBSET Timer, pollTimer : Timer \cup {NoTimer}]
Answer == [is : {"waiting", "error"}]
          \cup [is : {"run"}, run : Run, status : Statuses]
          \cup [is : {"report"}, report : 0..MaxRevision]
Call == [kind : {"start", "poll", "cancel", "result", "hydrate"},
         run : 0..MaxRuns, attempt : Nat, answer : Answer,
         heard : BOOLEAN]   \* FALSE when its view was closed

TypeOK ==
    /\ backend \in Backend /\ store \in Store /\ control \in Control
    /\ calls \subseteq Call
    /\ used \in [starts : 0..MaxStarts, cancels : 0..MaxCancels, opens : 0..MaxOpens,
                 hydrations : 0..MaxHydrations]

Fresh == [open |-> TRUE, finished |-> FALSE, stream |-> NoRun,
          timers |-> {}, pollTimer |-> NoTimer]

Init ==
    /\ backend = [revision |-> 1, last |-> 0, status |-> [r \in Run |-> "none"],
                  of |-> [r \in Run |-> 0], row |-> NoReport]
    /\ store = [run |-> NoRun, status |-> "none", starting |-> FALSE,
                report |-> NoReport, reportIsPrevious |-> FALSE]
    /\ control = Fresh
    /\ calls = {}
    /\ used = [starts |-> 0, cancels |-> 0, opens |-> 0, hydrations |-> 0]

MayClick == used.starts + used.cancels + used.opens + used.hydrations < MaxClicks

Sent(kind, run, attempt) ==
    [kind |-> kind, run |-> run, attempt |-> attempt,
     answer |-> [is |-> "waiting"], heard |-> TRUE]

-----------------------------------------------------------------------------
(* The backend *)

Active == {r \in Run : backend.status[r] = "active"}
\* Mutant of Snapshot: the status is left out.
SnapshotBare(b, r) == [is |-> "run", run |-> r]
Snapshot(b, r) == [is |-> "run", run |-> r, status |-> b.status[r]]

\* start(): join, supersede or create; the runs it may answer with.
Started(b) ==
    LET join == {r \in Active : b.of[r] = b.revision}
        n == b.last + 1
        created == [b EXCEPT !.last = n, !.of[n] = b.revision,
                             !.status = [r \in Run |-> IF r = n THEN "active"
                                           ELSE IF r \in Active THEN "cancelled"
                                           ELSE @[r]]]
    IN  IF join # {} THEN {<<b, r>> : r \in join}
        ELSE IF n \in Run THEN {<<created, n>>} ELSE {}

Edit ==
    /\ backend.revision < MaxRevision
    /\ backend' = [backend EXCEPT !.revision = @ + 1]
    /\ UNCHANGED <<store, control, calls, used>>

\* The assistant or a cloud apply starts a run of its own.
OtherStart ==
    /\ \E s \in Started(backend) : backend' = s[1]
    /\ UNCHANGED <<store, control, calls, used>>

RunEnds(r) ==
    /\ backend.status[r] = "active"
    /\ \E status \in {"completed", "failed"} :
         backend' = [backend EXCEPT !.status[r] = status,
                       !.row = IF status = "completed" THEN backend.of[r] ELSE @]
    /\ UNCHANGED <<store, control, calls, used>>

\* A request reaches the backend: its new state and the answer.
Handled(c) ==
    CASE c.kind = "start"  -> {<<s[1], Snapshot(s[1], s[2])>> : s \in Started(backend)}
      [] c.kind = "poll"   -> {<<backend, Snapshot(backend, c.run)>>}
      [] c.kind = "cancel" ->
           LET b == [backend EXCEPT !.status[c.run] =
                       IF @ = "active" THEN "cancelled" ELSE @]
           IN  {<<b, Snapshot(b, c.run)>>}
      [] OTHER -> {<<backend, [is |-> "report", report |-> backend.row]>>}

Handle(c) ==
    /\ c.answer.is = "waiting" /\ c.heard
    /\ \E h \in Handled(c) :
         /\ backend' = h[1]
         /\ calls' = (calls \ {c}) \cup {[c EXCEPT !.answer = h[2]]}
    /\ UNCHANGED <<store, control, used>>

\* The request or its answer is lost.
Lose(c) ==
    /\ c.answer.is # "error" /\ c.heard /\ c.kind # "hydrate"
    /\ calls' = (calls \ {c}) \cup {[c EXCEPT !.answer = [is |-> "error"]]}
    /\ UNCHANGED <<backend, store, control, used>>

-----------------------------------------------------------------------------
(* The store *)

IsActive(s) == s.run # NoRun /\ s.status = "active"

\* applyRunSnapshot(): a frame of another run, or after the end, is ignored.
ApplySnapshot(s, r, status) ==
    IF IsActive(s) /\ s.run = r THEN [s EXCEPT !.status = status] ELSE s

\* cancelRun() and failRun()
Stopped(s, status) ==
    [s EXCEPT !.status = IF s.run = NoRun THEN @ ELSE status,
              !.starting = FALSE, !.reportIsPrevious = s.report # NoReport]

\* Mutant of Completed: whatever report is stored will do.
CompletedByAny(s, report) ==
    IF report = NoReport THEN Stopped(s, "failed")
    ELSE [s EXCEPT !.report = report, !.reportIsPrevious = FALSE,
                   !.status = "completed", !.starting = FALSE]

\* completeRun(): the report must be of the revision of the run.
Completed(s, report) ==
    IF report = NoReport \/ report # backend.of[s.run] THEN Stopped(s, "failed")
    ELSE [s EXCEPT !.report = report, !.reportIsPrevious = FALSE,
                   !.status = "completed", !.starting = FALSE]

-----------------------------------------------------------------------------
(* The controller *)

TornDown(k) ==
    [k EXCEPT !.stream = NoRun, !.timers = @ \ {k.pollTimer}, !.pollTimer = NoTimer]

\* handleTerminalSnapshot() and the terminal events of the stream.
Finish(s, status, rest) ==
    /\ control' = [TornDown(control) EXCEPT !.finished = TRUE]
    /\ IF status = "completed"
       THEN store' = s /\ calls' = rest \cup {Sent("result", s.run, 0)}
       ELSE store' = Stopped(s, status) /\ calls' = rest

\* schedulePoll(); the timer fires after a while.
SchedulePoll(k, r, attempt, rest) ==
    IF k.finished THEN control' = k /\ calls' = rest /\ UNCHANGED store
    ELSE IF attempt >= MaxPolls
    THEN /\ control' = [k EXCEPT !.finished = TRUE]
         /\ store' = Stopped(store, "failed")
         /\ calls' = rest
    ELSE LET t == [run |-> r, attempt |-> attempt]
         IN  /\ control' = [k EXCEPT !.timers = @ \cup {t}, !.pollTimer = t]
             /\ calls' = rest
             /\ UNCHANGED store

Start ==
    /\ control.open /\ ~store.starting /\ ~IsActive(store)
    /\ used.starts < MaxStarts /\ MayClick
    /\ used' = [used EXCEPT !.starts = @ + 1]
    /\ control' = [TornDown(control) EXCEPT !.finished = FALSE]
    /\ store' = [store EXCEPT !.starting = TRUE,
                              !.reportIsPrevious = store.report # NoReport]
    /\ calls' = calls \cup {Sent("start", NoRun, 0)}
    /\ UNCHANGED backend

StartAnswered(c) ==
    /\ c.kind = "start" /\ c.answer.is # "waiting"
    /\ LET rest == calls \ {c}
           a == c.answer
           begun == [store EXCEPT !.run = a.run, !.status = a.status,
                       !.starting = FALSE, !.reportIsPrevious = store.report # NoReport]
       IN  IF a.is = "error"
           THEN store' = Stopped(store, "failed") /\ calls' = rest /\ UNCHANGED control
           ELSE IF a.status \in Ended THEN Finish(begun, a.status, rest)
           ELSE /\ store' = begun /\ calls' = rest
                /\ control' = [control EXCEPT !.stream = a.run]
    /\ UNCHANGED <<backend, used>>

\* The first frame replays the state of the run.
StreamState ==
    /\ control.stream # NoRun /\ ~control.finished
    /\ store' = ApplySnapshot(store, control.stream, backend.status[control.stream])
    /\ store' # store
    /\ UNCHANGED <<backend, control, calls, used>>

StreamEnd ==
    /\ control.stream # NoRun /\ ~control.finished
    /\ backend.status[control.stream] \in Ended
    /\ Finish(store, backend.status[control.stream], calls)
    /\ UNCHANGED <<backend, used>>

\* Mutant of StreamDrops: the stream is the only way to finish.
StreamDropsAndStops ==
    /\ control.stream # NoRun /\ ~control.finished
    /\ control' = [control EXCEPT !.stream = NoRun]
    /\ UNCHANGED <<backend, store, calls, used>>

StreamDrops ==
    /\ control.stream # NoRun /\ ~control.finished
    /\ SchedulePoll([control EXCEPT !.stream = NoRun], control.stream, 0, calls)
    /\ UNCHANGED <<backend, used>>

PollDue(t) ==
    /\ t \in control.timers
    /\ control' = [control EXCEPT !.timers = @ \ {t}, !.pollTimer = NoTimer]
    /\ calls' = IF control.finished THEN calls
                ELSE calls \cup {Sent("poll", t.run, t.attempt)}
    /\ UNCHANGED <<backend, store, used>>

\* Its snapshot is taken for the run on display, whichever run was polled.
PollAnswered(c) ==
    /\ c.kind = "poll" /\ c.answer.is # "waiting"
    /\ LET rest == calls \ {c}
       IN  IF c.answer.is = "run" /\ c.answer.status \in Ended
           THEN IF control.finished
                  THEN calls' = rest /\ UNCHANGED <<store, control>>
                  ELSE Finish(store, c.answer.status, rest)
           ELSE SchedulePoll(control, c.run, c.attempt + 1, rest)
    /\ UNCHANGED <<backend, used>>

Cancel ==
    /\ control.open /\ IsActive(store) /\ used.cancels < MaxCancels /\ MayClick
    /\ calls' = calls \cup {Sent("cancel", store.run, 0)}
    /\ used' = [used EXCEPT !.cancels = @ + 1]
    /\ UNCHANGED <<backend, store, control>>

\* Mutant of CancelAnswered: asked to stop is taken for stopped.
CancelAnsweredEagerly(c) ==
    /\ c.kind = "cancel" /\ c.answer.is # "waiting"
    /\ Finish(store, "cancelled", calls \ {c})
    /\ UNCHANGED <<backend, used>>

CancelAnswered(c) ==
    /\ c.kind = "cancel" /\ c.answer.is # "waiting"
    /\ LET rest == calls \ {c}
       IN  IF c.answer.is = "error"
           THEN calls' = rest /\ UNCHANGED <<store, control>>
           ELSE Finish(store, c.answer.status, rest)
    /\ UNCHANGED <<backend, used>>

\* finishCompleted(): only while the run it was called for is on display.
ResultAnswered(c) ==
    /\ c.kind = "result" /\ c.answer.is # "waiting"
    /\ calls' = calls \ {c}
    /\ store' = IF c.run # store.run \/ c.run = NoRun THEN store
                ELSE IF c.answer.is = "error" THEN Stopped(store, "failed")
                ELSE Completed(store, c.answer.report)
    /\ UNCHANGED <<backend, control, used>>

\* dispose(): the run goes on.
CloseView ==
    /\ control.open /\ used.opens < MaxOpens /\ MayClick
    /\ control' = [Fresh EXCEPT !.open = FALSE]
    /\ store' = [store EXCEPT !.starting =
                   @ /\ ~\E c \in calls : c.kind = "start" /\ c.heard]
    /\ calls' = {c \in calls : c.kind = "hydrate" \/ ~c.heard}
                \cup {[c EXCEPT !.heard = FALSE] : c \in
                        {c \in calls : c.kind \in {"start", "cancel"}
                                        /\ c.answer.is = "waiting"}}
    /\ used' = [used EXCEPT !.opens = @ + 1]
    /\ UNCHANGED backend

\* A new controller re-attaches to the run on display.
OpenView ==
    /\ ~control.open
    /\ control' = [Fresh EXCEPT !.stream = IF IsActive(store) THEN store.run ELSE NoRun]
    /\ UNCHANGED <<backend, store, calls, used>>

\* What a closed view had asked for is carried out, and nobody hears of it.
HeardByNobody(c) ==
    /\ ~c.heard
    /\ calls' = calls \ {c}
    /\ \/ backend' = backend
       \/ \E h \in Handled(c) : backend' = h[1]
    /\ UNCHANGED <<store, control, used>>

\* The canvas opens without a report: clear() and a fetch of the stored one.
OpenCanvas ==
    /\ store.report = NoReport /\ used.hydrations < MaxHydrations /\ MayClick
    /\ store' = [store EXCEPT !.run = NoRun, !.status = "none", !.starting = FALSE,
                              !.reportIsPrevious = FALSE]
    /\ calls' = calls \cup {Sent("hydrate", NoRun, 0)}
    /\ used' = [used EXCEPT !.hydrations = @ + 1]
    /\ UNCHANGED <<backend, control>>

\* setReport()
Hydrated(c) ==
    /\ c.kind = "hydrate" /\ c.answer.is = "report"
    /\ calls' = calls \ {c}
    /\ store' = IF c.answer.report = NoReport THEN store
                ELSE [store EXCEPT !.report = c.answer.report,
                        !.reportIsPrevious = \/ store.starting
                                             \/ store.status \in {"cancelled", "failed"}
                                             \/ IsActive(store)]
    /\ UNCHANGED <<backend, control, used>>

Answers(c) ==
    \/ Hydrated(c)
    \/ c.heard /\ (StartAnswered(c) \/ PollAnswered(c) \/ CancelAnswered(c)
                   \/ ResultAnswered(c))

Next ==
    \/ Edit \/ OtherStart \/ \E r \in Run : RunEnds(r)
    \/ \E c \in calls : Handle(c) \/ Lose(c) \/ Answers(c) \/ HeardByNobody(c)
    \/ Start \/ Cancel
    \/ StreamState \/ StreamEnd \/ StreamDrops
    \/ \E t \in control.timers : PollDue(t)
    \/ CloseView \/ OpenView \/ OpenCanvas

\* Runs end, requests are answered or fail, timers fire and the stream tells
\* how its run ended.
Fairness ==
    /\ \A r \in Run : WF_vars(RunEnds(r))
    /\ WF_vars(\E c \in calls : Handle(c) \/ Answers(c) \/ HeardByNobody(c))
    /\ WF_vars(StreamEnd)
    /\ WF_vars(\E t \in control.timers : PollDue(t))

Spec == Init /\ [][Next]_vars /\ Fairness

-----------------------------------------------------------------------------
(* Properties *)

\* A report that is not marked as a previous one is the report of the run on
\* display, once that run has ended ("The retained report belongs to an earlier
\* attempt", drc-store.ts:31).
UnmarkedReportIsOfRun ==
    store.report # NoReport /\ ~store.reportIsPrevious /\ ~store.starting
        /\ store.run # NoRun /\ store.status # "active" =>
            store.status = "completed" /\ store.report = backend.of[store.run]

\* So it is unless the canvas fetched a report on its own.
ReportIsOfRun == used.hydrations = 0 => UnmarkedReportIsOfRun

\* The first run of the panel.  The answer to a poll or a cancel is not asked
\* which run it is about, so that a late one disturbs a second (NeverHangs).
FirstRun == used.starts <= 1

\* The panel shows a run as cancelled only when the backend says so
\* (use-drc-run.ts:19).
CancelledByBackend ==
    FirstRun /\ store.status = "cancelled" =>
        backend.status[store.run] = "cancelled"

\* A run on display ends, however the stream and the requests fail, while the
\* view is open.
ShownRunEnds ==
    IsActive(store) ~> ~IsActive(store) \/ ~control.open \/ ~FirstRun

\* "a dropped stream degrades instead of hanging the panel forever"
\* (use-drc-run.ts:12): the same, of every run.
NeverHangs == IsActive(store) ~> ~IsActive(store) \/ ~control.open
===============================================================================
