----------------------------- MODULE DrcRunService -----------------------------
(***************************************************************************)
(* The owner of every batch DRC run                                        *)
(* (src/modules/designer/backend/drc/run-service.ts).  A caller starts a   *)
(* run of a design, joins the run that is under way for the same revision, *)
(* or supersedes an older one, whose callers are re-attached to the new    *)
(* run.  One run executes at a time, in order of creation: library reads,  *)
(* then the worker, then one synchronous step that stores the report.      *)
(* Edits and deletions of designs go on meanwhile.                         *)
(*                                                                         *)
(* A run is named by the caller that created it: its projection is what    *)
(* that caller read.  The options digest is a function of the projection,  *)
(* and the projection of the revision.  The worker is known by its         *)
(* contract only (DrcRunPromise).                                          *)
(***************************************************************************)
EXTENDS Naturals, Sequences, SequencesExt, FiniteSets

CONSTANTS
    Callers,        \* calls of start and runAndWait
    Designs,
    NoRun,
    MaxRevision     \* bound on the revision of a design

ASSUME CallersAssumption == NoRun \notin Callers
ASSUME MaxRevisionAssumption == MaxRevision \in Nat \ {0}

VARIABLES
    head,       \* revision of each design, 0 when it is deleted
    row,        \* revision of its stored report, 0 when there is none
    caller,     \* what each caller asked for and the run it got
    reads,      \* callers whose projection read is awaited, in order
    svc,        \* the service's state: see Service
    job,        \* the worker's promise for each run
    aborted     \* runs whose controller was aborted in time

vars == <<head, row, caller, reads, svc, job, aborted>>

Worker == INSTANCE DrcRunPromise WITH Runs <- Callers, fate <- job

Revision == 0..MaxRevision
RunId == Callers \cup {NoRun}
Statuses == {"none", "queued", "running", "completed", "cancelled", "failed"}
Terminal == {"completed", "cancelled", "failed"}
Settled == [is : {"pending", "rejected"}] \cup [is : {"report"}, revision : Revision]
Pending == [is |-> "pending"]
Rejected == [is |-> "rejected"]
\* Mutant of Reported: the report does not say what it describes.
ReportedBare(v) == [is |-> "report", violations |-> v]
Reported(v) == [is |-> "report", revision |-> v]

Caller == [at : {"idle", "reading", "refused", "waiting"},
           design : Designs, read : Revision, run : RunId]
Service == [status : [Callers -> Statuses],
            at : [Callers -> {"none", "library", "worker"}],    \* in execute()
            settled : [Callers -> Settled],
            follows : [Callers -> RunId],       \* the successor it waits for
            runs : SUBSET Callers,              \* the keys of `runs`
            activeByDesign : [Designs -> RunId],
            queue : Seq(Callers),
            executing : RunId,
            disposed : BOOLEAN]

TypeOK ==
    /\ head \in [Designs -> Revision] /\ row \in [Designs -> Revision]
    /\ caller \in [Callers -> Caller]
    /\ reads \in Seq(Callers)
    /\ svc \in Service
    /\ job \in [Callers -> Worker!Fates] /\ aborted \subseteq Callers

Init ==
    /\ head = [d \in Designs |-> 1] /\ row = [d \in Designs |-> 0]
    /\ caller \in [Callers -> [at : {"idle"}, design : Designs,
                               read : {0}, run : {NoRun}]]
    /\ reads = <<>>
    /\ svc = [status |-> [r \in Callers |-> "none"],
              at |-> [r \in Callers |-> "none"],
              settled |-> [r \in Callers |-> Pending],
              follows |-> [r \in Callers |-> NoRun],
              runs |-> {},
              activeByDesign |-> [d \in Designs |-> NoRun],
              queue |-> <<>>, executing |-> NoRun, disposed |-> FALSE]
    /\ Worker!Init

-----------------------------------------------------------------------------
(* The service's functions, on its state *)

DesignOf(r) == caller[r].design
RevisionOf(r) == caller[r].read

Holds(q, r) == \E k \in 1..Len(q) : q[k] = r
Without(q, r) ==
    IF Holds(q, r) THEN RemoveAt(q, CHOOSE k \in 1..Len(q) : q[k] = r) ELSE q

\* finish(): the single terminal transition.
Finish(s, r, status, settled, successor) ==
    IF s.status[r] \in Terminal THEN s
    ELSE [s EXCEPT !.status[r] = status,
                   !.activeByDesign[DesignOf(r)] = IF @ = r THEN NoRun ELSE @,
                   !.queue = Without(@, r),
                   !.settled[r] = settled,
                   !.follows[r] = successor]

\* cancelRun(): who waits gets an error, or waits for the successor.
CancelRun(s, r, successor) ==
    Finish(s, r, "cancelled", IF successor = NoRun THEN Rejected ELSE Pending,
           successor)

\* Its controller is aborted: news only to a call that has not settled.
AbortIn(R) == Worker!Abort({r \in R : job[r] \in {"new", "open"}})

Live(s, r) == r \in s.runs /\ s.status[r] = "queued"

\* pump(): the first queued run that is still known, when nothing executes.
Pump(s) ==
    LET live == {k \in 1..Len(s.queue) : Live(s, s.queue[k])}
        first == CHOOSE k \in live : \A j \in live : k <= j
        r == s.queue[first]
    IN  IF s.disposed \/ s.executing # NoRun THEN s
        ELSE IF live = {} THEN [s EXCEPT !.queue = <<>>]
        ELSE [s EXCEPT !.queue = SubSeq(@, first + 1, Len(@)),
                       !.status[r] = "running", !.executing = r,
                       !.at[r] = "library"]

\* Mutant of Left: the slot is freed, and nobody looks at the queue.
LeftIdle(s, r) ==
    [s EXCEPT !.at[r] = "none", !.executing = IF @ = r THEN NoRun ELSE @]

\* The finally block of execute().
Left(s, r) ==
    LET t == [s EXCEPT !.at[r] = "none"]
    IN  IF s.executing = r THEN Pump([t EXCEPT !.executing = NoRun]) ELSE t

CreateRun(s, r) ==
    [s EXCEPT !.status[r] = "queued", !.runs = @ \cup {r},
              !.activeByDesign[DesignOf(r)] = r, !.queue = Append(@, r)]

-----------------------------------------------------------------------------
(* The designs, as commands and deleteDesign change them *)

Edit(d) ==
    /\ head[d] \in 1..(MaxRevision - 1)
    /\ head' = [head EXCEPT ![d] = @ + 1]
    /\ UNCHANGED <<row, caller, reads, svc, job, aborted>>

DeleteDesign(d) ==
    /\ head[d] # 0
    /\ head' = [head EXCEPT ![d] = 0]
    /\ row' = [row EXCEPT ![d] = 0]
    /\ UNCHANGED <<caller, reads, svc, job, aborted>>

-----------------------------------------------------------------------------
(* startRun() *)

\* Mutant of Start: the newest read is resumed first.
StartLifo(c) ==
    /\ caller[c].at = "idle" /\ ~svc.disposed
    /\ caller' = [caller EXCEPT ![c].at = "reading", ![c].read = head[DesignOf(c)]]
    /\ reads' = <<c>> \o reads
    /\ UNCHANGED <<head, row, svc, job, aborted>>

\* Up to the await: the read itself is one transaction.
Start(c) ==
    /\ caller[c].at = "idle"
    /\ IF svc.disposed
       THEN caller' = [caller EXCEPT ![c].at = "refused"] /\ UNCHANGED reads
       ELSE /\ caller' = [caller EXCEPT ![c].at = "reading",
                                        ![c].read = head[DesignOf(c)]]
            /\ reads' = Append(reads, c)
    /\ UNCHANGED <<head, row, svc, job, aborted>>

Active(c) ==
    LET a == svc.activeByDesign[DesignOf(c)]
    IN  IF a # NoRun /\ a \in svc.runs /\ svc.status[a] \notin Terminal
          THEN a ELSE NoRun

Refused(c) ==
    /\ svc.disposed \/ caller[c].read = 0
    /\ caller' = [caller EXCEPT ![c].at = "refused"]
    /\ UNCHANGED <<svc, job, aborted>>

Waits(c, r) == caller' = [caller EXCEPT ![c].at = "waiting", ![c].run = r]

\* Mutant of Joins: any run of the design will do.
JoinsAny(c) ==
    /\ Active(c) # NoRun
    /\ Waits(c, Active(c))
    /\ UNCHANGED <<svc, job, aborted>>

Joins(c) ==
    /\ Active(c) # NoRun /\ RevisionOf(Active(c)) = RevisionOf(c)
    /\ Waits(c, Active(c))
    /\ UNCHANGED <<svc, job, aborted>>

\* The successor exists before the cancel.
Supersedes(c) ==
    /\ Active(c) # NoRun /\ RevisionOf(Active(c)) # RevisionOf(c)
    /\ svc' = Pump(CancelRun(CreateRun(svc, c), Active(c), c))
    /\ AbortIn({Active(c)})
    /\ Waits(c, c)

Creates(c) ==
    /\ Active(c) = NoRun
    /\ svc' = Pump(CreateRun(svc, c))
    /\ Waits(c, c)
    /\ UNCHANGED <<job, aborted>>

\* After the await; the lookup and the insert are one tick.
Resume ==
    /\ reads # <<>>
    /\ reads' = Tail(reads)
    /\ LET c == Head(reads)
       IN \/ Refused(c)
          \/ /\ ~svc.disposed /\ caller[c].read # 0
             /\ Joins(c) \/ Supersedes(c) \/ Creates(c)
    /\ UNCHANGED <<head, row>>

-----------------------------------------------------------------------------
(* execute() *)

Dropped(r) == svc' = Left(svc, r) /\ UNCHANGED <<head, row>>
Fails(r) ==
    /\ svc' = Left(Finish(svc, r, "failed", Rejected, NoRun), r)
    /\ UNCHANGED <<head, row>>
CancelledInside(r) ==
    /\ svc' = Left(CancelRun(svc, r, NoRun), r)
    /\ UNCHANGED <<head, row>>

\* buildRawFootprintEntries() settles.
LibraryRead(r) ==
    /\ svc.at[r] = "library"
    /\ \/ svc.status[r] # "running" /\ Dropped(r) /\ UNCHANGED <<job, aborted>>
       \/ /\ svc.status[r] = "running"
          /\ \/ Fails(r) /\ UNCHANGED <<job, aborted>>
             \/ /\ Worker!Call(r)
                /\ svc' = [svc EXCEPT !.at[r] = "worker"]
                /\ UNCHANGED <<head, row>>
    /\ UNCHANGED <<caller, reads>>

Saved(r) == row' = [row EXCEPT ![DesignOf(r)] = RevisionOf(r)]

\* Mutant of PersistAndComplete: the row is written later.
PersistLater(r) ==
    \/ svc.status[r] # "running" /\ Dropped(r)
    \/ /\ svc.status[r] = "running"
       /\ svc' = Left(Finish(svc, r, "completed", Reported(RevisionOf(r)), NoRun), r)
       /\ UNCHANGED <<head, row>>

\* persistAndComplete(): the checks and the write are one tick.
PersistAndComplete(r) ==
    \/ svc.status[r] # "running" /\ Dropped(r)
    \/ /\ svc.status[r] = "running"
       /\ \/ head[DesignOf(r)] = 0 /\ CancelledInside(r)
          \/ head[DesignOf(r)] # 0 /\ Fails(r)      \* the write threw
          \/ /\ head[DesignOf(r)] # 0
             /\ Saved(r)
             /\ svc' = Left(Finish(svc, r, "completed",
                                   Reported(RevisionOf(r)), NoRun), r)
             /\ UNCHANGED head

\* The worker's promise settled, and execute() goes on.
WorkerSettled(r) ==
    /\ svc.at[r] = "worker"
    /\ \/ job[r] = "report" /\ PersistAndComplete(r)
       \/ /\ job[r] \in {"cancelled", "failed"}
          /\ \/ svc.status[r] # "running" /\ Dropped(r)
             \/ /\ svc.status[r] = "running"
                /\ IF job[r] = "cancelled" THEN CancelledInside(r) ELSE Fails(r)
    /\ UNCHANGED <<caller, reads, job, aborted>>

\* A superseded run settles as its successor did.
Adopt(r) ==
    LET s == svc.follows[r]
    IN  /\ s # NoRun /\ svc.settled[r] = Pending /\ svc.settled[s] # Pending
        /\ svc' = [svc EXCEPT !.settled[r] = svc.settled[s]]
        /\ UNCHANGED <<head, row, caller, reads, job, aborted>>

-----------------------------------------------------------------------------
(* The other operations *)

\* cancel(): POST /runs/:runId/cancel.
Cancel(r) ==
    /\ r \in svc.runs /\ svc.status[r] \notin Terminal
    /\ svc' = CancelRun(svc, r, NoRun)
    /\ AbortIn({r})
    /\ UNCHANGED <<head, row, caller, reads>>

\* The retention timer of a terminal run.
Expire(r) ==
    /\ r \in svc.runs /\ svc.status[r] \in Terminal
    /\ svc' = [svc EXCEPT !.runs = @ \ {r}]
    /\ UNCHANGED <<head, row, caller, reads, job, aborted>>

Unfinished == {r \in svc.runs : svc.status[r] \notin Terminal}

\* Mutant of Dispose: the runs are forgotten with their callers.
DisposeSilently ==
    /\ ~svc.disposed
    /\ svc' = [svc EXCEPT !.runs = {}, !.activeByDesign = [d \in Designs |-> NoRun],
                          !.queue = <<>>, !.executing = NoRun, !.disposed = TRUE]
    /\ AbortIn(Unfinished)
    /\ UNCHANGED <<head, row, caller, reads>>

Dispose ==
    /\ ~svc.disposed
    /\ svc' = [svc EXCEPT
                 !.status = [r \in Callers |->
                               IF r \in Unfinished THEN "cancelled" ELSE @[r]],
                 !.settled = [r \in Callers |->
                                IF r \in Unfinished THEN Rejected ELSE @[r]],
                 !.runs = {}, !.activeByDesign = [d \in Designs |-> NoRun],
                 !.queue = <<>>, !.executing = NoRun, !.disposed = TRUE]
    /\ AbortIn(Unfinished)
    /\ UNCHANGED <<head, row, caller, reads>>

\* The worker may report, fail, or cancel on its own at any time.
WorkerEnds(r) ==
    /\ Worker!Report(r) \/ Worker!Fail(r) \/ Worker!Cancel({r})
    /\ job' # job
    /\ UNCHANGED <<head, row, caller, reads, svc>>
WorkerStops(r) == Worker!Stops(r) /\ WorkerEnds(r)

Next ==
    \/ \E d \in Designs : Edit(d) \/ DeleteDesign(d)
    \/ \E c \in Callers : Start(c)
    \/ Resume
    \/ \E r \in Callers : LibraryRead(r) \/ WorkerSettled(r) \/ Adopt(r)
    \/ \E r \in Callers : Cancel(r) \/ Expire(r) \/ WorkerEnds(r)
    \/ Dispose

\* Promise callbacks run, library reads settle, and the worker stops a call
\* that was aborted; an engine need not end by itself.
Fairness ==
    /\ WF_vars(Resume)
    /\ \A r \in Callers :
         /\ WF_vars(LibraryRead(r)) /\ WF_vars(WorkerSettled(r))
         /\ WF_vars(Adopt(r)) /\ WF_vars(WorkerStops(r))

Spec == Init /\ [][Next]_vars /\ Fairness

-----------------------------------------------------------------------------
(* Properties *)

RunsOf(d) == {r \in Callers : DesignOf(r) = d /\ svc.status[r] \in {"queued", "running"}}
Answer(c) == IF caller[c].run = NoRun THEN Pending ELSE svc.settled[caller[c].run]

\* Per design at most one run is not terminal, and it is the one that the next
\* start would find (contract 09, section 5).
OneActiveRun ==
    \A d \in Designs :
        RunsOf(d) = IF svc.activeByDesign[d] = NoRun THEN {}
                    ELSE {svc.activeByDesign[d]}

\* A caller never gets a report of a design as it was before the call, however
\* often the run it joined was superseded.
ReportIsFresh ==
    \A c \in Callers : Answer(c).is = "report" => Answer(c).revision >= caller[c].read

\* Whoever has a report finds it stored, or a later one, unless the design is
\* gone: the row is written before the run turns completed (section 7).
ReportIsStored ==
    \A c \in Callers :
        Answer(c).is = "report" =>
            head[DesignOf(c)] = 0 \/ row[DesignOf(c)] >= Answer(c).revision

\* No report is stored for a deleted design, nor for a revision it never had.
NoOrphanRow == \A d \in Designs : row[d] <= head[d]

\* The worker is given one run at a time, and while runs are queued one executes.
OneJobAtATime ==
    /\ \A r \in Callers : job[r] = "open" => svc.executing \in {r, NoRun}
    /\ \A r \in Callers : job[r] = "open" /\ svc.executing = NoRun => svc.disposed
    /\ svc.queue # <<>> => svc.executing # NoRun

\* A run whose callers still wait is queued, or under way in execute(), or
\* follows a run of a later revision: no chain of supersedes ends nowhere.
NoAnswerIsLost ==
    \A r \in Callers :
        svc.status[r] # "none" /\ svc.settled[r] = Pending =>
            \/ svc.status[r] = "queued" /\ Holds(svc.queue, r)
            \/ svc.status[r] = "running" /\ svc.executing = r /\ svc.at[r] # "none"
            \/ /\ svc.status[r] = "cancelled" /\ svc.follows[r] # NoRun
               /\ RevisionOf(svc.follows[r]) > RevisionOf(r)

\* Every run that anybody waits for has its place, and no other has.
RunsAreAccountedFor == OneActiveRun /\ OneJobAtATime /\ NoAnswerIsLost

\* The table holds what callers were told, and nothing of what is gone.
ReportsAreStored == ReportIsStored /\ NoOrphanRow

\* A stored report is never replaced by an older one.
RowNeverGoesBack ==
    [][\A d \in Designs : row'[d] >= row[d] \/ head'[d] = 0]_vars

\* Every caller is answered, through supersedes, cancels, failures, deletions
\* and the disposal of the service, provided that the engine ends each run.
EveryCallerIsAnswered ==
    (\A r \in Callers : WF_vars(WorkerEnds(r))) =>
        \A c \in Callers :
            caller[c].at \in {"reading", "waiting"} ~>
                caller[c].at = "refused" \/ Answer(c) # Pending
===============================================================================
