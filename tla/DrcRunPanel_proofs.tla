------------------------- MODULE DrcRunPanel_proofs -------------------------
(***************************************************************************)
(* Proofs about DrcRunPanel: its invariants hold for any bounds.           *)
(*                                                                         *)
(* What the panel shows is decided by answers that arrive long after they  *)
(* were given.  The invariant therefore says of every answer on its way    *)
(* what it will be worth on arrival: the run it names is one the backend   *)
(* has, and if it tells of an end, that end is final.                      *)
(***************************************************************************)
EXTENDS DrcRunPanel, TLAPS

\* The backend numbers its runs as it creates them.
NumberedOf(b) == \A r \in Run : b.status[r] = "none" <=> b.last < r
Numbered == NumberedOf(backend)

\* A request is about a run the backend has, and what its answer says of the
\* end of a run is so for good.
CallIsTrue(b, c) ==
    /\ c \in Call /\ c.run <= b.last
    /\ c.kind \in {"poll", "cancel"} => c.run # NoRun
    /\ c.answer.is = "run" =>
         /\ c.kind \in {"start", "poll", "cancel"}
         /\ c.kind # "start" => c.answer.run = c.run
         /\ c.answer.run <= b.last
         /\ c.answer.status # "none"
         /\ c.answer.status \in Ended => b.status[c.answer.run] = c.answer.status
    /\ c.answer.is = "report" => c.kind \in {"result", "hydrate"}
    /\ ~c.heard => c.kind \in {"start", "cancel"} /\ c.answer.is = "waiting"
CallsAreTrue == \A c \in calls : CallIsTrue(backend, c)

\* Whatever the panel shows or watches is a run the backend has.
RunsAreKnown ==
    /\ store.run <= backend.last /\ control.stream <= backend.last
    /\ \A t \in control.timers : t.run <= backend.last

\* Without a run nothing is shown of one; a report that is not marked as
\* previous is the one of the run on display, if none was fetched on its own.
ReportIsMarkedIn(s) ==
    /\ s.run = NoRun => s.status = "none"
    /\ used.hydrations = 0 /\ s.report # NoReport /\ ~s.reportIsPrevious =>
         /\ s.run # NoRun /\ ~s.starting
         /\ s.status = "completed" /\ s.report = backend.of[s.run]
ReportIsMarked ==
    /\ ReportIsMarkedIn(store)
    /\ used.hydrations = 0 => \A c \in calls : c.kind # "hydrate"

Quiet == control.stream = NoRun /\ control.timers = {}

\* Before the first start nothing is shown, watched or asked.
NothingYet == used.starts = 0 =>
    /\ store.run = NoRun /\ Quiet
    /\ \A c \in calls : c.kind = "hydrate"

\* While the first start is under way it is alone.
StartIsAlone == used.starts <= 1 /\ (\E c \in calls : c.kind = "start" /\ c.heard) =>
    /\ store.run = NoRun /\ Quiet
    /\ \A c \in calls : c.kind \in {"start", "hydrate"}
    /\ \A c, d \in calls : c.kind = "start" /\ d.kind = "start" => c = d

\* Until a second start, all that is under way is about the run on display,
\* unless the canvas was cleared since.
AboutOneRun == used.starts <= 1 /\ store.run # NoRun =>
    /\ control.stream \in {NoRun, store.run}
    /\ \A t \in control.timers : t.run = store.run
    /\ \A c \in calls : c.kind \in {"poll", "cancel"} => c.run = store.run

CancelIsTrue == used.starts <= 1 /\ store.status = "cancelled" =>
    backend.status[store.run] = "cancelled"

OneRun == NothingYet /\ StartIsAlone /\ AboutOneRun /\ CancelIsTrue

IInv ==
    /\ TypeOK /\ Numbered /\ RunsAreKnown /\ CallsAreTrue
    /\ ReportIsMarked /\ OneRun

-----------------------------------------------------------------------------
(* The initial state *)

\* The panel starts with nothing shown, watched or asked.
LEMMA InitInvariant == Init => IInv
<1> SUFFICES ASSUME Init PROVE IInv
    OBVIOUS
<1> USE BoundsAssumption DEF Init, Fresh, NoRun, NoReport, NoTimer, Run, Statuses
<1>1. backend \in Backend
    BY DEF Backend
<1>2. store \in Store
    BY DEF Store
<1>3. control \in Control
    BY DEF Control
<1>4. TypeOK
    BY <1>1, <1>2, <1>3 DEF TypeOK
<1>5. Numbered /\ RunsAreKnown /\ CallsAreTrue
    BY DEF Numbered, NumberedOf, RunsAreKnown, CallsAreTrue
<1>6. ReportIsMarked
    BY DEF ReportIsMarked, ReportIsMarkedIn
<1>7. OneRun
    BY DEF OneRun, NothingYet, StartIsAlone, AboutOneRun, CancelIsTrue, Quiet
<1> QED
    BY <1>4, <1>5, <1>6, <1>7 DEF IInv

-----------------------------------------------------------------------------
(* Steps of the backend *)

\* What a step of the backend from b to d keeps: its runs, the revision each
\* is of, and how each has ended.
Moves(b, d) ==
    /\ d \in Backend /\ NumberedOf(d)
    /\ b.last <= d.last
    /\ \A r \in Run : r <= b.last =>
         /\ d.of[r] = b.of[r]
         /\ b.status[r] \in Ended => d.status[r] = b.status[r]

\* start() answers with an active run and keeps every run that has ended.
LEMMA StartedMoves ==
    ASSUME backend \in Backend, Numbered, NEW s \in Started(backend)
    PROVE  /\ Moves(backend, s[1])
           /\ s[2] \in Run /\ s[2] <= s[1].last /\ s[1].status[s[2]] = "active"
<1> DEFINE join == {r \in Active : backend.of[r] = backend.revision}
           n == backend.last + 1
           status == [r \in Run |-> IF r = n THEN "active"
                        ELSE IF r \in Active THEN "cancelled"
                        ELSE backend.status[r]]
           created == [backend EXCEPT !.last = n, !.of[n] = backend.revision,
                                      !.status = status]
<1>1. CASE join # {}
    <2>1. PICK r \in join : s = <<backend, r>>
        BY <1>1 DEF Started
    <2>2. r \in Run /\ backend.status[r] = "active"
        BY <2>1 DEF Active
    <2>3. r <= backend.last
        BY <2>2 DEF Numbered, NumberedOf, Backend, Run
    <2>4. Moves(backend, backend)
        BY DEF Moves, Numbered, Backend
    <2> QED
        BY <2>1, <2>2, <2>3, <2>4
<1>2. CASE join = {}
    <2>1. n \in Run /\ s = <<created, n>>
        BY <1>2 DEF Started
    <2>2. status \in [Run -> Statuses]
        BY DEF Backend, Statuses
    <2>3. [backend.of EXCEPT ![n] = backend.revision] \in [Run -> 0..MaxRevision]
        BY <2>1 DEF Backend
    <2>4. /\ created.last = n /\ created.status = status
          /\ created.of = [backend.of EXCEPT ![n] = backend.revision]
          /\ created.revision = backend.revision /\ created.row = backend.row
        <3> HIDE DEF n, status
        <3> QED
            BY DEF Backend
    <2>5. created \in Backend
        <3>1. n \in 0..MaxRuns /\ backend.revision \in 1..MaxRevision
            BY <2>1 DEF Backend, Run
        <3> HIDE DEF n, status
        <3> QED
            BY <3>1, <2>2, <2>3 DEF Backend
    <2>6. NumberedOf(created)
        <3> HIDE DEF created
        <3> SUFFICES ASSUME NEW r \in Run
                     PROVE  created.status[r] = "none" <=> created.last < r
            BY DEF NumberedOf
        <3>1. created.status[r] = "none" <=> r # n /\ backend.status[r] = "none"
            BY <2>4 DEF Active
        <3>2. backend.status[r] = "none" <=> backend.last < r
            BY DEF Numbered, NumberedOf
        <3> QED
            BY <3>1, <3>2, <2>4 DEF Backend, Run
    <2>7. ASSUME NEW r \in Run, r <= backend.last
          PROVE  /\ created.of[r] = backend.of[r]
                 /\ backend.status[r] \in Ended => created.status[r] = backend.status[r]
        <3> HIDE DEF created
        <3>1. r # n
            BY <2>7, <2>1 DEF Backend, Run
        <3>2. created.of[r] = backend.of[r]
            BY <3>1, <2>4 DEF Backend
        <3>3. backend.status[r] \in Ended => created.status[r] = backend.status[r]
            BY <3>1, <2>4 DEF Ended, Active
        <3> QED
            BY <3>2, <3>3
    <2>8. Moves(backend, created)
        <3> HIDE DEF created
        <3>1. backend.last <= created.last
            BY <2>4 DEF Backend
        <3> QED
            BY <2>5, <2>6, <2>7, <3>1 DEF Moves
    <2>9. created.status[n] = "active" /\ n <= created.last
        <3> HIDE DEF created
        <3> QED
            BY <2>1, <2>4 DEF Run
    <2> HIDE DEF created
    <2> QED
        BY <2>1, <2>8, <2>9
<1> QED
    BY <1>1, <1>2

\* A request moves the backend, and its answer is true of it then.
LEMMA HandledIsTrue ==
    ASSUME backend \in Backend, Numbered, NEW c, CallIsTrue(backend, c),
           c.answer.is = "waiting", NEW h \in Handled(c)
    PROVE  /\ Moves(backend, h[1])
           /\ h[2].is \in {"run", "report"}
           /\ c.heard => CallIsTrue(h[1], [c EXCEPT !.answer = h[2]])
<1>0. c \in Call /\ c.run <= backend.last
    BY DEF CallIsTrue
<1> DEFINE d == [c EXCEPT !.answer = h[2]]
<1>d. /\ d.kind = c.kind /\ d.run = c.run /\ d.heard = c.heard
      /\ d.attempt = c.attempt /\ d.answer = h[2]
      /\ h[2] \in Answer => d \in Call
    BY <1>0 DEF Call
<1>k. c.kind \in {"start", "poll", "cancel", "result", "hydrate"}
    BY <1>0 DEF Call
<1>m. Moves(backend, backend)
    BY DEF Moves, Numbered, Backend
<1> HIDE DEF d
<1>1. CASE c.kind = "start"
    <2>1. PICK s \in Started(backend) : h = <<s[1], Snapshot(s[1], s[2])>>
        BY <1>1 DEF Handled
    <2>2. /\ Moves(backend, s[1])
          /\ s[2] \in Run /\ s[2] <= s[1].last /\ s[1].status[s[2]] = "active"
        BY StartedMoves
    <2>3. /\ h[1] = s[1] /\ h[2].is = "run" /\ h[2].run = s[2]
          /\ h[2].status = "active"
          /\ h[2] = [is |-> "run", run |-> s[2], status |-> "active"]
        BY <2>1, <2>2 DEF Snapshot
    <2>4. h[2] \in Answer
        BY <2>2, <2>3 DEF Answer, Statuses
    <2>5. c.run <= h[1].last
        BY <1>0, <2>2, <2>3 DEF Moves, Backend, Call
    <2>6. c.heard => CallIsTrue(h[1], d)
        BY <1>1, <1>d, <2>2, <2>3, <2>4, <2>5 DEF CallIsTrue, Ended
    <2> QED
        BY <2>2, <2>3, <2>6 DEF d
<1>2. CASE c.kind = "poll"
    <2>1. h = <<backend, Snapshot(backend, c.run)>>
        BY <1>2 DEF Handled
    <2>2. c.run \in Run
        BY <1>0, <1>2 DEF CallIsTrue, Call, Run, NoRun
    <2>3. backend.status[c.run] \in Statuses /\ backend.status[c.run] # "none"
        <3>1. ~(backend.last < c.run)
            BY <2>2, <1>0 DEF Backend, Run
        <3> QED
            BY <2>2, <3>1 DEF Numbered, NumberedOf, Backend
    <2>4. /\ h[1] = backend /\ h[2].is = "run" /\ h[2].run = c.run
          /\ h[2].status = backend.status[c.run]
          /\ h[2] = [is |-> "run", run |-> c.run, status |-> backend.status[c.run]]
        BY <2>1 DEF Snapshot
    <2>5. h[2] \in Answer
        BY <2>2, <2>3, <2>4 DEF Answer
    <2>6. c.heard => CallIsTrue(h[1], d)
        BY <1>0, <1>2, <1>d, <2>2, <2>3, <2>4, <2>5 DEF CallIsTrue, NoRun, Run
    <2> QED
        BY <2>4, <2>6, <1>m DEF d
<1>3. CASE c.kind = "cancel"
    <2> DEFINE stopped == IF backend.status[c.run] = "active" THEN "cancelled"
                          ELSE backend.status[c.run]
               b == [backend EXCEPT !.status[c.run] = stopped]
    <2>1. h = <<b, Snapshot(b, c.run)>>
        BY <1>3 DEF Handled
    <2>2. c.run \in Run
        BY <1>0, <1>3 DEF CallIsTrue, Call, Run, NoRun
    <2>3. backend.status[c.run] \in Statuses /\ backend.status[c.run] # "none"
        <3>1. ~(backend.last < c.run)
            BY <2>2, <1>0 DEF Backend, Run
        <3> QED
            BY <2>2, <3>1 DEF Numbered, NumberedOf, Backend
    <2>4. stopped \in Statuses /\ stopped # "none"
        BY <2>3 DEF Statuses
    <2>5. /\ b \in Backend /\ b.last = backend.last /\ b.of = backend.of
          /\ b.status = [backend.status EXCEPT ![c.run] = stopped]
        BY <2>2, <2>4 DEF Backend
    <2>6. NumberedOf(b)
        BY <2>2, <2>3, <2>4, <2>5 DEF Numbered, NumberedOf, Backend
    <2>7. Moves(backend, b)
        <3>1. \A r \in Run : backend.status[r] \in Ended => b.status[r] = backend.status[r]
            BY <2>2, <2>5 DEF Ended, Backend
        <3>2. backend.last <= b.last
            BY <2>5 DEF Backend
        <3> HIDE DEF b
        <3> QED
            BY <2>5, <2>6, <3>1, <3>2 DEF Moves
    <2>8. b.status[c.run] = stopped
        BY <2>2, <2>5 DEF Backend
    <2> HIDE DEF b, stopped
    <2>9. /\ h[1] = b /\ h[2].is = "run" /\ h[2].run = c.run
          /\ h[2].status = stopped
          /\ h[2] = [is |-> "run", run |-> c.run, status |-> stopped]
        BY <2>1, <2>8 DEF Snapshot
    <2>10. h[2] \in Answer
        BY <2>2, <2>4, <2>9 DEF Answer
    <2>11. c.heard => CallIsTrue(h[1], d)
        <3>1. c.run # NoRun /\ c.run <= h[1].last /\ h[1].status[c.run] = stopped
            BY <1>0, <1>3, <2>5, <2>8, <2>9 DEF CallIsTrue
        <3> QED
            BY <1>3, <1>d, <2>4, <2>9, <2>10, <3>1 DEF CallIsTrue
    <2> QED
        BY <2>7, <2>9, <2>11 DEF d
<1>4. CASE c.kind \in {"result", "hydrate"}
    <2>1. h = <<backend, [is |-> "report", report |-> backend.row]>>
        BY <1>4 DEF Handled
    <2>2. h[1] = backend /\ h[2] = [is |-> "report", report |-> backend.row]
        BY <2>1
    <2>3. h[2] \in Answer /\ h[2].is = "report"
        BY <2>2 DEF Answer, Backend
    <2>4. c.heard => CallIsTrue(h[1], d)
        BY <1>0, <1>4, <1>d, <2>2, <2>3 DEF CallIsTrue
    <2> QED
        BY <2>2, <2>3, <2>4, <1>m DEF d
<1> QED
    BY <1>1, <1>2, <1>3, <1>4, <1>k

\* What was true of a request stays true while the backend moves.
LEMMA TrueStays ==
    ASSUME backend \in Backend, NEW d, Moves(backend, d), NEW c, CallIsTrue(backend, c)
    PROVE  CallIsTrue(d, c)
<1>1. c \in Call /\ c.run <= d.last
    BY DEF CallIsTrue, Moves, Backend, Call
<1>2. c.answer.is = "run" =>
        /\ c.answer.run \in Run /\ c.answer.run <= d.last
        /\ c.answer.status \in Ended => d.status[c.answer.run] = c.answer.status
    <2> SUFFICES ASSUME c.answer.is = "run"
                 PROVE  /\ c.answer.run \in Run /\ c.answer.run <= d.last
                        /\ c.answer.status \in Ended =>
                             d.status[c.answer.run] = c.answer.status
        OBVIOUS
    <2>1. c.answer.run \in Run /\ c.answer.run <= backend.last
        BY DEF CallIsTrue, Call, Answer
    <2>2. c.answer.run <= d.last
        BY <2>1 DEF Moves, Backend, Run
    <2>3. c.answer.status \in Ended => d.status[c.answer.run] = c.answer.status
        BY <2>1 DEF CallIsTrue, Moves
    <2> QED
        BY <2>1, <2>2, <2>3
<1> QED
    BY <1>1, <1>2 DEF CallIsTrue

\* While the backend moves, the panel stays as it is and requests are only
\* answered, everything the invariant says stays.
LEMMA BackendStep ==
    ASSUME IInv, Moves(backend, backend'), UNCHANGED <<store, control, used>>,
           \A c \in calls' :
              \/ c \in calls
              \/ /\ CallIsTrue(backend', c) /\ c.heard
                 /\ \E e \in calls : /\ c.kind = e.kind /\ c.run = e.run /\ e.heard
                                     /\ e \notin calls'
           , \A c, d \in calls' \ calls : c = d
    PROVE  IInv'
<1> USE DEF IInv
<1>1. CallsAreTrue'
    <2> SUFFICES ASSUME NEW c \in calls' PROVE CallIsTrue(backend', c)
        BY DEF CallsAreTrue
    <2>1. CASE c \in calls
        BY <2>1, TrueStays DEF CallsAreTrue, TypeOK
    <2> QED
        BY <2>1
<1>2. TypeOK'
    <2>1. calls' \subseteq Call
        BY <1>1 DEF CallsAreTrue, CallIsTrue
    <2>2. backend' \in Backend
        BY DEF Moves
    <2> QED
        BY <2>1, <2>2 DEF TypeOK
<1>3. Numbered'
    BY DEF Moves, Numbered
<1>4. RunsAreKnown'
    <2>1. backend.last \in Nat /\ backend'.last \in Nat /\ backend.last <= backend'.last
        BY DEF Moves, Backend, TypeOK
    <2>2. store.run \in Nat /\ control.stream \in Nat
          /\ \A t \in control.timers : t.run \in Nat
        BY DEF TypeOK, Store, Control, Timer, Run
    <2> QED
        BY <2>1, <2>2 DEF RunsAreKnown
<1>5. store.run # NoRun =>
        /\ backend'.of[store.run] = backend.of[store.run]
        /\ backend.status[store.run] \in Ended =>
             backend'.status[store.run] = backend.status[store.run]
    BY DEF Moves, RunsAreKnown, TypeOK, Store, Run, NoRun
<1>6. ReportIsMarked'
    BY <1>5 DEF ReportIsMarked, ReportIsMarkedIn
<1>7. ASSUME NEW c \in calls'
      PROVE  \E e \in calls : c.kind = e.kind /\ c.run = e.run /\ c.heard = e.heard
    BY <1>1, <1>7 DEF CallsAreTrue, CallIsTrue, TypeOK, Call
<1>8. NothingYet'
    BY <1>7 DEF OneRun, NothingYet, Quiet
<1>9. StartIsAlone'
    <2> SUFFICES ASSUME used.starts <= 1, NEW s \in calls', s.kind = "start", s.heard
                 PROVE  /\ store.run = NoRun /\ Quiet
                        /\ \A c \in calls' : c.kind \in {"start", "hydrate"}
                        /\ \A c, d \in calls' : c.kind = "start" /\ d.kind = "start" => c = d
        BY DEF StartIsAlone, Quiet
    <2>1. /\ store.run = NoRun /\ Quiet
          /\ \A c \in calls : c.kind \in {"start", "hydrate"}
          /\ \A c, d \in calls : c.kind = "start" /\ d.kind = "start" => c = d
        BY <1>7 DEF OneRun, StartIsAlone
    <2>2. \A c \in calls' : c.kind \in {"start", "hydrate"}
        BY <2>1, <1>7
    <2>3. ASSUME NEW c \in calls', NEW d \in calls', c.kind = "start", d.kind = "start"
          PROVE  c = d
        BY <2>1, <2>3
    <2> QED
        BY <2>1, <2>2, <2>3
<1>10. AboutOneRun'
    BY <1>7 DEF OneRun, AboutOneRun
<1>11. CancelIsTrue'
    BY <1>5 DEF OneRun, CancelIsTrue, ReportIsMarked, ReportIsMarkedIn, Ended
<1> QED
    BY <1>1, <1>2, <1>3, <1>4, <1>6, <1>8, <1>9, <1>10, <1>11 DEF OneRun

\* A new revision.
LEMMA EditKeeps == IInv /\ Edit => IInv'
<1> SUFFICES ASSUME IInv, Edit PROVE IInv'
    OBVIOUS
<1>1. backend \in Backend /\ Numbered
    BY DEF IInv, TypeOK
<1>2. /\ backend'.last = backend.last /\ backend'.status = backend.status
      /\ backend'.of = backend.of
    BY <1>1 DEF Edit, Backend
<1>3. backend' \in Backend
    BY <1>1, BoundsAssumption DEF Edit, Backend
<1>4. Moves(backend, backend')
    BY <1>1, <1>2, <1>3 DEF Moves, Numbered, NumberedOf, Backend
<1>5. UNCHANGED <<store, control, used, calls>>
    BY DEF Edit
<1> QED
    BY <1>4, <1>5, BackendStep

\* A run somebody else starts.
LEMMA OtherStartKeeps == IInv /\ OtherStart => IInv'
<1> SUFFICES ASSUME IInv, OtherStart PROVE IInv'
    OBVIOUS
<1>1. backend \in Backend /\ Numbered
    BY DEF IInv, TypeOK
<1>2. PICK s \in Started(backend) : backend' = s[1]
    BY DEF OtherStart
<1>3. Moves(backend, backend')
    BY <1>1, <1>2, StartedMoves
<1>4. UNCHANGED <<store, control, used, calls>>
    BY DEF OtherStart
<1> QED
    BY <1>3, <1>4, BackendStep

\* An active run ends.
LEMMA RunEndsKeeps == ASSUME IInv, NEW r \in Run, RunEnds(r) PROVE IInv'
<1>1. backend \in Backend /\ Numbered
    BY DEF IInv, TypeOK
<1>2. PICK status \in {"completed", "failed"} :
        backend' = [backend EXCEPT !.status[r] = status,
                      !.row = IF status = "completed" THEN backend.of[r] ELSE @]
    BY DEF RunEnds
<1>3. /\ backend'.last = backend.last /\ backend'.of = backend.of
      /\ backend'.status = [backend.status EXCEPT ![r] = status]
    BY <1>1, <1>2 DEF Backend
<1>4. backend' \in Backend
    <2>1. [backend.status EXCEPT ![r] = status] \in [Run -> Statuses]
        BY <1>1 DEF Backend, Statuses
    <2>2. backend.of[r] \in 0..MaxRevision
        BY <1>1 DEF Backend
    <2> QED
        BY <1>1, <1>2, <2>1, <2>2 DEF Backend
<1>5. backend.status[r] = "active"
    BY DEF RunEnds
<1>6. NumberedOf(backend')
    BY <1>1, <1>3, <1>5 DEF Numbered, NumberedOf, Backend
<1>7. \A q \in Run : backend.status[q] \in Ended => backend'.status[q] = backend.status[q]
    BY <1>1, <1>3, <1>5 DEF Ended, Backend
<1>8. Moves(backend, backend')
    BY <1>1, <1>3, <1>4, <1>6, <1>7 DEF Moves, Backend
<1>9. UNCHANGED <<store, control, used, calls>>
    BY DEF RunEnds
<1> QED
    BY <1>8, <1>9, BackendStep

\* A request is answered.
LEMMA HandleKeeps == ASSUME IInv, NEW c \in calls, Handle(c) PROVE IInv'
<1>1. backend \in Backend /\ Numbered /\ CallIsTrue(backend, c)
    BY DEF IInv, TypeOK, CallsAreTrue
<1>2. c.answer.is = "waiting" /\ c.heard
    BY DEF Handle
<1>3. PICK h \in Handled(c) :
        /\ backend' = h[1]
        /\ calls' = (calls \ {c}) \cup {[c EXCEPT !.answer = h[2]]}
    BY DEF Handle
<1> DEFINE d == [c EXCEPT !.answer = h[2]]
<1>4. /\ Moves(backend, backend') /\ h[2].is \in {"run", "report"}
      /\ CallIsTrue(backend', d)
    BY <1>1, <1>2, <1>3, HandledIsTrue
<1>5. d.kind = c.kind /\ d.run = c.run /\ d.heard = c.heard /\ d.answer = h[2]
    BY <1>1 DEF CallIsTrue, Call
<1>6. calls' = (calls \ {c}) \cup {d}
    BY <1>3
<1> HIDE DEF d
<1>7. d # c
    BY <1>2, <1>4, <1>5
<1>8. UNCHANGED <<store, control, used>>
    BY DEF Handle
<1> QED
    BY <1>2, <1>4, <1>5, <1>6, <1>7, <1>8, BackendStep

\* What a closed view asked for is carried out, or not.
LEMMA HeardByNobodyKeeps == ASSUME IInv, NEW c \in calls, HeardByNobody(c) PROVE IInv'
<1>1. backend \in Backend /\ Numbered /\ CallIsTrue(backend, c)
    BY DEF IInv, TypeOK, CallsAreTrue
<1>2. c.answer.is = "waiting"
    BY <1>1 DEF HeardByNobody, CallIsTrue
<1>3. Moves(backend, backend')
    <2>1. CASE backend' = backend
        BY <1>1, <2>1 DEF Moves, Numbered, Backend
    <2>2. CASE \E h \in Handled(c) : backend' = h[1]
        BY <1>1, <1>2, <2>2, HandledIsTrue
    <2> QED
        BY <2>1, <2>2 DEF HeardByNobody
<1>4. calls' \subseteq calls /\ UNCHANGED <<store, control, used>>
    BY DEF HeardByNobody
<1> QED
    BY <1>3, <1>4, BackendStep

-----------------------------------------------------------------------------
(* What the steps of the panel share *)

\* A request that has just been sent is true of any backend that has its run.
LEMMA SentIsTrue ==
    ASSUME NEW kind \in {"start", "poll", "cancel", "result", "hydrate"},
           NEW run \in 0..MaxRuns, NEW attempt \in Nat, run <= backend.last,
           kind \in {"poll", "cancel"} => run # NoRun
    PROVE  /\ CallIsTrue(backend, Sent(kind, run, attempt))
           /\ Sent(kind, run, attempt).kind = kind /\ Sent(kind, run, attempt).run = run
           /\ Sent(kind, run, attempt).heard
<1>1. [is |-> "waiting"] \in Answer
    BY DEF Answer
<1>2. Sent(kind, run, attempt) \in Call
    BY <1>1 DEF Sent, Call
<1> QED
    BY <1>2 DEF CallIsTrue, Sent

\* cancelRun() and failRun() leave a report marked as a previous one.
LEMMA StoppedIsMarked ==
    ASSUME NEW s \in Store, ReportIsMarkedIn(s), NEW status \in Statuses
    PROVE  /\ Stopped(s, status) \in Store /\ Stopped(s, status).run = s.run
           /\ ReportIsMarkedIn(Stopped(s, status))
           /\ Stopped(s, status).status = IF s.run = NoRun THEN s.status ELSE status
<1> DEFINE w == Stopped(s, status)
<1>1. /\ w.run = s.run /\ w.report = s.report /\ w.starting = FALSE
      /\ w.status = (IF s.run = NoRun THEN s.status ELSE status)
      /\ w.reportIsPrevious = (s.report # NoReport)
    BY DEF Stopped, Store
<1>2. w \in Store
    BY DEF Stopped, Store
<1> HIDE DEF w
<1>3. ReportIsMarkedIn(w)
    BY <1>1 DEF ReportIsMarkedIn
<1> QED
    BY <1>1, <1>2, <1>3 DEF w

\* The stream is closed and the poll timer cleared.
LEMMA TornDownIsQuieter ==
    ASSUME control \in Control
    PROVE  /\ TornDown(control) \in Control /\ TornDown(control).stream = NoRun
           /\ TornDown(control).timers \subseteq control.timers
           /\ \A f \in BOOLEAN : [TornDown(control) EXCEPT !.finished = f] \in Control
           /\ \A f : /\ [TornDown(control) EXCEPT !.finished = f].stream = NoRun
                     /\ [TornDown(control) EXCEPT !.finished = f].timers
                          = TornDown(control).timers
<1> DEFINE k == TornDown(control)
<1>1. k \in Control /\ k.stream = NoRun /\ k.timers \subseteq control.timers
    <2>1. NoRun \in 0..MaxRuns
        BY BoundsAssumption DEF NoRun
    <2>2. control.timers \ {control.pollTimer} \in SUBSET Timer
        BY DEF Control
    <2>3. k \in Control
        BY <2>1, <2>2 DEF TornDown, Control
    <2>4. k.stream = NoRun /\ k.timers = control.timers \ {control.pollTimer}
        BY DEF TornDown, Control
    <2> QED
        BY <2>3, <2>4
<1> HIDE DEF k
<1>2. \A f \in BOOLEAN : [k EXCEPT !.finished = f] \in Control
    BY <1>1 DEF Control
<1>3. \A f : /\ [k EXCEPT !.finished = f].stream = NoRun
             /\ [k EXCEPT !.finished = f].timers = k.timers
    BY <1>1 DEF Control
<1> QED
    BY <1>1, <1>2, <1>3 DEF k

\* The run on display ends.
LEMMA FinishKeeps ==
    ASSUME IInv, UNCHANGED <<backend, used>>, used.starts # 0,
           NEW s \in Store, NEW status \in Statuses, NEW rest \in SUBSET calls,
           Finish(s, status, rest),
           s.run <= backend.last, ReportIsMarkedIn(s),
           used.starts <= 1 =>
             /\ \A c \in rest : ~(c.kind = "start" /\ c.heard)
             /\ s.run # NoRun =>
                  /\ \A t \in control.timers : t.run = s.run
                  /\ \A c \in rest : c.kind \in {"poll", "cancel"} => c.run = s.run
                  /\ status = "cancelled" => backend.status[s.run] = "cancelled"
             /\ s.status = "cancelled" => backend.status[s.run] = "cancelled"
    PROVE  IInv'
<1>1. control \in Control
    BY DEF IInv, TypeOK
<1>2. /\ control' \in Control /\ control'.stream = NoRun
      /\ control'.timers \subseteq control.timers
    BY <1>1, TornDownIsQuieter DEF Finish
<1>3. /\ store' \in Store /\ store'.run = s.run /\ ReportIsMarkedIn(store')
      /\ store'.status \in {s.status, status}
      /\ store'.status # s.status => s.run # NoRun
    BY StoppedIsMarked DEF Finish
<1>4. /\ s.run \in 0..MaxRuns
      /\ CallIsTrue(backend, Sent("result", s.run, 0))
      /\ Sent("result", s.run, 0).kind = "result"
    BY SentIsTrue DEF Store
<1>5. \A c \in calls' : c \in rest \/ c = Sent("result", s.run, 0)
    BY DEF Finish
<1>6. CallsAreTrue'
    BY <1>4, <1>5 DEF IInv, CallsAreTrue
<1>7. TypeOK'
    BY <1>2, <1>3, <1>6 DEF IInv, TypeOK, CallsAreTrue, CallIsTrue
<1>8. RunsAreKnown'
    BY <1>2, <1>3 DEF IInv, RunsAreKnown, TypeOK, Backend, NoRun
<1>9. ReportIsMarked'
    BY <1>3, <1>4, <1>5 DEF IInv, ReportIsMarked, ReportIsMarkedIn
<1>10. NothingYet' /\ StartIsAlone'
    BY <1>4, <1>5 DEF NothingYet, StartIsAlone
<1>11. AboutOneRun'
    BY <1>2, <1>3, <1>4, <1>5 DEF AboutOneRun
<1>12. CancelIsTrue'
    BY <1>3 DEF CancelIsTrue
<1> QED
    BY <1>6, <1>7, <1>8, <1>9, <1>10, <1>11, <1>12 DEF IInv, OneRun, Numbered

\* The next poll is due, or there have been too many.
LEMMA SchedulePollKeeps ==
    ASSUME IInv, UNCHANGED <<backend, used>>, used.starts # 0,
           NEW k \in Control, k.stream \in {NoRun, control.stream},
           k.timers = control.timers,
           NEW r \in Run, r <= backend.last, NEW attempt \in Nat,
           NEW rest \in SUBSET calls, SchedulePoll(k, r, attempt, rest),
           used.starts <= 1 =>
             /\ \A c \in calls : ~(c.kind = "start" /\ c.heard)
             /\ store.run # NoRun => r = store.run
    PROVE  IInv'
<1> DEFINE t == [run |-> r, attempt |-> attempt]
<1>1. t \in Timer /\ t.run = r
    BY DEF Timer
<1> HIDE DEF t
<1>2. /\ control' \in Control /\ control'.stream = k.stream
      /\ control'.timers \subseteq control.timers \cup {t}
    <2>1. CASE control' = k
        BY <2>1
    <2>2. CASE control' = [k EXCEPT !.finished = TRUE]
        BY <2>2 DEF Control
    <2>3. CASE control' = [k EXCEPT !.timers = @ \cup {t}, !.pollTimer = t]
        BY <2>3, <1>1 DEF Control
    <2> QED
        BY <2>1, <2>2, <2>3 DEF SchedulePoll, t
<1>3. /\ store \in Store /\ ReportIsMarkedIn(store)
      /\ store' = store \/ store' = Stopped(store, "failed")
    BY DEF IInv, TypeOK, ReportIsMarked, SchedulePoll
<1>4. /\ store' \in Store /\ store'.run = store.run /\ ReportIsMarkedIn(store')
      /\ store'.status \in {store.status, "failed"}
    BY <1>3, StoppedIsMarked DEF Statuses
<1>5. calls' \subseteq calls
    BY DEF SchedulePoll
<1>6. CallsAreTrue'
    BY <1>5 DEF IInv, CallsAreTrue
<1>7. TypeOK'
    BY <1>2, <1>4, <1>5 DEF IInv, TypeOK
<1>8. RunsAreKnown'
    BY <1>1, <1>2, <1>4 DEF IInv, RunsAreKnown, TypeOK, Backend, NoRun
<1>9. ReportIsMarked'
    BY <1>4, <1>5 DEF IInv, ReportIsMarked, ReportIsMarkedIn
<1>10. NothingYet' /\ StartIsAlone'
    BY <1>5 DEF NothingYet, StartIsAlone
<1>11. AboutOneRun'
    BY <1>1, <1>2, <1>4, <1>5 DEF IInv, OneRun, AboutOneRun
<1>12. CancelIsTrue'
    BY <1>4 DEF IInv, OneRun, CancelIsTrue
<1> QED
    BY <1>6, <1>7, <1>8, <1>9, <1>10, <1>11, <1>12 DEF IInv, OneRun, Numbered

-----------------------------------------------------------------------------
(* Steps of the panel *)

\* A click on Run: nothing of an earlier run is left to watch, and a report
\* shown is marked as a previous one.
LEMMA StartKeeps == IInv /\ Start => IInv'
<1> SUFFICES ASSUME IInv, Start PROVE IInv'
    OBVIOUS
<1>1. control \in Control /\ store \in Store /\ backend \in Backend
    BY DEF IInv, TypeOK
<1>2. /\ control' \in Control /\ control'.stream = NoRun
      /\ control'.timers \subseteq control.timers
    BY <1>1, TornDownIsQuieter DEF Start
<1>3. /\ store' \in Store /\ store'.run = store.run /\ store'.status = store.status
      /\ store'.report = store.report
      /\ store'.reportIsPrevious = (store.report # NoReport)
    BY <1>1 DEF Start, Store
<1>4. /\ CallIsTrue(backend, Sent("start", NoRun, 0))
      /\ Sent("start", NoRun, 0).kind = "start"
    BY <1>1, SentIsTrue, BoundsAssumption DEF NoRun, Backend
<1> DEFINE asked == Sent("start", NoRun, 0)
<1>5. calls' = calls \cup {asked} /\ backend' = backend
    BY DEF Start
<1>6. /\ used.starts \in Nat /\ used'.starts = used.starts + 1
      /\ used'.hydrations = used.hydrations
      /\ used' \in [starts : 0..MaxStarts, cancels : 0..MaxCancels, opens : 0..MaxOpens,
                    hydrations : 0..MaxHydrations]
    BY BoundsAssumption DEF IInv, TypeOK, Start
<1> HIDE DEF asked
<1>7. asked.kind = "start" /\ CallIsTrue(backend, asked)
    BY <1>4 DEF asked
<1>8. CallsAreTrue'
    BY <1>5, <1>7 DEF IInv, CallsAreTrue
<1>9. TypeOK'
    <2>1. calls' \subseteq Call
        BY <1>8 DEF CallsAreTrue, CallIsTrue
    <2> QED
        BY <2>1, <1>1, <1>2, <1>3, <1>5, <1>6 DEF TypeOK
<1>10. RunsAreKnown'
    BY <1>1, <1>2, <1>3, <1>5 DEF IInv, RunsAreKnown, Backend, NoRun
<1>11. ReportIsMarked'
    BY <1>3, <1>5, <1>6, <1>7 DEF IInv, ReportIsMarked, ReportIsMarkedIn
<1>12. used'.starts <= 1 =>
         /\ store.run = NoRun /\ control.timers = {} /\ store.status = "none"
         /\ \A c \in calls : c.kind = "hydrate"
    BY <1>6 DEF IInv, OneRun, NothingYet, Quiet, ReportIsMarked, ReportIsMarkedIn
<1>13. NothingYet' /\ StartIsAlone' /\ AboutOneRun'
    <2>1. NothingYet'
        BY <1>6 DEF NothingYet
    <2>2. AboutOneRun'
        BY <1>3, <1>12 DEF AboutOneRun
    <2>3. StartIsAlone'
        BY <1>2, <1>3, <1>5, <1>7, <1>12 DEF StartIsAlone, Quiet
    <2> QED
        BY <2>1, <2>2, <2>3
<1>14. CancelIsTrue'
    BY <1>3, <1>12 DEF CancelIsTrue
<1> QED
    BY <1>5, <1>8, <1>9, <1>10, <1>11, <1>13, <1>14 DEF IInv, OneRun, Numbered

\* A click on Cancel, while a run is on display.
LEMMA CancelKeeps == IInv /\ Cancel => IInv'
<1> SUFFICES ASSUME IInv, Cancel PROVE IInv'
    OBVIOUS
<1>1. store \in Store /\ store.run # NoRun /\ store.run <= backend.last
    BY DEF IInv, TypeOK, RunsAreKnown, Cancel, IsActive
<1> DEFINE asked == Sent("cancel", store.run, 0)
<1>2. /\ CallIsTrue(backend, asked) /\ asked.kind = "cancel" /\ asked.run = store.run
    BY <1>1, SentIsTrue DEF Store
<1>3. calls' = calls \cup {asked} /\ UNCHANGED <<backend, store, control>>
    BY DEF Cancel
<1>4. /\ used'.starts = used.starts /\ used'.hydrations = used.hydrations
      /\ used' \in [starts : 0..MaxStarts, cancels : 0..MaxCancels, opens : 0..MaxOpens,
                    hydrations : 0..MaxHydrations]
    BY BoundsAssumption DEF IInv, TypeOK, Cancel
<1> HIDE DEF asked
<1>5. CallsAreTrue'
    BY <1>2, <1>3 DEF IInv, CallsAreTrue
<1>6. TypeOK'
    <2>1. calls' \subseteq Call
        BY <1>5 DEF CallsAreTrue, CallIsTrue
    <2> QED
        BY <2>1, <1>3, <1>4 DEF IInv, TypeOK
<1>7. RunsAreKnown' /\ Numbered'
    BY <1>3 DEF IInv, RunsAreKnown, Numbered
<1>8. ReportIsMarked'
    BY <1>2, <1>3, <1>4 DEF IInv, ReportIsMarked, ReportIsMarkedIn
<1>9. NothingYet' /\ StartIsAlone' /\ AboutOneRun' /\ CancelIsTrue'
    <2>1. NothingYet'
        BY <1>1, <1>4 DEF IInv, OneRun, NothingYet
    <2>2. StartIsAlone'
        BY <1>1, <1>2, <1>3, <1>4 DEF IInv, OneRun, StartIsAlone
    <2>3. AboutOneRun'
        BY <1>2, <1>3, <1>4 DEF IInv, OneRun, AboutOneRun
    <2>4. CancelIsTrue'
        BY <1>3, <1>4 DEF IInv, OneRun, CancelIsTrue
    <2> QED
        BY <2>1, <2>2, <2>3, <2>4
<1> QED
    BY <1>5, <1>6, <1>7, <1>8, <1>9 DEF IInv, OneRun

\* Requests are dropped, the panel stays as it is.
LEMMA FewerCalls ==
    ASSUME IInv, calls' \subseteq calls, UNCHANGED <<backend, store, control, used>>
    PROVE  IInv'
<1>1. CallsAreTrue' /\ TypeOK' /\ RunsAreKnown' /\ ReportIsMarked' /\ Numbered'
    BY DEF IInv, CallsAreTrue, TypeOK, RunsAreKnown, ReportIsMarked, ReportIsMarkedIn,
           Numbered
<1>2. NothingYet' /\ AboutOneRun' /\ CancelIsTrue'
    BY DEF IInv, OneRun, NothingYet, Quiet, AboutOneRun, CancelIsTrue
<1>3. StartIsAlone'
    BY DEF IInv, OneRun, StartIsAlone, Quiet
<1> QED
    BY <1>1, <1>2, <1>3 DEF IInv, OneRun

\* A request or its answer is lost.
LEMMA LoseKeeps == ASSUME IInv, NEW c \in calls, Lose(c) PROVE IInv'
<1>1. c.heard /\ backend \in Backend /\ CallIsTrue(backend, c)
    BY DEF IInv, TypeOK, CallsAreTrue, Lose
<1> DEFINE d == [c EXCEPT !.answer = [is |-> "error"]]
<1>2. [is |-> "error"] \in Answer
    BY DEF Answer
<1>3. /\ d.kind = c.kind /\ d.run = c.run /\ d.heard = c.heard
      /\ d.answer.is = "error" /\ d \in Call
    BY <1>1, <1>2 DEF CallIsTrue, Call
<1>4. c.answer.is # "error" /\ calls' = (calls \ {c}) \cup {d}
    BY DEF Lose
<1> HIDE DEF d
<1>5. d # c
    BY <1>3, <1>4
<1>6. CallIsTrue(backend, d)
    BY <1>1, <1>3 DEF CallIsTrue
<1>7. Moves(backend, backend) /\ UNCHANGED <<backend, store, control, used>>
    BY <1>1 DEF Moves, IInv, Numbered, Backend, Lose
<1>8. Moves(backend, backend') /\ CallIsTrue(backend', d)
    BY <1>6, <1>7
<1> QED
    BY <1>1, <1>3, <1>4, <1>5, <1>7, <1>8, BackendStep

\* The backend answers a start: its run is put on display, or has ended.
LEMMA StartAnsweredKeeps ==
    ASSUME IInv, NEW c \in calls, c.heard, StartAnswered(c) PROVE IInv'
<1> DEFINE rest == calls \ {c}
           a == c.answer
           begun == [store EXCEPT !.run = a.run, !.status = a.status,
                       !.starting = FALSE, !.reportIsPrevious = store.report # NoReport]
<1>1. /\ c.kind = "start" /\ a.is \in {"run", "error"} /\ CallIsTrue(backend, c)
      /\ store \in Store /\ control \in Control /\ backend \in Backend
      /\ UNCHANGED <<backend, used>>
    BY DEF IInv, TypeOK, CallsAreTrue, StartAnswered, CallIsTrue, Call, Answer
<1>2. /\ used.starts # 0
      /\ used.starts <= 1 =>
           /\ store.run = NoRun /\ control.stream = NoRun /\ control.timers = {}
           /\ \A d \in rest : d.kind = "hydrate"
    BY <1>1 DEF IInv, OneRun, NothingYet, StartIsAlone, Quiet
<1>3. CASE a.is = "error"
    <2>1. store' = Stopped(store, "failed") /\ calls' = rest /\ UNCHANGED control
        BY <1>3 DEF StartAnswered
    <2>2. /\ store' \in Store /\ store'.run = store.run /\ ReportIsMarkedIn(store')
          /\ store'.status \in {store.status, "failed"}
        BY <1>1, <2>1, StoppedIsMarked DEF IInv, ReportIsMarked, Statuses
    <2>3. CallsAreTrue' /\ TypeOK' /\ RunsAreKnown' /\ Numbered'
        <3>1. CallsAreTrue' /\ TypeOK'
            BY <1>1, <2>1, <2>2 DEF IInv, CallsAreTrue, TypeOK
        <3>2. RunsAreKnown' /\ Numbered'
            BY <1>1, <2>1, <2>2 DEF IInv, RunsAreKnown, Numbered
        <3> QED
            BY <3>1, <3>2
    <2>4. ReportIsMarked'
        BY <1>1, <2>1, <2>2 DEF IInv, ReportIsMarked, ReportIsMarkedIn
    <2>5. NothingYet' /\ StartIsAlone' /\ AboutOneRun'
        BY <1>1, <1>2, <2>1, <2>2 DEF NothingYet, StartIsAlone, AboutOneRun
    <2>6. CancelIsTrue'
        BY <1>1, <2>2 DEF IInv, OneRun, CancelIsTrue
    <2> QED
        BY <2>3, <2>4, <2>5, <2>6 DEF IInv, OneRun
<1>4. CASE a.is = "run"
    <2>1. /\ a.run \in Run /\ a.run <= backend.last /\ a.status \in Statuses
          /\ a.status # "none"
          /\ a.status \in Ended => backend.status[a.run] = a.status
        BY <1>1, <1>4 DEF CallIsTrue, Call, Answer
    <2>2. /\ begun \in Store /\ begun.run = a.run /\ begun.status = a.status
          /\ begun.report = store.report
          /\ begun.reportIsPrevious = (store.report # NoReport)
        <3>1. a.run \in 0..MaxRuns
            BY <2>1 DEF Run
        <3>2. (store.report # NoReport) \in BOOLEAN
            OBVIOUS
        <3> HIDE DEF a
        <3>3. begun \in Store
            BY <1>1, <2>1, <3>1, <3>2 DEF Store
        <3> QED
            BY <1>1, <3>3 DEF Store
    <2> HIDE DEF begun
    <2>3. a.run # NoRun
        BY <2>1 DEF Run, NoRun
    <2>4. ReportIsMarkedIn(begun)
        BY <2>2, <2>3 DEF ReportIsMarkedIn
    <2>5. CASE a.status \in Ended
        <3>1. Finish(begun, a.status, rest)
            BY <1>4, <2>5 DEF StartAnswered, begun
        <3> HIDE DEF rest
        <3>2. rest \in SUBSET calls
            BY DEF rest
        <3>3. used.starts <= 1 =>
             /\ \A d \in rest : ~(d.kind = "start" /\ d.heard)
             /\ begun.run # NoRun =>
                  /\ \A t \in control.timers : t.run = begun.run
                  /\ \A d \in rest : d.kind \in {"poll", "cancel"} => d.run = begun.run
                  /\ a.status = "cancelled" => backend.status[begun.run] = "cancelled"
             /\ begun.status = "cancelled" => backend.status[begun.run] = "cancelled"
            BY <1>2, <2>1, <2>2, <2>5
        <3> QED
            BY <3>1, <3>2, <3>3, <1>1, <1>2, <2>1, <2>2, <2>4, FinishKeeps
    <2>6. CASE a.status \notin Ended
        <3>1. /\ store' = begun /\ calls' = rest
              /\ control' = [control EXCEPT !.stream = a.run]
            BY <1>4, <2>6 DEF StartAnswered, begun
        <3>2. /\ control' \in Control /\ control'.stream = a.run
              /\ control'.timers = control.timers
            BY <1>1, <2>1, <3>1 DEF Control, Run
        <3>3. CallsAreTrue' /\ TypeOK'
            BY <1>1, <2>2, <3>1, <3>2 DEF IInv, CallsAreTrue, TypeOK
        <3>4. RunsAreKnown' /\ Numbered'
            BY <1>1, <2>1, <2>2, <3>1, <3>2 DEF IInv, RunsAreKnown, Numbered
        <3>5. ReportIsMarked'
            BY <1>1, <2>4, <3>1 DEF IInv, ReportIsMarked, ReportIsMarkedIn
        <3>6. NothingYet' /\ StartIsAlone'
            BY <1>1, <1>2, <3>1 DEF NothingYet, StartIsAlone
        <3>7. AboutOneRun'
            BY <1>1, <1>2, <2>2, <3>1, <3>2 DEF AboutOneRun
        <3>8. CancelIsTrue'
            BY <2>2, <2>6, <3>1 DEF CancelIsTrue, Ended
        <3> QED
            BY <3>3, <3>4, <3>5, <3>6, <3>7, <3>8 DEF IInv, OneRun
    <2> QED
        BY <2>5, <2>6
<1> QED
    BY <1>1, <1>3, <1>4

\* While the first start is under way there is nothing to watch, and without a
\* start there is nothing to ask.
LEMMA WatchedIsStarted ==
    ASSUME IInv, ~Quiet \/ store.run # NoRun
                 \/ \E c \in calls : c.kind \in {"poll", "cancel", "result"}
    PROVE  /\ used.starts # 0
           /\ used.starts <= 1 => \A c \in calls : ~(c.kind = "start" /\ c.heard)
<1>1. used.starts # 0
    BY DEF IInv, OneRun, NothingYet
<1>2. used.starts <= 1 => \A c \in calls : ~(c.kind = "start" /\ c.heard)
    BY DEF IInv, OneRun, StartIsAlone
<1> QED
    BY <1>1, <1>2

\* The stream tells the state of its run.
LEMMA StreamStateKeeps == IInv /\ StreamState => IInv'
<1> SUFFICES ASSUME IInv, StreamState PROVE IInv'
    OBVIOUS
<1> DEFINE b == backend.status[control.stream]
<1>1. store \in Store /\ control \in Control /\ backend \in Backend
    BY DEF IInv, TypeOK
<1>2. UNCHANGED <<backend, control, calls, used>>
    BY DEF StreamState
<1>3. /\ IsActive(store) /\ store.run = control.stream
      /\ store' = [store EXCEPT !.status = b]
    BY DEF StreamState, ApplySnapshot
<1>4. b \in Statuses
    <2>1. control.stream \in Run
        BY <1>1 DEF StreamState, Control, Run, NoRun
    <2> QED
        BY <1>1, <2>1 DEF Backend
<1>5. /\ store' \in Store /\ store'.run = store.run /\ store'.status = b
      /\ store'.report = store.report /\ store'.starting = store.starting
      /\ store'.reportIsPrevious = store.reportIsPrevious
    BY <1>1, <1>3, <1>4 DEF Store
<1>6. store.status = "active" /\ store.run # NoRun
    BY <1>3 DEF IsActive
<1>7. CallsAreTrue' /\ TypeOK' /\ RunsAreKnown' /\ Numbered'
    <2>1. CallsAreTrue' /\ TypeOK'
        BY <1>2, <1>5 DEF IInv, CallsAreTrue, TypeOK
    <2>2. RunsAreKnown' /\ Numbered'
        BY <1>2, <1>5 DEF IInv, RunsAreKnown, Numbered
    <2> QED
        BY <2>1, <2>2
<1>8. ReportIsMarked'
    BY <1>2, <1>5, <1>6 DEF IInv, ReportIsMarked, ReportIsMarkedIn
<1>9. NothingYet' /\ StartIsAlone' /\ AboutOneRun'
    BY <1>2, <1>5 DEF IInv, OneRun, NothingYet, StartIsAlone, AboutOneRun, Quiet
<1>10. CancelIsTrue'
    BY <1>2, <1>3, <1>5 DEF CancelIsTrue
<1> QED
    BY <1>7, <1>8, <1>9, <1>10 DEF IInv, OneRun

\* The stream tells how its run ended.
LEMMA StreamEndKeeps == IInv /\ StreamEnd => IInv'
<1> SUFFICES ASSUME IInv, StreamEnd PROVE IInv'
    OBVIOUS
<1> DEFINE b == backend.status[control.stream]
<1>1. store \in Store /\ control \in Control /\ backend \in Backend
    BY DEF IInv, TypeOK
<1>2. /\ control.stream # NoRun /\ b \in Ended /\ Finish(store, b, calls)
      /\ UNCHANGED <<backend, used>>
    BY DEF StreamEnd
<1>3. b \in Statuses
    BY <1>2 DEF Ended, Statuses
<1>4. used.starts # 0 /\ (used.starts <= 1 => \A c \in calls : ~(c.kind = "start" /\ c.heard))
    BY <1>2, WatchedIsStarted DEF Quiet
<1>5. used.starts <= 1 /\ store.run # NoRun =>
        /\ \A t \in control.timers : t.run = store.run
        /\ \A c \in calls : c.kind \in {"poll", "cancel"} => c.run = store.run
        /\ b = "cancelled" => backend.status[store.run] = "cancelled"
    BY <1>2 DEF IInv, OneRun, AboutOneRun
<1>6. used.starts <= 1 /\ store.status = "cancelled" =>
        backend.status[store.run] = "cancelled"
    BY DEF IInv, OneRun, CancelIsTrue
<1>7. store.run <= backend.last /\ ReportIsMarkedIn(store) /\ calls \in SUBSET calls
    BY DEF IInv, RunsAreKnown, ReportIsMarked
<1> HIDE DEF b
<1> QED
    BY <1>1, <1>2, <1>3, <1>4, <1>5, <1>6, <1>7, FinishKeeps

\* The stream drops and polling takes over.
LEMMA StreamDropsKeeps == IInv /\ StreamDrops => IInv'
<1> SUFFICES ASSUME IInv, StreamDrops PROVE IInv'
    OBVIOUS
<1> DEFINE k == [control EXCEPT !.stream = NoRun]
<1>1. store \in Store /\ control \in Control
    BY DEF IInv, TypeOK
<1>2. /\ control.stream # NoRun /\ SchedulePoll(k, control.stream, 0, calls)
      /\ UNCHANGED <<backend, used>>
    BY DEF StreamDrops
<1>3. k \in Control /\ k.stream = NoRun /\ k.timers = control.timers
    BY <1>1, BoundsAssumption DEF Control, NoRun
<1>4. control.stream \in Run /\ control.stream <= backend.last
    BY <1>1, <1>2 DEF IInv, RunsAreKnown, Control, Run, NoRun
<1>5. used.starts # 0 /\ (used.starts <= 1 => \A c \in calls : ~(c.kind = "start" /\ c.heard))
    BY <1>2, WatchedIsStarted DEF Quiet
<1>6. used.starts <= 1 => (store.run # NoRun => control.stream = store.run)
    BY <1>2 DEF IInv, OneRun, AboutOneRun
<1> HIDE DEF k
<1> QED
    BY <1>2, <1>3, <1>4, <1>5, <1>6, SchedulePollKeeps

\* A poll is due.
LEMMA PollDueKeeps == ASSUME IInv, NEW t \in control.timers, PollDue(t) PROVE IInv'
<1> DEFINE asked == Sent("poll", t.run, t.attempt)
<1>1. store \in Store /\ control \in Control /\ t \in Timer /\ t.run <= backend.last
    BY DEF IInv, TypeOK, Control, RunsAreKnown
<1>2. /\ control' = [control EXCEPT !.timers = @ \ {t}, !.pollTimer = NoTimer]
      /\ UNCHANGED <<backend, store, used>>
      /\ \A c \in calls' : c \in calls \/ c = asked
    BY DEF PollDue
<1>3. /\ control' \in Control /\ control'.stream = control.stream
      /\ control'.timers \subseteq control.timers
    BY <1>1, <1>2 DEF Control
<1>4. t.run \in Run /\ t.attempt \in Nat
    BY <1>1 DEF Timer
<1>5. CallIsTrue(backend, asked) /\ asked.kind = "poll" /\ asked.run = t.run
    BY <1>1, <1>4, SentIsTrue DEF Run, NoRun
<1> HIDE DEF asked
<1>6. used.starts # 0 /\ (used.starts <= 1 => \A c \in calls : ~(c.kind = "start" /\ c.heard))
    BY WatchedIsStarted DEF Quiet
<1>7. CallsAreTrue'
    BY <1>2, <1>5 DEF IInv, CallsAreTrue
<1>8. TypeOK'
    <2>1. calls' \subseteq Call
        BY <1>7 DEF CallsAreTrue, CallIsTrue
    <2> QED
        BY <2>1, <1>2, <1>3 DEF IInv, TypeOK
<1>9. RunsAreKnown' /\ Numbered'
    BY <1>2, <1>3 DEF IInv, RunsAreKnown, Numbered
<1>10. ReportIsMarked'
    BY <1>2, <1>5 DEF IInv, ReportIsMarked, ReportIsMarkedIn
<1>11. NothingYet' /\ StartIsAlone'
    BY <1>2, <1>5, <1>6 DEF NothingYet, StartIsAlone
<1>12. AboutOneRun' /\ CancelIsTrue'
    BY <1>2, <1>3, <1>5 DEF IInv, OneRun, AboutOneRun, CancelIsTrue
<1> QED
    BY <1>7, <1>8, <1>9, <1>10, <1>11, <1>12 DEF IInv, OneRun

\* What the answer to a poll or a cancel says of a first run.
LEMMA AnswerIsOfRun ==
    ASSUME IInv, NEW c \in calls, c.kind \in {"poll", "cancel"}, c.answer.is = "run"
    PROVE  /\ c.answer.status \in Statuses
           /\ used.starts <= 1 /\ store.run # NoRun /\ c.answer.status = "cancelled" =>
                backend.status[store.run] = "cancelled"
<1>1. CallIsTrue(backend, c)
    BY DEF IInv, CallsAreTrue
<1>2. c.answer.status \in Statuses /\ c.answer.run = c.run
    BY <1>1 DEF CallIsTrue, Call, Answer
<1>3. c.answer.status = "cancelled" => backend.status[c.run] = "cancelled"
    BY <1>1, <1>2 DEF CallIsTrue, Ended
<1>4. used.starts <= 1 /\ store.run # NoRun => c.run = store.run
    BY DEF IInv, OneRun, AboutOneRun
<1> QED
    BY <1>2, <1>3, <1>4

\* A poll or a cancel ends the run on display.
LEMMA AnswerFinishes ==
    ASSUME IInv, NEW c \in calls, c.kind \in {"poll", "cancel"}, c.answer.is = "run",
           Finish(store, c.answer.status, calls \ {c}), UNCHANGED <<backend, used>>
    PROVE  IInv'
<1>1. store \in Store
    BY DEF IInv, TypeOK
<1> DEFINE rest == calls \ {c}
           b == c.answer.status
<1>2. used.starts # 0 /\ (used.starts <= 1 => \A d \in rest : ~(d.kind = "start" /\ d.heard))
    BY WatchedIsStarted
<1>3. b \in Statuses /\ (used.starts <= 1 /\ store.run # NoRun /\ b = "cancelled" =>
                             backend.status[store.run] = "cancelled")
    BY AnswerIsOfRun
<1>4. used.starts <= 1 /\ store.run # NoRun =>
        /\ \A t \in control.timers : t.run = store.run
        /\ \A d \in rest : d.kind \in {"poll", "cancel"} => d.run = store.run
    BY DEF IInv, OneRun, AboutOneRun
<1>5. used.starts <= 1 /\ store.status = "cancelled" =>
        backend.status[store.run] = "cancelled"
    BY DEF IInv, OneRun, CancelIsTrue
<1>6. store.run <= backend.last /\ ReportIsMarkedIn(store) /\ rest \in SUBSET calls
    BY DEF IInv, RunsAreKnown, ReportIsMarked
<1>7. Finish(store, b, rest)
    OBVIOUS
<1> HIDE DEF b, rest
<1> QED
    BY <1>1, <1>2, <1>3, <1>4, <1>5, <1>6, <1>7, FinishKeeps

\* The answer to a poll.
LEMMA PollAnsweredKeeps ==
    ASSUME IInv, NEW c \in calls, PollAnswered(c) PROVE IInv'
<1> DEFINE rest == calls \ {c}
<1>1. /\ c.kind = "poll" /\ UNCHANGED <<backend, used>> /\ CallIsTrue(backend, c)
      /\ control \in Control
    BY DEF PollAnswered, IInv, CallsAreTrue, TypeOK
<1>2. CASE calls' = rest /\ UNCHANGED <<store, control>>
    BY <1>1, <1>2, FewerCalls
<1>3. CASE c.answer.is = "run" /\ Finish(store, c.answer.status, rest)
    BY <1>1, <1>3, AnswerFinishes
<1>4. CASE SchedulePoll(control, c.run, c.attempt + 1, rest)
    <2>1. c.run \in Run /\ c.run <= backend.last /\ c.attempt + 1 \in Nat
        BY <1>1 DEF CallIsTrue, Call, Run, NoRun
    <2>2. used.starts # 0 /\ (used.starts <= 1 => \A d \in calls : ~(d.kind = "start" /\ d.heard))
        BY <1>1, WatchedIsStarted
    <2>3. used.starts <= 1 => (store.run # NoRun => c.run = store.run)
        BY <1>1 DEF IInv, OneRun, AboutOneRun
    <2>4. rest \in SUBSET calls
        OBVIOUS
    <2> HIDE DEF rest
    <2> QED
        BY <1>1, <1>4, <2>1, <2>2, <2>3, <2>4, SchedulePollKeeps
<1> QED
    BY <1>2, <1>3, <1>4 DEF PollAnswered

\* The answer to a cancel.
LEMMA CancelAnsweredKeeps ==
    ASSUME IInv, NEW c \in calls, CancelAnswered(c) PROVE IInv'
<1>1. /\ c.kind = "cancel" /\ c.answer.is # "waiting" /\ UNCHANGED <<backend, used>>
      /\ CallIsTrue(backend, c)
    BY DEF CancelAnswered, IInv, CallsAreTrue
<1>2. c.answer.is \in {"error", "run"}
    BY <1>1 DEF CallIsTrue, Call, Answer
<1>3. CASE c.answer.is = "error"
    BY <1>1, <1>3, FewerCalls DEF CancelAnswered
<1>4. CASE c.answer.is = "run"
    BY <1>1, <1>4, AnswerFinishes DEF CancelAnswered
<1> QED
    BY <1>2, <1>3, <1>4

\* The report of a completed run arrives.
LEMMA ResultAnsweredKeeps ==
    ASSUME IInv, NEW c \in calls, ResultAnswered(c) PROVE IInv'
<1>1. /\ c.kind = "result" /\ c.answer.is # "waiting" /\ calls' = calls \ {c}
      /\ UNCHANGED <<backend, control, used>> /\ CallIsTrue(backend, c)
      /\ store \in Store /\ ReportIsMarkedIn(store)
    BY DEF ResultAnswered, IInv, CallsAreTrue, TypeOK, ReportIsMarked
<1>2. CASE store' = store
    BY <1>1, <1>2, FewerCalls
<1>3. CASE store' # store
    <2>1. store.run # NoRun
        BY <1>3 DEF ResultAnswered
    <2>2. store' = Stopped(store, "failed")
          \/ (c.answer.is = "report" /\ store' = Completed(store, c.answer.report))
        BY <1>1, <1>3 DEF ResultAnswered, CallIsTrue, Call, Answer
    <2>3. Stopped(store, "failed") \in Store /\ Stopped(store, "failed").run = store.run
          /\ Stopped(store, "failed").status = "failed"
          /\ ReportIsMarkedIn(Stopped(store, "failed"))
        BY <1>1, <2>1, StoppedIsMarked DEF Statuses
    <2>4. /\ store' \in Store /\ store'.run = store.run /\ store'.status \in {"failed", "completed"}
          /\ ReportIsMarkedIn(store')
        <3>1. CASE store' = Stopped(store, "failed")
            BY <2>3, <3>1
        <3>2. CASE store' # Stopped(store, "failed")
            <4>1. /\ c.answer.is = "report" /\ c.answer.report # NoReport
                  /\ c.answer.report = backend.of[store.run]
                  /\ store' = [store EXCEPT !.report = c.answer.report,
                                 !.reportIsPrevious = FALSE,
                                 !.status = "completed", !.starting = FALSE]
                BY <2>2, <3>2 DEF Completed
            <4>2. c.answer.report \in 0..MaxRevision
                BY <1>1, <4>1 DEF CallIsTrue, Call, Answer
            <4>3. /\ store' \in Store /\ store'.run = store.run
                  /\ store'.status = "completed" /\ store'.report = c.answer.report
                  /\ store'.starting = FALSE
                BY <1>1, <4>1, <4>2 DEF Store, Statuses
            <4>4. ReportIsMarkedIn(store')
                BY <2>1, <4>1, <4>3 DEF ReportIsMarkedIn
            <4> QED
                BY <4>3, <4>4
        <3> QED
            BY <3>1, <3>2
    <2>5. used.starts # 0 /\ (used.starts <= 1 => \A d \in calls : ~(d.kind = "start" /\ d.heard))
        BY <2>1, WatchedIsStarted
    <2>6. CallsAreTrue' /\ TypeOK'
        BY <1>1, <2>4 DEF IInv, CallsAreTrue, TypeOK
    <2>7. RunsAreKnown' /\ Numbered'
        BY <1>1, <2>4 DEF IInv, RunsAreKnown, Numbered
    <2>8. ReportIsMarked'
        BY <1>1, <2>4 DEF IInv, ReportIsMarked, ReportIsMarkedIn
    <2>9. NothingYet' /\ StartIsAlone'
        BY <1>1, <2>5 DEF NothingYet, StartIsAlone
    <2>10. AboutOneRun' /\ CancelIsTrue'
        BY <1>1, <2>4 DEF IInv, OneRun, AboutOneRun, CancelIsTrue
    <2> QED
        BY <2>6, <2>7, <2>8, <2>9, <2>10 DEF IInv, OneRun
<1> QED
    BY <1>2, <1>3

\* The view is closed: its requests are answered to nobody, or were made.
LEMMA CloseViewKeeps == IInv /\ CloseView => IInv'
<1> SUFFICES ASSUME IInv, CloseView PROVE IInv'
    OBVIOUS
<1>1. store \in Store /\ control \in Control /\ CallsAreTrue
    BY DEF IInv, TypeOK
<1>2. /\ control' \in Control /\ control'.stream = NoRun /\ control'.timers = {}
    <2>1. Fresh \in Control
        BY BoundsAssumption DEF Fresh, Control, NoRun, NoTimer
    <2>2. control' = [Fresh EXCEPT !.open = FALSE]
        BY DEF CloseView
    <2>3. control' \in Control
        BY <2>1, <2>2 DEF Control
    <2>4. control'.stream = Fresh.stream /\ control'.timers = Fresh.timers
        BY <2>1, <2>2 DEF Control
    <2> QED
        BY <2>3, <2>4 DEF Fresh
<1>3. /\ store' \in Store /\ store'.run = store.run /\ store'.status = store.status
      /\ store'.report = store.report
      /\ store'.reportIsPrevious = store.reportIsPrevious
      /\ store'.starting => store.starting
    <2> DEFINE waits == \E c \in calls : c.kind = "start" /\ c.heard
    <2>1. store' = [store EXCEPT !.starting = store.starting /\ ~waits]
        BY DEF CloseView
    <2> HIDE DEF waits
    <2>2. (store.starting /\ ~waits) \in BOOLEAN
        OBVIOUS
    <2>3. store' \in Store
        BY <1>1, <2>1, <2>2 DEF Store
    <2> QED
        BY <1>1, <2>1, <2>3 DEF Store
<1>4. /\ used'.starts = used.starts /\ used'.hydrations = used.hydrations
      /\ used' \in [starts : 0..MaxStarts, cancels : 0..MaxCancels, opens : 0..MaxOpens,
                    hydrations : 0..MaxHydrations]
    BY BoundsAssumption DEF IInv, TypeOK, CloseView
<1>5. backend' = backend
    BY DEF CloseView
<1>6. ASSUME NEW d \in calls'
      PROVE  /\ CallIsTrue(backend, d)
             /\ d.heard => d.kind = "hydrate"
             /\ \E c \in calls : d.kind = c.kind /\ d.run = c.run
    <2>1. CASE d \in calls /\ (d.kind = "hydrate" \/ ~d.heard)
        BY <1>1, <2>1 DEF CallsAreTrue
    <2>2. CASE \E c \in calls : /\ c.kind \in {"start", "cancel"}
                                /\ c.answer.is = "waiting"
                                /\ d = [c EXCEPT !.heard = FALSE]
        <3>1. PICK c \in calls : /\ c.kind \in {"start", "cancel"}
                                 /\ c.answer.is = "waiting"
                                 /\ d = [c EXCEPT !.heard = FALSE]
            BY <2>2
        <3>2. CallIsTrue(backend, c)
            BY <1>1 DEF CallsAreTrue
        <3>3. c \in Call
            BY <3>2 DEF CallIsTrue
        <3>4. /\ d \in Call /\ d.kind = c.kind /\ d.run = c.run
              /\ d.answer = c.answer /\ d.heard = FALSE
            BY <3>1, <3>3 DEF Call
        <3>5. CallIsTrue(backend, d)
            BY <3>1, <3>2, <3>4 DEF CallIsTrue
        <3> QED
            BY <3>4, <3>5
    <2> QED
        BY <2>1, <2>2 DEF CloseView
<1>7. CallsAreTrue'
    BY <1>5, <1>6 DEF CallsAreTrue
<1>8. TypeOK'
    <2>1. calls' \subseteq Call
        BY <1>6 DEF CallIsTrue
    <2> QED
        BY <2>1, <1>2, <1>3, <1>4, <1>5 DEF IInv, TypeOK
<1>9. RunsAreKnown' /\ Numbered'
    BY <1>2, <1>3, <1>5, BoundsAssumption
       DEF IInv, RunsAreKnown, Numbered, TypeOK, Backend, NoRun
<1>10. ReportIsMarked'
    BY <1>3, <1>4, <1>5, <1>6 DEF IInv, ReportIsMarked, ReportIsMarkedIn
<1>11. NothingYet' /\ StartIsAlone'
    BY <1>2, <1>3, <1>4, <1>6 DEF IInv, OneRun, NothingYet, StartIsAlone, Quiet
<1>12. AboutOneRun' /\ CancelIsTrue'
    BY <1>2, <1>3, <1>4, <1>5, <1>6 DEF IInv, OneRun, AboutOneRun, CancelIsTrue
<1> QED
    BY <1>7, <1>8, <1>9, <1>10, <1>11, <1>12 DEF IInv, OneRun

\* The view is opened and watches the run on display.
LEMMA OpenViewKeeps == IInv /\ OpenView => IInv'
<1> SUFFICES ASSUME IInv, OpenView PROVE IInv'
    OBVIOUS
<1>1. store \in Store
    BY DEF IInv, TypeOK
<1> DEFINE watched == IF IsActive(store) THEN store.run ELSE NoRun
<1>2. watched \in 0..MaxRuns /\ watched \in {store.run, NoRun}
    BY <1>1, BoundsAssumption DEF Store, NoRun
<1>3. control' = [Fresh EXCEPT !.stream = watched]
    BY DEF OpenView
<1> HIDE DEF watched
<1>4. Fresh \in Control /\ Fresh.timers = {}
    BY BoundsAssumption DEF Fresh, Control, NoRun, NoTimer
<1>5. control' \in Control /\ control'.stream = watched /\ control'.timers = {}
    BY <1>2, <1>3, <1>4 DEF Control
<1>6. UNCHANGED <<backend, store, calls, used>>
    BY DEF OpenView
<1>7. CallsAreTrue' /\ TypeOK'
    BY <1>5, <1>6 DEF IInv, CallsAreTrue, TypeOK
<1>8. RunsAreKnown' /\ Numbered'
    BY <1>2, <1>5, <1>6 DEF IInv, RunsAreKnown, Numbered, TypeOK, Backend, NoRun
<1>9. ReportIsMarked'
    BY <1>6 DEF IInv, ReportIsMarked, ReportIsMarkedIn
<1>10. NothingYet' /\ StartIsAlone'
    BY <1>2, <1>5, <1>6 DEF IInv, OneRun, NothingYet, StartIsAlone, Quiet
<1>11. AboutOneRun' /\ CancelIsTrue'
    BY <1>2, <1>5, <1>6 DEF IInv, OneRun, AboutOneRun, CancelIsTrue
<1> QED
    BY <1>7, <1>8, <1>9, <1>10, <1>11 DEF IInv, OneRun

\* The canvas is opened without a report: the panel is cleared.
LEMMA OpenCanvasKeeps == IInv /\ OpenCanvas => IInv'
<1> SUFFICES ASSUME IInv, OpenCanvas PROVE IInv'
    OBVIOUS
<1>1. store \in Store /\ backend \in Backend
    BY DEF IInv, TypeOK
<1> DEFINE asked == Sent("hydrate", NoRun, 0)
<1>2. /\ store' \in Store /\ store'.run = NoRun /\ store'.status = "none"
      /\ store'.report = NoReport
    <2>1. NoRun \in 0..MaxRuns
        BY BoundsAssumption DEF NoRun
    <2> QED
        BY <1>1, <2>1 DEF OpenCanvas, Store, Statuses
<1>3. CallIsTrue(backend, asked) /\ asked.kind = "hydrate" /\ asked.run = NoRun
    BY <1>1, SentIsTrue, BoundsAssumption DEF NoRun, Backend
<1>4. calls' = calls \cup {asked} /\ UNCHANGED <<backend, control>>
    BY DEF OpenCanvas
<1>5. /\ used'.starts = used.starts /\ used'.hydrations # 0
      /\ used' \in [starts : 0..MaxStarts, cancels : 0..MaxCancels, opens : 0..MaxOpens,
                    hydrations : 0..MaxHydrations]
    BY BoundsAssumption DEF IInv, TypeOK, OpenCanvas
<1> HIDE DEF asked
<1>6. CallsAreTrue'
    BY <1>3, <1>4 DEF IInv, CallsAreTrue
<1>7. TypeOK'
    <2>1. calls' \subseteq Call
        BY <1>6 DEF CallsAreTrue, CallIsTrue
    <2> QED
        BY <2>1, <1>2, <1>4, <1>5 DEF IInv, TypeOK
<1>8. RunsAreKnown' /\ Numbered'
    BY <1>1, <1>2, <1>4 DEF IInv, RunsAreKnown, Numbered, Backend, NoRun
<1>9. ReportIsMarked'
    BY <1>2, <1>5 DEF ReportIsMarked, ReportIsMarkedIn
<1>10. NothingYet' /\ AboutOneRun' /\ CancelIsTrue'
    BY <1>2, <1>3, <1>4, <1>5 DEF IInv, OneRun, NothingYet, AboutOneRun, CancelIsTrue, Quiet
<1>11. StartIsAlone'
    BY <1>2, <1>3, <1>4, <1>5 DEF IInv, OneRun, StartIsAlone, Quiet
<1> QED
    BY <1>6, <1>7, <1>8, <1>9, <1>10, <1>11 DEF IInv, OneRun

\* The report the canvas asked for arrives.
LEMMA HydratedKeeps == ASSUME IInv, NEW c \in calls, Hydrated(c) PROVE IInv'
<1>1. /\ store \in Store /\ CallIsTrue(backend, c) /\ c.kind = "hydrate"
      /\ c.answer.is = "report" /\ calls' = calls \ {c}
      /\ UNCHANGED <<backend, control, used>>
    BY DEF IInv, TypeOK, CallsAreTrue, Hydrated
<1>2. CASE store' = store
    BY <1>1, <1>2, FewerCalls
<1>3. CASE store' # store
    <2> DEFINE marked == \/ store.starting
                         \/ store.status \in {"cancelled", "failed"}
                         \/ IsActive(store)
    <2>1. store' = [store EXCEPT !.report = c.answer.report, !.reportIsPrevious = marked]
        BY <1>3 DEF Hydrated
    <2>2. marked \in BOOLEAN
        OBVIOUS
    <2>3. c.answer.report \in 0..MaxRevision
        BY <1>1 DEF CallIsTrue, Call, Answer
    <2> HIDE DEF marked
    <2>4. store' \in Store
        BY <1>1, <2>1, <2>2, <2>3 DEF Store
    <2>5. store'.run = store.run /\ store'.status = store.status
        BY <1>1, <2>1 DEF Store
    <2>6. used.hydrations # 0
        BY <1>1 DEF IInv, ReportIsMarked
    <2>7. CallsAreTrue' /\ TypeOK'
        BY <1>1, <2>4 DEF IInv, CallsAreTrue, TypeOK
    <2>8. RunsAreKnown' /\ Numbered'
        BY <1>1, <2>5 DEF IInv, RunsAreKnown, Numbered
    <2>9. ReportIsMarked'
        BY <1>1, <2>5, <2>6 DEF IInv, ReportIsMarked, ReportIsMarkedIn
    <2>10. NothingYet' /\ AboutOneRun' /\ CancelIsTrue'
        BY <1>1, <2>5 DEF IInv, OneRun, NothingYet, AboutOneRun, CancelIsTrue, Quiet
    <2>11. StartIsAlone'
        BY <1>1, <2>5 DEF IInv, OneRun, StartIsAlone, Quiet
    <2> QED
        BY <2>7, <2>8, <2>9, <2>10, <2>11 DEF IInv, OneRun
<1> QED
    BY <1>2, <1>3

-----------------------------------------------------------------------------
(* The theorems *)

\* Every step keeps the invariant.
LEMMA NextKeeps == IInv /\ [Next]_vars => IInv'
<1> SUFFICES ASSUME IInv, [Next]_vars PROVE IInv'
    OBVIOUS
<1>1. CASE UNCHANGED vars
    BY <1>1, FewerCalls DEF vars
<1>2. CASE Edit \/ OtherStart \/ \E r \in Run : RunEnds(r)
    BY <1>2, EditKeeps, OtherStartKeeps, RunEndsKeeps
<1>3. CASE \E c \in calls : Handle(c) \/ Lose(c) \/ Answers(c) \/ HeardByNobody(c)
    <2>1. PICK c \in calls : Handle(c) \/ Lose(c) \/ Answers(c) \/ HeardByNobody(c)
        BY <1>3
    <2>2. CASE Handle(c) \/ Lose(c) \/ HeardByNobody(c)
        BY <2>2, HandleKeeps, LoseKeeps, HeardByNobodyKeeps
    <2>3. CASE Answers(c)
        BY <2>3, StartAnsweredKeeps, PollAnsweredKeeps, CancelAnsweredKeeps,
           ResultAnsweredKeeps, HydratedKeeps DEF Answers
    <2> QED
        BY <2>1, <2>2, <2>3
<1>4. CASE Start \/ Cancel \/ StreamState \/ StreamEnd \/ StreamDrops
    BY <1>4, StartKeeps, CancelKeeps, StreamStateKeeps, StreamEndKeeps, StreamDropsKeeps
<1>5. CASE \E t \in control.timers : PollDue(t)
    BY <1>5, PollDueKeeps
<1>6. CASE CloseView \/ OpenView \/ OpenCanvas
    BY <1>6, CloseViewKeeps, OpenViewKeeps, OpenCanvasKeeps
<1> QED
    BY <1>1, <1>2, <1>3, <1>4, <1>5, <1>6 DEF Next

\* The inductive invariant: every request and answer on its way is true of the
\* backend, however many runs are started, superseded, cancelled and lost.
THEOREM PanelInvariant == Spec => []IInv
<1> QED
    BY InitInvariant, NextKeeps, PTL DEF Spec

\* The panel, its controller and the requests keep their types.
THEOREM PanelTyped == Spec => []TypeOK
<1>1. IInv => TypeOK
    BY DEF IInv
<1> QED
    BY <1>1, PanelInvariant, PTL

\* A report that is not marked as a previous one is the report of the run on
\* display (completeRun, drc-store.ts), unless the canvas fetched one itself.
THEOREM ReportsAreOfTheirRun == Spec => []ReportIsOfRun
<1>1. IInv => ReportIsOfRun
    BY DEF IInv, ReportIsMarked, ReportIsMarkedIn, ReportIsOfRun, UnmarkedReportIsOfRun
<1> QED
    BY <1>1, PanelInvariant, PTL

\* The first run of the panel is shown as cancelled only when the backend has
\* cancelled it: late polls, a dropped stream and a closed view included.
THEOREM CancelledIsConfirmed == Spec => []CancelledByBackend
<1>1. IInv => CancelledByBackend
    BY DEF IInv, OneRun, CancelIsTrue, CancelledByBackend, FirstRun
<1> QED
    BY <1>1, PanelInvariant, PTL
=============================================================================
