----------------------------- MODULE DesignerStore -----------------------------
(***************************************************************************)
(* The designer backend's command store                                    *)
(* (src/modules/designer/backend/store.ts): dispatchCommand, undo,         *)
(* redo and deleteDesign over one SQLite database.                         *)
(*                                                                         *)
(* JavaScript runs one callback at a time and the SQLite driver is         *)
(* synchronous, so everything between two awaits is one step.  The only    *)
(* await of dispatchCommand is the library lookup of place_part and        *)
(* refresh_part_footprint: a call is either answered in the step that      *)
(* receives it or waits for the library while other calls commit.          *)
(*                                                                         *)
(* A document is a value per cell.  A command writes one cell (its patch   *)
(* set), or the view state.  What the executor decides about a command     *)
(* that was admitted (apply it, find nothing to do, reject it, refuse it   *)
(* because nets would merge, throw) depends on geometry that is not        *)
(* modelled, so it may decide any of these.                                *)
(***************************************************************************)
EXTENDS Integers, Sequences, SequencesExt

CONSTANTS
    Designs,        \* design ids
    Sessions,       \* editor sessions, each with a history of its own
    Connections,    \* calls the backend can have under way at once
    Cells,          \* parts of a document
    Values,         \* values of a cell and of the view state; 0 at creation
    Requests,       \* the commands callers send, with their ids
    DepthLimit,     \* length of an undo stack (200 in the code)
    Bases,          \* revisions a caller may name, -1 for none
    MaxRevision     \* bound on the revision of a design

Kinds == {"edit", "place", "view"}
Command == [kind : Kinds, cell : Cells, value : Values, confirmMerge : BOOLEAN]
Request == [id : Nat \ {0}, design : Designs, session : Sessions,
            command : Command]

ASSUME StoreAssumptions ==
    /\ Requests \subseteq Request
    /\ 0 \in Values
    /\ DepthLimit \in Nat \ {0}
    /\ MaxRevision \in Nat
    /\ Bases \subseteq Nat \cup {-1}

NoRevision == -1    \* null as baseRevision; "no such design" as actual

VARIABLES
    head,       \* designer_heads.revision, NoRevision when there is no row
    doc,        \* the document rows of a design
    view,       \* board_settings.viewState
    log,        \* designer_command_log
    histories,  \* designer_session_histories
    waiting,    \* calls that await the library
    answers,    \* answers on their way to the caller
    trail       \* history: what produced each revision of a design

database == <<head, doc, view, log, histories>>
vars == <<head, doc, view, log, histories, waiting, answers, trail>>

Codes == {"OK", "REVISION_CONFLICT", "REJECTED", "NET_MERGE_REQUIRES_CONFIRM",
          "HISTORY_EMPTY", "ERROR"}
Result == [code : Codes, revision : Int]
Row == [request : Request, result : Result, appliedRevision : Int]
Entry == [request : Request, cell : Cells, old : Values, new : Values]
History == [undo : Seq(Entry), redo : Seq(Entry)]
Call == [conn : Connections, request : Request, base : Int]
\* An answer to undo or redo carries no request id (0).
Answer == [conn : Connections, id : Nat, result : Result]
Change == [kind : {"do", "undo", "redo"}, request : Request, base : Int]

TypeOK ==
    /\ head \in [Designs -> Nat \cup {NoRevision}]
    /\ doc \in [Designs -> [Cells -> Values]]
    /\ view \in [Designs -> Values]
    /\ log \subseteq Row
    /\ histories \in [Designs -> [Sessions -> History]]
    /\ waiting \subseteq Call
    /\ answers \subseteq Answer
    /\ trail \in [Designs -> Seq(Change)]

EmptyHistory == [undo |-> <<>>, redo |-> <<>>]

\* Every design was just created: insertDesign() writes revision 0.
Init ==
    /\ head = [d \in Designs |-> 0]
    /\ doc = [d \in Designs |-> [c \in Cells |-> 0]]
    /\ view = [d \in Designs |-> 0]
    /\ log = {}
    /\ histories = [d \in Designs |-> [s \in Sessions |-> EmptyHistory]]
    /\ waiting = {}
    /\ answers = {}
    /\ trail = [d \in Designs |-> <<>>]

-----------------------------------------------------------------------------
Exists(d) == head[d] # NoRevision
Idle(c) == /\ \A w \in waiting : w.conn # c
           /\ \A a \in answers : a.conn # c

Ok(n) == [code |-> "OK", revision |-> n]
ConflictAt(actual) == [code |-> "REVISION_CONFLICT", revision |-> actual]
Outcome(code) == [code |-> code, revision |-> NoRevision]

Reply(c, id, result) ==
    answers' = answers \cup {[conn |-> c, id |-> id, result |-> result]}

\* INSERT INTO designer_command_log; a failed command reports the head.
Insert(req, result, applied) ==
    log' = log \cup {[request |-> req, result |-> result,
                      appliedRevision |-> applied]}

NeedsLibrary(req) == req.command.kind = "place"

-----------------------------------------------------------------------------
(* The command log: a command id is answered once and for all. *)

\* Mutant of Logged: only successes are answered from the log.
LoggedSuccess(id) ==
    \E row \in log : row.request.id = id /\ row.result.code = "OK"

Logged(id) == \E row \in log : row.request.id = id
RowOf(id) == CHOOSE row \in log : row.request.id = id

\* parseDispatchResultJson does not know every code of a rejection: one that it
\* does not know comes back as a conflict.
Retold(row) ==
    {row.result} \cup
    IF row.result.code = "REJECTED" THEN {ConflictAt(row.appliedRevision)} ELSE {}

\* replay(): the recorded result; an id reused for another command conflicts.
Replay(c, req) ==
    LET row == RowOf(req.id)
    IN \E result \in IF row.request = req THEN Retold(row)
                      ELSE {ConflictAt(row.appliedRevision)} :
           Reply(c, req.id, result)

-----------------------------------------------------------------------------
(* Undo histories: CommandHistory of @openpcb/command-pattern, loaded from *)
(* and persisted to its row in every operation.                            *)

\* Mutant of Record: a new command keeps what could be redone.
RecordKeepsRedo(h, entry) ==
    LET pushed == Append(h.undo, entry)
        excess == Len(pushed) - DepthLimit
    IN [undo |-> IF excess > 0 THEN SubSeq(pushed, excess + 1, Len(pushed))
                 ELSE pushed,
        redo |-> h.redo]

\* record(): push, forget the oldest beyond the limit, clear the redo stack.
Record(h, entry) ==
    LET pushed == Append(h.undo, entry)
        excess == Len(pushed) - DepthLimit
    IN [undo |-> IF excess > 0 THEN SubSeq(pushed, excess + 1, Len(pushed))
                 ELSE pushed,
        redo |-> <<>>]

Consumed(h, direction) ==
    IF direction = "undo"
    THEN [undo |-> Front(h.undo), redo |-> Append(h.redo, Last(h.undo))]
    ELSE [undo |-> Append(h.undo, Last(h.redo)), redo |-> Front(h.redo)]

Stack(h, direction) == IF direction = "undo" THEN h.undo ELSE h.redo

\* A new revision, and the change that made it.
Advance(d, kind, req, base) ==
    /\ head' = [head EXCEPT ![d] = @ + 1]
    /\ trail' = [trail EXCEPT ![d] =
                   Append(@, [kind |-> kind, request |-> req, base |-> base])]

-----------------------------------------------------------------------------
(* dispatchCommand: the transaction, for a request not logged yet. *)

\* The design was deleted, or never existed: recorded as a conflict with -1.
Missing(c, req) ==
    /\ ~Exists(req.design)
    /\ Insert(req, ConflictAt(NoRevision), NoRevision)
    /\ Reply(c, req.id, ConflictAt(NoRevision))
    /\ UNCHANGED <<head, doc, view, histories, trail>>

Stale(c, req, base) ==
    LET d == req.design IN
    /\ Exists(d) /\ base # NoRevision /\ base # head[d]
    /\ Insert(req, ConflictAt(head[d]), head[d])
    /\ Reply(c, req.id, ConflictAt(head[d]))
    /\ UNCHANGED <<head, doc, view, histories, trail>>

\* Mutant of Admitted: a base the design has moved past is good enough.
AdmittedWhenOlder(req, base) ==
    Exists(req.design) /\ base <= head[req.design]

Admitted(req, base) ==
    Exists(req.design) /\ base \in {NoRevision, head[req.design]}

\* The command took effect.  Document, log and history commit together; a
\* view command, or one that changed nothing, leaves no history entry.
Apply(c, req, base) ==
    LET d == req.design
        s == req.session
        k == req.command.cell
        entry == [request |-> req, cell |-> k, old |-> doc[d][k],
                  new |-> req.command.value]
    IN
    /\ Admitted(req, base)
    /\ head[d] < MaxRevision
    /\ Advance(d, "do", req, base)
    /\ Insert(req, Ok(head[d] + 1), head[d] + 1)
    /\ Reply(c, req.id, Ok(head[d] + 1))
    /\ IF req.command.kind = "view"
       THEN /\ view' = [view EXCEPT ![d] = req.command.value]
            /\ UNCHANGED <<doc, histories>>
       ELSE /\ doc' = [doc EXCEPT ![d][k] = req.command.value]
            /\ histories' = IF entry.old = entry.new THEN histories
                            ELSE [histories EXCEPT ![d][s] = Record(@, entry)]
            /\ UNCHANGED view

\* A batch whose every step was a no-op succeeds without a new revision.
NothingToDo(c, req, base) ==
    LET d == req.design IN
    /\ Admitted(req, base)
    /\ req.command.kind = "edit"
    /\ Insert(req, Ok(head[d]), head[d])
    /\ Reply(c, req.id, Ok(head[d]))
    /\ UNCHANGED <<head, doc, view, histories, trail>>

\* The executor rejected the command before writing; the rejection is logged.
Reject(c, req, base) ==
    /\ Admitted(req, base)
    /\ Insert(req, Outcome("REJECTED"), head[req.design])
    /\ Reply(c, req.id, Outcome("REJECTED"))
    /\ UNCHANGED <<head, doc, view, histories, trail>>

\* Nets would merge and nobody confirmed: rolled back, the log row included.
RefuseMerge(c, req, base) ==
    /\ Admitted(req, base)
    /\ req.command.kind # "view" /\ ~req.command.confirmMerge
    /\ Reply(c, req.id, Outcome("NET_MERGE_REQUIRES_CONFIRM"))
    /\ UNCHANGED <<head, doc, view, log, histories, trail>>

\* The transaction threw: rolled back and reported as a conflict with -1.
Throw(c, req, base) ==
    /\ Admitted(req, base)
    /\ Reply(c, req.id, ConflictAt(NoRevision))
    /\ UNCHANGED <<head, doc, view, log, histories, trail>>

Transact(c, req, base) ==
    \/ Missing(c, req)
    \/ Stale(c, req, base)
    \/ Apply(c, req, base)
    \/ NothingToDo(c, req, base)
    \/ Reject(c, req, base)
    \/ RefuseMerge(c, req, base)
    \/ Throw(c, req, base)

-----------------------------------------------------------------------------
(* Actions *)

\* A call arrives: replayed, parked until the library answers, or committed.
Dispatch(c, req, base) ==
    /\ Idle(c)
    /\ \/ /\ Logged(req.id)
          /\ Replay(c, req)
          /\ UNCHANGED <<head, doc, view, log, histories, waiting, trail>>
       \/ /\ ~Logged(req.id) /\ NeedsLibrary(req)
          /\ waiting' = waiting \cup {[conn |-> c, request |-> req, base |-> base]}
          /\ UNCHANGED <<head, doc, view, log, histories, answers, trail>>
       \/ /\ ~Logged(req.id) /\ ~NeedsLibrary(req)
          /\ Transact(c, req, base)
          /\ UNCHANGED waiting

\* Mutant of LibraryResolved: the log is not read again.
LibraryResolvedUnchecked(w) ==
    /\ waiting' = waiting \ {w}
    /\ Transact(w.conn, w.request, w.base)

\* The lookup resolved.  The log is read again: a retry may have completed.
LibraryResolved(w) ==
    /\ waiting' = waiting \ {w}
    /\ \/ /\ Logged(w.request.id)
          /\ Replay(w.conn, w.request)
          /\ UNCHANGED <<head, doc, view, log, histories, trail>>
       \/ /\ ~Logged(w.request.id)
          /\ Transact(w.conn, w.request, w.base)

\* Mutant of LibraryFailed: a failure with a code no caller knows.
LibraryFailedUnknown(w) ==
    /\ waiting' = waiting \ {w}
    /\ Reply(w.conn, w.request.id, Outcome("LIBRARY_UNAVAILABLE"))
    /\ UNCHANGED <<head, doc, view, log, histories, trail>>

\* The lookup failed: the call rejects before it wrote anything.
LibraryFailed(w) ==
    /\ waiting' = waiting \ {w}
    /\ Reply(w.conn, w.request.id, Outcome("ERROR"))
    /\ UNCHANGED <<head, doc, view, log, histories, trail>>

\* undo() and redo(): a stale caller is refused before an entry is consumed.
ReplayHistory(c, d, s, direction, expected) ==
    LET h == histories[d][s]
        entry == Last(Stack(h, direction))
    IN
    /\ Idle(c)
    /\ \/ /\ expected # NoRevision /\ expected # head[d]
          /\ Reply(c, 0, ConflictAt(head[d]))
          /\ UNCHANGED <<head, doc, view, log, histories, trail>>
       \/ /\ expected \in {NoRevision, head[d]}
          /\ Stack(h, direction) = <<>>
          /\ Reply(c, 0, Outcome("HISTORY_EMPTY"))
          /\ UNCHANGED <<head, doc, view, log, histories, trail>>
       \/ /\ expected \in {NoRevision, head[d]}
          /\ Stack(h, direction) # <<>> /\ head[d] < MaxRevision
          /\ Advance(d, direction, entry.request, expected)
          /\ doc' = [doc EXCEPT ![d][entry.cell] =
                       IF direction = "undo" THEN entry.old ELSE entry.new]
          /\ histories' = [histories EXCEPT ![d][s] = Consumed(h, direction)]
          /\ Reply(c, 0, Ok(head[d] + 1))
          /\ UNCHANGED <<view, log>>
       \/ /\ expected \in {NoRevision, head[d]}   \* the replay threw: rolled back
          /\ Stack(h, direction) # <<>>
          /\ Reply(c, 0, Outcome("ERROR"))
          /\ UNCHANGED <<head, doc, view, log, histories, trail>>
    /\ UNCHANGED waiting

\* deleteDesign(): every row keyed by the design goes in one transaction.
DeleteDesign(d) ==
    /\ Exists(d)
    /\ head' = [head EXCEPT ![d] = NoRevision]
    /\ log' = {row \in log : row.request.design # d}
    /\ histories' = [histories EXCEPT ![d] = [s \in Sessions |-> EmptyHistory]]
    /\ doc' = [doc EXCEPT ![d] = [k \in Cells |-> 0]]
    /\ view' = [view EXCEPT ![d] = 0]
    /\ UNCHANGED <<waiting, answers, trail>>

\* The answer reaches its caller, or is lost with the connection.
Deliver(a) ==
    /\ answers' = answers \ {a}
    /\ UNCHANGED <<head, doc, view, log, histories, waiting, trail>>

\* The backend process dies: calls under way are gone, the database is not.
Restart ==
    /\ waiting # {} \/ answers # {}
    /\ waiting' = {}
    /\ answers' = {}
    /\ UNCHANGED <<head, doc, view, log, histories, trail>>

Next ==
    \/ \E c \in Connections, req \in Requests, base \in Bases :
          Dispatch(c, req, base)
    \/ \E w \in waiting : LibraryResolved(w) \/ LibraryFailed(w)
    \/ \E c \in Connections, d \in Designs, s \in Sessions,
          direction \in {"undo", "redo"}, expected \in Bases :
          ReplayHistory(c, d, s, direction, expected)
    \/ \E d \in Designs : DeleteDesign(d)
    \/ \E a \in answers : Deliver(a)
    \/ Restart

Spec == Init /\ [][Next]_vars

-----------------------------------------------------------------------------
(* Properties *)

Dos(d) == {n \in 1..Len(trail[d]) : trail[d][n].kind = "do"}
AppliedAt(req) ==
    {n \in Dos(req.design) : trail[req.design][n].request = req}

\* A command id takes effect at most once, however often and however
\* concurrently it is sent again.
AppliedAtMostOnce ==
    \A d \in Designs : \A m, n \in Dos(d) :
        trail[d][m].request.id = trail[d][n].request.id => m = n

\* The log tells the truth: a row says OK with the revision of its command
\* (or the command changed nothing), any other row's command never ran.
LogIsTruthful ==
    \A row \in log : Exists(row.request.design) =>
        AppliedAt(row.request) \subseteq
            IF row.result.code = "OK" THEN {row.result.revision} ELSE {}

\* ... and the whole truth: no command of a live design ran without its row.
EveryChangeIsLogged ==
    \A d \in Designs : Exists(d) =>
        /\ Len(trail[d]) = head[d]
        /\ \A n \in Dos(d) :
              \E row \in log : row.request = trail[d][n].request /\ row.result = Ok(n)

\* No lost update: a change that named its base was made on top of it.
NoLostUpdate ==
    \A d \in Designs : \A n \in 1..Len(trail[d]) :
        trail[d][n].base \in {NoRevision, n - 1}

\* A history as one line: the entries done, then the next ones to redo.
Line(h) == h.undo \o Reverse(h.redo)

\* Undo and redo stacks hold commands of their own session that ran, each
\* once, and never a display-only command.
HistoriesHoldOwnCommands ==
    \A d \in Designs, s \in Sessions :
        LET line == Line(histories[d][s])
        IN /\ Len(line) <= DepthLimit
           /\ \A n \in 1..Len(line) :
                 LET req == line[n].request
                 IN req.session = s /\ req.command.kind # "view" /\ AppliedAt(req) # {}
           /\ \A m, n \in 1..Len(line) : line[m].request = line[n].request => m = n

\* The cells that one session alone has edited.
OwnCell(d, s, k) ==
    \A n \in Dos(d) :
        LET req == trail[d][n].request IN
        req.command.kind # "view" /\ req.command.cell = k => req.session = s

\* The entries on cell k form an unbroken chain of values, and v is the value
\* between those done and those undone.
Explains(line, done, k, v) ==
    LET on == {n \in 1..Len(line) : line[n].cell = k}
        Clear(lo, hi) == \A i \in lo..hi : i \notin on
    IN /\ \A m, n \in on : m < n /\ Clear(m + 1, n - 1) => line[m].new = line[n].old
       /\ \A n \in on : n <= done /\ Clear(n + 1, done) => line[n].new = v
       /\ \A n \in on : n > done /\ Clear(done + 1, n - 1) => line[n].old = v

\* Undo and redo are inverse: while no other session edits a cell, its value
\* is what the last entry still done wrote and what the next entry to redo
\* found, and what an entry found is what the one before it wrote.
HistoryExplainsDocument ==
    \A d \in Designs, s \in Sessions, k \in Cells :
        Exists(d) /\ OwnCell(d, s, k) =>
            LET h == histories[d][s]
            IN Explains(Line(h), Len(h.undo), k, doc[d][k])

\* The log and the document tell the same story.
LogMatchesDocument == LogIsTruthful /\ EveryChangeIsLogged

\* Undo histories belong to their session and fit the document.
HistoriesAreSound == HistoriesHoldOwnCommands /\ HistoryExplainsDocument
===============================================================================
