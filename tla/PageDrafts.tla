------------------------------- MODULE PageDrafts -------------------------------
(***************************************************************************)
(* The drafts of one knowledge page in the window that edits it            *)
(* (src/modules/knowledge/frontend/lib/page-save-coordinator.ts and        *)
(* page-draft-state.ts), with everything that feeds the coordinator: the   *)
(* editor, the timer, the answers of the page service, the events it       *)
(* publishes for changes made elsewhere, fetches that arrive late, the     *)
(* deletion of the page, and the journal, which is the register of         *)
(* DraftRegister (DraftJournal implements it).                             *)
(*                                                                         *)
(* The coordinator compares a version it counts up with the one a fetch or *)
(* a save started at; here that fetch or save keeps whether it is still    *)
(* the newest.  Tokens never return (PageStore says when they do).         *)
(***************************************************************************)
EXTENDS PageRow, FiniteSets

CONSTANTS
    NoText,         \* a field with nothing pending
    NoDraft,        \* a journal that retains nothing
    Nothing,
    MaxEdits,       \* bound on what is typed
    MaxForeign,     \* bound on changes made elsewhere
    MaxFetches,     \* bound on page visits and reconnects
    MaxFailures,    \* bound on requests and journal writes that fail
    MaxRestarts,    \* bound on windows closed or killed
    MaxDeletions,   \* bound on attempts to delete the page
    MaxTroubles     \* bound on all of these

ASSUME FieldAssumption == Field = {"title", "content"}
ASSUME TextsAssumption == NoText \notin Texts

VARIABLES
    server,         \* the stored row
    window,         \* "closed", "opening" (journal lookup), "open"
    page,           \* the page the entry is based on
    pending,        \* entry.title and entry.content
    save,           \* the save under way
    error, conflict, recovered, suspended, timer,
    refresh, verify, reload,    \* fetches under way
    deletion,       \* "none", "sent", "done"
    events,         \* published and not yet delivered
    basis,          \* history: the revision the draft knowingly builds on
    wanted, underway, stored, state,    \* the journal
    handed,         \* whether it was handed a snapshot since it was loaded
    edits, foreign, fetches, failures, restarts, deletions

journal == <<wanted, underway, stored, state, handed>>
flags == <<error, conflict, recovered, suspended, timer>>
draft == <<page, pending, basis>>
inflight == <<refresh, verify, reload>>
troubles == foreign + fetches + failures + restarts + deletions
counters == <<edits, foreign, fetches, failures, restarts, deletions>>
vars == <<server, window, draft, save, flags, inflight, deletion, events, journal,
          counters>>

Pending == [Field -> Texts \cup {NoText}]
Retained == [pending : Pending, revision : Nat, at : Nat, basis : Nat]
Save == [step : {"flush", "sent", "landed", "refused"}, field : Field, value : Texts,
         newest : BOOLEAN, token : Nat, basis : Nat, answer : Row \cup {Nothing}]
Fetch == [page : Row, newest : BOOLEAN]
Decision == [page : Row, newest : BOOLEAN, keep : BOOLEAN]

ASSUME AbsentAssumption ==
    /\ NoDraft \notin Retained \cup {Nothing}
    /\ Nothing \notin Retained \cup Row \cup Save \cup Fetch \cup Decision

Journal == INSTANCE DraftRegister WITH Drafts <- Retained

NothingPending == [f \in Field |-> NoText]
HasText(p) == \E f \in Field : p[f] # NoText
Dirty == HasText(pending) \/ save # Nothing
Shown(f) == IF pending[f] = NoText THEN page.text[f] ELSE pending[f]

TypeOK ==
    /\ {server, page} \subseteq Row
    /\ window \in {"closed", "opening", "open"}
    /\ pending \in Pending
    /\ save \in Save \cup {Nothing}
    /\ {error, conflict, recovered, suspended, timer} \subseteq BOOLEAN
    /\ refresh \in Fetch \cup {Nothing}
    /\ reload \in Decision \cup {Nothing}
    /\ verify \in Row \cup {Nothing}
    /\ deletion \in {"none", "sent", "done"}
    /\ {wanted, stored} \subseteq Retained \cup {NoDraft}
    /\ underway \in Retained \cup {NoDraft, Nothing}
    /\ state \in Journal!State
    /\ handed \in BOOLEAN

Untouched ==
    /\ pending = NothingPending
    /\ save = Nothing
    /\ error = FALSE /\ conflict = FALSE /\ recovered = FALSE
    /\ suspended = FALSE /\ timer = FALSE
    /\ refresh = Nothing /\ verify = Nothing /\ reload = Nothing
    /\ deletion = "none"
    /\ events = 0

Init ==
    /\ \E text \in Texts : server = NewRow([f \in Field |-> text], 1)
    /\ window = "closed"
    /\ page = server
    /\ basis = 0
    /\ Untouched
    /\ wanted = NoDraft /\ stored = NoDraft /\ underway = Nothing /\ state = "loading"
    /\ handed = FALSE
    /\ edits = 0 /\ foreign = 0 /\ fetches = 0 /\ failures = 0 /\ restarts = 0
    /\ deletions = 0

-----------------------------------------------------------------------------
(* What the operations are made of.                                        *)

Aged(fetch) == IF fetch = Nothing THEN Nothing ELSE [fetch EXCEPT !.newest = FALSE]

\* version + 1: what was fetched before is late.
NewVersion == refresh' = Aged(refresh) /\ reload' = Aged(reload)

\* retain: the pending fields, with the page they were typed on; nothing
\* pending removes the record.
Record(p, on, b) ==
    IF HasText(p)
      THEN [pending |-> p, revision |-> on.revision, at |-> on.at, basis |-> b]
      ELSE NoDraft

HandOver(v) == Journal!Want(v) /\ handed' = TRUE

\* Mutant of Retain: what is saved stays retained.
RetainTextOnly(v) ==
    IF v = NoDraft \/ (handed /\ v = wanted) THEN UNCHANGED journal ELSE HandOver(v)

\* set: the snapshot it was handed last is ignored; the one it read is not.
Retain(v) == IF handed /\ v = wanted THEN UNCHANGED journal ELSE HandOver(v)

\* Mutant of RetryJournal: the save is retried and its journal is not.
JournalNotRetried == UNCHANGED journal

RetryJournal ==
    IF state = "error" THEN Journal!Retry /\ UNCHANGED handed ELSE UNCHANGED journal

\* retain, then journal.retry().
RetainAndRetry(v) ==
    IF state = "error"
      THEN wanted' = v /\ state' = "writing" /\ UNCHANGED <<underway, stored, handed>>
      ELSE Retain(v)

\* Mutant of SaveOf: it is not asked whether anything is pending.
SaveOfAnything(p, blocked) ==
    IF blocked THEN Nothing
    ELSE LET f == IF p["title"] # NoText THEN "title" ELSE "content"
         IN  [step |-> "flush", field |-> f, value |-> p[f], newest |-> TRUE,
              token |-> 0, basis |-> 0, answer |-> Nothing]

\* save, up to the journal flush: the title first; Nothing where it returns
\* early.
SaveOf(p, blocked) ==
    IF blocked \/ ~HasText(p) THEN Nothing
    ELSE LET f == IF p["title"] # NoText THEN "title" ELSE "content"
         IN  [step |-> "flush", field |-> f, value |-> p[f], newest |-> TRUE,
              token |-> 0, basis |-> 0, answer |-> Nothing]

Held == suspended \/ error \/ conflict

\* The end of a save: an unhindered one goes on with what is pending.
SaveEnds(p) ==
    /\ save' = SaveOf(p, Held)
    /\ timer' = (timer /\ save' = Nothing)

\* remoteChanged on a dirty page.
RemoteChanged ==
    /\ conflict' = TRUE /\ error' = TRUE /\ timer' = FALSE
    /\ UNCHANGED <<page, recovered, suspended>>

\* acceptRemote, after the check of the version: a page that is not older
\* replaces a clean one and contests a dirty one.
Contests(fetched) ==
    /\ Dirty
    /\ fetched.revision >= page.revision
    /\ fetched.at # page.at \/ fetched.revision > page.revision

AcceptRemote(fetched) ==
    IF Contests(fetched) THEN RemoteChanged
    ELSE IF ~Dirty /\ fetched.revision >= page.revision
      THEN /\ page' = fetched
           /\ conflict' = FALSE /\ error' = FALSE
           /\ UNCHANGED <<recovered, suspended, timer>>
      ELSE UNCHANGED <<page, flags>>

-----------------------------------------------------------------------------
(* The editor.                                                             *)

\* setTitle and setContent, schedule included: an edit that restores the saved
\* text leaves nothing pending, and no error unless the page is in conflict.
Edit(f, v) ==
    /\ window = "open"
    /\ edits < MaxEdits
    /\ v # Shown(f)
    /\ edits' = edits + 1
    /\ pending' = [pending EXCEPT ![f] =
                     IF save = Nothing /\ v = page.text[f] THEN NoText ELSE v]
    /\ save' = IF save # Nothing /\ save.field = f
               THEN [save EXCEPT !.newest = FALSE] ELSE save
    /\ basis' = IF Dirty THEN basis ELSE page.revision
    /\ NewVersion
    /\ Retain(Record(pending', page, basis'))
    /\ error' = (error /\ (conflict \/ Dirty'))
    /\ timer' = (Dirty' /\ ~error /\ ~conflict)
    /\ UNCHANGED <<server, window, page, conflict, recovered, suspended, verify,
                   deletion, events, foreign, fetches, failures, restarts, deletions>>

\* flush: by the timer, or because the title field is left.
Flush ==
    /\ window = "open"
    /\ timer' = FALSE
    /\ save' = IF save # Nothing THEN save ELSE SaveOf(pending, Held)
    /\ UNCHANGED <<server, window, draft, error, conflict, recovered, suspended,
                   inflight, deletion, events, journal, counters>>

TimerFires == timer /\ Flush
FinishTitle == Flush

\* Offered after an error that is not a conflict.
Retry ==
    /\ window = "open" /\ error
    /\ ~suspended /\ ~conflict /\ save = Nothing
    /\ RetryJournal
    /\ error' = FALSE /\ recovered' = FALSE /\ timer' = FALSE
    /\ save' = SaveOf(pending, FALSE)
    /\ UNCHANGED <<server, window, draft, conflict, suspended, inflight, deletion,
                   events, counters>>

\* Keep or discard, after a conflict; discard, after a recovery.
Reload(keep) ==
    /\ window = "open" /\ reload = Nothing /\ server.live
    /\ error /\ (conflict \/ (recovered /\ ~keep))
    /\ ~suspended /\ save = Nothing
    /\ reload' = [page |-> server, newest |-> TRUE, keep |-> keep]
    /\ UNCHANGED <<server, window, draft, save, flags, refresh, verify, deletion,
                   events, journal, counters>>

-----------------------------------------------------------------------------
(* A save.                                                                 *)

\* The journal is durable: the request goes out, under the page's token of
\* now, unless the wait was used to suspend or contest the draft.
Send ==
    /\ save # Nothing /\ save.step = "flush" /\ state = "durable"
    /\ IF Held
         THEN SaveEnds(pending)
         ELSE /\ save' = [save EXCEPT !.step = "sent", !.token = page.at,
                                      !.basis = basis]
              /\ UNCHANGED timer
    /\ UNCHANGED <<server, window, draft, error, conflict, recovered, suspended,
                   inflight, deletion, events, journal, counters>>

SaveFails ==
    /\ save' = Nothing
    /\ error' = TRUE
    /\ UNCHANGED <<recovered, suspended, timer>>

NotRetained ==
    /\ save # Nothing /\ save.step = "flush" /\ state \in {"error", "blocked"}
    /\ SaveFails
    /\ UNCHANGED <<server, window, draft, conflict, inflight, deletion, events, journal,
                   counters>>

\* The page service: the answer carries the row that is stored then.
Execute ==
    /\ save # Nothing /\ save.step = "sent"
    /\ IF Accepts(server, save.token)
         THEN /\ server' = Saved(server, save.field, save.value, 0)
              /\ save' = [save EXCEPT !.step = "landed", !.answer = server']
         ELSE /\ save' = [save EXCEPT !.step = "refused",
                            !.answer = IF server.live THEN server ELSE Nothing]
              /\ UNCHANGED server
    /\ UNCHANGED <<window, draft, flags, inflight, deletion, events, journal, counters>>

\* The body of a title's answer is not taken over.
Known ==
    [save.answer EXCEPT !.text["content"] =
        IF save.field = "content" THEN save.value ELSE page.text["content"]]

\* Mutant of Settled: an edit made since the save began is settled with it.
SettledWithNewer == [pending EXCEPT ![save.field] = NoText]

Settled == IF save.newest THEN [pending EXCEPT ![save.field] = NoText] ELSE pending

Acknowledge ==
    /\ save # Nothing /\ save.step = "landed"
    /\ IF suspended
         THEN UNCHANGED <<draft, refresh, reload, journal>> /\ SaveEnds(pending)
         ELSE /\ page' = Known
              /\ pending' = Settled
              /\ basis' = page'.revision
              /\ NewVersion
              /\ Retain(Record(pending', page', basis'))
              /\ SaveEnds(pending')
    /\ UNCHANGED <<server, window, error, conflict, recovered, suspended, verify,
                   deletion, events, counters>>

\* 409, or 404 for a deleted page.
Refused ==
    /\ save # Nothing /\ save.step = "refused"
    /\ SaveFails
    /\ conflict' = (conflict \/ save.answer # Nothing)
    /\ UNCHANGED <<server, window, draft, inflight, deletion, events, journal, counters>>

\* The service is unreachable, or its answer is lost.
Unanswered ==
    /\ save # Nothing /\ save.step # "flush"
    /\ failures < MaxFailures /\ troubles < MaxTroubles
    /\ failures' = failures + 1
    /\ SaveFails
    /\ UNCHANGED <<server, window, draft, conflict, inflight, deletion, events, journal,
                   edits, foreign, fetches, restarts, deletions>>

-----------------------------------------------------------------------------
(* Fetches and events.                                                     *)

\* usePage: the page is selected, or events were missed for a minute.  A dirty
\* page is only verified after an outage.
Visit ==
    /\ window # "closed" /\ server.live
    /\ fetches < MaxFetches /\ troubles < MaxTroubles
    /\ fetches' = fetches + 1
    /\ refresh' = [page |-> server, newest |-> TRUE]
    /\ UNCHANGED <<server, window, draft, save, flags, verify, reload, deletion, events,
                   journal, edits, foreign, failures, restarts, deletions>>

Reconnect ==
    /\ window = "open" /\ Dirty /\ server.live
    /\ fetches < MaxFetches /\ troubles < MaxTroubles
    /\ fetches' = fetches + 1
    /\ verify' = server
    /\ UNCHANGED <<server, window, draft, save, flags, refresh, reload, deletion, events,
                   journal, edits, foreign, failures, restarts, deletions>>

RefreshArrives ==
    /\ window = "open" /\ refresh # Nothing
    /\ IF refresh.newest
         THEN /\ AcceptRemote(refresh.page)
              /\ reload' = IF Contests(refresh.page) THEN Aged(reload) ELSE reload
         ELSE UNCHANGED <<page, flags, reload>>
    /\ refresh' = Nothing
    /\ UNCHANGED <<server, window, pending, basis, save, verify, deletion, events,
                   journal, counters>>

VerifyArrives ==
    /\ verify # Nothing
    /\ AcceptRemote(verify)
    /\ IF Contests(verify) THEN NewVersion ELSE UNCHANGED <<refresh, reload>>
    /\ verify' = Nothing
    /\ UNCHANGED <<server, window, pending, basis, save, deletion, events, journal,
                   counters>>

\* The page of a reload is dropped when anything happened since it was asked
\* for; otherwise the decision is carried out.
ReloadArrives ==
    /\ reload # Nothing
    /\ reload' = Nothing
    /\ IF suspended \/ save # Nothing \/ ~reload.newest
         THEN UNCHANGED <<draft, save, flags, refresh, journal>>
         ELSE /\ page' = reload.page
              /\ pending' = IF reload.keep THEN pending ELSE NothingPending
              /\ basis' = page'.revision
              /\ error' = FALSE /\ conflict' = FALSE /\ recovered' = FALSE
              /\ refresh' = Aged(refresh)
              /\ RetainAndRetry(Record(pending', page', basis'))
              /\ IF reload.keep
                   THEN save' = SaveOf(pending', FALSE) /\ timer' = FALSE
                   ELSE UNCHANGED <<save, timer>>
              /\ UNCHANGED suspended
    /\ UNCHANGED <<server, window, verify, deletion, events, counters>>

ReloadFails ==
    /\ reload # Nothing
    /\ failures < MaxFailures /\ troubles < MaxTroubles
    /\ failures' = failures + 1
    /\ reload' = Nothing
    /\ error' = TRUE
    /\ UNCHANGED <<server, window, draft, save, conflict, recovered, suspended, timer,
                   refresh, verify, deletion, events, journal, edits, foreign, fetches,
                   restarts, deletions>>

\* handlePageUpdate: an event of somebody else's change.
EventArrives ==
    /\ window # "closed" /\ events > 0
    /\ events' = events - 1
    /\ IF Dirty
         THEN RemoteChanged /\ NewVersion
         ELSE /\ refresh' = IF server.live THEN [page |-> server, newest |-> TRUE]
                            ELSE Nothing
              /\ reload' = Aged(reload)
              /\ UNCHANGED <<page, flags>>
    /\ UNCHANGED <<server, window, pending, basis, save, verify, deletion, journal,
                   counters>>

\* The stream was down, or another page was selected.
EventMissed ==
    /\ events > 0
    /\ events' = events - 1
    /\ UNCHANGED <<server, window, draft, save, flags, inflight, deletion, journal,
                   counters>>

\* Another window, an agent or a script saves the page, or it is moved (a move
\* carries no request id, whoever makes it).
ChangedElsewhere ==
    /\ server.live
    /\ foreign < MaxForeign /\ troubles < MaxTroubles
    /\ foreign' = foreign + 1
    /\ \/ \E f \in Field, v \in Texts : server' = Saved(server, f, v, 0)
       \/ server' = Moved(server, server.at + 1)
    /\ events' = IF window = "closed" THEN events ELSE events + 1
    /\ UNCHANGED <<window, draft, save, flags, inflight, deletion, journal, edits,
                   fetches, failures, restarts, deletions>>

-----------------------------------------------------------------------------
(* Deletion: deletePageWithDrafts.                                         *)

Delete ==
    /\ window = "open" /\ deletion = "none" /\ server.live
    /\ deletions < MaxDeletions /\ troubles < MaxTroubles
    /\ deletions' = deletions + 1
    /\ deletion' = "sent"
    /\ suspended' = TRUE /\ error' = TRUE /\ timer' = FALSE
    /\ UNCHANGED <<server, window, draft, save, conflict, recovered, inflight, events,
                   journal, edits, foreign, fetches, failures, restarts>>

Deleted ==
    /\ deletion = "sent" /\ server.live
    /\ server' = Removed(server)
    /\ deletion' = "done"
    /\ events' = events + 1
    /\ UNCHANGED <<window, draft, save, flags, inflight, journal, counters>>

\* The request fails, or its answer does.
DeleteFails ==
    /\ deletion # "none"
    /\ failures < MaxFailures /\ troubles < MaxTroubles
    /\ failures' = failures + 1
    /\ deletion' = "none"
    /\ suspended' = FALSE
    /\ UNCHANGED <<server, window, draft, save, error, conflict, recovered, timer,
                   inflight, events, journal, edits, foreign, fetches, restarts,
                   deletions>>

-----------------------------------------------------------------------------
(* The journal at work, and the window coming and going.                   *)

JournalWorks ==
    /\ Journal!Land \/ Journal!Answer
    /\ UNCHANGED <<handed, server, window, draft, save, flags, inflight, deletion, events,
                   counters>>

JournalFails ==
    /\ failures < MaxFailures /\ troubles < MaxTroubles
    /\ failures' = failures + 1
    /\ Journal!Fail
    /\ UNCHANGED <<handed, server, window, draft, save, flags, inflight, deletion, events,
                   edits, foreign, fetches, restarts, deletions>>

Open ==
    /\ window = "closed" /\ server.live
    /\ page' = server
    /\ window' = "opening"
    /\ UNCHANGED <<server, pending, basis, save, flags, inflight, deletion, events,
                   journal, counters>>

\* Mutant of BaseChanged: a recovered draft is taken as it is.
BaseNotCompared(record) == FALSE

BaseChanged(record) == record.revision # page.revision \/ record.at # page.at

\* restore and recoveredState.
Opened ==
    /\ window = "opening"
    /\ Journal!Open /\ UNCHANGED handed
    /\ window' = "open"
    /\ IF state' = "durable" /\ stored # NoDraft
         THEN /\ pending' = stored.pending
              /\ basis' = stored.basis
              /\ error' = TRUE /\ recovered' = TRUE
              /\ conflict' = BaseChanged(stored)
         ELSE UNCHANGED <<pending, basis, error, recovered, conflict>>
    /\ UNCHANGED <<server, page, save, suspended, timer, inflight, deletion, events,
                   counters>>

\* The window is closed, reloaded or killed.  A save it sent may be executed.
Restart ==
    /\ window # "closed"
    /\ restarts < MaxRestarts /\ troubles < MaxTroubles
    /\ restarts' = restarts + 1
    /\ window' = "closed"
    /\ server' \in {server} \cup
         (IF save # Nothing /\ save.step = "sent" /\ Accepts(server, save.token)
          THEN {Saved(server, save.field, save.value, 0)} ELSE {})
    /\ pending' = NothingPending
    /\ save' = Nothing
    /\ error' = FALSE /\ conflict' = FALSE /\ recovered' = FALSE
    /\ suspended' = FALSE /\ timer' = FALSE
    /\ refresh' = Nothing /\ verify' = Nothing /\ reload' = Nothing
    /\ deletion' = "none"
    /\ events' = 0
    /\ Journal!Restart /\ handed' = FALSE
    /\ basis' = 0
    /\ UNCHANGED <<page, edits, foreign, fetches, failures, deletions>>

Next ==
    \/ \E f \in Field, v \in Texts : Edit(f, v)
    \/ TimerFires \/ FinishTitle \/ Retry \/ \E keep \in BOOLEAN : Reload(keep)
    \/ Send \/ NotRetained \/ Execute \/ Acknowledge \/ Refused \/ Unanswered
    \/ Visit \/ Reconnect \/ RefreshArrives \/ VerifyArrives
    \/ ReloadArrives \/ ReloadFails
    \/ EventArrives \/ EventMissed \/ ChangedElsewhere
    \/ Delete \/ Deleted \/ DeleteFails
    \/ JournalWorks \/ JournalFails
    \/ Open \/ Opened \/ Restart

\* Timers fire, requests are answered, and the user, shown an error, retries
\* or decides.
Fairness ==
    /\ WF_vars(TimerFires) /\ WF_vars(Retry) /\ WF_vars(\E keep \in BOOLEAN : Reload(keep))
    /\ WF_vars(Send) /\ WF_vars(NotRetained) /\ WF_vars(Execute)
    /\ WF_vars(Acknowledge) /\ WF_vars(Refused) /\ WF_vars(ReloadArrives)
    /\ WF_vars(JournalWorks) /\ WF_vars(Open) /\ WF_vars(Opened)

Spec == Init /\ [][Next]_vars /\ Fairness

-----------------------------------------------------------------------------
SafeToClose == state = "durable" \/ (~Dirty /\ state # "writing")

\* When the window lets itself be closed without a question, what is pending in
\* it is on disk as it is shown; and a draft that was saved or dropped is there
\* to come back only if the journal could not remove or not even read it.  The
\* beforeunload handler asks nothing else (safeToClose).
SafeToCloseKeepsDraft ==
    window = "open" /\ SafeToClose =>
        IF HasText(pending) THEN stored # NoDraft /\ stored.pending = pending
        ELSE stored = NoDraft \/ state \in {"error", "blocked"}

\* "Pending or failed journal writes prevent unattended close"
\* (DRAFT-RECOVERY.md:28): a record that can be read is on disk after a close
\* without a question only if its text is pending, not because the removal of
\* what was saved has failed.
FailedWritePreventsClose ==
    window = "open" /\ SafeToClose /\ state # "blocked" =>
        (stored # NoDraft => HasText(pending))

\* What the window takes for the page is the page: at the stored revision its
\* title and body are the stored ones, although the body of a title's answer
\* is never taken over and answers race with edits (acknowledge).
KnownPageIsTrue ==
    window = "open" /\ server.live /\ page.revision = server.revision =>
        page.text = server.text

\* A save that the service would accept builds on the revision that is stored:
\* whatever is missed, late, recovered or decided, nobody's change is replaced
\* by a draft whose author was not shown it ("changed remote baseline blocks
\* ordinary retry and keeps recovery bytes", draft-journal.test.ts).
NoLostUpdate ==
    /\ save # Nothing /\ save.step = "sent" =>
           (Accepts(server, save.token) => save.basis = server.revision)
    /\ KnownPageIsTrue

\* Pending text is on its way: a save is under way, the timer runs, or the user
\* is shown an error with its remedy.
Attended == HasText(pending) => save # Nothing \/ timer \/ error \/ conflict

\* A text once typed stays on the screen until it is typed over or discarded;
\* no answer, late fetch or event takes it away ("retains every character,
\* advances acknowledged token", page-save-coordinator.test.ts).
TypedTextStays ==
    [][\A f \in Field :
         \/ pending[f] = NoText
         \/ Shown(f)' = pending[f]
         \/ \E v \in Texts : Edit(f, v)
         \/ reload # Nothing /\ ~reload.keep /\ ReloadArrives
         \/ Restart]_vars

\* Every draft is saved, discarded, or left to a journal that cannot be read
\* or a page that is gone or that the user tries to delete.
DraftsSettle == Dirty ~> ~Dirty \/ state = "blocked" \/ ~server.live \/ deletions > 0

\* "changed baselines require an explicit Keep-and-retry or Discard-and-reload
\* decision" (DRAFT-RECOVERY.md): a draft brought back on a page that changed
\* since it was typed is in conflict until the user decides.
ChangedBaselineNeedsDecision ==
    recovered /\ HasText(pending) /\ basis # page.revision => conflict

\* "A failed delete restores explicit retry" (page-save-coordinator.ts,
\* suspendDeletion): afterwards what is pending is attended to.
FailedDeleteRestoresRetry == ~suspended => Attended
=============================================================================
