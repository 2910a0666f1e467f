# OpenPCB: a TLA+ verification of edits, design rule checks and drafts

This directory holds a formal model of OpenPCB, a desktop PCB editor: a React
window and a local backend over SQLite, both in TypeScript, in one Electron
application. It covers the three places where a mistake of ordering costs users
their work or their trust:

1. the path a design edit takes from the window to the database and back, with
   the undo history;
2. the design rule check (DRC): the panel that starts a run, the service that
   owns it, and the worker thread that computes it;
3. the drafts of knowledge pages: the editor's save coordinator, the journal on
   disk that keeps unsaved text, and the save tokens of the page service.

Paths below are relative to the repository root.

## Parts of the system

| Part | State and operations | Hard part | Correct when | Here |
|---|---|---|---|---|
| Revision command queue `src/shared/frontend/commands/revision-command-queue.ts` | one lane per design: revision, promise chain, counter, retained edits, blocked flag; submit, observe, reapply, discard, execute | failures while more commands are queued, review, unknown outcomes | no edit lost, resent when it may have applied, or sent past a failure | modelled, proved |
| Command store `src/modules/designer/backend/store.ts` and `history-persistence.ts` | design head, document rows, command log, undo histories; dispatch, undo, redo, delete | the await on the library, retries with the same id, rollback, two sessions | each id applied once, log truthful, no lost update, histories fit the document | modelled in part, proved |
| Coordinator and workspace `src/modules/designer/frontend/lib/command-coordinator.ts`, `hooks/useDesignerWorkspace.ts`, `components/CommandQueueNotice.tsx` | running sender, history in progress, review in progress; send, confirm merge, reject, refresh, discard, reapply | lost answers, late answers, dialogs holding the lane, other writers | what the window says of an edit is true; order kept; no silent rebase | modelled in part, proved |
| DRC worker client `src/shared/drc/worker/drc-worker-client.ts` and thread `drc-worker.ts` | active run, queue, spawn, timers, shared cancel flag; run, abort, hard cancel, crash, dispose | cancel against done, spawn timeout, death of the thread, a run aborted while its thread starts | each run settles once, the queue never stalls, no report after a cancel | modelled, proved |
| DRC run service `src/modules/designer/backend/drc/run-service.ts` | runs per design, queue, stored report; start, join, supersede, cancel, persist, dispose | a successor that is itself superseded, a design edited or deleted meanwhile | each caller gets a report as new as its call, or an error; no report of a deleted design | modelled, proved |
| DRC panel `src/modules/designer/frontend/pcb/drc/use-drc-run.ts`, `drc-store.ts` | run on display, report, stream, poll timer, flags of one controller; start, cancel, close, open | answers of an earlier run, dropped streams, a view closed and opened | the report shown belongs to the run shown, the bar ends | modelled, proved |
| Page save coordinator `src/modules/knowledge/frontend/lib/page-save-coordinator.ts` with `page-draft-state.ts`, `delete-page-with-drafts.ts`, `hooks/usePage.ts` | entry of a page: pending text, save, timer, conflict, recovered, suspended; edit, save, fetch, event, reload, recover, delete | typing during a save, late fetches, crash, change elsewhere, deletion that fails | text stays until saved or discarded; nobody else's change is replaced unseen | modelled in part, proved |
| Draft journal `src/modules/knowledge/frontend/lib/page-draft-journal.ts` | newest snapshot, operation in doubt, durability; set, retry, load | lost answers, newer snapshots behind older operations | durable means on disk; a retry is never refused | modelled, proved |
| Atomic record store `src/core/backend/storage/atomic-record-store.ts` and `src/electron/src/main/draft-journal-ipc.ts` | a file per key; compare-and-swap write, remove, read | failing file operations, kill and power loss between two of them | old or new record, never neither; an acknowledged one survives | modelled in part, proved |
| Page service `src/modules/knowledge/backend/services/page-service.ts` and its repository | rows with a save token; read, save, move, delete, restore | tokens are millisecond timestamps | a token stands for one revision | modelled in part, proved |
| Operation identities and receipts | rows beside the command log; dispatch as an operation, read receipts | a second idempotence key | an operation has one receipt | not modelled |
| Durable net identity, history patch sets | net ids, claims, rebind repairs; diffs of projections | merges and splits of nets | ids are stable and never shared | not modelled |
| Comments outbox, cloud mirror, dataset capture | queues of what is to be uploaded | offline periods, fire and forget | never disturbs a local write | not modelled |
| Autolayout job, assistant applier | remote jobs, staged operations | late results for an edited design | applied through the store or not at all | not modelled, writers of the store |
| Component library | packages, placements; import, update, lookup | import in parts | a package is imported whole | a lookup that may answer late or fail |
| Backend runtime, Electron main | module and process lifecycle, credentials | start, crash and quit order | nothing is closed under a user | a backend that restarts |
| Geometry, routing, ERC, DRC checks, exporters, rendering | pure functions | numerics | not a matter of states | left out |

How they interact. *Edits*: the window calls the coordinator; the coordinator
submits a sender to the queue; the sender calls the backend over HTTP; the route
calls the store; the store may await the component library and then commits one
SQLite transaction. The assistant, SDK users and a second window call the same
store. *DRC*: the panel's controller posts a start, opens an event stream and
falls back to polling; the service reads the projection, joins or supersedes a
run, and calls the worker client, which owns one thread. *Drafts*: the editor
hands each keystroke to the coordinator, which gives it to the journal at once
and to the page service after a pause; the journal reaches the record store over
Electron's IPC; the page service tells every window of changes by events.

## Modules

Edits:

- `EditLedger` is the abstract promise to the user: the fate of each edit.
  An edit under review was not applied and may be sent again; an uncertain one
  may have been applied and is only ever discarded.
- `RevisionQueue` is `RevisionCommandQueue`, one action per operation. A lane's
  `tail` is the chain of promises. `execute()` is split at its one await:
  `Start` (the call of the sender) and the outcome (`Acknowledge`, `Decline`,
  `Conflict`, `Fail`), or `CancelUnsent` when the lane is blocked. `finally`
  is part of each outcome. The sender is the environment.
- `DesignerStore` is the store. Everything between two awaits is one step, for
  JavaScript runs a callback to its end and the SQLite driver is synchronous.
  `Dispatch` replays the log, parks a call that needs the library (`waiting`), or
  runs the transaction; `LibraryResolved` reads the log again and runs it.
  `Transact` has a disjunct per way the transaction ends. A document is a
  value per cell. What the executor decides is open: any admitted command may
  apply, be rejected, be refused for a net merge, or throw; and a batch may find
  nothing to do. `trail` records what made each revision and is read by the
  properties alone.
- `CommandPath` composes both: each lane's sender has a `step` (reading the
  head, sending, awaiting, asking the user, sending again) and the workspace a
  `review` (a refresh and the discard or reapply that waits for it).
  `ConnectionLost` may end any request; the backend goes on with it if it got
  there. `BackendRestart` kills calls and answers and keeps the database.

Design rule checks:

- `DrcRunPromise` is the contract of `runDrcOnWorker`: a call settles once, never
  with a report after it was aborted, and an aborted call settles.
- `DrcWorkerClient` is the client and its thread. `client` holds the module's
  variables; `awaits` says which spawn a run's `startRun` awaits, for a run may
  be aborted while it waits and the next one then awaits the same spawn. Each
  callback of the main thread is one step that ends in `Pumped` where the code
  ends in `pump()`. The thread takes a run from its inbox and speaks through its
  outbox, and may exit at any point with messages still under way. Membership
  in `aborted` is both `run.aborted` and the shared flag. It implements
  `DrcRunPromise`.
- `DrcRunService` is the service over that contract (not over the client: its
  `Worker` steps are those of `DrcRunPromise`). A run is named by the caller that
  created it. `Start` ends at the projection read, `Resume` joins, supersedes or
  creates; `svc.at` says where in `execute()` a run is. `Adopt` is the microtask
  by which the callers of a superseded run follow its successor.
- `DrcRunPanel` is the controller and the store of the panel over the routes.
  Requests and answers are a set, so they pass each other. The backend is what
  `DrcRunService` shows of itself; another client may start runs too.

Drafts:

- `AtomicRecord` is one key of the record store: calls run one at a time, each
  over awaited file operations (`Stage`, `Rename` or `Unlink`, `Sync`) that may
  fail. `file` is what the process sees, `synced` what a power loss leaves;
  `possible` is what the answers so far let a caller expect. `Kill` leaves both
  as they are, so what was not synced still is not when the next process runs;
  `PowerLoss` puts `synced` back in place of `file`.
- `DraftRegister` is the abstract journal: a register that holds one draft,
  with a write under way. `DraftJournal` is the code: generations, tokens,
  expected tokens, an attempt that is kept and repeated. It implements the
  register; the store behind it is one atomic step, as `AtomicRecord` shows.
- `PageRow` is the row and its UPDATE statements. `PageStore` is the page service
  with several clients and an unbounded clock; no run uses it, it has a theorem.
  `PageDrafts` is one window's coordinator
  over a row and over the *register* (not the journal), with the timer, late
  fetches, foreign changes and events, deletion, and a window that closes and
  comes back.

`..._proofs` hold the theorems, `MC...` give constants their values. A definition
commented "Mutant of X" is X with one plausible mistake; no specification uses
it. Replacing X by it must break the property that `PROJECT.json` names, which
shows that the property depends on the code.

## Runs

Each run takes well under five minutes on two workers.

| Run | Question | Bounds and why they are enough |
|---|---|---|
| `queue` | With any outcomes, does the queue keep its promise and implement `EditLedger`? | 2 lanes, 3 edits, 4 ids: a failed edit, one cancelled behind it, one reapplied; revisions 0..1 give newer and older |
| `store` | Retries, id reuse, late library, deletion, restart, undo and redo of two sessions | 2 callers, 2 cells, commands of which two share an id, depth 2 so that the limit is met, 4 revisions |
| `path_edits` | Is what the window says of an edit or an undo true? | a placement, an edit and an undo; 2 connections so that an abandoned call meets a new one |
| `path_writers` | Does another writer rebase or set back a lane? Does undo revert the edit it was meant for? Does every command settle? | an edit and an undo, 1 writer in the same session, 3 revisions, no symmetry |
| `drc_worker` | Does the client keep `DrcRunPromise` through cancels, crashes, timeouts, failed posts and a dispose? | 3 runs, so that one is active, one inherits its spawn and one waits; 3 spawns, so that a replacement dies too |
| `drc_runs` | Are callers answered truly while runs are joined, superseded, cancelled, and designs edited and deleted? | 2 callers over 2 designs, 2 revisions: one joins or supersedes the other, or waits for the other design's run |
| `drc_panel` | Does the panel show the report of its run, and end? | 2 runs, 2 starts, 1 each of cancel, reopening and hydration, 3 clicks in all, 2 polls |
| `record` | Do acknowledged outcomes survive, and does only the record that was named get replaced? | 3 overlapping calls, 2 tokens, every kind of file at first, 1 failed operation, 2 kills or power losses: a kill before the directory is synced, a call over what it left, then a power loss |
| `journal` | Does the journal implement the register, and is a draft retained in the end? | 4 snapshots, 3 failures, 2 restarts: an operation in doubt, a newer snapshot behind it, another failure |
| `drafts` | Is no text and nobody's change lost, and is every draft settled? | 2 edits, at most two of: a change elsewhere, a fetch, a failure, a restart, a deletion; the clock stands still, so that every save is made in the millisecond of the one before |
| `drafts_forgotten` | Does a changed baseline always need a decision? **No** | 2 edits, a change elsewhere, 2 restarts |
| `drafts_leftover` | Does a failed journal write always prevent an unattended close? **No** | 1 edit, 1 failure |

Deadlock is not checked: a window whose user stops editing really stops, and so
do the bounded counters. Bounds in guards (`MaxCommands`, `MaxRevision`,
`MaxCalls`, `MaxSets`, `MaxClicks`, `MaxTroubles`, ...) stop new stimuli, never
the completion of what is under way; the exceptions are `Apply` at the last
revision, where the other outcomes remain, and `MaxSpawns`, after which a spawn
throws, which the code handles like any failed spawn.

Properties:

- Queue: `NothingOvertakes` (nothing is sent past a failure), `CloseGuardIsComplete`
  (an unguarded close loses nothing), `EveryEditAccountedFor` (the refinement).
  That every command leaves its lane is checked where the lane has real senders
  (`EveryCommandSettles` of `CommandPath`).
- Store: `AppliedAtMostOnce`, `LogMatchesDocument` (the log is true and complete),
  `NoLostUpdate`, `HistoriesAreSound` (own commands only, each once, and undo and
  redo are inverse on the cells one session owns; on shared cells the code takes
  the other session's change along, and `docs/designer/command-ordering.md` says
  that it promises no more).
- Path: `ActionsTakeEffectOnce` is about edits and undos, not ids: a reapplied
  edit and a confirmed merge travel under fresh ids which the log cannot connect.
  It holds because an uncertain edit is never resent and a stale base is refused.
  `ReviewedEditsAreUnapplied`, `EditsLandInOrder`, `LaneTracksDesign` (no silent
  rebase, no forgotten write of its own) and `UndoRevertsItsEdit` relate window
  and database. The last is about edits that change the document: one that
  changes nothing leaves no entry to undo.
- Worker: `NoRunIsLost`, `WorkerServesActiveRun`, `PromiseKept` (the refinement,
  liveness included: an aborted run settles though its engine never ends),
  `EveryRunSettles` (if engines end, so does every run).
- Service: `RunsAreAccountedFor` (one active run per design, one job at a time, no
  chain of supersedes that ends nowhere), `ReportIsFresh` (a report is never older
  than the call), `ReportsAreStored` (what a caller was told is stored, and nothing
  for a deleted design), `RowNeverGoesBack`, `EveryCallerIsAnswered`.
- Panel: `ReportIsOfRun`, `CancelledByBackend` (shown cancelled only when it is),
  `ShownRunEnds`. The last two are about the first run of a controller, the first
  about views whose canvas does not hydrate: see below.
- Records and journal: `AcknowledgedSurvives`, `ReplacesOnlyWhatItNamed`,
  `EveryCallSettles`; `JournalIsRegister`, `DraftsAreRetained`.
- Pages: `SafeToCloseKeepsDraft` (a window that closes without a question has its
  unsaved text on disk; without unsaved text it leaves no draft there, unless the
  journal failed to remove it or cannot read it), `NoLostUpdate`,
  `TypedTextStays`, `DraftsSettle`.

Fairness is weak, on the system's own steps. *Edits*: the promise chain advances
(a microtask); a request is answered or its connection breaks; the library
lookup resolves or rejects; the user answers an open dialog. The user is not
obliged to edit, refresh, discard or reapply, nor the backend to restart.
*Worker*: the event loop turns, both timers fire, an idle thread takes its
message. The engine is not obliged to end, for `drc-worker-client.ts` exists to
survive a runaway pour zone: `EveryRunSettles` and the service's
`EveryCallerIsAnswered` take it as a hypothesis. *Service and panel*: reads and
worker promises settle, requests are answered or fail, a run ends, the stream
reports an end it is connected to, the poll timer fires. *Records*: file
operations end, one way or another. *Journal and drafts*: IPC and HTTP calls are
answered or fail, the debounce timer fires, and the user, shown an error or a
conflict, presses retry or decides; nobody is obliged to type, and no failure is
obliged to stop except by its bound.

## Where the code disagrees

`drafts_forgotten` finds a draft whose conflict is forgotten: `retain()`
(`page-save-coordinator.ts:100`) records the page the entry holds *now* as the
base of the draft. A recovered draft in conflict that is edited is retained over
the fresh page; after the next restart its base matches, it is offered for an
ordinary retry, and the retry replaces the remote change unseen.
`src/modules/knowledge/frontend/lib/DRAFT-RECOVERY.md:25` says that changed baselines require an
explicit decision.

`drafts_leftover` finds a saved draft left behind: a page is edited and saved, and
the removal of its draft from the journal fails. The page has nothing pending and
its journal is in error; `safeToClose()` (`page-save-coordinator.ts:95`) asks of a
page without pending text only that its journal is not writing, so the window
closes without a question and the draft stays on disk, to be offered as unsaved
text at the next start. `DRAFT-RECOVERY.md:28` says that pending or failed journal
writes prevent unattended close. No text is lost by it, which is what
`SafeToCloseKeepsDraft` says.

Six more disagreements were met while modelling. Each is stated by a definition
that no run checks now; adding it to the cfg named shows the behaviour.

| Definition | Behaviour | Reproduce |
|---|---|---|
| `RevisionQueue!CancelledOnlyBehindReview` | An edit that conflicted is reapplied and its net merge declined (`revision-command-queue.ts:161`): `blocked` stays set with nothing retained, the notice and the way to discard disappear, and the next edit is refused with "an earlier command needs review". | `MCRevisionQueue.cfg`, as PROPERTY |
| `CommandPath!DiscardSeesTheDesign` | The refresh before a discard returns normally when a newer refresh or a switch of designs superseded it, and the discard goes ahead (`useDesignerWorkspace.ts:634`); the reapply path checks again. | `MCCommandPath_writers.cfg`, as PROPERTY |
| `DrcRunPanel!NeverHangs`, and `CancelledByBackend` without `FirstRun` | `cancel()` (`use-drc-run.ts:271`, `poll()` likewise) hands a terminal answer on without asking whether its run is still on display. Late, it marks the next run cancelled; between the next start and its answer it sets `finished` again, and the new stream is ignored. | `MCDrcRunPanel.cfg`, as PROPERTY |
| `DrcRunPanel!UnmarkedReportIsOfRun` | The canvas calls `setReport` with whatever its fetch returns (`PcbCanvas.tsx:625`), without the `canHydrate` check of the DRC view: an older stored report replaces that of the run just completed, unmarked. | `MCDrcRunPanel.cfg`, as INVARIANT |
| `PageStore!TokenNamesOneRevision` without `MovesComeLater` | `move` and `restore` set `updated_at` to the clock (`page-repository.ts:186,232`), which fast saves may have passed: an old token is accepted again. | two clients read, one saves in the millisecond of the row's token, the page is moved in it, the other saves; no cfg, `PageStore` has no bounds |
| `PageDrafts!FailedDeleteRestoresRetry` | An edit back to the saved text clears the error of a suspended entry, the next edit's timer finds it suspended (`page-save-coordinator.ts:371,388`), and when the deletion fails the draft has no save, timer or error. | `MCPageDrafts.cfg` with `MaxEdits = 3`, `MaxFetches = 0`, as INVARIANT |

## Proofs

Checked by TLAPS for every value of the constants.

`RevisionQueue_proofs`, for any sets of designs, edits and revisions and any
bound on ids, from `RevisionsAssumption` and `MaxCommandsAssumption`:

- `QueueInvariant`: `Spec => []IInv`. `NothingOvertakes` is not inductive:
  the guard of `Start` reads `blocked` while the property speaks of `retained`,
  so `IInv` adds `RetainedBlocks`, that retained edits block the lane. It also
  adds that only the head of a non-empty lane runs and that the counter equals
  the chain's length.
- `QueueTypeOK`, `NothingOvertakesAFailure`, `CloseGuardLosesNothing` follow.
- `QueueImplementsLedger`: `Spec => EveryEditAccountedFor`. It needs the second
  invariant, that an edit is in one place only: queued once, or retained once,
  or settled. Each action is then one `EditLedger` action or a stutter;
  `CancelUnsent` and `Conflict` are `Hold`, `Observe` and `Start` stutter.

`DesignerStore_proofs`, for any designs, sessions, connections, cells, values,
requests and depth of the undo stack, from `StoreAssumptions`:

- `StoreInvariant`, and from it `StoreTypeOK`, `IdsApplyOnce`, `LogTellsTheStory`
  and `NothingOverwritten`. That an id is applied once does not follow from
  itself: `IInv` adds that every change of a live design has its row
  (`EveryChangeIsLogged`), so that an id without a row never ran, and that an id
  has one row (`OneRow`), so that a row which is found is the row of what ran.
  `OwnTrail` (a design's changes name the design) lets these survive the deletion
  of another design's rows, and `Gone` (a deleted design has empty histories)
  keeps undo and redo from reviving one. Each insert into the log needs that the
  log was read in the same step, as `LibraryResolved` does after its await.
- `HistoriesStaySound`: `Spec => []HistoriesAreSound`, from a second invariant
  (`HInv`) on top of the first. The two stacks of a session are one line of
  entries with a place on it: a command cuts the line at the place and appends,
  undo and redo move the place by one. Every entry is a command of that session
  that ran, and none was recorded before, because an id without a row never ran.
  On a cell no other session edits, the document says what the line says at its
  place; another session's undo would write the cell only with an entry of its
  own on it, which such a cell excludes.

`DrcWorkerClient_proofs`, for any set of runs and any number of spawns, from
`RunsAssumption`:

- `WorkerInvariant`: `Spec => []IInv`. What a run may see of the thread depends
  on where the run is, so `IInv` keeps these places apart: a run waits in the
  queue once, or awaits its spawn, or was posted (`QueueIsDistinct`,
  `PostedOnce`); the thread holds only the active run, only if it was posted,
  and nothing any more once it has spoken about it (`ThreadHasActive`); the
  open promises are the runs served (`PromisesOK`). From this an abort before
  the post finds a thread with free hands, so the next run never shares it.
- Most of the proof is about functions on the client's state (`Drop`, `Idle`,
  `Resumed`, `Pumped`), each proved once to keep the client `Sound`; `PumpLands`
  then finishes every action that ends in `pump()`.
- `WorkerTypeOK`, `QueueNeverStalls`, `EveryRunIsServed`, `ThreadServesActiveRun`
  and `NoReportAfterCancel` follow.
- `KeepsPromise`: `Spec => PromiseSafety`, the safety half of `PromiseKept`. A call
  is a `Call`, the settling actions are `Report`, `Fail` or `Cancel`; that no
  report follows an abort is `IInv`'s tie between `aborted` and the verdict.

`DrcRunService_proofs`, for any callers, designs and revisions, from
`CallersAssumption` and `MaxRevisionAssumption`:

- `ServiceInvariant`, and from it `ServiceTypeOK`, `EveryRunHasItsPlace`,
  `NoStaleReport`, `ToldIsStored` and `StoredReportsAdvance`. The parts about the
  service alone are operators on its record: a run is queued, executes or has
  left `execute()` (`Places`), `activeByDesign` names exactly the runs that are
  not terminal (`IndexNamesLive`, `LiveIsIndexed`), only those that are settle
  (`Verdicts`).
- Freshness and the order of the rows come from the order of the reads: reads of
  a design resume as they were issued and its head only grows until the design
  is deleted (`Ordered`), so a run that supersedes another is of a later revision
  (`Chains`) and a stored row is not ahead of any run or read still under way
  (`Rows`). None of this refers to the order in which runs end, which is free.

`CommandPath_proofs`, for any designs, sessions, connections, user inputs and
other writers, from the assumptions of `CommandPath`: ids are UUIDs, so no other
writer's is one of the window's (`ExternalAssumption`); designs and inputs are
finitely many (`FiniteAssumption`, for the counting alone); the bounds are
natural numbers. The module takes `RevisionQueue_proofs` and
`DesignerStore_proofs` as instances: each action of the composition is a step of
theirs, so their invariants hold here without being proved again, whoever calls.

- `CommandPathInvariant`: `Spec => []CInv`. None of the properties is inductive:
  they speak of what is in the design, while what breaks them is a request that
  lost its sender and lands later. So `CInv` speaks of commands that are *void*,
  neither in a design nor under way, and keeps what the design, the calls under
  way and the lanes owe one another. A lane is in the order of its ids (`Lanes`);
  a request was sent once, and nothing behind it in its lane was (`SentOnce`); a
  call of the window is the only one of its command, and its base is above
  everything the window wrote of earlier commands and of none later
  (`OwnCalls`); the answer that a sender gets tells whether its command took
  effect (`LinkedAnswers`); of the commands an edit was sent as one at most is
  not void, and none when the edit is up for review, declined, or queued again
  (`Tries`); a task behind an acknowledged one starts from its revision (`Acks`).
- `ReviewIsTruthful`, `EditsKeepTheirOrder`, `LaneFollowsItsWrites`, `EditsOnce`
  and `CommandPathTyped` follow.
- `HistoryOnce`: undo and redo have no id, so they are counted. `Counted` says
  that the replays in the designs are no more than the inputs that may have made
  them; the input of a waiting sender is one of these until a refusal is there
  for it. With `EditsOnce` it is `ActionsOnce`.

`AtomicRecord_proofs`, for any tokens, values, calls, failures and restarts,
from `NoRecordAssumption` and the bounds:

- `TypeCorrect`, `AcknowledgedWritesSurvive`, `CompareAndSwap`. The invariant adds
  `Serial` (a call runs only when all before it are settled, so what it read is
  still there when it replaces), `Current` (until it does, the file is readable
  and the one the call named, and what is renamed was synced) and `Readable`
  (the directory and what a power loss leaves of it are unreadable together).
  That a killed process did not sync what it replaced does no harm to what was
  acknowledged: whoever answers after it syncs the directory first, a replayed
  write and the removal of what is gone already included.

The module also has the journal of a draft, as an instance of `DraftJournal`, for
any drafts and any number of snapshots, failures and restarts. Its theorems
assume `JournalConstants`, which is what `DraftJournal` assumes of its constants.

- `JournalTyped`, `DurableMeansStored`, `OwnWritesGoThrough`, and the refinement
  `ImplementsRegister`. The invariant adds `Kept` (an attempt is kept exactly
  while it may be in doubt), `OfGeneration` (what an attempt writes is the
  snapshot of its generation) and `InStep` (an attempt expects the token on disk
  or its outcome is there already; durable, token and draft are the disk's). A
  retry is then accepted as a write or as a replay, and maps to one register
  step either way.

`DrcRunPanel_proofs`, for any number of starts, fetches, edits and restarts, from
`BoundsAssumption`:

- `PanelInvariant`, and from it `PanelTyped`, `ReportsAreOfTheirRun`
  (`ReportIsOfRun`) and `CancelledIsConfirmed` (`CancelledByBackend`). Both
  properties compare the panel with the backend, while answers given long before
  are on their way. `IInv` therefore says of each what it is worth on arrival
  (`CallsAreTrue`): it names a run that the backend has, and an end that it tells
  of is final. The latter rests on `Moves`: no step of the backend changes how a
  run ended or the revision it is of.
- That an end which arrives is the end of the run on display is true only until a
  second start (the hazard at `use-drc-run.ts:242`), so `OneRun` says it for
  `used.starts <= 1`, the hypothesis that `CancelledByBackend` has: the first
  start is alone while it is under way, and after it the stream, the timers and
  the requests are all about its run.

`PageDrafts_proofs`, for any texts and any number of edits, changes elsewhere,
failures, deletions and restarts, from `FieldAssumption` (title and content),
`TextsAssumption` and `AbsentAssumption` (what stands for an absent value is none):

- `DraftInvariant`, and from it `DraftsTyped`, `ClosingKeepsTheDraft`
  (`SafeToCloseKeepsDraft`), `WindowKnowsThePage` (`KnownPageIsTrue`),
  `NothingReplacedUnseen` (`NoLostUpdate`) and `TypingIsKept` (`TypedTextStays`).
  The properties compare the window with the row and the disk, while fetches,
  answers and journal writes are between them; `IInv` says of each what it may
  still bring. A fetched row is the stored one or an earlier one (`RowsAreSeen`),
  so one with the stored token is of the stored revision, and a save that is
  accepted replaces the page its sender knows (`SaveIsOfPage`). The journal owes a
  write exactly while one is under way (`JournalKeepsUp`), and the record it wants
  is the text in the window (`DraftIsWanted`), so that what is durable is what is
  shown.
- `NothingReplacedUnseen` is `Spec => [](restarts <= 1 => NoLostUpdate)`: a draft
  builds on the page it is shown on until it is recovered, and if it differs then,
  it is in conflict (`BasisIsKnown`). A second restart forgets that conflict, which
  is the disagreement above, so without the hypothesis the formula is false.
- `TokensNameRevisions`, of `PageStore` as an instance: for any clients, saves and
  times its types and `TokenNamesOneRevision`, under the hypothesis
  `MovesComeLater`, that a move or restore happens when the clock is past the
  row's token. The code does not see to that, and without it the claim is false.
  It follows from `Tokens`: a client's token is at most the row's, and equal only
  for the stored revision.

The type invariant of every module that `runs` check is thereby a theorem, and so
is each of its safety invariants and action properties, except
`UndoRevertsItsEdit` of `CommandPath`. That one needs the tops of the undo stacks
tied to the lanes, on top of all of `CInv` and `HInv`, and holds only of edits that
change the document: the store pushes no history for the others, so an undo after
one reverts the edit before it. The run's edits change it. It stays with TLC, as
does liveness under fairness, which is out of the prover's reach.

## Left out, and why

- Texts, toasts, activity entries, progress frames and `lane.state`, which no code
  branches on.
- The primary key of the command log as a second guard against double
  application: the transaction reads the log first, in the same step.
- Requests that a network delivers after the client gave up: the backend is on
  the loopback interface. The same lateness occurs at the library lookup, and a
  save of a window that is gone may still land (`PageDrafts!Restart`).
- A dropped worker's own events: its listeners are removed and it is terminated.
- Switching designs in the window (except that it supersedes a refresh), and
  deleting a design while a window edits it; `DesignerStore` has deletion.
- The short time between the end of an undo and of its refresh in which
  repeated activation still joins it: the model allows a new undo there.
- The options digest of a DRC run, a function of its projection.
- Of the record store: a read does not sync, so a process that reads what a killed
  one left may be shown a record that a later power loss takes back (it was never
  acknowledged; `DRAFT-RECOVERY.md:32` calls durability over power loss not
  qualified). `DraftJournal`'s disk, which has only windows that restart, does not
  have that step. Other keys, listing, and restoring from the trash are left out. That a
  checksum detects every unsynced file is assumed; what disks do with a power
  loss inside a sync the docs leave open, too.
- Of the journal: an IPC call of a reloaded window that arrives after the new
  window's first, and another window that writes the same key.
- Of the drafts: several pages of one window, `list()`, and the clock of save
  tokens, which `PageStore` has. Version counters are kept as whether a fetch or
  save is still the newest. A fetch reads the row when it is issued.
  `NoLostUpdate` is checked with one restart, for with two the forgotten conflict
  above breaks it.

## Not modelled, and the plan

1. Proofs: `UndoRevertsItsEdit`, on top of `CInv` and `HInv`, with a trail that
   records whether an edit changed the document.
2. Autolayout job (`pcb/autolayout/state/useAutoLayoutJob.ts`): a status answer
   awaited across an abort is still dispatched, and every apply has a new id.
3. Operation receipts on the store, the assistant's applier as a client.
4. Comments outbox, library update, Electron start and quit, dataset capture.
5. Pure algorithms against a reference: net identity reconciliation, history
   patch sets, page order keys.

Geometry, routing, DRC checks, ERC and the exporters, which are most of the
repository's lines, are pure computation over coordinates; a finite instance
says little about them and they are left to their tests.
