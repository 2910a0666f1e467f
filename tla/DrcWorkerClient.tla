---------------------------- MODULE DrcWorkerClient ----------------------------
(***************************************************************************)
(* The owner of the single DRC worker thread                               *)
(* (src/shared/drc/worker/drc-worker-client.ts) and the thread itself      *)
(* (drc-worker.ts).  Runs are served one at a time, in order.  The thread  *)
(* is spawned for the first run that needs it, and again after a crash, a  *)
(* spawn timeout or a hard cancel.  A run is cancelled by a shared flag    *)
(* first and by terminating the thread when the grace period is over.      *)
(*                                                                         *)
(* A dropped thread has no listeners left and is terminated, so only the   *)
(* thread of the current spawn is modelled.  Progress messages are left    *)
(* out: they change nothing but the display.                               *)
(***************************************************************************)
EXTENDS Integers, Sequences, SequencesExt

CONSTANTS
    Runs,       \* calls of runDrcOnWorker
    NoRun,      \* null as the active run
    MaxSpawns   \* bound on the threads spawned; after that, spawning fails

ASSUME RunsAssumption == NoRun \notin Runs
ASSUME MaxSpawnsAssumption == MaxSpawns \in Nat

VARIABLES
    client,     \* the module's state: see Client
    fate,       \* the promise of each run
    aborted,    \* runs whose signal was aborted in time; the flag of a posted run
    posted,     \* runs handed to the thread
    grace       \* runs whose grace timer is armed

vars == <<client, fate, aborted, posted, grace>>

Fates == {"new", "open", "report", "cancelled", "failed"}
Message == [type : {"ready", "done", "cancelled", "error"}, run : Runs \cup {NoRun}]
Worker == [id : Nat,            \* number of its spawn, 0 when there is none
           thread : {"none", "starting", "idle", "busy", "exited"},
           job : Runs \cup {NoRun},
           inbox : Seq(Runs), outbox : Seq(Message)]
NotAwaiting == -1
Client == [active : Runs \cup {NoRun},
           queue : Seq(Runs),
           worker : Worker,
           \* the promise `ready` of every spawn so far
           ready : Seq({"pending", "resolved", "rejected"}),
           \* the spawn that startRun awaits for a run, 0 when it failed at once
           awaits : [Runs -> Nat \cup {NotAwaiting}]]

TypeOK ==
    /\ client \in Client
    /\ fate \in [Runs -> Fates]
    /\ aborted \subseteq Runs
    /\ posted \subseteq Runs
    /\ grace \subseteq Runs

Thread(n, state) ==
    [id |-> n, thread |-> state, job |-> NoRun, inbox |-> <<>>, outbox |-> <<>>]
NoWorker == Thread(0, "none")

Init ==
    /\ client = [active |-> NoRun, queue |-> <<>>, worker |-> NoWorker,
                 ready |-> <<>>, awaits |-> [r \in Runs |-> NotAwaiting]]
    /\ fate = [r \in Runs |-> "new"]
    /\ aborted = {} /\ posted = {} /\ grace = {}

active == client.active
queue == client.queue
worker == client.worker

-----------------------------------------------------------------------------
Settled(r, outcome) == [fate EXCEPT ![r] = IF @ = "open" THEN outcome ELSE @]

\* The settled run's timer is cleared with it.
Settle(r, outcome) ==
    /\ fate' = Settled(r, outcome)
    /\ grace' = grace \ {r}

\* Whether the current spawn has not become ready yet; its timer is armed.
Spawning(c) == c.worker.id # 0 /\ c.ready[c.worker.id] = "pending"

\* Mutant of Drop: who awaits the spawn is forgotten.
DropSilently(c) == [c EXCEPT !.worker = NoWorker]

\* dropWorker(): a spawn that is not ready yet is rejected.
Drop(c) ==
    [c EXCEPT !.worker = NoWorker,
              !.ready = IF Spawning(c) THEN [@ EXCEPT ![c.worker.id] = "rejected"] ELSE @]

Idle(c) == [c EXCEPT !.active = NoRun]

\* startRun() up to its await: spawn a thread unless there is one.
Started(c, r) ==
    IF c.worker.id # 0 THEN {[c EXCEPT !.awaits[r] = c.worker.id]}
    ELSE LET n == Len(c.ready) + 1
             spawned == [c EXCEPT !.worker = Thread(n, "starting"),
                                  !.ready = Append(@, "pending"),
                                  !.awaits[r] = n]
             failed == [c EXCEPT !.awaits[r] = 0]
         IN {failed} \cup (IF n <= MaxSpawns THEN {spawned} ELSE {})

\* pump(): the next run, when there is one and none is active.
Pumped(c) ==
    IF c.active # NoRun \/ c.queue = <<>> THEN {c}
    ELSE Started([c EXCEPT !.active = Head(c.queue), !.queue = Tail(@)],
                 Head(c.queue))

-----------------------------------------------------------------------------
(* The callers *)

\* runDrcOnWorker(): refused when its signal was aborted before the call.
Request(r) ==
    /\ fate[r] = "new"
    /\ IF r \in aborted
       THEN fate' = [fate EXCEPT ![r] = "cancelled"] /\ UNCHANGED client
       ELSE /\ fate' = [fate EXCEPT ![r] = "open"]
            /\ client' \in Pumped([client EXCEPT !.queue = Append(@, r)])
    /\ UNCHANGED <<aborted, posted, grace>>

\* Mutant of AskToStop: no timer waits for the engine's next checkpoint.
AskForever(r) == UNCHANGED <<client, fate, grace>>

\* Cooperative first: the flag is the run's membership in `aborted`.
AskToStop(r) ==
    /\ grace' = grace \cup {r}
    /\ UNCHANGED <<client, fate>>

Holds(s, r) == \E k \in 1..Len(s) : s[k] = r
Without(s, r) ==
    IF Holds(s, r) THEN RemoveAt(s, CHOOSE k \in 1..Len(s) : s[k] = r) ELSE s

\* abortRun(): before the call, while queued, while spawning, while running.
Abort(r) ==
    /\ fate[r] \in {"new", "open"} /\ r \notin aborted
    /\ aborted' = aborted \cup {r}
    /\ \/ fate[r] = "new" /\ UNCHANGED <<client, fate, grace>>
       \/ /\ fate[r] = "open" /\ active # r
          /\ client' = [client EXCEPT !.queue = Without(@, r)]
          /\ Settle(r, "cancelled")
       \/ /\ active = r /\ r \notin posted
          /\ client' \in Pumped(Idle(client))
          /\ Settle(r, "cancelled")
       \/ active = r /\ r \in posted /\ AskToStop(r)
    /\ UNCHANGED posted

\* Mutant of Dispose: the queued runs are forgotten.
DisposeActiveOnly ==
    /\ client' = [Drop(client) EXCEPT !.active = NoRun, !.queue = <<>>]
    /\ fate' = IF active = NoRun THEN fate ELSE Settled(active, "cancelled")
    /\ grace' = grace \ {active}
    /\ UNCHANGED <<aborted, posted>>

\* disposeDrcWorker(): everything in flight is cancelled.
Dispose ==
    /\ client' = [Drop(client) EXCEPT !.active = NoRun, !.queue = <<>>]
    /\ fate' = [r \in Runs |->
                  IF r = active \/ Holds(queue, r)
                    THEN Settled(r, "cancelled")[r] ELSE fate[r]]
    /\ grace' = grace \ {active}
    /\ UNCHANGED <<aborted, posted>>

-----------------------------------------------------------------------------
(* startRun() after its await *)

Resumed(r) == [client EXCEPT !.awaits[r] = NotAwaiting]
SpawnFailed(r) ==
    client.awaits[r] = 0
    \/ (client.awaits[r] > 0 /\ client.ready[client.awaits[r]] = "rejected")
SpawnReady(r) ==
    client.awaits[r] > 0 /\ client.ready[client.awaits[r]] = "resolved"

\* The spawn was rejected: the run fails unless something else settled it.
GiveUp(r) ==
    /\ SpawnFailed(r)
    /\ client' \in Pumped(IF active = r THEN Idle(Resumed(r)) ELSE Resumed(r))
    /\ Settle(r, "failed")
    /\ UNCHANGED <<aborted, posted>>

\* Aborted or disposed meanwhile.
Overtaken(r) ==
    /\ SpawnReady(r)
    /\ active # r \/ fate[r] # "open"
    /\ client' = Resumed(r)
    /\ UNCHANGED <<fate, aborted, posted, grace>>

Post(r) ==
    /\ SpawnReady(r)
    /\ active = r /\ fate[r] = "open"
    /\ client' = [Resumed(r) EXCEPT !.worker.inbox =
                    IF client.awaits[r] = worker.id THEN Append(@, r) ELSE @]
    /\ posted' = posted \cup {r}
    /\ UNCHANGED <<fate, aborted, grace>>

\* postMessage threw: the structured clone refused the projection.
PostFails(r) ==
    /\ SpawnReady(r)
    /\ active = r /\ fate[r] = "open"
    /\ client' \in Pumped(Idle(Drop(Resumed(r))))
    /\ posted' = posted \cup {r}
    /\ Settle(r, "failed")
    /\ UNCHANGED aborted

Continue(r) == GiveUp(r) \/ Overtaken(r) \/ Post(r) \/ PostFails(r)

-----------------------------------------------------------------------------
(* The thread *)

ThreadSays(type, run, state) ==
    /\ client' = [client EXCEPT !.worker.thread = state,
                                !.worker.job = NoRun,
                                !.worker.outbox =
                                  Append(@, [type |-> type, run |-> run])]
    /\ UNCHANGED <<fate, aborted, posted, grace>>

ThreadReady == worker.thread = "starting" /\ ThreadSays("ready", NoRun, "idle")

ThreadTakesRun ==
    /\ worker.thread = "idle" /\ worker.inbox # <<>>
    /\ client' = [client EXCEPT !.worker.thread = "busy",
                                !.worker.job = Head(worker.inbox),
                                !.worker.inbox = Tail(@)]
    /\ UNCHANGED <<fate, aborted, posted, grace>>

\* The engine ends the run, or sees the flag at a checkpoint.
EngineEnds ==
    /\ worker.thread = "busy"
    /\ \/ ThreadSays("done", worker.job, "idle")
       \/ ThreadSays("error", worker.job, "idle")
       \/ worker.job \in aborted /\ ThreadSays("cancelled", worker.job, "idle")

ThreadExits ==
    /\ worker.thread \in {"starting", "idle", "busy"}
    /\ client' = [client EXCEPT !.worker.thread = "exited",
                                !.worker.job = NoRun, !.worker.inbox = <<>>]
    /\ UNCHANGED <<fate, aborted, posted, grace>>

-----------------------------------------------------------------------------
(* Events of the main thread *)

\* A caller that cancelled never gets a report.
Verdict(m) ==
    CASE m.type = "done"      -> IF m.run \in aborted THEN "cancelled" ELSE "report"
      [] m.type = "cancelled" -> "cancelled"
      [] m.type = "error"     -> "failed"

\* handleMessage()
Receive ==
    /\ worker.outbox # <<>>
    /\ LET m == Head(worker.outbox)
           c == [client EXCEPT !.worker.outbox = Tail(@)]
       IN \/ /\ m.type = "ready"
             /\ client' = [c EXCEPT !.ready[c.worker.id] = "resolved"]
             /\ UNCHANGED <<fate, grace>>
          \/ /\ m.type # "ready" /\ active = m.run
             /\ client' \in Pumped(Idle(c))
             /\ Settle(m.run, Verdict(m))
          \/ /\ m.type # "ready" /\ active # m.run
             /\ client' = c
             /\ UNCHANGED <<fate, grace>>
    /\ UNCHANGED <<aborted, posted>>

\* handleWorkerFailure(): a pending spawn fails the run that awaits it.
WorkerFailure ==
    /\ IF Spawning(client)
       THEN client' = Drop(client) /\ UNCHANGED <<fate, grace>>
       ELSE /\ client' \in Pumped(Idle(Drop(client)))
            /\ IF active = NoRun THEN UNCHANGED <<fate, grace>>
               ELSE Settle(active, "failed")
    /\ UNCHANGED <<aborted, posted>>

\* The thread's error or exit event; messages it sent may still be under way.
WorkerGone == worker.thread = "exited" /\ WorkerFailure
SpawnTimeout == Spawning(client) /\ WorkerFailure

\* Mutant of HardCancel: the worker is kept.
HardCancelKeepsWorker(r) ==
    /\ r \in grace
    /\ client' \in Pumped(Idle(client))
    /\ Settle(r, "cancelled")
    /\ UNCHANGED <<aborted, posted>>

\* The grace period is over: only termination stops a runaway engine.
HardCancel(r) ==
    /\ r \in grace
    /\ IF fate[r] = "open" /\ active = r
       THEN client' \in Pumped(Idle(Drop(client))) /\ Settle(r, "cancelled")
       ELSE grace' = grace \ {r} /\ UNCHANGED <<client, fate>>
    /\ UNCHANGED <<aborted, posted>>

Next ==
    \/ \E r \in Runs : Request(r) \/ Abort(r) \/ Continue(r) \/ HardCancel(r)
    \/ Dispose
    \/ ThreadReady \/ ThreadTakesRun \/ EngineEnds \/ ThreadExits
    \/ Receive \/ WorkerGone \/ SpawnTimeout

\* The event loop turns and timers fire.  The engine need not end: a pour zone
\* may run away.
Fairness ==
    /\ \A r \in Runs : WF_vars(Continue(r)) /\ WF_vars(HardCancel(r))
    /\ WF_vars(Receive) /\ WF_vars(WorkerGone) /\ WF_vars(SpawnTimeout)
    /\ WF_vars(ThreadTakesRun)

Spec == Init /\ [][Next]_vars /\ Fairness

-----------------------------------------------------------------------------
(* Properties *)

\* The queue never waits for nobody: while runs are queued one is active.
NeverStalls == queue # <<>> => active # NoRun

\* A promise that has not settled belongs to the active run or a queued one,
\* so some later event will settle it; and no settled run is still served.
NoRunIsLost ==
    \A r \in Runs : fate[r] = "open" <=> active = r \/ Holds(queue, r)

\* One run at a time: what the thread has been given is the active run, once.
WorkerServesActiveRun ==
    /\ Len(worker.inbox) <= 1
    /\ worker.job # NoRun => worker.inbox = <<>>
    /\ \A r \in Runs : worker.job = r \/ Holds(worker.inbox, r) => active = r

\* A caller that cancelled in time never gets a report.
CancelledGetsNoReport == \A r \in aborted : fate[r] # "report"

\* If the engine always ends, every run settles, through crashes and timeouts.
EveryRunSettles ==
    WF_vars(EngineEnds) => \A r \in Runs : fate[r] = "open" ~> fate[r] # "open"

\* The client keeps the contract that its callers rely on.
Promise == INSTANCE DrcRunPromise
PromiseSafety == Promise!SafetySpec
PromiseKept == Promise!Spec
===============================================================================
