----------------------------- MODULE DrcRunPromise -----------------------------
(***************************************************************************)
(* What runDrcOnWorker (src/shared/drc/worker/drc-worker-client.ts)        *)
(* promises to who calls it, without the thread, the queue and the timers: *)
(* a call settles once, a call that was aborted in time never yields a     *)
(* report, and an aborted call does settle.  DrcWorkerClient implements    *)
(* this module; DrcRunService is a caller and relies on nothing else.      *)
(***************************************************************************)
EXTENDS Naturals

CONSTANT Runs

VARIABLES
    fate,       \* the promise of each call
    aborted     \* calls whose signal was aborted before they settled

pvars == <<fate, aborted>>

Fates == {"new", "open", "report", "cancelled", "failed"}

Init ==
    /\ fate = [r \in Runs |-> "new"]
    /\ aborted = {}

Cancelled(S) == [r \in Runs |-> IF r \in S THEN "cancelled" ELSE fate[r]]
Open(S) == {r \in S : fate[r] = "open"}

Call(r) ==
    /\ fate[r] = "new"
    /\ fate' = [fate EXCEPT ![r] = IF r \in aborted THEN "cancelled" ELSE "open"]
    /\ UNCHANGED aborted

\* Some of the aborted calls settle at once, the others when the engine stops.
Abort(R) ==
    /\ \A r \in R : fate[r] \in {"new", "open"}
    /\ aborted' = aborted \cup R
    /\ \E S \in SUBSET R : fate' = Cancelled(Open(S))

Ends(r, outcome) ==
    /\ fate[r] = "open"
    /\ fate' = [fate EXCEPT ![r] = outcome]
    /\ UNCHANGED aborted

Report(r) == r \notin aborted /\ Ends(r, "report")
Fail(r) == Ends(r, "failed")

\* The engine stopped, or the worker was disposed with calls in flight.
Cancel(S) ==
    /\ fate' = Cancelled(Open(S))
    /\ UNCHANGED aborted

Next ==
    \/ \E r \in Runs : Call(r) \/ Report(r) \/ Fail(r)
    \/ \E S \in SUBSET Runs : Abort(S) \/ Cancel(S)

SafetySpec == Init /\ [][Next]_pvars

\* Nobody promises that an engine ends by itself: only that it can be stopped.
Stops(r) == r \in aborted /\ (Ends(r, "failed") \/ Ends(r, "cancelled"))

Spec == SafetySpec /\ \A r \in Runs : WF_pvars(Stops(r))
===============================================================================
