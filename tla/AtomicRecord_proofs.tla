-------------------------- MODULE AtomicRecord_proofs --------------------------
(***************************************************************************)
(* Proofs about AtomicRecord, for any tokens, values, calls, failures and  *)
(* restarts: what an acknowledged call stored survives a kill and a power  *)
(* loss, and a record is replaced only by a call that named it.            *)
(*                                                                         *)
(* Both rest on one inductive invariant.  Calls run one at a time, so what *)
(* a call loaded is still in place when it replaces the file (Current);    *)
(* and the file and its synced copy are unreadable only together, before   *)
(* any call touched them (Readable), so a sync makes them equal.           *)
(*                                                                         *)
(* The second part is about the journal that keeps a draft through this    *)
(* store from the other side of the bridge.                                *)
(***************************************************************************)
EXTENDS AtomicRecord, TLAPS

\* The journal of a draft, over the bridge to this store: its own constants and
\* variables (its failures and restarts are counted as the store's are).
CONSTANTS Drafts, NoDraft, Nothing, MaxSets
VARIABLES disk, status, token, desired, attempt, acknowledged, call, generation, tokens
Journal == INSTANCE DraftJournal

Pos == DOMAIN calls

Serial ==
    \A i, j \in Pos : i < j /\ calls[j].step \in Running => calls[i].step \in Settled

\* What a call that got past its load may count on.
Current ==
    \A i \in Pos :
        /\ calls[i].step \in {"stage", "rename"} => calls[i].op.kind = "write"
        /\ calls[i].step = "unlink" => calls[i].op.kind = "remove"
        /\ calls[i].step = "rename" => calls[i].whole
        /\ calls[i].step \in {"stage", "rename", "unlink", "sync"} => file # Unreadable
        /\ calls[i].step \in {"stage", "rename", "unlink"} =>
              Token(file) = calls[i].op.expected

Readable == file = Unreadable <=> synced = Unreadable

IInv == TypeOK /\ Serial /\ Current /\ Readable /\ AcknowledgedSurvives

-----------------------------------------------------------------------------
\* Moving one call to another step changes nothing else.
LEMMA GotoFacts ==
    ASSUME TypeOK, NEW i \in Pos, NEW s \in {"queued"} \cup Running \cup Settled,
           Goto(i, s)
    PROVE  /\ calls' \in Seq(CallState)
           /\ Pos' = Pos
           /\ calls'[i].step = s
           /\ calls'[i].op = calls[i].op
           /\ calls'[i].whole = calls[i].whole
           /\ \A j \in Pos : j # i => calls'[j] = calls[j]
           /\ calls[i] \in CallState
           /\ i \in Nat
<1>1. calls \in Seq(CallState) /\ i \in DOMAIN calls
  BY DEF TypeOK, Pos
<1>2. calls[i] \in CallState /\ i \in Nat
  BY <1>1
<1> DEFINE c == [calls[i] EXCEPT !.step = s]
<1>3. /\ c \in CallState
      /\ c.step = s /\ c.op = calls[i].op /\ c.whole = calls[i].whole
  BY <1>2 DEF CallState
<1>4. calls' = [calls EXCEPT ![i] = c]
  BY DEF Goto
<1> HIDE DEF c
<1>5. calls' \in Seq(CallState) /\ DOMAIN calls' = DOMAIN calls
  BY <1>1, <1>3, <1>4
<1>6. calls'[i] = c /\ \A j \in DOMAIN calls : j # i => calls'[j] = calls[j]
  BY <1>1, <1>4
<1> QED BY <1>2, <1>3, <1>5, <1>6 DEF Pos

\* While one call runs no other does.
LEMMA OneRuns ==
    ASSUME TypeOK, Serial, NEW i \in Pos, calls[i].step \in Running,
           NEW j \in Pos, j # i
    PROVE  calls[j].step \notin Running
<1>1. i \in Nat /\ j \in Nat
  BY DEF TypeOK, Pos
<1>2. CASE i < j
  BY <1>2 DEF Serial, Running, Settled
<1>3. CASE j < i
  BY <1>3 DEF Serial, Running, Settled
<1> QED BY <1>1, <1>2, <1>3

LEMMA InitInv == Init => IInv
<1> SUFFICES ASSUME Init PROVE IInv
  OBVIOUS
<1>1. calls = <<>> /\ Pos = {}
  BY DEF Init, Pos
<1>2. <<>> \in Seq(CallState)
  OBVIOUS
<1>3. TypeOK
  <2>1. {file, synced} \subseteq File /\ possible \subseteq File
    BY InitiallyAssumption DEF Init
  <2>2. failures \in 0..MaxFailures /\ restarts \in 0..MaxRestarts
    BY FailureBounds, RestartBounds DEF Init
  <2>3. ready \in BOOLEAN /\ calls \in Seq(CallState)
    BY <1>2 DEF Init
  <2> QED BY <2>1, <2>2, <2>3 DEF TypeOK
<1> QED BY <1>1, <1>3 DEF Init, IInv, Serial, Current, Readable, AcknowledgedSurvives

LEMMA CallInv ==
    ASSUME IInv, NEW o \in Op, Call(o)
    PROVE  IInv'
<1> DEFINE c == [op |-> o, step |-> "queued", whole |-> FALSE]
<1>1. c \in CallState
  BY DEF CallState
<1>2. calls \in Seq(CallState) /\ calls' = Append(calls, c)
  BY DEF IInv, TypeOK, Call
<1>3. /\ calls' \in Seq(CallState)
      /\ Pos' = 1..(Len(calls) + 1) /\ Pos = 1..Len(calls)
      /\ \A j \in Pos : calls'[j] = calls[j]
      /\ calls'[Len(calls) + 1] = c
      /\ Len(calls) \in Nat
  BY <1>1, <1>2 DEF Pos
<1>4. c.step = "queued"
  OBVIOUS
<1> HIDE DEF c
<1>5. TypeOK'
  BY <1>3 DEF IInv, TypeOK, Call
<1>6. \A j \in Pos' : j \in Pos \/ calls'[j].step = "queued"
  BY <1>3, <1>4
<1>7. Serial'
  <2> SUFFICES ASSUME NEW i \in Pos', NEW j \in Pos', i < j, calls'[j].step \in Running
               PROVE  calls'[i].step \in Settled
    BY DEF Serial
  <2>1. j \in Pos
    BY <1>6 DEF Running
  <2>2. i \in Pos
    BY <1>3, <2>1
  <2> QED BY <1>3, <2>1, <2>2 DEF IInv, Serial
<1>8. Current'
  BY <1>3, <1>6 DEF IInv, Current, Call, Token
<1> QED BY <1>5, <1>7, <1>8 DEF IInv, Readable, AcknowledgedSurvives, Call

\* A step of one call that leaves the file alone.
LEMMA QuietInv ==
    ASSUME IInv, NEW i \in Pos, NEW s \in {"load", "stage", "unlink", "sync"} \cup Settled,
           Goto(i, s),
           UNCHANGED <<file, synced, restarts, possible>>,
           ready' \in BOOLEAN, failures' \in 0..MaxFailures,
           calls[i].step \notin Running => \A j \in 1..(i - 1) : calls[j].step \in Settled,
           calls[i].step \notin Settled,
           s = "stage" => calls[i].op.kind = "write",
           s = "unlink" => calls[i].op.kind = "remove",
           s \in {"stage", "unlink", "sync"} => file # Unreadable,
           s \in {"stage", "unlink"} => Token(file) = calls[i].op.expected
    PROVE  IInv'
<1>0. s \in {"queued"} \cup Running \cup Settled
  BY DEF Running
<1>1. /\ calls' \in Seq(CallState)
      /\ Pos' = Pos
      /\ calls'[i].step = s /\ calls'[i].op = calls[i].op
      /\ calls'[i].whole = calls[i].whole
      /\ \A j \in Pos : j # i => calls'[j] = calls[j]
      /\ i \in Nat
  BY <1>0, GotoFacts DEF IInv
<1>2. TypeOK'
  BY <1>1 DEF IInv, TypeOK
<1>3. Serial'
  <2> SUFFICES ASSUME NEW j \in Pos, NEW k \in Pos, j < k, calls'[k].step \in Running
               PROVE  calls'[j].step \in Settled
    BY <1>1 DEF Serial
  <2>1. j \in Nat /\ k \in Nat /\ j >= 1
    BY DEF IInv, TypeOK, Pos
  <2>2. CASE k = i
    <3>1. calls[j].step \in Settled
      <4>1. CASE calls[i].step \in Running
        BY <2>2, <4>1 DEF IInv, Serial
      <4>2. CASE calls[i].step \notin Running
        BY <2>1, <2>2, <4>2, <1>1
      <4> QED BY <4>1, <4>2
    <3> QED BY <3>1, <1>1, <2>1, <2>2
  <2>3. CASE k # i
    <3>1. calls[j].step \in Settled
      BY <1>1, <2>3 DEF IInv, Serial
    <3>2. j # i
      BY <3>1
    <3> QED BY <3>1, <3>2, <1>1
  <2> QED BY <2>2, <2>3
<1>4. Current'
  <2> SUFFICES ASSUME NEW j \in Pos
               PROVE  /\ calls'[j].step \in {"stage", "rename"} => calls'[j].op.kind = "write"
                      /\ calls'[j].step = "unlink" => calls'[j].op.kind = "remove"
                      /\ calls'[j].step = "rename" => calls'[j].whole
                      /\ calls'[j].step \in {"stage", "rename", "unlink", "sync"}
                            => file # Unreadable
                      /\ calls'[j].step \in {"stage", "rename", "unlink"}
                            => Token(file) = calls'[j].op.expected
    BY <1>1 DEF Current, Token
  <2>1. CASE j = i
    BY <1>1, <2>1 DEF Settled
  <2>2. CASE j # i
    BY <1>1, <2>2 DEF IInv, Current
  <2> QED BY <2>1, <2>2
<1> QED BY <1>2, <1>3, <1>4 DEF IInv, Readable, AcknowledgedSurvives

LEMMA StageInv ==
    ASSUME IInv, NEW i \in Pos, Stage(i)
    PROVE  IInv'
<1>1. calls[i] \in CallState /\ i \in Nat /\ calls[i].step = "stage"
  BY DEF IInv, TypeOK, Pos, Stage, At
<1> DEFINE c == [calls[i] EXCEPT !.step = "rename", !.whole = TRUE]
<1>2. c \in CallState /\ c.step = "rename" /\ c.op = calls[i].op /\ c.whole
  BY <1>1 DEF CallState, Running
<1>2a. calls' = [calls EXCEPT ![i] = c]
  BY <1>1 DEF Stage, CallState
<1> HIDE DEF c
<1>3. /\ calls' \in Seq(CallState)
      /\ Pos' = Pos
      /\ calls'[i].step = "rename" /\ calls'[i].op = calls[i].op /\ calls'[i].whole
      /\ \A j \in Pos : j # i => calls'[j] = calls[j]
  BY <1>2, <1>2a DEF IInv, TypeOK, Pos
<1>4. TypeOK'
  BY <1>3 DEF IInv, TypeOK, Stage, OnlyReads
<1>5. calls[i].step \in Running /\ calls[i].step \notin Settled
  BY <1>1 DEF Running, Settled
<1>6. Serial'
  <2> SUFFICES ASSUME NEW j \in Pos, NEW k \in Pos, j < k, calls'[k].step \in Running
               PROVE  calls'[j].step \in Settled
    BY <1>3 DEF Serial
  <2>1. calls[k].step \in Running
    BY <1>3, <1>5
  <2>2. calls[j].step \in Settled
    BY <2>1 DEF IInv, Serial
  <2> QED BY <1>3, <1>5, <2>2
<1>7. Current'
  <2>1. UNCHANGED file
    BY DEF Stage, OnlyReads
  <2> QED BY <1>1, <1>3, <2>1 DEF IInv, Current, Token
<1> QED BY <1>4, <1>6, <1>7 DEF IInv, Readable, AcknowledgedSurvives, Stage, OnlyReads

\* A rename or an unlink: the one call that runs puts its outcome in place.
LEMMA ReplaceInv ==
    ASSUME IInv, NEW i \in Pos, calls[i].step \in {"rename", "unlink"},
           NEW new \in File \ {Unreadable}, Replace(i, new, new)
    PROVE  IInv'
<1>0. "sync" \in {"queued"} \cup Running \cup Settled /\ calls[i].step \in Running
  BY DEF Running
<1>1. /\ calls' \in Seq(CallState)
      /\ Pos' = Pos
      /\ calls'[i].step = "sync"
      /\ \A j \in Pos : j # i => calls'[j] = calls[j]
  BY <1>0, GotoFacts DEF IInv, Replace
<1>2. \A j \in Pos : j # i => calls[j].step \notin Running
  BY <1>0, OneRuns DEF IInv
<1>3. synced # Unreadable /\ synced \in File /\ synced \in possible
  BY DEF IInv, Current, Readable, TypeOK, AcknowledgedSurvives
<1>4. TypeOK'
  BY <1>1, <1>3 DEF IInv, TypeOK, Replace
<1>5. Serial'
  <2> SUFFICES ASSUME NEW j \in Pos, NEW k \in Pos, j < k, calls'[k].step \in Running
               PROVE  calls'[j].step \in Settled
    BY <1>1 DEF Serial
  <2>1. k = i
    BY <1>1, <1>2
  <2>2. calls[j].step \in Settled
    BY <1>0, <2>1 DEF IInv, Serial
  <2>3. j # i
    BY <1>0, <2>2 DEF Running, Settled
  <2> QED BY <1>1, <2>2, <2>3
<1>6. Current'
  <2>1. \A j \in Pos : j # i => calls'[j].step \notin Running
    BY <1>1, <1>2
  <2>2. file' # Unreadable
    BY DEF Replace
  <2> QED BY <1>1, <2>1, <2>2 DEF Current, Running
<1>7. Readable' /\ AcknowledgedSurvives'
  BY <1>3 DEF Readable, AcknowledgedSurvives, Replace
<1> QED BY <1>4, <1>5, <1>6, <1>7 DEF IInv

LEMMA SyncInv ==
    ASSUME IInv, NEW i \in Pos, Sync(i)
    PROVE  IInv'
<1>0. "done" \in {"queued"} \cup Running \cup Settled /\ calls[i].step \in Running
      /\ calls[i].step = "sync"
  BY DEF Running, Settled, Sync, At
<1>1. /\ calls' \in Seq(CallState)
      /\ Pos' = Pos
      /\ calls'[i].step = "done"
      /\ \A j \in Pos : j # i => calls'[j] = calls[j]
  BY <1>0, GotoFacts DEF IInv, Sync
<1>2. file # Unreadable /\ synced # Unreadable /\ file \in File
  BY <1>0 DEF IInv, Current, Readable, TypeOK
<1>3. synced' = file /\ file' = file /\ possible' = {file}
  BY <1>2 DEF Sync
<1>4. TypeOK'
  BY <1>1, <1>2, <1>3 DEF IInv, TypeOK, Sync
<1>5. Serial'
  <2> SUFFICES ASSUME NEW j \in Pos, NEW k \in Pos, j < k, calls'[k].step \in Running
               PROVE  calls'[j].step \in Settled
    BY <1>1 DEF Serial
  <2>1. k # i
    BY <1>1 DEF Running, Settled
  <2>2. calls[j].step \in Settled
    BY <1>1, <2>1 DEF IInv, Serial
  <2> QED BY <1>1, <2>2 DEF Settled
<1>6. Current'
  BY <1>1, <1>3 DEF IInv, Current, Token
<1>7. Readable' /\ AcknowledgedSurvives'
  BY <1>3 DEF Readable, AcknowledgedSurvives
<1> QED BY <1>4, <1>5, <1>6, <1>7 DEF IInv

LEMMA RestartInv ==
    ASSUME IInv, Kill \/ PowerLoss
    PROVE  IInv'
<1> DEFINE Lost(c) == IF c.step \in Settled THEN c ELSE [c EXCEPT !.step = "lost"]
<1>1. calls \in Seq(CallState)
  BY DEF IInv, TypeOK
<1>0. Restart /\ file' \in {file, synced}
  BY DEF Kill, PowerLoss
<1>2. \A c \in CallState : Lost(c) \in CallState /\ Lost(c).step \in Settled
  BY DEF CallState, Settled
<1>3. calls' = [i \in DOMAIN calls |-> Lost(calls[i])]
  BY <1>0 DEF Restart
<1> HIDE DEF Lost
<1>4. /\ calls' \in Seq(CallState)
      /\ Pos' = Pos
      /\ \A j \in Pos : calls'[j].step \in Settled
  BY <1>1, <1>2, <1>3 DEF Pos
<1>5. TypeOK'
  <2>1. {file', synced'} \subseteq File /\ ready' \in BOOLEAN /\ possible' \subseteq File
    BY <1>0 DEF IInv, TypeOK, Restart
  <2>2. failures' \in 0..MaxFailures /\ restarts' \in 0..MaxRestarts
    BY <1>0, RestartBounds DEF IInv, TypeOK, Restart
  <2> QED BY <1>4, <2>1, <2>2 DEF TypeOK
<1>6. Serial' /\ Current'
  BY <1>4 DEF Serial, Current, Settled, Running
<1>7. Readable' /\ AcknowledgedSurvives'
  BY <1>0 DEF IInv, Readable, AcknowledgedSurvives, Restart
<1> QED BY <1>5, <1>6, <1>7 DEF IInv

LEMMA StepInv ==
    ASSUME IInv, NEW i \in Pos, Work(i) \/ PrepareFails(i) \/ Fail(i)
    PROVE  IInv'
<1>0. /\ ready \in BOOLEAN /\ failures \in 0..MaxFailures /\ failures \in Nat
      /\ calls[i] \in CallState
  BY FailureBounds DEF IInv, TypeOK, Pos
<1>1. CASE Start(i)
  BY <1>0, <1>1, QuietInv DEF Start, At, Running, Settled
<1>2. CASE PrepareFails(i)
  BY <1>0, <1>2, QuietInv, FailureBounds DEF PrepareFails, At, Running, Settled
<1>3. CASE LoadForWrite(i)
  <2> DEFINE o == calls[i].op
             s == IF Replayed(o) THEN "sync" ELSE IF Refused(o) THEN "failed" ELSE "stage"
  <2>1. /\ calls[i].step = "load" /\ o.kind = "write" /\ file # Unreadable
        /\ Goto(i, s) /\ OnlyReads
    BY <1>3 DEF LoadForWrite, At
  <2>2. s \in {"sync", "failed", "stage"}
    OBVIOUS
  <2>3. s = "stage" => Token(file) = o.expected
    BY DEF Refused
  <2> HIDE DEF s
  <2> QED BY <1>0, <2>1, <2>2, <2>3, QuietInv DEF OnlyReads, Running, Settled
<1>4. CASE LoadForRemove(i)
  <2> DEFINE s == IF file = Absent THEN "sync"
                  ELSE IF Token(file) # calls[i].op.expected THEN "failed" ELSE "unlink"
  <2>1. /\ calls[i].step = "load" /\ calls[i].op.kind = "remove" /\ file # Unreadable
        /\ Goto(i, s) /\ OnlyReads
    BY <1>4 DEF LoadForRemove, At
  <2>2. s \in {"sync", "failed", "unlink"}
    OBVIOUS
  <2>3. s = "unlink" => Token(file) = calls[i].op.expected
    OBVIOUS
  <2> HIDE DEF s
  <2> QED BY <1>0, <2>1, <2>2, <2>3, QuietInv DEF OnlyReads, Running, Settled
<1>5. CASE LoadForRead(i)
  BY <1>0, <1>5, QuietInv DEF LoadForRead, At, OnlyReads, Running, Settled
<1>6. CASE LoadUnreadable(i)
  BY <1>0, <1>6, QuietInv DEF LoadUnreadable, At, OnlyReads, Running, Settled
<1>7. CASE Stage(i)
  BY <1>7, StageInv
<1>8. CASE Rename(i)
  <2>1. calls[i].step = "rename" /\ calls[i].whole /\ calls[i].op.kind = "write"
    BY <1>8 DEF Rename, At, IInv, Current
  <2>2. calls[i].op.record \in File \ {Unreadable}
    BY <1>0, <2>1, NoRecordAssumption DEF CallState, Op, File
  <2>3. Replace(i, calls[i].op.record, calls[i].op.record)
    BY <1>8, <2>1 DEF Rename
  <2> QED BY <2>1, <2>2, <2>3, ReplaceInv
<1>9. CASE Unlink(i)
  <2>1. Absent \in File \ {Unreadable}
    BY NoRecordAssumption DEF File
  <2> QED BY <1>9, <2>1, ReplaceInv DEF Unlink, At
<1>10. CASE Sync(i)
  BY <1>10, SyncInv
<1>11. CASE Fail(i)
  BY <1>0, <1>11, QuietInv, FailureBounds DEF Fail, Running, Settled
<1> QED BY <1>1, <1>2, <1>3, <1>4, <1>5, <1>6, <1>7, <1>8, <1>9, <1>10, <1>11 DEF Work

LEMMA NextInv == IInv /\ [Next]_vars => IInv'
<1> SUFFICES ASSUME IInv, [Next]_vars PROVE IInv'
  OBVIOUS
<1>1. CASE Next
  BY <1>1, CallInv, StepInv, RestartInv DEF Next, Pos
<1>2. CASE UNCHANGED vars
  BY <1>2 DEF vars, IInv, TypeOK, Serial, Current, Pos, Token, Readable,
     AcknowledgedSurvives
<1> QED BY <1>1, <1>2

LEMMA Invariance == Spec => []IInv
  BY InitInv, NextInv, PTL DEF Spec

\* What the state of the store is made of, whatever fails and restarts
\* (atomic-record-store.ts: one file per key, one queue per key).
THEOREM TypeCorrect == Spec => []TypeOK
<1>1. IInv => TypeOK
  BY DEF IInv
<1> QED BY <1>1, Invariance, PTL

\* An acknowledged write or removal survives kills and power losses in any
\* order: publish syncs the file before the rename and the directory before
\* the answer, and the replay of a write, or the removal of what is gone
\* already, syncs the directory again, which a process that was killed in
\* between had left unsynced.
THEOREM AcknowledgedWritesSurvive == Spec => []AcknowledgedSurvives
<1>1. IInv => AcknowledgedSurvives
  BY DEF IInv
<1> QED BY <1>1, Invariance, PTL

\* A record is replaced only by a call that named it, although every call
\* checks before and replaces after several awaits: the calls of a key are
\* chained, so nothing moves in between.
THEOREM CompareAndSwap == Spec => ReplacesOnlyWhatItNamed
<1> DEFINE Named ==
        file' # file /\ restarts' = restarts =>
         \E i \in DOMAIN calls :
            /\ calls[i].step \in {"rename", "unlink"} /\ calls'[i].step = "sync"
            /\ file # Unreadable /\ Token(file) = calls[i].op.expected
<1>1. IInv /\ [Next]_vars => [Named]_vars
  <2> SUFFICES ASSUME IInv, Next, file' # file, restarts' = restarts
               PROVE  \E i \in Pos :
                         /\ calls[i].step \in {"rename", "unlink"}
                         /\ calls'[i].step = "sync"
                         /\ file # Unreadable /\ Token(file) = calls[i].op.expected
    BY DEF Pos
  <2>1. ~Kill /\ ~PowerLoss
    BY RestartBounds DEF Kill, PowerLoss, Restart, IInv, TypeOK
  <2>2. \A i \in Pos : Rename(i) \/ Unlink(i) =>
            calls[i].step \in {"rename", "unlink"} /\ Goto(i, "sync")
    BY DEF Rename, Unlink, Replace, At
  <2>3. PICK i \in Pos : Rename(i) \/ Unlink(i)
    BY <2>1 DEF Next, Work, Call, Start, PrepareFails, LoadForWrite, LoadForRemove,
                LoadForRead, LoadUnreadable, OnlyReads, Stage, Sync, Fail, Pos
  <2>4. calls'[i].step = "sync"
    <3>1. "sync" \in {"queued"} \cup Running \cup Settled
      BY DEF Running
    <3> QED BY <2>2, <2>3, <3>1, GotoFacts DEF IInv
  <2> QED BY <2>2, <2>3, <2>4 DEF IInv, Current
<1> QED BY <1>1, Invariance, PTL DEF Spec, ReplacesOnlyWhatItNamed

-----------------------------------------------------------------------------
(* The journal of a draft (DraftJournal), for any drafts and any number of  *)
(* snapshots, failures and restarts: durable is never said too early, the   *)
(* store never refuses the journal's operations, and to the editor the      *)
(* journal is the register DraftRegister describes.  The invariant says     *)
(* what is known of the record on disk (InStep): with nothing in doubt the  *)
(* journal knows its token; while an operation is in doubt the record is    *)
(* the one it expects or the one it leaves.                                 *)

\* What DraftJournal assumes of its constants.
JournalConstants ==
    /\ NoDraft \notin Drafts
    /\ Nothing \notin Journal!Retained \cup Journal!Desired \cup Journal!Attempt
    /\ {MaxSets, MaxFailures, MaxRestarts} \subseteq Nat

\* An operation is kept exactly while it may be in doubt.
Kept ==
    /\ attempt # Nothing <=> status \in {"writing", "error"}
    /\ call # "none" <=> status = "writing"
    /\ attempt # Nothing => desired # Nothing
    /\ status = "loading" => desired = Nothing

\* It writes a draft that was wanted: the newest, if it has its generation.
OfGeneration ==
    /\ desired # Nothing => desired.generation = generation
    /\ attempt # Nothing =>
        /\ attempt.generation <= generation
        /\ attempt.generation = generation => attempt.value = desired.value
        /\ attempt.token = 0 <=> attempt.value = NoDraft

\* What is known of the record on disk.
InStep ==
    /\ status = "durable" =>
        /\ token = disk.token
        /\ desired # Nothing => desired.value = disk.value
    /\ attempt # Nothing => disk.token = attempt.expected \/ disk = Journal!Outcome(attempt)
    /\ call = "executed" => disk = Journal!Outcome(attempt)

JournalInv == Journal!TypeOK /\ Kept /\ OfGeneration /\ InStep

USE DEF JournalConstants

\* The journal starts with nothing to keep.
LEMMA JournalInit ==
    ASSUME JournalConstants
    PROVE  Journal!Init => JournalInv
<1> SUFFICES ASSUME Journal!Init PROVE JournalInv
  OBVIOUS
<1>1. disk \in Journal!Disk /\ (disk.token = 0 <=> disk.value = NoDraft)
  BY DEF Journal!Init, Journal!Disk, Journal!Token, Journal!Retained
<1>2. failures \in 0..MaxFailures /\ restarts \in 0..MaxRestarts
  BY DEF Journal!Init
<1>3. Journal!TypeOK
  BY <1>1, <1>2 DEF Journal!Init, Journal!Fresh, Journal!TypeOK, Journal!Token
<1> QED BY <1>3 DEF Journal!Init, Journal!Fresh, JournalInv, Kept, OfGeneration, InStep

\* What drain leaves behind, from a snapshot and the token known to be stored:
\* a new operation that the store accepts, or nothing left to do.
LEMMA DrainFacts ==
    ASSUME JournalConstants, NEW d \in Journal!Desired, NEW known \in Nat, tokens \in Nat,
           Journal!Drain(Nothing, d, known), acknowledged \in Nat
    PROVE  /\ tokens' \in Nat /\ acknowledged' \in Nat
           /\ \/ /\ attempt' \in Journal!Attempt
                 /\ status' = "writing" /\ call' = "sent"
                 /\ attempt'.generation = d.generation /\ attempt'.value = d.value
                 /\ attempt'.expected = known
                 /\ attempt'.token = 0 <=> d.value = NoDraft
                 /\ ~(d.value = NoDraft /\ known = 0)
              \/ /\ attempt' = Nothing
                 /\ status' = "durable" /\ call' = "none"
                 /\ d.value = NoDraft /\ known = 0
<1> DEFINE a == Journal!NextAttempt(d, known)
<1>1. CASE d.value = NoDraft /\ known = 0
  BY <1>1 DEF Journal!Drain, Journal!NextAttempt, Journal!Desired
<1>2. CASE ~(d.value = NoDraft /\ known = 0)
  <2>1. /\ a \in Journal!Attempt
        /\ a.generation = d.generation /\ a.value = d.value /\ a.expected = known
        /\ a.token = 0 <=> d.value = NoDraft
    BY <1>2 DEF Journal!NextAttempt, Journal!Attempt, Journal!Desired, Journal!Token
  <2>2. a # Nothing
    BY <2>1
  <2> HIDE DEF a
  <2>3. attempt' = a /\ status' = "writing" /\ call' = "sent" /\ acknowledged' = acknowledged
    BY <2>2 DEF Journal!Drain, a
  <2>4. tokens' \in Nat
    BY DEF Journal!Drain
  <2> QED BY <1>2, <2>1, <2>3, <2>4
<1> QED BY <1>1, <1>2

LEMMA SetInv ==
    ASSUME JournalConstants, JournalInv, NEW v \in Journal!Retained, Journal!Set(v)
    PROVE  JournalInv'
<1> DEFINE d == [generation |-> generation + 1, value |-> v]
<1>1. /\ d \in Journal!Desired /\ d # Nothing
      /\ d.generation = generation + 1 /\ d.value = v /\ generation \in Nat
      /\ tokens \in Nat /\ acknowledged \in Nat /\ token \in Nat
  BY DEF JournalInv, Journal!TypeOK, Journal!Desired, Journal!Token
<1>2. /\ status # "loading" /\ generation' = generation + 1 /\ desired' = d
      /\ UNCHANGED <<disk, token, failures, restarts>>
  BY DEF Journal!Set
<1> HIDE DEF d
<1>3. CASE status \in {"error", "blocked"} \/ call # "none"
  <2>1. UNCHANGED <<status, attempt, acknowledged, call, tokens>>
    BY <1>3 DEF Journal!Set
  <2>2. Journal!TypeOK'
    BY <1>1, <1>2, <2>1 DEF JournalInv, Journal!TypeOK
  <2>3. Kept'
    BY <1>1, <1>2, <2>1 DEF JournalInv, Kept
  <2>4. attempt # Nothing => attempt.generation \in Nat
    BY DEF JournalInv, Journal!TypeOK, Journal!Attempt
  <2>5. OfGeneration'
    BY <1>1, <1>2, <2>1, <2>4 DEF JournalInv, OfGeneration
  <2>6. status # "durable"
    BY <1>3 DEF JournalInv, Kept
  <2>7. InStep'
    BY <1>2, <2>1, <2>6 DEF JournalInv, InStep, Journal!Outcome
  <2> QED BY <2>2, <2>3, <2>5, <2>7 DEF JournalInv
<1>4. CASE status \notin {"error", "blocked"} /\ call = "none"
  <2>1. status = "durable" /\ attempt = Nothing
    BY <1>2, <1>4 DEF JournalInv, Journal!TypeOK, Kept
  <2>2. Journal!Drain(Nothing, d, token)
    BY <1>2, <1>4, <2>1 DEF Journal!Set
  <2>3. token = disk.token /\ (disk.token = 0 <=> disk.value = NoDraft)
    BY <2>1 DEF JournalInv, InStep, Journal!TypeOK
  <2>4. Journal!TypeOK'
    BY <1>1, <1>2, <2>2, DrainFacts DEF JournalInv, Journal!TypeOK
  <2>5. Kept' /\ OfGeneration'
    BY <1>1, <1>2, <2>2, DrainFacts DEF Kept, OfGeneration
  <2>6. InStep'
    BY <1>1, <1>2, <2>2, <2>3, DrainFacts DEF InStep
  <2> QED BY <2>4, <2>5, <2>6 DEF JournalInv
<1> QED BY <1>3, <1>4

LEMMA RetryFacts ==
    ASSUME JournalConstants, JournalInv, Journal!Retry
    PROVE  /\ status = "error" /\ status' = "writing" /\ call' = "sent"
           /\ attempt # Nothing /\ desired # Nothing
           /\ UNCHANGED <<disk, token, desired, attempt, acknowledged, generation, tokens,
                          failures, restarts>>
  BY DEF JournalInv, Kept, Journal!Retry, Journal!Drain

LEMMA RetryInv ==
    ASSUME JournalConstants, JournalInv, Journal!Retry
    PROVE  JournalInv'
<1>1. Journal!TypeOK'
  BY RetryFacts DEF JournalInv, Journal!TypeOK
<1>2. Kept' /\ OfGeneration' /\ InStep'
  BY RetryFacts DEF JournalInv, Kept, OfGeneration, InStep, Journal!Outcome
<1> QED BY <1>1, <1>2 DEF JournalInv

LEMMA ExecuteInv ==
    ASSUME JournalConstants, JournalInv, Journal!Execute
    PROVE  JournalInv'
<1>1. /\ attempt \in Journal!Attempt /\ attempt # Nothing /\ status = "writing"
      /\ attempt.token = 0 <=> attempt.value = NoDraft
  BY DEF JournalInv, Journal!TypeOK, Kept, OfGeneration, Journal!Execute
<1>2. /\ Journal!Outcome(attempt) \in Journal!Disk
      /\ Journal!Outcome(attempt).token = 0 <=> Journal!Outcome(attempt).value = NoDraft
  BY <1>1 DEF Journal!Outcome, Journal!Disk, Journal!Attempt
<1>3. Journal!TypeOK'
  BY <1>2 DEF JournalInv, Journal!TypeOK, Journal!Execute
<1>4. Kept' /\ OfGeneration' /\ InStep'
  BY <1>1 DEF JournalInv, Kept, OfGeneration, InStep, Journal!Execute, Journal!Outcome
<1> QED BY <1>3, <1>4 DEF JournalInv

LEMMA AcknowledgedInv ==
    ASSUME JournalConstants, JournalInv, Journal!Acknowledged
    PROVE  JournalInv'
<1>1. /\ attempt \in Journal!Attempt /\ attempt # Nothing /\ desired \in Journal!Desired
      /\ desired # Nothing /\ disk = Journal!Outcome(attempt)
      /\ attempt.generation = generation => attempt.value = desired.value
      /\ desired.generation = generation
  BY DEF JournalInv, Journal!TypeOK, Kept, OfGeneration, InStep, Journal!Acknowledged
<1>2. disk.token = attempt.token /\ disk.value = attempt.value /\ attempt.token \in Nat
  BY <1>1 DEF Journal!Outcome, Journal!Attempt, Journal!Token
<1>3. /\ token' = attempt.token
      /\ UNCHANGED <<disk, desired, generation, failures, restarts>>
      /\ tokens \in Nat /\ acknowledged \in Nat
  BY DEF Journal!Acknowledged, JournalInv, Journal!TypeOK
<1>4. CASE attempt.generation = desired.generation
  <2>1. /\ attempt' = Nothing /\ status' = "durable" /\ call' = "none"
        /\ acknowledged' = desired.generation /\ UNCHANGED tokens
    BY <1>4 DEF Journal!Acknowledged
  <2>2. Journal!TypeOK'
    BY <1>1, <1>2, <1>3, <2>1 DEF JournalInv, Journal!TypeOK, Journal!Token,
       Journal!Desired
  <2>3. Kept' /\ OfGeneration' /\ InStep'
    BY <1>1, <1>2, <1>3, <1>4, <2>1 DEF Kept, OfGeneration, InStep
  <2> QED BY <2>2, <2>3 DEF JournalInv
<1>5. CASE attempt.generation # desired.generation
  <2>1. Journal!Drain(Nothing, desired, attempt.token)
    BY <1>5 DEF Journal!Acknowledged
  <2>2. disk.token = 0 <=> disk.value = NoDraft
    BY DEF JournalInv, Journal!TypeOK
  <2>3. Journal!TypeOK'
    BY <1>1, <1>2, <1>3, <2>1, DrainFacts DEF JournalInv, Journal!TypeOK, Journal!Token
  <2>4. generation \in Nat
    BY DEF JournalInv, Journal!TypeOK
  <2>5. Kept' /\ OfGeneration'
    BY <1>1, <1>2, <1>3, <2>1, <2>4, DrainFacts DEF Kept, OfGeneration
  <2>6. InStep'
    BY <1>1, <1>2, <1>3, <2>1, <2>2, DrainFacts DEF InStep
  <2> QED BY <2>3, <2>5, <2>6 DEF JournalInv
<1> QED BY <1>4, <1>5

LEMMA JournalRestartInv ==
    ASSUME JournalConstants, JournalInv, Journal!Restart
    PROVE  JournalInv'
<1>1. disk' \in Journal!Disk /\ (disk'.token = 0 <=> disk'.value = NoDraft)
  <2>1. CASE disk' = disk
    BY <2>1 DEF JournalInv, Journal!TypeOK
  <2>2. CASE disk' = Journal!Outcome(attempt) /\ call = "sent"
    <3>1. attempt \in Journal!Attempt /\ (attempt.token = 0 <=> attempt.value = NoDraft)
      BY <2>2 DEF JournalInv, Journal!TypeOK, Kept, OfGeneration
    <3> QED BY <2>2, <3>1 DEF Journal!Outcome, Journal!Disk, Journal!Attempt
  <2> QED BY <2>1, <2>2 DEF Journal!Restart
<1>2. restarts' \in 0..MaxRestarts
  BY DEF Journal!Restart, JournalInv, Journal!TypeOK
<1>3. Journal!TypeOK'
  BY <1>1, <1>2 DEF JournalInv, Journal!TypeOK, Journal!Restart, Journal!Token
<1> QED BY <1>3 DEF Journal!Restart, JournalInv, Kept, OfGeneration, InStep

LEMMA JournalLoadInv ==
    ASSUME JournalConstants, JournalInv, Journal!Load \/ Journal!LoadFails
    PROVE  JournalInv'
<1>1. failures' \in 0..MaxFailures
  BY DEF JournalInv, Journal!TypeOK, Journal!Load, Journal!LoadFails
<1>2. disk.token \in Nat
  BY DEF JournalInv, Journal!TypeOK, Journal!Disk, Journal!Token
<1>3. Journal!TypeOK'
  BY <1>1, <1>2 DEF JournalInv, Journal!TypeOK, Journal!Load, Journal!LoadFails,
     Journal!Token
<1> QED BY <1>3 DEF Journal!Load, Journal!LoadFails, JournalInv, Kept, OfGeneration,
           InStep, Journal!Outcome

LEMMA CallFailsInv ==
    ASSUME JournalConstants, JournalInv, Journal!CallFails
    PROVE  JournalInv'
<1>1. failures' \in 0..MaxFailures
  BY DEF JournalInv, Journal!TypeOK, Journal!CallFails
<1>2. Journal!TypeOK'
  BY <1>1 DEF JournalInv, Journal!TypeOK, Journal!CallFails
<1> QED BY <1>2 DEF Journal!CallFails, JournalInv, Kept, OfGeneration, InStep,
           Journal!Outcome

LEMMA JournalNextInv ==
    ASSUME JournalConstants
    PROVE  JournalInv /\ [Journal!Next]_Journal!vars => JournalInv'
<1> SUFFICES ASSUME JournalInv, [Journal!Next]_Journal!vars PROVE JournalInv'
  OBVIOUS
<1>1. CASE Journal!Next
  BY <1>1, JournalLoadInv, SetInv, RetryInv, ExecuteInv, AcknowledgedInv, CallFailsInv,
     JournalRestartInv
     DEF Journal!Next
<1>2. CASE UNCHANGED Journal!vars
  BY <1>2 DEF Journal!vars, Journal!journal, JournalInv, Journal!TypeOK, Kept,
     OfGeneration, InStep, Journal!Outcome
<1> QED BY <1>1, <1>2

LEMMA JournalInvariance ==
    ASSUME JournalConstants
    PROVE  Journal!Spec => []JournalInv
  BY JournalInit, JournalNextInv, PTL DEF Journal!Spec

\* What the journal's state is made of (page-draft-journal.ts: the class's fields).
THEOREM JournalTyped ==
    ASSUME JournalConstants
    PROVE  Journal!Spec => []Journal!TypeOK
<1>1. JournalInv => Journal!TypeOK
  BY DEF JournalInv
<1> QED BY <1>1, JournalInvariance, PTL

\* Durable is never said of a snapshot that is not on disk: the generation is
\* compared again after every answer (drain).
THEOREM DurableMeansStored ==
    ASSUME JournalConstants
    PROVE  Journal!Spec => []Journal!DurableIsStored
<1>1. JournalInv => Journal!DurableIsStored
  BY DEF JournalInv, Kept, InStep, Journal!DurableIsStored
<1> QED BY <1>1, JournalInvariance, PTL

\* The store accepts every operation of the journal, repeated ones included:
\* an operation is kept, token and all, until it is answered.
THEOREM OwnWritesGoThrough ==
    ASSUME JournalConstants
    PROVE  Journal!Spec => []Journal!OwnWritesAreAccepted
<1>1. JournalInv => Journal!OwnWritesAreAccepted
  <2> SUFFICES ASSUME JournalInv, call = "sent" PROVE Journal!Accepts(attempt)
    BY DEF Journal!OwnWritesAreAccepted
  <2>1. disk.token = attempt.expected \/ disk = Journal!Outcome(attempt)
    BY DEF JournalInv, Kept, InStep
  <2> QED BY <2>1 DEF Journal!Accepts, Journal!Outcome
<1> QED BY <1>1, JournalInvariance, PTL

-----------------------------------------------------------------------------
\* The journal is a register: each of its steps is one of the register's.
Wanted == IF desired = Nothing THEN disk.value ELSE desired.value
Underway == IF attempt = Nothing THEN Nothing ELSE attempt.value

USE DEF Wanted, Underway

LEMMA RegisterInit ==
    ASSUME JournalConstants
    PROVE  Journal!Init => Journal!Register!Init
<1> SUFFICES ASSUME Journal!Init PROVE Journal!Register!Init
  OBVIOUS
<1>1. disk.value \in Journal!Retained /\ desired = Nothing /\ status = "loading"
  BY DEF Journal!Init, Journal!Fresh, Journal!Retained
<1> QED BY <1>1 DEF Journal!Register!Init, Journal!Register!Retained, Journal!Retained,
           Journal!Init, Journal!Fresh

LEMMA RegisterWant ==
    ASSUME JournalConstants, JournalInv, NEW v \in Journal!Retained, Journal!Set(v)
    PROVE  Journal!Register!Want(v)
<1> DEFINE d == [generation |-> generation + 1, value |-> v]
<1>1. /\ d \in Journal!Desired /\ d # Nothing /\ d.value = v
      /\ tokens \in Nat /\ acknowledged \in Nat /\ token \in Nat
  BY DEF JournalInv, Journal!TypeOK, Journal!Desired, Journal!Token
<1>2. status # "loading" /\ desired' = d /\ disk' = disk
  BY DEF Journal!Set
<1> HIDE DEF d
<1>3. Wanted' = v
  BY <1>1, <1>2
<1>4. CASE status \in {"error", "blocked"}
  BY <1>2, <1>3, <1>4 DEF Journal!Set, Journal!Register!Want
<1>5. CASE status \notin {"error", "blocked"} /\ call # "none"
  <2>1. status = "writing" /\ attempt # Nothing /\ UNCHANGED <<status, attempt>>
    BY <1>5 DEF Journal!Set, JournalInv, Kept
  <2>2. attempt.value # Nothing
    BY <2>1 DEF JournalInv, Journal!TypeOK, Journal!Attempt
  <2> QED BY <1>2, <1>3, <2>1, <2>2 DEF Journal!Register!Want
<1>6. CASE status \notin {"error", "blocked"} /\ call = "none"
  <2>1. status = "durable" /\ attempt = Nothing
    BY <1>2, <1>6 DEF JournalInv, Journal!TypeOK, Kept
  <2>2. Journal!Drain(Nothing, d, token)
    BY <1>2, <1>6, <2>1 DEF Journal!Set
  <2>3. token = disk.token /\ (disk.token = 0 <=> disk.value = NoDraft)
    BY <2>1 DEF JournalInv, InStep, Journal!TypeOK
  <2>4. \/ attempt' # Nothing /\ attempt'.value = v /\ status' = "writing"
           /\ ~(v = NoDraft /\ disk.value = NoDraft)
        \/ attempt' = Nothing /\ status' = "durable"
           /\ v = NoDraft /\ disk.value = NoDraft
    BY <1>1, <2>2, <2>3, DrainFacts
  <2> QED BY <1>2, <1>3, <2>1, <2>4 DEF Journal!Register!Want
<1> QED BY <1>4, <1>5, <1>6

LEMMA RegisterAnswer ==
    ASSUME JournalConstants, JournalInv, Journal!Acknowledged
    PROVE  Journal!Register!Answer
<1>1. /\ attempt \in Journal!Attempt /\ attempt # Nothing /\ desired \in Journal!Desired
      /\ desired # Nothing /\ disk = Journal!Outcome(attempt) /\ status = "writing"
      /\ attempt.generation = generation => attempt.value = desired.value
      /\ desired.generation = generation
      /\ disk.token = 0 <=> disk.value = NoDraft
      /\ tokens \in Nat /\ acknowledged \in Nat
  BY DEF JournalInv, Journal!TypeOK, Kept, OfGeneration, InStep, Journal!Acknowledged
<1>2. disk.token = attempt.token /\ disk.value = attempt.value /\ attempt.token \in Nat
  BY <1>1 DEF Journal!Outcome, Journal!Attempt, Journal!Token
<1>3. UNCHANGED <<disk, desired>>
  BY DEF Journal!Acknowledged
<1>4. CASE attempt.generation = desired.generation
  <2>1. attempt' = Nothing /\ status' = "durable"
    BY <1>4 DEF Journal!Acknowledged
  <2> QED BY <1>1, <1>2, <1>3, <1>4, <2>1 DEF Journal!Register!Answer
<1>5. CASE attempt.generation # desired.generation
  <2>1. Journal!Drain(Nothing, desired, attempt.token)
    BY <1>5 DEF Journal!Acknowledged
  <2>2. \/ attempt' # Nothing /\ attempt'.value = desired.value /\ status' = "writing"
        \/ attempt' = Nothing /\ status' = "durable"
           /\ desired.value = NoDraft /\ disk.value = NoDraft
    BY <1>1, <1>2, <2>1, DrainFacts
  <2> QED BY <1>1, <1>2, <1>3, <2>2 DEF Journal!Register!Answer
<1> QED BY <1>4, <1>5

LEMMA RegisterStep ==
    ASSUME JournalConstants
    PROVE  JournalInv /\ [Journal!Next]_Journal!vars
             => [Journal!Register!Next]_(Journal!Register!rvars)
<1> SUFFICES ASSUME JournalInv, [Journal!Next]_Journal!vars
             PROVE  [Journal!Register!Next]_(Journal!Register!rvars)
  OBVIOUS
<1>1. CASE Journal!Load \/ Journal!LoadFails
  <2>1. Journal!Register!Open
    BY <1>1 DEF Journal!Load, Journal!LoadFails, Journal!Register!Open
  <2> QED BY <2>1 DEF Journal!Register!Next
<1>2. ASSUME NEW v \in Journal!Retained, Journal!Set(v) PROVE Journal!Register!Next
  BY <1>2, RegisterWant DEF Journal!Register!Next, Journal!Register!Retained,
     Journal!Retained
<1>3. CASE Journal!Retry
  BY <1>3, RetryFacts DEF Journal!Register!Next, Journal!Register!Retry
<1>4. CASE Journal!Execute
  <2>1. /\ status = "writing" /\ attempt # Nothing /\ desired # Nothing
        /\ attempt \in Journal!Attempt /\ disk' = Journal!Outcome(attempt)
        /\ UNCHANGED <<status, desired, attempt>>
    BY <1>4 DEF Journal!Execute, JournalInv, Journal!TypeOK, Kept
  <2>2. Journal!Register!Land
    BY <2>1 DEF Journal!Register!Land, Journal!Outcome
  <2> QED BY <2>2 DEF Journal!Register!Next
<1>5. CASE Journal!Acknowledged
  BY <1>5, RegisterAnswer DEF Journal!Register!Next
<1>6. CASE Journal!CallFails
  <2>1. Journal!Register!Fail
    BY <1>6 DEF Journal!CallFails, JournalInv, Kept, Journal!Register!Fail
  <2> QED BY <2>1 DEF Journal!Register!Next
<1>7. CASE Journal!Restart
  <2>1. /\ desired' = Nothing /\ attempt' = Nothing /\ status' = "loading"
        /\ \/ disk' = disk
           \/ call = "sent" /\ disk' = Journal!Outcome(attempt)
    BY <1>7 DEF Journal!Restart
  <2>2. call = "sent" => status = "writing" /\ attempt # Nothing
    BY DEF JournalInv, Kept
  <2>3. Journal!Register!Restart
    BY <2>1, <2>2 DEF Journal!Register!Restart, Journal!Outcome
  <2> QED BY <2>3 DEF Journal!Register!Next
<1>8. CASE UNCHANGED Journal!vars
  BY <1>8 DEF Journal!vars, Journal!journal, Journal!Register!rvars
<1> QED BY <1>1, <1>2, <1>3, <1>4, <1>5, <1>6, <1>7, <1>8 DEF Journal!Next

\* To the editor the journal is the register DraftRegister describes: lost
\* answers, repeated operations and generations never show.
THEOREM ImplementsRegister ==
    ASSUME JournalConstants
    PROVE  Journal!Spec => Journal!JournalIsRegister
<1>1. Journal!Init => Journal!Register!Init
  BY RegisterInit
<1>2. JournalInv /\ [Journal!Next]_Journal!vars
             => [Journal!Register!Next]_(Journal!Register!rvars)
  BY RegisterStep
<1> QED BY <1>1, <1>2, JournalInvariance, PTL
           DEF Journal!Spec, Journal!JournalIsRegister,
               Journal!Register!Spec
===============================================================================
