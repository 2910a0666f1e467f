--------------------------- MODULE CommandPath_proofs ---------------------------
(***************************************************************************)
(* Proofs about CommandPath, for any designs, sessions, connections, user  *)
(* inputs and other writers: an edit, an undo or a redo takes effect at    *)
(* most once, what the window says of an edit is true, edits land in the   *)
(* order they were made, and the revision of a lane follows the design.    *)
(*                                                                         *)
(* The window (RevisionQueue) and the backend (DesignerStore) bring their  *)
(* own invariants, proved in RevisionQueue_proofs and DesignerStore_proofs *)
(* for any caller: QP!LInv and SP!IInv.  CInv adds what holds between      *)
(* them.                                                                   *)
(*                                                                         *)
(*   Lanes    a lane is in the order of the command ids, and behind says   *)
(*            who follows whom;                                            *)
(*   Senders  a sender sends on the revision it read, on a connection of   *)
(*            its own;                                                     *)
(*   Calls    the backend works on a command for one call only, whose base *)
(*            is above whatever the window wrote before, and the answer    *)
(*            the sender gets tells whether the command took effect;       *)
(*   SentOnce a request is sent once, and none that is behind it in the    *)
(*            lane was sent before;                                        *)
(*   Tries    of all the commands an edit was sent as, one at most may be  *)
(*            in the design; none is, when the window offers the edit for  *)
(*            another try;                                                 *)
(*   InOrder  the edits of a design come in the order of their ids;        *)
(*   Acks     the lane goes on from what its last command produced.        *)
(*                                                                         *)
(* What may be in the design is in its trail or on its way to it: a        *)
(* command is Void when it is neither.  That a request which lost its      *)
(* sender can still land, but only on the revision it named, is OwnCalls.  *)
(* A second invariant rests on CInv and counts (Counted): every undo or    *)
(* redo in a design has an input that may have made it.                    *)
(***************************************************************************)
EXTENDS CommandPath, FiniteSetTheorems, TLAPS

QP == INSTANCE RevisionQueue_proofs
SP == INSTANCE DesignerStore_proofs WITH
        Requests <- ExternalRequests, Bases <- {NoRevision} \cup Revisions

\* The proofs of the queue speak of the very actions of its module.
LEMMA QueueIsQueue ==
    /\ Queue!TypeOK <=> QP!TypeOK
    /\ Queue!Init <=> QP!Init
    /\ \A d, n : Queue!Observe(d, n) <=> QP!Observe(d, n)
    /\ \A d, i : Queue!Submit(d, i) <=> QP!Submit(d, i)
    /\ \A d, r : Queue!Reapply(d, r) <=> QP!Reapply(d, r)
    /\ \A d : Queue!DiscardRetained(d) <=> QP!DiscardRetained(d)
    /\ \A d : Queue!Start(d) <=> QP!Start(d)
    /\ \A d : Queue!CancelUnsent(d) <=> QP!CancelUnsent(d)
    /\ \A d, n : Queue!Acknowledge(d, n) <=> QP!Acknowledge(d, n)
    /\ \A d : Queue!Decline(d) <=> QP!Decline(d)
    /\ \A d : Queue!Conflict(d) <=> QP!Conflict(d)
    /\ \A d : Queue!Fail(d) <=> QP!Fail(d)
  BY DEF Queue!TypeOK, QP!TypeOK, Queue!Init, QP!Init, Queue!Observe, QP!Observe,
         Queue!Observable, QP!Observable, Queue!Submit, QP!Submit, Queue!Fresh,
         QP!Fresh, Queue!Queued, QP!Queued, Queue!HeldAs, QP!HeldAs, Queue!Enqueue,
         QP!Enqueue, Queue!Reapply, QP!Reapply, Queue!DiscardRetained,
         QP!DiscardRetained, Queue!Start, QP!Start, Queue!MustCancel, QP!MustCancel,
         Queue!CancelUnsent, QP!CancelUnsent, Queue!Retain, QP!Retain,
         Queue!Dequeue, QP!Dequeue, Queue!Acknowledge, QP!Acknowledge,
         Queue!Decline, QP!Decline, Queue!Conflict, QP!Conflict, Queue!Fail,
         QP!Fail, Queue!NoRevision, QP!NoRevision, Queue!Task, QP!Task,
         Queue!RetainedState, QP!RetainedState, Queue!RetainedCommand,
         QP!RetainedCommand

\* Every step of the lanes keeps the queue's own invariant.
LEMMA QueueStep ==
    ASSUME QP!LInv, [QP!Next]_queueVars
    PROVE  QP!LInv'
<1>1. MaxCommands \in Nat /\ Revisions \subseteq Nat
  BY BoundsAssumption DEF Revisions
<1>3. [QP!Next]_(QP!vars) /\ QP!IInv /\ QP!LInv
  BY DEF QP!LInv, queueVars, QP!vars
<1>2. QP!IInv'
  BY ONLY <1>1, <1>3, QP!NextIInv
<1>4. QP!OnePlace'
  BY ONLY <1>1, <1>3, QP!NextLedger
<1> QED BY <1>2, <1>4 DEF QP!LInv

-----------------------------------------------------------------------------
(* The inductive invariant. *)

\* The edits of the window in a history s of changes, and whose they are.
Own(q) == OwnId(q.id)
Mark(s, m) == Own(s[m].request)
OwnIn(s) == {m \in 1..Len(s) : s[m].kind = "do" /\ Mark(s, m) # 0}

\* The commands that are in a design, or may still get there.
InDesign(t, n) == \E d \in Designs : \E m \in OwnIn(t[d]) : Mark(t[d], m) = n
UnderWay(calls, n) == \E w \in calls : Own(w.request) = n
Void(n) == ~InDesign(trail, n) /\ ~UnderWay(waiting, n)

\* What the backend has of a request: its row, or the call itself.
Seen == {row.request : row \in log} \cup {w.request : w \in waiting}

Rest ==
    /\ step \in [Designs -> Steps]
    /\ base \in [Designs -> Int]
    /\ link \in [Designs -> Connections \cup {NoConnection}]
    /\ review \in [Designs -> Review]
    /\ behind \in Seq(Nat)
    /\ origin \in Seq(Inputs)
    /\ acks \subseteq Nat \X Nat

\* No design is deleted.
Alive == \A d \in Designs : head[d] \in 0..MaxRevision

\* A lane is a queue in the order of the ids; b says who is behind whom.
Lane(q, b, o, n) ==
    \A k \in 1..Len(q) :
        /\ q[k].id \in 1..n /\ o[q[k].id] = q[k].input
        /\ \A j \in 1..Len(q) : j < k => q[j].id < q[k].id
        /\ k > 1 => b[q[k].id] = q[k - 1].id
        /\ \A m \in 1..n : b[m] = q[k].id => k < Len(q) /\ m = q[k + 1].id

\* An edit that was settled, is in a lane, or is kept for review.
Recorded(i, outcome, lanes, kept) ==
    \/ outcome[i] # "none"
    \/ \E d \in Designs : \E k \in 1..Len(lanes[d]) : lanes[d][k].input = i
    \/ \E d \in Designs : \E r \in kept[d] : r.input = i
Known(i) == Recorded(i, settled, tail, retained)

Lanes ==
    /\ Len(origin) = issued /\ Len(behind) = issued /\ issued <= MaxCommands
    /\ \A n \in 1..issued : behind[n] < n /\ Recorded(origin[n], settled, tail, retained)
    /\ \A d \in Designs : Lane(tail[d], behind, origin, issued)
    /\ \A d \in Designs : \A r \in retained[d] :
          r.id \in 1..issued /\ origin[r.id] = r.input

\* Where the sender of a lane stands, and what its revisions are.
Linking == {"awaiting", "reawaiting"}
Merging == {"asking", "resending", "reawaiting"}
Senders ==
    \A d \in Designs :
        /\ running[d] <=> step[d] # "idle"
        /\ IF step[d] \in Linking THEN link[d] \in Connections ELSE link[d] = NoConnection
        /\ \A e \in Designs : link[d] = link[e] /\ link[d] # NoConnection => d = e
        /\ step[d] = "reading" => revision[d] = NoRevision
        /\ step[d] \notin {"idle", "reading"} =>
              base[d] \in 0..head[d] /\ revision[d] \in {NoRevision, base[d]}
        /\ step[d] \in Merging => ~IsHistory(tail[d][1].input)
        /\ revision[d] <= head[d]
        /\ review[d].phase \in {"read", "refreshed"} => review[d].revision \in 0..head[d]

\* One call or answer per connection.
OneEach ==
    /\ \A v, w \in waiting : v.conn = w.conn => v = w
    /\ \A a, b \in answers : a.conn = b.conn => a = b
    /\ \A w \in waiting, a \in answers : w.conn # a.conn

\* A call of the window is the only one of its command, names its base, and
\* what the window had written before is below that base.
OwnCalls ==
    \A w \in waiting : Own(w.request) # 0 =>
        /\ w.base \in 0..head[w.request.design]
        /\ \A n \in OwnIn(trail[w.request.design]) :
              n <= w.base => Mark(trail[w.request.design], n) < Own(w.request)
        /\ \A v \in waiting : Own(v.request) = Own(w.request) => v = w
        /\ ~InDesign(trail, Own(w.request)) /\ ~Store!Logged(w.request.id)
        /\ \A d \in Designs : running[d] /\ tail[d][1].id = Own(w.request) => w.conn = link[d]
        /\ \A x \in acks : x[1] # Own(w.request)

\* The call a sender waits for is that of its task.
LinkedCalls ==
    \A d \in Designs, w \in waiting : w.conn = link[d] =>
        /\ Own(w.request) = tail[d][1].id /\ w.request.design = d /\ w.base = base[d]
        /\ ~IsHistory(tail[d][1].input)

LinkedAnswers ==
    \A d \in Designs, a \in answers : a.conn = link[d] =>
        /\ a.result.code = "OK" =>
              a.result.revision \in {base[d], base[d] + 1} /\ a.result.revision <= head[d]
        /\ a.result.code # "OK" => Void(tail[d][1].id)
        /\ IsHistory(tail[d][1].input) => a.result.code # "NET_MERGE_REQUIRES_CONFIRM"

\* A request is sent once, and in the order of the lane.
SentOnce ==
    \A q \in Seen : Own(q) # 0 =>
        /\ Own(q) <= issued
        /\ \A k \in 1..Len(tail[q.design]) : Own(q) <= tail[q.design][k].id
        /\ \A d \in Designs : \A k \in 1..Len(tail[d]) : tail[d][k].id = Own(q) =>
              /\ d = q.design /\ k = 1
              /\ step[d] \in {"awaiting", "asking", "resending", "reawaiting"}
              /\ q.id # Own(q) => step[d] = "reawaiting"

\* Of all the commands an edit was sent as, one at most may be in the design.
OneTry ==
    \A m, n \in 1..issued : origin[m] = origin[n] /\ ~Void(m) /\ ~Void(n) => m = n
NotTried ==
    \A n \in 1..issued :
        /\ \A d \in Designs : \A r \in retained[d] :
              r.state # "failed" /\ origin[n] = r.input => Void(n)
        /\ settled[origin[n]] = "declined" => Void(n)
        /\ \A d \in Designs : \A k \in 1..Len(tail[d]) :
              origin[n] = tail[d][k].input /\ n # tail[d][k].id => Void(n)
NotYet == \A d \in Designs : step[d] \in {"asking", "resending"} => Void(tail[d][1].id)

\* What was acknowledged has left the lane, which goes on from there.
LeftLane ==
    \A x \in acks :
        /\ x[1] \in 1..issued
        /\ \A d \in Designs : \A k \in 1..Len(tail[d]) : tail[d][k].id # x[1]
GoesOn ==
    \A d \in Designs : Len(tail[d]) > 0 =>
        \A x \in acks : x[1] = behind[tail[d][1].id] => revision[d] = x[2]
Knows ==
    \A d \in Designs : \A n \in OwnIn(trail[d]) :
        <<Mark(trail[d], n), n>> \in acks => n <= revision[d]

Rising(s) == \A m, n \in OwnIn(s) : m < n => Mark(s, m) < Mark(s, n)
InOrder == \A d \in Designs : Rising(trail[d])

Tries == OneTry /\ NotTried /\ NotYet
Calls == OneEach /\ OwnCalls /\ LinkedCalls /\ LinkedAnswers
Acks == LeftLane /\ GoesOn /\ NoSilentRebase /\ Knows

Base == QP!LInv /\ SP!IInv /\ Rest /\ Alive

CInv ==
    /\ Base
    /\ Lanes /\ Senders /\ Calls /\ SentOnce /\ Tries
    /\ InOrder
    /\ Acks

-----------------------------------------------------------------------------
(* What the invariants of the two components say of the variables. *)

\* The lanes: their types, and one place for every input.
LEMMA QueueFacts ==
    ASSUME QP!LInv
    PROVE  /\ revision \in [Designs -> Nat \cup {NoRevision}]
           /\ tail \in [Designs -> Seq(QP!Task)]
           /\ running \in [Designs -> BOOLEAN]
           /\ \A d \in Designs : retained[d] \subseteq QP!RetainedCommand
           /\ retained \in [Designs -> SUBSET QP!RetainedCommand]
           /\ issued \in Nat
           /\ settled \in [Inputs -> {"none", "acknowledged", "declined", "discarded"}]
           /\ \A d \in Designs : pending[d] = Len(tail[d])
           /\ \A d \in Designs : running[d] => tail[d] # <<>>
           /\ \A d, e \in Designs : \A k \in 1..Len(tail[d]), l \in 1..Len(tail[e]) :
                 tail[d][k].input = tail[e][l].input => d = e /\ k = l
           /\ \A d, e \in Designs : \A r \in retained[d], q \in retained[e] :
                 r.input = q.input => d = e /\ r = q
           /\ \A d, e \in Designs : \A r \in retained[d], k \in 1..Len(tail[e]) :
                 tail[e][k].input # r.input
           /\ \A d \in Designs : \A k \in 1..Len(tail[d]) : settled[tail[d][k].input] = "none"
           /\ \A d \in Designs : \A r \in retained[d] : settled[r.input] = "none"
<1>1. QP!TypeOK /\ QP!PendingCountsTail /\ QP!RunningIsHead /\ QP!OnePlace
  BY DEF QP!LInv, QP!IInv
<1>2. /\ revision \in [Designs -> Nat \cup {NoRevision}]
      /\ tail \in [Designs -> Seq(QP!Task)]
      /\ running \in [Designs -> BOOLEAN]
      /\ retained \in [Designs -> SUBSET QP!RetainedCommand]
      /\ issued \in Nat
      /\ settled \in [Inputs -> {"none", "acknowledged", "declined", "discarded"}]
  BY <1>1 DEF QP!TypeOK, QP!NoRevision, NoRevision
<1>3. \A d \in Designs : pending[d] = Len(tail[d]) /\ (running[d] => tail[d] # <<>>)
  BY <1>1 DEF QP!PendingCountsTail, QP!RunningIsHead
<1>4. /\ \A d, e \in Designs : \A k \in 1..Len(tail[d]), l \in 1..Len(tail[e]) :
            tail[d][k].input = tail[e][l].input => d = e /\ k = l
      /\ \A d, e \in Designs : \A r \in retained[d], q \in retained[e] :
            r.input = q.input => d = e /\ r = q
  BY <1>1 DEF QP!OnePlace, QP!QueuedOnce, QP!HeldOnce
<1>5. \A d, e \in Designs : \A r \in retained[d], k \in 1..Len(tail[e]) :
          tail[e][k].input # r.input
  BY <1>1 DEF QP!OnePlace, QP!HeldIsNotQueued, QP!Queued
<1>6. ASSUME NEW d \in Designs, NEW k \in 1..Len(tail[d])
      PROVE  tail[d][k] \in QP!Task
  <2>1. tail[d] \in Seq(QP!Task)
    BY <1>2
  <2> QED BY <2>1
<1>7. ASSUME NEW d \in Designs, NEW k \in 1..Len(tail[d])
      PROVE  settled[tail[d][k].input] = "none"
  <2>1. tail[d][k].input \in Inputs /\ QP!Queued(tail[d][k].input)
    BY <1>6 DEF QP!Task, QP!Queued
  <2> QED BY <1>1, <2>1 DEF QP!OnePlace, QP!SettledIsGone
<1>8. ASSUME NEW d \in Designs, NEW r \in retained[d]
      PROVE  settled[r.input] = "none"
  <2>1. r \in QP!RetainedCommand
    BY <1>2
  <2>2. r.input \in Inputs /\ QP!HeldAs(r.input, QP!RetainedState)
    BY <2>1 DEF QP!RetainedCommand, QP!HeldAs
  <2> QED BY <1>1, <2>2 DEF QP!OnePlace, QP!SettledIsGone
<1> QED BY <1>2, <1>3, <1>4, <1>5, <1>7, <1>8

\* The tasks of a lane, its head above all.
LEMMA TaskFacts ==
    ASSUME QP!LInv, NEW d \in Designs
    PROVE  /\ tail[d] \in Seq(QP!Task) /\ Len(tail[d]) \in Nat
           /\ \A k \in 1..Len(tail[d]) :
                 /\ tail[d][k] \in QP!Task
                 /\ tail[d][k].id \in Nat /\ tail[d][k].input \in Inputs
           /\ tail[d] # <<>> => /\ 1 \in 1..Len(tail[d]) /\ Task(d) = tail[d][1]
                                /\ Task(d).id \in Nat /\ Task(d).input \in Inputs
           /\ 1 \in 1..Len(tail[d]) => tail[d] # <<>>
<1>1. tail[d] \in Seq(QP!Task)
  BY QueueFacts
<1>2. \A k \in 1..Len(tail[d]) : tail[d][k] \in QP!Task
  BY <1>1
<1>3. \A k \in 1..Len(tail[d]) : tail[d][k].id \in Nat /\ tail[d][k].input \in Inputs
  BY <1>2 DEF QP!Task
<1>4. ASSUME tail[d] # <<>> PROVE 1 \in 1..Len(tail[d]) /\ Task(d) = tail[d][1]
  BY <1>1, <1>4 DEF Task
<1> QED BY <1>1, <1>2, <1>3, <1>4

\* A command and its confirmed merge go by the window's id, others by none.
LEMMA OwnIds ==
    /\ \A n \in Nat : OwnId(n) \in Nat
    /\ \A n \in 1..MaxCommands : OwnId(n) = n /\ OwnId(ResendId(n)) = n
    /\ \A n \in 1..MaxCommands : ResendId(n) \in Nat \ {0} /\ ResendId(n) # n
    /\ \A req \in ExternalRequests : OwnId(req.id) = 0
<1>1. MaxCommands \in Nat
  BY BoundsAssumption
<1>2. \A req \in ExternalRequests : req.id \in Nat /\ req.id > 2 * MaxCommands
  BY ExternalAssumption DEF Store!Request
<1> QED BY <1>1, <1>2 DEF OwnId, ResendId

\* The proofs of the store speak of the very same requests.
LEMMA RequestsAre == Store!Request = SP!Request
  BY DEF Store!Request, SP!Request, Store!Command, SP!Command, Store!Kinds, SP!Kinds

\* The backend: its types, and a logged request behind every edit.
LEMMA StoreFacts ==
    ASSUME SP!IInv, Alive
    PROVE  /\ head \in [Designs -> Nat \cup {NoRevision}]
           /\ \A d \in Designs : head[d] \in Nat /\ Store!Exists(d)
           /\ trail \in [Designs -> Seq(SP!Change)]
           /\ \A d \in Designs : Len(trail[d]) = head[d]
           /\ \A w \in waiting : /\ w.conn \in Connections /\ w.request \in Store!Request
                                 /\ w.base \in Int /\ w.request.design \in Designs
           /\ \A a \in answers : /\ a.conn \in Connections /\ a.result.code \in Store!Codes
                                 /\ a.result.revision \in Int
           /\ \A q \in Seen : /\ q \in Store!Request /\ q.design \in Designs
                              /\ q.id \in Nat /\ Own(q) \in Nat
           /\ \A row \in log : row.request \in Seen
           /\ \A w \in waiting : w.request \in Seen
           /\ \A d \in Designs : \A n \in OwnIn(trail[d]) :
                 /\ n \in 1..head[d] /\ Mark(trail[d], n) \in Nat \ {0}
                 /\ \E q \in Seen : /\ q = trail[d][n].request /\ q.design = d
                                    /\ Own(q) = Mark(trail[d], n)
                                    /\ Store!Logged(q.id)
<1>1. SP!TypeOK /\ SP!EveryChangeIsLogged /\ SP!OwnTrail
  BY DEF SP!IInv
<1>2. /\ head \in [Designs -> Nat \cup {NoRevision}]
      /\ trail \in [Designs -> Seq(SP!Change)]
      /\ log \subseteq SP!Row /\ waiting \subseteq SP!Call /\ answers \subseteq SP!Answer
  BY <1>1 DEF SP!TypeOK, SP!NoRevision, NoRevision
<1>3. \A d \in Designs : head[d] \in Nat /\ Store!Exists(d) /\ SP!Exists(d)
  BY DEF Alive, Store!Exists, Store!NoRevision, SP!Exists, SP!NoRevision
<1>4. /\ \A d \in Designs : Len(trail[d]) = head[d]
      /\ \A d \in Designs : \A n \in SP!Dos(d) :
            \E row \in log : row.request = trail[d][n].request
  BY <1>1, <1>3 DEF SP!EveryChangeIsLogged
<1>5. \A q \in Store!Request : q.design \in Designs /\ q.id \in Nat /\ Own(q) \in Nat
  BY OwnIds DEF Store!Request, Own
<1>6. \A w \in waiting : /\ w.conn \in Connections /\ w.request \in Store!Request
                         /\ w.base \in Int
  BY <1>2, RequestsAre DEF SP!Call
<1>7. \A a \in answers : /\ a.conn \in Connections /\ a.result.code \in Store!Codes
                         /\ a.result.revision \in Int
  BY <1>2 DEF SP!Answer, SP!Result, SP!Codes, Store!Codes
<1>8. \A row \in log : row.request \in Store!Request
  BY <1>2, RequestsAre DEF SP!Row
<1>9. \A q \in Seen : q \in Store!Request
  BY <1>6, <1>8 DEF Seen
<1>10. (\A row \in log : row.request \in Seen) /\ (\A w \in waiting : w.request \in Seen)
  BY DEF Seen
<1>11. ASSUME NEW d \in Designs, NEW n \in OwnIn(trail[d])
       PROVE  /\ n \in 1..head[d] /\ Mark(trail[d], n) \in Nat \ {0}
              /\ \E q \in Seen : /\ q = trail[d][n].request /\ q.design = d
                                 /\ Own(q) = Mark(trail[d], n)
                                 /\ Store!Logged(q.id)
  <2>1. n \in 1..Len(trail[d]) /\ n \in SP!Dos(d) /\ Mark(trail[d], n) # 0
    BY DEF OwnIn, SP!Dos
  <2>2. PICK row \in log : row.request = trail[d][n].request
    BY <1>4, <2>1
  <2>3. row.request.design = d
    BY <1>1, <2>1, <2>2 DEF SP!OwnTrail
  <2>4. Own(row.request) = Mark(trail[d], n)
    BY <2>2 DEF Mark
  <2>5. Store!Logged(row.request.id)
    BY DEF Store!Logged
  <2>6. row.request \in Seen /\ Own(row.request) \in Nat
    BY <1>5, <1>8, <1>10
  <2> QED BY <1>4, <2>1, <2>2, <2>3, <2>4, <2>5, <2>6
<1> QED BY <1>2, <1>3, <1>4, <1>5, <1>6, <1>7, <1>9, <1>10, <1>11

-----------------------------------------------------------------------------
(* The store's steps, in the words of the store's proofs. *)

\* The proofs of the store speak of the very actions of its module.
LEMMA StoreIsStore ==
    /\ Store!TypeOK <=> SP!TypeOK
    /\ Store!Init <=> SP!Init
    /\ \A c, q, b : Store!Dispatch(c, q, b) <=> SP!Dispatch(c, q, b)
    /\ \A w : Store!LibraryResolved(w) <=> SP!LibraryResolved(w)
    /\ \A w : Store!LibraryFailed(w) <=> SP!LibraryFailed(w)
    /\ \A c, d, s, k, b : Store!ReplayHistory(c, d, s, k, b) <=> SP!ReplayHistory(c, d, s, k, b)
    /\ \A a : Store!Deliver(a) <=> SP!Deliver(a)
    /\ Store!Restart <=> SP!Restart
<1>1. (Store!TypeOK <=> SP!TypeOK) /\ (Store!Init <=> SP!Init)
  BY DEF Store!TypeOK, SP!TypeOK, Store!Kinds, SP!Kinds, Store!Command, SP!Command,
         Store!Request, SP!Request, Store!NoRevision, SP!NoRevision, Store!Codes, SP!Codes,
         Store!Result, SP!Result, Store!Row, SP!Row, Store!Entry, SP!Entry,
         Store!History, SP!History, Store!Call, SP!Call, Store!Answer, SP!Answer,
         Store!Change, SP!Change, Store!EmptyHistory, SP!EmptyHistory,
         Store!Init, SP!Init
<1>2. \A c, id, r : Store!Reply(c, id, r) <=> SP!Reply(c, id, r)
  BY DEF Store!Reply, SP!Reply
<1>3. \A c, q, b : Store!Transact(c, q, b) <=> SP!Transact(c, q, b)
  BY DEF Store!Reply, SP!Reply, Store!Exists, SP!Exists, Store!NoRevision, SP!NoRevision,
         Store!Ok, SP!Ok, Store!ConflictAt, SP!ConflictAt, Store!Outcome, SP!Outcome,
         Store!Insert, SP!Insert, Store!Record, SP!Record, Store!Advance, SP!Advance,
         Store!Missing, SP!Missing, Store!Stale, SP!Stale,
         Store!Admitted, SP!Admitted, Store!Apply, SP!Apply, Store!NothingToDo, SP!NothingToDo,
         Store!Reject, SP!Reject, Store!RefuseMerge, SP!RefuseMerge, Store!Throw, SP!Throw,
         Store!Transact, SP!Transact
<1>4. \A c, q : Store!Replay(c, q) <=> SP!Replay(c, q)
  BY DEF Store!Replay, SP!Replay, Store!Retold, SP!Retold, Store!Reply, SP!Reply,
         Store!RowOf, SP!RowOf, Store!ConflictAt, SP!ConflictAt
<1>5. \A id : Store!Logged(id) <=> SP!Logged(id)
  BY DEF Store!Logged, SP!Logged
<1>6. \A c, q, b : Store!Dispatch(c, q, b) <=> SP!Dispatch(c, q, b)
  BY <1>3, <1>4, <1>5 DEF Store!Dispatch, SP!Dispatch, Store!Idle, SP!Idle,
                         Store!NeedsLibrary, SP!NeedsLibrary
<1>7. \A w : Store!LibraryResolved(w) <=> SP!LibraryResolved(w)
  BY <1>3, <1>4, <1>5 DEF Store!LibraryResolved, SP!LibraryResolved
<1>8. \A w : Store!LibraryFailed(w) <=> SP!LibraryFailed(w)
  BY <1>2 DEF Store!LibraryFailed, SP!LibraryFailed, Store!Outcome, SP!Outcome,
              Store!NoRevision, SP!NoRevision
<1>9. \A c, d, s, k, b : Store!ReplayHistory(c, d, s, k, b) <=> SP!ReplayHistory(c, d, s, k, b)
  BY DEF Store!ReplayHistory, SP!ReplayHistory, Store!Idle, SP!Idle, Store!Reply, SP!Reply,
         Store!NoRevision, SP!NoRevision, Store!ConflictAt, SP!ConflictAt, Store!Ok, SP!Ok,
         Store!Outcome, SP!Outcome, Store!Stack, SP!Stack, Store!Consumed, SP!Consumed,
         Store!Advance, SP!Advance, Store!Last, SP!Last, Store!Front, SP!Front
<1>10. (\A a : Store!Deliver(a) <=> SP!Deliver(a)) /\ (Store!Restart <=> SP!Restart)
  BY DEF Store!Deliver, SP!Deliver, Store!Restart, SP!Restart
<1> QED BY <1>1, <1>6, <1>7, <1>8, <1>9, <1>10

\* What the proofs of the store assume of its constants.
LEMMA StoreAssumed ==
    /\ ExternalRequests \subseteq SP!Request
    /\ 0 \in Values
    /\ DepthLimit \in Nat \ {0}
    /\ MaxRevision \in Nat
    /\ {NoRevision} \cup Revisions \subseteq Nat \cup {-1}
  BY BoundsAssumption, ValuesAssumption, ExternalAssumption, RequestsAre
     DEF NoRevision, Revisions

\* Every step of the store keeps what the store's own proofs found invariant.
LEMMA StoreKeeps ==
    ASSUME SP!IInv,
           \/ \E c \in Connections, q \in Store!Request, b \in Int : Store!Dispatch(c, q, b)
           \/ \E w \in waiting : Store!LibraryResolved(w) \/ Store!LibraryFailed(w)
           \/ \E c \in Connections, d \in Designs, s \in Sessions,
                 k \in {"undo", "redo"}, b \in Int : Store!ReplayHistory(c, d, s, k, b)
           \/ \E a \in answers : Store!Deliver(a)
           \/ Store!Restart
           \/ UNCHANGED storeVars
    PROVE  SP!IInv'
<1>1. CASE \E c \in Connections, q \in Store!Request, b \in Int : Store!Dispatch(c, q, b)
  <2>1. PICK c \in Connections, q \in SP!Request, b \in Int : SP!Dispatch(c, q, b)
    BY <1>1, RequestsAre, StoreIsStore
  <2> QED BY <2>1, StoreAssumed, SP!DispatchKeeps
<1>2. CASE \E w \in waiting : Store!LibraryResolved(w) \/ Store!LibraryFailed(w)
  <2>1. PICK w \in waiting : SP!LibraryResolved(w) \/ SP!LibraryFailed(w)
    BY <1>2, StoreIsStore
  <2> QED BY <2>1, StoreAssumed, SP!LibraryKeeps
<1>3. CASE \E c \in Connections, d \in Designs, s \in Sessions,
              k \in {"undo", "redo"}, b \in Int : Store!ReplayHistory(c, d, s, k, b)
  <2>1. PICK c \in Connections, d \in Designs, s \in Sessions, k \in {"undo", "redo"},
             b \in Int : SP!ReplayHistory(c, d, s, k, b)
    BY <1>3, StoreIsStore
  <2> QED BY <2>1, StoreAssumed, SP!ReplayHistoryKeeps
<1>4. waiting \subseteq SP!Call /\ answers \subseteq SP!Answer
  BY DEF SP!IInv, SP!TypeOK
<1>5. CASE (\E a \in answers : Store!Deliver(a)) \/ Store!Restart \/ UNCHANGED storeVars
  <2>1. /\ UNCHANGED <<head, doc, view, log, histories, trail>>
        /\ waiting' \subseteq SP!Call /\ answers' \subseteq SP!Answer
    BY <1>4, <1>5 DEF Store!Deliver, Store!Restart, storeVars
  <2> QED BY <2>1, StoreAssumed, SP!QuietKeeps
<1> QED BY <1>1, <1>2, <1>3, <1>5

-----------------------------------------------------------------------------
(* One lane: the ids rise from its head to its end. *)

\* q becomes p by a command n + 1 for input i; b and o remember it.
Longer(q, p, b, o, bb, oo, n, i) ==
    /\ Len(p) = Len(q) + 1
    /\ \A k \in 1..Len(q) : p[k] = q[k]
    /\ p[Len(q) + 1].id = n + 1 /\ p[Len(q) + 1].input = i
    /\ \A m \in 1..n : bb[m] = b[m] /\ oo[m] = o[m] /\ b[m] \in Nat /\ b[m] < m
    /\ bb[n + 1] = IF Len(q) = 0 THEN 0 ELSE q[Len(q)].id
    /\ oo[n + 1] = i

\* A new command goes to the end of its lane ...
LEMMA LanePush ==
    ASSUME NEW q, NEW p, NEW b, NEW o, NEW bb, NEW oo, NEW n \in Nat, NEW i,
           Len(q) \in Nat, Lane(q, b, o, n), Longer(q, p, b, o, bb, oo, n, i)
    PROVE  Lane(p, bb, oo, n + 1)
<1>0. /\ Len(p) = Len(q) + 1
      /\ \A k \in 1..Len(q) : p[k] = q[k]
      /\ \A m \in 1..n : bb[m] = b[m] /\ oo[m] = o[m] /\ b[m] \in Nat /\ b[m] < m
  BY DEF Longer
<1>a. /\ p[Len(q) + 1].id = n + 1 /\ p[Len(q) + 1].input = i /\ oo[n + 1] = i
  BY DEF Longer
<1>b. bb[n + 1] = IF Len(q) = 0 THEN 0 ELSE q[Len(q)].id
  BY DEF Longer
<1> SUFFICES ASSUME NEW k \in 1..Len(p)
             PROVE  /\ p[k].id \in 1..(n + 1) /\ oo[p[k].id] = p[k].input
                    /\ \A j \in 1..Len(p) : j < k => p[j].id < p[k].id
                    /\ k > 1 => bb[p[k].id] = p[k - 1].id
                    /\ \A m \in 1..(n + 1) : bb[m] = p[k].id =>
                          k < Len(p) /\ m = p[k + 1].id
  BY DEF Lane
<1>1. \A j \in 1..Len(q) : q[j].id \in 1..n
  BY DEF Lane
<1>2. CASE k \in 1..Len(q)
  <2>1. p[k] = q[k] /\ q[k].id \in 1..n
    BY <1>0, <1>1, <1>2
  <2>2. oo[p[k].id] = p[k].input
    BY <1>0, <1>2, <2>1 DEF Lane
  <2>3. ASSUME NEW j \in 1..Len(p), j < k PROVE p[j].id < p[k].id
    <3>1. j \in 1..Len(q) /\ p[j] = q[j]
      BY <1>0, <1>2, <2>3
    <3>2. q[j].id < q[k].id
      BY <1>2, <2>3, <3>1 DEF Lane
    <3> QED BY <2>1, <3>1, <3>2
  <2>4. ASSUME k > 1 PROVE bb[p[k].id] = p[k - 1].id
    <3>1. b[q[k].id] = q[k - 1].id
      BY <1>2, <2>4 DEF Lane
    <3>2. p[k - 1] = q[k - 1]
      <4>1. k - 1 \in 1..Len(q)
        BY <1>2, <2>4
      <4> QED BY <1>0, <4>1
    <3>3. bb[q[k].id] = b[q[k].id]
      BY <1>0, <2>1
    <3> QED BY <2>1, <3>1, <3>2, <3>3
  <2>5. ASSUME NEW m \in 1..(n + 1), bb[m] = p[k].id
        PROVE  k < Len(p) /\ m = p[k + 1].id
    <3>1. CASE m = n + 1
      <4>1. Len(q) \in 1..Len(q) /\ q[Len(q)].id = q[k].id
        BY <1>0, <1>b, <1>2, <2>1, <2>5, <3>1
      <4>2. k = Len(q)
        BY <1>0, <1>2, <1>1, <4>1 DEF Lane
      <4> QED BY <1>0, <1>a, <3>1, <4>2
    <3>2. CASE m \in 1..n
      <4>1. b[m] = q[k].id
        BY <1>0, <2>1, <2>5, <3>2
      <4>2. k < Len(q) /\ m = q[k + 1].id
        BY <1>0, <1>2, <3>2, <4>1 DEF Lane
      <4>3. k + 1 \in 1..Len(q)
        BY <1>0, <1>2, <4>2
      <4> QED BY <1>0, <1>2, <4>2, <4>3
    <3> QED BY <3>1, <3>2
  <2> QED BY <2>1, <2>2, <2>3, <2>4, <2>5
<1>3. CASE k = Len(q) + 1
  <2>1. p[k].id = n + 1 /\ oo[p[k].id] = p[k].input
    BY <1>a, <1>0, <1>3
  <2>2. ASSUME NEW j \in 1..Len(p), j < k PROVE p[j].id < p[k].id
    BY <1>0, <1>1, <1>3, <2>1, <2>2
  <2>3. ASSUME k > 1 PROVE bb[p[k].id] = p[k - 1].id
    BY <1>0, <1>a, <1>b, <1>3, <2>1, <2>3
  <2>4. ASSUME NEW m \in 1..(n + 1) PROVE bb[m] # p[k].id
    <3>1. CASE m = n + 1
      BY <1>1, <1>b, <2>1, <3>1
    <3>2. CASE m \in 1..n
      BY <1>0, <2>1, <3>2
    <3> QED BY <3>1, <3>2
  <2> QED BY <2>1, <2>2, <2>3, <2>4
<1> QED BY <1>0, <1>2, <1>3

\* ... and leaves the other lanes as they were.
LEMMA LaneBeside ==
    ASSUME NEW q, NEW b, NEW o, NEW bb, NEW oo, NEW n \in Nat,
           Lane(q, b, o, n),
           \A m \in 1..n : bb[m] = b[m] /\ oo[m] = o[m],
           \A k \in 1..Len(q) : q[k].id # bb[n + 1]
    PROVE  Lane(q, bb, oo, n + 1)
  BY DEF Lane

\* Without its head a lane is still in order.
LEMMA LanePop ==
    ASSUME NEW q, NEW p, NEW b, NEW o, NEW n \in Nat,
           Len(q) \in Nat, Len(q) > 0, Len(p) = Len(q) - 1, Lane(q, b, o, n),
           \A k \in 1..(Len(q) - 1) : p[k] = q[k + 1]
    PROVE  Lane(p, b, o, n)
<1> SUFFICES ASSUME NEW k \in 1..Len(p)
             PROVE  /\ p[k].id \in 1..n /\ o[p[k].id] = p[k].input
                    /\ \A j \in 1..Len(p) : j < k => p[j].id < p[k].id
                    /\ k > 1 => b[p[k].id] = p[k - 1].id
                    /\ \A m \in 1..n : b[m] = p[k].id => k < Len(p) /\ m = p[k + 1].id
  BY DEF Lane
<1>1. k + 1 \in 1..Len(q) /\ p[k] = q[k + 1]
  OBVIOUS
<1>2. p[k].id \in 1..n /\ o[p[k].id] = p[k].input
  BY <1>1 DEF Lane
<1>3. ASSUME NEW j \in 1..Len(p), j < k PROVE p[j].id < p[k].id
  <2>1. j + 1 \in 1..Len(q) /\ j + 1 < k + 1 /\ p[j] = q[j + 1]
    BY <1>3
  <2> QED BY <1>1, <2>1 DEF Lane
<1>4. ASSUME k > 1 PROVE b[p[k].id] = p[k - 1].id
  <2>1. p[k - 1] = q[k] /\ k + 1 > 1 /\ (k + 1) - 1 = k
    BY <1>4
  <2> QED BY <1>1, <2>1 DEF Lane
<1>5. ASSUME NEW m \in 1..n, b[m] = p[k].id PROVE k < Len(p) /\ m = p[k + 1].id
  <2> DEFINE j == k + 1
  <2>1. j \in 1..Len(q) /\ p[k] = q[j] /\ b[m] = q[j].id
    BY <1>1, <1>5
  <2> HIDE DEF j
  <2>2. j < Len(q) /\ m = q[j + 1].id
    BY <2>1 DEF Lane
  <2>3. k < Len(p) /\ k + 1 \in 1..(Len(q) - 1)
    BY <2>2 DEF j
  <2>4. p[k + 1] = q[j + 1]
    BY <2>3 DEF j
  <2> QED BY <2>2, <2>3, <2>4
<1> QED BY <1>2, <1>3, <1>4, <1>5

\* Lanes share no command.
LEMMA LanesApart ==
    ASSUME QP!LInv, Lanes, NEW d \in Designs, NEW e \in Designs,
           NEW k \in 1..Len(tail[d]), NEW l \in 1..Len(tail[e]),
           tail[d][k].id = tail[e][l].id
    PROVE  d = e /\ k = l
<1>1. tail[d][k].input = tail[e][l].input
  BY DEF Lanes, Lane
<1>2. \A f, g \in Designs : \A j \in 1..Len(tail[f]), m \in 1..Len(tail[g]) :
          tail[f][j].input = tail[g][m].input => f = g /\ j = m
  BY QueueFacts
<1> QED BY <1>1, <1>2

-----------------------------------------------------------------------------
(* What happens to a lane. *)

Pushed(d, i) ==
    /\ issued < MaxCommands /\ issued' = issued + 1
    /\ \A e \in Designs \ {d} : tail'[e] = tail[e]
    /\ Len(tail'[d]) = Len(tail[d]) + 1
    /\ \A k \in 1..Len(tail[d]) : tail'[d][k] = tail[d][k]
    /\ tail'[d][Len(tail[d]) + 1].id = issued + 1
    /\ tail'[d][Len(tail[d]) + 1].input = i

Popped(d) ==
    /\ tail[d] # <<>>
    /\ \A e \in Designs \ {d} : tail'[e] = tail[e] /\ running'[e] = running[e]
    /\ Len(tail'[d]) = Len(tail[d]) - 1
    /\ \A k \in 1..(Len(tail[d]) - 1) : tail'[d][k] = tail[d][k + 1]
    /\ ~running'[d]

\* enqueue() adds one task at the end.
LEMMA PushFacts ==
    ASSUME QP!LInv, NEW d \in Designs, NEW i \in Inputs, NEW b \in BOOLEAN,
           Queue!Enqueue(d, i, b)
    PROVE  Pushed(d, i)
<1> DEFINE t == [id |-> issued + 1, input |-> i, reviewed |-> b]
<1>1. issued \in Nat /\ tail \in [Designs -> Seq(QP!Task)]
  BY QueueFacts
<1>2. t \in QP!Task /\ t.id = issued + 1 /\ t.input = i
  BY <1>1 DEF QP!Task
<1>3. /\ issued < MaxCommands /\ issued' = issued + 1
      /\ tail' = [tail EXCEPT ![d] = Append(tail[d], t)]
  BY DEF Queue!Enqueue
<1> HIDE DEF t
<1>4. tail'[d] = Append(tail[d], t) /\ \A e \in Designs \ {d} : tail'[e] = tail[e]
  BY <1>1, <1>3
<1>5. /\ Len(tail'[d]) = Len(tail[d]) + 1 /\ tail'[d][Len(tail[d]) + 1] = t
      /\ \A k \in 1..Len(tail[d]) : tail'[d][k] = tail[d][k]
  <2>1. tail[d] \in Seq(QP!Task)
    BY <1>1
  <2> QED BY <1>2, <1>4, <2>1, BoundsAssumption, QP!AppendFacts DEF Revisions
<1> QED BY <1>2, <1>3, <1>4, <1>5 DEF Pushed

\* `finally` takes the head off the lane and frees it.
LEMMA PopFacts ==
    ASSUME QP!LInv, NEW d \in Designs, tail[d] # <<>>, Queue!Dequeue(d)
    PROVE  Popped(d)
<1>1. /\ tail \in [Designs -> Seq(QP!Task)] /\ running \in [Designs -> BOOLEAN]
  BY QueueFacts
<1>2. /\ tail'[d] = Tail(tail[d]) /\ running'[d] = FALSE
      /\ \A e \in Designs \ {d} : tail'[e] = tail[e] /\ running'[e] = running[e]
  BY <1>1 DEF Queue!Dequeue
<1>3. tail[d] \in Seq(QP!Task)
  BY <1>1
<1>4. Len(Tail(tail[d])) = Len(tail[d]) - 1
  BY <1>3
<1>5. \A k \in 1..(Len(tail[d]) - 1) : Tail(tail[d])[k] = tail[d][k + 1]
  BY <1>3
<1> QED BY <1>2, <1>4, <1>5 DEF Popped

\* An edit that was made once is known to the window for ever.
LEMMA KnownPush ==
    ASSUME QP!LInv, NEW d \in Designs, NEW i \in Inputs, Pushed(d, i), UNCHANGED settled,
           \A e \in Designs : \A r \in retained[e] : r \in retained'[e] \/ r.input = i
    PROVE  /\ Recorded(i, settled', tail', retained')
           /\ \A j : Recorded(j, settled, tail, retained) =>
                        Recorded(j, settled', tail', retained')
<1>1. Len(tail[d]) \in Nat
  BY TaskFacts
<1>2. Len(tail[d]) + 1 \in 1..Len(tail'[d])
  BY <1>1 DEF Pushed
<1>3. Recorded(i, settled', tail', retained')
  BY <1>2 DEF Recorded, Pushed
<1>4. ASSUME NEW j, NEW e \in Designs, NEW k \in 1..Len(tail[e]), tail[e][k].input = j
      PROVE  \E k2 \in 1..Len(tail'[e]) : tail'[e][k2].input = j
  BY <1>1, <1>4 DEF Pushed
<1>5. ASSUME NEW j, Recorded(j, settled, tail, retained), j # i
      PROVE  Recorded(j, settled', tail', retained')
  BY <1>4, <1>5 DEF Recorded
<1> QED BY <1>3, <1>5

\* The head of a lane may go where the window remembers it.
LEMMA KnownPop ==
    ASSUME QP!LInv, NEW d \in Designs, Popped(d),
           Recorded(tail[d][1].input, settled', tail', retained'),
           \A e \in Designs : retained[e] \subseteq retained'[e],
           \A j \in Inputs : settled[j] # "none" => settled'[j] # "none"
    PROVE  \A j \in Inputs : Recorded(j, settled, tail, retained) =>
                                Recorded(j, settled', tail', retained')
<1>1. Len(tail[d]) \in Nat
  BY TaskFacts
<1>2. ASSUME NEW j \in Inputs, NEW e \in Designs, NEW k \in 1..Len(tail[e]),
             tail[e][k].input = j
      PROVE  Recorded(j, settled', tail', retained')
  <2>3. CASE e # d
    <3>1. tail'[e] = tail[e]
      BY <2>3 DEF Popped
    <3> QED BY <1>2, <3>1 DEF Recorded
  <2>4. CASE e = d /\ k = 1
    <3>1. tail[d][1].input = j
      BY <1>2, <2>4
    <3> QED BY <3>1
  <2>5. CASE e = d /\ k # 1
    <3>1. k - 1 \in 1..(Len(tail[d]) - 1) /\ (k - 1) + 1 = k
      BY <1>1, <2>5
    <3>2. k - 1 \in 1..Len(tail'[d]) /\ tail'[d][k - 1] = tail[d][(k - 1) + 1]
      BY <3>1 DEF Popped
    <3>3. tail'[d][k - 1].input = j
      BY <1>2, <2>5, <3>1, <3>2
    <3> QED BY <3>2, <3>3 DEF Recorded
  <2> QED BY <2>3, <2>4, <2>5
<1> QED BY <1>2 DEF Recorded

-----------------------------------------------------------------------------
(* A command joins a lane: UserActs and Reapply. *)

Grows(d, i) ==
    /\ Pushed(d, i) /\ Remember(d, i)
    /\ UNCHANGED <<revision, running, settled, head, log, waiting, answers, trail,
                   step, base, link>>
    /\ \A e \in Designs : /\ retained'[e] \subseteq retained[e]
                          /\ \A r \in retained[e] : r \in retained'[e] \/ r.input = i
                          /\ review'[e].phase \in {"read", "refreshed"} => review'[e] = review[e]
    /\ review' \in [Designs -> Review]
    /\ \A n \in 1..issued : origin[n] = i => Void(n)
    /\ \A e \in Designs : \A k \in 1..Len(tail[e]) : tail[e][k].input # i

\* What is remembered of a new command, and of the earlier ones.
LEMMA RememberFacts ==
    ASSUME QP!LInv, Rest, Lanes, NEW d \in Designs, NEW i \in Inputs, Remember(d, i)
    PROVE  /\ behind' \in Seq(Nat) /\ origin' \in Seq(Inputs)
           /\ Len(behind') = issued + 1 /\ Len(origin') = issued + 1
           /\ \A n \in 1..issued : behind'[n] = behind[n] /\ origin'[n] = origin[n]
           /\ \A n \in 1..issued : behind[n] \in Nat /\ origin[n] \in Inputs
           /\ origin'[issued + 1] = i
           /\ behind'[issued + 1] = IF Len(tail[d]) = 0 THEN 0 ELSE tail[d][Len(tail[d])].id
           /\ issued \in Nat /\ behind'[issued + 1] \in 0..issued
<1> DEFINE p == IF tail[d] = <<>> THEN 0 ELSE tail[d][Len(tail[d])].id
<1>1. /\ issued \in Nat /\ tail[d] \in Seq(QP!Task) /\ Len(tail[d]) \in Nat
      /\ tail[d] = <<>> <=> Len(tail[d]) = 0
  BY QueueFacts, TaskFacts
<1>2. /\ behind \in Seq(Nat) /\ origin \in Seq(Inputs)
      /\ Len(behind) = issued /\ Len(origin) = issued
  BY DEF Rest, Lanes
<1>3. p \in 0..issued
  <2>1. CASE tail[d] = <<>>
    BY <1>1, <2>1
  <2>2. CASE tail[d] # <<>>
    <3>1. Len(tail[d]) \in 1..Len(tail[d])
      BY <1>1, <2>2
    <3>2. tail[d][Len(tail[d])].id \in 1..issued
      BY <3>1 DEF Lanes, Lane
    <3> QED BY <1>1, <2>2, <3>2
  <2> QED BY <2>1, <2>2
<1>4. p = IF Len(tail[d]) = 0 THEN 0 ELSE tail[d][Len(tail[d])].id
  BY <1>1
<1>5. behind' = Append(behind, p) /\ origin' = Append(origin, i)
  BY DEF Remember
<1> HIDE DEF p
<1>6. /\ behind' \in Seq(Nat) /\ Len(behind') = issued + 1 /\ behind'[issued + 1] = p
      /\ \A n \in 1..issued : behind'[n] = behind[n] /\ behind[n] \in Nat
  BY <1>1, <1>2, <1>3, <1>5
<1>7. /\ origin' \in Seq(Inputs) /\ Len(origin') = issued + 1 /\ origin'[issued + 1] = i
      /\ \A n \in 1..issued : origin'[n] = origin[n] /\ origin[n] \in Inputs
  BY <1>1, <1>2, <1>5
<1> QED BY <1>1, <1>3, <1>4, <1>6, <1>7

\* The lane stays in order: the new id is the highest.
LEMMA GrowLanes ==
    ASSUME QP!LInv, Rest, Lanes, NEW d \in Designs, NEW i \in Inputs, Grows(d, i)
    PROVE  Lanes'
<1>1. /\ Len(behind') = issued + 1 /\ Len(origin') = issued + 1
      /\ \A n \in 1..issued : behind'[n] = behind[n] /\ origin'[n] = origin[n]
      /\ \A n \in 1..issued : behind[n] \in Nat /\ origin[n] \in Inputs
      /\ origin'[issued + 1] = i
      /\ behind'[issued + 1] = IF Len(tail[d]) = 0 THEN 0 ELSE tail[d][Len(tail[d])].id
      /\ issued \in Nat /\ behind'[issued + 1] \in 0..issued
  BY RememberFacts DEF Grows
<1>2. /\ Pushed(d, i) /\ issued' = issued + 1 /\ issued < MaxCommands
      /\ \A e \in Designs : retained'[e] \subseteq retained[e]
  BY DEF Grows, Pushed
<1>3. Len(origin') = issued' /\ Len(behind') = issued' /\ issued' <= MaxCommands
  BY <1>1, <1>2, BoundsAssumption
<1>4. /\ Recorded(i, settled', tail', retained')
      /\ \A j : Recorded(j, settled, tail, retained) => Recorded(j, settled', tail', retained')
  <2>1. UNCHANGED settled /\ \A e \in Designs : \A r \in retained[e] : r \in retained'[e] \/ r.input = i
    BY DEF Grows
  <2> QED BY ONLY QP!LInv, <1>2, <2>1, KnownPush, d \in Designs, i \in Inputs
<1>5. ASSUME NEW n \in 1..(issued + 1)
      PROVE  behind'[n] < n /\ Recorded(origin'[n], settled', tail', retained')
  <2>1. CASE n = issued + 1
    BY <1>1, <1>4, <2>1
  <2>2. CASE n \in 1..issued
    <3>1. behind[n] < n /\ Recorded(origin[n], settled, tail, retained)
      BY <2>2 DEF Lanes
    <3> QED BY <1>1, <1>4, <2>2, <3>1
  <2> QED BY <1>1, <2>1, <2>2
<1>6. ASSUME NEW e \in Designs PROVE Lane(tail'[e], behind', origin', issued + 1)
  <2>1. Lane(tail[e], behind, origin, issued) /\ Lane(tail[d], behind, origin, issued)
    BY DEF Lanes
  <2>2. Len(tail[d]) \in Nat /\ \A m \in 1..issued : behind[m] < m
    BY TaskFacts DEF Lanes
  <2>3. CASE e = d
    <3>1. /\ Len(tail'[d]) = Len(tail[d]) + 1
          /\ \A k \in 1..Len(tail[d]) : tail'[d][k] = tail[d][k]
          /\ tail'[d][Len(tail[d]) + 1].id = issued + 1
          /\ tail'[d][Len(tail[d]) + 1].input = i
      BY <1>2 DEF Pushed
    <3>2. Lane(tail'[d], behind', origin', issued + 1)
      <4>1. Longer(tail[d], tail'[d], behind, origin, behind', origin', issued, i)
        BY <1>1, <2>2, <3>1 DEF Longer
      <4> QED BY ONLY <1>1, <2>1, <2>2, <4>1, LanePush
    <3> QED BY <2>3, <3>2
  <2>4. CASE e # d
    <3>1. tail'[e] = tail[e]
      BY <1>2, <2>4 DEF Pushed
    <3>2. ASSUME NEW k \in 1..Len(tail[e]) PROVE tail[e][k].id # behind'[issued + 1]
      <4>1. CASE Len(tail[d]) = 0
        <5>1. tail[e][k].id \in 1..issued
          BY <2>1 DEF Lane
        <5> QED BY <1>1, <4>1, <5>1
      <4>2. CASE Len(tail[d]) # 0
        <5>1. Len(tail[d]) \in 1..Len(tail[d])
          BY <2>2, <4>2
        <5>2. tail[e][k].id # tail[d][Len(tail[d])].id
          BY <2>4, <5>1, LanesApart
        <5> QED BY <1>1, <4>2, <5>2
      <4> QED BY <4>1, <4>2
    <3>3. Lane(tail[e], behind', origin', issued + 1)
      BY ONLY <1>1, <2>1, <3>2, LaneBeside
    <3> QED BY <3>1, <3>3
  <2> QED BY <2>3, <2>4
<1>7. ASSUME NEW e \in Designs, NEW r \in retained'[e]
      PROVE  r.id \in 1..(issued + 1) /\ origin'[r.id] = r.input
  <2>1. r \in retained[e]
    BY <1>2
  <2>2. r.id \in 1..issued /\ origin[r.id] = r.input
    BY <2>1 DEF Lanes
  <2> QED BY <1>1, <2>2
<1> QED BY <1>2, <1>3, <1>5, <1>6, <1>7 DEF Lanes

\* The sender is not concerned.
LEMMA GrowSenders ==
    ASSUME QP!LInv, Rest, Senders, NEW d \in Designs, NEW i \in Inputs, Grows(d, i)
    PROVE  Senders'
<1>1. /\ UNCHANGED <<revision, running, step, base, link, head>>
      /\ \A e \in Designs : review'[e].phase \in {"read", "refreshed"} => review'[e] = review[e]
  BY DEF Grows
<1>2. ASSUME NEW e \in Designs, step[e] \in Merging PROVE tail'[e][1] = tail[e][1]
  <2>1. running[e]
    BY <1>2 DEF Senders, Merging
  <2>2. 1 \in 1..Len(tail[e])
    BY <2>1, QueueFacts, TaskFacts
  <2> QED BY <2>2 DEF Grows, Pushed
<1> QED BY <1>1, <1>2 DEF Senders

\* Nor is the backend, or the head of a lane that runs.
LEMMA GrowCalls ==
    ASSUME QP!LInv, Rest, SP!IInv, Alive, Lanes, Senders, Calls, SentOnce,
           NEW d \in Designs, NEW i \in Inputs, Grows(d, i)
    PROVE  Calls'
<1>1. /\ UNCHANGED <<head, log, waiting, answers, trail, step, base, link, running>>
      /\ acks' = acks
  BY DEF Grows, Remember
<1>2. ASSUME NEW e \in Designs, running[e] PROVE tail'[e][1] = tail[e][1]
  <2>2. 1 \in 1..Len(tail[e])
    BY <1>2, QueueFacts, TaskFacts
  <2> QED BY <2>2 DEF Grows, Pushed
<1>3. ASSUME NEW e \in Designs, link[e] \in Connections PROVE tail'[e][1] = tail[e][1]
  <2>1. running[e]
    BY <1>3, ConnectionsAssumption DEF Senders, Linking
  <2> QED BY <1>2, <2>1
<1>4. OneEach'
  BY <1>1 DEF OneEach, Calls
<1>5. OwnCalls'
  BY <1>1, <1>2 DEF OwnCalls, Calls, Store!Logged
<1>6. \A w \in waiting : w.conn \in Connections
  BY StoreFacts
<1>7. \A a \in answers : a.conn \in Connections
  BY StoreFacts
<1>8. LinkedCalls'
  BY <1>1, <1>3, <1>6 DEF LinkedCalls, Calls
<1>9. LinkedAnswers'
  BY <1>1, <1>3, <1>7 DEF LinkedAnswers, Calls, Void
<1> QED BY <1>4, <1>5, <1>8, <1>9 DEF Calls

\* The new command was never sent.
LEMMA GrowSent ==
    ASSUME QP!LInv, SP!IInv, Alive, Lanes, SentOnce,
           NEW d \in Designs, NEW i \in Inputs, Grows(d, i)
    PROVE  SentOnce'
<1>1. UNCHANGED <<log, waiting, step>> /\ Seen' = Seen
  BY DEF Grows, Seen
<1>2. /\ issued \in Nat /\ issued' = issued + 1 /\ Pushed(d, i)
      /\ \A e \in Designs : Len(tail[e]) \in Nat
  BY QueueFacts, TaskFacts DEF Grows, Pushed
<1>3. ASSUME NEW e \in Designs, NEW k \in 1..Len(tail'[e])
      PROVE  \/ k \in 1..Len(tail[e]) /\ tail'[e][k] = tail[e][k]
             \/ tail'[e][k].id = issued + 1
  <2>1. CASE e # d
    BY <1>2, <2>1 DEF Pushed
  <2>2. CASE e = d
    <3>1. k \in 1..Len(tail[d]) \/ k = Len(tail[d]) + 1
      BY <1>2, <2>2 DEF Pushed
    <3> QED BY <1>2, <2>2, <3>1 DEF Pushed
  <2> QED BY <2>1, <2>2
<1> SUFFICES ASSUME NEW q \in Seen, Own(q) # 0
             PROVE  /\ Own(q) <= issued'
                    /\ \A k \in 1..Len(tail'[q.design]) : Own(q) <= tail'[q.design][k].id
                    /\ \A e \in Designs : \A k \in 1..Len(tail'[e]) : tail'[e][k].id = Own(q) =>
                          /\ e = q.design /\ k = 1
                          /\ step'[e] \in {"awaiting", "asking", "resending", "reawaiting"}
                          /\ q.id # Own(q) => step'[e] = "reawaiting"
  BY <1>1 DEF SentOnce
<1>4. /\ Own(q) <= issued /\ Own(q) \in Nat /\ q.design \in Designs
      /\ \A k \in 1..Len(tail[q.design]) : Own(q) <= tail[q.design][k].id
      /\ \A e \in Designs : \A k \in 1..Len(tail[e]) : tail[e][k].id = Own(q) =>
            /\ e = q.design /\ k = 1
            /\ step[e] \in {"awaiting", "asking", "resending", "reawaiting"}
            /\ q.id # Own(q) => step[e] = "reawaiting"
  BY StoreFacts DEF SentOnce
<1>5. ASSUME NEW k \in 1..Len(tail'[q.design]) PROVE Own(q) <= tail'[q.design][k].id
  BY <1>2, <1>3, <1>4
<1>6. ASSUME NEW e \in Designs, NEW k \in 1..Len(tail'[e]), tail'[e][k].id = Own(q)
      PROVE  /\ e = q.design /\ k = 1
             /\ step'[e] \in {"awaiting", "asking", "resending", "reawaiting"}
             /\ q.id # Own(q) => step'[e] = "reawaiting"
  <2>1. k \in 1..Len(tail[e]) /\ tail[e][k].id = Own(q)
    BY <1>2, <1>3, <1>4, <1>6
  <2> QED BY <1>1, <1>4, <2>1
<1> QED BY <1>2, <1>4, <1>5, <1>6

\* Of the earlier commands of its edit none took effect.
LEMMA GrowTries ==
    ASSUME QP!LInv, SP!IInv, Alive, Rest, Lanes, Senders, Tries, SentOnce,
           NEW d \in Designs, NEW i \in Inputs, Grows(d, i)
    PROVE  Tries'
<1>1. /\ UNCHANGED <<settled, waiting, trail, step>> /\ issued' = issued + 1 /\ issued \in Nat
      /\ \A n : Void(n)' <=> Void(n)
  BY QueueFacts DEF Grows, Pushed, Void
<1>2. /\ \A n \in 1..issued : origin'[n] = origin[n] /\ origin[n] \in Inputs
      /\ origin'[issued + 1] = i
  BY RememberFacts DEF Grows
<1>3. Void(issued + 1)
  <2>1. \A q \in Seen : Own(q) # 0 => Own(q) <= issued /\ Own(q) \in Nat
    BY StoreFacts DEF SentOnce
  <2>2. ~UnderWay(waiting, issued + 1)
    BY <1>1, <2>1, StoreFacts DEF UnderWay
  <2>3. ~InDesign(trail, issued + 1)
    BY <1>1, <2>1, StoreFacts DEF InDesign
  <2> QED BY <2>2, <2>3 DEF Void
<1>4. \A n \in 1..issued : origin[n] = i => Void(n)
  BY DEF Grows
<1>5. \A n \in 1..(issued + 1) : n \in 1..issued \/ n = issued + 1
  BY <1>1
<1>6. OneTry'
  BY <1>1, <1>2, <1>3, <1>4, <1>5 DEF Tries, OneTry
<1>7. NotTried'
  <2> SUFFICES ASSUME NEW n \in 1..(issued + 1)
               PROVE  /\ \A e \in Designs : \A r \in retained'[e] :
                            r.state # "failed" /\ origin'[n] = r.input => Void(n)
                      /\ settled[origin'[n]] = "declined" => Void(n)
                      /\ \A e \in Designs : \A k \in 1..Len(tail'[e]) :
                            origin'[n] = tail'[e][k].input /\ n # tail'[e][k].id => Void(n)
    BY <1>1 DEF NotTried
  <2>1. CASE n = issued + 1
    BY <1>3, <2>1
  <2>2. CASE n \in 1..issued
    <3>1. origin'[n] = origin[n] /\ \A e \in Designs : retained'[e] \subseteq retained[e]
      BY <1>2, <2>2 DEF Grows
    <3>2. ASSUME NEW e \in Designs, NEW k \in 1..Len(tail'[e]),
                 origin[n] = tail'[e][k].input, n # tail'[e][k].id
          PROVE  Void(n)
      <4>1. \/ k \in 1..Len(tail[e]) /\ tail'[e][k] = tail[e][k]
            \/ tail'[e][k].input = i
        <5>1. Pushed(d, i) /\ Len(tail[d]) \in Nat
          BY TaskFacts DEF Grows
        <5>2. CASE e # d
          BY <5>1, <5>2 DEF Pushed
        <5>3. CASE e = d
          <6>1. k \in 1..Len(tail[d]) \/ k = Len(tail[d]) + 1
            BY <5>1, <5>3 DEF Pushed
          <6> QED BY <5>1, <5>3, <6>1 DEF Pushed
        <5> QED BY <5>2, <5>3
      <4> QED BY <1>4, <2>2, <3>2, <4>1 DEF Tries, NotTried
    <3> QED BY <2>2, <3>1, <3>2 DEF Tries, NotTried
  <2> QED BY <1>5, <2>1, <2>2
<1>8. NotYet'
  <2> SUFFICES ASSUME NEW e \in Designs, step[e] \in {"asking", "resending"}
               PROVE  Void(tail'[e][1].id)
    BY <1>1 DEF NotYet, Void
  <2>1. 1 \in 1..Len(tail[e])
    BY QueueFacts, TaskFacts DEF Senders
  <2>2. tail'[e][1] = tail[e][1]
    BY <2>1 DEF Grows, Pushed
  <2> QED BY <2>2 DEF Tries, NotYet
<1> QED BY <1>6, <1>7, <1>8 DEF Tries

\* It is behind the last of its lane and was not acknowledged.
LEMMA GrowAcks ==
    ASSUME QP!LInv, SP!IInv, Alive, Rest, Lanes, Acks,
           NEW d \in Designs, NEW i \in Inputs, Grows(d, i)
    PROVE  Acks'
<1>1. /\ UNCHANGED <<revision, trail, acks>> /\ issued' = issued + 1 /\ issued \in Nat
      /\ Pushed(d, i)
  BY QueueFacts DEF Grows, Pushed, Remember
<1>2. /\ \A n \in 1..issued : behind'[n] = behind[n]
      /\ behind'[issued + 1] = IF Len(tail[d]) = 0 THEN 0 ELSE tail[d][Len(tail[d])].id
  BY RememberFacts DEF Grows
<1>3. \A x \in acks : /\ x[1] \in 1..issued
                      /\ \A e \in Designs : \A k \in 1..Len(tail[e]) : tail[e][k].id # x[1]
  BY DEF Acks, LeftLane
<1>4. ASSUME NEW e \in Designs, NEW k \in 1..Len(tail'[e])
      PROVE  \/ k \in 1..Len(tail[e]) /\ tail'[e][k] = tail[e][k]
             \/ tail'[e][k].id = issued + 1 /\ e = d /\ k = Len(tail[d]) + 1
  BY <1>1, TaskFacts DEF Pushed
<1>5. LeftLane'
  BY <1>1, <1>3, <1>4 DEF LeftLane
<1>6. GoesOn'
  <2> SUFFICES ASSUME NEW e \in Designs, Len(tail'[e]) > 0, NEW x \in acks,
                      x[1] = behind'[tail'[e][1].id]
               PROVE  revision[e] = x[2]
    BY <1>1 DEF GoesOn
  <2>1. 1 \in 1..Len(tail'[e]) /\ Len(tail[d]) \in Nat
    BY <1>1, TaskFacts DEF Pushed
  <2>2. CASE 1 \in 1..Len(tail[e]) /\ tail'[e][1] = tail[e][1]
    <3>1. tail[e][1].id \in 1..issued
      BY <2>2 DEF Lanes, Lane
    <3>2. x[1] = behind[tail[e][1].id]
      BY <1>2, <2>2, <3>1
    <3>3. Len(tail[e]) > 0
      BY <2>2, TaskFacts
    <3> QED BY <3>2, <3>3 DEF Acks, GoesOn
  <2>3. CASE tail'[e][1].id = issued + 1 /\ e = d /\ 1 = Len(tail[d]) + 1
    <3>1. x[1] = 0
      BY <1>2, <2>1, <2>3
    <3> QED BY <1>3, <3>1
  <2> QED BY <1>4, <2>1, <2>2, <2>3
<1>7. NoSilentRebase'
  <2>1. \A x \in acks : behind'[x[1]] = behind[x[1]]
    BY <1>2, <1>3
  <2> QED BY <1>1, <2>1 DEF Acks, NoSilentRebase
<1>8. Knows'
  BY <1>1 DEF Acks, Knows
<1> QED BY <1>5, <1>6, <1>7, <1>8 DEF Acks

-----------------------------------------------------------------------------
(* The head of a lane leaves it: Cancel, Acknowledged, Rejected,            *)
(* UserDeclines and ConnectionLost.                                        *)

Shrinks(d) ==
    /\ Popped(d)
    /\ UNCHANGED <<issued, behind, origin, review, base, head, log, waiting, trail>>
    /\ answers' \subseteq answers
    /\ step' = [step EXCEPT ![d] = "idle"] /\ link' = [link EXCEPT ![d] = NoConnection]
    /\ \A e \in Designs \ {d} : revision'[e] = revision[e]
    /\ \/ acks' = acks /\ revision'[d] = revision[d]
       \/ /\ acks' = acks \cup {<<tail[d][1].id, revision'[d]>>}
          /\ step[d] \in Linking /\ revision'[d] \in {base[d], base[d] + 1}
          /\ revision'[d] <= head[d]
          /\ ~UnderWay(waiting, tail[d][1].id)
    /\ \A e \in Designs :
          /\ retained[e] \subseteq retained'[e]
          /\ \A r \in retained'[e] :
                \/ r \in retained[e]
                \/ /\ r.id = tail[d][1].id /\ r.input = tail[d][1].input
                   /\ r.state # "failed" => Void(tail[d][1].id)
    /\ \A j \in Inputs :
          \/ settled'[j] = settled[j]
          \/ j = tail[d][1].input /\ (settled'[j] = "declined" => Void(tail[d][1].id))
    /\ Recorded(tail[d][1].input, settled', tail', retained')

\* The head of the lane, and what the others and the rest of it keep.
LEMMA ShrinkFacts ==
    ASSUME QP!LInv, Lanes, NEW d \in Designs, Shrinks(d)
    PROVE  /\ 1 \in 1..Len(tail[d]) /\ Len(tail[d]) \in Nat
           /\ tail[d][1].id \in 1..issued /\ origin[tail[d][1].id] = tail[d][1].input
           /\ tail[d][1].input \in Inputs
           /\ \A e \in Designs \ {d} : tail'[e] = tail[e] /\ running'[e] = running[e]
           /\ Len(tail'[d]) = Len(tail[d]) - 1 /\ ~running'[d]
           /\ \A k \in 1..Len(tail'[d]) :
                 k + 1 \in 1..Len(tail[d]) /\ tail'[d][k] = tail[d][k + 1]
<1>1. Popped(d)
  BY DEF Shrinks
<1>2. 1 \in 1..Len(tail[d]) /\ Len(tail[d]) \in Nat /\ tail[d][1].input \in Inputs
  BY <1>1, TaskFacts DEF Popped
<1>3. tail[d][1].id \in 1..issued /\ origin[tail[d][1].id] = tail[d][1].input
  BY <1>2 DEF Lanes, Lane
<1> QED BY <1>1, <1>2, <1>3 DEF Popped

\* The rest of the lane is in order.
LEMMA ShrinkLanes ==
    ASSUME QP!LInv, Rest, Lanes, NEW d \in Designs, Shrinks(d)
    PROVE  Lanes'
<1>1. UNCHANGED <<issued, behind, origin>> /\ issued \in Nat
  BY QueueFacts DEF Shrinks
<1>2. /\ 1 \in 1..Len(tail[d]) /\ Len(tail[d]) \in Nat
      /\ tail[d][1].id \in 1..issued /\ origin[tail[d][1].id] = tail[d][1].input
      /\ tail[d][1].input \in Inputs
      /\ \A e \in Designs \ {d} : tail'[e] = tail[e]
      /\ Len(tail'[d]) = Len(tail[d]) - 1
      /\ \A k \in 1..(Len(tail[d]) - 1) : tail'[d][k] = tail[d][k + 1]
  BY ShrinkFacts
<1>3. \A j \in Inputs : Recorded(j, settled, tail, retained) =>
                           Recorded(j, settled', tail', retained')
  <2>1. Popped(d) /\ Recorded(tail[d][1].input, settled', tail', retained')
    BY DEF Shrinks
  <2>2. \A e \in Designs : retained[e] \subseteq retained'[e]
    BY DEF Shrinks
  <2>3. \A j \in Inputs : settled[j] # "none" => settled'[j] # "none"
    BY <1>2, QueueFacts DEF Shrinks
  <2> QED BY ONLY QP!LInv, <2>1, <2>2, <2>3, KnownPop, d \in Designs
<1>4. \A n \in 1..issued : origin[n] \in Inputs
  BY <1>1 DEF Rest, Lanes
<1>5. ASSUME NEW e \in Designs PROVE Lane(tail'[e], behind, origin, issued)
  <2>1. Lane(tail[e], behind, origin, issued) /\ Lane(tail[d], behind, origin, issued)
    BY DEF Lanes
  <2>2. Lane(tail'[d], behind, origin, issued)
    BY ONLY <1>1, <1>2, <2>1, LanePop
  <2> QED BY <1>2, <2>1, <2>2
<1>6. ASSUME NEW e \in Designs, NEW r \in retained'[e]
      PROVE  r.id \in 1..issued /\ origin[r.id] = r.input
  BY <1>2 DEF Shrinks, Lanes
<1> QED BY <1>1, <1>3, <1>4, <1>5, <1>6 DEF Lanes

\* Its sender is done.
LEMMA ShrinkSenders ==
    ASSUME QP!LInv, Rest, Alive, Lanes, Senders, NEW d \in Designs, Shrinks(d)
    PROVE  Senders'
<1>1. UNCHANGED <<review, base, head>>
  BY DEF Shrinks
<1>2. /\ step'[d] = "idle" /\ link'[d] = NoConnection /\ ~running'[d]
      /\ \A e \in Designs \ {d} : /\ step'[e] = step[e] /\ link'[e] = link[e]
                                  /\ running'[e] = running[e] /\ tail'[e] = tail[e]
                                  /\ revision'[e] = revision[e]
  BY ShrinkFacts DEF Shrinks, Rest
<1>3. revision'[d] <= head[d]
  BY DEF Shrinks, Senders
<1>4. ASSUME NEW e \in Designs
      PROVE  /\ running'[e] <=> step'[e] # "idle"
             /\ IF step'[e] \in Linking THEN link'[e] \in Connections ELSE link'[e] = NoConnection
             /\ \A f \in Designs : link'[e] = link'[f] /\ link'[e] # NoConnection => e = f
             /\ step'[e] = "reading" => revision'[e] = NoRevision
             /\ step'[e] \notin {"idle", "reading"} =>
                   base[e] \in 0..head[e] /\ revision'[e] \in {NoRevision, base[e]}
             /\ step'[e] \in Merging => ~IsHistory(tail'[e][1].input)
             /\ revision'[e] <= head[e]
             /\ review[e].phase \in {"read", "refreshed"} => review[e].revision \in 0..head[e]
  BY <1>2, <1>3 DEF Senders, Linking, Merging
<1> QED BY <1>1, <1>4 DEF Senders

\* No sender waits on its connection any more.
LEMMA ShrinkCalls ==
    ASSUME QP!LInv, SP!IInv, Alive, Rest, Lanes, Senders, Calls, NEW d \in Designs, Shrinks(d)
    PROVE  Calls'
<1>1. UNCHANGED <<base, head, log, waiting, trail>> /\ answers' \subseteq answers
  BY DEF Shrinks
<1>2. /\ link'[d] = NoConnection /\ ~running'[d]
      /\ \A e \in Designs \ {d} : /\ link'[e] = link[e]
                                  /\ running'[e] = running[e] /\ tail'[e] = tail[e]
  BY ShrinkFacts DEF Shrinks, Rest
<1>3. /\ \A w \in waiting : w.conn # NoConnection
      /\ \A a \in answers : a.conn # NoConnection
  BY StoreFacts, ConnectionsAssumption
<1>4. OneEach'
  BY <1>1 DEF OneEach, Calls
<1>5. \A w \in waiting : Own(w.request) # 0 => \A x \in acks' : x[1] # Own(w.request)
  BY DEF Shrinks, Calls, OwnCalls, UnderWay
<1>6. OwnCalls'
  BY <1>1, <1>2, <1>5 DEF OwnCalls, Calls, Store!Logged
<1>7. LinkedCalls'
  BY <1>1, <1>2, <1>3 DEF LinkedCalls, Calls
<1>8. LinkedAnswers'
  BY <1>1, <1>2, <1>3 DEF LinkedAnswers, Calls, Void
<1> QED BY <1>4, <1>6, <1>7, <1>8 DEF Calls

\* What is next in the lane was not sent yet.
LEMMA ShrinkSent ==
    ASSUME QP!LInv, SP!IInv, Alive, Rest, Lanes, SentOnce, NEW d \in Designs, Shrinks(d)
    PROVE  SentOnce'
<1>1. UNCHANGED <<issued, log, waiting>> /\ Seen' = Seen
  BY DEF Shrinks, Seen
<1>2. /\ \A e \in Designs \ {d} : tail'[e] = tail[e] /\ step'[e] = step[e]
      /\ \A k \in 1..Len(tail'[d]) :
            k + 1 \in 1..Len(tail[d]) /\ tail'[d][k] = tail[d][k + 1]
      /\ Len(tail'[d]) = Len(tail[d]) - 1 /\ Len(tail[d]) \in Nat
  BY ShrinkFacts DEF Shrinks, Rest
<1> SUFFICES ASSUME NEW q \in Seen, Own(q) # 0
             PROVE  /\ Own(q) <= issued
                    /\ \A k \in 1..Len(tail'[q.design]) : Own(q) <= tail'[q.design][k].id
                    /\ \A e \in Designs : \A k \in 1..Len(tail'[e]) : tail'[e][k].id = Own(q) =>
                          /\ e = q.design /\ k = 1
                          /\ step'[e] \in {"awaiting", "asking", "resending", "reawaiting"}
                          /\ q.id # Own(q) => step'[e] = "reawaiting"
  BY <1>1 DEF SentOnce
<1>4. /\ Own(q) <= issued /\ Own(q) \in Nat /\ q.design \in Designs
      /\ \A k \in 1..Len(tail[q.design]) : Own(q) <= tail[q.design][k].id
      /\ \A e \in Designs : \A k \in 1..Len(tail[e]) : tail[e][k].id = Own(q) =>
            /\ e = q.design /\ k = 1
            /\ step[e] \in {"awaiting", "asking", "resending", "reawaiting"}
            /\ q.id # Own(q) => step[e] = "reawaiting"
  BY StoreFacts DEF SentOnce
<1>5. ASSUME NEW k \in 1..Len(tail'[q.design]) PROVE Own(q) <= tail'[q.design][k].id
  <2>1. CASE q.design = d
    BY <1>2, <1>4, <2>1
  <2>2. CASE q.design # d
    <3>1. tail'[q.design] = tail[q.design]
      BY <1>2, <1>4, <2>2
    <3> QED BY <1>4, <3>1
  <2> QED BY <2>1, <2>2
<1>6. ASSUME NEW e \in Designs, NEW k \in 1..Len(tail'[e]), tail'[e][k].id = Own(q)
      PROVE  /\ e = q.design /\ k = 1
             /\ step'[e] \in {"awaiting", "asking", "resending", "reawaiting"}
             /\ q.id # Own(q) => step'[e] = "reawaiting"
  <2>1. CASE e = d
    <3>1. k \in Nat \ {0}
      BY <1>2, <2>1
    <3>2. k + 1 = 1
      BY <1>2, <1>4, <1>6, <2>1
    <3> QED BY <3>1, <3>2
  <2>2. CASE e # d
    BY <1>2, <1>4, <1>6, <2>2
  <2> QED BY <2>1, <2>2
<1> QED BY <1>4, <1>5, <1>6

\* If the edit is kept for another try, its command is void.
LEMMA ShrinkTries ==
    ASSUME QP!LInv, SP!IInv, Alive, Rest, Lanes, Senders, Tries, NEW d \in Designs, Shrinks(d)
    PROVE  Tries'
<1>1. UNCHANGED <<issued, origin, waiting, trail>> /\ \A n : Void(n)' <=> Void(n)
  BY DEF Shrinks, Void
<1>2. /\ 1 \in 1..Len(tail[d])
      /\ \A e \in Designs \ {d} : tail'[e] = tail[e]
      /\ \A k \in 1..Len(tail'[d]) :
            k + 1 \in 1..Len(tail[d]) /\ tail'[d][k] = tail[d][k + 1]
  BY ShrinkFacts
<1>3. OneTry'
  BY <1>1 DEF OneTry, Tries
<1>4. ASSUME NEW n \in 1..issued, origin[n] = tail[d][1].input, Void(tail[d][1].id)
      PROVE  Void(n)
  BY <1>2, <1>4 DEF Tries, NotTried
<1>5. NotTried'
  <2> SUFFICES ASSUME NEW n \in 1..issued
               PROVE  /\ \A e \in Designs : \A r \in retained'[e] :
                            r.state # "failed" /\ origin[n] = r.input => Void(n)
                      /\ settled'[origin[n]] = "declined" => Void(n)
                      /\ \A e \in Designs : \A k \in 1..Len(tail'[e]) :
                            origin[n] = tail'[e][k].input /\ n # tail'[e][k].id => Void(n)
    BY <1>1 DEF NotTried
  <2>1. ASSUME NEW e \in Designs, NEW r \in retained'[e], r.state # "failed", origin[n] = r.input
        PROVE  Void(n)
    <3>1. CASE r \in retained[e]
      BY <2>1, <3>1 DEF Tries, NotTried
    <3>2. CASE r \notin retained[e]
      BY <1>4, <2>1, <3>2 DEF Shrinks
    <3> QED BY <3>1, <3>2
  <2>2. ASSUME settled'[origin[n]] = "declined" PROVE Void(n)
    <3>1. origin[n] \in Inputs
      BY DEF Rest, Lanes
    <3>2. CASE settled'[origin[n]] = settled[origin[n]]
      BY <2>2, <3>2 DEF Tries, NotTried
    <3>3. CASE settled'[origin[n]] # settled[origin[n]]
      BY <1>4, <2>2, <3>1, <3>3 DEF Shrinks
    <3> QED BY <3>2, <3>3
  <2>3. ASSUME NEW e \in Designs, NEW k \in 1..Len(tail'[e]),
               origin[n] = tail'[e][k].input, n # tail'[e][k].id
        PROVE  Void(n)
    <3>1. \E l \in 1..Len(tail[e]) : tail'[e][k] = tail[e][l]
      BY <1>2
    <3> QED BY <2>3, <3>1 DEF Tries, NotTried
  <2> QED BY <2>1, <2>2, <2>3
<1>6. NotYet'
  <2>1. /\ step'[d] = "idle" /\ \A e \in Designs \ {d} : step'[e] = step[e]
    BY DEF Shrinks, Rest
  <2> QED BY <1>1, <1>2, <2>1 DEF NotYet, Tries, Void
<1> QED BY <1>3, <1>5, <1>6 DEF Tries

\* The command behind goes on from what was acknowledged, or is cancelled.
LEMMA ShrinkAcks ==
    ASSUME QP!LInv, SP!IInv, Alive, Rest, Lanes, Senders, SentOnce, Acks,
           NEW d \in Designs, Shrinks(d)
    PROVE  Acks'
<1> DEFINE t == tail[d][1].id
           n == revision'[d]
<1>1. UNCHANGED <<issued, behind, trail>>
  BY DEF Shrinks
<1>2. /\ 1 \in 1..Len(tail[d]) /\ Len(tail[d]) \in Nat
      /\ t \in 1..issued
      /\ \A e \in Designs \ {d} : tail'[e] = tail[e] /\ revision'[e] = revision[e]
      /\ Len(tail'[d]) = Len(tail[d]) - 1
      /\ \A k \in 1..Len(tail'[d]) :
            k + 1 \in 1..Len(tail[d]) /\ tail'[d][k] = tail[d][k + 1]
  BY ShrinkFacts DEF Shrinks
<1>3. /\ \A x \in acks' : x \in acks \/ x = <<t, n>>
      /\ <<t, n>> \in acks' \/ acks' = acks
  BY DEF Shrinks
<1>4. /\ \A x \in acks : /\ x[1] \in 1..issued /\ x[2] \in Nat
                       /\ \A e \in Designs : \A k \in 1..Len(tail[e]) : tail[e][k].id # x[1]
      /\ \A e \in Designs : Len(tail[e]) > 0 =>
            \A x \in acks : x[1] = behind[tail[e][1].id] => revision[e] = x[2]
      /\ \A x, y \in acks : behind[y[1]] = x[1] => y[2] \in {x[2], x[2] + 1}
      /\ \A e \in Designs : \A m \in OwnIn(trail[e]) :
            <<Mark(trail[e], m), m>> \in acks => m <= revision[e]
  BY DEF Acks, LeftLane, GoesOn, NoSilentRebase, Knows, Rest
\* Nothing stays in a lane under the id that left it.
<1>5. \A e \in Designs : \A k \in 1..Len(tail'[e]) : tail'[e][k].id # t
  <2> SUFFICES ASSUME NEW e \in Designs, NEW k \in 1..Len(tail'[e]), tail'[e][k].id = t
               PROVE  FALSE
    OBVIOUS
  <2>1. CASE e = d
    <3> DEFINE j == k + 1
    <3>0. k \in 1..Len(tail'[d]) /\ tail'[d][k].id = t /\ k \in Nat \ {0}
      BY <1>2, <2>1
    <3>1. j \in 1..Len(tail[d]) /\ tail[d][j].id = t /\ j # 1
      BY <1>2, <3>0
    <3> HIDE DEF j
    <3>2. 1 \in 1..Len(tail[d]) /\ tail[d][1].id = tail[d][j].id
      BY <1>2, <3>1
    <3>3. 1 = j
      BY ONLY QP!LInv, Lanes, <3>1, <3>2, d \in Designs, LanesApart
    <3> QED BY <3>1, <3>3
  <2>2. CASE e # d
    <3>1. tail'[e] = tail[e]
      BY <1>2, <2>2
    <3>2. \A l \in 1..Len(tail[e]) : tail[d][1].id = tail[e][l].id => d = e
      BY ONLY QP!LInv, Lanes, <1>2, d \in Designs, e \in Designs, LanesApart
    <3> QED BY <2>2, <3>1, <3>2
  <2> QED BY <2>1, <2>2
<1>6. LeftLane'
  <2> SUFFICES ASSUME NEW x \in acks'
               PROVE  /\ x[1] \in 1..issued
                      /\ \A e \in Designs : \A k \in 1..Len(tail'[e]) : tail'[e][k].id # x[1]
    BY <1>1 DEF LeftLane
  <2>1. CASE x = <<t, n>>
    BY <1>2, <1>5, <2>1
  <2>2. CASE x \in acks
    <3>1. ASSUME NEW e \in Designs, NEW k \in 1..Len(tail'[e])
          PROVE  \E l \in 1..Len(tail[e]) : tail'[e][k] = tail[e][l]
      BY <1>2
    <3>2. /\ x[1] \in 1..issued
          /\ \A e \in Designs : \A l \in 1..Len(tail[e]) : tail[e][l].id # x[1]
      BY <1>4, <2>2
    <3>3. ASSUME NEW e \in Designs, NEW k \in 1..Len(tail'[e]) PROVE tail'[e][k].id # x[1]
      <4>1. PICK l \in 1..Len(tail[e]) : tail'[e][k] = tail[e][l]
        BY <3>1
      <4>2. tail[e][l].id # x[1]
        BY <3>2
      <4> QED BY <4>1, <4>2
    <3> QED BY <3>2, <3>3
  <2> QED BY <1>3, <2>1, <2>2

\* Who is behind the id that left is now the head of the lane.
<1>7. ASSUME NEW m \in 1..issued, behind[m] = t
      PROVE  1 \in 1..Len(tail'[d]) /\ m = tail'[d][1].id
  <2>1. 1 < Len(tail[d]) /\ m = tail[d][1 + 1].id
    BY <1>2, <1>7 DEF Lanes, Lane
  <2> QED BY <1>2, <2>1
<1>8. ASSUME NEW e \in Designs, Len(tail'[e]) > 0
      PROVE  /\ tail'[e][1].id \in 1..issued
             /\ e = d => behind[tail'[e][1].id] = t
             /\ behind[tail'[e][1].id] = t => e = d
  <2>1. CASE e = d
    <3>1. 1 \in 1..Len(tail'[d]) /\ 2 \in 1..Len(tail[d]) /\ tail'[d][1] = tail[d][2]
      BY <1>2, <1>8, <2>1
    <3>2. tail[d][2].id \in 1..issued /\ behind[tail[d][2].id] = tail[d][2 - 1].id
      BY <3>1 DEF Lanes, Lane
    <3> QED BY <2>1, <3>1, <3>2
  <2>2. CASE e # d
    <3>1. tail'[e] = tail[e] /\ 1 \in 1..Len(tail[e])
      BY <1>2, <1>8, <2>2, TaskFacts
    <3>2. tail[e][1].id \in 1..issued
      BY <3>1 DEF Lanes, Lane
    <3>3. ASSUME behind[tail[e][1].id] = t PROVE FALSE
      <4>1. 1 < Len(tail[d]) /\ tail[e][1].id = tail[d][1 + 1].id
        BY <1>2, <3>2, <3>3 DEF Lanes, Lane
      <4>2. 2 \in 1..Len(tail[d]) /\ tail[e][1].id = tail[d][2].id
        BY <1>2, <4>1
      <4>3. e = d
        BY ONLY QP!LInv, Lanes, <3>1, <4>2, d \in Designs, e \in Designs, LanesApart
      <4> QED BY <2>2, <4>3
    <3> QED BY <2>2, <3>1, <3>2, <3>3
  <2> QED BY <2>1, <2>2
<1>9. GoesOn'
  <2> SUFFICES ASSUME NEW e \in Designs, Len(tail'[e]) > 0, NEW x \in acks',
                      x[1] = behind[tail'[e][1].id]
               PROVE  revision'[e] = x[2]
    BY <1>1 DEF GoesOn
  <2>1. CASE x = <<t, n>>
    BY <1>8, <2>1
  <2>2. CASE x \in acks
    <3>1. x[1] # t
      BY <1>2, <1>4, <2>2
    <3>2. e # d /\ tail'[e] = tail[e] /\ revision'[e] = revision[e]
      BY <1>2, <1>8, <3>1
    <3> QED BY <1>4, <2>2, <3>2
  <2> QED BY <1>3, <2>1, <2>2
\* What is recorded now, if anything is.
<1>10. \/ acks' = acks /\ n = revision[d]
       \/ n \in {base[d], base[d] + 1} /\ base[d] \in Nat
          /\ revision[d] \in {NoRevision, base[d]}
  BY DEF Shrinks, Senders, Linking, Alive
<1>11. NoSilentRebase'
  <2> SUFFICES ASSUME NEW x \in acks', NEW y \in acks', behind[y[1]] = x[1]
               PROVE  y[2] \in {x[2], x[2] + 1}
    BY <1>1 DEF NoSilentRebase
  <2>1. CASE x \in acks /\ y \in acks
    BY <1>4, <2>1
  <2>2. CASE x = <<t, n>> /\ y \in acks
    BY <1>4, <1>5, <1>7, <2>2, <1>6 DEF LeftLane
  <2>3. CASE x = <<t, n>> /\ y = <<t, n>>
    <3>1. behind[t] < t
      BY <1>2 DEF Lanes
    <3> QED BY <1>2, <2>3, <3>1
  <2>4. CASE x \in acks /\ y = <<t, n>> /\ y \notin acks
    <3>1. revision[d] = x[2] /\ x[2] \in Nat
      BY <1>2, <1>4, <2>4
    <3>2. n \in {base[d], base[d] + 1} /\ base[d] = x[2]
      BY <1>10, <2>4, <3>1 DEF NoRevision
    <3> QED BY <2>4, <3>2
  <2> QED BY <1>3, <2>1, <2>2, <2>3, <2>4
<1>12. Knows'
  <2> SUFFICES ASSUME NEW e \in Designs, NEW m \in OwnIn(trail[e]),
                      <<Mark(trail[e], m), m>> \in acks'
               PROVE  m <= revision'[e]
    BY <1>1 DEF Knows
  <2>0. m \in Nat /\ revision[e] \in Int
    BY StoreFacts, QueueFacts DEF NoRevision
  <2>1. CASE <<Mark(trail[e], m), m>> \in acks
    <3>1. m <= revision[e]
      BY <1>4, <2>1
    <3>2. revision[d] \in Int /\ revision[d] <= n
      BY <1>10, QueueFacts DEF NoRevision
    <3>3. CASE e = d
      <4>1. n \in Int
        BY <1>10, <3>2
      <4> QED BY <2>0, <3>1, <3>2, <3>3, <4>1
    <3>4. CASE e # d
      BY <1>2, <3>1, <3>4
    <3> QED BY <3>3, <3>4
  <2>2. CASE <<Mark(trail[e], m), m>> = <<t, n>>
    <3>1. PICK q \in Seen : q.design = e /\ Own(q) = Mark(trail[e], m) /\ Own(q) # 0
      BY StoreFacts
    <3>2. Own(q) = tail[d][1].id /\ m = n
      BY <2>2, <3>1
    <3>3. d = e
      BY <1>2, <3>1, <3>2 DEF SentOnce
    <3> QED BY <2>0, <3>2, <3>3
  <2> QED BY <1>3, <2>1, <2>2
<1> QED BY <1>6, <1>9, <1>11, <1>12 DEF Acks

-----------------------------------------------------------------------------
(* No command joins or leaves a lane, and the backend is left alone but for *)
(* the answer it gave: the sender moves, or the workspace does.             *)

Sent == {"awaiting", "asking", "resending", "reawaiting"}
Stays ==
    /\ UNCHANGED <<tail, issued, head, log, waiting, trail, behind, origin, acks>>
    /\ answers' \subseteq answers
    /\ \A e \in Designs :
          /\ retained'[e] \subseteq retained[e]
          /\ \A r \in retained[e] : r \in retained'[e] \/ settled'[r.input] # "none"
          /\ link'[e] = NoConnection \/ (link'[e] = link[e] /\ base'[e] = base[e])
          /\ running'[e] => \/ running[e] /\ link'[e] = link[e]
                            \/ ~UnderWay(waiting, tail[e][1].id)
          /\ step[e] \in Sent => step'[e] \in Sent
          /\ step[e] = "reawaiting" => step'[e] = "reawaiting"
          /\ step'[e] \in {"asking", "resending"} => Void(tail[e][1].id)
          /\ \/ revision'[e] = revision[e]
             \/ tail[e] = <<>> /\ revision[e] <= revision'[e] /\ revision'[e] \in Nat
    /\ \A i \in Inputs : settled'[i] \in {settled[i], "discarded"}

\* Such a step keeps what is said of lanes, calls, tries and answers.
LEMMA StaysKeeps ==
    ASSUME QP!LInv, SP!IInv, Alive, Rest, Lanes, Calls, SentOnce, Tries, InOrder, Acks, Stays
    PROVE  Lanes' /\ Calls' /\ SentOnce' /\ Tries' /\ InOrder' /\ Acks'
<1>1. /\ UNCHANGED <<tail, issued, head, log, waiting, trail, behind, origin, acks>>
      /\ answers' \subseteq answers
      /\ \A n : Void(n)' <=> Void(n)
      /\ Seen' = Seen
  BY DEF Stays, Void, Seen
<1>2. \A i \in Inputs : settled'[i] \in {settled[i], "discarded"}
  BY DEF Stays
<1>3. \A e \in Designs : retained'[e] \subseteq retained[e]
  BY DEF Stays
<1>4. \A n \in 1..issued : origin[n] \in Inputs
  BY DEF Rest, Lanes
<1>5. Lanes'
  <2>1. ASSUME NEW n \in 1..issued PROVE Recorded(origin[n], settled', tail, retained')
    <3>1. Recorded(origin[n], settled, tail, retained)
      BY DEF Lanes
    <3>2. CASE \E e \in Designs : \E r \in retained[e] : r.input = origin[n]
      BY <3>2 DEF Stays, Recorded
    <3>3. CASE settled[origin[n]] # "none"
      BY <1>2, <1>4, <3>3 DEF Recorded
    <3>4. CASE \E e \in Designs : \E k \in 1..Len(tail[e]) : tail[e][k].input = origin[n]
      BY <3>4 DEF Recorded
    <3> QED BY <3>1, <3>2, <3>3, <3>4 DEF Recorded
  <2> QED BY <1>1, <1>3, <2>1 DEF Lanes
<1>6. Calls'
  <2>1. /\ \A w \in waiting : w.conn # NoConnection
        /\ \A a \in answers : a.conn # NoConnection
    BY StoreFacts, ConnectionsAssumption
  <2>2. OneEach'
    BY <1>1 DEF OneEach, Calls
  <2>3. ASSUME NEW e \in Designs, running'[e], NEW w \in waiting, Own(w.request) # 0,
               tail[e][1].id = Own(w.request)
        PROVE  w.conn = link'[e]
    BY <2>3 DEF Stays, Calls, OwnCalls, UnderWay
  <2>4. OwnCalls'
    BY <1>1, <2>3 DEF OwnCalls, Calls, Store!Logged
  <2>5. \A e \in Designs : link'[e] = NoConnection \/ (link'[e] = link[e] /\ base'[e] = base[e])
    BY DEF Stays
  <2>6. LinkedCalls'
    BY <1>1, <2>1, <2>5 DEF LinkedCalls, Calls
  <2>7. LinkedAnswers'
    BY <1>1, <2>1, <2>5 DEF LinkedAnswers, Calls, Void
  <2> QED BY <2>2, <2>4, <2>6, <2>7 DEF Calls
<1>7. SentOnce'
  <2>1. \A e \in Designs : /\ step[e] \in Sent => step'[e] \in Sent
                           /\ step[e] = "reawaiting" => step'[e] = "reawaiting"
    BY DEF Stays
  <2> QED BY <1>1, <2>1 DEF SentOnce, Sent
<1>8. Tries'
  <2>1. OneTry'
    BY <1>1 DEF Tries, OneTry
  <2>2. NotTried'
    BY <1>1, <1>2, <1>3, <1>4 DEF Tries, NotTried
  <2>3. NotYet'
    BY <1>1 DEF Stays, NotYet, Void
  <2> QED BY <2>1, <2>2, <2>3 DEF Tries
<1>9. InOrder'
  BY <1>1 DEF InOrder
<1>10. Acks'
  <2>1. LeftLane' /\ NoSilentRebase'
    BY <1>1 DEF Acks, LeftLane, NoSilentRebase
  <2>2. GoesOn'
    <3>1. \A e \in Designs : Len(tail[e]) > 0 => revision'[e] = revision[e]
      BY TaskFacts DEF Stays
    <3> QED BY <1>1, <3>1 DEF Acks, GoesOn
  <2>3. Knows'
    <3> SUFFICES ASSUME NEW e \in Designs, NEW m \in OwnIn(trail[e]),
                        <<Mark(trail[e], m), m>> \in acks
                 PROVE  m <= revision'[e]
      BY <1>1 DEF Knows
    <3>1. m <= revision[e] /\ m \in Nat /\ revision[e] \in Int
      BY StoreFacts, QueueFacts DEF Acks, Knows, NoRevision
    <3> QED BY <3>1 DEF Stays
  <2> QED BY <2>1, <2>2, <2>3 DEF Acks
<1> QED BY <1>5, <1>6, <1>7, <1>8, <1>9, <1>10

\* The lane reaches a task that was not sent.
LEMMA BeginKeeps ==
    ASSUME CInv, NEW d \in Designs, Begin(d)
    PROVE  Stays /\ Senders'
<1> USE DEF CInv, Base
<1>1. /\ tail[d] # <<>> /\ ~running[d]
      /\ running' = [running EXCEPT ![d] = TRUE]
      /\ UNCHANGED <<revision, tail, pending, retained, blocked, issued, settled>>
      /\ UNCHANGED <<storeVars, link, review, historyVars>>
  BY DEF Begin, Queue!Start
<1>2. /\ step'[d] \in {"reading", "sending"}
      /\ step'[d] = "reading" => revision[d] = NoRevision
      /\ step'[d] = "sending" => base'[d] = revision[d] /\ revision[d] # NoRevision
      /\ \A e \in Designs \ {d} : step'[e] = step[e] /\ base'[e] = base[e]
                                  /\ running'[e] = running[e]
      /\ running'[d]
  BY <1>1, QueueFacts DEF Begin, Rest
<1>3. step[d] = "idle" /\ link[d] = NoConnection
  BY <1>1 DEF Senders, Linking
<1>4. ~UnderWay(waiting, tail[d][1].id)
  <2> SUFFICES ASSUME NEW w \in waiting, Own(w.request) = tail[d][1].id PROVE FALSE
    BY DEF UnderWay
  <2>1. 1 \in 1..Len(tail[d]) /\ tail[d][1].id \in 1..issued
    BY <1>1, TaskFacts DEF Lanes, Lane
  <2>2. w.request \in Seen /\ Own(w.request) # 0
    BY <2>1, StoreFacts
  <2> QED BY <1>3, <2>1, <2>2 DEF SentOnce
<1>5. \A e \in Designs : running[e] <=> step[e] # "idle"
  BY DEF Senders
<1>6. Stays
  <2>1. \A e \in Designs :
          /\ link'[e] = NoConnection \/ (link'[e] = link[e] /\ base'[e] = base[e])
          /\ running'[e] => \/ running[e] /\ link'[e] = link[e]
                            \/ ~UnderWay(waiting, tail[e][1].id)
    BY <1>1, <1>2, <1>3, <1>4
  <2>2. \A e \in Designs :
          /\ step[e] \in Sent => step'[e] \in Sent
          /\ step[e] = "reawaiting" => step'[e] = "reawaiting"
          /\ step'[e] \in {"asking", "resending"} => Void(tail[e][1].id)
    BY <1>2, <1>3 DEF Sent, Tries, NotYet
  <2> QED BY <1>1, <2>1, <2>2 DEF Stays, storeVars, historyVars
<1>7. revision[d] \in Nat \cup {NoRevision} /\ revision[d] <= head[d] /\ head[d] \in Nat
  BY QueueFacts, StoreFacts DEF Senders
<1>8. base'[d] = revision[d] /\ revision[d] # NoRevision => base'[d] \in 0..head[d]
  BY <1>7
<1>9. Senders'
  <2> SUFFICES ASSUME NEW e \in Designs
               PROVE  /\ running'[e] <=> step'[e] # "idle"
                      /\ IF step'[e] \in Linking THEN link[e] \in Connections
                         ELSE link[e] = NoConnection
                      /\ \A f \in Designs : link[e] = link[f] /\ link[e] # NoConnection => e = f
                      /\ step'[e] = "reading" => revision[e] = NoRevision
                      /\ step'[e] \notin {"idle", "reading"} =>
                            base'[e] \in 0..head[e] /\ revision[e] \in {NoRevision, base'[e]}
                      /\ step'[e] \in Merging => ~IsHistory(tail[e][1].input)
                      /\ revision[e] <= head[e]
                      /\ review[e].phase \in {"read", "refreshed"} =>
                            review[e].revision \in 0..head[e]
    BY <1>1 DEF Senders, storeVars
  <2>1. CASE e = d
    BY <1>2, <1>3, <1>8, <2>1 DEF Senders, Linking, Merging
  <2>2. CASE e # d
    BY <1>2, <2>2 DEF Senders
  <2> QED BY <2>1, <2>2
<1> QED BY <1>6, <1>9

\* The head that was read is what the request builds on.
LEMMA ReadHeadKeeps ==
    ASSUME CInv, NEW d \in Designs, ReadHead(d)
    PROVE  Stays /\ Senders'
<1> USE DEF CInv, Base
<1>1. /\ step[d] = "reading" /\ base'[d] = head[d] /\ step'[d] = "sending"
      /\ \A e \in Designs \ {d} : step'[e] = step[e] /\ base'[e] = base[e]
      /\ UNCHANGED <<queueVars, storeVars, link, review, historyVars>>
  BY DEF ReadHead, Rest
<1>2. head[d] \in Nat /\ revision[d] = NoRevision /\ link[d] = NoConnection
  BY <1>1, StoreFacts DEF Senders, Linking
<1>3. Stays
  <2>1. \A e \in Designs :
          /\ link'[e] = NoConnection \/ (link'[e] = link[e] /\ base'[e] = base[e])
          /\ running'[e] => running[e] /\ link'[e] = link[e]
    BY <1>1, <1>2 DEF queueVars
  <2>2. \A e \in Designs :
          /\ step[e] \in Sent => step'[e] \in Sent
          /\ step[e] = "reawaiting" => step'[e] = "reawaiting"
          /\ step'[e] \in {"asking", "resending"} => Void(tail[e][1].id)
    BY <1>1 DEF Sent, Tries, NotYet
  <2> QED BY <1>1, <2>1, <2>2 DEF Stays, queueVars, storeVars, historyVars
<1>4. Senders'
  BY <1>1, <1>2 DEF Senders, Linking, Merging, queueVars, storeVars
<1> QED BY <1>3, <1>4

\* A command whose merge was refused did not take effect.
LEMMA MergeRefusedKeeps ==
    ASSUME CInv, NEW d \in Designs, NEW a \in answers, MergeRefused(d, a)
    PROVE  Stays /\ Senders'
<1> USE DEF CInv, Base
<1>1. /\ step[d] = "awaiting" /\ step'[d] = "asking" /\ link'[d] = NoConnection
      /\ \A e \in Designs \ {d} : step'[e] = step[e] /\ link'[e] = link[e]
      /\ UNCHANGED <<queueVars, base, historyVars, review>>
      /\ UNCHANGED <<head, doc, view, log, histories, waiting, trail>>
      /\ answers' \subseteq answers
      /\ a.conn = link[d] /\ a.result.code = "NET_MERGE_REQUIRES_CONFIRM"
  BY DEF MergeRefused, AnswerOf, AsksUser, Rest, Store!Deliver
<1>2. Void(tail[d][1].id) /\ ~IsHistory(tail[d][1].input)
  BY <1>1 DEF Calls, LinkedAnswers
<1>3. Stays
  <2>1. \A e \in Designs :
          /\ link'[e] = NoConnection \/ (link'[e] = link[e] /\ base'[e] = base[e])
          /\ running'[e] => \/ running[e] /\ link'[e] = link[e]
                            \/ ~UnderWay(waiting, tail[e][1].id)
    BY <1>1, <1>2 DEF queueVars, Void
  <2>2. \A e \in Designs :
          /\ step[e] \in Sent => step'[e] \in Sent
          /\ step[e] = "reawaiting" => step'[e] = "reawaiting"
          /\ step'[e] \in {"asking", "resending"} => Void(tail[e][1].id)
    BY <1>1, <1>2 DEF Sent, Tries, NotYet
  <2> QED BY <1>1, <2>1, <2>2 DEF Stays, queueVars, historyVars
<1>4. Senders'
  <2>1. \A e \in Designs : e # d => step'[e] = step[e] /\ link'[e] = link[e]
    BY <1>1
  <2> QED BY <1>1, <1>2, <2>1 DEF Senders, Linking, Merging, queueVars
<1> QED BY <1>3, <1>4

\* The confirmed merge goes out under an id of its own.
LEMMA UserConfirmsKeeps ==
    ASSUME CInv, NEW d \in Designs, UserConfirms(d)
    PROVE  Stays /\ Senders'
<1> USE DEF CInv, Base
<1>1. /\ step[d] = "asking" /\ step'[d] = "resending"
      /\ \A e \in Designs \ {d} : step'[e] = step[e]
      /\ UNCHANGED <<queueVars, storeVars, base, link, review, historyVars>>
  BY DEF UserConfirms, Rest
<1>2. Void(tail[d][1].id)
  BY <1>1 DEF Tries, NotYet
<1>3. Stays
  <2>2. \A e \in Designs :
          /\ step[e] \in Sent => step'[e] \in Sent
          /\ step[e] = "reawaiting" => step'[e] = "reawaiting"
          /\ step'[e] \in {"asking", "resending"} => Void(tail[e][1].id)
    BY <1>1, <1>2 DEF Sent, Tries, NotYet
  <2> QED BY <1>1, <2>2 DEF Stays, queueVars, storeVars, historyVars
<1>4. Senders'
  BY <1>1 DEF Senders, Linking, Merging, queueVars, storeVars
<1> QED BY <1>3, <1>4

-----------------------------------------------------------------------------
(* The workspace: nothing but a review moves, or the idle lane with it. *)

\* Only the review of one design moves, and what it read is in the design.
Looks(d) ==
    /\ UNCHANGED <<storeVars, senderVars, historyVars, tail, running, issued>>
    /\ review' \in [Designs -> Review]
    /\ \A e \in Designs \ {d} : review'[e] = review[e]
    /\ review'[d].phase \in {"read", "refreshed"} => review'[d].revision \in 0..head[d]

\* The workspace looks at the design and changes nothing.
LEMMA LooksOnly ==
    ASSUME CInv, NEW d \in Designs, Looks(d), UNCHANGED <<revision, retained, settled>>
    PROVE  Stays /\ Senders'
<1> USE DEF CInv, Base
<1>1. Stays
  BY DEF Looks, Stays, storeVars, senderVars, historyVars, Sent, Tries, NotYet
<1>2. Senders'
  <2>1. /\ UNCHANGED <<head, step, base, link, tail, running, revision>>
        /\ \A e \in Designs : review'[e].phase \in {"read", "refreshed"} =>
              review'[e].revision \in 0..head[e]
    BY DEF Looks, storeVars, senderVars, Senders
  <2> QED BY <2>1 DEF Senders
<1> QED BY <1>1, <1>2

\* The reviews: their type, and what a refresh has read.
LEMMA ReviewFacts ==
    ASSUME CInv, NEW d \in Designs
    PROVE  /\ review \in [Designs -> Review] /\ review[d] \in Review
           /\ head[d] \in Nat /\ Revisions = 0..MaxRevision /\ head[d] \in Revisions
           /\ review[d].phase \in {"read", "refreshed"} =>
                 review[d].revision \in 0..head[d] /\ review[d].revision \in Revisions
           /\ tail[d] = <<>> <=> pending[d] = 0
           /\ NoReview \in Review
<1>1. /\ review \in [Designs -> Review] /\ review[d] \in Review
      /\ review[d].phase \in {"read", "refreshed"} => review[d].revision \in 0..head[d]
      /\ head[d] \in 0..MaxRevision /\ MaxRevision \in Nat
  BY BoundsAssumption DEF CInv, Base, Rest, Senders, Alive
<1>2. tail[d] = <<>> <=> pending[d] = 0
  <2>1. pending[d] = Len(tail[d]) /\ tail[d] \in Seq(QP!Task)
    BY QueueFacts, TaskFacts DEF CInv, Base
  <2> QED BY <2>1
<1> QED BY <1>1, <1>2 DEF Revisions, NoReview, Review, NoRevision

\* Refresh, AskDiscard, AskReapply, RefreshReads, RefreshFails.
LEMMA AskingLooks ==
    ASSUME CInv, NEW d \in Designs,
           Refresh(d) \/ AskDiscard(d) \/ AskReapply(d) \/ RefreshReads(d) \/ RefreshFails(d)
    PROVE  Looks(d) /\ UNCHANGED queueVars
<1>1. /\ review \in [Designs -> Review] /\ review[d] \in Review
      /\ head[d] \in Nat /\ NoReview \in Review
  BY ReviewFacts
<1>2. ASSUME NEW then \in {"nothing", "discard", "reapply"}, NEW item \in Nat,
             AskReview(d, then, item)
      PROVE  Looks(d) /\ UNCHANGED queueVars
  <2> DEFINE r == [phase |-> "reading", then |-> then, item |-> item, revision |-> NoRevision]
  <2>1. r \in Review /\ r.phase = "reading"
    BY DEF Review, NoRevision
  <2>2. /\ review' = [review EXCEPT ![d] = r]
        /\ UNCHANGED <<queueVars, storeVars, senderVars, historyVars>>
    BY <1>2 DEF AskReview
  <2> HIDE DEF r
  <2> QED BY <1>1, <2>1, <2>2 DEF Looks, queueVars
<1>3. CASE Refresh(d) \/ AskDiscard(d)
  BY <1>2, <1>3 DEF Refresh, AskDiscard
<1>4. CASE AskReapply(d)
  <2>1. PICK r \in retained[d] : AskReview(d, "reapply", r.id)
    BY <1>4 DEF AskReapply
  <2>2. r.id \in Nat
    BY QueueFacts DEF CInv, Base, QP!RetainedCommand
  <2> QED BY <1>2, <2>1, <2>2
<1>5. CASE RefreshReads(d)
  <2> DEFINE r == [review[d] EXCEPT !.phase = "read", !.revision = head[d]]
  <2> DEFINE q == [review[d] EXCEPT !.phase = "read"]
  <2>0. q \in Review /\ r = [q EXCEPT !.revision = head[d]]
    BY <1>1 DEF Review
  <2>1. r \in Review /\ r.revision = head[d]
    <3> HIDE DEF q, r
    <3> QED BY <1>1, <2>0 DEF Review
  <2>2. /\ review' = [review EXCEPT ![d] = r]
        /\ UNCHANGED <<queueVars, storeVars, senderVars, historyVars>>
    BY <1>1, <1>5 DEF RefreshReads
  <2> HIDE DEF r
  <2> QED BY <1>1, <2>1, <2>2 DEF Looks, queueVars
<1>6. CASE RefreshFails(d)
  BY <1>1, <1>6 DEF RefreshFails, Looks, queueVars, NoReview
<1> QED BY <1>3, <1>4, <1>5, <1>6

\* A refresh that returns changes the review alone.
LEMMA ReturningLooks ==
    ASSUME CInv, NEW d \in Designs, RefreshReturns(d), UNCHANGED <<tail, running, issued>>
    PROVE  Looks(d)
<1>1. /\ review \in [Designs -> Review] /\ NoReview \in Review /\ review[d] \in Review
      /\ review[d].phase = "read" /\ review[d].revision \in 0..head[d]
  BY ReviewFacts DEF RefreshReturns
<1> DEFINE r == IF review[d].then = "nothing" THEN NoReview
                ELSE [review[d] EXCEPT !.phase = "refreshed"]
<1>2. r \in Review /\ (r.phase \in {"read", "refreshed"} => r.revision \in 0..head[d])
  BY <1>1 DEF Review, NoReview
<1>3. review' = [review EXCEPT ![d] = r] /\ UNCHANGED <<storeVars, senderVars, historyVars>>
  BY <1>1 DEF RefreshReturns
<1> HIDE DEF r
<1> QED BY <1>1, <1>2, <1>3 DEF Looks

\* An idle lane observes a revision the design has reached.
LEMMA ArrivesKeeps ==
    ASSUME CInv, NEW d \in Designs, RefreshArrives(d)
    PROVE  /\ Stays /\ Senders'
           /\ UNCHANGED queueVars \/ Queue!Observe(d, review[d].revision)
           /\ review[d].revision \in Revisions
           /\ review' \in [Designs -> Review]
<1> USE DEF CInv, Base
<1>0. review[d].revision \in Revisions /\ review[d].revision \in 0..head[d] /\ head[d] \in Nat
  BY ReviewFacts DEF RefreshArrives, RefreshReturns
<1>1. /\ Looks(d)
      /\ UNCHANGED queueVars \/ Queue!Observe(d, review[d].revision)
  <2>1. /\ RefreshReturns(d)
        /\ UNCHANGED queueVars \/ Queue!Observe(d, review[d].revision)
    BY DEF RefreshArrives
  <2>2. UNCHANGED <<tail, running, issued>>
    BY <2>1 DEF Queue!Observe, queueVars
  <2> QED BY <2>1, <2>2, ReturningLooks
<1>2. CASE UNCHANGED queueVars
  <2>1. UNCHANGED <<revision, retained, settled>>
    BY <1>2 DEF queueVars
  <2> QED BY <1>0, <1>1, <2>1, LooksOnly DEF Looks
<1>3. CASE Queue!Observe(d, review[d].revision)
  <2>1. /\ tail[d] = <<>> /\ revision'[d] = review[d].revision
        /\ revision[d] = NoRevision \/ review[d].revision > revision[d]
        /\ \A e \in Designs \ {d} : revision'[e] = revision[e]
        /\ UNCHANGED <<tail, running, retained, issued, settled>>
    BY <1>3, ReviewFacts, QueueFacts DEF Queue!Observe, Queue!Observable,
       Queue!NoRevision, NoRevision
  <2>2. revision[d] \in Nat \cup {NoRevision}
    BY QueueFacts
  <2>3. revision[d] <= revision'[d] /\ revision'[d] \in Nat /\ revision'[d] <= head[d]
    BY <1>0, <2>1, <2>2 DEF NoRevision
  <2>4. ~running[d] /\ step[d] = "idle"
    BY <2>1, QueueFacts DEF Senders
  <2>5. /\ UNCHANGED <<head, log, waiting, answers, trail, step, base, link,
                       behind, origin, acks>>
    BY <1>1 DEF Looks, storeVars, senderVars, historyVars
  <2>6. Stays
    BY <2>1, <2>3, <2>5 DEF Stays, Sent, Tries, NotYet
  <2>7. Senders'
    <3>1. \A e \in Designs : review'[e].phase \in {"read", "refreshed"} =>
              review'[e].revision \in 0..head[e]
      BY <1>1 DEF Looks, Senders
    <3>2. \A e \in Designs : /\ revision'[e] <= head[e]
                             /\ step[e] # "idle" => revision'[e] = revision[e]
      BY <2>1, <2>3, <2>4 DEF Senders
    <3> QED BY <2>1, <2>5, <3>1, <3>2 DEF Senders
  <2> QED BY <1>0, <1>1, <1>3, <2>6, <2>7 DEF Looks
<1> QED BY <1>1, <1>2, <1>3

\* Discarded edits are remembered as such.
LEMMA DiscardKeeps ==
    ASSUME CInv, NEW d \in Designs, Discard(d)
    PROVE  /\ Stays /\ Senders'
           /\ UNCHANGED queueVars \/ Queue!DiscardRetained(d)
           /\ review' \in [Designs -> Review]
<1> USE DEF CInv, Base
<1>1. /\ UNCHANGED queueVars \/ Queue!DiscardRetained(d)
      /\ Looks(d)
  BY ReviewFacts DEF Discard, Queue!DiscardRetained, queueVars, Looks, NoReview
<1>2. CASE UNCHANGED queueVars
  <2>1. UNCHANGED <<revision, retained, settled>>
    BY <1>2 DEF queueVars
  <2> QED BY <1>1, <2>1, LooksOnly DEF Looks
<1>3. CASE Queue!DiscardRetained(d)
  <2>1. /\ UNCHANGED <<revision, tail, running, issued>>
        /\ \A i \in Inputs : settled'[i] \in {settled[i], "discarded"}
        /\ \A r \in retained[d] : settled'[r.input] = "discarded"
        /\ retained'[d] = {} /\ \A e \in Designs \ {d} : retained'[e] = retained[e]
    <3>1. \A r \in retained[d] : r.input \in Inputs
      BY QueueFacts DEF QP!RetainedCommand
    <3> QED BY <1>3, <3>1, QueueFacts DEF Queue!DiscardRetained
  <2>2. UNCHANGED <<head, log, waiting, answers, trail, step, base, link, behind, origin, acks>>
    BY <1>1 DEF Looks, storeVars, senderVars, historyVars
  <2>3. Stays
    BY <2>1, <2>2 DEF Stays, Sent, Tries, NotYet
  <2>4. Senders'
    <3>1. \A e \in Designs : review'[e].phase \in {"read", "refreshed"} =>
              review'[e].revision \in 0..head[e]
      BY <1>1 DEF Looks, Senders
    <3> QED BY <2>1, <2>2, <3>1 DEF Senders
  <2> QED BY <1>1, <1>3, <2>3, <2>4 DEF Looks
<1> QED BY <1>1, <1>2, <1>3

-----------------------------------------------------------------------------
(* The actions of the window that change a lane. *)

\* A new edit was never tried.
LEMMA UserActsGrows ==
    ASSUME CInv, NEW d \in Designs, NEW i \in Inputs, UserActs(d, i)
    PROVE  Grows(d, i)
<1> USE DEF CInv, Base
<1>1. /\ Queue!Fresh(i) /\ Queue!Enqueue(d, i, FALSE) /\ Remember(d, i)
      /\ UNCHANGED <<storeVars, senderVars, review>>
      /\ UNCHANGED <<revision, running, retained, settled>>
  BY DEF UserActs, Queue!Submit
<1>2. Pushed(d, i)
  BY <1>1, PushFacts
<1>3. /\ \A e \in Designs : \A k \in 1..Len(tail[e]) : tail[e][k].input # i
      /\ \A e \in Designs : \A r \in retained[e] : r.input # i
      /\ settled[i] = "none"
  <2>1. \A e \in Designs : \A r \in retained[e] : r.state \in Queue!RetainedState
    BY QueueFacts DEF QP!RetainedCommand, QP!RetainedState, Queue!RetainedState
  <2> QED BY <1>1, <2>1 DEF Queue!Fresh, Queue!Queued, Queue!HeldAs
<1>4. \A n \in 1..issued : origin[n] # i
  BY <1>3 DEF Lanes, Recorded
<1>5. review' = review /\ review \in [Designs -> Review]
  BY <1>1 DEF Rest
<1> QED BY <1>1, <1>2, <1>3, <1>4, <1>5 DEF Grows, storeVars, senderVars

\* An edit that is tried again did not take effect before.
LEMMA ReapplyGrows ==
    ASSUME CInv, NEW d \in Designs, Reapply(d)
    PROVE  \/ \E r \in retained[d] :
                 r.input \in Inputs /\ Queue!Reapply(d, r) /\ Grows(d, r.input)
           \/ UNCHANGED <<queueVars>> /\ Looks(d)
<1> USE DEF CInv, Base
<1>1. /\ review' = [review EXCEPT ![d] = NoReview] /\ UNCHANGED <<storeVars, senderVars>>
      /\ review \in [Designs -> Review] /\ NoReview \in Review
  BY ReviewFacts DEF Reapply
<1>2. /\ review' \in [Designs -> Review]
      /\ \A e \in Designs : review'[e].phase \in {"read", "refreshed"} => review'[e] = review[e]
      /\ \A e \in Designs \ {d} : review'[e] = review[e]
      /\ review'[d].phase \notin {"read", "refreshed"}
  BY <1>1 DEF NoReview
<1>3. ASSUME NEW r \in retained[d], Queue!Reapply(d, r), Remember(d, r.input)
      PROVE  r.input \in Inputs /\ Grows(d, r.input)
  <2>1. /\ r.state # "failed" /\ Queue!Enqueue(d, r.input, TRUE)
        /\ UNCHANGED <<revision, running, settled>>
        /\ retained' = [retained EXCEPT ![d] = @ \ {r}]
    BY <1>3 DEF Queue!Reapply
  <2>2. r.input \in Inputs /\ r \in QP!RetainedCommand
    BY QueueFacts DEF QP!RetainedCommand
  <2>3. Pushed(d, r.input)
    BY <2>1, <2>2, PushFacts
  <2>4. \A e \in Designs : \A k \in 1..Len(tail[e]) : tail[e][k].input # r.input
    BY QueueFacts
  <2>5. \A n \in 1..issued : origin[n] = r.input => Void(n)
    BY <2>1 DEF Tries, NotTried
  <2>6. \A e \in Designs : /\ retained'[e] \subseteq retained[e]
                           /\ \A q \in retained[e] : q \in retained'[e] \/ q.input = r.input
    <3>1. retained \in [Designs -> SUBSET QP!RetainedCommand]
      BY QueueFacts
    <3> QED BY <2>1, <3>1
  <2> QED BY <1>1, <1>2, <1>3, <2>1, <2>2, <2>3, <2>4, <2>5, <2>6 DEF Grows, storeVars, senderVars
<1>4. CASE UNCHANGED <<queueVars, historyVars>>
  BY <1>1, <1>2, <1>4 DEF Looks, queueVars
<1>5. CASE \E r \in retained[d] : Queue!Reapply(d, r) /\ Remember(d, r.input)
  BY <1>3, <1>5
<1> QED BY <1>4, <1>5 DEF Reapply

\* The head of an idle lane has not been sent.
LEMMA IdleIsUnsent ==
    ASSUME CInv, NEW d \in Designs, tail[d] # <<>>, ~running[d]
    PROVE  /\ Void(tail[d][1].id) /\ step[d] = "idle" /\ link[d] = NoConnection
<1> USE DEF CInv, Base
<1>1. step[d] = "idle" /\ link[d] = NoConnection
  BY DEF Senders, Linking
<1>2. 1 \in 1..Len(tail[d]) /\ tail[d][1].id \in 1..issued
  BY TaskFacts DEF Lanes, Lane
<1>3. \A q \in Seen : Own(q) # tail[d][1].id
  BY <1>1, <1>2 DEF SentOnce
<1>4. ~UnderWay(waiting, tail[d][1].id)
  BY <1>3, StoreFacts DEF UnderWay
<1>5. ~InDesign(trail, tail[d][1].id)
  BY <1>3, StoreFacts DEF InDesign
<1> QED BY <1>1, <1>4, <1>5 DEF Void

\* The catch branch: the head of the lane is kept for review.
LEMMA RetainFacts ==
    ASSUME QP!LInv, NEW d \in Designs, NEW s, tail[d] # <<>>, Queue!Retain(d, s)
    PROVE  /\ Popped(d) /\ UNCHANGED <<revision, issued, settled>>
           /\ \A e \in Designs :
                 /\ retained[e] \subseteq retained'[e]
                 /\ \A r \in retained'[e] :
                       \/ r \in retained[e]
                       \/ /\ r.id = tail[d][1].id /\ r.input = tail[d][1].input
                          /\ r.state = s
           /\ Recorded(tail[d][1].input, settled', tail', retained')
<1> DEFINE r == [id |-> Head(tail[d]).id, input |-> Head(tail[d]).input, state |-> s]
<1>1. /\ retained' = [retained EXCEPT ![d] = @ \cup {r}] /\ Queue!Dequeue(d)
      /\ UNCHANGED <<revision, issued, settled>>
  BY DEF Queue!Retain
<1>2. r.id = tail[d][1].id /\ r.input = tail[d][1].input /\ r.state = s
  BY TaskFacts DEF Task
<1>3. retained \in [Designs -> SUBSET QP!RetainedCommand]
  BY QueueFacts
<1> HIDE DEF r
<1>4. /\ retained'[d] = retained[d] \cup {r}
      /\ \A e \in Designs \ {d} : retained'[e] = retained[e]
  BY <1>1, <1>3
<1>5. Popped(d)
  BY <1>1, PopFacts
<1>6. Recorded(tail[d][1].input, settled', tail', retained')
  BY <1>2, <1>4 DEF Recorded
<1> QED BY <1>1, <1>2, <1>4, <1>5, <1>6

\* A command that was not sent is void.
LEMMA CancelShrinks ==
    ASSUME CInv, NEW d \in Designs, Cancel(d)
    PROVE  Shrinks(d)
<1> USE DEF CInv, Base
<1>1. /\ tail[d] # <<>> /\ ~running[d] /\ Queue!Retain(d, "cancelled")
      /\ UNCHANGED <<storeVars, senderVars, review, historyVars>>
  BY DEF Cancel, Queue!CancelUnsent
<1>2. Void(tail[d][1].id) /\ step[d] = "idle" /\ link[d] = NoConnection
  BY <1>1, IdleIsUnsent
<1>3. step' = [step EXCEPT ![d] = "idle"] /\ link' = [link EXCEPT ![d] = NoConnection]
  BY <1>1, <1>2 DEF Rest, senderVars
<1>4. /\ Popped(d) /\ UNCHANGED <<revision, issued, settled>>
      /\ \A e \in Designs :
            /\ retained[e] \subseteq retained'[e]
            /\ \A r \in retained'[e] :
                  \/ r \in retained[e]
                  \/ r.id = tail[d][1].id /\ r.input = tail[d][1].input
      /\ Recorded(tail[d][1].input, settled', tail', retained')
  BY <1>1, RetainFacts
<1>5. UNCHANGED <<behind, origin, acks, review, base, head, log, waiting, answers, trail>>
  BY <1>1 DEF storeVars, senderVars, historyVars
<1> QED BY <1>2, <1>3, <1>4, <1>5 DEF Shrinks

\* A command that was refused is void.
LEMMA RejectedShrinks ==
    ASSUME CInv, NEW d \in Designs, NEW a \in answers, Rejected(d, a)
    PROVE  Shrinks(d)
<1> USE DEF CInv, Base
<1>1. /\ a.conn = link[d] /\ a.result.code # "OK" /\ running[d]
      /\ Queue!Retain(d, "conflicted") \/ Queue!Retain(d, "failed")
      /\ SenderDone(d)
      /\ UNCHANGED historyVars /\ UNCHANGED review
      /\ answers' \subseteq answers /\ UNCHANGED <<head, log, waiting, trail>>
  BY DEF Rejected, AnswerOf, Store!Deliver, Queue!Conflict, Queue!Fail
<1>2. Void(tail[d][1].id) /\ tail[d] # <<>>
  BY <1>1, QueueFacts DEF Calls, LinkedAnswers
<1> QED BY <1>1, <1>2, RetainFacts DEF Shrinks, historyVars, SenderDone

\* Of a lost command nothing is promised.
LEMMA LostShrinks ==
    ASSUME CInv, NEW d \in Designs, ConnectionLost(d)
    PROVE  Shrinks(d)
<1> USE DEF CInv, Base
<1>1. /\ running[d] /\ Queue!Retain(d, "failed") /\ SenderDone(d)
      /\ UNCHANGED <<storeVars, review, historyVars>>
  BY DEF ConnectionLost, Queue!Fail
<1>2. tail[d] # <<>>
  BY <1>1, QueueFacts
<1> QED BY <1>1, <1>2, RetainFacts DEF Shrinks, historyVars, storeVars, SenderDone

\* A command whose merge the user declined is void.
LEMMA DeclinesShrinks ==
    ASSUME CInv, NEW d \in Designs, UserDeclines(d)
    PROVE  Shrinks(d)
<1> USE DEF CInv, Base
<1>1. /\ step[d] = "asking" /\ running[d] /\ Queue!Dequeue(d) /\ SenderDone(d)
      /\ settled' = [settled EXCEPT ![Head(tail[d]).input] = "declined"]
      /\ UNCHANGED <<revision, retained, issued>>
      /\ UNCHANGED <<storeVars, review, historyVars>>
  BY DEF UserDeclines, Queue!Decline
<1>2. /\ tail[d] # <<>> /\ Head(tail[d]).input = tail[d][1].input /\ tail[d][1].input \in Inputs
      /\ settled \in [Inputs -> {"none", "acknowledged", "declined", "discarded"}]
  BY <1>1, QueueFacts, TaskFacts DEF Task
<1>3. Void(tail[d][1].id)
  BY <1>1 DEF Tries, NotYet
<1>4. Recorded(tail[d][1].input, settled', tail', retained')
  BY <1>1, <1>2 DEF Recorded
<1> QED BY <1>1, <1>2, <1>3, <1>4, PopFacts DEF Shrinks, historyVars, storeVars, SenderDone

\* The lane takes the revision that its command produced.
LEMMA AcknowledgedShrinks ==
    ASSUME CInv, NEW d \in Designs, NEW a \in answers, Acknowledged(d, a)
    PROVE  Shrinks(d) /\ a.result.revision \in Revisions
<1> USE DEF CInv, Base
<1> DEFINE n == a.result.revision
<1>1. /\ a.conn = link[d] /\ a.result.code = "OK" /\ running[d]
      /\ step[d] \in Linking
      /\ Queue!Acknowledge(d, n) /\ Queue!Dequeue(d)
      /\ settled' = [settled EXCEPT ![Head(tail[d]).input] = "acknowledged"]
      /\ revision' = [revision EXCEPT ![d] = n]
      /\ acks' = acks \cup {<<Task(d).id, n>>}
      /\ SenderDone(d) /\ UNCHANGED <<retained, issued>>
      /\ UNCHANGED <<behind, origin>> /\ UNCHANGED review
      /\ answers' \subseteq answers /\ UNCHANGED <<head, log, waiting, trail>>
  BY DEF Acknowledged, AnswerOf, Store!Deliver, Queue!Acknowledge, Linking
<1>2. /\ tail[d] # <<>> /\ Head(tail[d]).input = tail[d][1].input /\ tail[d][1].input \in Inputs
      /\ Task(d).id = tail[d][1].id /\ tail[d][1].id \in 1..issued
      /\ settled \in [Inputs -> {"none", "acknowledged", "declined", "discarded"}]
  BY <1>1, QueueFacts, TaskFacts DEF Task, Lanes, Lane
<1>3. /\ n \in {base[d], base[d] + 1} /\ n <= head[d]
      /\ base[d] \in 0..head[d] /\ head[d] \in 0..MaxRevision
  BY <1>1 DEF Calls, LinkedAnswers, Senders, Linking, Alive
<1>4. n \in Revisions
  BY <1>3, BoundsAssumption DEF Revisions
<1>5. ~UnderWay(waiting, tail[d][1].id)
  BY <1>1, <1>2 DEF UnderWay, Calls, OwnCalls, OneEach
<1>6. Recorded(tail[d][1].input, settled', tail', retained')
  BY <1>1, <1>2 DEF Recorded
<1>7. revision'[d] = n /\ \A e \in Designs \ {d} : revision'[e] = revision[e]
  BY <1>1, QueueFacts
<1>8. Popped(d)
  BY <1>1, <1>2, PopFacts
<1>9. \A j \in Inputs : settled'[j] = settled[j] \/ (j = tail[d][1].input /\ settled'[j] = "acknowledged")
  BY <1>1, <1>2
<1> HIDE DEF n
<1> QED BY <1>1, <1>2, <1>3, <1>4, <1>5, <1>6, <1>7, <1>8, <1>9 DEF Shrinks, SenderDone, n

-----------------------------------------------------------------------------
(* What the backend does of a request, in the words of the invariant. *)

\* At most one change lands, in design d, and it is the window's edit id
\* unless id is 0; b is the revision it was to build on.
Landed(id, d, b) ==
    \A e \in Designs :
        /\ head'[e] \in 0..MaxRevision /\ head[e] <= head'[e]
        /\ \A m \in OwnIn(trail[e]) :
              m \in OwnIn(trail'[e]) /\ Mark(trail'[e], m) = Mark(trail[e], m)
        /\ \A m \in OwnIn(trail'[e]) :
              \/ m \in OwnIn(trail[e])
              \/ /\ id # 0 /\ e = d /\ Mark(trail'[e], m) = id
                 /\ m = head[e] + 1 /\ m = head'[e] /\ b = head[e]

\* The answer tells whether it landed.
Truthful(a, q, b) ==
    /\ a.result.code = "OK" =>
          a.result.revision \in {b, b + 1} /\ a.result.revision <= head'[q.design]
    /\ a.result.code # "OK" => trail' = trail

\* Request q on connection c: answered, logged or not, and perhaps landed.
Served(c, q, b) ==
    /\ Landed(Own(q), q.design, b)
    /\ \A a \in answers' : a \in answers \/ (a.conn = c /\ (Own(q) # 0 => Truthful(a, q, b)))
    /\ \A row \in log' : row \in log \/ row.request = q

\* A request that changes no design.
LEMMA NothingLands ==
    ASSUME SP!IInv, Alive, UNCHANGED <<head, trail>>, NEW id, NEW d, NEW b
    PROVE  Landed(id, d, b)
  BY StoreFacts DEF Landed, Alive

\* A new revision on top of the others, of an edit or of none.
LEMMA AdvanceLands ==
    ASSUME SP!IInv, Alive, NEW d \in Designs, NEW kind \in {"do", "undo", "redo"},
           NEW q \in Store!Request, NEW b \in Int, Store!Advance(d, kind, q, b),
           head[d] < MaxRevision, Own(q) # 0 => b = head[d] \/ kind # "do",
           NEW id, kind = "do" => id = Own(q)
    PROVE  Landed(id, d, b) /\ head'[d] = head[d] + 1
<1>1. SP!TypeOK /\ SP!EveryChangeIsLogged
  BY DEF SP!IInv
<1>2. head[d] \in Nat /\ SP!Exists(d) /\ \A e \in Designs : head[e] \in 0..MaxRevision
  BY StoreFacts DEF SP!Exists, SP!NoRevision, Alive
<1>3. SP!Advance(d, kind, q, b) /\ q \in SP!Request
  BY RequestsAre DEF Store!Advance, SP!Advance
<1>4. /\ Len(trail[d]) = head[d] /\ head'[d] = head[d] + 1 /\ Len(trail'[d]) = head[d] + 1
      /\ \A e \in Designs \ {d} : head'[e] = head[e] /\ trail'[e] = trail[e]
      /\ \A n \in 1..head[d] : trail'[d][n] = trail[d][n]
      /\ trail'[d][head[d] + 1] = [kind |-> kind, request |-> q, base |-> b]
  BY ONLY <1>1, <1>2, <1>3, StoreAssumed, SP!AdvanceFacts, d \in Designs, b \in Int,
          kind \in {"do", "undo", "redo"}
<1>5. trail'[d][head[d] + 1].kind = kind /\ trail'[d][head[d] + 1].request = q
  BY <1>4
<1>6. \A m \in 1..head[d] : /\ m \in OwnIn(trail[d]) <=> m \in OwnIn(trail'[d])
                            /\ Mark(trail'[d], m) = Mark(trail[d], m)
  <2> SUFFICES ASSUME NEW m \in 1..head[d]
               PROVE  /\ m \in OwnIn(trail[d]) <=> m \in OwnIn(trail'[d])
                      /\ Mark(trail'[d], m) = Mark(trail[d], m)
    OBVIOUS
  <2>1. trail'[d][m] = trail[d][m] /\ m \in 1..Len(trail[d]) /\ m \in 1..Len(trail'[d])
    BY <1>2, <1>4
  <2>2. Mark(trail'[d], m) = Mark(trail[d], m)
    BY <2>1 DEF Mark
  <2> QED BY <2>1, <2>2 DEF OwnIn
<1>7. \A m \in OwnIn(trail'[d]) : m \in 1..head[d] \/ m = head[d] + 1
  BY <1>2, <1>4 DEF OwnIn
<1>8. head[d] + 1 \in OwnIn(trail'[d]) => kind = "do" /\ Own(q) # 0
  BY <1>5 DEF OwnIn, Mark
<1>9. Mark(trail'[d], head[d] + 1) = Own(q)
  BY <1>5 DEF Mark
<1>10. OwnIn(trail[d]) \subseteq 1..head[d]
  BY <1>4 DEF OwnIn
<1> SUFFICES ASSUME NEW e \in Designs
             PROVE  /\ head'[e] \in 0..MaxRevision /\ head[e] <= head'[e]
                    /\ \A m \in OwnIn(trail[e]) :
                          m \in OwnIn(trail'[e]) /\ Mark(trail'[e], m) = Mark(trail[e], m)
                    /\ \A m \in OwnIn(trail'[e]) :
                          \/ m \in OwnIn(trail[e])
                          \/ /\ id # 0 /\ e = d /\ Mark(trail'[e], m) = id
                             /\ m = head[e] + 1 /\ m = head'[e] /\ b = head[e]
  BY <1>4 DEF Landed
<1>11. CASE e # d
  BY <1>2, <1>4, <1>11
<1>12. CASE e = d
  <2>1. head'[d] \in 0..MaxRevision /\ head[d] <= head'[d]
    BY <1>2, <1>4, BoundsAssumption
  <2>2. \A m \in OwnIn(trail[d]) :
            m \in OwnIn(trail'[d]) /\ Mark(trail'[d], m) = Mark(trail[d], m)
    BY <1>6, <1>10
  <2>3. \A m \in OwnIn(trail'[d]) :
            \/ m \in OwnIn(trail[d])
            \/ m = head[d] + 1 /\ kind = "do" /\ Own(q) # 0
    BY <1>6, <1>7, <1>8
  <2> QED BY <1>4, <1>9, <1>12, <2>1, <2>2, <2>3
<1> QED BY <1>11, <1>12

\* The transaction of a request that is not in the log yet.
LEMMA TransactServes ==
    ASSUME SP!IInv, Alive, NEW c, NEW q \in Store!Request, NEW b \in Int,
           Own(q) # 0 => b \in 0..head[q.design],
           Store!Transact(c, q, b)
    PROVE  Served(c, q, b)
<1>1. q.design \in Designs /\ head[q.design] \in Nat /\ Store!Exists(q.design)
  BY StoreFacts DEF Store!Request
<1>2. CASE Store!Stale(c, q, b) \/ Store!Reject(c, q, b) \/ Store!RefuseMerge(c, q, b)
           \/ Store!Throw(c, q, b)
  <2>1. /\ UNCHANGED <<head, trail>>
        /\ \A row \in log' : row \in log \/ row.request = q
        /\ \A a \in answers' : a \in answers \/ (a.conn = c /\ a.result.code # "OK")
    BY <1>2 DEF Store!Stale, Store!Reject, Store!RefuseMerge, Store!Throw, Store!Insert,
                Store!Reply, Store!ConflictAt, Store!Outcome
  <2> QED BY <2>1, NothingLands DEF Served, Truthful
<1>3. CASE Store!NothingToDo(c, q, b)
  <2>1. /\ UNCHANGED <<head, trail>>
        /\ \A row \in log' : row \in log \/ row.request = q
        /\ \A a \in answers' : a \in answers
              \/ (a.conn = c /\ a.result.code = "OK" /\ a.result.revision = head[q.design])
        /\ b \in {Store!NoRevision, head[q.design]}
    BY <1>3 DEF Store!NothingToDo, Store!Insert, Store!Reply, Store!Ok, Store!Admitted
  <2>2. Own(q) # 0 => b = head[q.design]
    BY <1>1, <2>1 DEF Store!NoRevision
  <2>3. \A a \in answers' : a \in answers \/ (a.conn = c /\ (Own(q) # 0 => Truthful(a, q, b)))
    BY <1>1, <2>1, <2>2 DEF Truthful
  <2> QED BY <2>1, <2>3, NothingLands DEF Served
<1>4. CASE Store!Apply(c, q, b)
  <2>1. /\ Store!Advance(q.design, "do", q, b) /\ head[q.design] < MaxRevision
        /\ \A row \in log' : row \in log \/ row.request = q
        /\ \A a \in answers' : a \in answers
              \/ (a.conn = c /\ a.result.code = "OK" /\ a.result.revision = head[q.design] + 1)
        /\ b \in {Store!NoRevision, head[q.design]}
    BY <1>4 DEF Store!Apply, Store!Insert, Store!Reply, Store!Ok, Store!Admitted
  <2>2. Own(q) # 0 => b = head[q.design]
    BY <1>1, <2>1 DEF Store!NoRevision
  <2>3. Landed(Own(q), q.design, b) /\ head'[q.design] = head[q.design] + 1
    BY <1>1, <2>1, <2>2, AdvanceLands
  <2>4. \A a \in answers' : a \in answers \/ (a.conn = c /\ (Own(q) # 0 => Truthful(a, q, b)))
    BY <1>1, <2>1, <2>2, <2>3 DEF Truthful
  <2> QED BY <2>1, <2>3, <2>4 DEF Served
<1>5. ~Store!Missing(c, q)
  BY <1>1 DEF Store!Missing
<1> QED BY <1>2, <1>3, <1>4, <1>5 DEF Store!Transact

\* An answer from the log, or that the library failed.
LEMMA QuietServes ==
    ASSUME SP!IInv, Alive, NEW c, NEW q, NEW b, NEW id, NEW r, Store!Reply(c, id, r),
           Own(q) # 0 => r.code # "OK", UNCHANGED <<head, log, trail>>
    PROVE  Served(c, q, b)
<1>1. \A a \in answers' : a \in answers \/ (a.conn = c /\ a.result = r)
  BY DEF Store!Reply
<1> QED BY <1>1, NothingLands DEF Served, Truthful

\* What lands was not acknowledged before.
LEMMA LandedAcks ==
    ASSUME SP!IInv, Alive, Acks, NEW id, NEW d, NEW b, Landed(id, d, b),
           id # 0 => \A x \in acks : x[1] # id,
           UNCHANGED <<tail, revision, behind, issued, acks>>
    PROVE  Acks'
<1>1. LeftLane' /\ GoesOn' /\ NoSilentRebase'
  BY DEF Acks, LeftLane, GoesOn, NoSilentRebase
<1>2. Knows'
  <2> SUFFICES ASSUME NEW e \in Designs, NEW n \in OwnIn(trail'[e]),
                      <<Mark(trail'[e], n), n>> \in acks
               PROVE  n <= revision[e]
    BY DEF Knows
  <2>1. CASE n \in OwnIn(trail[e])
    <3>1. Mark(trail'[e], n) = Mark(trail[e], n)
      BY <2>1 DEF Landed
    <3> QED BY <2>1, <3>1 DEF Acks, Knows
  <2>2. CASE n \notin OwnIn(trail[e])
    <3>1. id # 0 /\ Mark(trail'[e], n) = id
      BY <2>2 DEF Landed
    <3>2. \A x \in acks : x[1] # Mark(trail'[e], n)
      BY <3>1
    <3>3. <<Mark(trail'[e], n), n>>[1] = Mark(trail'[e], n)
      OBVIOUS
    <3> QED BY <3>2, <3>3
  <2> QED BY <2>1, <2>2
<1> QED BY <1>1, <1>2 DEF Acks

\* What lands builds on every earlier edit of the window.
LEMMA LandedOrder ==
    ASSUME SP!IInv, Alive, InOrder, NEW id, NEW d \in Designs, NEW b, Landed(id, d, b),
           id # 0 => \A n \in OwnIn(trail[d]) : n <= b => Mark(trail[d], n) < id
    PROVE  InOrder'
<1> SUFFICES ASSUME NEW e \in Designs, NEW m \in OwnIn(trail'[e]), NEW n \in OwnIn(trail'[e]),
                    m < n
             PROVE  Mark(trail'[e], m) < Mark(trail'[e], n)
  BY DEF InOrder, Rising
<1>1. \A k \in OwnIn(trail[e]) : k \in 1..head[e]
  BY StoreFacts
<1>2. head[e] \in Nat
  BY StoreFacts
<1>3. CASE m \in OwnIn(trail[e]) /\ n \in OwnIn(trail[e])
  <2>1. Mark(trail[e], m) < Mark(trail[e], n)
    BY <1>3 DEF InOrder, Rising
  <2> QED BY <1>3, <2>1 DEF Landed
<1>4. CASE m \in OwnIn(trail[e]) /\ n \notin OwnIn(trail[e])
  <2>1. id # 0 /\ e = d /\ Mark(trail'[e], n) = id /\ b = head[e]
    BY <1>4 DEF Landed
  <2>2. m <= b /\ Mark(trail'[e], m) = Mark(trail[e], m)
    BY <1>1, <1>2, <1>4, <2>1 DEF Landed
  <2> QED BY <1>4, <2>1, <2>2
<1>5. CASE m \notin OwnIn(trail[e])
  <2>1. m = head[e] + 1
    BY <1>5 DEF Landed
  <2>2. n \in 1..head[e] \/ n = head[e] + 1
    BY <1>1 DEF Landed
  <2> QED BY <1>2, <2>1, <2>2
<1> QED BY <1>3, <1>4, <1>5

\* A command that is nowhere stays so, unless it is the one that is served.
LEMMA LandedVoid ==
    ASSUME NEW id, NEW d, NEW b, Landed(id, d, b),
           \A v \in waiting' : v \in waiting \/ Own(v.request) \in {0, id},
           NEW n, n # 0, n # id, Void(n)
    PROVE  Void(n)'
<1>1. ~UnderWay(waiting', n)
  BY DEF UnderWay, Void
<1>2. ~InDesign(trail', n)
  BY DEF InDesign, Void, Landed
<1> QED BY <1>1, <1>2 DEF Void

\* What lands is the one try of its edit.
LEMMA TriesKept ==
    ASSUME Rest, Lanes, Senders, QP!LInv, Tries, \A n \in 1..issued : Void(n) => Void(n)',
           UNCHANGED <<issued, origin, retained, settled, tail, step>>
    PROVE  Tries'
<1>1. OneTry' /\ NotTried'
  BY DEF Tries, OneTry, NotTried
<1>2. NotYet'
  <2> SUFFICES ASSUME NEW e \in Designs, step[e] \in {"asking", "resending"}
               PROVE  Void(tail[e][1].id)'
    BY DEF NotYet, Void
  <2>1. tail[e][1].id \in 1..issued
    BY QueueFacts, TaskFacts DEF Senders, Lanes, Lane
  <2>2. Void(tail[e][1].id)
    BY DEF Tries, NotYet
  <2> QED BY <2>1, <2>2
<1> QED BY <1>1, <1>2 DEF Tries

-----------------------------------------------------------------------------
(* The backend works while the window waits: the library answers, others   *)
(* write, an answer nobody waits for is gone, the process restarts.        *)

Works(c, q, b) ==
    /\ UNCHANGED <<queueVars, senderVars, review, historyVars>>
    /\ Served(c, q, b) /\ OneEach'
    /\ \A v \in waiting' : v \in waiting \/ (v.conn = c /\ v.request = q /\ Own(q) = 0)
    /\ \/ /\ Own(q) = 0
          /\ ~Linked(c) \/ (answers' \subseteq answers /\ waiting' \subseteq waiting)
       \/ /\ Own(q) # 0
          /\ \E w \in waiting \ waiting' : w.request = q /\ w.base = b /\ w.conn = c

\* Whose command lands when the backend works on a request.
LEMMA WorksFacts ==
    ASSUME CInv, NEW c, NEW q, NEW b, Works(c, q, b)
    PROVE  /\ UNCHANGED <<revision, tail, running, retained, issued, settled, step, base, link,
                          review, behind, origin, acks>>
           /\ Landed(Own(q), q.design, b)
           /\ \A e \in Designs : head[e] <= head'[e] /\ head'[e] \in Nat /\ head[e] \in Nat
           /\ Own(q) # 0 =>
                 \E w \in waiting \ waiting' : w.request = q /\ w.base = b /\ w.conn = c
           /\ \A v \in waiting' : Own(v.request) # 0 => v \in waiting
           /\ \A n : n # 0 /\ Void(n) => Void(n)'
<1>1. /\ UNCHANGED <<revision, tail, running, retained, issued, settled, step, base, link,
                     review, behind, origin, acks>>
      /\ Landed(Own(q), q.design, b)
  BY DEF Works, Served, queueVars, senderVars, historyVars
<1>2. \A e \in Designs : head[e] <= head'[e] /\ head'[e] \in Nat /\ head[e] \in Nat
  BY <1>1, StoreFacts DEF Landed, CInv, Base
<1>3. Own(q) # 0 => \E w \in waiting \ waiting' : w.request = q /\ w.base = b /\ w.conn = c
  BY DEF Works
<1>4. \A v \in waiting' : v \in waiting \/ Own(v.request) = 0
  BY DEF Works
<1>5. ASSUME NEW n, n # 0, Void(n) PROVE Void(n)'
  <2>1. n # Own(q)
    BY <1>3, <1>5 DEF Void, UnderWay
  <2> QED BY ONLY <1>1, <1>4, <1>5, <2>1, LandedVoid
<1> QED BY <1>1, <1>2, <1>3, <1>4, <1>5

\* The design only grows, the senders stay where they are.
LEMMA WorksSenders ==
    ASSUME CInv, NEW c, NEW q, NEW b, Works(c, q, b)
    PROVE  Lanes' /\ Senders' /\ Alive'
<1>1. /\ UNCHANGED <<revision, tail, running, retained, issued, settled, step, base, link,
                     review, behind, origin>>
      /\ \A e \in Designs : head[e] <= head'[e] /\ head'[e] \in Nat /\ head[e] \in Nat
  BY WorksFacts
<1>2. Lanes'
  BY <1>1 DEF CInv, Lanes
<1>3. /\ \A e \in Designs : revision[e] \in Int
      /\ \A e \in Designs : \A n \in 0..head[e] : n \in 0..head'[e]
  BY <1>1, QueueFacts DEF CInv, Base, NoRevision
<1>4. \A e \in Designs : revision[e] <= head[e] => revision[e] <= head'[e]
  BY <1>1, <1>3
<1>5. Senders'
  BY <1>1, <1>3, <1>4 DEF CInv, Senders
<1>6. Alive'
  BY DEF Alive, Works, Served, Landed
<1> QED BY <1>2, <1>5, <1>6

\* A call gives way to its answer, on the same connection.
LEMMA WorksCalls ==
    ASSUME CInv, NEW c, NEW q, NEW b, Works(c, q, b)
    PROVE  Calls'
<1> USE DEF CInv, Base
<1>1. /\ UNCHANGED <<tail, running, issued, step, base, link, acks>>
      /\ Landed(Own(q), q.design, b)
      /\ \A e \in Designs : head[e] <= head'[e] /\ head'[e] \in Nat /\ head[e] \in Nat
      /\ Own(q) # 0 =>
            \E w \in waiting \ waiting' : w.request = q /\ w.base = b /\ w.conn = c
      /\ \A v \in waiting' : Own(v.request) # 0 => v \in waiting
      /\ \A n : n # 0 /\ Void(n) => Void(n)'
  BY WorksFacts
<1>2. OneEach'
  BY DEF Works
<1>3. OwnCalls'
  <2> SUFFICES ASSUME NEW v \in waiting', Own(v.request) # 0
               PROVE  /\ v.base \in 0..head'[v.request.design]
                      /\ \A n \in OwnIn(trail'[v.request.design]) :
                            n <= v.base => Mark(trail'[v.request.design], n) < Own(v.request)
                      /\ \A u \in waiting' : Own(u.request) = Own(v.request) => u = v
                      /\ ~InDesign(trail', Own(v.request)) /\ ~Store!Logged(v.request.id)'
                      /\ \A d \in Designs :
                            running[d] /\ tail[d][1].id = Own(v.request) => v.conn = link[d]
                      /\ \A x \in acks : x[1] # Own(v.request)
    BY <1>1 DEF OwnCalls, Store!Logged
  <2> DEFINE e == v.request.design
  <2>1. v \in waiting /\ e \in Designs /\ v.request \in Store!Request
    BY <1>1, StoreFacts
  <2>2. /\ v.base \in 0..head[e]
        /\ \A n \in OwnIn(trail[e]) : n <= v.base => Mark(trail[e], n) < Own(v.request)
        /\ \A u \in waiting : Own(u.request) = Own(v.request) => u = v
        /\ ~InDesign(trail, Own(v.request)) /\ ~Store!Logged(v.request.id)
        /\ \A d \in Designs : running[d] /\ tail[d][1].id = Own(v.request) => v.conn = link[d]
        /\ \A x \in acks : x[1] # Own(v.request)
    BY <2>1 DEF Calls, OwnCalls
  <2>3. Own(q) # Own(v.request)
    BY <1>1, <2>2
  <2> HIDE DEF e
  <2>4. v.base \in 0..head'[e]
    BY <1>1, <2>1, <2>2
  <2>5. ASSUME NEW n \in OwnIn(trail'[e]), n <= v.base
        PROVE  Mark(trail'[e], n) < Own(v.request)
    <3>1. n \in OwnIn(trail[e])
      BY <1>1, <2>1, <2>2, <2>5 DEF Landed
    <3>2. Mark(trail'[e], n) = Mark(trail[e], n)
      BY <1>1, <2>1, <3>1 DEF Landed
    <3> QED BY <2>2, <2>5, <3>1, <3>2
  <2>6. \A u \in waiting' : Own(u.request) = Own(v.request) => u = v
    BY <1>1, <2>2
  <2>7. ~InDesign(trail', Own(v.request))
    BY <1>1, <2>2, <2>3 DEF InDesign, Landed
  <2>8. ~Store!Logged(v.request.id)'
    <3> SUFFICES ASSUME NEW row \in log', row.request.id = v.request.id PROVE FALSE
      BY DEF Store!Logged
    <3>1. row \in log \/ row.request = q
      BY DEF Works, Served
    <3>2. row \notin log
      BY <2>2 DEF Store!Logged
    <3>3. Own(q) = Own(v.request)
      BY <3>1, <3>2 DEF Own
    <3> QED BY <2>3, <3>3
  <2> QED BY <2>2, <2>4, <2>5, <2>6, <2>7, <2>8 DEF e
<1>4. LinkedCalls'
  <2> SUFFICES ASSUME NEW d \in Designs, NEW v \in waiting', v.conn = link[d]
               PROVE  /\ Own(v.request) = tail[d][1].id /\ v.request.design = d
                      /\ v.base = base[d] /\ ~IsHistory(tail[d][1].input)
    BY <1>1 DEF LinkedCalls
  <2>1. v \in waiting
    BY DEF Works, Linked
  <2> QED BY <2>1 DEF Calls, LinkedCalls
<1>5. LinkedAnswers'
  <2> SUFFICES ASSUME NEW d \in Designs, NEW a \in answers', a.conn = link[d]
               PROVE  /\ a.result.code = "OK" =>
                            /\ a.result.revision \in {base[d], base[d] + 1}
                            /\ a.result.revision <= head'[d]
                      /\ a.result.code # "OK" => Void(tail[d][1].id)'
                      /\ IsHistory(tail[d][1].input) =>
                            a.result.code # "NET_MERGE_REQUIRES_CONFIRM"
    BY <1>1 DEF LinkedAnswers, Void
  <2>1. CASE a \in answers
    <3>1. a.conn \in Connections /\ a.result.revision \in Int
      BY <2>1, StoreFacts
    <3>2. running[d]
      BY <3>1, ConnectionsAssumption DEF Senders, Linking
    <3>3. tail[d][1].id \in 1..issued
      BY <3>2, QueueFacts, TaskFacts DEF Lanes, Lane
    <3>4. /\ a.result.code = "OK" =>
                /\ a.result.revision \in {base[d], base[d] + 1}
                /\ a.result.revision <= head[d]
          /\ a.result.code # "OK" => Void(tail[d][1].id)
          /\ IsHistory(tail[d][1].input) => a.result.code # "NET_MERGE_REQUIRES_CONFIRM"
      BY <2>1 DEF Calls, LinkedAnswers
    <3>5. a.result.code # "OK" => Void(tail[d][1].id)'
      BY <1>1, <3>3, <3>4
    <3> QED BY <1>1, <3>1, <3>4, <3>5
  <2>2. CASE a \notin answers
    <3>1. a.conn = c /\ (Own(q) # 0 => Truthful(a, q, b))
      BY <2>2 DEF Works, Served
    <3>2. Own(q) # 0
      BY <2>2, <3>1 DEF Works, Linked
    <3>3. PICK w \in waiting \ waiting' : w.request = q /\ w.base = b /\ w.conn = c
      BY <1>1, <3>2
    <3>4. /\ Own(q) = tail[d][1].id /\ q.design = d /\ b = base[d]
          /\ ~IsHistory(tail[d][1].input)
      <4>1. w \in waiting /\ w.conn = link[d]
        BY <3>1, <3>3
      <4>2. /\ Own(w.request) = tail[d][1].id /\ w.request.design = d /\ w.base = base[d]
            /\ ~IsHistory(tail[d][1].input)
        BY <4>1 DEF Calls, LinkedCalls
      <4> QED BY <3>3, <4>2
    <3>5. ASSUME a.result.code # "OK" PROVE Void(tail[d][1].id)'
      <4>1. trail' = trail
        BY <3>1, <3>2, <3>5 DEF Truthful
      <4>2. ~InDesign(trail, Own(q)) /\ \A u \in waiting : Own(u.request) = Own(q) => u = w
        BY <3>2, <3>3 DEF Calls, OwnCalls
      <4>3. ~UnderWay(waiting', Own(q))
        BY <1>1, <3>2, <3>3, <4>2 DEF UnderWay
      <4> QED BY <1>1, <3>4, <4>1, <4>2, <4>3 DEF Void
    <3> QED BY <3>1, <3>2, <3>4, <3>5 DEF Truthful
  <2> QED BY <2>1, <2>2
<1> QED BY <1>2, <1>3, <1>4, <1>5 DEF Calls

\* A command that lands was sent, and in its turn.
LEMMA WorksRest ==
    ASSUME CInv, NEW c, NEW q, NEW b, Works(c, q, b)
    PROVE  SentOnce' /\ Tries' /\ InOrder' /\ Acks'
<1> USE DEF CInv, Base
<1>1. /\ UNCHANGED <<revision, tail, retained, issued, settled, step, behind, origin, acks>>
      /\ Landed(Own(q), q.design, b)
      /\ Own(q) # 0 =>
            \E w \in waiting \ waiting' : w.request = q /\ w.base = b /\ w.conn = c
      /\ \A v \in waiting' : Own(v.request) # 0 => v \in waiting
      /\ \A n : n # 0 /\ Void(n) => Void(n)'
  BY WorksFacts
<1>2. SentOnce'
  <2>1. ASSUME NEW p \in Seen', Own(p) # 0 PROVE p \in Seen
    <3>1. \A row \in log' : row \in log \/ row.request = q
      BY DEF Works, Served
    <3> QED BY <1>1, <2>1, <3>1 DEF Seen
  <2> QED BY <1>1, <2>1 DEF SentOnce
<1>3. Tries'
  BY <1>1, TriesKept
<1>4. /\ Own(q) # 0 => \A x \in acks : x[1] # Own(q)
      /\ Own(q) # 0 => q.design \in Designs /\ \A n \in OwnIn(trail[q.design]) :
                           n <= b => Mark(trail[q.design], n) < Own(q)
  <2> SUFFICES ASSUME Own(q) # 0
               PROVE  /\ \A x \in acks : x[1] # Own(q)
                      /\ q.design \in Designs
                      /\ \A n \in OwnIn(trail[q.design]) :
                            n <= b => Mark(trail[q.design], n) < Own(q)
    OBVIOUS
  <2>1. PICK w \in waiting : w.request = q /\ w.base = b
    BY <1>1
  <2>2. /\ \A x \in acks : x[1] # Own(w.request)
        /\ \A n \in OwnIn(trail[w.request.design]) :
              n <= w.base => Mark(trail[w.request.design], n) < Own(w.request)
    BY <2>1 DEF Calls, OwnCalls
  <2>3. w.request.design \in Designs
    BY StoreFacts
  <2> QED BY <2>1, <2>2, <2>3
<1>5. Acks'
  BY ONLY SP!IInv, Alive, Acks, <1>1, <1>4, LandedAcks
<1>6. InOrder'
  <2>1. CASE Own(q) # 0
    BY ONLY SP!IInv, Alive, InOrder, <1>1, <1>4, <2>1, LandedOrder
  <2>2. CASE Own(q) = 0
    <3>1. \A e \in Designs : Landed(0, e, b)
      BY <1>1, <2>2 DEF Landed
    <3>2. \A e \in Designs : InOrder'
      BY ONLY SP!IInv, Alive, InOrder, <3>1, LandedOrder
    <3> QED BY <3>2 DEF InOrder
  <2> QED BY <2>1, <2>2
<1> QED BY <1>2, <1>3, <1>5, <1>6

\* A transaction always answers.
LEMMA TransactReplies ==
    ASSUME NEW c, NEW q, NEW b, Store!Transact(c, q, b)
    PROVE  \E id, r : Store!Reply(c, id, r)
<1>1. CASE Store!Missing(c, q)
  BY <1>1 DEF Store!Missing
<1>2. CASE Store!Stale(c, q, b)
  BY <1>2 DEF Store!Stale
<1>3. CASE Store!Apply(c, q, b)
  BY <1>3 DEF Store!Apply
<1>4. CASE Store!NothingToDo(c, q, b) \/ Store!Reject(c, q, b)
  BY <1>4 DEF Store!NothingToDo, Store!Reject
<1>5. CASE Store!RefuseMerge(c, q, b) \/ Store!Throw(c, q, b)
  BY <1>5 DEF Store!RefuseMerge, Store!Throw
<1> QED BY <1>1, <1>2, <1>3, <1>4, <1>5 DEF Store!Transact

\* A call that is answered leaves its connection to the answer.
LEMMA ReplyOneEach ==
    ASSUME OneEach, NEW c, NEW id, NEW r, Store!Reply(c, id, r),
           waiting' \subseteq waiting, \A v \in waiting' : v.conn # c,
           \A a \in answers : a.conn # c
    PROVE  OneEach'
  BY DEF OneEach, Store!Reply

\* A connection a sender waits on carries a command of the window.
LEMMA UnlinkedCalls ==
    ASSUME CInv, NEW w \in waiting, Own(w.request) = 0
    PROVE  ~Linked(w.conn)
<1> USE DEF CInv, Base
<1> SUFFICES ASSUME NEW d \in Designs, link[d] = w.conn PROVE FALSE
  BY DEF Linked
<1>0. w.conn \in Connections
  BY StoreFacts
<1>1. running[d]
  <2>1. link[d] # NoConnection
    BY <1>0, ConnectionsAssumption
  <2> QED BY <2>1 DEF Senders, Linking
<1>2. tail[d][1].id \in 1..issued
  BY <1>1, QueueFacts, TaskFacts DEF Lanes, Lane
<1>3. Own(w.request) = tail[d][1].id
  BY DEF Calls, LinkedCalls
<1> QED BY <1>2, <1>3

\* A parked call goes on, or fails.
LEMMA LibraryWorks ==
    ASSUME CInv, LibraryAnswers
    PROVE  /\ \E c, q, b : Works(c, q, b)
           /\ \E w \in waiting : Store!LibraryResolved(w) \/ Store!LibraryFailed(w)
<1> USE DEF CInv, Base
<1>1. PICK w \in waiting : Store!LibraryResolved(w) \/ Store!LibraryFailed(w)
  BY DEF LibraryAnswers
<1> DEFINE c == w.conn
           q == w.request
           b == w.base
<1>2. /\ UNCHANGED <<queueVars, senderVars, review, historyVars>>
      /\ waiting' = waiting \ {w}
  BY <1>1 DEF LibraryAnswers, Store!LibraryResolved, Store!LibraryFailed
<1>3. /\ q \in Store!Request /\ b \in Int /\ OneEach
      /\ Own(q) # 0 => b \in 0..head[q.design] /\ ~Store!Logged(q.id)
  BY StoreFacts DEF Calls, OwnCalls
<1>6. Served(c, q, b) /\ \E id, r : Store!Reply(c, id, r)
  <2>1. CASE Store!LibraryFailed(w)
    <3>1. Store!Reply(c, q.id, Store!Outcome("ERROR")) /\ UNCHANGED <<head, log, trail>>
      BY <2>1 DEF Store!LibraryFailed
    <3>2. Store!Outcome("ERROR").code # "OK"
      BY DEF Store!Outcome
    <3> QED BY <3>1, <3>2, QuietServes
  <2>2. CASE Store!LibraryResolved(w) /\ Store!Logged(q.id)
    <3>1. Own(q) = 0 /\ UNCHANGED <<head, log, trail>> /\ Store!Replay(c, q)
      BY <1>3, <2>2 DEF Store!LibraryResolved
    <3>2. PICK id, r : Store!Reply(c, id, r)
      BY <3>1 DEF Store!Replay
    <3> QED BY <3>1, <3>2, QuietServes
  <2>3. CASE Store!LibraryResolved(w) /\ ~Store!Logged(q.id)
    BY <1>3, <2>3, TransactServes, TransactReplies DEF Store!LibraryResolved
  <2> QED BY <1>1, <2>1, <2>2, <2>3
<1>7. OneEach'
  <2>1. /\ \A v \in waiting' : v.conn # c
        /\ \A a \in answers : a.conn # c
    BY <1>2, <1>3 DEF OneEach
  <2> QED BY ONLY <1>2, <1>3, <1>6, <2>1, ReplyOneEach
<1>8. \/ Own(q) = 0 /\ ~Linked(c)
      \/ Own(q) # 0 /\ \E u \in waiting \ waiting' : u.request = q /\ u.base = b /\ u.conn = c
  BY <1>2, UnlinkedCalls
<1>9. Works(c, q, b)
  BY <1>2, <1>6, <1>7, <1>8 DEF Works
<1> QED BY <1>1, <1>9

\* Another writer is served on a connection nobody in the window uses.
LEMMA ExternalWorks ==
    ASSUME CInv, NEW c \in Connections, NEW req \in ExternalRequests, ExternalWrite(c, req)
    PROVE  /\ Works(c, req, NoRevision)
           /\ req \in Store!Request /\ Store!Dispatch(c, req, NoRevision)
<1> USE DEF CInv, Base
<1>1. /\ Own(req) = 0 /\ req \in Store!Request /\ NoRevision \in Int
      /\ ~Linked(c) /\ Store!Dispatch(c, req, NoRevision) /\ Store!Idle(c)
      /\ UNCHANGED <<queueVars, senderVars, review, historyVars>>
  BY OwnIds, ExternalAssumption DEF Own, ExternalWrite, NoRevision, Store!Dispatch
<1>2. OneEach /\ (\A v \in waiting : v.conn # c) /\ (\A a \in answers : a.conn # c)
  BY <1>1 DEF Calls, Store!Idle
<1>3. CASE \E id, r : Store!Reply(c, id, r) /\ waiting' = waiting /\ Served(c, req, NoRevision)
  <2>1. OneEach'
    BY <1>2, <1>3, ReplyOneEach
  <2> QED BY <1>1, <1>3, <2>1 DEF Works
<1>4. CASE Store!Logged(req.id) /\ Store!Replay(c, req)
           /\ UNCHANGED <<head, log, waiting, trail>>
  <2>1. PICK id, r : Store!Reply(c, id, r)
    BY <1>4 DEF Store!Replay
  <2>2. Served(c, req, NoRevision)
    BY <1>1, <1>4, <2>1, QuietServes
  <2> QED BY <1>3, <1>4, <2>1, <2>2
<1>5. CASE /\ waiting' = waiting \cup {[conn |-> c, request |-> req, base |-> NoRevision]}
           /\ UNCHANGED <<head, log, answers, trail>>
  <2> DEFINE v == [conn |-> c, request |-> req, base |-> NoRevision]
  <2>1. v.conn = c /\ v.request = req
    OBVIOUS
  <2>2. waiting' = waiting \cup {v}
    BY <1>5
  <2> HIDE DEF v
  <2>3. OneEach'
    BY <1>2, <1>5, <2>1, <2>2 DEF OneEach
  <2>4. Served(c, req, NoRevision)
    BY <1>5, NothingLands DEF Served
  <2> QED BY <1>1, <2>1, <2>2, <2>3, <2>4 DEF Works
<1>6. CASE Store!Transact(c, req, NoRevision) /\ waiting' = waiting
  <2>1. Served(c, req, NoRevision)
    BY <1>1, <1>6, TransactServes
  <2> QED BY <1>3, <1>6, <2>1, TransactReplies
<1>7. \/ Store!Logged(req.id) /\ Store!Replay(c, req) /\ UNCHANGED <<head, log, waiting, trail>>
      \/ /\ waiting' = waiting \cup {[conn |-> c, request |-> req, base |-> NoRevision]}
         /\ UNCHANGED <<head, log, answers, trail>>
      \/ Store!Transact(c, req, NoRevision) /\ waiting' = waiting
  BY <1>1 DEF Store!Dispatch
<1> QED BY <1>1, <1>4, <1>5, <1>6, <1>7

\* A restart forgets the calls and keeps the designs.
LEMMA RestartWorks ==
    ASSUME CInv, BackendRestart
    PROVE  \E c, q, b : Works(c, q, b)
<1> USE DEF CInv, Base
<1> DEFINE q == [id |-> 0, design |-> 0]
<1>1. Own(q) = 0
  BY BoundsAssumption DEF Own, OwnId
<1>2. /\ UNCHANGED <<queueVars, senderVars, review, historyVars>>
      /\ UNCHANGED <<head, log, trail>> /\ waiting' = {} /\ answers' = {}
  BY DEF BackendRestart, Store!Restart
<1> HIDE DEF q
<1>3. Served(0, q, 0) /\ OneEach'
  BY <1>2, NothingLands DEF Served, OneEach
<1>4. Works(0, q, 0)
  BY <1>1, <1>2, <1>3 DEF Works
<1> QED BY <1>4

\* An answer nobody in the window waits for.
LEMMA ExternalAnswerKeeps ==
    ASSUME CInv, NEW a \in answers, ExternalAnswer(a)
    PROVE  Stays /\ Senders'
<1> USE DEF CInv, Base
<1>1. /\ UNCHANGED <<queueVars, senderVars, review, historyVars>>
      /\ UNCHANGED <<head, log, waiting, trail>> /\ answers' \subseteq answers
  BY DEF ExternalAnswer, Store!Deliver
<1>2. Stays
  BY <1>1 DEF Stays, queueVars, senderVars, historyVars, Sent, Tries, NotYet
<1>3. Senders'
  BY <1>1 DEF Senders, queueVars, senderVars
<1> QED BY <1>2, <1>3

-----------------------------------------------------------------------------
(* The request of the running task reaches the backend. *)

SentRequest(d) == RequestOf(d, step[d] = "resending")
SentCall(d, c) == [conn |-> c, request |-> SentRequest(d), base |-> base[d]]
SentEdit(d) == IF IsHistory(tail[d][1].input) THEN 0 ELSE tail[d][1].id

Sends(d, c) ==
    /\ UNCHANGED <<queueVars, base, review, historyVars>>
    /\ c \in Connections /\ ~Linked(c) /\ Store!Idle(c)
    /\ step[d] \in {"sending", "resending"}
    /\ link' = [link EXCEPT ![d] = c]
    /\ step' = [step EXCEPT ![d] = IF @ = "sending" THEN "awaiting" ELSE "reawaiting"]
    /\ Landed(SentEdit(d), d, base[d]) /\ OneEach'
    /\ \A v \in waiting' :
          \/ v \in waiting
          \/ /\ v = SentCall(d, c) /\ ~IsHistory(tail[d][1].input)
             /\ UNCHANGED <<log, trail>>
    /\ \A a \in answers' :
          \/ a \in answers
          \/ /\ a.conn = c /\ waiting' = waiting
             /\ Truthful(a, SentRequest(d), base[d])
             /\ IsHistory(tail[d][1].input) => a.result.code # "NET_MERGE_REQUIRES_CONFIRM"
    /\ \A row \in log' : row \in log \/ row.request = SentRequest(d)

\* The command that is sent has not been sent before.
LEMMA SendFacts ==
    ASSUME CInv, NEW d \in Designs, step[d] \in {"sending", "resending"}
    PROVE  /\ 1 \in 1..Len(tail[d]) /\ Task(d) = tail[d][1] /\ running[d]
           /\ tail[d][1].id \in 1..issued /\ tail[d][1].id \in 1..MaxCommands
           /\ tail[d][1].input \in Inputs /\ origin[tail[d][1].id] = tail[d][1].input
           /\ Own(SentRequest(d)) = tail[d][1].id /\ SentRequest(d).design = d
           /\ SentRequest(d) \in Store!Request
           /\ SentRequest(d).id # tail[d][1].id => step[d] = "resending"
           /\ Void(tail[d][1].id)
           /\ ~Store!Logged(SentRequest(d).id)
           /\ base[d] \in 0..head[d] /\ head[d] \in Nat
           /\ \A n \in OwnIn(trail[d]) : Mark(trail[d], n) < tail[d][1].id
           /\ \A x \in acks : x[1] # tail[d][1].id
           /\ \A e \in Designs : \A k \in 1..Len(tail[e]) :
                 tail[e][k].id = tail[d][1].id => e = d /\ k = 1
<1> USE DEF CInv, Base
<1> DEFINE t == tail[d][1].id
           q == SentRequest(d)
<1>1. /\ running[d] /\ 1 \in 1..Len(tail[d]) /\ Task(d) = tail[d][1]
      /\ tail[d][1].input \in Inputs
  BY QueueFacts, TaskFacts DEF Senders
<1>2. t \in 1..issued /\ issued <= MaxCommands /\ origin[t] = tail[d][1].input
  BY <1>1 DEF Lanes, Lane
<1>3. t \in 1..MaxCommands /\ issued \in Nat
  BY <1>2, QueueFacts, BoundsAssumption
<1>4. q.id = (IF step[d] = "resending" THEN ResendId(t) ELSE t) /\ q.design = d
  BY <1>1 DEF SentRequest, RequestOf
<1>5. Own(q) = t /\ q.id \in Nat \ {0} /\ (q.id # t => step[d] = "resending")
  BY <1>3, <1>4, OwnIds DEF Own
<1>6. q \in Store!Request
  <2> DEFINE act == TaskAction(d)
             cmd == IF step[d] = "resending" THEN [act.command EXCEPT !.confirmMerge = TRUE]
                    ELSE act.command
  <2>1. act \in Action
    BY <1>1, ActionsAssumption DEF TaskAction
  <2>2. act.session \in Sessions /\ act.command \in Store!Command
    BY <2>1 DEF Action
  <2>3. cmd \in Store!Command
    BY <2>2 DEF Store!Command
  <2>4. q = [id |-> q.id, design |-> d, session |-> act.session, command |-> cmd]
    BY DEF SentRequest, RequestOf
  <2> HIDE DEF act, cmd, q
  <2> QED BY <1>5, <2>2, <2>3, <2>4 DEF Store!Request
<1>7. ASSUME NEW p \in Seen, Own(p) = t
      PROVE  step[d] = "resending" /\ p.id = t
  <2>1. step[d] \in {"awaiting", "asking", "resending", "reawaiting"}
    BY <1>1, <1>3, <1>7 DEF SentOnce
  <2>2. p.id # t => step[d] = "reawaiting"
    BY <1>1, <1>3, <1>7 DEF SentOnce
  <2> QED BY <2>1, <2>2
<1>8. Void(t)
  <2>1. CASE step[d] = "resending"
    BY <2>1 DEF Tries, NotYet
  <2>2. CASE step[d] = "sending"
    <3>1. \A p \in Seen : Own(p) # t
      BY <1>7, <2>2
    <3>2. ~UnderWay(waiting, t)
      BY <3>1, StoreFacts DEF UnderWay
    <3>3. ~InDesign(trail, t)
      BY <3>1, StoreFacts DEF InDesign
    <3> QED BY <3>2, <3>3 DEF Void
  <2> QED BY <2>1, <2>2
<1>9. ~Store!Logged(q.id)
  <2> SUFFICES ASSUME NEW row \in log, row.request.id = q.id PROVE FALSE
    BY DEF Store!Logged
  <2>1. row.request \in Seen /\ Own(row.request) = t
    BY <1>5, StoreFacts DEF Own
  <2>2. step[d] = "resending" /\ q.id = t
    BY <1>7, <2>1
  <2> QED BY <1>3, <1>4, <2>2, OwnIds
<1>10. base[d] \in 0..head[d] /\ head[d] \in Nat
  BY StoreFacts DEF Senders
<1>11. ASSUME NEW n \in OwnIn(trail[d]) PROVE Mark(trail[d], n) < t
  <2>1. PICK p \in Seen : p.design = d /\ Own(p) = Mark(trail[d], n)
    BY StoreFacts
  <2>2. Mark(trail[d], n) \in Nat \ {0}
    BY StoreFacts
  <2>3. Own(p) <= t
    BY <1>1, <2>1, <2>2 DEF SentOnce
  <2>4. Mark(trail[d], n) # t
    BY <1>8 DEF Void, InDesign
  <2> QED BY <1>3, <2>1, <2>2, <2>3, <2>4
<1>12. \A x \in acks : x[1] # t
  BY <1>1 DEF Acks, LeftLane
<1>13. ASSUME NEW e \in Designs, NEW k \in 1..Len(tail[e]), tail[e][k].id = t
       PROVE  e = d /\ k = 1
  BY ONLY QP!LInv, Lanes, <1>1, <1>13, d \in Designs, LanesApart
<1> QED BY <1>1, <1>2, <1>3, <1>5, <1>4, <1>6, <1>8, <1>9, <1>10, <1>11, <1>12, <1>13

\* The sender waits on a connection of its own.
LEMMA SendsSenders ==
    ASSUME CInv, NEW d \in Designs, NEW c, Sends(d, c)
    PROVE  Lanes' /\ Senders' /\ Alive'
<1> USE DEF CInv, Base
<1>1. /\ UNCHANGED <<revision, tail, running, retained, issued, settled, base, review,
                     behind, origin>>
      /\ c \in Connections /\ \A e \in Designs : link[e] # c
      /\ step[d] \in {"sending", "resending"} /\ step'[d] \in Linking
      /\ step[d] = "sending" => step'[d] = "awaiting"
      /\ link'[d] = c
      /\ \A e \in Designs \ {d} : step'[e] = step[e] /\ link'[e] = link[e]
  BY DEF Sends, Linked, queueVars, historyVars, Rest, Linking
<1>2. /\ \A e \in Designs : head[e] <= head'[e] /\ head'[e] \in Nat /\ head[e] \in Nat
      /\ Alive'
  BY StoreFacts DEF Sends, Landed, Alive
<1>3. Lanes'
  BY <1>1 DEF Lanes
<1>4. /\ \A e \in Designs : revision[e] \in Int
      /\ \A e \in Designs : \A n \in 0..head[e] : n \in 0..head'[e]
  BY <1>2, QueueFacts DEF NoRevision
<1>5. \A e \in Designs : revision[e] <= head[e] => revision[e] <= head'[e]
  BY <1>2, <1>4
<1>6. step'[d] \in Merging => step[d] = "resending"
  BY <1>1 DEF Merging
<1>7. Senders'
  <2> SUFFICES ASSUME NEW e \in Designs
               PROVE  /\ running[e] <=> step'[e] # "idle"
                      /\ IF step'[e] \in Linking THEN link'[e] \in Connections
                         ELSE link'[e] = NoConnection
                      /\ \A f \in Designs :
                            link'[e] = link'[f] /\ link'[e] # NoConnection => e = f
                      /\ step'[e] = "reading" => revision[e] = NoRevision
                      /\ step'[e] \notin {"idle", "reading"} =>
                            base[e] \in 0..head'[e] /\ revision[e] \in {NoRevision, base[e]}
                      /\ step'[e] \in Merging => ~IsHistory(tail[e][1].input)
                      /\ revision[e] <= head'[e]
                      /\ review[e].phase \in {"read", "refreshed"} =>
                            review[e].revision \in 0..head'[e]
    BY <1>1 DEF Senders
  <2>1. CASE e = d
    <3>1. \A f \in Designs : link'[e] = link'[f] /\ link'[e] # NoConnection => e = f
      BY <1>1, <2>1
    <3> QED BY <1>1, <1>4, <1>5, <1>6, <2>1, <3>1 DEF Senders, Linking, Merging
  <2>2. CASE e # d
    <3>1. \A f \in Designs : link'[e] = link'[f] /\ link'[e] # NoConnection => e = f
      BY <1>1, <2>2 DEF Senders
    <3> QED BY <1>1, <1>4, <1>5, <2>2, <3>1 DEF Senders
  <2> QED BY <2>1, <2>2
<1> QED BY <1>2, <1>3, <1>7

\* No command but the one that is sent can land.
LEMMA SendsVoid ==
    ASSUME CInv, NEW d \in Designs, NEW c, Sends(d, c), NEW n, n # 0, n # tail[d][1].id, Void(n)
    PROVE  Void(n)'
<1>1. Own(SentRequest(d)) = tail[d][1].id
  BY SendFacts DEF Sends
<1>2. SentCall(d, c).request = SentRequest(d)
  BY DEF SentCall
<1>3. ~UnderWay(waiting', n)
  BY <1>1, <1>2 DEF UnderWay, Void, Sends
<1>4. ~InDesign(trail', n)
  <2>1. SentEdit(d) # n /\ Landed(SentEdit(d), d, base[d])
    BY DEF SentEdit, Sends
  <2> SUFFICES ASSUME NEW e \in Designs, NEW m \in OwnIn(trail'[e]), Mark(trail'[e], m) = n
               PROVE  FALSE
    BY DEF InDesign
  <2>2. m \in OwnIn(trail[e])
    BY <2>1 DEF Landed
  <2>3. Mark(trail[e], m) = n
    BY <2>1, <2>2 DEF Landed
  <2> QED BY <2>2, <2>3 DEF Void, InDesign
<1> QED BY <1>3, <1>4 DEF Void

\* The call is the only one of its command.
LEMMA SendsCalls ==
    ASSUME CInv, NEW d \in Designs, NEW c, Sends(d, c)
    PROVE  Calls'
<1> USE DEF CInv, Base
<1> DEFINE t == tail[d][1].id
           q == SentRequest(d)
<1>1. /\ UNCHANGED <<tail, running, issued, base, acks>>
      /\ c \in Connections /\ \A e \in Designs : link[e] # c
      /\ (\A v \in waiting : v.conn # c) /\ (\A a \in answers : a.conn # c)
      /\ link'[d] = c /\ \A e \in Designs \ {d} : link'[e] = link[e]
      /\ Landed(SentEdit(d), d, base[d])
      /\ OneEach'
  BY DEF Sends, Linked, Store!Idle, queueVars, historyVars, Rest
<1>2. \A e \in Designs : head[e] <= head'[e] /\ head'[e] \in Nat /\ head[e] \in Nat
  BY <1>1, StoreFacts DEF Landed
<1>3. /\ t \in 1..issued /\ Own(q) = t /\ q.design = d
      /\ Void(t) /\ ~Store!Logged(q.id)
      /\ base[d] \in 0..head[d]
      /\ \A n \in OwnIn(trail[d]) : Mark(trail[d], n) < t
      /\ \A x \in acks : x[1] # t
      /\ 1 \in 1..Len(tail[d]) /\ running[d]
      /\ \A e \in Designs : \A k \in 1..Len(tail[e]) : tail[e][k].id = t => e = d /\ k = 1
  BY SendFacts DEF Sends
<1>4. \A v \in waiting : Own(v.request) # t
  BY <1>3 DEF Void, UnderWay
<1>5. /\ SentCall(d, c).conn = c /\ SentCall(d, c).request = q /\ SentCall(d, c).base = base[d]
  BY DEF SentCall
<1>6. \A v \in waiting' : v \in waiting \/ (/\ v = SentCall(d, c)
                                            /\ ~IsHistory(tail[d][1].input)
                                            /\ UNCHANGED <<log, trail>>)
  BY DEF Sends
<1>7. \A e \in Designs : running[e] => tail[e][1].id \in 1..issued /\ 1 \in 1..Len(tail[e])
  BY QueueFacts, TaskFacts DEF Lanes, Lane
<1> HIDE DEF t, q
<1>8. OwnCalls'
  <2> SUFFICES ASSUME NEW v \in waiting', Own(v.request) # 0
               PROVE  /\ v.base \in 0..head'[v.request.design]
                      /\ \A n \in OwnIn(trail'[v.request.design]) :
                            n <= v.base => Mark(trail'[v.request.design], n) < Own(v.request)
                      /\ \A u \in waiting' : Own(u.request) = Own(v.request) => u = v
                      /\ ~InDesign(trail', Own(v.request)) /\ ~Store!Logged(v.request.id)'
                      /\ \A e \in Designs :
                            running[e] /\ tail[e][1].id = Own(v.request) => v.conn = link'[e]
                      /\ \A x \in acks : x[1] # Own(v.request)
    BY <1>1 DEF OwnCalls, Store!Logged
  <2>1. CASE v \in waiting
    <3> DEFINE e == v.request.design
    <3>1. e \in Designs
      BY <2>1, StoreFacts
    <3>2. /\ v.base \in 0..head[e]
          /\ \A n \in OwnIn(trail[e]) : n <= v.base => Mark(trail[e], n) < Own(v.request)
          /\ \A u \in waiting : Own(u.request) = Own(v.request) => u = v
          /\ ~InDesign(trail, Own(v.request)) /\ ~Store!Logged(v.request.id)
          /\ \A f \in Designs : running[f] /\ tail[f][1].id = Own(v.request) => v.conn = link[f]
          /\ \A x \in acks : x[1] # Own(v.request)
      BY <2>1 DEF Calls, OwnCalls
    <3>3. Own(v.request) # t
      BY <1>4, <2>1
    <3> HIDE DEF e
    <3>4. v.base \in 0..head'[e]
      BY <1>2, <3>1, <3>2
    <3>5. ASSUME NEW n \in OwnIn(trail'[e]), n <= v.base
          PROVE  Mark(trail'[e], n) < Own(v.request)
      <4>1. n \in OwnIn(trail[e])
        BY <1>1, <1>2, <3>1, <3>2, <3>5 DEF Landed
      <4>2. Mark(trail'[e], n) = Mark(trail[e], n)
        BY <1>1, <3>1, <4>1 DEF Landed
      <4> QED BY <3>2, <3>5, <4>1, <4>2
    <3>6. \A u \in waiting' : Own(u.request) = Own(v.request) => u = v
      BY <1>3, <1>5, <1>6, <3>2, <3>3
    <3>7. ~InDesign(trail', Own(v.request))
      <4>1. SentEdit(d) # Own(v.request)
        BY <3>3 DEF SentEdit, t
      <4> QED BY <1>1, <3>2, <4>1 DEF InDesign, Landed
    <3>8. ~Store!Logged(v.request.id)'
      <4> SUFFICES ASSUME NEW row \in log', row.request.id = v.request.id PROVE FALSE
        BY DEF Store!Logged
      <4>1. row \in log \/ row.request = q
        BY DEF Sends, q
      <4>2. row \notin log
        BY <3>2 DEF Store!Logged
      <4>3. Own(q) = Own(v.request)
        BY <4>1, <4>2 DEF Own
      <4> QED BY <1>3, <3>3, <4>3
    <3>9. ASSUME NEW f \in Designs, running[f], tail[f][1].id = Own(v.request)
          PROVE  v.conn = link'[f]
      <4>1. f # d
        BY <3>3, <3>9 DEF t
      <4> QED BY <1>1, <3>2, <3>9, <4>1
    <3> QED BY <3>2, <3>4, <3>5, <3>6, <3>7, <3>8, <3>9 DEF e
  <2>2. CASE v \notin waiting
    <3>1. v = SentCall(d, c) /\ UNCHANGED <<log, trail>>
      BY <1>6, <2>2
    <3>2. v.base = base[d] /\ v.request = q /\ v.conn = c
      BY <1>5, <3>1
    <3>3. v.base \in 0..head'[d]
      BY <1>2, <1>3, <3>2
    <3>4. \A u \in waiting' : Own(u.request) = Own(v.request) => u = v
      BY <1>3, <1>4, <1>6, <3>1, <3>2
    <3>5. ~InDesign(trail', Own(v.request)) /\ ~Store!Logged(v.request.id)'
      <4>1. ~InDesign(trail, Own(v.request)) /\ ~Store!Logged(v.request.id)
        BY <1>3, <3>2 DEF Void
      <4> QED BY <3>1, <4>1 DEF Store!Logged
    <3>6. ASSUME NEW f \in Designs, running[f], tail[f][1].id = t
          PROVE  c = link'[f]
      BY <1>1, <1>3, <1>7, <3>6
    <3>7. /\ \A n \in OwnIn(trail'[d]) : Mark(trail'[d], n) < t
          /\ v.request.design = d /\ Own(v.request) = t
      BY <1>3, <3>1, <3>2
    <3> QED BY <1>3, <3>2, <3>3, <3>4, <3>5, <3>6, <3>7
  <2> QED BY <2>1, <2>2
<1>9. LinkedCalls'
  <2> SUFFICES ASSUME NEW e \in Designs, NEW v \in waiting', v.conn = link'[e]
               PROVE  /\ Own(v.request) = tail[e][1].id /\ v.request.design = e
                      /\ v.base = base[e] /\ ~IsHistory(tail[e][1].input)
    BY <1>1 DEF LinkedCalls
  <2>1. CASE e = d
    <3>1. v \notin waiting
      BY <1>1, <2>1
    <3>2. v = SentCall(d, c) /\ ~IsHistory(tail[d][1].input)
      BY <1>6, <3>1
    <3> QED BY <1>3, <1>5, <2>1, <3>2 DEF t
  <2>2. CASE e # d
    <3>1. v.conn = link[e]
      BY <1>1, <2>2
    <3>2. v \in waiting
      BY <1>1, <1>5, <1>6, <3>1
    <3> QED BY <3>1, <3>2 DEF Calls, LinkedCalls
  <2> QED BY <2>1, <2>2
<1>10. LinkedAnswers'
  <2> SUFFICES ASSUME NEW e \in Designs, NEW a \in answers', a.conn = link'[e]
               PROVE  /\ a.result.code = "OK" =>
                            /\ a.result.revision \in {base[e], base[e] + 1}
                            /\ a.result.revision <= head'[e]
                      /\ a.result.code # "OK" => Void(tail[e][1].id)'
                      /\ IsHistory(tail[e][1].input) =>
                            a.result.code # "NET_MERGE_REQUIRES_CONFIRM"
    BY <1>1 DEF LinkedAnswers, Void
  <2>1. CASE e = d
    <3>1. a \notin answers
      BY <1>1, <2>1
    <3>2. /\ waiting' = waiting /\ Truthful(a, q, base[d])
          /\ IsHistory(tail[d][1].input) => a.result.code # "NET_MERGE_REQUIRES_CONFIRM"
      BY <3>1 DEF Sends, q
    <3>3. a.result.code # "OK" => Void(t)'
      BY <1>1, <1>3, <3>2 DEF Truthful, Void, t
    <3> QED BY <1>1, <1>3, <2>1, <3>2, <3>3 DEF Truthful, t
  <2>2. CASE e # d
    <3>1. a.conn = link[e]
      BY <1>1, <2>2
    <3>2. a \in answers
      BY <1>1, <3>1 DEF Sends
    <3>3. a.conn \in Connections /\ a.result.revision \in Int
      BY <3>2, StoreFacts
    <3>4. link[e] # NoConnection
      BY <3>1, <3>3, ConnectionsAssumption
    <3>5. running[e]
      BY <3>4 DEF Senders, Linking
    <3>6. tail[e][1].id \in 1..issued /\ tail[e][1].id # t
      BY <1>3, <1>7, <2>2, <3>5
    <3>7. /\ a.result.code = "OK" =>
                a.result.revision \in {base[e], base[e] + 1} /\ a.result.revision <= head[e]
          /\ a.result.code # "OK" => Void(tail[e][1].id)
          /\ IsHistory(tail[e][1].input) => a.result.code # "NET_MERGE_REQUIRES_CONFIRM"
      BY <3>1, <3>2 DEF Calls, LinkedAnswers
    <3>8. ASSUME a.result.code # "OK" PROVE Void(tail[e][1].id)'
      <4>1. ASSUME NEW n, n = tail[e][1].id PROVE Void(n)'
        <5>1. CInv /\ Sends(d, c)
          OBVIOUS
        <5>2. n # 0 /\ n # tail[d][1].id /\ Void(n)
          BY <3>6, <3>7, <3>8, <4>1 DEF t
        <5> QED BY ONLY <5>1, <5>2, SendsVoid, d \in Designs
      <4> QED BY <1>1, <4>1 DEF Void
    <3> QED BY <1>2, <3>3, <3>7, <3>8
  <2> QED BY <2>1, <2>2
<1> QED BY <1>1, <1>8, <1>9, <1>10 DEF Calls

\* The request is the first of its command, and the next of its lane.
LEMMA SendsRest ==
    ASSUME CInv, NEW d \in Designs, NEW c, Sends(d, c)
    PROVE  SentOnce' /\ Tries' /\ InOrder' /\ Acks'
<1> USE DEF CInv, Base
<1> DEFINE t == tail[d][1].id
           q == SentRequest(d)
<1>1. /\ UNCHANGED <<revision, tail, retained, issued, settled, behind, origin, acks>>
      /\ step[d] \in {"sending", "resending"}
      /\ step'[d] = IF step[d] = "sending" THEN "awaiting" ELSE "reawaiting"
      /\ \A e \in Designs \ {d} : step'[e] = step[e]
      /\ Landed(SentEdit(d), d, base[d])
  BY DEF Sends, queueVars, historyVars, Rest
<1>2. /\ t \in 1..issued /\ Own(q) = t /\ q.design = d
      /\ q.id # t => step[d] = "resending"
      /\ base[d] \in 0..head[d]
      /\ tail[d][1].input \in Inputs /\ origin[t] = tail[d][1].input
      /\ \A n \in OwnIn(trail[d]) : Mark(trail[d], n) < t
      /\ \A x \in acks : x[1] # t
      /\ 1 \in 1..Len(tail[d])
      /\ \A e \in Designs : \A k \in 1..Len(tail[e]) : tail[e][k].id = t => e = d /\ k = 1
  BY SendFacts DEF Sends
<1>3. \A n : n # 0 /\ n # t /\ Void(n) => Void(n)'
  <2>1. CInv /\ Sends(d, c)
    OBVIOUS
  <2> QED BY ONLY <2>1, SendsVoid, d \in Designs
<1> HIDE DEF t, q
<1>4. SentOnce'
  <2> SUFFICES ASSUME NEW p \in Seen', Own(p) # 0
               PROVE  /\ Own(p) <= issued
                      /\ \A k \in 1..Len(tail[p.design]) : Own(p) <= tail[p.design][k].id
                      /\ \A e \in Designs : \A k \in 1..Len(tail[e]) : tail[e][k].id = Own(p) =>
                            /\ e = p.design /\ k = 1
                            /\ step'[e] \in {"awaiting", "asking", "resending", "reawaiting"}
                            /\ p.id # Own(p) => step'[e] = "reawaiting"
    BY <1>1 DEF SentOnce
  <2>1. CASE p \in Seen
    <3>1. /\ Own(p) <= issued
          /\ \A k \in 1..Len(tail[p.design]) : Own(p) <= tail[p.design][k].id
          /\ \A e \in Designs : \A k \in 1..Len(tail[e]) : tail[e][k].id = Own(p) =>
                /\ e = p.design /\ k = 1
                /\ step[e] \in {"awaiting", "asking", "resending", "reawaiting"}
                /\ p.id # Own(p) => step[e] = "reawaiting"
      BY <2>1 DEF SentOnce
    <3>2. \A e \in Designs :
             /\ step[e] \in {"awaiting", "asking", "resending", "reawaiting"} =>
                   step'[e] \in {"awaiting", "asking", "resending", "reawaiting"}
             /\ step[e] = "reawaiting" => step'[e] = "reawaiting"
      BY <1>1
    <3> QED BY <3>1, <3>2
  <2>2. CASE p = q
    <3>1. t <= issued /\ issued \in Nat
      BY <1>2, QueueFacts
    <3>2. \A k \in 1..Len(tail[d]) : t <= tail[d][k].id
      <4> SUFFICES ASSUME NEW k \in 1..Len(tail[d]) PROVE t <= tail[d][k].id
        OBVIOUS
      <4>1. 1 < k => tail[d][1].id < tail[d][k].id
        BY <1>2 DEF Lanes, Lane
      <4>2. k = 1 \/ 1 < k
        BY TaskFacts
      <4>3. t \in Nat /\ tail[d][k].id \in Nat
        BY <1>2, TaskFacts
      <4> QED BY <4>1, <4>2, <4>3 DEF t
    <3> QED BY <1>1, <1>2, <2>2, <3>1, <3>2
  <2>3. p \in Seen \/ p = q
    <3>1. \A row \in log' : row \in log \/ row.request = q
      BY DEF Sends, q
    <3>2. \A v \in waiting' : v \in waiting \/ v.request = q
      BY DEF Sends, SentCall, q
    <3> QED BY <3>1, <3>2 DEF Seen
  <2> QED BY <2>1, <2>2, <2>3
<1>5. Tries'
  <2>1. ASSUME NEW n \in 1..issued, n # t, origin[n] = tail[d][1].input PROVE Void(n)'
    BY <1>2, <1>3, <2>1 DEF Tries, NotTried, t
  <2>2. OneTry'
    <3> SUFFICES ASSUME NEW m \in 1..issued, NEW n \in 1..issued, origin[m] = origin[n],
                        ~Void(m)', ~Void(n)'
                 PROVE  m = n
      BY <1>1 DEF OneTry, Void
    <3>1. CASE m = t \/ n = t
      BY <1>2, <2>1, <3>1
    <3>2. CASE m # t /\ n # t
      <4>1. ~Void(m) /\ ~Void(n)
        BY <1>3, <3>2
      <4> QED BY <4>1 DEF Tries, OneTry
    <3> QED BY <3>1, <3>2
  <2>3. NotTried'
    <3> SUFFICES ASSUME NEW n \in 1..issued
                 PROVE  /\ \A e \in Designs : \A r \in retained[e] :
                              r.state # "failed" /\ origin[n] = r.input => Void(n)'
                        /\ settled[origin[n]] = "declined" => Void(n)'
                        /\ \A e \in Designs : \A k \in 1..Len(tail[e]) :
                              origin[n] = tail[e][k].input /\ n # tail[e][k].id => Void(n)'
      BY <1>1 DEF NotTried, Void
    <3>1. CASE n = t
      <4>1. \A e \in Designs : \A r \in retained[e] : origin[n] # r.input
        <5>1. \A f, e \in Designs : \A r \in retained[f], k \in 1..Len(tail[e]) :
                  tail[e][k].input # r.input
          BY QueueFacts
        <5>2. origin[n] = tail[d][1].input /\ 1 \in 1..Len(tail[d])
          BY <1>2, <3>1
        <5> QED BY ONLY <5>1, <5>2, d \in Designs
      <4>2. settled[origin[n]] = "none"
        BY <1>2, <3>1, QueueFacts
      <4>3. ASSUME NEW e \in Designs, NEW k \in 1..Len(tail[e]), origin[n] = tail[e][k].input
            PROVE  n = tail[e][k].id
        <5>1. e = d /\ k = 1
          <6>1. tail[e][k].input = tail[d][1].input
            BY <1>2, <3>1, <4>3
          <6>2. \A f, g \in Designs : \A j \in 1..Len(tail[f]), m \in 1..Len(tail[g]) :
                    tail[f][j].input = tail[g][m].input => f = g /\ j = m
            BY QueueFacts
          <6> QED BY <1>2, <6>1, <6>2
        <5> QED BY <3>1, <5>1 DEF t
      <4> QED BY <4>1, <4>2, <4>3
    <3>2. CASE n # t
      <4>1. Void(n) => Void(n)'
        BY <1>3, <3>2
      <4> QED BY <4>1 DEF Tries, NotTried
    <3> QED BY <3>1, <3>2
  <2>4. NotYet'
    <3> SUFFICES ASSUME NEW e \in Designs, step'[e] \in {"asking", "resending"}
                 PROVE  Void(tail[e][1].id)'
      BY <1>1 DEF NotYet, Void
    <3>1. e # d /\ step[e] \in {"asking", "resending"}
      BY <1>1
    <3>2. 1 \in 1..Len(tail[e]) /\ tail[e][1].id \in 1..issued
      <4>1. tail[e] # <<>>
        BY <3>1, QueueFacts DEF Senders
      <4>2. 1 \in 1..Len(tail[e])
        BY <4>1, TaskFacts
      <4> QED BY <4>2 DEF Lanes, Lane
    <3>3. Void(tail[e][1].id) /\ tail[e][1].id # t
      BY <1>2, <3>1, <3>2 DEF Tries, NotYet
    <3>4. ASSUME NEW n, n = tail[e][1].id PROVE Void(n)'
      BY <1>3, <3>2, <3>3, <3>4
    <3> QED BY <1>1, <3>4 DEF Void
  <2> QED BY <2>2, <2>3, <2>4 DEF Tries
<1>6. Acks'
  <2>1. SentEdit(d) # 0 => \A x \in acks : x[1] # SentEdit(d)
    BY <1>2 DEF SentEdit, t
  <2> QED BY ONLY SP!IInv, Alive, Acks, <1>1, <2>1, LandedAcks
<1>7. InOrder'
  <2>1. SentEdit(d) # 0 =>
            \A n \in OwnIn(trail[d]) : n <= base[d] => Mark(trail[d], n) < SentEdit(d)
    BY <1>2 DEF SentEdit, t
  <2> QED BY ONLY SP!IInv, Alive, InOrder, <1>1, <2>1, LandedOrder, d \in Designs
<1> QED BY <1>4, <1>5, <1>6, <1>7

\* An undo or a redo: refused, or one more change that is no edit.
LEMMA ReplaySends ==
    ASSUME CInv, NEW d \in Designs, NEW c \in Connections, Send(d, c),
           IsHistory(tail[d][1].input)
    PROVE  /\ Sends(d, c)
           /\ \E s \in Sessions, k \in {"undo", "redo"} : Store!ReplayHistory(c, d, s, k, base[d])
<1> USE DEF CInv, Base
<1> DEFINE s == TaskAction(d).session
           k == TaskAction(d).kind
           h == histories[d][s]
           entry == Store!Last(Store!Stack(h, k))
           q == SentRequest(d)
<1>1. step[d] \in {"sending", "resending"}
  BY DEF Send
<1>2. /\ Task(d) = tail[d][1] /\ tail[d][1].input \in Inputs
      /\ base[d] \in 0..head[d] /\ head[d] \in Nat
      /\ q.design = d
  BY <1>1, SendFacts
<1>3. s \in Sessions /\ k \in {"undo", "redo"}
  <2>1. ActionOf[tail[d][1].input] \in Action
    BY <1>2, ActionsAssumption
  <2> QED BY <1>2, <2>1 DEF TaskAction, Action, IsHistory
<1>4. Store!ReplayHistory(c, d, s, k, base[d])
  BY <1>2 DEF Send
<1>5. /\ Store!Idle(c) /\ waiting' = waiting
      /\ \/ /\ UNCHANGED <<head, log, trail>>
            /\ \/ Store!Reply(c, 0, Store!ConflictAt(head[d]))
               \/ Store!Reply(c, 0, Store!Outcome("HISTORY_EMPTY"))
               \/ Store!Reply(c, 0, Store!Outcome("ERROR"))
         \/ /\ base[d] \in {Store!NoRevision, head[d]} /\ Store!Stack(h, k) # <<>>
            /\ head[d] < MaxRevision /\ log' = log
            /\ Store!Advance(d, k, entry.request, base[d])
            /\ Store!Reply(c, 0, Store!Ok(head[d] + 1))
  BY <1>4 DEF Store!ReplayHistory
<1> HIDE DEF s, k, h, entry, q
<1>6. /\ Landed(0, d, base[d])
      /\ \A a \in answers' :
            \/ a \in answers
            \/ /\ a.conn = c /\ a.result.code # "NET_MERGE_REQUIRES_CONFIRM"
               /\ Truthful(a, q, base[d])
      /\ log' = log /\ \E r : Store!Reply(c, 0, r)
  <2>1. CASE /\ UNCHANGED <<head, log, trail>>
             /\ \/ Store!Reply(c, 0, Store!ConflictAt(head[d]))
                \/ Store!Reply(c, 0, Store!Outcome("HISTORY_EMPTY"))
                \/ Store!Reply(c, 0, Store!Outcome("ERROR"))
    <3>1. Landed(0, d, base[d])
      BY <2>1, NothingLands
    <3>2. \A a \in answers' :
             \/ a \in answers
             \/ a.conn = c /\ a.result.code \in {"REVISION_CONFLICT", "HISTORY_EMPTY", "ERROR"}
      BY <2>1 DEF Store!Reply, Store!ConflictAt, Store!Outcome
    <3>3. ASSUME NEW a, a.result.code \in {"REVISION_CONFLICT", "HISTORY_EMPTY", "ERROR"}
          PROVE  Truthful(a, q, base[d]) /\ a.result.code # "NET_MERGE_REQUIRES_CONFIRM"
      BY <2>1, <3>3 DEF Truthful
    <3>4. \E r : Store!Reply(c, 0, r)
      BY <2>1
    <3> QED BY <2>1, <3>1, <3>2, <3>3, <3>4
  <2>2. CASE /\ base[d] \in {Store!NoRevision, head[d]} /\ Store!Stack(h, k) # <<>>
             /\ head[d] < MaxRevision /\ log' = log
             /\ Store!Advance(d, k, entry.request, base[d])
             /\ Store!Reply(c, 0, Store!Ok(head[d] + 1))
    <3>1. entry.request \in Store!Request
      <4>1. h \in SP!History
        BY <1>3 DEF SP!IInv, SP!TypeOK, h
      <4>2. entry = SP!Last(SP!Stack(h, k)) /\ SP!Stack(h, k) # <<>>
        BY <2>2 DEF entry, Store!Last, SP!Last, Store!Stack, SP!Stack
      <4>3. entry \in SP!Entry
        BY ONLY <1>3, <4>1, <4>2, StoreAssumed, SP!ConsumedTyped
      <4> QED BY <4>3, RequestsAre DEF SP!Entry
    <3>2. base[d] = head[d] /\ base[d] \in Int
      BY <1>2, <2>2 DEF Store!NoRevision
    <3>3. Landed(0, d, base[d]) /\ head'[d] = head[d] + 1
      BY <1>3, <2>2, <3>1, <3>2, AdvanceLands
    <3>4. \A a \in answers' :
             \/ a \in answers
             \/ a.conn = c /\ a.result.code = "OK" /\ a.result.revision = head[d] + 1
      BY <2>2 DEF Store!Reply, Store!Ok
    <3>5. ASSUME NEW a, a.result.code = "OK", a.result.revision = head[d] + 1
          PROVE  Truthful(a, q, base[d]) /\ a.result.code # "NET_MERGE_REQUIRES_CONFIRM"
      BY <1>2, <3>2, <3>3, <3>5 DEF Truthful
    <3> QED BY <2>2, <3>3, <3>4, <3>5
  <2> QED BY <1>5, <2>1, <2>2
<1>7. OneEach'
  <2>1. /\ \A v \in waiting' : v.conn # c
        /\ \A a \in answers : a.conn # c
        /\ waiting' \subseteq waiting /\ OneEach
    BY <1>5 DEF Store!Idle, Calls
  <2> QED BY ONLY <1>6, <2>1, ReplyOneEach
<1>8. SentEdit(d) = 0
  BY DEF SentEdit
<1>9. /\ UNCHANGED <<queueVars, base, review, historyVars>> /\ ~Linked(c)
      /\ link' = [link EXCEPT ![d] = c]
      /\ step' = [step EXCEPT ![d] = IF @ = "sending" THEN "awaiting" ELSE "reawaiting"]
  BY DEF Send
<1>10. Sends(d, c)
  BY <1>1, <1>5, <1>6, <1>7, <1>8, <1>9 DEF Sends, q
<1> QED BY <1>3, <1>4, <1>10

\* An edit: parked, refused, or landed on the revision it named.
LEMMA DispatchSends ==
    ASSUME CInv, NEW d \in Designs, NEW c \in Connections, Send(d, c),
           ~IsHistory(tail[d][1].input)
    PROVE  /\ Sends(d, c)
           /\ SentRequest(d) \in Store!Request /\ base[d] \in Int
           /\ Store!Dispatch(c, SentRequest(d), base[d])
<1> USE DEF CInv, Base
<1> DEFINE q == SentRequest(d)
<1>1. step[d] \in {"sending", "resending"}
  BY DEF Send
<1>2. /\ Task(d) = tail[d][1] /\ base[d] \in 0..head[d] /\ head[d] \in Nat
      /\ q.design = d /\ q \in Store!Request /\ ~Store!Logged(q.id)
      /\ Own(q) = tail[d][1].id /\ tail[d][1].id \in 1..issued
  BY <1>1, SendFacts
<1>3. Store!Dispatch(c, q, base[d])
  BY <1>2 DEF Send, SentRequest
<1>4. /\ UNCHANGED <<queueVars, base, review, historyVars>> /\ ~Linked(c)
      /\ link' = [link EXCEPT ![d] = c]
      /\ step' = [step EXCEPT ![d] = IF @ = "sending" THEN "awaiting" ELSE "reawaiting"]
  BY DEF Send
<1>5. SentEdit(d) = Own(q) /\ base[d] \in Int /\ Own(q) # 0
  BY <1>2 DEF SentEdit
<1> HIDE DEF q
<1>6. Store!Idle(c) /\ OneEach
      /\ (\A v \in waiting : v.conn # c) /\ (\A a \in answers : a.conn # c)
  BY <1>3 DEF Store!Dispatch, Store!Idle, Calls
<1>7. CASE /\ waiting' = waiting \cup {[conn |-> c, request |-> q, base |-> base[d]]}
           /\ UNCHANGED <<head, log, answers, trail>>
  <2>1. waiting' = waiting \cup {SentCall(d, c)} /\ SentCall(d, c).conn = c
    BY <1>7 DEF SentCall, q
  <2>2. OneEach'
    BY <1>6, <1>7, <2>1 DEF OneEach
  <2>3. Landed(SentEdit(d), d, base[d])
    BY <1>7, NothingLands
  <2> QED BY <1>1, <1>2, <1>3, <1>4, <1>5, <1>6, <1>7, <2>1, <2>2, <2>3 DEF Sends, q
<1>8. CASE Store!Transact(c, q, base[d]) /\ waiting' = waiting
  <2>1. Served(c, q, base[d])
    BY <1>2, <1>5, <1>8, TransactServes
  <2>2. \E id, r : Store!Reply(c, id, r)
    BY <1>8, TransactReplies
  <2>3. OneEach'
    BY <1>6, <1>8, <2>2, ReplyOneEach
  <2>4. /\ Landed(SentEdit(d), d, base[d])
        /\ \A a \in answers' : a \in answers \/ (a.conn = c /\ Truthful(a, q, base[d]))
        /\ \A row \in log' : row \in log \/ row.request = q
    BY <1>2, <1>5, <2>1 DEF Served
  <2> QED BY <1>1, <1>2, <1>3, <1>4, <1>5, <1>6, <1>8, <2>3, <2>4 DEF Sends, q
<1> QED BY <1>2, <1>3, <1>7, <1>8 DEF Store!Dispatch

-----------------------------------------------------------------------------
(* Every action keeps the invariant. *)

\* A step of the lanes in the words of the queue's proofs.
LEMMA QueueKeeps ==
    ASSUME CInv, NEW d \in Designs,
           \/ UNCHANGED queueVars
           \/ \E n \in Revisions : Queue!Observe(d, n)
           \/ \E i \in Inputs : Queue!Submit(d, i)
           \/ \E r \in retained[d] : Queue!Reapply(d, r)
           \/ Queue!DiscardRetained(d) \/ Queue!Start(d) \/ Queue!CancelUnsent(d)
           \/ \E n \in Revisions : Queue!Acknowledge(d, n)
           \/ Queue!Decline(d) \/ Queue!Conflict(d) \/ Queue!Fail(d)
    PROVE  QP!LInv'
<1>1. \/ UNCHANGED queueVars
      \/ \E n \in Revisions : QP!Observe(d, n)
      \/ \E i \in Inputs : QP!Submit(d, i)
      \/ \E r \in retained[d] : QP!Reapply(d, r)
      \/ QP!DiscardRetained(d) \/ QP!Start(d) \/ QP!CancelUnsent(d) \/ QP!Settle(d)
  BY QueueIsQueue DEF QP!Settle
<1>2. [QP!Next]_queueVars
  BY <1>1 DEF QP!Next
<1> QED BY <1>2, QueueStep DEF CInv, Base

\* No command joins or leaves a lane.
LEMMA StaysInv ==
    ASSUME CInv, Stays, Senders', QP!LInv', SP!IInv', Rest'
    PROVE  CInv'
<1>1. Lanes' /\ Calls' /\ SentOnce' /\ Tries' /\ InOrder' /\ Acks'
  BY StaysKeeps DEF CInv, Base
<1>2. Alive'
  BY DEF Stays, Alive, CInv, Base
<1> QED BY <1>1, <1>2 DEF CInv, Base

\* A command leaves its lane.
LEMMA ShrinksInv ==
    ASSUME CInv, NEW d \in Designs, Shrinks(d), QP!LInv', SP!IInv', Rest'
    PROVE  CInv'
<1>1. Lanes' /\ Senders' /\ Calls'
  BY ShrinkLanes, ShrinkSenders, ShrinkCalls DEF CInv, Base
<1>2. SentOnce' /\ Tries' /\ Acks'
  BY ShrinkSent, ShrinkTries, ShrinkAcks DEF CInv, Base
<1>3. Alive' /\ InOrder'
  BY DEF Shrinks, Alive, InOrder, CInv, Base
<1> QED BY <1>1, <1>2, <1>3 DEF CInv, Base

\* A command joins a lane.
LEMMA GrowsInv ==
    ASSUME CInv, NEW d \in Designs, NEW i \in Inputs, Grows(d, i), QP!LInv', SP!IInv'
    PROVE  CInv'
<1>1. Lanes' /\ Senders' /\ Calls'
  BY GrowLanes, GrowSenders, GrowCalls DEF CInv, Base
<1>2. SentOnce' /\ Tries' /\ Acks'
  BY GrowSent, GrowTries, GrowAcks DEF CInv, Base
<1>3. Alive' /\ InOrder'
  BY DEF Grows, Alive, InOrder, CInv, Base
<1>4. Rest'
  <2>1. behind' \in Seq(Nat) /\ origin' \in Seq(Inputs)
    BY RememberFacts DEF CInv, Base, Grows
  <2> QED BY <2>1 DEF Grows, Remember, Rest, CInv, Base
<1> QED BY <1>1, <1>2, <1>3, <1>4 DEF CInv, Base

\* The backend works on a request.
LEMMA WorksInv ==
    ASSUME CInv, \E c, q, b : Works(c, q, b), SP!IInv'
    PROVE  CInv'
<1>1. PICK c, q, b : Works(c, q, b)
  OBVIOUS
<1>2. Lanes' /\ Senders' /\ Alive' /\ Calls'
  BY <1>1, WorksSenders, WorksCalls
<1>3. SentOnce' /\ Tries' /\ InOrder' /\ Acks'
  BY <1>1, WorksRest
<1>4. UNCHANGED <<queueVars, senderVars, review, historyVars>>
  BY <1>1 DEF Works
<1>5. QP!LInv'
  <2>1. QP!LInv /\ [QP!Next]_queueVars
    BY <1>4 DEF CInv, Base
  <2> QED BY <2>1, QueueStep
<1>6. Rest'
  BY <1>4 DEF Rest, CInv, Base, senderVars, historyVars
<1> QED BY <1>2, <1>3, <1>5, <1>6 DEF CInv, Base

\* A request is sent.
LEMMA SendsInv ==
    ASSUME CInv, NEW d \in Designs, NEW c, Sends(d, c), SP!IInv'
    PROVE  CInv'
<1>1. Lanes' /\ Senders' /\ Alive' /\ Calls'
  BY SendsSenders, SendsCalls
<1>2. SentOnce' /\ Tries' /\ InOrder' /\ Acks'
  BY SendsRest
<1>3. /\ UNCHANGED <<queueVars, base, review, historyVars>> /\ c \in Connections
      /\ link' = [link EXCEPT ![d] = c]
      /\ step' = [step EXCEPT ![d] = IF @ = "sending" THEN "awaiting" ELSE "reawaiting"]
  BY DEF Sends
<1>4. QP!LInv'
  BY <1>3, QueueKeeps
<1>5. Rest'
  BY <1>3 DEF Rest, CInv, Base, historyVars, Steps
<1> QED BY <1>1, <1>2, <1>4, <1>5 DEF CInv, Base

\* Send: an edit, or an undo or redo.
LEMMA SendInv ==
    ASSUME CInv, NEW d \in Designs, NEW c \in Connections, Send(d, c)
    PROVE  CInv'
<1>1. CASE IsHistory(tail[d][1].input)
  <2>1. /\ Sends(d, c)
        /\ \E s \in Sessions, k \in {"undo", "redo"} : Store!ReplayHistory(c, d, s, k, base[d])
    BY <1>1, ReplaySends
  <2>2. base[d] \in Int
    BY DEF CInv, Base, Rest
  <2>3. SP!IInv'
    BY <2>1, <2>2, StoreKeeps DEF CInv, Base
  <2> QED BY <2>1, <2>3, SendsInv
<1>2. CASE ~IsHistory(tail[d][1].input)
  <2>1. /\ Sends(d, c)
        /\ SentRequest(d) \in Store!Request /\ base[d] \in Int
        /\ Store!Dispatch(c, SentRequest(d), base[d])
    BY <1>2, DispatchSends
  <2>2. SP!IInv'
    BY <2>1, StoreKeeps DEF CInv, Base
  <2> QED BY <2>1, <2>2, SendsInv
<1> QED BY <1>1, <1>2

\* The backend on its own: the library answers, others write, it restarts.
LEMMA BackendInv ==
    ASSUME CInv,
           \/ LibraryAnswers
           \/ \E c \in Connections, req \in ExternalRequests : ExternalWrite(c, req)
           \/ BackendRestart
    PROVE  CInv'
<1>1. CASE LibraryAnswers
  <2>1. (\E c, q, b : Works(c, q, b)) /\ SP!IInv'
    BY <1>1, LibraryWorks, StoreKeeps DEF CInv, Base
  <2> QED BY <2>1, WorksInv
<1>2. CASE \E c \in Connections, req \in ExternalRequests : ExternalWrite(c, req)
  <2>1. PICK c \in Connections, req \in ExternalRequests : ExternalWrite(c, req)
    BY <1>2
  <2>2. /\ Works(c, req, NoRevision) /\ NoRevision \in Int
        /\ req \in Store!Request /\ Store!Dispatch(c, req, NoRevision)
    BY <2>1, ExternalWorks DEF NoRevision
  <2>3. SP!IInv'
    BY <2>2, StoreKeeps DEF CInv, Base
  <2> QED BY <2>2, <2>3, WorksInv
<1>3. CASE BackendRestart
  <2>1. (\E c, q, b : Works(c, q, b)) /\ Store!Restart
    BY <1>3, RestartWorks DEF BackendRestart
  <2>2. SP!IInv'
    BY <2>1, StoreKeeps DEF CInv, Base
  <2> QED BY <2>1, <2>2, WorksInv
<1> QED BY <1>1, <1>2, <1>3

\* UserActs, Begin and Cancel.
LEMMA LaneInv ==
    ASSUME CInv, NEW d \in Designs,
           \/ \E i \in Inputs : UserActs(d, i)
           \/ Begin(d) \/ Cancel(d)
    PROVE  CInv'
<1>1. UNCHANGED storeVars
  BY DEF UserActs, Begin, Cancel
<1>2. SP!IInv'
  BY <1>1, StoreKeeps DEF CInv, Base
<1>3. CASE \E i \in Inputs : UserActs(d, i)
  <2>1. PICK i \in Inputs : UserActs(d, i)
    BY <1>3
  <2>2. QP!LInv'
    BY <2>1, QueueKeeps DEF UserActs
  <2>3. Grows(d, i)
    BY <2>1, UserActsGrows
  <2> QED BY <1>2, <2>2, <2>3, GrowsInv
<1>4. CASE Begin(d)
  <2>1. QP!LInv'
    BY <1>4, QueueKeeps DEF Begin
  <2>2. Rest'
    <3>1. revision[d] \in Int
      BY QueueFacts DEF CInv, Base, NoRevision
    <3> QED BY <1>4, <3>1 DEF Begin, Rest, CInv, Base, Steps, historyVars
  <2> QED BY <1>2, <1>4, <2>1, <2>2, BeginKeeps, StaysInv
<1>5. CASE Cancel(d)
  <2>1. QP!LInv'
    BY <1>5, QueueKeeps DEF Cancel
  <2>2. Rest'
    BY <1>5 DEF Cancel, Rest, CInv, Base, senderVars, historyVars
  <2> QED BY <1>2, <1>5, <2>1, <2>2, CancelShrinks, ShrinksInv
<1> QED BY <1>3, <1>4, <1>5

\* Every step of a sender.
LEMMA SenderInv ==
    ASSUME CInv, NEW d \in Designs, SenderMoves(d)
    PROVE  CInv'
<1>1. CASE ReadHead(d)
  <2>1. QP!LInv' /\ SP!IInv'
    BY <1>1, QueueKeeps, StoreKeeps DEF ReadHead, CInv, Base
  <2>2. Rest'
    <3>1. head[d] \in Int
      BY StoreFacts DEF CInv, Base
    <3> QED BY <1>1, <3>1 DEF ReadHead, Rest, CInv, Base, Steps, historyVars
  <2> QED BY <1>1, <2>1, <2>2, ReadHeadKeeps, StaysInv
<1>2. CASE \E c \in Connections : Send(d, c)
  BY <1>2, SendInv
<1>3. CASE \E a \in answers : Acknowledged(d, a)
  <2>1. PICK a \in answers : Acknowledged(d, a)
    BY <1>3
  <2>2. Shrinks(d) /\ a.result.revision \in Revisions
    BY <2>1, AcknowledgedShrinks
  <2>3. QP!LInv' /\ SP!IInv'
    BY <2>1, <2>2, QueueKeeps, StoreKeeps DEF Acknowledged, AnswerOf, CInv, Base
  <2>4. Rest'
    <3>1. Task(d).id \in Nat /\ a.result.revision \in Nat
      <4>1. tail[d] # <<>>
        BY <2>2 DEF Shrinks, Popped
      <4> QED BY <2>2, <4>1, TaskFacts DEF CInv, Base, Revisions
    <3> QED BY <2>1, <3>1 DEF Acknowledged, AnswerOf, SenderDone, Rest, CInv, Base, Steps
  <2> QED BY <2>2, <2>3, <2>4, ShrinksInv
<1>4. CASE \E a \in answers : MergeRefused(d, a)
  <2>1. PICK a \in answers : MergeRefused(d, a)
    BY <1>4
  <2>2. QP!LInv' /\ SP!IInv'
    BY <2>1, QueueKeeps, StoreKeeps DEF MergeRefused, AnswerOf, CInv, Base
  <2>3. Rest'
    BY <2>1 DEF MergeRefused, AnswerOf, Rest, CInv, Base, Steps, historyVars
  <2> QED BY <2>1, <2>2, <2>3, MergeRefusedKeeps, StaysInv
<1>5. CASE \E a \in answers : Rejected(d, a)
  <2>1. PICK a \in answers : Rejected(d, a)
    BY <1>5
  <2>2. QP!LInv' /\ SP!IInv'
    BY <2>1, QueueKeeps, StoreKeeps DEF Rejected, AnswerOf, CInv, Base
  <2>3. Rest'
    BY <2>1 DEF Rejected, AnswerOf, SenderDone, Rest, CInv, Base, Steps, historyVars
  <2> QED BY <2>1, <2>2, <2>3, RejectedShrinks, ShrinksInv
<1>6. CASE UserConfirms(d)
  <2>1. QP!LInv' /\ SP!IInv'
    BY <1>6, QueueKeeps, StoreKeeps DEF UserConfirms, CInv, Base
  <2>2. Rest'
    BY <1>6 DEF UserConfirms, Rest, CInv, Base, Steps, historyVars
  <2> QED BY <1>6, <2>1, <2>2, UserConfirmsKeeps, StaysInv
<1>7. CASE UserDeclines(d)
  <2>1. QP!LInv' /\ SP!IInv'
    BY <1>7, QueueKeeps, StoreKeeps DEF UserDeclines, CInv, Base
  <2>2. Rest'
    BY <1>7 DEF UserDeclines, SenderDone, Rest, CInv, Base, Steps, historyVars
  <2> QED BY <1>7, <2>1, <2>2, DeclinesShrinks, ShrinksInv
<1>8. CASE ConnectionLost(d)
  <2>1. QP!LInv' /\ SP!IInv'
    BY <1>8, QueueKeeps, StoreKeeps DEF ConnectionLost, CInv, Base
  <2>2. Rest'
    BY <1>8 DEF ConnectionLost, SenderDone, Rest, CInv, Base, Steps, historyVars
  <2> QED BY <1>8, <2>1, <2>2, LostShrinks, ShrinksInv
<1> QED BY <1>1, <1>2, <1>3, <1>4, <1>5, <1>6, <1>7, <1>8 DEF SenderMoves

\* A step of the workspace that changes no lane.
LEMMA LooksInv ==
    ASSUME CInv, NEW d \in Designs, Looks(d), UNCHANGED queueVars
    PROVE  CInv'
<1>1. Stays /\ Senders'
  BY LooksOnly DEF queueVars
<1>2. QP!LInv' /\ SP!IInv'
  BY QueueKeeps, StoreKeeps DEF Looks, CInv, Base
<1>3. Rest'
  BY DEF Looks, Rest, CInv, Base, senderVars, historyVars
<1> QED BY <1>1, <1>2, <1>3, StaysInv

\* Every step of the workspace.
LEMMA ReviewInv ==
    ASSUME CInv, NEW d \in Designs,
           \/ Refresh(d) \/ AskDiscard(d) \/ AskReapply(d)
           \/ RefreshReads(d) \/ RefreshFails(d)
           \/ RefreshArrives(d) \/ RefreshSuperseded(d)
           \/ Discard(d) \/ Reapply(d)
    PROVE  CInv'
<1>1. CASE Refresh(d) \/ AskDiscard(d) \/ AskReapply(d) \/ RefreshReads(d) \/ RefreshFails(d)
  BY <1>1, AskingLooks, LooksInv
<1>2. CASE RefreshArrives(d)
  <2>1. /\ Stays /\ Senders'
        /\ UNCHANGED queueVars \/ Queue!Observe(d, review[d].revision)
        /\ review[d].revision \in Revisions
        /\ review' \in [Designs -> Review]
        /\ UNCHANGED <<storeVars, senderVars, historyVars>>
    BY <1>2, ArrivesKeeps DEF RefreshArrives, RefreshReturns
  <2>2. QP!LInv' /\ SP!IInv'
    BY <2>1, QueueKeeps, StoreKeeps DEF CInv, Base
  <2>3. Rest'
    BY <2>1 DEF Rest, CInv, Base, senderVars, historyVars
  <2> QED BY <2>1, <2>2, <2>3, StaysInv
<1>3. CASE RefreshSuperseded(d)
  <2>1. RefreshReturns(d) /\ UNCHANGED queueVars /\ UNCHANGED <<tail, running, issued>>
    BY <1>3 DEF RefreshSuperseded, queueVars
  <2> QED BY <2>1, ReturningLooks, LooksInv
<1>4. CASE Discard(d)
  <2>1. /\ Stays /\ Senders'
        /\ UNCHANGED queueVars \/ Queue!DiscardRetained(d)
        /\ review' \in [Designs -> Review]
        /\ UNCHANGED <<storeVars, senderVars, historyVars>>
    BY <1>4, DiscardKeeps DEF Discard
  <2>2. QP!LInv' /\ SP!IInv'
    BY <2>1, QueueKeeps, StoreKeeps DEF CInv, Base
  <2>3. Rest'
    BY <2>1 DEF Rest, CInv, Base, senderVars, historyVars
  <2> QED BY <2>1, <2>2, <2>3, StaysInv
<1>5. CASE Reapply(d)
  <2>1. CASE UNCHANGED <<queueVars>> /\ Looks(d)
    BY <2>1, LooksInv
  <2>2. CASE \E r \in retained[d] :
                r.input \in Inputs /\ Queue!Reapply(d, r) /\ Grows(d, r.input)
    <3>1. PICK r \in retained[d] :
                r.input \in Inputs /\ Queue!Reapply(d, r) /\ Grows(d, r.input)
      BY <2>2
    <3>2. QP!LInv'
      BY <3>1, QueueKeeps
    <3>3. SP!IInv'
      BY <1>5, StoreKeeps DEF Reapply, CInv, Base
    <3> QED BY <3>1, <3>2, <3>3, GrowsInv
  <2> QED BY <1>5, <2>1, <2>2, ReapplyGrows
<1> QED BY <1>1, <1>2, <1>3, <1>4, <1>5

\* The step: one case per action.
LEMMA NextCInv == CInv /\ [Next]_vars => CInv'
<1> SUFFICES ASSUME CInv, [Next]_vars PROVE CInv'
  OBVIOUS
<1>1. CASE UNCHANGED vars
  <2>1. UNCHANGED <<queueVars, storeVars, senderVars, review, historyVars>>
    BY <1>1 DEF vars
  <2>2. Stays /\ Senders' /\ Rest'
    BY <2>1 DEF CInv, Base, Stays, Sent, Tries, NotYet, Senders, Rest,
                queueVars, storeVars, senderVars, historyVars
  <2>3. SP!IInv'
    BY <2>1, StoreKeeps DEF CInv, Base
  <2>4. QP!LInv'
    BY <2>1, QueueStep DEF CInv, Base
  <2> QED BY <2>2, <2>3, <2>4, StaysInv
<1>2. CASE \E d \in Designs, i \in Inputs : UserActs(d, i)
  BY <1>2, LaneInv
<1>3. CASE \E d \in Designs :
              \/ LaneMoves(d) \/ SenderMoves(d)
              \/ Refresh(d) \/ AskDiscard(d) \/ AskReapply(d)
              \/ RefreshReads(d) \/ RefreshFails(d)
              \/ RefreshArrives(d) \/ RefreshSuperseded(d)
              \/ Discard(d) \/ Reapply(d)
  BY <1>3, LaneInv, SenderInv, ReviewInv DEF LaneMoves
<1>4. CASE \/ LibraryAnswers
           \/ \E c \in Connections, req \in ExternalRequests : ExternalWrite(c, req)
           \/ BackendRestart
  BY <1>4, BackendInv
<1>5. CASE \E a \in answers : ExternalAnswer(a)
  <2>1. PICK a \in answers : ExternalAnswer(a)
    BY <1>5
  <2>2. QP!LInv' /\ SP!IInv'
    <3>1. UNCHANGED queueVars /\ Store!Deliver(a)
      BY <2>1 DEF ExternalAnswer
    <3>2. QP!LInv'
      BY <3>1, QueueStep DEF CInv, Base
    <3> QED BY <3>1, <3>2, StoreKeeps DEF CInv, Base
  <2>3. Rest'
    BY <2>1 DEF ExternalAnswer, Rest, CInv, Base, senderVars, historyVars
  <2> QED BY <2>1, <2>2, <2>3, ExternalAnswerKeeps, StaysInv
<1> QED BY <1>1, <1>2, <1>3, <1>4, <1>5 DEF Next

\* A window that was just opened, on designs at revision 0.
LEMMA InitCInv == Init => CInv
<1> SUFFICES ASSUME Init PROVE CInv
  OBVIOUS
<1>1. QP!LInv
  <2>1. QP!Init
    BY QueueIsQueue DEF Init
  <2>2. MaxCommands \in Nat /\ Revisions \subseteq Nat
    BY BoundsAssumption DEF Revisions
  <2> QED BY <2>1, <2>2, QP!InitIInv, QP!InitOnePlace DEF QP!LInv
<1>2. SP!IInv
  <2>1. SP!Init
    BY StoreIsStore DEF Init
  <2> QED BY <2>1, StoreAssumed, SP!InitInv
<1>3. /\ \A d \in Designs : tail[d] = <<>> /\ ~running[d] /\ retained[d] = {}
      /\ \A d \in Designs : revision[d] = NoRevision /\ issued = 0
      /\ \A i \in Inputs : settled[i] = "none"
  BY DEF Init, Queue!Init, Queue!NoRevision, NoRevision
<1>4. /\ \A d \in Designs : head[d] = 0 /\ trail[d] = <<>>
      /\ log = {} /\ waiting = {} /\ answers = {}
  BY DEF Init, Store!Init
<1>5. /\ \A d \in Designs : step[d] = "idle" /\ link[d] = NoConnection /\ review[d] = NoReview
      /\ behind = <<>> /\ origin = <<>> /\ acks = {}
  BY DEF Init
<1>6. Rest
  BY DEF Init, Rest, Steps, NoRevision, NoReview, Review
<1>7. Alive
  BY <1>4, BoundsAssumption DEF Alive
<1>8. Lanes
  BY <1>3, <1>5, BoundsAssumption DEF Lanes, Lane, Init, Queue!Init
<1>9. Senders
  BY <1>3, <1>4, <1>5 DEF Senders, Linking, Merging, NoRevision, NoReview
<1>10. Calls
  BY <1>4 DEF Calls, OneEach, OwnCalls, LinkedCalls, LinkedAnswers
<1>11. SentOnce
  BY <1>4 DEF SentOnce, Seen
<1>12. \A n : Void(n)
  BY <1>4 DEF Void, InDesign, UnderWay, OwnIn
<1>13. Tries
  BY <1>12 DEF Tries, OneTry, NotTried, NotYet
<1>14. InOrder /\ Acks
  BY <1>4, <1>5 DEF InOrder, Rising, OwnIn, Acks, LeftLane, GoesOn, NoSilentRebase, Knows
<1> QED BY <1>1, <1>2, <1>6, <1>7, <1>8, <1>9, <1>10, <1>11, <1>13, <1>14 DEF CInv, Base

-----------------------------------------------------------------------------
(* The theorems about edits and revisions. *)

\* What the window wrote to a design: one of its commands, which is not void.
LEMMA OwnDosAre ==
    ASSUME CInv, NEW d \in Designs, NEW n \in OwnDos(d)
    PROVE  /\ n \in OwnIn(trail[d]) /\ n \in Int
           /\ CommandOf(trail[d][n]) = Mark(trail[d], n)
           /\ CommandOf(trail[d][n]) \in 1..issued /\ ~Void(CommandOf(trail[d][n]))
<1> DEFINE c == CommandOf(trail[d][n])
<1>1. n \in OwnIn(trail[d]) /\ c = Mark(trail[d], n)
  BY DEF OwnDos, OwnIn, CommandOf, Mark, Own
<1>2. SP!IInv /\ Alive /\ SentOnce
  BY DEF CInv, Base
<1> HIDE DEF c
<1>3. /\ n \in 1..head[d] /\ Mark(trail[d], n) \in Nat \ {0}
      /\ \E q \in Seen : Own(q) = Mark(trail[d], n)
  BY <1>1, <1>2, StoreFacts
<1>4. c \in 1..issued
  BY <1>1, <1>2, <1>3, QueueFacts DEF SentOnce, CInv, Base
<1>5. ~Void(c)
  BY <1>1 DEF Void, InDesign
<1> QED BY <1>1, <1>3, <1>4, <1>5 DEF c

\* The whole invariant: the two components', and what holds between them.
THEOREM CommandPathInvariant == Spec => []CInv
<1>1. Init => CInv
  BY InitCInv
<1>2. CInv /\ [Next]_vars => CInv'
  BY NextCInv
<1> QED BY <1>1, <1>2, PTL DEF Spec

\* Every variable of the window, the sender and the backend keeps its type.
THEOREM CommandPathTyped == Spec => []TypeOK
<1>1. CInv => TypeOK
  <2> SUFFICES ASSUME CInv PROVE TypeOK
    OBVIOUS
  <2>1. Queue!TypeOK
    BY QueueIsQueue DEF CInv, Base, QP!LInv, QP!IInv
  <2>2. Store!TypeOK
    BY StoreIsStore DEF CInv, Base, SP!IInv
  <2> QED BY <2>1, <2>2 DEF CInv, Base, Rest, TypeOK
<1> QED BY <1>1, CommandPathInvariant, PTL

\* A design holds one command of an edit at most.
THEOREM EditsOnce == Spec => []EditAppliedAtMostOnce
<1>1. CInv => EditAppliedAtMostOnce
  <2> SUFFICES ASSUME CInv, NEW d \in Designs, NEW i \in Inputs,
                      NEW m \in AppliedTo(d, i), NEW n \in AppliedTo(d, i)
               PROVE  m = n
    BY DEF EditAppliedAtMostOnce
  <2> DEFINE a == CommandOf(trail[d][m])
             b == CommandOf(trail[d][n])
  <2>0. issued \in Nat
    BY QueueFacts DEF CInv, Base
  <2>1. m \in OwnDos(d) /\ n \in OwnDos(d) /\ origin[a] = i /\ origin[b] = i
    BY DEF AppliedTo
  <2>2. /\ m \in OwnIn(trail[d]) /\ m \in Int /\ a = Mark(trail[d], m)
        /\ a \in 1..issued /\ ~Void(a)
    BY ONLY CInv, <2>1, OwnDosAre, d \in Designs
  <2>3. /\ n \in OwnIn(trail[d]) /\ n \in Int /\ b = Mark(trail[d], n)
        /\ b \in 1..issued /\ ~Void(b)
    BY ONLY CInv, <2>1, OwnDosAre, d \in Designs
  <2> HIDE DEF a, b
  <2>4. a = b
    BY <2>1, <2>2, <2>3 DEF CInv, Tries, OneTry
  <2>5. Rising(trail[d])
    BY DEF CInv, InOrder
  <2>6. a \in Int /\ ~(a < a)
    BY <2>0, <2>2
  <2>7. m < n => a < b
    BY <2>2, <2>3, <2>5 DEF Rising
  <2>8. n < m => b < a
    BY <2>2, <2>3, <2>5 DEF Rising
  <2> QED BY <2>2, <2>3, <2>4, <2>6, <2>7, <2>8
<1> QED BY <1>1, CommandPathInvariant, PTL

\* An edit the window offers for another try, or that was declined, is not in
\* its design, nor can a late request put it there.
THEOREM ReviewIsTruthful == Spec => []ReviewedEditsAreUnapplied
<1>1. CInv => ReviewedEditsAreUnapplied
  <2> SUFFICES ASSUME CInv, NEW d \in Designs
               PROVE  /\ \A r \in retained[d] :
                            r.state # "failed" => AppliedTo(d, r.input) = {}
                      /\ \A i \in Inputs : settled[i] = "declined" => AppliedTo(d, i) = {}
    BY DEF ReviewedEditsAreUnapplied
  <2>1. NotTried
    BY DEF CInv, Tries
  <2>2. ASSUME NEW r \in retained[d], r.state # "failed", NEW n \in AppliedTo(d, r.input)
        PROVE  FALSE
    <3> DEFINE c == CommandOf(trail[d][n])
    <3>1. n \in OwnDos(d) /\ origin[c] = r.input
      BY DEF AppliedTo
    <3>2. c \in 1..issued /\ ~Void(c)
      BY ONLY CInv, <3>1, OwnDosAre, d \in Designs
    <3> HIDE DEF c
    <3> QED BY <2>1, <2>2, <3>1, <3>2 DEF NotTried
  <2>3. ASSUME NEW i \in Inputs, settled[i] = "declined", NEW n \in AppliedTo(d, i)
        PROVE  FALSE
    <3> DEFINE c == CommandOf(trail[d][n])
    <3>1. n \in OwnDos(d) /\ origin[c] = i
      BY DEF AppliedTo
    <3>2. c \in 1..issued /\ ~Void(c)
      BY ONLY CInv, <3>1, OwnDosAre, d \in Designs
    <3> HIDE DEF c
    <3> QED BY <2>1, <2>3, <3>1, <3>2 DEF NotTried
  <2> QED BY <2>2, <2>3
<1> QED BY <1>1, CommandPathInvariant, PTL

\* The changes of the window to a design come in the order of its commands,
\* however long the backend held a request.
THEOREM EditsKeepTheirOrder == Spec => []EditsLandInOrder
<1>1. CInv => EditsLandInOrder
  <2> SUFFICES ASSUME CInv, NEW d \in Designs, NEW m \in OwnDos(d), NEW n \in OwnDos(d), m < n
               PROVE  CommandOf(trail[d][m]) < CommandOf(trail[d][n])
    BY DEF EditsLandInOrder
  <2>1. m \in OwnIn(trail[d]) /\ CommandOf(trail[d][m]) = Mark(trail[d], m)
    BY OwnDosAre
  <2>2. n \in OwnIn(trail[d]) /\ CommandOf(trail[d][n]) = Mark(trail[d], n)
    BY OwnDosAre
  <2>3. Rising(trail[d])
    BY DEF CInv, InOrder
  <2> QED BY <2>1, <2>2, <2>3 DEF Rising
<1> QED BY <1>1, CommandPathInvariant, PTL

\* The revision of a lane is never ahead of the design, never behind a write it
\* was told of, and passes from a command to the one queued behind it.
THEOREM LaneFollowsItsWrites == Spec => []LaneTracksDesign
<1>1. CInv => LaneTracksDesign
  <2> SUFFICES ASSUME CInv PROVE LaneTracksDesign
    OBVIOUS
  <2>1. NoSilentRebase
    BY DEF CInv, Acks
  <2>2. ASSUME NEW d \in Designs PROVE revision[d] <= head[d]
    BY DEF CInv, Senders
  <2>3. ASSUME NEW d \in Designs, NEW n \in OwnDos(d),
               <<CommandOf(trail[d][n]), n>> \in acks
        PROVE  n <= revision[d]
    <3>1. n \in OwnIn(trail[d]) /\ CommandOf(trail[d][n]) = Mark(trail[d], n)
      BY OwnDosAre
    <3> QED BY <2>3, <3>1 DEF CInv, Acks, Knows
  <2> QED BY <2>1, <2>2, <2>3 DEF LaneTracksDesign, LaneKnowsItsWrites
<1> QED BY <1>1, CommandPathInvariant, PTL

-----------------------------------------------------------------------------
(* Undo and redo: every change they made has an input to answer for it. *)

\* An undo or redo that may have been made: its sender has not been refused,
\* its outcome is unknown, or it was acknowledged.
Waits(i) ==
    \E d \in Designs :
        /\ step[d] = "awaiting" /\ tail[d][1].input = i
        /\ \A a \in answers : a.conn = link[d] => a.result.code = "OK"
Effective(i) ==
    \/ Waits(i)
    \/ Queue!HeldAs(i, {"failed"})
    \/ settled[i] \in {"acknowledged", "discarded"}
EffectiveOf(kind) == {i \in Inputs : ActionOf[i].kind = kind /\ Effective(i)}

Directions == {"undo", "redo"}
Counted ==
    \A kind \in Directions : Cardinality(Replays(kind)) <= Cardinality(EffectiveOf(kind))

\* What is counted is finite, before a step and after it.
LEMMA CountsAreFinite ==
    ASSUME NEW kind \in Directions
    PROVE  /\ IsFiniteSet(Replays(kind)) /\ Cardinality(Replays(kind)) \in Nat
           /\ IsFiniteSet(Replays(kind)') /\ Cardinality(Replays(kind)') \in Nat
           /\ IsFiniteSet(EffectiveOf(kind)) /\ Cardinality(EffectiveOf(kind)) \in Nat
           /\ IsFiniteSet(EffectiveOf(kind)') /\ Cardinality(EffectiveOf(kind)') \in Nat
<1>1. IsFiniteSet(Designs \X (1..MaxRevision))
  <2>1. IsFiniteSet(1..MaxRevision)
    BY BoundsAssumption, FS_Interval
  <2> QED BY <2>1, FiniteAssumption, FS_Product
<1>2. /\ Replays(kind) \in SUBSET (Designs \X (1..MaxRevision))
      /\ Replays(kind)' \in SUBSET (Designs \X (1..MaxRevision))
  BY DEF Replays
<1>3. EffectiveOf(kind) \in SUBSET Inputs /\ EffectiveOf(kind)' \in SUBSET Inputs
  BY DEF EffectiveOf
<1>4. /\ IsFiniteSet(Replays(kind)) /\ IsFiniteSet(Replays(kind)')
  BY <1>1, <1>2, FS_Subset
<1>5. IsFiniteSet(EffectiveOf(kind)) /\ IsFiniteSet(EffectiveOf(kind)')
  BY <1>3, FiniteAssumption, FS_Subset
<1> QED BY <1>4, <1>5, FS_CardinalityType

\* Nothing was replayed, and what may have been made still may.
LEMMA NoReplayCounts ==
    ASSUME Counted,
           \A kind \in Directions : Replays(kind)' \subseteq Replays(kind),
           \A i \in Inputs : IsHistory(i) /\ Effective(i) => Effective(i)'
    PROVE  Counted'
<1> SUFFICES ASSUME NEW kind \in Directions
             PROVE  Cardinality(Replays(kind)') <= Cardinality(EffectiveOf(kind)')
  BY DEF Counted
<1>1. EffectiveOf(kind) \subseteq EffectiveOf(kind)'
  BY DEF EffectiveOf, IsHistory, Directions
<1>2. Cardinality(EffectiveOf(kind)) <= Cardinality(EffectiveOf(kind)')
  BY <1>1, CountsAreFinite, FS_Subset
<1>3. Cardinality(Replays(kind)') <= Cardinality(Replays(kind))
  BY CountsAreFinite, FS_Subset
<1>4. Cardinality(Replays(kind)) <= Cardinality(EffectiveOf(kind))
  BY DEF Counted
<1> QED BY <1>2, <1>3, <1>4, CountsAreFinite

\* One change more, and one input more to answer for it.
LEMMA ReplayCounts ==
    ASSUME Counted, NEW k \in Directions, NEW x, NEW i \in Inputs, ActionOf[i].kind = k,
           ~Effective(i), Effective(i)',
           \A kind \in Directions \ {k} : Replays(kind)' \subseteq Replays(kind),
           Replays(k)' \subseteq Replays(k) \cup {x},
           \A j \in Inputs : IsHistory(j) /\ Effective(j) => Effective(j)'
    PROVE  Counted'
<1> SUFFICES ASSUME NEW kind \in Directions
             PROVE  Cardinality(Replays(kind)') <= Cardinality(EffectiveOf(kind)')
  BY DEF Counted
<1>1. EffectiveOf(kind) \subseteq EffectiveOf(kind)'
  BY DEF EffectiveOf, IsHistory, Directions
<1>2. Cardinality(Replays(kind)) <= Cardinality(EffectiveOf(kind))
  BY DEF Counted
<1>3. CASE kind # k
  <2>1. Cardinality(EffectiveOf(kind)) <= Cardinality(EffectiveOf(kind)')
    BY <1>1, CountsAreFinite, FS_Subset
  <2>2. Cardinality(Replays(kind)') <= Cardinality(Replays(kind))
    BY <1>3, CountsAreFinite, FS_Subset
  <2> QED BY <1>2, <2>1, <2>2, CountsAreFinite
<1>4. CASE kind = k
  <2>1. /\ IsFiniteSet(Replays(k) \cup {x}) /\ Cardinality(Replays(k) \cup {x}) \in Nat
        /\ Cardinality(Replays(k) \cup {x}) <= Cardinality(Replays(k)) + 1
    <3>1. /\ IsFiniteSet(Replays(k) \cup {x})
          /\ Cardinality(Replays(k) \cup {x}) =
                IF x \in Replays(k) THEN Cardinality(Replays(k)) ELSE Cardinality(Replays(k)) + 1
      BY CountsAreFinite, FS_AddElement
    <3> QED BY <3>1, CountsAreFinite
  <2>2. Cardinality(Replays(k)') <= Cardinality(Replays(k) \cup {x})
    BY <2>1, FS_Subset
  <2>3. i \notin EffectiveOf(k) /\ EffectiveOf(k) \cup {i} \subseteq EffectiveOf(k)'
    BY <1>1, <1>4 DEF EffectiveOf
  <2>4. Cardinality(EffectiveOf(k) \cup {i}) = Cardinality(EffectiveOf(k)) + 1
    BY <2>3, CountsAreFinite, FS_AddElement
  <2>5. Cardinality(EffectiveOf(k) \cup {i}) <= Cardinality(EffectiveOf(k)')
    BY <2>3, CountsAreFinite, FS_Subset
  <2> QED BY <1>2, <1>4, <2>1, <2>2, <2>4, <2>5, CountsAreFinite
<1> QED BY <1>3, <1>4

\* A change of one kind adds nothing to the other's.
LEMMA AdvanceReplays ==
    ASSUME SP!IInv, Alive, NEW d \in Designs, NEW k \in {"do", "undo", "redo"},
           NEW q \in Store!Request, NEW b \in Int, Store!Advance(d, k, q, b)
    PROVE  \A kind \in Directions :
              /\ kind # k => Replays(kind)' \subseteq Replays(kind)
              /\ Replays(kind)' \subseteq Replays(kind) \cup {<<d, head[d] + 1>>}
<1>1. SP!TypeOK /\ SP!EveryChangeIsLogged
  BY DEF SP!IInv
<1>2. head[d] \in Nat /\ SP!Exists(d)
  BY StoreFacts DEF SP!Exists, SP!NoRevision, Alive
<1>3. SP!Advance(d, k, q, b) /\ q \in SP!Request
  BY RequestsAre DEF Store!Advance, SP!Advance
<1>4. /\ Len(trail[d]) = head[d] /\ Len(trail'[d]) = head[d] + 1
      /\ \A e \in Designs \ {d} : trail'[e] = trail[e]
      /\ \A n \in 1..head[d] : trail'[d][n] = trail[d][n]
      /\ trail'[d][head[d] + 1] = [kind |-> k, request |-> q, base |-> b]
  BY ONLY <1>1, <1>2, <1>3, StoreAssumed, SP!AdvanceFacts, d \in Designs, b \in Int,
          k \in {"do", "undo", "redo"}
<1>5. trail'[d][head[d] + 1].kind = k
  BY <1>4
<1> SUFFICES ASSUME NEW kind \in Directions, NEW r \in Replays(kind)'
             PROVE  \/ r \in Replays(kind)
                    \/ r = <<d, head[d] + 1>> /\ kind = k
  OBVIOUS
<1>6. /\ r \in Designs \X (1..MaxRevision) /\ r[1] \in Designs /\ r[2] \in 1..MaxRevision
      /\ r[2] <= Len(trail'[r[1]]) /\ trail'[r[1]][r[2]].kind = kind
  BY DEF Replays
<1>7. CASE r[1] # d
  BY <1>4, <1>6, <1>7 DEF Replays
<1>8. CASE r[1] = d /\ r[2] \in 1..head[d]
  BY <1>2, <1>4, <1>6, <1>8 DEF Replays
<1>9. CASE r[1] = d /\ r[2] = head[d] + 1
  <2>1. r = <<r[1], r[2]>>
    BY <1>6
  <2> QED BY <1>5, <1>6, <1>9, <2>1
<1>10. ASSUME r[1] = d
       PROVE  r[2] \in 1..head[d] \/ r[2] = head[d] + 1
  <2>1. r[2] \in Int /\ 1 <= r[2]
    <3>1. r[2] \in 1..MaxRevision
      BY <1>6
    <3> QED BY ONLY <3>1, StoreAssumed
  <2>2. Len(trail'[r[1]]) = head[d] + 1
    BY <1>4, <1>10
  <2>3. r[2] <= head[d] + 1
    BY <1>6, <2>2
  <2> QED BY <1>2, <2>1, <2>3
<1>11. CASE r[1] = d
  BY <1>8, <1>9, <1>10, <1>11
<1> QED BY <1>7, <1>11

\* No change, no replay.
LEMMA TrailReplays ==
    ASSUME UNCHANGED trail
    PROVE  \A kind \in Directions : Replays(kind)' \subseteq Replays(kind)
  BY DEF Replays

-----------------------------------------------------------------------------
(* What may have been made still may: the undo of a lane that waits, the    *)
(* undos of unknown outcome, the ones that are settled.                     *)

StillWaits(e) ==
    \/ /\ step'[e] = "awaiting" /\ tail'[e][1] = tail[e][1] /\ link'[e] = link[e]
       /\ \A a \in answers' : a.conn = link[e] => a \in answers
    \/ \E a \in answers : a.conn = link[e] /\ a.result.code # "OK"
    \/ \E r \in retained'[e] : r.input = tail[e][1].input /\ r.state = "failed"
    \/ settled'[tail[e][1].input] = "acknowledged"

\* If so for all of them, whoever answered for a change still does.
LEMMA EffectsStay ==
    ASSUME CInv,
           \A e \in Designs :
               step[e] = "awaiting" /\ IsHistory(tail[e][1].input) => StillWaits(e),
           \A e \in Designs : \A r \in retained[e] : r.state = "failed" =>
               r \in retained'[e] \/ settled'[r.input] = "discarded",
           \A i \in Inputs : settled[i] \in {"acknowledged", "discarded"} => settled'[i] = settled[i]
    PROVE  \A i \in Inputs : IsHistory(i) /\ Effective(i) => Effective(i)'
<1> SUFFICES ASSUME NEW i \in Inputs, IsHistory(i), Effective(i) PROVE Effective(i)'
  OBVIOUS
<1>1. CASE Waits(i)
  <2>1. PICK e \in Designs :
            /\ step[e] = "awaiting" /\ tail[e][1].input = i
            /\ \A a \in answers : a.conn = link[e] => a.result.code = "OK"
    BY <1>1 DEF Waits
  <2>2. StillWaits(e)
    BY <2>1
  <2>3. CASE /\ step'[e] = "awaiting" /\ tail'[e][1] = tail[e][1] /\ link'[e] = link[e]
             /\ \A a \in answers' : a.conn = link[e] => a \in answers
    <3>1. Waits(i)'
      BY <2>1, <2>3 DEF Waits
    <3> QED BY <3>1 DEF Effective
  <2>4. CASE \E r \in retained'[e] : r.input = i /\ r.state = "failed"
    BY <2>4 DEF Effective, Queue!HeldAs
  <2>5. CASE settled'[i] = "acknowledged"
    BY <2>5 DEF Effective
  <2> QED BY <2>1, <2>2, <2>3, <2>4, <2>5 DEF StillWaits
<1>2. CASE Queue!HeldAs(i, {"failed"})
  <2>0. PICK e \in Designs : \E r \in retained[e] : r.input = i /\ r.state = "failed"
    BY <1>2 DEF Queue!HeldAs
  <2>1. PICK r \in retained[e] : r.input = i /\ r.state = "failed"
    BY <2>0
  <2>2. CASE r \in retained'[e]
    BY <2>1, <2>2 DEF Effective, Queue!HeldAs
  <2>3. CASE settled'[i] = "discarded"
    BY <2>3 DEF Effective
  <2> QED BY <2>1, <2>2, <2>3
<1>3. CASE settled[i] \in {"acknowledged", "discarded"}
  BY <1>3 DEF Effective
<1> QED BY <1>1, <1>2, <1>3 DEF Effective

\* The sender of an idle lane does not wait; an edit in a lane is not settled.
LEMMA CountFacts ==
    ASSUME CInv, NEW d \in Designs
    PROVE  /\ ~running[d] => step[d] = "idle"
           /\ running[d] => tail[d] # <<>>
           /\ tail[d] # <<>> => /\ Task(d) = tail[d][1] /\ tail[d][1].input \in Inputs
                                /\ settled[tail[d][1].input] = "none"
           /\ tail \in [Designs -> Seq(QP!Task)]
           /\ step \in [Designs -> Steps]
           /\ link \in [Designs -> Connections \cup {NoConnection}]
           /\ retained \in [Designs -> SUBSET QP!RetainedCommand]
           /\ settled \in [Inputs -> {"none", "acknowledged", "declined", "discarded"}]
<1> USE DEF CInv, Base
<1>1. ~running[d] => step[d] = "idle"
  BY DEF Senders
<1>2. tail[d] # <<>> => /\ 1 \in 1..Len(tail[d]) /\ Task(d) = tail[d][1]
                        /\ tail[d][1].input \in Inputs
  BY TaskFacts
<1>3. tail[d] # <<>> => settled[tail[d][1].input] = "none"
  BY <1>2, QueueFacts
<1> QED BY <1>1, <1>2, <1>3, QueueFacts DEF Rest

\* Nothing of a waiting lane is touched.
LEMMA NothingTouched ==
    ASSUME CInv, UNCHANGED <<step, link, tail, retained, settled>>,
           \A e \in Designs : step[e] = "awaiting" /\ IsHistory(tail[e][1].input) =>
               \A a \in answers' : a.conn = link[e] => a \in answers
    PROVE  \A i \in Inputs : IsHistory(i) /\ Effective(i) => Effective(i)'
<1>1. \A e \in Designs :
          step[e] = "awaiting" /\ IsHistory(tail[e][1].input) => StillWaits(e)
  BY DEF StillWaits
<1>2. \A e \in Designs : \A r \in retained[e] : r \in retained'[e]
  OBVIOUS
<1> QED BY <1>1, <1>2, EffectsStay

\* The lanes, and the workspace, leave the design alone.
LEMMA LaneCounts ==
    ASSUME CInv, Counted, NEW d \in Designs,
           \/ \E i \in Inputs : UserActs(d, i)
           \/ Begin(d) \/ Cancel(d)
    PROVE  Counted'
<1>1. UNCHANGED <<trail, answers, link>>
  BY DEF UserActs, Begin, Cancel, storeVars, senderVars
<1>2. ASSUME \A e \in Designs :
               step[e] = "awaiting" => step'[e] = "awaiting" /\ tail'[e][1] = tail[e][1],
             \A e \in Designs : \A r \in retained[e] : r \in retained'[e],
             UNCHANGED settled
      PROVE  Counted'
  <2>1. \A e \in Designs :
            step[e] = "awaiting" /\ IsHistory(tail[e][1].input) => StillWaits(e)
    BY <1>1, <1>2 DEF StillWaits
  <2>2. \A i \in Inputs : IsHistory(i) /\ Effective(i) => Effective(i)'
    BY <1>2, <2>1, EffectsStay
  <2> QED BY <1>1, <2>2, TrailReplays, NoReplayCounts
<1>3. ASSUME NEW i \in Inputs, UserActs(d, i) PROVE Counted'
  <2>1. Queue!Enqueue(d, i, FALSE) /\ UNCHANGED <<retained, settled, step>>
    BY <1>3 DEF UserActs, Queue!Submit, senderVars
  <2>2. Pushed(d, i)
    BY <2>1, PushFacts DEF CInv, Base
  <2>3. ASSUME NEW e \in Designs, step[e] = "awaiting" PROVE tail'[e][1] = tail[e][1]
    <3>1. 1 \in 1..Len(tail[e])
      BY <2>3, CountFacts, TaskFacts DEF CInv, Base
    <3> QED BY <2>2, <3>1 DEF Pushed
  <2> QED BY <1>2, <2>1, <2>3
<1>4. CASE Begin(d)
  <2>1. /\ UNCHANGED <<tail, retained, settled>> /\ ~running[d]
        /\ \E s \in {"reading", "sending"} : step' = [step EXCEPT ![d] = s]
    BY <1>4 DEF Begin, Queue!Start
  <2>2. step[d] = "idle" /\ step \in [Designs -> Steps]
    BY <2>1, CountFacts
  <2>3. \A e \in Designs : step[e] = "awaiting" => step'[e] = "awaiting"
    BY <2>1, <2>2
  <2> QED BY <1>2, <2>1, <2>3
<1>5. CASE Cancel(d)
  <2>1. /\ ~running[d] /\ tail' = [tail EXCEPT ![d] = Tail(@)] /\ UNCHANGED <<step, settled>>
        /\ \E r : retained' = [retained EXCEPT ![d] = @ \cup {r}]
    BY <1>5 DEF Cancel, Queue!CancelUnsent, Queue!Retain, Queue!Dequeue, senderVars
  <2>2. step[d] = "idle" /\ tail \in [Designs -> Seq(QP!Task)]
        /\ retained \in [Designs -> SUBSET QP!RetainedCommand]
    BY <2>1, CountFacts
  <2>3. \A e \in Designs : step[e] = "awaiting" => step'[e] = "awaiting" /\ tail'[e][1] = tail[e][1]
    BY <2>1, <2>2
  <2>4. \A e \in Designs : \A r \in retained[e] : r \in retained'[e]
    BY <2>1, <2>2
  <2> QED BY <1>2, <2>1, <2>3, <2>4
<1> QED BY <1>3, <1>4, <1>5

\* The sender moves but neither sends nor finishes, or it finishes.
LEMMA SenderCounts ==
    ASSUME CInv, Counted, NEW d \in Designs,
           \/ ReadHead(d) \/ UserConfirms(d) \/ UserDeclines(d) \/ ConnectionLost(d)
           \/ \E a \in answers : Acknowledged(d, a) \/ MergeRefused(d, a) \/ Rejected(d, a)
    PROVE  Counted'
<1>1. trail' = trail /\ answers' \subseteq answers
  BY DEF ReadHead, UserConfirms, UserDeclines, ConnectionLost, Acknowledged, MergeRefused,
         Rejected, AnswerOf, Store!Deliver, storeVars
<1> DEFINE i == tail[d][1].input
<1>2. /\ tail \in [Designs -> Seq(QP!Task)] /\ step \in [Designs -> Steps]
      /\ link \in [Designs -> Connections \cup {NoConnection}]
      /\ retained \in [Designs -> SUBSET QP!RetainedCommand]
      /\ settled \in [Inputs -> {"none", "acknowledged", "declined", "discarded"}]
  BY CountFacts
<1>3. ASSUME \A e \in Designs \ {d} : /\ step'[e] = step[e] /\ tail'[e] = tail[e]
                                      /\ link'[e] = link[e],
             \A e \in Designs : \A r \in retained[e] : r \in retained'[e],
             \A j \in Inputs : settled[j] \in {"acknowledged", "discarded"} => settled'[j] = settled[j],
             step[d] = "awaiting" => StillWaits(d)
      PROVE  Counted'
  <2>1. \A e \in Designs :
            step[e] = "awaiting" /\ IsHistory(tail[e][1].input) => StillWaits(e)
    BY <1>1, <1>3 DEF StillWaits
  <2>2. \A j \in Inputs : IsHistory(j) /\ Effective(j) => Effective(j)'
    BY <1>3, <2>1, EffectsStay
  <2> QED BY <1>1, <2>2, TrailReplays, NoReplayCounts
<1>4. CASE ReadHead(d) \/ UserConfirms(d)
  <2>1. /\ step[d] # "awaiting" /\ UNCHANGED <<tail, link, retained, settled>>
        /\ \E s : step' = [step EXCEPT ![d] = s]
    BY <1>4 DEF ReadHead, UserConfirms, queueVars
  <2> QED BY <1>2, <1>3, <2>1
<1>5. CASE UserDeclines(d)
  <2>1. /\ step[d] = "asking" /\ retained' = retained /\ running[d]
        /\ step' = [step EXCEPT ![d] = "idle"] /\ tail' = [tail EXCEPT ![d] = Tail(@)]
        /\ link' = [link EXCEPT ![d] = NoConnection]
        /\ settled' = [settled EXCEPT ![Task(d).input] = "declined"]
    BY <1>5 DEF UserDeclines, Queue!Decline, Queue!Dequeue, SenderDone, Task
  <2>2. Task(d).input = i /\ settled[i] = "none"
    BY <2>1, CountFacts
  <2>3. \A j \in Inputs : settled[j] \in {"acknowledged", "discarded"} => settled'[j] = settled[j]
    BY <1>2, <2>1, <2>2
  <2> QED BY <1>2, <1>3, <2>1, <2>3
<1>6. CASE \E a \in answers : Acknowledged(d, a)
  <2>1. /\ retained' = retained /\ running[d]
        /\ step' = [step EXCEPT ![d] = "idle"] /\ tail' = [tail EXCEPT ![d] = Tail(@)]
        /\ link' = [link EXCEPT ![d] = NoConnection]
        /\ settled' = [settled EXCEPT ![Task(d).input] = "acknowledged"]
    BY <1>6 DEF Acknowledged, Queue!Acknowledge, Queue!Dequeue, SenderDone, Task
  <2>2. Task(d).input = i /\ settled[i] = "none" /\ i \in Inputs
    BY <2>1, CountFacts
  <2>3. \A j \in Inputs : settled[j] \in {"acknowledged", "discarded"} => settled'[j] = settled[j]
    BY <1>2, <2>1, <2>2
  <2>4. settled'[i] = "acknowledged"
    BY <1>2, <2>1, <2>2
  <2>5. StillWaits(d)
    BY <2>4 DEF StillWaits
  <2> QED BY <1>2, <1>3, <2>1, <2>3, <2>5
<1>7. CASE \E a \in answers : MergeRefused(d, a) \/ Rejected(d, a)
  <2>1. PICK a \in answers : MergeRefused(d, a) \/ Rejected(d, a)
    BY <1>7
  <2>2. a.conn = link[d] /\ a.result.code # "OK"
    BY <2>1 DEF MergeRefused, Rejected, AnswerOf, AsksUser
  <2>3. /\ \E s : step' = [step EXCEPT ![d] = s]
        /\ link' = [link EXCEPT ![d] = NoConnection] /\ UNCHANGED settled
        /\ tail' = tail \/ tail' = [tail EXCEPT ![d] = Tail(@)]
        /\ retained' = retained \/ \E r : retained' = [retained EXCEPT ![d] = @ \cup {r}]
    BY <2>1 DEF MergeRefused, Rejected, SenderDone, Queue!Conflict, Queue!Fail, Queue!Retain,
                Queue!Dequeue, queueVars
  <2>4. \A e \in Designs : \A r \in retained[e] : r \in retained'[e]
    <3>1. ASSUME NEW r, retained' = [retained EXCEPT ![d] = @ \cup {r}]
          PROVE  \A e \in Designs : retained[e] \subseteq retained'[e]
      BY <1>2, <3>1
    <3> QED BY <2>3, <3>1
  <2>5. StillWaits(d)
    BY <2>2 DEF StillWaits
  <2> QED BY <1>2, <1>3, <2>3, <2>4, <2>5
<1>8. CASE ConnectionLost(d)
  <2> DEFINE r == [id |-> Task(d).id, input |-> Task(d).input, state |-> "failed"]
  <2>1. /\ step' = [step EXCEPT ![d] = "idle"] /\ tail' = [tail EXCEPT ![d] = Tail(@)]
        /\ link' = [link EXCEPT ![d] = NoConnection] /\ UNCHANGED settled /\ running[d]
        /\ retained' = [retained EXCEPT ![d] = @ \cup {r}]
    BY <1>8 DEF ConnectionLost, Queue!Fail, Queue!Retain, Queue!Dequeue, SenderDone, Task
  <2>2. Task(d).input = i
    BY <2>1, CountFacts
  <2>3. \A e \in Designs : \A q \in retained[e] : q \in retained'[e]
    BY <1>2, <2>1
  <2>4. r \in retained'[d] /\ r.input = i /\ r.state = "failed"
    BY <1>2, <2>1, <2>2
  <2> HIDE DEF r
  <2>5. StillWaits(d)
    BY <2>4 DEF StillWaits
  <2> QED BY <1>2, <1>3, <2>1, <2>3, <2>5
<1> QED BY <1>4, <1>5, <1>6, <1>7, <1>8

\* Discarded undos stay counted; a failed one is not reapplied.
LEMMA ReviewCounts ==
    ASSUME CInv, Counted, NEW d \in Designs,
           \/ Refresh(d) \/ AskDiscard(d) \/ AskReapply(d)
           \/ RefreshReads(d) \/ RefreshFails(d)
           \/ RefreshArrives(d) \/ RefreshSuperseded(d)
           \/ Discard(d) \/ Reapply(d)
    PROVE  Counted'
<1>1. UNCHANGED <<trail, answers, step, link>>
  BY DEF Refresh, AskDiscard, AskReapply, AskReview, RefreshReads, RefreshFails, RefreshArrives,
         RefreshSuperseded, RefreshReturns, Discard, Reapply, storeVars, senderVars
<1>2. /\ retained \in [Designs -> SUBSET QP!RetainedCommand]
      /\ settled \in [Inputs -> {"none", "acknowledged", "declined", "discarded"}]
  BY CountFacts
<1>3. ASSUME \A i \in Inputs : IsHistory(i) /\ Effective(i) => Effective(i)'
      PROVE  Counted'
  BY <1>1, <1>3, TrailReplays, NoReplayCounts
<1>4. CASE UNCHANGED <<tail, retained, settled>>
  BY <1>1, <1>3, <1>4, NothingTouched
<1>5. CASE Discard(d) /\ Queue!DiscardRetained(d)
  <2>1. /\ tail' = tail /\ retained' = [retained EXCEPT ![d] = {}]
        /\ settled' = [i \in Inputs |-> IF \E r \in retained[d] : r.input = i
                                        THEN "discarded" ELSE settled[i]]
    BY <1>5 DEF Queue!DiscardRetained
  <2>2. \A r \in retained[d] : r.input \in Inputs /\ settled[r.input] = "none"
    <3>1. \A r \in retained[d] : r \in QP!RetainedCommand /\ settled[r.input] = "none"
      BY QueueFacts DEF CInv, Base
    <3> QED BY <3>1 DEF QP!RetainedCommand
  <2>3. \A e \in Designs : \A r \in retained[e] :
            r \in retained'[e] \/ settled'[r.input] = "discarded"
    BY <1>2, <2>1, <2>2
  <2>4. \A i \in Inputs : settled[i] \in {"acknowledged", "discarded"} => settled'[i] = settled[i]
    BY <2>1, <2>2
  <2>5. \A e \in Designs :
            step[e] = "awaiting" /\ IsHistory(tail[e][1].input) => StillWaits(e)
    BY <1>1, <2>1 DEF StillWaits
  <2> QED BY <1>3, <2>3, <2>4, <2>5, EffectsStay
<1>6. ASSUME NEW r \in retained[d], Queue!Reapply(d, r) PROVE Counted'
  <2>1. /\ Queue!Enqueue(d, r.input, TRUE) /\ settled' = settled /\ r.state # "failed"
        /\ retained' = [retained EXCEPT ![d] = @ \ {r}]
    BY <1>6 DEF Queue!Reapply
  <2>2. r.input \in Inputs
    BY <1>2 DEF QP!RetainedCommand
  <2>3. Pushed(d, r.input)
    BY <2>1, <2>2, PushFacts DEF CInv, Base
  <2>4. ASSUME NEW e \in Designs, step[e] = "awaiting" PROVE StillWaits(e)
    <3>1. 1 \in 1..Len(tail[e])
      BY <2>4, CountFacts, TaskFacts DEF CInv, Base
    <3>2. tail'[e][1] = tail[e][1]
      BY <2>3, <3>1 DEF Pushed
    <3> QED BY <1>1, <2>4, <3>2 DEF StillWaits
  <2>5. \A e \in Designs : \A q \in retained[e] : q.state = "failed" => q \in retained'[e]
    BY <1>2, <2>1
  <2> QED BY <1>3, <2>1, <2>4, <2>5, EffectsStay
<1>7. \/ UNCHANGED <<tail, retained, settled>>
      \/ Discard(d) /\ Queue!DiscardRetained(d)
      \/ \E r \in retained[d] : Queue!Reapply(d, r)
  BY DEF Refresh, AskDiscard, AskReapply, AskReview, RefreshReads, RefreshFails, RefreshArrives,
         RefreshSuperseded, RefreshReturns, Discard, Reapply, Queue!Observe, queueVars
<1> QED BY <1>4, <1>5, <1>6, <1>7

-----------------------------------------------------------------------------
(* The backend replays for the lane that asked, and for nobody else. *)

NoReplay == \A kind \in Directions : Replays(kind)' \subseteq Replays(kind)

\* A command is no undo.
LEMMA TransactReplaysNothing ==
    ASSUME SP!IInv, Alive, NEW c, NEW q \in Store!Request, NEW b \in Int,
           Store!Transact(c, q, b)
    PROVE  NoReplay
<1>1. CASE Store!Missing(c, q)
  BY <1>1, TrailReplays DEF Store!Missing, NoReplay
<1>2. CASE Store!Stale(c, q, b)
  BY <1>2, TrailReplays DEF Store!Stale, NoReplay
<1>3. CASE Store!Apply(c, q, b)
  <2>1. Store!Advance(q.design, "do", q, b) /\ q.design \in Designs
    BY <1>3 DEF Store!Apply, Store!Request
  <2> QED BY <2>1, AdvanceReplays DEF NoReplay, Directions
<1>4. CASE Store!NothingToDo(c, q, b) \/ Store!Reject(c, q, b)
  BY <1>4, TrailReplays DEF Store!NothingToDo, Store!Reject, NoReplay
<1>5. CASE Store!RefuseMerge(c, q, b) \/ Store!Throw(c, q, b)
  BY <1>5, TrailReplays DEF Store!RefuseMerge, Store!Throw, NoReplay
<1> QED BY <1>1, <1>2, <1>3, <1>4, <1>5 DEF Store!Transact

\* Nor is a call that arrives.
LEMMA DispatchReplaysNothing ==
    ASSUME SP!IInv, Alive, NEW c, NEW q \in Store!Request, NEW b \in Int,
           Store!Dispatch(c, q, b)
    PROVE  NoReplay
<1>1. CASE trail' = trail
  BY <1>1, TrailReplays DEF NoReplay
<1>2. CASE Store!Transact(c, q, b)
  BY <1>2, TransactReplaysNothing
<1> QED BY <1>1, <1>2 DEF Store!Dispatch

\* The answer goes to a lane that does not wait for an undo.
LEMMA WorksCounts ==
    ASSUME CInv, Counted, NoReplay, NEW c, NEW q, NEW b, Works(c, q, b)
    PROVE  Counted'
<1>1. UNCHANGED <<step, link, tail, retained, settled>>
  BY DEF Works, queueVars, senderVars
<1>2. ASSUME NEW e \in Designs, IsHistory(tail[e][1].input),
             NEW a \in answers', a.conn = link[e], a \notin answers
      PROVE  FALSE
  <2>1. a.conn = c /\ Linked(c)
    BY <1>2 DEF Works, Served, Linked
  <2>2. PICK w \in waiting : w.conn = c
    BY <1>2, <2>1 DEF Works
  <2>3. LinkedCalls
    BY DEF CInv, Calls
  <2>4. w.conn = link[e]
    BY <1>2, <2>1, <2>2
  <2> QED BY <1>2, <2>3, <2>4 DEF LinkedCalls
<1>3. \A i \in Inputs : IsHistory(i) /\ Effective(i) => Effective(i)'
  BY <1>1, <1>2, NothingTouched
<1> QED BY <1>3, NoReplayCounts DEF NoReplay

\* The backend on its own replays nothing.
LEMMA BackendCounts ==
    ASSUME CInv, Counted,
           \/ LibraryAnswers
           \/ \E c \in Connections, req \in ExternalRequests : ExternalWrite(c, req)
           \/ \E a \in answers : ExternalAnswer(a)
           \/ BackendRestart
    PROVE  Counted'
<1>1. CASE LibraryAnswers
  <2>1. PICK c, q, b : Works(c, q, b)
    BY <1>1, LibraryWorks
  <2>2. PICK w \in waiting : Store!LibraryResolved(w) \/ Store!LibraryFailed(w)
    BY <1>1, LibraryWorks
  <2>3. w.request \in Store!Request /\ w.base \in Int
    BY StoreFacts DEF CInv, Base
  <2>4. CASE trail' = trail
    BY <2>1, <2>4, TrailReplays, WorksCounts DEF NoReplay
  <2>5. CASE Store!Transact(w.conn, w.request, w.base)
    BY <2>1, <2>3, <2>5, TransactReplaysNothing, WorksCounts DEF CInv, Base
  <2> QED BY <2>2, <2>4, <2>5 DEF Store!LibraryResolved, Store!LibraryFailed
<1>2. ASSUME NEW c \in Connections, NEW req \in ExternalRequests, ExternalWrite(c, req)
      PROVE  Counted'
  <2>1. /\ Works(c, req, NoRevision) /\ NoRevision \in Int
        /\ req \in Store!Request /\ Store!Dispatch(c, req, NoRevision)
    BY <1>2, ExternalWorks DEF NoRevision
  <2>2. NoReplay
    BY <2>1, DispatchReplaysNothing DEF CInv, Base
  <2> QED BY <2>1, <2>2, WorksCounts
<1>3. CASE BackendRestart
  <2>1. (\E c, q, b : Works(c, q, b)) /\ trail' = trail
    BY <1>3, RestartWorks DEF BackendRestart, Store!Restart
  <2> QED BY <2>1, TrailReplays, WorksCounts DEF NoReplay
<1>4. ASSUME NEW a \in answers, ExternalAnswer(a) PROVE Counted'
  <2>1. /\ UNCHANGED <<step, link, tail, retained, settled, trail>> /\ answers' \subseteq answers
    BY <1>4 DEF ExternalAnswer, Store!Deliver, queueVars, senderVars
  <2>2. \A i \in Inputs : IsHistory(i) /\ Effective(i) => Effective(i)'
    BY <2>1, NothingTouched
  <2> QED BY <2>1, <2>2, TrailReplays, NoReplayCounts
<1> QED BY <1>1, <1>2, <1>3, <1>4

\* A request that is sent leaves the other lanes' undos as they are.
LEMMA SendsOthers ==
    ASSUME CInv, NEW d \in Designs, NEW c, Sends(d, c)
    PROVE  \A i \in Inputs : IsHistory(i) /\ Effective(i) => Effective(i)'
<1>1. /\ UNCHANGED <<tail, retained, settled>> /\ step[d] # "awaiting" /\ ~Linked(c)
      /\ \A a \in answers' : a \in answers \/ a.conn = c
      /\ link' = [link EXCEPT ![d] = c]
      /\ step' = [step EXCEPT ![d] = IF @ = "sending" THEN "awaiting" ELSE "reawaiting"]
  BY DEF Sends, queueVars
<1>2. step \in [Designs -> Steps] /\ link \in [Designs -> Connections \cup {NoConnection}]
  BY CountFacts
<1>3. ASSUME NEW e \in Designs, step[e] = "awaiting" PROVE StillWaits(e)
  <2>1. step'[e] = "awaiting" /\ link'[e] = link[e] /\ link[e] # c
    BY <1>1, <1>2, <1>3 DEF Linked
  <2> QED BY <1>1, <2>1 DEF StillWaits
<1>4. \A e \in Designs : \A r \in retained[e] : r \in retained'[e]
  BY <1>1
<1> QED BY <1>1, <1>3, <1>4, EffectsStay

\* The undo that is sent was not counted, and is as soon as it is made.
LEMMA SentUndo ==
    ASSUME CInv, NEW d \in Designs, NEW c \in Connections, Sends(d, c),
           IsHistory(tail[d][1].input)
    PROVE  /\ tail[d][1].input \in Inputs /\ ~Effective(tail[d][1].input)
           /\ (\A a \in answers' : a.conn = c => a.result.code = "OK") =>
                 Effective(tail[d][1].input)'
<1> USE DEF CInv, Base
<1> DEFINE i == tail[d][1].input
<1>1. /\ step[d] \in {"sending", "resending"} /\ tail' = tail
      /\ link' = [link EXCEPT ![d] = c]
      /\ step' = [step EXCEPT ![d] = IF @ = "sending" THEN "awaiting" ELSE "reawaiting"]
  BY DEF Sends, queueVars
<1>2. step \in [Designs -> Steps] /\ link \in [Designs -> Connections \cup {NoConnection}]
  BY CountFacts
<1>3. step[d] = "sending"
  BY <1>1 DEF Senders, Merging
<1>4. running[d] /\ tail[d] # <<>>
  BY <1>3, CountFacts
<1>5. i \in Inputs /\ settled[i] = "none" /\ 1 \in 1..Len(tail[d])
  BY <1>4, CountFacts, TaskFacts
<1>6. ~Waits(i)
  <2> SUFFICES ASSUME NEW e \in Designs, step[e] = "awaiting", tail[e][1].input = i
               PROVE  FALSE
    BY DEF Waits
  <2>1. 1 \in 1..Len(tail[e])
    BY CountFacts, TaskFacts
  <2>2. e = d
    BY <1>5, <2>1, QueueFacts
  <2> QED BY <1>3, <2>2
<1>7. ~Queue!HeldAs(i, {"failed"})
  BY <1>5, QueueFacts DEF Queue!HeldAs
<1>8. ~Effective(i)
  BY <1>5, <1>6, <1>7 DEF Effective
<1>9. ASSUME \A a \in answers' : a.conn = c => a.result.code = "OK"
      PROVE  Effective(i)'
  <2>1. /\ step'[d] = "awaiting" /\ link'[d] = c /\ tail'[d][1].input = tail[d][1].input
    BY <1>1, <1>2, <1>3
  <2>2. Waits(tail[d][1].input)'
    BY <1>1, <1>9, <2>1 DEF Waits
  <2> QED BY <2>2 DEF Effective
<1> QED BY <1>5, <1>8, <1>9

\* An undo that changes the design says so, and is the newest of its stack.
LEMMA ReplayAdvances ==
    ASSUME CInv, NEW d \in Designs, NEW c \in Connections, Send(d, c),
           IsHistory(tail[d][1].input), trail' # trail
    PROVE  LET k == ActionOf[tail[d][1].input].kind
               h == histories[d][TaskAction(d).session]
               q == Store!Last(Store!Stack(h, k)).request
           IN  /\ k \in Directions /\ Store!Advance(d, k, q, base[d])
               /\ q \in Store!Request /\ base[d] \in Int
               /\ \A a \in answers' : a.conn = c => a.result.code = "OK"
<1> USE DEF CInv, Base
<1> DEFINE s == TaskAction(d).session
           k == TaskAction(d).kind
           h == histories[d][s]
           entry == Store!Last(Store!Stack(h, k))
<1>1. Task(d) = tail[d][1] /\ tail[d][1].input \in Inputs
  <2>1. step[d] \in {"sending", "resending"}
    BY DEF Send
  <2> QED BY <2>1, SendFacts
<1>2. s \in Sessions /\ k \in {"undo", "redo"}
  <2>1. ActionOf[tail[d][1].input] \in Action
    BY <1>1, ActionsAssumption
  <2> QED BY <1>1, <2>1 DEF TaskAction, Action, IsHistory
<1>3. Store!ReplayHistory(c, d, s, k, base[d])
  BY <1>1 DEF Send
<1>4. /\ Store!Idle(c) /\ Store!Stack(h, k) # <<>>
      /\ Store!Advance(d, k, entry.request, base[d])
      /\ Store!Reply(c, 0, Store!Ok(head[d] + 1))
  BY <1>3 DEF Store!ReplayHistory
<1> HIDE DEF s, k, h, entry
<1>5. entry.request \in Store!Request
  <2>1. h \in SP!History
    BY <1>2 DEF SP!IInv, SP!TypeOK, h
  <2>2. entry = SP!Last(SP!Stack(h, k)) /\ SP!Stack(h, k) # <<>>
    BY <1>4 DEF entry, Store!Last, SP!Last, Store!Stack, SP!Stack
  <2>3. entry \in SP!Entry
    BY ONLY <1>2, <2>1, <2>2, StoreAssumed, SP!ConsumedTyped
  <2> QED BY <2>3, RequestsAre DEF SP!Entry
<1>6. \A a \in answers' : a.conn = c => a.result.code = "OK"
  BY <1>4 DEF Store!Idle, Store!Reply, Store!Ok
<1>7. k = ActionOf[tail[d][1].input].kind
  BY <1>1 DEF k, TaskAction
<1> QED BY <1>2, <1>4, <1>5, <1>6, <1>7 DEF Rest, Directions, h, s, entry

\* Send: the undo that is made has its input to answer for it.
LEMMA SendCounts ==
    ASSUME CInv, Counted, NEW d \in Designs, NEW c \in Connections, Send(d, c)
    PROVE  Counted'
<1>1. CASE ~IsHistory(tail[d][1].input)
  <2>1. /\ Sends(d, c)
        /\ SentRequest(d) \in Store!Request /\ base[d] \in Int
        /\ Store!Dispatch(c, SentRequest(d), base[d])
    BY <1>1, DispatchSends
  <2>2. NoReplay
    BY <2>1, DispatchReplaysNothing DEF CInv, Base
  <2> QED BY <2>1, <2>2, SendsOthers, NoReplayCounts DEF NoReplay
<1>2. CASE IsHistory(tail[d][1].input)
  <2>1. Sends(d, c) /\ (\A j \in Inputs : IsHistory(j) /\ Effective(j) => Effective(j)')
    BY <1>2, ReplaySends, SendsOthers
  <2>2. PICK i \in Inputs : i = tail[d][1].input
    BY <1>2, <2>1, SentUndo
  <2>3. /\ ~Effective(i)
        /\ (\A a \in answers' : a.conn = c => a.result.code = "OK") => Effective(i)'
    <3>1. tail' = tail
      BY <2>1 DEF Sends, queueVars
    <3> QED BY <1>2, <2>1, <2>2, <3>1, SentUndo
  <2>4. CASE trail' = trail
    BY <2>1, <2>4, TrailReplays, NoReplayCounts
  <2>5. CASE trail' # trail
    <3>1. PICK k \in Directions, q \in Store!Request :
              /\ k = ActionOf[i].kind /\ Store!Advance(d, k, q, base[d])
              /\ \A a \in answers' : a.conn = c => a.result.code = "OK"
      BY <1>2, <2>2, <2>5, ReplayAdvances
    <3>2. PICK b \in Int : b = base[d]
      BY DEF CInv, Base, Rest
    <3>3. k \in {"do", "undo", "redo"} /\ SP!IInv /\ Alive /\ Store!Advance(d, k, q, b)
      BY <3>1, <3>2 DEF CInv, Base, Directions
    <3>4. \A kind \in Directions :
              /\ kind # k => Replays(kind)' \subseteq Replays(kind)
              /\ Replays(kind)' \subseteq Replays(kind) \cup {<<d, head[d] + 1>>}
      BY ONLY <3>3, AdvanceReplays, d \in Designs, q \in Store!Request, b \in Int
    <3>5. PICK x : x = <<d, head[d] + 1>>
      OBVIOUS
    <3> QED BY ONLY Counted, i \in Inputs, k \in Directions, <2>1, <2>3, <3>1, <3>4, <3>5, ReplayCounts
  <2> QED BY <2>4, <2>5
<1> QED BY <1>1, <1>2

\* The step: one case per action.
LEMMA NextCounted == CInv /\ Counted /\ [Next]_vars => Counted'
<1> SUFFICES ASSUME CInv, Counted, [Next]_vars PROVE Counted'
  OBVIOUS
<1>1. CASE UNCHANGED vars
  <2>1. UNCHANGED <<step, link, tail, retained, settled, answers, trail>>
    BY <1>1 DEF vars, queueVars, storeVars, senderVars
  <2>2. \A i \in Inputs : IsHistory(i) /\ Effective(i) => Effective(i)'
    BY <2>1, NothingTouched
  <2> QED BY <2>1, <2>2, TrailReplays, NoReplayCounts
<1>2. CASE \E d \in Designs, i \in Inputs : UserActs(d, i)
  BY <1>2, LaneCounts
<1>3. CASE \E d \in Designs :
              \/ LaneMoves(d) \/ SenderMoves(d)
              \/ Refresh(d) \/ AskDiscard(d) \/ AskReapply(d)
              \/ RefreshReads(d) \/ RefreshFails(d)
              \/ RefreshArrives(d) \/ RefreshSuperseded(d)
              \/ Discard(d) \/ Reapply(d)
  BY <1>3, LaneCounts, SenderCounts, SendCounts, ReviewCounts DEF LaneMoves, SenderMoves
<1>4. CASE \/ LibraryAnswers
           \/ \E c \in Connections, req \in ExternalRequests : ExternalWrite(c, req)
           \/ \E a \in answers : ExternalAnswer(a)
           \/ BackendRestart
  BY <1>4, BackendCounts
<1> QED BY <1>1, <1>2, <1>3, <1>4 DEF Next

\* Nothing was replayed yet.
LEMMA InitCounted == Init => Counted
<1> SUFFICES ASSUME Init, NEW kind \in Directions
             PROVE  Cardinality(Replays(kind)) <= Cardinality(EffectiveOf(kind))
  BY DEF Counted
<1>1. \A d \in Designs : Len(trail[d]) = 0
  BY DEF Init, Store!Init
<1>2. Replays(kind) = {}
  BY <1>1 DEF Replays
<1> QED BY <1>2, CountsAreFinite, FS_EmptySet

\* Undo and redo take effect at most once each: there is never more than one
\* change per input that may have been made.
THEOREM HistoryOnce == Spec => []HistoryTakesEffectOnce
<1>1. Init => CInv /\ Counted
  BY InitCInv, InitCounted
<1>2. (CInv /\ Counted) /\ [Next]_vars => (CInv /\ Counted)'
  BY NextCInv, NextCounted
<1>3. CInv /\ Counted => HistoryTakesEffectOnce
  <2> SUFFICES ASSUME CInv, Counted, NEW kind \in {"undo", "redo"}
               PROVE  Cardinality(Replays(kind)) <=
                         Cardinality({i \in Inputs : ActionOf[i].kind = kind /\ MayHaveReplayed(i)})
    BY DEF HistoryTakesEffectOnce
  <2> DEFINE M == {i \in Inputs : ActionOf[i].kind = kind /\ MayHaveReplayed(i)}
  <2>1. ASSUME NEW i \in Inputs, Waits(i) PROVE Queue!Queued(i)
    <3>1. PICK d \in Designs : step[d] = "awaiting" /\ tail[d][1].input = i
      BY <2>1 DEF Waits
    <3>2. 1 \in 1..Len(tail[d])
      BY <3>1, CountFacts, TaskFacts DEF CInv, Base
    <3> QED BY <3>1, <3>2 DEF Queue!Queued
  <2>2. EffectiveOf(kind) \subseteq M
    BY <2>1 DEF EffectiveOf, Effective, MayHaveReplayed
  <2>3. M \in SUBSET Inputs
    OBVIOUS
  <2> HIDE DEF M
  <2>4. IsFiniteSet(M) /\ Cardinality(M) \in Nat
    BY <2>3, FiniteAssumption, FS_Subset, FS_CardinalityType
  <2>5. Cardinality(EffectiveOf(kind)) <= Cardinality(M)
    BY <2>2, <2>4, FS_Subset
  <2>6. /\ Cardinality(Replays(kind)) <= Cardinality(EffectiveOf(kind))
        /\ Cardinality(Replays(kind)) \in Nat /\ Cardinality(EffectiveOf(kind)) \in Nat
    BY CountsAreFinite DEF Counted, Directions
  <2> QED BY <2>4, <2>5, <2>6 DEF M
<1> QED BY <1>1, <1>2, <1>3, PTL DEF Spec

\* Whatever the user did, an edit, an undo or a redo, takes effect at most once.
THEOREM ActionsOnce == Spec => []ActionsTakeEffectOnce
  BY EditsOnce, HistoryOnce, PTL DEF ActionsTakeEffectOnce
===============================================================================
