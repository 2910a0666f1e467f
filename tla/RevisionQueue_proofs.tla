------------------------- MODULE RevisionQueue_proofs -------------------------
(***************************************************************************)
(* Proofs about RevisionQueue, for every set of designs, inputs and        *)
(* revisions and every number of commands.                                 *)
(***************************************************************************)
EXTENDS RevisionQueue, TLAPS

-----------------------------------------------------------------------------
(* Facts about the two operations on the promise chain. *)

\* Appending a task keeps the earlier tasks and their places.
LEMMA AppendFacts ==
    ASSUME NEW q \in Seq(Task), NEW t \in Task
    PROVE  /\ Append(q, t) \in Seq(Task)
           /\ Len(Append(q, t)) = Len(q) + 1
           /\ Append(q, t)[Len(q) + 1] = t
           /\ \A k \in 1..Len(q) : Append(q, t)[k] = q[k]
           /\ q # <<>> => Head(Append(q, t)) = Head(q)
  OBVIOUS

\* Removing the head moves every other task one place up.
LEMMA TailFacts ==
    ASSUME NEW q \in Seq(Task), q # <<>>
    PROVE  /\ Tail(q) \in Seq(Task)
           /\ Len(Tail(q)) = Len(q) - 1
           /\ Len(q) \in Nat \ {0}
           /\ Head(q) \in Task
           /\ Head(q) = q[1]
           /\ \A k \in 1..Len(Tail(q)) : Tail(q)[k] = q[k + 1]
  OBVIOUS

-----------------------------------------------------------------------------
(* The inductive invariant. *)

\* lane.pending counts the tasks of the chain.
PendingCountsTail == \A d \in Designs : pending[d] = Len(tail[d])

\* Only the head of a non-empty chain runs.
RunningIsHead == \A d \in Designs : running[d] => tail[d] # <<>>

\* A lane that keeps an edit for review is blocked.
RetainedBlocks == \A d \in Designs : retained[d] # {} => blocked[d]

IInv ==
    /\ TypeOK
    /\ PendingCountsTail
    /\ RunningIsHead
    /\ RetainedBlocks
    /\ NothingOvertakes

LEMMA InitIInv == Init => IInv
  BY RevisionsAssumption
     DEF Init, IInv, TypeOK, PendingCountsTail, RunningIsHead, RetainedBlocks,
         NothingOvertakes, NoRevision

\* The commands enqueue() builds are tasks.
LEMMA EnqueueIInv ==
    ASSUME IInv, NEW d \in Designs, NEW i \in Inputs, NEW b \in BOOLEAN,
           Enqueue(d, i, b)
    PROVE  /\ tail' \in [Designs -> Seq(Task)]
           /\ pending' \in [Designs -> Nat]
           /\ issued' \in Nat
           /\ PendingCountsTail'
           /\ \A e \in Designs : tail'[e] # <<>> \/ tail'[e] = tail[e]
           /\ \A e \in Designs : tail[e] # <<>> => Head(tail'[e]) = Head(tail[e])
  <1> DEFINE t == [id |-> issued + 1, input |-> i, reviewed |-> b]
  <1>1. t \in Task
    BY DEF IInv, TypeOK, Task
  <1>2. tail' = [tail EXCEPT ![d] = Append(tail[d], t)]
    BY DEF Enqueue
  <1>3. tail[d] \in Seq(Task)
    BY DEF IInv, TypeOK
  <1>4. /\ Append(tail[d], t) \in Seq(Task)
        /\ Len(Append(tail[d], t)) = Len(tail[d]) + 1
        /\ tail[d] # <<>> => Head(Append(tail[d], t)) = Head(tail[d])
        /\ Append(tail[d], t) # <<>>
    <2> HIDE DEF t
    <2> QED BY <1>1, <1>3, AppendFacts
  <1> HIDE DEF t
  <1>5. /\ tail' \in [Designs -> Seq(Task)]
        /\ \A e \in Designs : tail'[e] # <<>> \/ tail'[e] = tail[e]
        /\ \A e \in Designs : tail[e] # <<>> => Head(tail'[e]) = Head(tail[e])
    BY <1>2, <1>4 DEF IInv, TypeOK
  <1>6. /\ pending' = [pending EXCEPT ![d] = pending[d] + 1]
        /\ issued' = issued + 1
    BY DEF Enqueue
  <1>7. /\ pending' \in [Designs -> Nat]
        /\ issued' \in Nat
        /\ PendingCountsTail'
    BY <1>2, <1>4, <1>6 DEF IInv, TypeOK, PendingCountsTail
  <1> QED BY <1>5, <1>7

\* Settling the head leaves a shorter chain with nothing running in it.
LEMMA DequeueIInv ==
    ASSUME IInv, NEW d \in Designs, tail[d] # <<>>, Dequeue(d)
    PROVE  /\ tail' \in [Designs -> Seq(Task)]
           /\ running' \in [Designs -> BOOLEAN]
           /\ pending' \in [Designs -> Nat]
           /\ PendingCountsTail'
           /\ RunningIsHead'
           /\ ~running'[d]
           /\ \A e \in Designs \ {d} : tail'[e] = tail[e] /\ running'[e] = running[e]
           /\ Head(tail[d]) \in Task
  <1>1. /\ Tail(tail[d]) \in Seq(Task)
        /\ Len(Tail(tail[d])) = Len(tail[d]) - 1
        /\ Len(tail[d]) \in Nat \ {0}
        /\ Head(tail[d]) \in Task
    BY TailFacts DEF IInv, TypeOK
  <1>2. /\ tail' = [tail EXCEPT ![d] = Tail(tail[d])]
        /\ running' = [running EXCEPT ![d] = FALSE]
        /\ pending' = [pending EXCEPT ![d] = pending[d] - 1]
    BY DEF Dequeue
  <1> QED BY <1>1, <1>2 DEF IInv, TypeOK, PendingCountsTail, RunningIsHead

LEMMA RetainIInv ==
    ASSUME IInv, NEW d \in Designs, tail[d] # <<>>, NEW s \in RetainedState,
           Retain(d, s)
    PROVE  IInv'
  <1>1. Dequeue(d)
    BY DEF Retain
  <1> DEFINE r == [id |-> Head(tail[d]).id, input |-> Head(tail[d]).input,
                   state |-> s]
  <1>2. r \in RetainedCommand
    BY <1>1, DequeueIInv DEF Task, RetainedCommand
  <1>3. /\ retained' = [retained EXCEPT ![d] = retained[d] \cup {r}]
        /\ blocked' = [blocked EXCEPT ![d] = TRUE]
        /\ UNCHANGED <<revision, issued, settled>>
    BY DEF Retain
  <1> HIDE DEF r
  <1>4. TypeOK'
    BY <1>1, <1>2, <1>3, DequeueIInv DEF IInv, TypeOK
  <1>5. RetainedBlocks'
    BY <1>3 DEF IInv, TypeOK, RetainedBlocks
  <1>6. NothingOvertakes'
    BY <1>1, <1>3, DequeueIInv DEF IInv, TypeOK, NothingOvertakes
  <1> QED BY <1>1, <1>4, <1>5, <1>6, DequeueIInv DEF IInv

LEMMA NextIInv == IInv /\ [Next]_vars => IInv'
  <1> SUFFICES ASSUME IInv, [Next]_vars PROVE IInv'
    OBVIOUS
  <1>1. CASE UNCHANGED vars
    BY <1>1 DEF IInv, TypeOK, PendingCountsTail, RunningIsHead, RetainedBlocks,
                NothingOvertakes, vars
  <1>2. ASSUME NEW d \in Designs, NEW n \in Revisions, Observe(d, n)
        PROVE  IInv'
    BY <1>2, RevisionsAssumption
       DEF IInv, TypeOK, PendingCountsTail, RunningIsHead, RetainedBlocks,
           NothingOvertakes, Observe
  <1>3. ASSUME NEW d \in Designs, NEW i \in Inputs, Submit(d, i)
        PROVE  IInv'
    <2>1. Enqueue(d, i, FALSE) /\ UNCHANGED <<revision, running, retained, blocked, settled>>
      BY <1>3 DEF Submit
    <2>2. TypeOK' /\ PendingCountsTail'
      BY <2>1, EnqueueIInv DEF IInv, TypeOK
    <2>3. RunningIsHead' /\ RetainedBlocks' /\ NothingOvertakes'
      BY <2>1, EnqueueIInv DEF IInv, RunningIsHead, RetainedBlocks, NothingOvertakes
    <2> QED BY <2>2, <2>3 DEF IInv
  <1>4. ASSUME NEW d \in Designs, NEW r \in retained[d], Reapply(d, r)
        PROVE  IInv'
    <2>1. r \in RetainedCommand /\ r.input \in Inputs
      BY <1>4 DEF IInv, TypeOK, RetainedCommand
    <2>2. /\ Enqueue(d, r.input, TRUE)
          /\ retained' = [retained EXCEPT ![d] = retained[d] \ {r}]
          /\ UNCHANGED <<revision, running, blocked, settled>>
      BY <1>4 DEF Reapply
    <2>3. TypeOK' /\ PendingCountsTail'
      BY <2>1, <2>2, EnqueueIInv DEF IInv, TypeOK
    <2>4. RunningIsHead' /\ RetainedBlocks' /\ NothingOvertakes'
      BY <2>1, <2>2, EnqueueIInv
         DEF IInv, TypeOK, RunningIsHead, RetainedBlocks, NothingOvertakes
    <2> QED BY <2>3, <2>4 DEF IInv
  <1>5. ASSUME NEW d \in Designs, DiscardRetained(d)
        PROVE  IInv'
    BY <1>5
       DEF IInv, TypeOK, PendingCountsTail, RunningIsHead, RetainedBlocks,
           NothingOvertakes, DiscardRetained
  <1>6. ASSUME NEW d \in Designs, Start(d)
        PROVE  IInv'
    BY <1>6
       DEF IInv, TypeOK, PendingCountsTail, RunningIsHead, RetainedBlocks,
           NothingOvertakes, Start, MustCancel
  <1>7. ASSUME NEW d \in Designs, CancelUnsent(d)
        PROVE  IInv'
    BY <1>7, RetainIInv DEF CancelUnsent, RetainedState
  <1>8. ASSUME NEW d \in Designs, NEW n \in Revisions, Acknowledge(d, n)
        PROVE  IInv'
    <2>1. Dequeue(d) /\ tail[d] # <<>>
      BY <1>8 DEF Acknowledge, IInv, RunningIsHead
    <2>2. Head(tail[d]).input \in Inputs
      BY <2>1, DequeueIInv DEF Task
    <2>3. TypeOK'
      BY <1>8, <2>1, <2>2, DequeueIInv, RevisionsAssumption
         DEF Acknowledge, IInv, TypeOK
    <2>4. RetainedBlocks' /\ NothingOvertakes'
      BY <1>8, <2>1, DequeueIInv
         DEF Acknowledge, IInv, TypeOK, RetainedBlocks, NothingOvertakes
    <2> QED BY <2>1, <2>3, <2>4, DequeueIInv DEF IInv
  <1>9. ASSUME NEW d \in Designs, Decline(d)
        PROVE  IInv'
    <2>1. Dequeue(d) /\ tail[d] # <<>>
      BY <1>9 DEF Decline, IInv, RunningIsHead
    <2>2. Head(tail[d]).input \in Inputs
      BY <2>1, DequeueIInv DEF Task
    <2>3. TypeOK'
      BY <1>9, <2>1, <2>2, DequeueIInv DEF Decline, IInv, TypeOK
    <2>4. RetainedBlocks' /\ NothingOvertakes'
      BY <1>9, <2>1, DequeueIInv
         DEF Decline, IInv, TypeOK, RetainedBlocks, NothingOvertakes
    <2> QED BY <2>1, <2>3, <2>4, DequeueIInv DEF IInv
  <1>10. ASSUME NEW d \in Designs, Conflict(d) \/ Fail(d)
         PROVE  IInv'
    BY <1>10, RetainIInv DEF Conflict, Fail, RetainedState, IInv, RunningIsHead
  <1> QED
    BY <1>1, <1>2, <1>3, <1>4, <1>5, <1>6, <1>7, <1>8, <1>9, <1>10
       DEF Next, Settle

\* The inductive invariant holds of every behaviour.
THEOREM QueueInvariant == Spec => []IInv
  BY InitIInv, NextIInv, PTL DEF Spec

-----------------------------------------------------------------------------
\* Type correctness.
THEOREM QueueTypeOK == Spec => []TypeOK
  <1>1. IInv => TypeOK
    BY DEF IInv
  <1> QED BY <1>1, QueueInvariant, PTL

\* An unreviewed edit is never on its way while its lane keeps one for review.
THEOREM NothingOvertakesAFailure == Spec => []NothingOvertakes
  <1>1. IInv => NothingOvertakes
    BY DEF IInv
  <1> QED BY <1>1, QueueInvariant, PTL

\* Closing the window when the guard is silent loses no edit.
THEOREM CloseGuardLosesNothing == Spec => []CloseGuardIsComplete
  <1>1. IInv => CloseGuardIsComplete
    BY DEF IInv, TypeOK, PendingCountsTail, CloseGuardIsComplete,
           HasUnsettledEdits, Queued, HeldAs
  <1> QED BY <1>1, QueueInvariant, PTL

-----------------------------------------------------------------------------
(* RevisionQueue implements EditLedger.  An edit is in one place at a time: *)
(* once in some chain, or once among the retained, or settled.              *)

QueuedOnce ==
    \A d, e \in Designs : \A k \in 1..Len(tail[d]), l \in 1..Len(tail[e]) :
        tail[d][k].input = tail[e][l].input => d = e /\ k = l

HeldOnce ==
    \A d, e \in Designs : \A r \in retained[d], q \in retained[e] :
        r.input = q.input => d = e /\ r = q

HeldIsNotQueued == \A d \in Designs : \A r \in retained[d] : ~Queued(r.input)

SettledIsGone ==
    \A i \in Inputs : settled[i] # "none" =>
        ~Queued(i) /\ ~HeldAs(i, RetainedState)

OnePlace ==
    /\ QueuedOnce
    /\ HeldOnce
    /\ HeldIsNotQueued
    /\ SettledIsGone

LInv == IInv /\ OnePlace

LEMMA InitOnePlace == Init => OnePlace
  BY DEF Init, OnePlace, QueuedOnce, HeldOnce, HeldIsNotQueued, SettledIsGone,
         Queued, HeldAs

\* Enqueueing an input that is in no chain adds it, and only it.
LEMMA EnqueueQueued ==
    ASSUME IInv, QueuedOnce, NEW d \in Designs, NEW i \in Inputs,
           NEW b \in BOOLEAN, ~Queued(i), Enqueue(d, i, b)
    PROVE  /\ QueuedOnce'
           /\ \A j \in Inputs : Queued(j)' <=> Queued(j) \/ j = i
  <1> DEFINE t == [id |-> issued + 1, input |-> i, reviewed |-> b]
  <1>1. t \in Task /\ t.input = i
    BY DEF IInv, TypeOK, Task
  <1>2. tail' = [tail EXCEPT ![d] = Append(tail[d], t)]
    BY DEF Enqueue
  <1> HIDE DEF t
  <1>3. /\ Len(Append(tail[d], t)) = Len(tail[d]) + 1
        /\ Append(tail[d], t)[Len(tail[d]) + 1] = t
        /\ \A k \in 1..Len(tail[d]) : Append(tail[d], t)[k] = tail[d][k]
        /\ Len(tail[d]) \in Nat
    BY <1>1, AppendFacts DEF IInv, TypeOK
  <1>4. /\ \A e \in Designs \ {d} : tail'[e] = tail[e]
        /\ tail'[d] = Append(tail[d], t)
    BY <1>2 DEF IInv, TypeOK
  <1>5. \A k \in 1..Len(tail'[d]) :
            \/ k \in 1..Len(tail[d]) /\ tail'[d][k] = tail[d][k]
            \/ k = Len(tail[d]) + 1 /\ tail'[d][k].input = i
    BY <1>1, <1>3, <1>4
  <1>6. QueuedOnce'
    <2> SUFFICES ASSUME NEW e \in Designs, NEW f \in Designs,
                        NEW k \in 1..Len(tail'[e]), NEW l \in 1..Len(tail'[f]),
                        tail'[e][k].input = tail'[f][l].input
                 PROVE  e = f /\ k = l
      BY DEF QueuedOnce
    <2>1. \A g \in Designs : \A m \in 1..Len(tail'[g]) :
              \/ m \in 1..Len(tail[g]) /\ tail'[g][m] = tail[g][m]
              \/ g = d /\ m = Len(tail[d]) + 1 /\ tail'[g][m].input = i
      BY <1>4, <1>5
    <2>2. \A g \in Designs : \A m \in 1..Len(tail[g]) : tail[g][m].input # i
      BY DEF Queued
    <2>3. \/ k \in 1..Len(tail[e]) /\ tail'[e][k] = tail[e][k]
          \/ e = d /\ k = Len(tail[d]) + 1 /\ tail'[e][k].input = i
      BY <2>1
    <2>4. \/ l \in 1..Len(tail[f]) /\ tail'[f][l] = tail[f][l]
          \/ f = d /\ l = Len(tail[d]) + 1 /\ tail'[f][l].input = i
      BY <2>1
    <2>5. CASE k \in 1..Len(tail[e]) /\ tail'[e][k] = tail[e][k]
      <3>1. l \in 1..Len(tail[f]) /\ tail'[f][l] = tail[f][l]
        BY <2>2, <2>4, <2>5
      <3>2. tail[e][k].input = tail[f][l].input
        BY <2>5, <3>1
      <3> QED BY <2>5, <3>1, <3>2 DEF QueuedOnce
    <2>6. CASE e = d /\ k = Len(tail[d]) + 1 /\ tail'[e][k].input = i
      <3>1. f = d /\ l = Len(tail[d]) + 1
        BY <2>2, <2>4, <2>6
      <3> QED BY <2>6, <3>1
    <2> QED BY <2>3, <2>5, <2>6
  <1>7. ASSUME NEW j \in Inputs
        PROVE  Queued(j)' <=> Queued(j) \/ j = i
    <2>1. Queued(j)' => Queued(j) \/ j = i
      BY <1>4, <1>5 DEF Queued
    <2>2. Queued(i)'
      BY <1>1, <1>3, <1>4 DEF Queued
    <2>3. Queued(j) => Queued(j)'
      <3>1. ASSUME NEW e \in Designs, NEW k \in 1..Len(tail[e]),
                   tail[e][k].input = j
            PROVE  k \in 1..Len(tail'[e]) /\ tail'[e][k].input = j
        BY <1>3, <1>4, <3>1
      <3> QED BY <3>1 DEF Queued
    <2> QED BY <2>1, <2>2, <2>3
  <1> QED BY <1>6, <1>7

\* Taking the head off removes its input, and only it.
LEMMA DequeueQueued ==
    ASSUME IInv, QueuedOnce, NEW d \in Designs, tail[d] # <<>>, Dequeue(d)
    PROVE  /\ QueuedOnce'
           /\ Queued(Head(tail[d]).input)
           /\ \A j \in Inputs :
                 Queued(j)' <=> Queued(j) /\ j # Head(tail[d]).input
  <1>1. /\ Len(Tail(tail[d])) = Len(tail[d]) - 1
        /\ Len(tail[d]) \in Nat \ {0}
        /\ Head(tail[d]) = tail[d][1]
        /\ \A k \in 1..Len(Tail(tail[d])) : Tail(tail[d])[k] = tail[d][k + 1]
    BY TailFacts DEF IInv, TypeOK
  <1>2. /\ \A e \in Designs \ {d} : tail'[e] = tail[e]
        /\ tail'[d] = Tail(tail[d])
    BY DEF Dequeue, IInv, TypeOK
  <1>3. \A k \in 1..Len(tail'[d]) :
            k + 1 \in 1..Len(tail[d]) /\ tail'[d][k] = tail[d][k + 1]
    BY <1>1, <1>2
  <1>4. QueuedOnce'
    <2> SUFFICES ASSUME NEW e \in Designs, NEW f \in Designs,
                        NEW k \in 1..Len(tail'[e]), NEW l \in 1..Len(tail'[f]),
                        tail'[e][k].input = tail'[f][l].input
                 PROVE  e = f /\ k = l
      BY DEF QueuedOnce
    <2> DEFINE was(g, m) == IF g = d THEN m + 1 ELSE m
    <2>1. \A g \in Designs : \A m \in 1..Len(tail'[g]) :
              /\ m \in Int
              /\ was(g, m) \in 1..Len(tail[g])
              /\ tail'[g][m] = tail[g][was(g, m)]
      <3>1. \A m \in 1..Len(tail'[d]) :
                m \in Int /\ m + 1 \in 1..Len(tail[d]) /\ tail'[d][m] = tail[d][m + 1]
        BY <1>3
      <3>2. \A g \in Designs \ {d} : \A m \in 1..Len(tail'[g]) :
                m \in Int /\ m \in 1..Len(tail[g]) /\ tail'[g][m] = tail[g][m]
        BY <1>2
      <3> QED BY <3>1, <3>2
    <2> HIDE DEF was
    <2>2. /\ was(e, k) \in 1..Len(tail[e])
          /\ was(f, l) \in 1..Len(tail[f])
          /\ tail[e][was(e, k)].input = tail[f][was(f, l)].input
          /\ k \in Int /\ l \in Int
      BY <2>1
    <2>3. e = f /\ was(e, k) = was(f, l)
      BY <2>2 DEF QueuedOnce
    <2> QED BY <2>2, <2>3 DEF was
  <1>5. Queued(Head(tail[d]).input)
    BY <1>1 DEF Queued
  <1>6. ASSUME NEW j \in Inputs
        PROVE  Queued(j)' <=> Queued(j) /\ j # Head(tail[d]).input
    <2>1. Queued(j)' => Queued(j)
      <3>1. ASSUME NEW e \in Designs, NEW k \in 1..Len(tail'[e]),
                   tail'[e][k].input = j
            PROVE  \E l \in 1..Len(tail[e]) : tail[e][l].input = j
        <4>1. CASE e = d
          BY <1>3, <3>1, <4>1
        <4>2. CASE e # d
          BY <1>2, <3>1, <4>2
        <4> QED BY <4>1, <4>2
      <3> QED BY <3>1 DEF Queued
    <2>2. ASSUME Queued(j)', j = Head(tail[d]).input
          PROVE  FALSE
      <3>0. PICK e \in Designs : \E k \in 1..Len(tail'[e]) : tail'[e][k].input = j
        BY <2>2 DEF Queued
      <3>1. PICK k \in 1..Len(tail'[e]) : tail'[e][k].input = j
        BY <3>0
      <3>2. CASE e = d
        <4>1. /\ k + 1 \in 1..Len(tail[d]) /\ 1 \in 1..Len(tail[d])
              /\ tail[d][k + 1].input = tail[d][1].input
              /\ k + 1 # 1
          BY <1>1, <1>3, <2>2, <3>1, <3>2
        <4> QED BY <4>1 DEF QueuedOnce
      <3>3. CASE e # d
        BY <1>1, <1>2, <2>2, <3>1, <3>3 DEF QueuedOnce
      <3> QED BY <3>2, <3>3
    <2>3. ASSUME Queued(j), j # Head(tail[d]).input
          PROVE  Queued(j)'
      <3>0. PICK e \in Designs : \E k \in 1..Len(tail[e]) : tail[e][k].input = j
        BY <2>3 DEF Queued
      <3>1. PICK k \in 1..Len(tail[e]) : tail[e][k].input = j
        BY <3>0
      <3>2. CASE e # d
        BY <1>2, <3>1, <3>2 DEF Queued
      <3>3. CASE e = d
        <4>1. k # 1 /\ k - 1 \in 1..Len(tail'[d])
          BY <1>1, <1>2, <2>3, <3>1, <3>3
        <4>2. tail'[d][k - 1] = tail[d][k]
          BY <1>1, <1>2, <3>3, <4>1
        <4> QED BY <3>1, <3>3, <4>1, <4>2 DEF Queued
      <3> QED BY <3>2, <3>3
    <2> QED BY <2>1, <2>2, <2>3
  <1> QED BY <1>4, <1>5, <1>6

-----------------------------------------------------------------------------
(* Steps of the queue as steps of the ledger. *)

\* One edit changed its fate, the others kept theirs.
LEMMA OneMoves ==
    ASSUME NEW i \in Inputs, NEW x, NEW y, Fate(i) = x, Fate(i)' = y,
           \A j \in Inputs \ {i} : Fate(j)' = Fate(j)
    PROVE  Ledger!Move(i, x, y)
  BY DEF Ledger!Move

\* A step that moves no edit.
LEMMA NobodyMoves ==
    ASSUME UNCHANGED <<tail, retained, settled>>
    PROVE  \A i \in Inputs : Fate(i)' = Fate(i)
  BY DEF Fate, Queued, HeldAs

LEMMA SubmitMakes ==
    ASSUME LInv, NEW d \in Designs, NEW i \in Inputs, Submit(d, i)
    PROVE  OnePlace' /\ Ledger!Make(i)
  <1>1. /\ Enqueue(d, i, FALSE)
        /\ UNCHANGED <<retained, settled>>
        /\ settled[i] = "none" /\ ~Queued(i) /\ ~HeldAs(i, RetainedState)
    BY DEF Submit, Fresh
  <1>2. /\ QueuedOnce'
        /\ \A j \in Inputs : Queued(j)' <=> Queued(j) \/ j = i
    BY <1>1, EnqueueQueued DEF LInv, OnePlace
  <1>3. \A j \in Inputs, S \in SUBSET RetainedState : HeldAs(j, S)' <=> HeldAs(j, S)
    BY <1>1 DEF HeldAs
  <1>4. HeldOnce'
    BY <1>1 DEF LInv, OnePlace, HeldOnce
  <1>5. HeldIsNotQueued'
    <2> SUFFICES ASSUME NEW e \in Designs, NEW r \in retained[e]
                 PROVE  ~Queued(r.input)'
      BY <1>1 DEF HeldIsNotQueued
    <2>1. r \in RetainedCommand
      BY DEF LInv, IInv, TypeOK
    <2>2. r.input # i
      BY <1>1, <2>1 DEF HeldAs, RetainedCommand
    <2> QED BY <1>2, <2>1, <2>2 DEF LInv, OnePlace, HeldIsNotQueued, RetainedCommand
  <1>6. SettledIsGone'
    BY <1>1, <1>2, <1>3 DEF LInv, OnePlace, SettledIsGone
  <1>7. Fate(i) = "new" /\ Fate(i)' = "open"
    <2>1. Fate(i)' = "open"
      BY <1>1, <1>2 DEF Fate
    <2>2. ~HeldAs(i, {"conflicted", "cancelled"}) /\ ~HeldAs(i, {"failed"})
      BY <1>1 DEF HeldAs, RetainedState
    <2> QED BY <1>1, <2>1, <2>2 DEF Fate
  <1>8. \A j \in Inputs \ {i} : Fate(j)' = Fate(j)
    BY <1>1, <1>2, <1>3 DEF Fate, RetainedState
  <1>9. Ledger!Make(i)
    BY <1>7, <1>8, OneMoves DEF Ledger!Make
  <1> QED BY <1>2, <1>4, <1>5, <1>6, <1>9 DEF OnePlace

LEMMA ReapplyResends ==
    ASSUME LInv, NEW d \in Designs, NEW r \in retained[d], Reapply(d, r)
    PROVE  OnePlace' /\ Ledger!Resend(r.input)
  <1> DEFINE i == r.input
  <1>1. r \in RetainedCommand /\ i \in Inputs
    BY DEF LInv, IInv, TypeOK, RetainedCommand
  <1>2. /\ Enqueue(d, i, TRUE)
        /\ retained' = [retained EXCEPT ![d] = retained[d] \ {r}]
        /\ UNCHANGED settled
        /\ r.state # "failed"
    BY DEF Reapply
  <1>3. ~Queued(i)
    BY DEF LInv, OnePlace, HeldIsNotQueued
  <1>4. /\ QueuedOnce'
        /\ \A j \in Inputs : Queued(j)' <=> Queued(j) \/ j = i
    BY <1>1, <1>2, <1>3, EnqueueQueued DEF LInv, OnePlace
  <1>5. /\ \A e \in Designs \ {d} : retained'[e] = retained[e]
        /\ retained'[d] = retained[d] \ {r}
    BY <1>2 DEF LInv, IInv, TypeOK
  <1>6. \A e \in Designs : \A q \in retained'[e] : q \in retained[e] /\ q.input # i
    BY <1>5 DEF LInv, OnePlace, HeldOnce
  <1>7. \A j \in Inputs \ {i}, S \in SUBSET RetainedState :
            HeldAs(j, S)' <=> HeldAs(j, S)
    BY <1>5, <1>6 DEF HeldAs
  <1>8. HeldOnce'
    BY <1>6 DEF LInv, OnePlace, HeldOnce
  <1>9. HeldIsNotQueued'
    <2> SUFFICES ASSUME NEW e \in Designs, NEW q \in retained'[e]
                 PROVE  ~Queued(q.input)'
      BY DEF HeldIsNotQueued
    <2>1. q \in RetainedCommand /\ q.input \in Inputs /\ q.input # i /\ ~Queued(q.input)
      BY <1>6 DEF LInv, IInv, TypeOK, RetainedCommand, OnePlace, HeldIsNotQueued
    <2> QED BY <1>4, <2>1
  <1>10. settled[i] = "none"
    BY <1>1 DEF LInv, OnePlace, SettledIsGone, HeldAs, RetainedCommand
  <1>11. SettledIsGone'
    <2> SUFFICES ASSUME NEW j \in Inputs, settled[j] # "none"
                 PROVE  ~Queued(j)' /\ ~HeldAs(j, RetainedState)'
      BY <1>2 DEF SettledIsGone
    <2>1. j # i
      BY <1>10
    <2> QED BY <1>4, <1>7, <2>1 DEF LInv, OnePlace, SettledIsGone
  <1>12. Fate(i) = "review" /\ Fate(i)' = "open"
    <2>1. HeldAs(i, {"conflicted", "cancelled"})
      BY <1>1, <1>2 DEF HeldAs, RetainedCommand, RetainedState
    <2> QED BY <1>1, <1>2, <1>3, <1>4, <1>10, <2>1 DEF Fate
  <1>13. \A j \in Inputs \ {i} : Fate(j)' = Fate(j)
    BY <1>2, <1>4, <1>7 DEF Fate, RetainedState
  <1>14. Ledger!Resend(i)
    BY <1>1, <1>12, <1>13, OneMoves DEF Ledger!Resend
  <1> QED BY <1>4, <1>8, <1>9, <1>11, <1>14 DEF OnePlace

LEMMA DiscardDiscards ==
    ASSUME LInv, NEW d \in Designs, DiscardRetained(d)
    PROVE  OnePlace' /\ \E held \in SUBSET Inputs : Ledger!Discard(held)
  <1> DEFINE held == {i \in Inputs : \E r \in retained[d] : r.input = i}
  <1>1. /\ \A e \in Designs \ {d} : retained'[e] = retained[e]
        /\ retained'[d] = {}
        /\ UNCHANGED tail
    BY DEF DiscardRetained, LInv, IInv, TypeOK
  <1>2. \A j \in Inputs : settled'[j] = IF j \in held THEN "discarded" ELSE settled[j]
    BY DEF DiscardRetained
  <1>3. \A j \in Inputs : Queued(j)' <=> Queued(j)
    BY <1>1 DEF Queued
  <1>4. \A j \in Inputs \ held, S \in SUBSET RetainedState :
            HeldAs(j, S)' <=> HeldAs(j, S)
    BY <1>1 DEF HeldAs
  <1>5. \A j \in held : ~HeldAs(j, RetainedState)' /\ ~Queued(j)
    <2> SUFFICES ASSUME NEW j \in held
                 PROVE  ~HeldAs(j, RetainedState)' /\ ~Queued(j)
      OBVIOUS
    <2>1. PICK r \in retained[d] : r.input = j
      OBVIOUS
    <2>2. \A e \in Designs \ {d} : \A q \in retained[e] : q.input # j
      BY <2>1 DEF LInv, OnePlace, HeldOnce
    <2> QED BY <1>1, <2>1, <2>2 DEF HeldAs, LInv, OnePlace, HeldIsNotQueued
  <1>6. OnePlace'
    <2>1. QueuedOnce' /\ HeldOnce'
      BY <1>1 DEF LInv, OnePlace, QueuedOnce, HeldOnce
    <2>2. HeldIsNotQueued'
      BY <1>1 DEF LInv, OnePlace, HeldIsNotQueued, Queued
    <2>3. SettledIsGone'
      BY <1>2, <1>3, <1>4, <1>5 DEF LInv, OnePlace, SettledIsGone
    <2> QED BY <2>1, <2>2, <2>3 DEF OnePlace
  <1>7. \A j \in held : Fate(j) \in {"review", "uncertain"}
    <2> SUFFICES ASSUME NEW j \in held
                 PROVE  Fate(j) \in {"review", "uncertain"}
      OBVIOUS
    <2>1. PICK r \in retained[d] : r.input = j
      OBVIOUS
    <2>2. r \in RetainedCommand
      BY DEF LInv, IInv, TypeOK
    <2>3. HeldAs(j, {"conflicted", "cancelled"}) \/ HeldAs(j, {"failed"})
      BY <2>1, <2>2 DEF HeldAs, RetainedCommand, RetainedState
    <2>4. settled[j] = "none"
      BY <2>1, <2>2 DEF LInv, OnePlace, SettledIsGone, HeldAs, RetainedCommand
    <2> QED BY <1>5, <2>3, <2>4 DEF Fate
  <1>8. \A j \in Inputs : Fate(j)' = IF j \in held THEN "discarded" ELSE Fate(j)
    BY <1>2, <1>3, <1>4 DEF Fate, RetainedState
  <1>9. Ledger!Discard(held)
    <2> HIDE DEF held
    <2>1. held \subseteq Inputs
      BY DEF held
    <2> QED BY <1>7, <1>8, <2>1 DEF Ledger!Discard
  <1> QED BY <1>6, <1>9

LEMMA RetainHolds ==
    ASSUME LInv, NEW d \in Designs, tail[d] # <<>>, NEW s \in RetainedState,
           Retain(d, s)
    PROVE  /\ OnePlace'
           /\ s # "failed" => Ledger!Hold(Head(tail[d]).input)
           /\ s = "failed" => Ledger!Doubt(Head(tail[d]).input)
  <1>0. Dequeue(d)
    BY DEF Retain
  <1>2. PICK i \in Inputs : i = Head(tail[d]).input
    BY <1>0, DequeueIInv DEF Task, LInv
  <1>a. PICK q : q = [id |-> Head(tail[d]).id, input |-> i, state |-> s]
    BY Zenon
  <1>3. q.input = i /\ q.state = s
    BY <1>a
  <1>1. /\ Dequeue(d)
        /\ retained' = [retained EXCEPT ![d] = retained[d] \cup {q}]
        /\ UNCHANGED settled
    BY <1>2, <1>a DEF Retain
  <1>4. /\ QueuedOnce'
        /\ Queued(i)
        /\ \A j \in Inputs : Queued(j)' <=> Queued(j) /\ j # i
    BY <1>1, <1>2, DequeueQueued DEF LInv, OnePlace
  <1>5. /\ \A e \in Designs \ {d} : retained'[e] = retained[e]
        /\ retained'[d] = retained[d] \cup {q}
    BY <1>1 DEF LInv, IInv, TypeOK
  <1>6. \A e \in Designs : \A r \in retained[e] : r.input \in Inputs /\ r.input # i
    BY <1>4 DEF LInv, IInv, TypeOK, RetainedCommand, OnePlace, HeldIsNotQueued
  <1>7. \A j \in Inputs, S \in SUBSET RetainedState :
            HeldAs(j, S)' <=> HeldAs(j, S) \/ (j = i /\ s \in S)
    <2> SUFFICES ASSUME NEW j \in Inputs, NEW S \in SUBSET RetainedState
                 PROVE  HeldAs(j, S)' <=> HeldAs(j, S) \/ (j = i /\ s \in S)
      OBVIOUS
    <2>1. HeldAs(j, S)' => HeldAs(j, S) \/ (j = i /\ s \in S)
      BY <1>3, <1>5 DEF HeldAs
    <2>2. HeldAs(j, S) => HeldAs(j, S)'
      BY <1>5 DEF HeldAs
    <2>3. j = i /\ s \in S => HeldAs(j, S)'
      BY <1>3, <1>5 DEF HeldAs
    <2> QED BY <2>1, <2>2, <2>3
  <1>8. HeldOnce'
    BY <1>3, <1>5, <1>6 DEF LInv, OnePlace, HeldOnce
  <1>9. HeldIsNotQueued'
    BY <1>2, <1>3, <1>4, <1>5, <1>6 DEF LInv, OnePlace, HeldIsNotQueued
  <1>10. settled[i] = "none"
    BY <1>2, <1>4 DEF LInv, OnePlace, SettledIsGone
  <1>11. SettledIsGone'
    BY <1>1, <1>4, <1>7, <1>10 DEF LInv, OnePlace, SettledIsGone
  <1>12. \A S \in SUBSET RetainedState : ~HeldAs(i, S)
    BY <1>6 DEF HeldAs
  <1>13. /\ Fate(i) = "open"
         /\ Fate(i)' = IF s = "failed" THEN "uncertain" ELSE "review"
    <2>1. /\ HeldAs(i, {"conflicted", "cancelled"})' <=> s \in {"conflicted", "cancelled"}
          /\ HeldAs(i, {"failed"})' <=> s = "failed"
      BY <1>2, <1>7, <1>12 DEF RetainedState
    <2> QED BY <1>1, <1>2, <1>4, <1>10, <2>1 DEF Fate, RetainedState
  <1>14. \A j \in Inputs \ {i} : Fate(j)' = Fate(j)
    BY <1>1, <1>4, <1>7 DEF Fate, RetainedState
  <1>15. /\ s # "failed" => Ledger!Hold(i)
         /\ s = "failed" => Ledger!Doubt(i)
    BY <1>2, <1>13, <1>14, OneMoves DEF Ledger!Hold, Ledger!Doubt
  <1> QED BY <1>2, <1>4, <1>8, <1>9, <1>11, <1>15 DEF OnePlace

\* A command that leaves the chain for good, with the given outcome.
LEMMA SettleMoves ==
    ASSUME LInv, NEW d \in Designs, tail[d] # <<>>, Dequeue(d),
           NEW x \in {"acknowledged", "declined"},
           settled' = [settled EXCEPT ![Head(tail[d]).input] = x],
           UNCHANGED retained
    PROVE  OnePlace' /\ Ledger!Move(Head(tail[d]).input, "open", x)
  <1>1. PICK i \in Inputs : i = Head(tail[d]).input
    BY DequeueIInv DEF Task, LInv
  <1>2. /\ QueuedOnce'
        /\ Queued(i)
        /\ \A j \in Inputs : Queued(j)' <=> Queued(j) /\ j # i
    BY <1>1, DequeueQueued DEF LInv, OnePlace
  <1>3. \A j \in Inputs : settled'[j] = IF j = i THEN x ELSE settled[j]
    BY <1>1 DEF LInv, IInv, TypeOK
  <1>4. \A j \in Inputs, S \in SUBSET RetainedState : HeldAs(j, S)' <=> HeldAs(j, S)
    BY DEF HeldAs
  <1>5. ~HeldAs(i, RetainedState)
    BY <1>2 DEF LInv, OnePlace, HeldIsNotQueued, HeldAs
  <1>6. HeldOnce'
    BY DEF LInv, OnePlace, HeldOnce
  <1>7. HeldIsNotQueued'
    BY <1>2 DEF LInv, IInv, TypeOK, RetainedCommand, OnePlace, HeldIsNotQueued
  <1>8. SettledIsGone'
    BY <1>2, <1>3, <1>4, <1>5 DEF LInv, OnePlace, SettledIsGone
  <1>9. settled[i] = "none"
    BY <1>1, <1>2 DEF LInv, OnePlace, SettledIsGone
  <1>10. Fate(i) = "open" /\ Fate(i)' = x
    BY <1>1, <1>2, <1>3, <1>9 DEF Fate
  <1>11. \A j \in Inputs \ {i} : Fate(j)' = Fate(j)
    BY <1>2, <1>3, <1>4 DEF Fate, RetainedState
  <1>12. Ledger!Move(i, "open", x)
    BY <1>1, <1>10, <1>11, OneMoves
  <1> QED BY <1>1, <1>2, <1>6, <1>7, <1>8, <1>12 DEF OnePlace

LEMMA NextLedger ==
    LInv /\ [Next]_vars =>
        OnePlace' /\ [Ledger!Next]_([i \in Inputs |-> Fate(i)])
  <1> DEFINE fates == [i \in Inputs |-> Fate(i)]
  <1> SUFFICES ASSUME LInv, [Next]_vars
               PROVE  OnePlace' /\ (Ledger!Next \/ UNCHANGED fates)
    OBVIOUS
  <1>1. ASSUME UNCHANGED <<tail, retained, settled>>
        PROVE  OnePlace' /\ UNCHANGED fates
    BY <1>1, NobodyMoves
       DEF LInv, OnePlace, QueuedOnce, HeldOnce, HeldIsNotQueued, SettledIsGone,
           Queued, HeldAs
  <1>2. CASE UNCHANGED vars
    BY <1>1, <1>2 DEF vars
  <1>3. ASSUME NEW d \in Designs, NEW n \in Revisions, Observe(d, n)
        PROVE  OnePlace' /\ UNCHANGED fates
    BY <1>1, <1>3 DEF Observe
  <1>4. ASSUME NEW d \in Designs, NEW i \in Inputs, Submit(d, i)
        PROVE  OnePlace' /\ Ledger!Next
    BY <1>4, SubmitMakes DEF Ledger!Next
  <1>5. ASSUME NEW d \in Designs, NEW r \in retained[d], Reapply(d, r)
        PROVE  OnePlace' /\ Ledger!Next
    <2>1. r.input \in Inputs
      BY DEF LInv, IInv, TypeOK, RetainedCommand
    <2> QED BY <1>5, <2>1, ReapplyResends DEF Ledger!Next
  <1>6. ASSUME NEW d \in Designs, DiscardRetained(d)
        PROVE  OnePlace' /\ Ledger!Next
    BY <1>6, DiscardDiscards DEF Ledger!Next
  <1>7. ASSUME NEW d \in Designs, Start(d)
        PROVE  OnePlace' /\ UNCHANGED fates
    BY <1>1, <1>7 DEF Start
  <1>8. ASSUME NEW d \in Designs, tail[d] # <<>>
        PROVE  Head(tail[d]).input \in Inputs
    <2>1. Head(tail[d]) \in Task
      BY <1>8, TailFacts DEF LInv, IInv, TypeOK
    <2> QED BY <2>1 DEF Task
  <1>9. ASSUME NEW d \in Designs, CancelUnsent(d)
        PROVE  OnePlace' /\ Ledger!Next
    <2>1. tail[d] # <<>> /\ Retain(d, "cancelled")
      BY <1>9 DEF CancelUnsent
    <2> QED BY <1>8, <2>1, RetainHolds DEF RetainedState, Ledger!Next
  <1>10. ASSUME NEW d \in Designs, NEW n \in Revisions, Acknowledge(d, n)
         PROVE  OnePlace' /\ Ledger!Next
    <2>1. /\ tail[d] # <<>> /\ Dequeue(d) /\ UNCHANGED retained
          /\ settled' = [settled EXCEPT ![Head(tail[d]).input] = "acknowledged"]
      BY <1>10 DEF Acknowledge, LInv, IInv, RunningIsHead
    <2>2. OnePlace' /\ Ledger!Move(Head(tail[d]).input, "open", "acknowledged")
      BY <2>1, SettleMoves
    <2> QED BY <1>8, <2>1, <2>2 DEF Ledger!Next, Ledger!Acknowledge
  <1>11. ASSUME NEW d \in Designs, Decline(d)
         PROVE  OnePlace' /\ Ledger!Next
    <2>1. /\ tail[d] # <<>> /\ Dequeue(d) /\ UNCHANGED retained
          /\ settled' = [settled EXCEPT ![Head(tail[d]).input] = "declined"]
      BY <1>11 DEF Decline, LInv, IInv, RunningIsHead
    <2>2. OnePlace' /\ Ledger!Move(Head(tail[d]).input, "open", "declined")
      BY <2>1, SettleMoves
    <2> QED BY <1>8, <2>1, <2>2 DEF Ledger!Next, Ledger!Decline
  <1>12. ASSUME NEW d \in Designs, Conflict(d) \/ Fail(d)
         PROVE  OnePlace' /\ Ledger!Next
    <2>1. tail[d] # <<>> /\ (Retain(d, "conflicted") \/ Retain(d, "failed"))
      BY <1>12 DEF Conflict, Fail, LInv, IInv, RunningIsHead
    <2> QED BY <1>8, <2>1, RetainHolds DEF RetainedState, Ledger!Next
  <1> QED
    BY <1>2, <1>3, <1>4, <1>5, <1>6, <1>7, <1>9, <1>10, <1>11, <1>12
       DEF Next, Settle

\* Every edit handed to the queue stays accounted for: RevisionQueue
\* implements EditLedger.
THEOREM QueueImplementsLedger == Spec => EveryEditAccountedFor
  <1>1. Init => Ledger!Init
    BY DEF Init, Ledger!Init, Fate, Queued, HeldAs
  <1>2. Init => LInv
    BY InitIInv, InitOnePlace DEF LInv
  <1>3. LInv /\ [Next]_vars => LInv'
    BY NextIInv, NextLedger DEF LInv
  <1>4. LInv /\ [Next]_vars => [Ledger!Next]_([i \in Inputs |-> Fate(i)])
    BY NextLedger
  <1> QED BY <1>1, <1>2, <1>3, <1>4, PTL DEF Spec, EveryEditAccountedFor, Ledger!Spec
===============================================================================
