------------------------ MODULE DrcWorkerClient_proofs ------------------------
(***************************************************************************)
(* Proofs about DrcWorkerClient, for every set of runs and every number of *)
(* spawns.  Most lemmas are about the functions on the client's state that *)
(* the actions are made of, so that each is proved once.                   *)
(***************************************************************************)
EXTENDS DrcWorkerClient, TLAPS

-----------------------------------------------------------------------------
(* The inductive invariant. *)

\* A worker and an awaited promise belong to a spawn that took place.
SpawnsExist(c) ==
    /\ c.worker.id \in 0..Len(c.ready)
    /\ c.worker.id = 0 => c.worker = NoWorker
    /\ \A r \in Runs : c.awaits[r] <= Len(c.ready)

\* A run waits in one place of the queue, or is active.
QueueIsDistinct(c) ==
    /\ \A j, k \in 1..Len(c.queue) : c.queue[j] = c.queue[k] => j = k
    /\ ~Holds(c.queue, c.active)

\* A run awaits its spawn, or was posted, or neither, but only after it left
\* the queue.
PostedOnce(c, p) ==
    /\ \A r \in Runs : c.awaits[r] # NotAwaiting => r \notin p
    /\ \A r \in Runs : Holds(c.queue, r) => c.awaits[r] = NotAwaiting /\ r \notin p

\* The thread holds the active run or nothing; and nothing once it has spoken
\* about the active run.
ThreadHasActive(c, p) ==
    /\ Len(c.worker.inbox) <= 1
    /\ c.worker.job # NoRun => c.worker.inbox = <<>>
    /\ c.worker.thread = "busy" => c.worker.job # NoRun
    /\ \A r \in Runs : c.worker.job = r \/ Holds(c.worker.inbox, r)
                         => c.active = r /\ r \in p
    /\ \A k \in 1..Len(c.worker.outbox) :
         c.worker.outbox[k].type # "ready"
           => /\ c.worker.outbox[k].run \in p
              /\ c.worker.outbox[k].run = c.active
                   => c.worker.job = NoRun /\ c.worker.inbox = <<>>

Sound(c, p) ==
    /\ c \in Client
    /\ SpawnsExist(c)
    /\ QueueIsDistinct(c)
    /\ PostedOnce(c, p)
    /\ ThreadHasActive(c, p)

Served(c) == {r \in Runs : c.active = r \/ Holds(c.queue, r)}
Open(f) == {r \in Runs : f[r] = "open"}

\* What holds of the promises and flags beside the client's state.
PromisesOK(c) ==
    /\ fate \in [Runs -> Fates]
    /\ aborted \subseteq Runs
    /\ posted \subseteq Runs
    /\ grace \subseteq Runs
    /\ Open(fate) = Served(c)
    /\ \A r \in Runs : fate[r] = "new" => c.awaits[r] = NotAwaiting /\ r \notin posted
    /\ CancelledGetsNoReport

IInv ==
    /\ Sound(client, posted)
    /\ PromisesOK(client)
    /\ NeverStalls

-----------------------------------------------------------------------------
(* Facts about sequences of runs. *)

\* Tail and Append as membership sees them.
LEMMA HoldsFacts ==
    ASSUME NEW q \in Seq(Runs)
    PROVE  /\ q # <<>> => /\ Tail(q) \in Seq(Runs)
                          /\ Head(q) \in Runs
                          /\ Holds(q, Head(q))
                          /\ Len(Tail(q)) = Len(q) - 1
                          /\ \A k \in 1..Len(Tail(q)) : Tail(q)[k] = q[k + 1]
                          /\ \A r : Holds(q, r) <=> r = Head(q) \/ Holds(Tail(q), r)
           /\ \A x \in Runs : \A r : Holds(Append(q, x), r) <=> r = x \/ Holds(q, r)
           /\ \A r : Holds(q, r) => r \in Runs
  <1>1. ASSUME q # <<>>
        PROVE  /\ Tail(q) \in Seq(Runs)
               /\ Head(q) \in Runs
               /\ Head(q) = q[1]
               /\ Len(q) \in Nat \ {0}
               /\ Len(Tail(q)) = Len(q) - 1
               /\ \A k \in 1..Len(Tail(q)) : Tail(q)[k] = q[k + 1]
    BY <1>1
  <1>2. ASSUME q # <<>>, NEW r
        PROVE  Holds(q, r) <=> r = Head(q) \/ Holds(Tail(q), r)
    <2>1. ASSUME NEW k \in 1..Len(q), q[k] = r
          PROVE  r = Head(q) \/ Holds(Tail(q), r)
      <3>1. CASE k = 1
        BY <1>1, <1>2, <2>1, <3>1
      <3>2. CASE k # 1
        <4>1. k - 1 \in 1..Len(Tail(q)) /\ Tail(q)[k - 1] = q[(k - 1) + 1]
          BY <1>1, <1>2, <3>2
        <4>2. (k - 1) + 1 = k
          OBVIOUS
        <4> QED BY <2>1, <4>1, <4>2 DEF Holds
      <3> QED BY <3>1, <3>2
    <2>2. ASSUME r = Head(q) PROVE Holds(q, r)
      BY <1>1, <1>2, <2>2 DEF Holds
    <2>3. ASSUME NEW k \in 1..Len(Tail(q)), Tail(q)[k] = r PROVE Holds(q, r)
      <3>1. k + 1 \in 1..Len(q) /\ q[k + 1] = r
        BY <1>1, <1>2, <2>3
      <3> QED BY <3>1 DEF Holds
    <2> QED BY <2>1, <2>2, <2>3 DEF Holds
  <1>3. ASSUME NEW x \in Runs, NEW r
        PROVE  Holds(Append(q, x), r) <=> r = x \/ Holds(q, r)
    <2>1. /\ Len(Append(q, x)) = Len(q) + 1
          /\ Append(q, x)[Len(q) + 1] = x
          /\ \A k \in 1..Len(q) : Append(q, x)[k] = q[k]
          /\ Len(q) \in Nat
      OBVIOUS
    <2> QED BY <2>1 DEF Holds
  <1>4. \A r : Holds(q, r) => r \in Runs
    BY DEF Holds
  <1>5. q # <<>> => Holds(q, Head(q))
    BY <1>1 DEF Holds
  <1> QED BY <1>1, <1>2, <1>3, <1>4, <1>5

\* Removing a run from a queue without repetitions.
LEMMA WithoutFacts ==
    ASSUME NEW q \in Seq(Runs), NEW r \in Runs,
           \A j, k \in 1..Len(q) : q[j] = q[k] => j = k
    PROVE  /\ Without(q, r) \in Seq(Runs)
           /\ \A x : Holds(Without(q, r), x) <=> Holds(q, x) /\ x # r
           /\ \A j, k \in 1..Len(Without(q, r)) :
                Without(q, r)[j] = Without(q, r)[k] => j = k
  <1>1. CASE ~Holds(q, r)
    BY <1>1 DEF Without, Holds
  <1>2. CASE Holds(q, r)
    <2>1. PICK n \in 1..Len(q) : q[n] = r /\ Without(q, r) = RemoveAt(q, n)
      BY <1>2 DEF Without, Holds
    <2> DEFINE a == SubSeq(q, 1, n - 1)
               b == SubSeq(q, n + 1, Len(q))
               w == a \o b
    <2>2. a \in Seq(Runs) /\ Len(a) = n - 1 /\ \A i \in 1..(n - 1) : a[i] = q[i]
      OBVIOUS
    <2>3. /\ b \in Seq(Runs) /\ Len(b) = Len(q) - n
          /\ \A i \in 1..(Len(q) - n) : b[i] = q[i + n]
      OBVIOUS
    <2>4. Without(q, r) = w
      BY <2>1 DEF RemoveAt
    <2>5. Len(q) \in Nat
      OBVIOUS
    <2> HIDE DEF a, b
    <2>6. /\ w \in Seq(Runs)
          /\ Len(w) = Len(q) - 1
      BY <2>2, <2>3, <2>5
    <2>7. \A i \in 1..(n - 1) : w[i] = q[i]
      BY <2>2, <2>3, <2>5
    <2>8. \A i \in n..(Len(q) - 1) : w[i] = q[i + 1]
      <3> SUFFICES ASSUME NEW i \in n..(Len(q) - 1) PROVE w[i] = q[i + 1]
        OBVIOUS
      <3>1. i - (n - 1) \in 1..(Len(q) - n) /\ (i - (n - 1)) + n = i + 1
        BY <2>5
      <3>2. w[i] = b[i - (n - 1)]
        BY <2>2, <2>3, <2>5, <3>1
      <3> QED BY <2>3, <3>1, <3>2
    <2> HIDE DEF w
    <2>9. \A x : Holds(w, x) <=> Holds(q, x) /\ x # r
      <3>1. ASSUME NEW x, NEW k \in 1..Len(w), w[k] = x
            PROVE  Holds(q, x) /\ x # r
        <4>1. CASE k < n
          BY <2>1, <2>5, <2>6, <2>7, <3>1, <4>1 DEF Holds
        <4>2. CASE k >= n
          <5>1. k + 1 \in 1..Len(q) /\ q[k + 1] = x /\ k + 1 # n
            BY <2>5, <2>6, <2>8, <3>1, <4>2
          <5> QED BY <2>1, <5>1 DEF Holds
        <4> QED BY <4>1, <4>2, <2>6
      <3>2. ASSUME NEW x, x # r, NEW k \in 1..Len(q), q[k] = x
            PROVE  Holds(w, x)
        <4>1. CASE k < n
          BY <2>5, <2>6, <2>7, <3>2, <4>1 DEF Holds
        <4>2. CASE k > n
          <5>1. k - 1 \in 1..Len(w) /\ w[k - 1] = q[(k - 1) + 1] /\ (k - 1) + 1 = k
            BY <2>5, <2>6, <2>8, <4>2
          <5> QED BY <3>2, <5>1 DEF Holds
        <4> QED BY <2>1, <3>2, <4>1, <4>2
      <3> QED BY <3>1, <3>2 DEF Holds
    <2>10. \A k \in 1..Len(w) : \E m \in 1..Len(q) :
             w[k] = q[m] /\ (k < n => m = k) /\ (k >= n => m = k + 1)
      BY <2>5, <2>6, <2>7, <2>8
    <2>11. ASSUME NEW j \in 1..Len(w), NEW k \in 1..Len(w), w[j] = w[k]
           PROVE  j = k
      <3>1. PICK m \in 1..Len(q) :
              w[j] = q[m] /\ (j < n => m = j) /\ (j >= n => m = j + 1)
        BY <2>10
      <3>2. PICK o \in 1..Len(q) :
              w[k] = q[o] /\ (k < n => o = k) /\ (k >= n => o = k + 1)
        BY <2>10
      <3>3. m = o
        BY <2>11, <3>1, <3>2
      <3> QED BY <3>1, <3>2, <3>3, <2>6
    <2> QED BY <2>4, <2>6, <2>9, <2>11
  <1> QED BY <1>1, <1>2

-----------------------------------------------------------------------------
(* What the functions on the client's state preserve. *)

FreeHanded(c) == c.worker.job = NoRun /\ c.worker.inbox = <<>>

LEMMA ThreadIsWorker ==
    ASSUME NEW n \in Nat, NEW s \in {"none", "starting"}
    PROVE  /\ Thread(n, s) \in Worker
           /\ Thread(n, s).id = n
           /\ Thread(n, s).thread = s
           /\ Thread(n, s).job = NoRun
           /\ Thread(n, s).inbox = <<>>
           /\ Thread(n, s).outbox = <<>>
  BY DEF Thread, Worker

\* dropWorker() leaves a client without a thread and the queue as it is.
LEMMA DropFacts ==
    ASSUME NEW c, NEW p \in SUBSET Runs, Sound(c, p)
    PROVE  /\ Sound(Drop(c), p)
           /\ Served(Drop(c)) = Served(c)
           /\ Drop(c).active = c.active
           /\ Drop(c).queue = c.queue
           /\ Drop(c).awaits = c.awaits
           /\ FreeHanded(Drop(c))
  <1> DEFINE d == Drop(c)
             rd == IF Spawning(c) THEN [c.ready EXCEPT ![c.worker.id] = "rejected"]
                   ELSE c.ready
  <1>1. /\ c \in Client
        /\ c.worker \in Worker
        /\ c.worker.id \in 0..Len(c.ready)
        /\ c.ready \in Seq({"pending", "resolved", "rejected"})
    BY DEF Sound, SpawnsExist, Client
  <1>2. /\ rd \in Seq({"pending", "resolved", "rejected"})
        /\ Len(rd) = Len(c.ready)
    BY <1>1
  <1>3. d = [c EXCEPT !.worker = NoWorker, !.ready = rd]
    BY <1>1 DEF Drop, Client
  <1>4. NoWorker = Thread(0, "none") /\ 0 \in Nat /\ "none" \in {"none", "starting"}
    BY DEF NoWorker
  <1>5. /\ NoWorker \in Worker
        /\ NoWorker.id = 0
        /\ NoWorker.thread = "none"
        /\ NoWorker.job = NoRun
        /\ NoWorker.inbox = <<>>
        /\ NoWorker.outbox = <<>>
    BY <1>4, ThreadIsWorker
  <1> HIDE DEF rd, d
  <1>6. /\ d \in Client
        /\ d.worker = NoWorker
        /\ d.ready = rd
        /\ d.active = c.active
        /\ d.queue = c.queue
        /\ d.awaits = c.awaits
    BY <1>1, <1>2, <1>3, <1>5 DEF Client
  <1>7. SpawnsExist(d)
    BY <1>1, <1>2, <1>5, <1>6 DEF Sound, SpawnsExist, Client
  <1>8. QueueIsDistinct(d) /\ PostedOnce(d, p) /\ Served(d) = Served(c)
    BY <1>6 DEF Sound, QueueIsDistinct, PostedOnce, Served
  <1>9. ThreadHasActive(d, p) /\ FreeHanded(d)
    BY <1>5, <1>6, RunsAssumption DEF ThreadHasActive, FreeHanded, Holds
  <1> QED BY <1>6, <1>7, <1>8, <1>9 DEF Sound, d

\* active = null, once the thread holds nothing.
LEMMA IdleFacts ==
    ASSUME NEW c, NEW p \in SUBSET Runs, Sound(c, p),
           FreeHanded(c) \/ c.active = NoRun
    PROVE  /\ Sound(Idle(c), p)
           /\ Served(Idle(c)) = Served(c) \ {c.active}
           /\ Idle(c).active = NoRun
           /\ Idle(c).queue = c.queue
           /\ Idle(c).awaits = c.awaits
           /\ Idle(c).worker = c.worker
  <1> DEFINE d == Idle(c)
  <1>1. /\ d \in Client
        /\ d.worker = c.worker
        /\ d.ready = c.ready
        /\ d.active = NoRun
        /\ d.queue = c.queue
        /\ d.awaits = c.awaits
        /\ c.queue \in Seq(Runs)
        /\ c.worker \in Worker
    BY DEF Sound, Idle, Client
  <1> HIDE DEF d
  <1>2. SpawnsExist(d) /\ PostedOnce(d, p)
    BY <1>1 DEF Sound, SpawnsExist, PostedOnce
  <1>3. QueueIsDistinct(d)
    BY <1>1, RunsAssumption, HoldsFacts DEF Sound, QueueIsDistinct
  <1>4. Served(d) = Served(c) \ {c.active}
    BY <1>1, RunsAssumption DEF Served, Sound, QueueIsDistinct
  <1>5. ThreadHasActive(d, p)
    <2>1. FreeHanded(c) => \A r \in Runs : ~(c.worker.job = r \/ Holds(c.worker.inbox, r))
      BY RunsAssumption DEF FreeHanded, Holds
    <2>2. NoRun \notin p
      BY RunsAssumption
    <2> QED BY <1>1, <2>1, <2>2 DEF Sound, ThreadHasActive, FreeHanded
  <1> QED BY <1>1, <1>2, <1>3, <1>4, <1>5 DEF Sound, d

\* A run that no longer awaits its spawn.
LEMMA ResumedFacts ==
    ASSUME NEW r \in Runs, Sound(client, posted), posted \subseteq Runs
    PROVE  /\ Sound(Resumed(r), posted)
           /\ Served(Resumed(r)) = Served(client)
           /\ Resumed(r).active = active
           /\ Resumed(r).queue = queue
           /\ Resumed(r).worker = worker
           /\ Resumed(r).ready = client.ready
           /\ Resumed(r).awaits = [client.awaits EXCEPT ![r] = NotAwaiting]
  <1> DEFINE d == Resumed(r)
  <1>1. /\ d \in Client
        /\ d.worker = client.worker
        /\ d.ready = client.ready
        /\ d.active = client.active
        /\ d.queue = client.queue
        /\ d.awaits = [client.awaits EXCEPT ![r] = NotAwaiting]
        /\ client.awaits \in [Runs -> Nat \cup {NotAwaiting}]
        /\ client.ready \in Seq({"pending", "resolved", "rejected"})
    BY DEF Sound, Resumed, Client
  <1> HIDE DEF d
  <1>2. SpawnsExist(d)
    BY <1>1 DEF Sound, SpawnsExist, NotAwaiting
  <1>3. QueueIsDistinct(d) /\ PostedOnce(d, posted) /\ Served(d) = Served(client)
    BY <1>1 DEF Sound, QueueIsDistinct, PostedOnce, Served
  <1>4. ThreadHasActive(d, posted)
    BY <1>1 DEF Sound, ThreadHasActive
  <1> QED BY <1>1, <1>2, <1>3, <1>4 DEF Sound, d, active, queue, worker

\* pump() turns the head of the queue into the active run, which now awaits a
\* spawn; nothing else changes hands.
LEMMA PumpedFacts ==
    ASSUME NEW c, NEW p \in SUBSET Runs, Sound(c, p), NEW d \in Pumped(c)
    PROVE  /\ Sound(d, p)
           /\ Served(d) = Served(c)
           /\ d.queue # <<>> => d.active # NoRun
           /\ \A r \in Runs \ Served(c) : d.awaits[r] = c.awaits[r]
  <1>1. /\ c \in Client
        /\ c.queue \in Seq(Runs)
        /\ c.worker \in Worker
        /\ c.worker.id \in Nat
        /\ c.ready \in Seq({"pending", "resolved", "rejected"})
        /\ c.awaits \in [Runs -> Nat \cup {NotAwaiting}]
    BY DEF Sound, Client, Worker
  <1>2. CASE c.active # NoRun \/ c.queue = <<>>
    BY <1>2 DEF Pumped
  <1>3. CASE c.active = NoRun /\ c.queue # <<>>
    <2> DEFINE h == Head(c.queue)
               b == [c EXCEPT !.active = h, !.queue = Tail(c.queue)]
               n == Len(c.ready) + 1
               fresh == Thread(n, "starting")
    <2>1. /\ Tail(c.queue) \in Seq(Runs)
          /\ h \in Runs
          /\ Holds(c.queue, h)
          /\ Len(Tail(c.queue)) = Len(c.queue) - 1
          /\ \A k \in 1..Len(Tail(c.queue)) : Tail(c.queue)[k] = c.queue[k + 1]
          /\ \A r : Holds(c.queue, r) <=> r = h \/ Holds(Tail(c.queue), r)
      BY <1>1, <1>3, HoldsFacts
    <2>2. d \in Started(b, h)
      BY <1>1, <1>3 DEF Pumped, Client
    <2>3. n \in Nat /\ n # 0
      BY <1>1
    <2>4. /\ fresh \in Worker
          /\ fresh.id = n
          /\ fresh.thread = "starting"
          /\ fresh.job = NoRun
          /\ fresh.inbox = <<>>
          /\ fresh.outbox = <<>>
      BY <2>3, ThreadIsWorker
    <2>5. /\ h \notin p
          /\ ~Holds(Tail(c.queue), h)
      <3>1. ASSUME NEW k \in 1..Len(Tail(c.queue)), Tail(c.queue)[k] = h
            PROVE  FALSE
        <4>1. k + 1 \in 1..Len(c.queue) /\ c.queue[k + 1] = h
          BY <1>1, <2>1, <3>1
        <4>2. 1 \in 1..Len(c.queue) /\ c.queue[1] = h
          BY <1>1, <1>3
        <4>3. k + 1 = 1
          BY <4>1, <4>2 DEF Sound, QueueIsDistinct
        <4> QED BY <4>3
      <3> QED BY <2>1, <3>1 DEF Sound, PostedOnce, Holds
    <2> HIDE DEF h, fresh
    <2>6. \E m \in Nat :
            /\ d.active = h
            /\ d.queue = Tail(c.queue)
            /\ d.awaits = [c.awaits EXCEPT ![h] = m]
            /\ d \in Client
            /\ m <= Len(d.ready)
            /\ \/ d.worker = c.worker /\ d.ready = c.ready
               \/ d.worker = fresh /\ d.ready = Append(c.ready, "pending")
      <3>1. CASE c.worker.id # 0
        <4>1. d = [b EXCEPT !.awaits[h] = c.worker.id]
          BY <1>1, <2>2, <3>1 DEF Started, Client
        <4>2. c.worker.id <= Len(c.ready)
          BY <1>1 DEF Sound, SpawnsExist
        <4>3. /\ d.active = h
              /\ d.queue = Tail(c.queue)
              /\ d.awaits = [c.awaits EXCEPT ![h] = c.worker.id]
              /\ d \in Client
              /\ d.worker = c.worker
              /\ d.ready = c.ready
          BY <1>1, <2>1, <4>1 DEF Client
        <4> QED BY <1>1, <4>2, <4>3
      <3>2. CASE c.worker.id = 0 /\ d = [b EXCEPT !.awaits[h] = 0]
        <4>1. /\ d.active = h
              /\ d.queue = Tail(c.queue)
              /\ d.awaits = [c.awaits EXCEPT ![h] = 0]
              /\ d \in Client
              /\ d.worker = c.worker
              /\ d.ready = c.ready
          BY <1>1, <2>1, <3>2 DEF Client
        <4>2. 0 \in Nat /\ 0 <= Len(d.ready)
          BY <1>1, <4>1
        <4> QED BY <4>1, <4>2
      <3>3. CASE d = [b EXCEPT !.worker = fresh, !.ready = Append(c.ready, "pending"),
                               !.awaits[h] = n]
        <4>1. /\ Append(c.ready, "pending") \in Seq({"pending", "resolved", "rejected"})
              /\ Len(Append(c.ready, "pending")) = n
          BY <1>1
        <4>2. /\ d.active = h
              /\ d.queue = Tail(c.queue)
              /\ d.awaits = [c.awaits EXCEPT ![h] = n]
              /\ d \in Client
              /\ d.worker = fresh
              /\ d.ready = Append(c.ready, "pending")
          BY <1>1, <2>1, <2>3, <2>4, <3>3, <4>1 DEF Client
        <4>3. n <= Len(d.ready)
          BY <2>3, <4>1, <4>2
        <4> HIDE DEF n
        <4> QED BY <2>3, <4>2, <4>3
      <3>4. b.worker = c.worker /\ b.ready = c.ready
        BY <1>1 DEF Client
      <3>5. c.worker.id # 0 \/ d = [b EXCEPT !.awaits[h] = 0]
              \/ d = [b EXCEPT !.worker = fresh, !.ready = Append(@, "pending"),
                               !.awaits[h] = n]
        <4> HIDE DEF b
        <4> QED BY <2>2, <3>4 DEF Started, fresh
      <3>6. [b EXCEPT !.worker = fresh, !.ready = Append(@, "pending"), !.awaits[h] = n]
              = [b EXCEPT !.worker = fresh, !.ready = Append(c.ready, "pending"),
                          !.awaits[h] = n]
        BY <3>4, <1>1 DEF Client
      <3> QED BY <3>1, <3>2, <3>3, <3>5, <3>6
    <2>7. PICK m \in Nat :
            /\ d.active = h
            /\ d.queue = Tail(c.queue)
            /\ d.awaits = [c.awaits EXCEPT ![h] = m]
            /\ d \in Client
            /\ m <= Len(d.ready)
            /\ \/ d.worker = c.worker /\ d.ready = c.ready
               \/ d.worker = fresh /\ d.ready = Append(c.ready, "pending")
      BY <2>6
    <2> HIDE DEF b
    <2>8. SpawnsExist(d)
      <3>1. Len(Append(c.ready, "pending")) = n
        BY <1>1
      <3>2. Len(d.ready) \in Nat /\ Len(c.ready) \in Nat /\ Len(c.ready) <= Len(d.ready)
        BY <1>1, <2>7, <3>1
      <3>3. d.worker.id \in 0..Len(d.ready) /\ (d.worker.id = 0 => d.worker = NoWorker)
        BY <1>1, <2>3, <2>4, <2>7, <3>1 DEF Sound, SpawnsExist
      <3>4. ASSUME NEW r \in Runs PROVE d.awaits[r] <= Len(d.ready)
        <4>1. c.awaits[r] \in Int /\ c.awaits[r] <= Len(c.ready)
          BY <1>1 DEF Sound, SpawnsExist, NotAwaiting
        <4>2. d.awaits[r] = m \/ d.awaits[r] = c.awaits[r]
          BY <1>1, <2>7
        <4> QED BY <2>7, <3>2, <4>1, <4>2
      <3> QED BY <3>3, <3>4 DEF SpawnsExist
    <2>9. QueueIsDistinct(d)
      <3>1. \A j, k \in 1..Len(Tail(c.queue)) :
              Tail(c.queue)[j] = Tail(c.queue)[k] => j = k
        BY <1>1, <2>1 DEF Sound, QueueIsDistinct
      <3> QED BY <2>5, <2>7, <3>1 DEF QueueIsDistinct
    <2>10. PostedOnce(d, p)
      BY <1>1, <2>1, <2>5, <2>7 DEF Sound, PostedOnce
    <2>11. ThreadHasActive(d, p)
      <3>1. \A r \in Runs : ~(c.worker.job = r \/ Holds(c.worker.inbox, r))
        BY <1>3, RunsAssumption DEF Sound, ThreadHasActive
      <3>2. CASE d.worker = c.worker
        BY <2>5, <2>7, <3>1, <3>2 DEF Sound, ThreadHasActive
      <3>3. CASE d.worker = fresh
        BY <2>4, <3>3, RunsAssumption DEF ThreadHasActive, Holds
      <3> QED BY <2>7, <3>2, <3>3
    <2>12. Served(d) = Served(c)
      BY <1>3, <2>1, <2>7, RunsAssumption DEF Served
    <2>13. d.active # NoRun
      BY <2>1, <2>7, RunsAssumption
    <2>14. \A r \in Runs \ Served(c) : d.awaits[r] = c.awaits[r]
      BY <1>1, <2>1, <2>7 DEF Served
    <2> QED BY <2>7, <2>8, <2>9, <2>10, <2>11, <2>12, <2>13, <2>14 DEF Sound
  <1> QED BY <1>2, <1>3

-----------------------------------------------------------------------------
(* What the actions have in common. *)

\* Settling a run closes its promise, unless it is closed, and no other.
LEMMA SettleFacts ==
    ASSUME NEW r \in Runs, NEW o \in {"report", "cancelled", "failed"},
           fate \in [Runs -> Fates], grace \subseteq Runs, Settle(r, o),
           \A q \in aborted' : fate[q] # "report", aborted' \subseteq Runs,
           o = "report" => r \notin aborted'
    PROVE  /\ fate' \in [Runs -> Fates]
           /\ grace' \subseteq Runs
           /\ Open(fate') = Open(fate) \ {r}
           /\ \A q \in Runs : fate'[q] = "new" <=> fate[q] = "new"
           /\ CancelledGetsNoReport'
  <1>1. /\ fate' = [fate EXCEPT ![r] = IF fate[r] = "open" THEN o ELSE fate[r]]
        /\ grace' = grace \ {r}
    BY DEF Settle, Settled
  <1> QED BY <1>1 DEF Open, Fates, CancelledGetsNoReport

\* An action that ends in pump() re-establishes the invariant if the client it
\* pumps is sound and serves the promises that are open then.
LEMMA PumpLands ==
    ASSUME NEW c, Sound(c, posted'), client' \in Pumped(c),
           fate' \in [Runs -> Fates], aborted' \subseteq Runs,
           posted' \subseteq Runs, grace' \subseteq Runs,
           Open(fate') = Served(c),
           \A r \in Runs : fate'[r] = "new" => c.awaits[r] = NotAwaiting /\ r \notin posted',
           CancelledGetsNoReport'
    PROVE  IInv'
  <1>1. /\ Sound(client', posted')
        /\ Served(client') = Served(c)
        /\ client'.queue # <<>> => client'.active # NoRun
        /\ \A r \in Runs \ Served(c) : client'.awaits[r] = c.awaits[r]
    BY PumpedFacts
  <1>2. \A r \in Runs : fate'[r] = "new" => r \notin Served(c)
    BY DEF Open
  <1>3. NeverStalls'
    BY <1>1 DEF NeverStalls, queue, active
  <1>4. PromisesOK(client)'
    BY <1>1, <1>2 DEF PromisesOK
  <1> QED BY <1>1, <1>3, <1>4 DEF IInv

\* A step of the thread, and any other that leaves queue, promises and awaits
\* alone, has only the thread to answer for.
LEMMA ThreadLands ==
    ASSUME IInv, UNCHANGED <<fate, aborted, posted, grace>>,
           client' \in Client,
           client'.active = active, client'.queue = queue,
           client'.awaits = client.awaits,
           SpawnsExist(client'), ThreadHasActive(client', posted)
    PROVE  IInv'
  <1>1. QueueIsDistinct(client') /\ PostedOnce(client', posted)
    BY DEF IInv, Sound, QueueIsDistinct, PostedOnce, active, queue
  <1>2. Served(client') = Served(client)
    BY DEF Served, active, queue
  <1>3. PromisesOK(client)'
    BY <1>2 DEF IInv, PromisesOK, CancelledGetsNoReport, Open
  <1>4. NeverStalls'
    BY DEF IInv, NeverStalls, active, queue
  <1> QED BY <1>1, <1>3, <1>4 DEF IInv, Sound

LEMMA InitIInv == Init => IInv
  <1> SUFFICES ASSUME Init PROVE IInv
    OBVIOUS
  <1>1. NoWorker = Thread(0, "none") /\ 0 \in Nat /\ "none" \in {"none", "starting"}
    BY DEF NoWorker
  <1>2. /\ NoWorker \in Worker
        /\ NoWorker.id = 0
        /\ NoWorker.thread = "none"
        /\ NoWorker.job = NoRun
        /\ NoWorker.inbox = <<>>
        /\ NoWorker.outbox = <<>>
    BY <1>1, ThreadIsWorker
  <1>3. /\ client.active = NoRun
        /\ client.queue = <<>>
        /\ client.worker = NoWorker
        /\ client.ready = <<>>
        /\ client.awaits = [r \in Runs |-> NotAwaiting]
    BY DEF Init
  <1>4. client \in Client
    BY <1>2 DEF Init, Client
  <1>5. SpawnsExist(client)
    BY <1>2, <1>3 DEF SpawnsExist, NotAwaiting
  <1>6. QueueIsDistinct(client) /\ PostedOnce(client, posted)
    BY <1>3 DEF Init, QueueIsDistinct, PostedOnce, Holds
  <1>7. ThreadHasActive(client, posted)
    BY <1>2, <1>3, RunsAssumption DEF ThreadHasActive, Holds
  <1>8. PromisesOK(client)
    <2>1. Served(client) = {}
      BY <1>3, RunsAssumption DEF Served, Holds
    <2> QED BY <2>1, <1>3 DEF Init, PromisesOK, Open, Fates, CancelledGetsNoReport
  <1>9. NeverStalls
    BY <1>3 DEF NeverStalls, queue
  <1> QED BY <1>4, <1>5, <1>6, <1>7, <1>8, <1>9 DEF IInv, Sound

-----------------------------------------------------------------------------
(* The callers preserve the invariant. *)

\* What every proof below reads off the invariant.
LEMMA Facts ==
    ASSUME IInv
    PROVE  /\ Sound(client, posted)
           /\ client \in Client
           /\ queue \in Seq(Runs)
           /\ worker \in Worker
           /\ client.awaits \in [Runs -> Nat \cup {NotAwaiting}]
           /\ client.ready \in Seq({"pending", "resolved", "rejected"})
           /\ fate \in [Runs -> Fates]
           /\ aborted \subseteq Runs
           /\ posted \subseteq Runs
           /\ grace \subseteq Runs
           /\ Open(fate) = Served(client)
           /\ \A r \in Runs : fate[r] = "new" => client.awaits[r] = NotAwaiting
                                               /\ r \notin posted
           /\ CancelledGetsNoReport
           /\ \A q \in aborted : fate[q] # "report"
  BY DEF IInv, Sound, Client, PromisesOK, CancelledGetsNoReport, queue, worker

\* The thread has nothing of a run that was not posted.
LEMMA UnpostedIsFree ==
    ASSUME NEW c, NEW p, Sound(c, p), c.active \notin p
    PROVE  FreeHanded(c)
  <1>1. /\ c.worker.job \in Runs \cup {NoRun}
        /\ c.worker.inbox \in Seq(Runs)
    BY DEF Sound, Client, Worker
  <1>2. \A r \in Runs : ~(c.worker.job = r \/ Holds(c.worker.inbox, r))
    BY DEF Sound, ThreadHasActive
  <1>3. c.worker.inbox = <<>>
    BY <1>1, <1>2, HoldsFacts
  <1> QED BY <1>1, <1>2, <1>3 DEF FreeHanded

LEMMA RequestIInv ==
    ASSUME IInv, NEW r \in Runs, Request(r)
    PROVE  IInv'
  <1>1. fate[r] = "new" /\ UNCHANGED <<aborted, posted, grace>>
    BY DEF Request
  <1>2. r \notin Served(client)
    BY <1>1, Facts DEF Open
  <1>3. CASE r \in aborted
    <2>1. fate' = [fate EXCEPT ![r] = "cancelled"] /\ UNCHANGED client
      BY <1>3 DEF Request
    <2>2. /\ fate' \in [Runs -> Fates]
          /\ Open(fate') = Open(fate)
          /\ \A q \in Runs : fate'[q] = "new" => fate[q] = "new"
          /\ CancelledGetsNoReport'
      BY <1>1, <2>1, Facts DEF Open, Fates, CancelledGetsNoReport
    <2> QED BY <1>1, <2>1, <2>2 DEF IInv, PromisesOK, NeverStalls, active, queue
  <1>4. CASE r \notin aborted
    <2> DEFINE c == [client EXCEPT !.queue = Append(client.queue, r)]
    <2>1. fate' = [fate EXCEPT ![r] = "open"] /\ client' \in Pumped(c)
      BY <1>4, Facts DEF Request, Client
    <2>2. client.queue \in Seq(Runs)
      BY Facts DEF queue
    <2>3. /\ Append(client.queue, r) \in Seq(Runs)
          /\ Len(Append(client.queue, r)) = Len(client.queue) + 1
          /\ Append(client.queue, r)[Len(client.queue) + 1] = r
          /\ \A k \in 1..Len(client.queue) : Append(client.queue, r)[k] = client.queue[k]
      BY <2>2
    <2>4. /\ c \in Client
          /\ c.active = client.active
          /\ c.queue = Append(client.queue, r)
          /\ c.worker = client.worker
          /\ c.ready = client.ready
          /\ c.awaits = client.awaits
      BY <2>3, Facts DEF Client
    <2> HIDE DEF c
    <2>5. /\ client.active # r
          /\ ~Holds(client.queue, r)
      BY <1>2 DEF Served
    <2>6. \A x : Holds(c.queue, x) <=> x = r \/ Holds(client.queue, x)
      BY <2>2, <2>4, HoldsFacts
    <2>7. SpawnsExist(c)
      BY <2>4, Facts DEF Sound, SpawnsExist
    <2>8. QueueIsDistinct(c)
      <3>1. \A j, k \in 1..Len(c.queue) : c.queue[j] = c.queue[k] => j = k
        <4>1. Len(client.queue) \in Nat
          BY <2>2
        <4>2. \A k \in 1..Len(client.queue) : client.queue[k] # r
          BY <2>5 DEF Holds
        <4> QED BY <2>3, <2>4, <4>1, <4>2, Facts DEF Sound, QueueIsDistinct
      <3> QED BY <2>4, <2>5, <2>6, <3>1, Facts DEF Sound, QueueIsDistinct
    <2>9. PostedOnce(c, posted)
      BY <1>1, <2>4, <2>6, Facts DEF Sound, PostedOnce
    <2>10. ThreadHasActive(c, posted)
      BY <2>4, Facts DEF Sound, ThreadHasActive
    <2>11. Sound(c, posted')
      BY <1>1, <2>4, <2>7, <2>8, <2>9, <2>10 DEF Sound
    <2>12. Served(c) = Served(client) \cup {r}
      BY <2>4, <2>6 DEF Served
    <2>13. /\ fate' \in [Runs -> Fates]
           /\ Open(fate') = Open(fate) \cup {r}
           /\ \A q \in Runs : fate'[q] = "new" => fate[q] = "new"
           /\ CancelledGetsNoReport'
      BY <1>1, <2>1, Facts DEF Open, Fates, CancelledGetsNoReport
    <2> QED BY <1>1, <2>1, <2>4, <2>11, <2>12, <2>13, Facts, PumpLands
  <1> QED BY <1>3, <1>4

LEMMA AbortIInv ==
    ASSUME IInv, NEW r \in Runs, Abort(r)
    PROVE  IInv'
  <1>1. /\ fate[r] \in {"new", "open"}
        /\ aborted' = aborted \cup {r}
        /\ posted' = posted
    BY DEF Abort
  <1>2. \A q \in aborted' : fate[q] # "report"
    BY <1>1, Facts
  <1>3. aborted' \subseteq Runs
    BY <1>1, Facts
  <1>4. ASSUME UNCHANGED <<client, fate>>, grace' \subseteq Runs
        PROVE  IInv'
    BY <1>1, <1>2, <1>3, <1>4
       DEF IInv, PromisesOK, NeverStalls, CancelledGetsNoReport, active, queue
  <1>5. CASE fate[r] = "new" /\ UNCHANGED <<client, fate, grace>>
    BY <1>4, <1>5, Facts
  <1>6. CASE fate[r] = "open" /\ active # r
             /\ client' = [client EXCEPT !.queue = Without(@, r)]
             /\ Settle(r, "cancelled")
    <2> DEFINE c == [client EXCEPT !.queue = Without(client.queue, r)]
    <2>1. client' = c
      BY <1>6, Facts DEF Client
    <2>2. /\ Without(client.queue, r) \in Seq(Runs)
          /\ \A x : Holds(Without(client.queue, r), x) <=> Holds(client.queue, x) /\ x # r
          /\ \A j, k \in 1..Len(Without(client.queue, r)) :
               Without(client.queue, r)[j] = Without(client.queue, r)[k] => j = k
      BY WithoutFacts, Facts DEF Sound, QueueIsDistinct, queue
    <2>3. /\ c \in Client
          /\ c.active = client.active
          /\ c.queue = Without(client.queue, r)
          /\ c.worker = client.worker
          /\ c.ready = client.ready
          /\ c.awaits = client.awaits
      BY <2>2, Facts DEF Client
    <2> HIDE DEF c
    <2>4. Sound(c, posted')
      <3>1. SpawnsExist(c)
        BY <2>3, Facts DEF Sound, SpawnsExist
      <3>2. QueueIsDistinct(c)
        BY <2>2, <2>3, Facts DEF Sound, QueueIsDistinct
      <3>3. PostedOnce(c, posted)
        BY <2>2, <2>3, Facts DEF Sound, PostedOnce
      <3>4. ThreadHasActive(c, posted)
        BY <2>2, <2>3, Facts DEF Sound, ThreadHasActive
      <3> QED BY <1>1, <2>3, <3>1, <3>2, <3>3, <3>4 DEF Sound
    <2>5. Served(c) = Served(client) \ {r}
      BY <1>6, <2>2, <2>3 DEF Served, active
    <2>6. /\ fate' \in [Runs -> Fates]
          /\ grace' \subseteq Runs
          /\ Open(fate') = Open(fate) \ {r}
          /\ \A q \in Runs : fate'[q] = "new" <=> fate[q] = "new"
          /\ CancelledGetsNoReport'
      BY <1>2, <1>3, <1>6, Facts, SettleFacts
    <2>7. PromisesOK(client)'
      BY <1>1, <1>3, <2>1, <2>3, <2>5, <2>6, Facts DEF PromisesOK
    <2>8. NeverStalls'
      <3>1. client.active = NoRun => client.queue = <<>>
        BY DEF IInv, NeverStalls, active, queue
      <3>2. client.queue = <<>> => Without(client.queue, r) = <<>>
        BY DEF Without, Holds
      <3> QED BY <2>1, <2>3, <3>1, <3>2 DEF NeverStalls, active, queue
    <2> QED BY <2>1, <2>4, <2>7, <2>8 DEF IInv
  <1>7. CASE active = r /\ r \notin posted
             /\ client' \in Pumped(Idle(client))
             /\ Settle(r, "cancelled")
    <2>1. FreeHanded(client)
      BY <1>7, Facts, UnpostedIsFree DEF active
    <2>2. /\ Sound(Idle(client), posted)
          /\ Served(Idle(client)) = Served(client) \ {r}
          /\ Idle(client).awaits = client.awaits
      BY <1>7, <2>1, Facts, IdleFacts DEF active
    <2>3. /\ fate' \in [Runs -> Fates]
          /\ grace' \subseteq Runs
          /\ Open(fate') = Open(fate) \ {r}
          /\ \A q \in Runs : fate'[q] = "new" <=> fate[q] = "new"
          /\ CancelledGetsNoReport'
      BY <1>2, <1>3, <1>7, Facts, SettleFacts
    <2> QED BY <1>1, <1>3, <1>7, <2>2, <2>3, Facts, PumpLands
  <1>8. CASE active = r /\ r \in posted /\ AskToStop(r)
    BY <1>4, <1>8, Facts DEF AskToStop
  <1> QED BY <1>5, <1>6, <1>7, <1>8 DEF Abort

LEMMA DisposeIInv ==
    ASSUME IInv, Dispose
    PROVE  IInv'
  <1> DEFINE e == Drop(client)
             c == [e EXCEPT !.active = NoRun, !.queue = <<>>]
  <1>1. /\ client' = c
        /\ fate' = [r \in Runs |->
                      IF r = active \/ Holds(queue, r)
                        THEN Settled(r, "cancelled")[r] ELSE fate[r]]
        /\ grace' = grace \ {active}
        /\ UNCHANGED <<aborted, posted>>
    BY DEF Dispose
  <1>2. /\ Sound(e, posted)
        /\ e.awaits = client.awaits
        /\ FreeHanded(e)
    BY Facts, DropFacts
  <1> HIDE DEF e
  <1>3. /\ c \in Client
        /\ c.active = NoRun
        /\ c.queue = <<>>
        /\ c.worker = e.worker
        /\ c.ready = e.ready
        /\ c.awaits = client.awaits
    <2>1. <<>> \in Seq(Runs)
      OBVIOUS
    <2>2. e \in Client
      BY <1>2 DEF Sound
    <2> QED BY <1>2, <2>1, <2>2 DEF Client
  <1> HIDE DEF c
  <1>4. Sound(c, posted')
    <2>1. SpawnsExist(c)
      BY <1>2, <1>3 DEF Sound, SpawnsExist
    <2>2. QueueIsDistinct(c)
      BY <1>3 DEF QueueIsDistinct, Holds
    <2>3. PostedOnce(c, posted)
      BY <1>3, Facts DEF Sound, PostedOnce, Holds
    <2>4. ThreadHasActive(c, posted)
      <3>1. \A r \in Runs : ~(c.worker.job = r \/ Holds(c.worker.inbox, r))
        BY <1>2, <1>3, RunsAssumption DEF FreeHanded, Holds
      <3>2. NoRun \notin posted
        BY RunsAssumption, Facts
      <3> QED BY <1>2, <1>3, <3>1, <3>2 DEF Sound, ThreadHasActive, FreeHanded
    <2> QED BY <1>1, <1>3, <2>1, <2>2, <2>3, <2>4 DEF Sound
  <1>5. Served(c) = {}
    BY <1>3, RunsAssumption DEF Served, Holds
  <1>6. \A r \in Runs : Settled(r, "cancelled")[r] =
          IF fate[r] = "open" THEN "cancelled" ELSE fate[r]
    BY Facts DEF Settled
  <1>7. \A r \in Runs : fate[r] = "open" <=> r = active \/ Holds(queue, r)
    BY Facts DEF Open, Served, active, queue
  <1>8. /\ fate' \in [Runs -> Fates]
        /\ Open(fate') = {}
        /\ \A r \in Runs : fate'[r] = "new" => fate[r] = "new"
        /\ \A r \in Runs : fate'[r] = "report" => fate[r] = "report"
    BY <1>1, <1>6, <1>7, Facts DEF Open, Fates
  <1>9. PromisesOK(client)'
    BY <1>1, <1>3, <1>5, <1>8, Facts DEF PromisesOK, CancelledGetsNoReport
  <1>10. NeverStalls'
    BY <1>1, <1>3 DEF NeverStalls, queue
  <1> QED BY <1>1, <1>4, <1>9, <1>10 DEF IInv

-----------------------------------------------------------------------------
(* startRun() after its await preserves the invariant. *)

LEMMA GiveUpIInv ==
    ASSUME IInv, NEW r \in Runs, GiveUp(r)
    PROVE  IInv'
  <1> DEFINE d == Resumed(r)
             c == IF active = r THEN Idle(d) ELSE d
  <1>1. /\ client.awaits[r] # NotAwaiting
        /\ client' \in Pumped(c)
        /\ Settle(r, "failed")
        /\ UNCHANGED <<aborted, posted>>
    BY Facts DEF GiveUp, SpawnFailed, NotAwaiting
  <1>2. r \notin posted /\ ~Holds(queue, r)
    BY <1>1, Facts DEF Sound, PostedOnce, queue
  <1>3. /\ Sound(d, posted)
        /\ Served(d) = Served(client)
        /\ d.active = active
        /\ d.awaits = [client.awaits EXCEPT ![r] = NotAwaiting]
    BY Facts, ResumedFacts
  <1> HIDE DEF d
  <1>4. /\ Sound(c, posted)
        /\ Served(c) = Served(client) \ {r}
        /\ c.awaits = d.awaits
    <2>1. CASE active = r
      <3>1. FreeHanded(d)
        BY <1>2, <1>3, <2>1, UnpostedIsFree
      <3> QED BY <1>3, <2>1, <3>1, Facts, IdleFacts
    <2>2. CASE active # r
      <3>1. r \notin Served(client)
        BY <1>2, <2>2 DEF Served, active, queue
      <3> QED BY <1>3, <2>2, <3>1
    <2> QED BY <2>1, <2>2
  <1>5. /\ fate' \in [Runs -> Fates]
        /\ grace' \subseteq Runs
        /\ Open(fate') = Open(fate) \ {r}
        /\ \A q \in Runs : fate'[q] = "new" <=> fate[q] = "new"
        /\ CancelledGetsNoReport'
    BY <1>1, Facts, SettleFacts
  <1>6. \A q \in Runs : fate'[q] = "new" => c.awaits[q] = NotAwaiting
    BY <1>3, <1>4, <1>5, Facts
  <1> HIDE DEF c
  <1> QED BY <1>1, <1>4, <1>5, <1>6, Facts, PumpLands

LEMMA OvertakenIInv ==
    ASSUME IInv, NEW r \in Runs, Overtaken(r)
    PROVE  IInv'
  <1>1. client' = Resumed(r) /\ UNCHANGED <<fate, aborted, posted, grace>>
    BY DEF Overtaken
  <1>2. /\ Sound(client', posted)
        /\ Served(client') = Served(client)
        /\ client'.active = active
        /\ client'.queue = queue
        /\ client'.awaits = [client.awaits EXCEPT ![r] = NotAwaiting]
    BY <1>1, Facts, ResumedFacts
  <1>3. \A q \in Runs : fate[q] = "new" => client'.awaits[q] = NotAwaiting
    BY <1>2, Facts
  <1>4. PromisesOK(client)'
    BY <1>1, <1>2, <1>3, Facts DEF PromisesOK, CancelledGetsNoReport
  <1>5. NeverStalls'
    BY <1>2 DEF IInv, NeverStalls, active, queue
  <1> QED BY <1>1, <1>2, <1>4, <1>5 DEF IInv

\* Posting a run that neither waits nor awaits keeps the client sound.
LEMMA PostedGrows ==
    ASSUME NEW c, NEW p, NEW r \in Runs, Sound(c, p),
           c.awaits[r] = NotAwaiting, ~Holds(c.queue, r)
    PROVE  Sound(c, p \cup {r})
  <1>1. PostedOnce(c, p \cup {r})
    BY DEF Sound, PostedOnce
  <1>2. ThreadHasActive(c, p \cup {r})
    BY DEF Sound, ThreadHasActive
  <1> QED BY <1>1, <1>2 DEF Sound

LEMMA ReadyToPost ==
    ASSUME IInv, NEW r \in Runs, SpawnReady(r), active = r
    PROVE  /\ r \notin posted
           /\ FreeHanded(client)
           /\ Sound(Resumed(r), posted \cup {r})
           /\ Resumed(r).active = r
           /\ \A q \in Runs : fate[q] = "new" => Resumed(r).awaits[q] = NotAwaiting
           /\ \A q \in Runs : fate[q] = "new" => q # r
           /\ Served(Resumed(r)) = Served(client)
  <1>1. client.awaits[r] # NotAwaiting
    BY DEF SpawnReady, NotAwaiting
  <1>2. r \notin posted /\ ~Holds(queue, r)
    BY <1>1, Facts DEF Sound, PostedOnce, queue
  <1>3. FreeHanded(client)
    BY <1>2, Facts, UnpostedIsFree DEF active
  <1>4. /\ Sound(Resumed(r), posted)
        /\ Served(Resumed(r)) = Served(client)
        /\ Resumed(r).active = active
        /\ Resumed(r).queue = queue
        /\ Resumed(r).awaits = [client.awaits EXCEPT ![r] = NotAwaiting]
    BY Facts, ResumedFacts
  <1>5. /\ Resumed(r).awaits[r] = NotAwaiting
        /\ \A q \in Runs : fate[q] = "new" => Resumed(r).awaits[q] = NotAwaiting
        /\ \A q \in Runs : fate[q] = "new" => q # r
    BY <1>1, <1>4, Facts
  <1>6. Sound(Resumed(r), posted \cup {r})
    BY <1>2, <1>4, <1>5, PostedGrows
  <1> QED BY <1>2, <1>3, <1>4, <1>5, <1>6

LEMMA PostIInv ==
    ASSUME IInv, NEW r \in Runs, Post(r)
    PROVE  IInv'
  <1> DEFINE d == Resumed(r)
             box == IF client.awaits[r] = worker.id
                      THEN Append(d.worker.inbox, r) ELSE d.worker.inbox
  <1>1. /\ SpawnReady(r) /\ active = r /\ fate[r] = "open"
        /\ client' = [d EXCEPT !.worker.inbox = box]
        /\ posted' = posted \cup {r}
        /\ UNCHANGED <<fate, aborted, grace>>
    <2>1. /\ d \in Client /\ d.worker = worker
      BY Facts, ResumedFacts DEF Sound
    <2> QED BY <2>1 DEF Post, Client, Worker
  <1>2. /\ r \notin posted
        /\ FreeHanded(client)
        /\ Sound(d, posted')
        /\ d.active = r
        /\ \A q \in Runs : fate[q] = "new" => d.awaits[q] = NotAwaiting
        /\ \A q \in Runs : fate[q] = "new" => q # r
        /\ Served(d) = Served(client)
    BY <1>1, ReadyToPost
  <1>3. d.worker = client.worker /\ d.queue = queue /\ client.worker.inbox = <<>>
    BY <1>2, Facts, ResumedFacts DEF FreeHanded, worker
  <1> HIDE DEF d
  <1>4. /\ box = <<>> \/ box = <<r>>
        /\ worker.id = 0 => box = <<>>
    BY <1>1, <1>3 DEF SpawnReady
  <1>5. box \in Seq(Runs)
    <2>1. <<>> \in Seq(Runs) /\ <<r>> \in Seq(Runs)
      OBVIOUS
    <2> QED BY <1>4, <2>1
  <1> HIDE DEF box
  <1>6. /\ client' \in Client
        /\ client'.active = d.active
        /\ client'.queue = d.queue
        /\ client'.ready = d.ready
        /\ client'.awaits = d.awaits
        /\ client'.worker = [d.worker EXCEPT !.inbox = box]
        /\ d.worker \in Worker
    BY <1>1, <1>2, <1>5 DEF Sound, Client, Worker
  <1>7. /\ client'.worker.id = d.worker.id
        /\ client'.worker.thread = d.worker.thread
        /\ client'.worker.job = NoRun
        /\ client'.worker.inbox = box
        /\ client'.worker.outbox = d.worker.outbox
    BY <1>2, <1>3, <1>6 DEF Worker, FreeHanded
  <1>8. SpawnsExist(client')
    <2>1. worker.id = 0 => client'.worker = d.worker
      BY <1>3, <1>4, <1>6 DEF Worker
    <2> QED BY <1>2, <1>3, <1>6, <1>7, <2>1 DEF Sound, SpawnsExist, worker
  <1>9. QueueIsDistinct(client') /\ PostedOnce(client', posted') /\ Served(client') = Served(client)
    BY <1>2, <1>6 DEF Sound, QueueIsDistinct, PostedOnce, Served
  <1>10. ThreadHasActive(client', posted')
    <2>1. \A x : Holds(box, x) => x = r
      BY <1>4 DEF Holds
    <2>2. \A k \in 1..Len(d.worker.outbox) : d.worker.outbox[k].type # "ready"
            => d.worker.outbox[k].run \in posted
      BY <1>3, Facts DEF Sound, ThreadHasActive
    <2>3. d.worker.thread = "busy" => FALSE
      BY <1>2, <1>3, Facts DEF Sound, ThreadHasActive, FreeHanded
    <2>4. Len(box) <= 1
      <3>1. Len(<<>>) <= 1 /\ Len(<<r>>) <= 1
        OBVIOUS
      <3> QED BY <1>4, <3>1
    <2> QED BY <1>1, <1>2, <1>6, <1>7, <2>1, <2>2, <2>3, <2>4, RunsAssumption
            DEF ThreadHasActive
  <1>11. PromisesOK(client)'
    <2>1. posted' \subseteq Runs
      BY <1>1, Facts
    <2> QED BY <1>1, <1>2, <1>6, <1>9, <2>1, Facts DEF PromisesOK, CancelledGetsNoReport, Open
  <1>12. NeverStalls'
    BY <1>2, <1>6, RunsAssumption DEF NeverStalls, active, queue
  <1> QED BY <1>6, <1>8, <1>9, <1>10, <1>11, <1>12 DEF IInv, Sound

LEMMA PostFailsIInv ==
    ASSUME IInv, NEW r \in Runs, PostFails(r)
    PROVE  IInv'
  <1> DEFINE d == Resumed(r)
             e == Drop(d)
             c == Idle(e)
  <1>1. /\ SpawnReady(r) /\ active = r
        /\ client' \in Pumped(c)
        /\ posted' = posted \cup {r}
        /\ Settle(r, "failed")
        /\ UNCHANGED aborted
    BY DEF PostFails
  <1>2. /\ Sound(d, posted')
        /\ d.active = r
        /\ \A q \in Runs : fate[q] = "new" => d.awaits[q] = NotAwaiting
        /\ \A q \in Runs : fate[q] = "new" => q # r
        /\ Served(d) = Served(client)
    BY <1>1, ReadyToPost
  <1>3. posted' \in SUBSET Runs
    BY <1>1, Facts
  <1> HIDE DEF d
  <1>4. /\ Sound(e, posted')
        /\ Served(e) = Served(client)
        /\ e.active = r
        /\ e.awaits = d.awaits
        /\ FreeHanded(e)
    BY <1>2, <1>3, DropFacts
  <1> HIDE DEF e
  <1>5. /\ Sound(c, posted')
        /\ Served(c) = Served(client) \ {r}
        /\ c.awaits = d.awaits
    BY <1>3, <1>4, IdleFacts
  <1>6. /\ fate' \in [Runs -> Fates]
        /\ grace' \subseteq Runs
        /\ Open(fate') = Open(fate) \ {r}
        /\ \A q \in Runs : fate'[q] = "new" <=> fate[q] = "new"
        /\ CancelledGetsNoReport'
    BY <1>1, Facts, SettleFacts
  <1>7. \A q \in Runs : fate'[q] = "new" => c.awaits[q] = NotAwaiting /\ q \notin posted'
    BY <1>1, <1>2, <1>5, <1>6, Facts
  <1> HIDE DEF c
  <1> QED BY <1>1, <1>3, <1>5, <1>6, <1>7, Facts, PumpLands

-----------------------------------------------------------------------------
(* The thread preserves the invariant. *)

\* A message sent by the thread, after which it holds no job.
LEMMA SaysFacts ==
    ASSUME IInv, NEW m \in Message, worker.thread # "none",
           ThreadSays(m.type, m.run, "idle"),
           m.type # "ready" => m.run \in posted /\ worker.inbox = <<>>
    PROVE  IInv'
  <1> DEFINE w == [worker EXCEPT !.thread = "idle", !.job = NoRun,
                                 !.outbox = Append(worker.outbox, m)]
  <1>1. m = [type |-> m.type, run |-> m.run]
    BY DEF Message
  <1>2. /\ client' = [client EXCEPT !.worker = w]
        /\ UNCHANGED <<fate, aborted, posted, grace>>
    BY <1>1, Facts DEF ThreadSays, Client, Worker, worker
  <1>3. worker.outbox \in Seq(Message) /\ worker \in Worker
    BY Facts DEF Worker
  <1>4. /\ Append(worker.outbox, m) \in Seq(Message)
        /\ Len(Append(worker.outbox, m)) = Len(worker.outbox) + 1
        /\ Append(worker.outbox, m)[Len(worker.outbox) + 1] = m
        /\ \A k \in 1..Len(worker.outbox) :
             Append(worker.outbox, m)[k] = worker.outbox[k]
        /\ Len(worker.outbox) \in Nat
    BY <1>3
  <1>5. /\ w \in Worker
        /\ w.id = worker.id
        /\ w.thread = "idle"
        /\ w.job = NoRun
        /\ w.inbox = worker.inbox
        /\ w.outbox = Append(worker.outbox, m)
    BY <1>3, <1>4 DEF Worker
  <1> HIDE DEF w
  <1>6. /\ client' \in Client
        /\ client'.active = active
        /\ client'.queue = queue
        /\ client'.worker = w
        /\ client'.ready = client.ready
        /\ client'.awaits = client.awaits
    BY <1>2, <1>5, Facts DEF Client, active, queue
  <1>7. SpawnsExist(client')
    <2>1. NoWorker.thread = "none"
      BY DEF NoWorker, Thread
    <2> QED BY <1>5, <1>6, <2>1, Facts DEF Sound, SpawnsExist, worker
  <1>8. ThreadHasActive(client', posted)
    <2>1. ASSUME NEW k \in 1..Len(w.outbox), w.outbox[k].type # "ready"
          PROVE  /\ w.outbox[k].run \in posted
                 /\ w.outbox[k].run = active => w.inbox = <<>>
      <3>1. CASE k \in 1..Len(worker.outbox)
        BY <1>4, <1>5, <2>1, <3>1, Facts DEF Sound, ThreadHasActive, worker, active
      <3>2. CASE k = Len(worker.outbox) + 1
        BY <1>4, <1>5, <2>1, <3>2
      <3> QED BY <1>4, <1>5, <3>1, <3>2
    <2> QED BY <1>5, <1>6, <2>1, Facts, RunsAssumption
            DEF Sound, ThreadHasActive, worker, active
  <1> QED BY <1>2, <1>6, <1>7, <1>8, ThreadLands

LEMMA ThreadReadyIInv ==
    ASSUME IInv, ThreadReady
    PROVE  IInv'
  <1> DEFINE m == [type |-> "ready", run |-> NoRun]
  <1>1. m \in Message /\ m.type = "ready" /\ m.run = NoRun
    BY DEF Message
  <1>2. worker.thread # "none" /\ ThreadSays(m.type, m.run, "idle")
    BY <1>1 DEF ThreadReady
  <1> HIDE DEF m
  <1> QED BY <1>1, <1>2, SaysFacts

LEMMA EngineEndsIInv ==
    ASSUME IInv, EngineEnds
    PROVE  IInv'
  <1>1. worker.thread = "busy" /\ worker \in Worker
    BY Facts DEF EngineEnds
  <1>2. /\ worker.job \in Runs
        /\ worker.job \in posted
        /\ worker.inbox = <<>>
    BY <1>1, Facts DEF Sound, ThreadHasActive, worker, Worker
  <1>3. PICK type \in {"done", "error", "cancelled"} : ThreadSays(type, worker.job, "idle")
    BY DEF EngineEnds
  <1> DEFINE m == [type |-> type, run |-> worker.job]
  <1>4. m \in Message /\ m.type = type /\ m.run = worker.job
    BY <1>2 DEF Message
  <1> HIDE DEF m
  <1> QED BY <1>1, <1>2, <1>3, <1>4, SaysFacts

LEMMA ThreadTakesRunIInv ==
    ASSUME IInv, ThreadTakesRun
    PROVE  IInv'
  <1> DEFINE w == [worker EXCEPT !.thread = "busy", !.job = Head(worker.inbox),
                                 !.inbox = Tail(worker.inbox)]
  <1>1. /\ worker.thread = "idle" /\ worker.inbox # <<>>
        /\ client' = [client EXCEPT !.worker = w]
        /\ UNCHANGED <<fate, aborted, posted, grace>>
    BY Facts DEF ThreadTakesRun, Client, Worker, worker
  <1>2. worker \in Worker /\ worker.inbox \in Seq(Runs)
    BY Facts DEF Worker
  <1>3. Len(worker.inbox) <= 1
    BY Facts DEF Sound, ThreadHasActive, worker
  <1>4. /\ Tail(worker.inbox) \in Seq(Runs)
        /\ Head(worker.inbox) \in Runs
        /\ Holds(worker.inbox, Head(worker.inbox))
    BY <1>1, <1>2, HoldsFacts
  <1>5. Tail(worker.inbox) = <<>>
    BY <1>1, <1>2, <1>3
  <1>6. /\ w \in Worker
        /\ w.id = worker.id
        /\ w.thread = "busy"
        /\ w.job = Head(worker.inbox)
        /\ w.inbox = <<>>
        /\ w.outbox = worker.outbox
    BY <1>2, <1>4, <1>5 DEF Worker
  <1> HIDE DEF w
  <1>7. /\ client' \in Client
        /\ client'.active = active
        /\ client'.queue = queue
        /\ client'.worker = w
        /\ client'.ready = client.ready
        /\ client'.awaits = client.awaits
    BY <1>1, <1>6, Facts DEF Client, active, queue
  <1>8. SpawnsExist(client')
    <2>1. NoWorker.thread = "none"
      BY DEF NoWorker, Thread
    <2> QED BY <1>1, <1>6, <1>7, <2>1, Facts DEF Sound, SpawnsExist, worker
  <1>9. ThreadHasActive(client', posted)
    <2>1. active = Head(worker.inbox) /\ Head(worker.inbox) \in posted
      BY <1>4, Facts DEF Sound, ThreadHasActive, worker, active
    <2>2. \A r : ~Holds(w.inbox, r)
      BY <1>6 DEF Holds
    <2>3. Len(w.inbox) <= 1 /\ w.job # NoRun
      BY <1>4, <1>6, RunsAssumption
    <2>4. \A k \in 1..Len(worker.outbox) : worker.outbox[k].type # "ready"
            => worker.outbox[k].run \in posted /\ worker.outbox[k].run # active
      BY <1>1, Facts DEF Sound, ThreadHasActive, worker, active
    <2> QED BY <1>6, <1>7, <2>1, <2>2, <2>3, <2>4 DEF ThreadHasActive
  <1> QED BY <1>1, <1>7, <1>8, <1>9, ThreadLands

LEMMA ThreadExitsIInv ==
    ASSUME IInv, ThreadExits
    PROVE  IInv'
  <1> DEFINE w == [worker EXCEPT !.thread = "exited", !.job = NoRun, !.inbox = <<>>]
  <1>1. /\ worker.thread # "none"
        /\ client' = [client EXCEPT !.worker = w]
        /\ UNCHANGED <<fate, aborted, posted, grace>>
    BY Facts DEF ThreadExits, Client, Worker, worker
  <1>2. <<>> \in Seq(Runs)
    OBVIOUS
  <1>3. /\ w \in Worker
        /\ w.id = worker.id
        /\ w.thread = "exited"
        /\ w.job = NoRun
        /\ w.inbox = <<>>
        /\ w.outbox = worker.outbox
    BY <1>2, Facts DEF Worker
  <1> HIDE DEF w
  <1>4. /\ client' \in Client
        /\ client'.active = active
        /\ client'.queue = queue
        /\ client'.worker = w
        /\ client'.ready = client.ready
        /\ client'.awaits = client.awaits
    BY <1>1, <1>3, Facts DEF Client, active, queue
  <1>5. SpawnsExist(client')
    <2>1. NoWorker.thread = "none"
      BY DEF NoWorker, Thread
    <2> QED BY <1>1, <1>3, <1>4, <2>1, Facts DEF Sound, SpawnsExist, worker
  <1>6. ThreadHasActive(client', posted)
    <2>1. \A r \in Runs : ~(w.job = r \/ Holds(w.inbox, r))
      BY <1>3, RunsAssumption DEF Holds
    <2> QED BY <1>3, <1>4, <2>1, Facts DEF Sound, ThreadHasActive, worker
  <1> QED BY <1>1, <1>4, <1>5, <1>6, ThreadLands

-----------------------------------------------------------------------------
(* The events of the main thread preserve the invariant. *)

\* Taking a message from the outbox.
LEMMA TakeFacts ==
    ASSUME IInv, worker.outbox # <<>>
    PROVE  LET c == [client EXCEPT !.worker.outbox = Tail(@)]
               m == Head(worker.outbox)
           IN  /\ Sound(c, posted)
               /\ c.active = active
               /\ c.queue = queue
               /\ c.awaits = client.awaits
               /\ c.ready = client.ready
               /\ Served(c) = Served(client)
               /\ m \in Message
               /\ m.type # "ready" => m.run \in posted
               /\ m.type # "ready" /\ m.run = active => FreeHanded(c)
  <1> DEFINE w == [worker EXCEPT !.outbox = Tail(worker.outbox)]
             c == [client EXCEPT !.worker = w]
             m == Head(worker.outbox)
  <1>1. /\ worker \in Worker /\ worker = client.worker /\ client \in Client
        /\ worker.outbox \in Seq(Message)
    BY Facts DEF Worker, worker
  <1>2. [client EXCEPT !.worker.outbox = Tail(@)] = c
    BY <1>1 DEF Client, Worker
  <1>3. /\ Tail(worker.outbox) \in Seq(Message)
        /\ m \in Message
        /\ m = worker.outbox[1]
        /\ 1 \in 1..Len(worker.outbox)
        /\ \A k \in 1..Len(Tail(worker.outbox)) :
             /\ k + 1 \in 1..Len(worker.outbox)
             /\ Tail(worker.outbox)[k] = worker.outbox[k + 1]
    BY <1>1
  <1>4. /\ w \in Worker
        /\ w.id = worker.id
        /\ w.thread = worker.thread
        /\ w.job = worker.job
        /\ w.inbox = worker.inbox
        /\ w.outbox = Tail(worker.outbox)
    BY <1>1, <1>3 DEF Worker
  <1> HIDE DEF w, m
  <1>5. /\ c \in Client
        /\ c.active = active
        /\ c.queue = queue
        /\ c.worker = w
        /\ c.ready = client.ready
        /\ c.awaits = client.awaits
    BY <1>1, <1>4 DEF Client, active, queue
  <1> HIDE DEF c
  <1>6. SpawnsExist(c)
    <2>1. NoWorker.outbox = <<>>
      BY DEF NoWorker, Thread
    <2> QED BY <1>1, <1>4, <1>5, <2>1, Facts DEF Sound, SpawnsExist
  <1>7. QueueIsDistinct(c) /\ PostedOnce(c, posted) /\ Served(c) = Served(client)
    BY <1>5, Facts DEF Sound, QueueIsDistinct, PostedOnce, Served, active, queue
  <1>8. ThreadHasActive(c, posted)
    <2>1. ASSUME NEW k \in 1..Len(w.outbox), w.outbox[k].type # "ready"
          PROVE  /\ w.outbox[k].run \in posted
                 /\ w.outbox[k].run = active => w.job = NoRun /\ w.inbox = <<>>
      <3>1. k + 1 \in 1..Len(worker.outbox) /\ w.outbox[k] = worker.outbox[k + 1]
        BY <1>3, <1>4, <2>1
      <3> QED BY <1>1, <1>4, <2>1, <3>1, Facts DEF Sound, ThreadHasActive, active
    <2> QED BY <1>1, <1>4, <1>5, <2>1, Facts DEF Sound, ThreadHasActive, active
  <1>9. /\ m.type # "ready" => m.run \in posted
        /\ m.type # "ready" /\ m.run = active => FreeHanded(c)
    BY <1>1, <1>3, <1>4, <1>5, Facts DEF Sound, ThreadHasActive, FreeHanded, active
  <1> QED BY <1>2, <1>3, <1>5, <1>6, <1>7, <1>8, <1>9 DEF Sound, m

LEMMA ReceiveIInv ==
    ASSUME IInv, Receive
    PROVE  IInv'
  <1> DEFINE c == [client EXCEPT !.worker.outbox = Tail(@)]
             m == Head(worker.outbox)
  <1>1. worker.outbox # <<>> /\ UNCHANGED <<aborted, posted>>
    BY DEF Receive
  <1>2. /\ Sound(c, posted)
        /\ c.active = active
        /\ c.queue = queue
        /\ c.awaits = client.awaits
        /\ c.ready = client.ready
        /\ Served(c) = Served(client)
        /\ m \in Message
        /\ m.type # "ready" => m.run \in posted
        /\ m.type # "ready" /\ m.run = active => FreeHanded(c)
    BY <1>1, TakeFacts
  <1>3. \/ /\ m.type = "ready"
           /\ client' = [c EXCEPT !.ready[c.worker.id] = "resolved"]
           /\ UNCHANGED <<fate, grace>>
        \/ /\ m.type # "ready" /\ active = m.run
           /\ client' \in Pumped(Idle(c))
           /\ Settle(m.run, Verdict(m))
        \/ /\ m.type # "ready" /\ active # m.run
           /\ client' = c
           /\ UNCHANGED <<fate, grace>>
    BY DEF Receive
  <1> HIDE DEF c, m
  <1>4. CASE m.type = "ready" /\ UNCHANGED <<fate, grace>>
             /\ client' = [c EXCEPT !.ready[c.worker.id] = "resolved"]
    <2> DEFINE rd == [c.ready EXCEPT ![c.worker.id] = "resolved"]
    <2>1. /\ c \in Client
          /\ c.worker \in Worker
          /\ c.worker.id \in 0..Len(c.ready)
          /\ c.ready \in Seq({"pending", "resolved", "rejected"})
      BY <1>2 DEF Sound, SpawnsExist, Client
    <2>2. /\ rd \in Seq({"pending", "resolved", "rejected"})
          /\ Len(rd) = Len(c.ready)
      <3>1. CASE c.worker.id \in 1..Len(c.ready)
        BY <2>1, <3>1
      <3>2. CASE c.worker.id = 0
        <4>1. rd = c.ready
          BY <2>1, <3>2
        <4> QED BY <2>1, <4>1
      <3> QED BY <2>1, <3>1, <3>2
    <2>3. client' = [c EXCEPT !.ready = rd]
      BY <1>4, <2>1 DEF Client
    <2> HIDE DEF rd
    <2>4. /\ client' \in Client
          /\ client'.active = c.active
          /\ client'.queue = c.queue
          /\ client'.worker = c.worker
          /\ client'.ready = rd
          /\ client'.awaits = c.awaits
      BY <2>1, <2>2, <2>3 DEF Client
    <2>5. SpawnsExist(client')
      BY <1>2, <2>2, <2>4 DEF Sound, SpawnsExist
    <2>6. ThreadHasActive(client', posted)
      BY <1>2, <2>4 DEF Sound, ThreadHasActive
    <2> QED BY <1>1, <1>2, <1>4, <2>4, <2>5, <2>6, ThreadLands
  <1>5. CASE m.type # "ready" /\ active = m.run
             /\ client' \in Pumped(Idle(c)) /\ Settle(m.run, Verdict(m))
    <2>1. m.run \in Runs /\ posted \in SUBSET Runs
      BY <1>2, <1>5, Facts
    <2>2. /\ Verdict(m) \in {"report", "cancelled", "failed"}
          /\ Verdict(m) = "report" => m.run \notin aborted
      <3>1. m.type \in {"done", "cancelled", "error"}
        BY <1>2, <1>5 DEF Message
      <3>2. CASE m.type = "done"
        BY <3>2 DEF Verdict
      <3>3. CASE m.type = "cancelled"
        BY <3>3 DEF Verdict
      <3>4. CASE m.type = "error"
        BY <3>4 DEF Verdict
      <3> QED BY <3>1, <3>2, <3>3, <3>4
    <2>3. /\ Sound(Idle(c), posted)
          /\ Served(Idle(c)) = Served(client) \ {m.run}
          /\ Idle(c).awaits = client.awaits
      BY <1>2, <1>5, <2>1, IdleFacts
    <2>4. /\ fate' \in [Runs -> Fates]
          /\ grace' \subseteq Runs
          /\ Open(fate') = Open(fate) \ {m.run}
          /\ \A q \in Runs : fate'[q] = "new" <=> fate[q] = "new"
          /\ CancelledGetsNoReport'
      BY <1>1, <1>5, <2>1, <2>2, Facts, SettleFacts
    <2> QED BY <1>1, <1>5, <2>3, <2>4, Facts, PumpLands
  <1>6. CASE client' = c /\ UNCHANGED <<fate, grace>>
    BY <1>1, <1>2, <1>6, ThreadLands DEF Sound
  <1> QED BY <1>3, <1>4, <1>5, <1>6

LEMMA WorkerFailureIInv ==
    ASSUME IInv, WorkerFailure
    PROVE  IInv'
  <1> DEFINE e == Drop(client)
             c == Idle(e)
  <1>1. UNCHANGED <<aborted, posted>>
    BY DEF WorkerFailure
  <1>2. /\ Sound(e, posted)
        /\ Served(e) = Served(client)
        /\ e.active = active
        /\ e.queue = queue
        /\ e.awaits = client.awaits
        /\ FreeHanded(e)
    BY Facts, DropFacts DEF active, queue
  <1>3. CASE Spawning(client)
    <2>1. client' = e /\ UNCHANGED <<fate, grace>>
      BY <1>3 DEF WorkerFailure
    <2> HIDE DEF e
    <2> QED BY <1>1, <1>2, <2>1, ThreadLands DEF Sound
  <1>4. CASE ~Spawning(client)
    <2>1. /\ client' \in Pumped(c)
          /\ \/ active = NoRun /\ UNCHANGED <<fate, grace>>
             \/ active # NoRun /\ Settle(active, "failed")
      BY <1>4 DEF WorkerFailure
    <2> HIDE DEF e
    <2>2. /\ Sound(c, posted)
          /\ Served(c) = Served(client) \ {active}
          /\ c.awaits = client.awaits
      BY <1>2, Facts, IdleFacts
    <2> HIDE DEF c
    <2>3. CASE active = NoRun /\ UNCHANGED <<fate, grace>>
      <3>1. Served(c) = Served(client)
        BY <2>2, <2>3, RunsAssumption DEF Served
      <3> QED BY <1>1, <2>1, <2>2, <2>3, <3>1, Facts, PumpLands
              DEF Open, CancelledGetsNoReport
    <2>4. CASE active # NoRun /\ Settle(active, "failed")
      <3>1. active \in Runs
        BY <2>4, Facts DEF Client, active
      <3>2. /\ fate' \in [Runs -> Fates]
            /\ grace' \subseteq Runs
            /\ Open(fate') = Open(fate) \ {active}
            /\ \A q \in Runs : fate'[q] = "new" <=> fate[q] = "new"
            /\ CancelledGetsNoReport'
        BY <1>1, <2>4, <3>1, Facts, SettleFacts
      <3> QED BY <1>1, <2>1, <2>2, <3>2, Facts, PumpLands
    <2> QED BY <2>1, <2>3, <2>4
  <1> QED BY <1>3, <1>4

LEMMA HardCancelIInv ==
    ASSUME IInv, NEW r \in Runs, HardCancel(r)
    PROVE  IInv'
  <1>1. UNCHANGED <<aborted, posted>>
    BY DEF HardCancel
  <1>2. CASE fate[r] = "open" /\ active = r
    <2> DEFINE e == Drop(client)
               c == Idle(e)
    <2>1. client' \in Pumped(c) /\ Settle(r, "cancelled")
      BY <1>2 DEF HardCancel
    <2>2. /\ Sound(e, posted)
          /\ Served(e) = Served(client)
          /\ e.active = r
          /\ e.awaits = client.awaits
          /\ FreeHanded(e)
      BY <1>2, Facts, DropFacts DEF active
    <2> HIDE DEF e
    <2>3. /\ Sound(c, posted)
          /\ Served(c) = Served(client) \ {r}
          /\ c.awaits = client.awaits
      BY <2>2, Facts, IdleFacts
    <2>4. /\ fate' \in [Runs -> Fates]
          /\ grace' \subseteq Runs
          /\ Open(fate') = Open(fate) \ {r}
          /\ \A q \in Runs : fate'[q] = "new" <=> fate[q] = "new"
          /\ CancelledGetsNoReport'
      BY <1>1, <2>1, Facts, SettleFacts
    <2> HIDE DEF c
    <2> QED BY <1>1, <2>1, <2>3, <2>4, Facts, PumpLands
  <1>3. CASE ~(fate[r] = "open" /\ active = r)
    <2>1. grace' = grace \ {r} /\ UNCHANGED <<client, fate>>
      BY <1>3 DEF HardCancel
    <2> QED BY <1>1, <2>1, Facts
            DEF IInv, PromisesOK, NeverStalls, CancelledGetsNoReport, active, queue
  <1> QED BY <1>2, <1>3

-----------------------------------------------------------------------------
(* The theorems. *)

LEMMA NextIInv == IInv /\ [Next]_vars => IInv'
  <1> SUFFICES ASSUME IInv, [Next]_vars PROVE IInv'
    OBVIOUS
  <1>1. ASSUME NEW r \in Runs, Request(r) PROVE IInv'
    BY <1>1, RequestIInv
  <1>2. ASSUME NEW r \in Runs, Abort(r) PROVE IInv'
    BY <1>2, AbortIInv
  <1>3. ASSUME NEW r \in Runs, Continue(r) PROVE IInv'
    BY <1>3, GiveUpIInv, OvertakenIInv, PostIInv, PostFailsIInv DEF Continue
  <1>4. ASSUME NEW r \in Runs, HardCancel(r) PROVE IInv'
    BY <1>4, HardCancelIInv
  <1>5. CASE Dispose
    BY <1>5, DisposeIInv
  <1>6. CASE ThreadReady \/ ThreadTakesRun \/ EngineEnds \/ ThreadExits
    BY <1>6, ThreadReadyIInv, ThreadTakesRunIInv, EngineEndsIInv, ThreadExitsIInv
  <1>7. CASE Receive
    BY <1>7, ReceiveIInv
  <1>8. CASE WorkerGone \/ SpawnTimeout
    BY <1>8, WorkerFailureIInv DEF WorkerGone, SpawnTimeout
  <1>9. CASE UNCHANGED vars
    BY <1>9 DEF vars, IInv, PromisesOK, NeverStalls, CancelledGetsNoReport, active, queue
  <1> QED BY <1>1, <1>2, <1>3, <1>4, <1>5, <1>6, <1>7, <1>8, <1>9 DEF Next

\* The inductive invariant of the DRC worker client.
THEOREM WorkerInvariant == Spec => []IInv
  BY InitIInv, NextIInv, PTL DEF Spec

\* Every variable keeps its type.
THEOREM WorkerTypeOK == Spec => []TypeOK
  <1>1. IInv => TypeOK
    BY DEF IInv, Sound, PromisesOK, TypeOK
  <1> QED BY <1>1, WorkerInvariant, PTL

\* While runs are queued one is active, so pump() is never waited for in vain.
THEOREM QueueNeverStalls == Spec => []NeverStalls
  <1>1. IInv => NeverStalls
    BY DEF IInv
  <1> QED BY <1>1, WorkerInvariant, PTL

\* An unsettled promise belongs to the active run or to a queued one.
THEOREM EveryRunIsServed == Spec => []NoRunIsLost
  <1>1. IInv => NoRunIsLost
    BY DEF IInv, PromisesOK, Open, Served, NoRunIsLost, active, queue
  <1> QED BY <1>1, WorkerInvariant, PTL

\* The thread holds the active run, once, or nothing: no run outlives its turn.
THEOREM ThreadServesActiveRun == Spec => []WorkerServesActiveRun
  <1>1. IInv => WorkerServesActiveRun
    BY DEF IInv, Sound, ThreadHasActive, WorkerServesActiveRun, active, worker
  <1> QED BY <1>1, WorkerInvariant, PTL

\* A caller that cancelled in time never gets a report.
THEOREM NoReportAfterCancel == Spec => []CancelledGetsNoReport
  <1>1. IInv => CancelledGetsNoReport
    BY DEF IInv, PromisesOK
  <1> QED BY <1>1, WorkerInvariant, PTL

-----------------------------------------------------------------------------
(* The client implements its contract. *)

PromiseStep == [Promise!Next]_<<fate, aborted>>

\* Settling a run, aborted or not, is a step of the contract or none at all.
LEMMA SettleKeepsPromise ==
    ASSUME IInv, NEW r \in Runs, NEW outcome \in {"report", "cancelled", "failed"},
           outcome = "report" => r \notin aborted,
           Settle(r, outcome), UNCHANGED aborted
    PROVE  PromiseStep
  <1>1. fate \in [Runs -> Fates]
    BY Facts
  <1>2. CASE fate[r] # "open"
    <2>1. fate' = fate
      BY <1>1, <1>2 DEF Settle, Settled
    <2> QED BY <2>1 DEF PromiseStep
  <1>3. CASE fate[r] = "open"
    <2>1. fate' = [fate EXCEPT ![r] = outcome]
      BY <1>1, <1>3 DEF Settle, Settled
    <2>2. CASE outcome \in {"report", "failed"}
      BY <1>3, <2>1, <2>2
         DEF PromiseStep, Promise!Next, Promise!Report, Promise!Fail, Promise!Ends
    <2>3. CASE outcome = "cancelled"
      <3>1. fate' = Promise!Cancelled(Promise!Open({r}))
        BY <1>1, <1>3, <2>1, <2>3 DEF Promise!Cancelled, Promise!Open
      <3>2. Promise!Cancel({r}) /\ {r} \in SUBSET Runs
        BY <3>1 DEF Promise!Cancel
      <3> QED BY <3>2 DEF PromiseStep, Promise!Next
    <2> QED BY <2>2, <2>3
  <1> QED BY <1>2, <1>3

LEMMA RequestKeepsPromise ==
    ASSUME IInv, NEW r \in Runs, Request(r)
    PROVE  PromiseStep
  <1>1. Promise!Call(r)
    BY DEF Request, Promise!Call
  <1> QED BY <1>1 DEF PromiseStep, Promise!Next

LEMMA AbortKeepsPromise ==
    ASSUME IInv, NEW r \in Runs, Abort(r)
    PROVE  PromiseStep
  <1>1. fate \in [Runs -> Fates]
    BY Facts
  <1>2. /\ \A q \in {r} : fate[q] \in {"new", "open"}
        /\ aborted' = aborted \cup {r}
        /\ {r} \in SUBSET Runs
    BY DEF Abort
  <1>3. CASE UNCHANGED fate
    <2>1. {} \in SUBSET {r} /\ fate' = Promise!Cancelled(Promise!Open({}))
      BY <1>1, <1>3 DEF Promise!Cancelled, Promise!Open
    <2>2. Promise!Abort({r})
      BY <1>2, <2>1 DEF Promise!Abort
    <2> QED BY <1>2, <2>2 DEF PromiseStep, Promise!Next
  <1>4. CASE Settle(r, "cancelled")
    <2>1. fate' = Promise!Cancelled(Promise!Open({r}))
      BY <1>1, <1>4 DEF Settle, Settled, Promise!Cancelled, Promise!Open
    <2>2. Promise!Abort({r})
      BY <1>2, <2>1 DEF Promise!Abort
    <2> QED BY <1>2, <2>2 DEF PromiseStep, Promise!Next
  <1> QED BY <1>3, <1>4 DEF Abort, AskToStop

LEMMA DisposeKeepsPromise ==
    ASSUME IInv, Dispose
    PROVE  PromiseStep
  <1> DEFINE S == {r \in Runs : r = active \/ Holds(queue, r)}
  <1>1. fate \in [Runs -> Fates]
    BY Facts
  <1>2. fate' = Promise!Cancelled(Promise!Open(S)) /\ UNCHANGED aborted
    BY <1>1 DEF Dispose, Settled, Promise!Cancelled, Promise!Open
  <1>3. S \in SUBSET Runs
    OBVIOUS
  <1>4. Promise!Cancel(S)
    BY <1>2 DEF Promise!Cancel
  <1> QED BY <1>3, <1>4 DEF PromiseStep, Promise!Next

LEMMA ContinueKeepsPromise ==
    ASSUME IInv, NEW r \in Runs, Continue(r)
    PROVE  PromiseStep
  <1>1. CASE GiveUp(r) \/ PostFails(r)
    <2>1. Settle(r, "failed") /\ UNCHANGED aborted
      BY <1>1 DEF GiveUp, PostFails
    <2> QED BY <2>1, SettleKeepsPromise
  <1>2. CASE Overtaken(r) \/ Post(r)
    BY <1>2 DEF Overtaken, Post, PromiseStep
  <1> QED BY <1>1, <1>2 DEF Continue

LEMMA ReceiveKeepsPromise ==
    ASSUME IInv, Receive
    PROVE  PromiseStep
  <1> DEFINE m == Head(worker.outbox)
  <1>1. CASE UNCHANGED <<fate, aborted>>
    BY <1>1 DEF PromiseStep
  <1>2. CASE m.type # "ready" /\ active = m.run /\ Settle(m.run, Verdict(m))
    <2>1. /\ m.run \in Runs
          /\ m.type \in {"done", "cancelled", "error"}
          /\ UNCHANGED aborted
      <3>1. worker.outbox # <<>> /\ UNCHANGED aborted
        BY DEF Receive
      <3>2. m \in Message /\ m.run \in posted
        BY <1>2, <3>1, TakeFacts
      <3>3. m.type \in {"ready", "done", "cancelled", "error"}
        BY <3>2 DEF Message
      <3> QED BY <1>2, <3>1, <3>2, <3>3, Facts
    <2>2. /\ Verdict(m) \in {"report", "cancelled", "failed"}
          /\ Verdict(m) = "report" => m.run \notin aborted
      BY <2>1 DEF Verdict
    <2> HIDE DEF m
    <2> QED BY <1>2, <2>1, <2>2, SettleKeepsPromise
  <1> QED BY <1>1, <1>2 DEF Receive

LEMMA WorkerFailureKeepsPromise ==
    ASSUME IInv, WorkerFailure
    PROVE  PromiseStep
  <1>1. CASE UNCHANGED <<fate, aborted>>
    BY <1>1 DEF PromiseStep
  <1>2. CASE active # NoRun /\ Settle(active, "failed")
    <2>1. active \in Runs /\ UNCHANGED aborted
      BY <1>2, Facts DEF Client, active, WorkerFailure
    <2> QED BY <1>2, <2>1, SettleKeepsPromise
  <1> QED BY <1>1, <1>2 DEF WorkerFailure

LEMMA HardCancelKeepsPromise ==
    ASSUME IInv, NEW r \in Runs, HardCancel(r)
    PROVE  PromiseStep
  <1>1. CASE Settle(r, "cancelled")
    BY <1>1, SettleKeepsPromise DEF HardCancel
  <1> QED BY <1>1 DEF HardCancel, PromiseStep

LEMMA ThreadKeepsPromise ==
    ASSUME ThreadReady \/ ThreadTakesRun \/ EngineEnds \/ ThreadExits
    PROVE  PromiseStep
  BY DEF ThreadReady, ThreadTakesRun, EngineEnds, ThreadExits, ThreadSays, PromiseStep

\* The client keeps the safety part of the contract that DrcRunService relies
\* on: a call settles once, and a call aborted in time never yields a report.
THEOREM KeepsPromise == Spec => PromiseSafety
  <1>1. Init => Promise!Init
    BY DEF Init, Promise!Init
  <1>2. IInv /\ [Next]_vars => PromiseStep
    <2> SUFFICES ASSUME IInv, [Next]_vars PROVE PromiseStep
      OBVIOUS
    <2>1. CASE \E r \in Runs : Request(r) \/ Abort(r) \/ Continue(r) \/ HardCancel(r)
      BY <2>1, RequestKeepsPromise, AbortKeepsPromise, ContinueKeepsPromise,
         HardCancelKeepsPromise
    <2>2. CASE Dispose \/ Receive \/ WorkerGone \/ SpawnTimeout
      BY <2>2, DisposeKeepsPromise, ReceiveKeepsPromise, WorkerFailureKeepsPromise
         DEF WorkerGone, SpawnTimeout
    <2>3. CASE ThreadReady \/ ThreadTakesRun \/ EngineEnds \/ ThreadExits
      BY <2>3, ThreadKeepsPromise
    <2>4. CASE UNCHANGED vars
      BY <2>4 DEF vars, PromiseStep
    <2> QED BY <2>1, <2>2, <2>3, <2>4 DEF Next
  <1> QED BY <1>1, <1>2, WorkerInvariant, PTL
          DEF Spec, PromiseSafety, Promise!SafetySpec, PromiseStep, Promise!pvars

===============================================================================
