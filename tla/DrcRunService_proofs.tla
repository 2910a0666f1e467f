-------------------------- MODULE DrcRunService_proofs --------------------------
(***************************************************************************)
(* Proofs about DrcRunService, for any callers, designs and revisions: who *)
(* waits for a run has its place, no report is older than the call, and    *)
(* what callers were told is stored and never replaced by something older. *)
(*                                                                         *)
(* The order of the reads carries the order of the runs (Ordered): reads   *)
(* of a design resume as they were issued, its head only grows until it is *)
(* deleted, so the run that replaces another is of a later revision and    *)
(* the run that may store a report is of the latest revision stored.       *)
(***************************************************************************)
EXTENDS DrcRunService, TLAPS

Live2 == {"queued", "running"}
Distinct(q) == \A j, k \in 1..Len(q) : q[j] = q[k] => j = k

-----------------------------------------------------------------------------
(* The inductive invariant. *)

\* A run is queued, or executes, or has left execute(); one at a time.
Places(s) ==
    /\ Distinct(s.queue)
    /\ \A r \in Callers : Holds(s.queue, r) <=> s.status[r] = "queued"
    /\ \A r \in Callers : s.status[r] = "running" => s.executing = r
    /\ \A r \in Callers : s.at[r] # "none" =>
          s.status[r] \notin {"none", "queued"} /\ (s.executing = r \/ s.disposed)
    /\ \A r \in Callers : s.executing = r => s.at[r] # "none"
    /\ \A r \in s.runs : s.status[r] # "none"
    /\ \A r \in Callers : s.status[r] \in Live2 => r \in s.runs
    /\ s.disposed => s.executing = NoRun /\ \A r \in Callers : s.status[r] \notin Live2

Busy(s) == s.queue # <<>> => s.executing # NoRun

\* activeByDesign names the run of a design that is not terminal.
IndexNamesLive(s) ==
    \A d \in Designs : s.activeByDesign[d] # NoRun =>
        /\ DesignOf(s.activeByDesign[d]) = d
        /\ s.status[s.activeByDesign[d]] \in Live2
LiveIsIndexed(s) ==
    \A r \in Callers : s.status[r] \in Live2 => s.activeByDesign[DesignOf(r)] = r

\* Only a terminal run settles; without a successor it has settled.
Verdicts(s) ==
    \A r \in Callers :
        /\ s.status[r] \notin Terminal => s.settled[r] = Pending /\ s.follows[r] = NoRun
        /\ s.status[r] \in {"completed", "failed"} => s.settled[r] # Pending
        /\ s.status[r] = "cancelled" /\ s.follows[r] = NoRun => s.settled[r] # Pending

Sound(s) == s \in Service /\ Places(s) /\ Verdicts(s)
Whole(s) == Sound(s) /\ Busy(s) /\ IndexNamesLive(s) /\ LiveIsIndexed(s)

Working == \A r \in Callers : job[r] = "open" => svc.at[r] = "worker"

\* Who reads is in the list of reads; a run was created by who waits for it.
Attended ==
    /\ Distinct(reads)
    /\ \A c \in Callers : Holds(reads, c) <=> caller[c].at = "reading"
    /\ \A c \in Callers : svc.status[c] # "none" => caller[c].at = "waiting"
    /\ \A c \in Callers :
          IF caller[c].at = "waiting"
          THEN /\ caller[c].run # NoRun /\ svc.status[caller[c].run] # "none"
               /\ DesignOf(caller[c].run) = DesignOf(c)
               /\ RevisionOf(caller[c].run) >= RevisionOf(c)
          ELSE caller[c].run = NoRun

\* Reads of a design return revisions in order, after those of its runs.
Ordered ==
    /\ \A c \in Callers : caller[c].at \in {"reading", "waiting"} =>
          head[DesignOf(c)] = 0 \/ RevisionOf(c) <= head[DesignOf(c)]
    /\ \A j, k \in 1..Len(reads) :
          j < k /\ DesignOf(reads[j]) = DesignOf(reads[k]) =>
              RevisionOf(reads[k]) = 0 \/ RevisionOf(reads[j]) <= RevisionOf(reads[k])
    /\ \A c, r \in Callers :
          caller[c].at = "reading" /\ svc.status[r] # "none" /\ DesignOf(r) = DesignOf(c) =>
              RevisionOf(c) = 0 \/ RevisionOf(r) <= RevisionOf(c)

\* A successor is of a later revision, and so is what its report describes.
Chains ==
    \A r \in Callers :
        /\ svc.follows[r] # NoRun =>
              /\ svc.status[svc.follows[r]] # "none"
              /\ DesignOf(svc.follows[r]) = DesignOf(r)
              /\ RevisionOf(svc.follows[r]) > RevisionOf(r)
        /\ svc.settled[r].is = "report" => svc.settled[r].revision >= RevisionOf(r)

\* What is stored is not ahead of any run or read to come.
Rows ==
    /\ \A r \in Callers : svc.settled[r].is = "report" =>
          head[DesignOf(r)] = 0 \/ row[DesignOf(r)] >= svc.settled[r].revision
    /\ NoOrphanRow
    /\ \A r \in Callers : svc.status[r] \in Live2 => row[DesignOf(r)] <= RevisionOf(r)
    /\ \A c \in Callers : caller[c].at = "reading" =>
          RevisionOf(c) = 0 \/ row[DesignOf(c)] <= RevisionOf(c)

IInv ==
    /\ TypeOK /\ Whole(svc)
    /\ Working /\ Attended /\ Ordered /\ Chains /\ Rows

-----------------------------------------------------------------------------
(* Facts about sequences of runs. *)

\* Tail and Append as membership sees them.
LEMMA HoldsFacts ==
    ASSUME NEW q \in Seq(Callers)
    PROVE  /\ q # <<>> => /\ Tail(q) \in Seq(Callers)
                          /\ Head(q) \in Callers
                          /\ Holds(q, Head(q))
                          /\ Len(Tail(q)) = Len(q) - 1
                          /\ \A k \in 1..Len(Tail(q)) : Tail(q)[k] = q[k + 1]
                          /\ \A r : Holds(q, r) <=> r = Head(q) \/ Holds(Tail(q), r)
           /\ \A x \in Callers : \A r : Holds(Append(q, x), r) <=> r = x \/ Holds(q, r)
           /\ \A r : Holds(q, r) => r \in Callers
  <1>1. ASSUME q # <<>>
        PROVE  /\ Tail(q) \in Seq(Callers)
               /\ Head(q) \in Callers
               /\ Head(q) = q[1]
               /\ Len(q) \in Nat \ {0}
               /\ Len(Tail(q)) = Len(q) - 1
               /\ \A k \in 1..Len(Tail(q)) : Tail(q)[k] = q[k + 1]
    BY <1>1
  <1>2. ASSUME q # <<>>, NEW r
        PROVE  Holds(q, r) <=> r = Head(q) \/ Holds(Tail(q), r)
    <2>1. ASSUME NEW k \in 1..Len(q), q[k] = r
          PROVE  r = Head(q) \/ Holds(Tail(q), r)
      <3>1. CASE k = 1
        BY <1>1, <1>2, <2>1, <3>1
      <3>2. CASE k # 1
        <4>1. k - 1 \in 1..Len(Tail(q)) /\ Tail(q)[k - 1] = q[(k - 1) + 1]
          BY <1>1, <1>2, <3>2
        <4>2. (k - 1) + 1 = k
          OBVIOUS
        <4> QED BY <2>1, <4>1, <4>2 DEF Holds
      <3> QED BY <3>1, <3>2
    <2>2. ASSUME r = Head(q) PROVE Holds(q, r)
      BY <1>1, <1>2, <2>2 DEF Holds
    <2>3. ASSUME NEW k \in 1..Len(Tail(q)), Tail(q)[k] = r PROVE Holds(q, r)
      <3>1. k + 1 \in 1..Len(q) /\ q[k + 1] = r
        BY <1>1, <1>2, <2>3
      <3> QED BY <3>1 DEF Holds
    <2> QED BY <2>1, <2>2, <2>3 DEF Holds
  <1>3. ASSUME NEW x \in Callers, NEW r
        PROVE  Holds(Append(q, x), r) <=> r = x \/ Holds(q, r)
    <2>1. /\ Len(Append(q, x)) = Len(q) + 1
          /\ Append(q, x)[Len(q) + 1] = x
          /\ \A k \in 1..Len(q) : Append(q, x)[k] = q[k]
          /\ Len(q) \in Nat
      OBVIOUS
    <2> QED BY <2>1 DEF Holds
  <1>4. \A r : Holds(q, r) => r \in Callers
    BY DEF Holds
  <1>5. q # <<>> => Holds(q, Head(q))
    BY <1>1 DEF Holds
  <1> QED BY <1>1, <1>2, <1>3, <1>4, <1>5

\* Removing a run from a queue without repetitions.
LEMMA WithoutFacts ==
    ASSUME NEW q \in Seq(Callers), NEW r \in Callers,
           \A j, k \in 1..Len(q) : q[j] = q[k] => j = k
    PROVE  /\ Without(q, r) \in Seq(Callers)
           /\ \A x : Holds(Without(q, r), x) <=> Holds(q, x) /\ x # r
           /\ \A j, k \in 1..Len(Without(q, r)) :
                Without(q, r)[j] = Without(q, r)[k] => j = k
  <1>1. CASE ~Holds(q, r)
    BY <1>1 DEF Without, Holds
  <1>2. CASE Holds(q, r)
    <2>1. PICK n \in 1..Len(q) : q[n] = r /\ Without(q, r) = RemoveAt(q, n)
      BY <1>2 DEF Without, Holds
    <2> DEFINE a == SubSeq(q, 1, n - 1)
               b == SubSeq(q, n + 1, Len(q))
               w == a \o b
    <2>2. a \in Seq(Callers) /\ Len(a) = n - 1 /\ \A i \in 1..(n - 1) : a[i] = q[i]
      OBVIOUS
    <2>3. /\ b \in Seq(Callers) /\ Len(b) = Len(q) - n
          /\ \A i \in 1..(Len(q) - n) : b[i] = q[i + n]
      OBVIOUS
    <2>4. Without(q, r) = w
      BY <2>1 DEF RemoveAt
    <2>5. Len(q) \in Nat
      OBVIOUS
    <2> HIDE DEF a, b
    <2>6. /\ w \in Seq(Callers)
          /\ Len(w) = Len(q) - 1
      BY <2>2, <2>3, <2>5
    <2>7. \A i \in 1..(n - 1) : w[i] = q[i]
      BY <2>2, <2>3, <2>5
    <2>8. \A i \in n..(Len(q) - 1) : w[i] = q[i + 1]
      <3> SUFFICES ASSUME NEW i \in n..(Len(q) - 1) PROVE w[i] = q[i + 1]
        OBVIOUS
      <3>1. i - (n - 1) \in 1..(Len(q) - n) /\ (i - (n - 1)) + n = i + 1
        BY <2>5
      <3>2. w[i] = b[i - (n - 1)]
        BY <2>2, <2>3, <2>5, <3>1
      <3> QED BY <2>3, <3>1, <3>2
    <2> HIDE DEF w
    <2>9. \A x : Holds(w, x) <=> Holds(q, x) /\ x # r
      <3>1. ASSUME NEW x, NEW k \in 1..Len(w), w[k] = x
            PROVE  Holds(q, x) /\ x # r
        <4>1. CASE k < n
          BY <2>1, <2>5, <2>6, <2>7, <3>1, <4>1 DEF Holds
        <4>2. CASE k >= n
          <5>1. k + 1 \in 1..Len(q) /\ q[k + 1] = x /\ k + 1 # n
            BY <2>5, <2>6, <2>8, <3>1, <4>2
          <5> QED BY <2>1, <5>1 DEF Holds
        <4> QED BY <4>1, <4>2, <2>6
      <3>2. ASSUME NEW x, x # r, NEW k \in 1..Len(q), q[k] = x
            PROVE  Holds(w, x)
        <4>1. CASE k < n
          BY <2>5, <2>6, <2>7, <3>2, <4>1 DEF Holds
        <4>2. CASE k > n
          <5>1. k - 1 \in 1..Len(w) /\ w[k - 1] = q[(k - 1) + 1] /\ (k - 1) + 1 = k
            BY <2>5, <2>6, <2>8, <4>2
          <5> QED BY <3>2, <5>1 DEF Holds
        <4> QED BY <2>1, <3>2, <4>1, <4>2
      <3> QED BY <3>1, <3>2 DEF Holds
    <2>10. \A k \in 1..Len(w) : \E m \in 1..Len(q) :
             w[k] = q[m] /\ (k < n => m = k) /\ (k >= n => m = k + 1)
      BY <2>5, <2>6, <2>7, <2>8
    <2>11. ASSUME NEW j \in 1..Len(w), NEW k \in 1..Len(w), w[j] = w[k]
           PROVE  j = k
      <3>1. PICK m \in 1..Len(q) :
              w[j] = q[m] /\ (j < n => m = j) /\ (j >= n => m = j + 1)
        BY <2>10
      <3>2. PICK o \in 1..Len(q) :
              w[k] = q[o] /\ (k < n => o = k) /\ (k >= n => o = k + 1)
        BY <2>10
      <3>3. m = o
        BY <2>11, <3>1, <3>2
      <3> QED BY <3>1, <3>2, <3>3, <2>6
    <2> QED BY <2>4, <2>6, <2>9, <2>11
  <1> QED BY <1>1, <1>2

-----------------------------------------------------------------------------
(* The functions on the service's state, field by field. *)

\* What SMT need not find out again: values that differ.
LEMMA Values ==
    /\ Pending \in Settled /\ Rejected \in Settled /\ Pending # Rejected
    /\ \A v \in Revision : /\ Reported(v) \in Settled /\ Reported(v) # Pending
                           /\ Reported(v).is = "report" /\ Reported(v).revision = v
    /\ Pending.is # "report" /\ Rejected.is # "report"
    /\ NoRun \notin Callers
<1>1. Pending.is = "pending" /\ Rejected.is = "rejected"
  BY DEF Pending, Rejected
<1>2. ASSUME NEW v \in Revision
      PROVE  Reported(v) \in Settled /\ Reported(v).is = "report" /\ Reported(v).revision = v
  BY DEF Reported, Settled
<1>3. Pending \in Settled /\ Rejected \in Settled
  BY DEF Pending, Rejected, Settled
<1> QED BY <1>1, <1>2, <1>3, CallersAssumption

LEMMA Fields ==
    ASSUME NEW s \in Service
    PROVE  /\ s.status \in [Callers -> Statuses]
           /\ s.at \in [Callers -> {"none", "library", "worker"}]
           /\ s.settled \in [Callers -> Settled]
           /\ s.follows \in [Callers -> RunId]
           /\ s.runs \subseteq Callers
           /\ s.activeByDesign \in [Designs -> RunId]
           /\ s.queue \in Seq(Callers)
           /\ s.executing \in RunId
           /\ s.disposed \in BOOLEAN
  BY DEF Service

\* finish() on a run that is not terminal.
LEMMA FinishFields ==
    ASSUME NEW s \in Service, Distinct(s.queue), NEW r \in Callers,
           s.status[r] \notin Terminal,
           NEW status \in Terminal, NEW settled \in Settled, NEW successor \in RunId,
           DesignOf(r) \in Designs
    PROVE  LET t == Finish(s, r, status, settled, successor) IN
           /\ t \in Service
           /\ t.status = [s.status EXCEPT ![r] = status]
           /\ t.at = s.at
           /\ t.settled = [s.settled EXCEPT ![r] = settled]
           /\ t.follows = [s.follows EXCEPT ![r] = successor]
           /\ t.runs = s.runs
           /\ t.activeByDesign = [s.activeByDesign EXCEPT ![DesignOf(r)] =
                                     IF @ = r THEN NoRun ELSE @]
           /\ t.executing = s.executing
           /\ t.disposed = s.disposed
           /\ Distinct(t.queue)
           /\ \A x : Holds(t.queue, x) <=> Holds(s.queue, x) /\ x # r
<1> DEFINE d == DesignOf(r)
           w == Without(s.queue, r)
           t == [s EXCEPT !.status[r] = status,
                          !.activeByDesign[d] = IF @ = r THEN NoRun ELSE @,
                          !.queue = w,
                          !.settled[r] = settled,
                          !.follows[r] = successor]
<1>1. Finish(s, r, status, settled, successor) = t
  BY DEF Finish
<1>2. w \in Seq(Callers) /\ Distinct(w) /\ \A x : Holds(w, x) <=> Holds(s.queue, x) /\ x # r
  <2>1. s.queue \in Seq(Callers)
    BY Fields
  <2> QED BY <2>1, WithoutFacts DEF Distinct
<1> HIDE DEF w
<1>3. status \in Statuses
  BY DEF Terminal, Statuses
<1>4. /\ t.status = [s.status EXCEPT ![r] = status]
      /\ t.at = s.at
      /\ t.settled = [s.settled EXCEPT ![r] = settled]
      /\ t.follows = [s.follows EXCEPT ![r] = successor]
      /\ t.runs = s.runs
      /\ t.activeByDesign = [s.activeByDesign EXCEPT ![d] = IF @ = r THEN NoRun ELSE @]
      /\ t.queue = w
      /\ t.executing = s.executing
      /\ t.disposed = s.disposed
  BY DEF Service
<1>5. t \in Service
  <2>1. /\ [s.status EXCEPT ![r] = status] \in [Callers -> Statuses]
        /\ [s.settled EXCEPT ![r] = settled] \in [Callers -> Settled]
        /\ [s.follows EXCEPT ![r] = successor] \in [Callers -> RunId]
        /\ [s.activeByDesign EXCEPT ![d] = IF @ = r THEN NoRun ELSE @] \in [Designs -> RunId]
    BY <1>3, Fields DEF RunId
  <2> QED BY <1>2, <2>1 DEF Service
<1> QED BY <1>1, <1>2, <1>4, <1>5

LEMMA CreateFields ==
    ASSUME NEW s \in Service, Distinct(s.queue), NEW r \in Callers,
           ~Holds(s.queue, r), DesignOf(r) \in Designs
    PROVE  LET t == CreateRun(s, r) IN
           /\ t \in Service
           /\ t.status = [s.status EXCEPT ![r] = "queued"]
           /\ t.at = s.at /\ t.settled = s.settled /\ t.follows = s.follows
           /\ t.runs = s.runs \cup {r}
           /\ t.activeByDesign = [s.activeByDesign EXCEPT ![DesignOf(r)] = r]
           /\ t.executing = s.executing
           /\ t.disposed = s.disposed
           /\ Distinct(t.queue)
           /\ \A x : Holds(t.queue, x) <=> Holds(s.queue, x) \/ x = r
<1> DEFINE d == DesignOf(r)
           q == Append(s.queue, r)
           t == CreateRun(s, r)
<1>1. s.queue \in Seq(Callers)
  BY Fields
<1>2. q \in Seq(Callers) /\ \A x : Holds(q, x) <=> x = r \/ Holds(s.queue, x)
  BY <1>1, HoldsFacts
<1>3. Distinct(q)
  BY <1>1 DEF Distinct, Holds
<1> HIDE DEF q
<1>4. /\ t.status = [s.status EXCEPT ![r] = "queued"]
      /\ t.at = s.at /\ t.settled = s.settled /\ t.follows = s.follows
      /\ t.runs = s.runs \cup {r}
      /\ t.activeByDesign = [s.activeByDesign EXCEPT ![d] = r]
      /\ t.executing = s.executing
      /\ t.disposed = s.disposed
      /\ t.queue = q
  BY DEF Service, CreateRun, q
<1>5. t \in Service
  <2>1. /\ [s.status EXCEPT ![r] = "queued"] \in [Callers -> Statuses]
        /\ s.runs \cup {r} \in SUBSET Callers
        /\ [s.activeByDesign EXCEPT ![d] = r] \in [Designs -> RunId]
    BY Fields DEF RunId, Statuses
  <2>2. t = [s EXCEPT !.status = [s.status EXCEPT ![r] = "queued"], !.runs = s.runs \cup {r},
                      !.activeByDesign = [s.activeByDesign EXCEPT ![d] = r], !.queue = q]
    BY DEF CreateRun, q
  <2> QED BY <1>2, <2>1, <2>2 DEF Service
<1> QED BY <1>2, <1>3, <1>4, <1>5

-----------------------------------------------------------------------------
(* What the functions preserve. *)

\* The runs that anybody waits for are the same, under the same names.
Kept(s, t) ==
    /\ t.settled = s.settled /\ t.follows = s.follows /\ t.runs = s.runs
    /\ t.activeByDesign = s.activeByDesign /\ t.disposed = s.disposed
    /\ \A r \in Callers : t.status[r] = s.status[r]
                          \/ (s.status[r] \in Live2 /\ t.status[r] \in Live2)

LEMMA KeptIndex ==
    ASSUME NEW s \in Service, NEW t \in Service, Kept(s, t)
    PROVE  /\ IndexNamesLive(s) => IndexNamesLive(t)
           /\ LiveIsIndexed(s) => LiveIsIndexed(t)
           /\ \A r \in Callers : t.status[r] \in Live2 <=> s.status[r] \in Live2
           /\ \A r \in Callers : t.status[r] = "none" <=> s.status[r] = "none"
<1>1. \A r \in Callers : /\ t.status[r] \in Live2 <=> s.status[r] \in Live2
                         /\ t.status[r] = "none" <=> s.status[r] = "none"
  BY DEF Kept, Live2
<1>2. \A d \in Designs : s.activeByDesign[d] \in Callers \cup {NoRun}
  BY Fields DEF RunId
<1> QED BY <1>1, <1>2 DEF Kept, IndexNamesLive, LiveIsIndexed

\* pump(): all that is queued is live, so the first of the queue starts.
LEMMA PumpFacts ==
    ASSUME NEW s, Sound(s)
    PROVE  /\ Sound(Pump(s)) /\ Busy(Pump(s)) /\ Kept(s, Pump(s))
           /\ \A r \in Callers : Pump(s).at[r] = "worker" <=> s.at[r] = "worker"
<1> DEFINE t == Pump(s)
           live == {k \in 1..Len(s.queue) : Live(s, s.queue[k])}
           h == Head(s.queue)
<1>1. /\ s \in Service /\ Places(s) /\ Verdicts(s)
      /\ s.queue \in Seq(Callers) /\ s.executing \in Callers \cup {NoRun}
      /\ s.status \in [Callers -> Statuses]
      /\ s.at \in [Callers -> {"none", "library", "worker"}]
  BY Fields DEF Sound, RunId
<1>2. live = 1..Len(s.queue)
  <2>1. ASSUME NEW k \in 1..Len(s.queue) PROVE Live(s, s.queue[k])
    <3>1. s.queue[k] \in Callers /\ Holds(s.queue, s.queue[k])
      BY <1>1 DEF Holds
    <3> QED BY <1>1, <3>1 DEF Places, Live, Live2
  <2> QED BY <2>1
<1>3. CASE s.disposed \/ s.executing # NoRun
  <2>1. Pump(s) = s
    BY <1>3 DEF Pump
  <2>2. Busy(s)
    <3>1. ASSUME s.disposed PROVE s.queue = <<>>
      <4> SUFFICES ASSUME s.queue # <<>> PROVE FALSE
        OBVIOUS
      <4>1. Holds(s.queue, Head(s.queue)) /\ Head(s.queue) \in Callers
        BY <1>1, HoldsFacts
      <4> QED BY <1>1, <3>1, <4>1 DEF Places, Live2
    <3> QED BY <1>3, <3>1 DEF Busy
  <2>3. Kept(s, s)
    BY DEF Kept
  <2> QED BY <2>1, <2>2, <2>3
<1>4. CASE ~s.disposed /\ s.executing = NoRun /\ s.queue = <<>>
  <2>1. live = {}
    BY <1>2, <1>4
  <2>2. t = [s EXCEPT !.queue = <<>>]
    BY <1>4, <2>1 DEF Pump
  <2>3. Pump(s) = s
    BY <1>1, <1>4, <2>2 DEF Service
  <2>4. Kept(s, s) /\ Busy(s)
    BY <1>4 DEF Kept, Busy
  <2> QED BY <2>3, <2>4
<1>5. CASE ~s.disposed /\ s.executing = NoRun /\ s.queue # <<>>
  <2> DEFINE rest == Tail(s.queue)
  <2>1. Len(s.queue) \in Nat \ {0} /\ 1 \in live /\ \A j \in live : 1 <= j
    BY <1>1, <1>2, <1>5
  <2>2. (CHOOSE k \in live : \A j \in live : k <= j) = 1
    <3>1. \A k \in live : k \in Nat /\ ((\A j \in live : k <= j) => k = 1)
      BY <1>2, <2>1
    <3> QED BY <2>1, <3>1
  <2>3. s.queue[1] = h /\ SubSeq(s.queue, 2, Len(s.queue)) = rest
    BY <1>1, <1>5
  <2>4. t = [s EXCEPT !.queue = rest, !.status[h] = "running", !.executing = h,
                      !.at[h] = "library"]
    <3> HIDE DEF live
    <3>1. live # {} /\ 1 + 1 = 2
      BY <2>1
    <3> QED BY <1>5, <2>2, <2>3, <3>1 DEF Pump, live
  <2>5. /\ rest \in Seq(Callers) /\ h \in Callers /\ Holds(s.queue, h)
        /\ Len(rest) = Len(s.queue) - 1
        /\ \A k \in 1..Len(rest) : rest[k] = s.queue[k + 1]
        /\ \A r : Holds(s.queue, r) <=> r = h \/ Holds(rest, r)
    BY <1>1, <1>5, HoldsFacts
  <2>6. Distinct(rest) /\ ~Holds(rest, h)
    <3>1. \A j, k \in 1..Len(rest) : rest[j] = rest[k] => j = k
      BY <1>1, <2>1, <2>5 DEF Places, Distinct
    <3>2. ASSUME NEW k \in 1..Len(rest), rest[k] = h PROVE FALSE
      <4>1. k + 1 \in 1..Len(s.queue) /\ 1 \in 1..Len(s.queue) /\ s.queue[k + 1] = s.queue[1]
        BY <2>1, <2>3, <2>5, <3>2
      <4>2. k + 1 = 1
        BY <1>1, <4>1 DEF Places, Distinct
      <4> QED BY <4>2
    <3> QED BY <3>1, <3>2 DEF Distinct, Holds
  <2> HIDE DEF h, rest, live
  <2>7. /\ t.queue = rest /\ t.executing = h
        /\ t.status = [s.status EXCEPT ![h] = "running"]
        /\ t.at = [s.at EXCEPT ![h] = "library"]
        /\ t.settled = s.settled /\ t.follows = s.follows /\ t.runs = s.runs
        /\ t.activeByDesign = s.activeByDesign /\ t.disposed = s.disposed
    BY <1>1, <2>4 DEF Service
  <2>8. t \in Service
    <3>1. /\ [s.status EXCEPT ![h] = "running"] \in [Callers -> Statuses]
          /\ [s.at EXCEPT ![h] = "library"] \in [Callers -> {"none", "library", "worker"}]
      BY <1>1 DEF Statuses
    <3> DEFINE st == [s.status EXCEPT ![h] = "running"]
               at == [s.at EXCEPT ![h] = "library"]
    <3>2. t = [s EXCEPT !.queue = rest, !.status = st, !.executing = h, !.at = at]
      BY <1>1, <2>4 DEF Service
    <3> HIDE DEF st, at, t
    <3>3. rest \in Seq(Callers) /\ h \in RunId /\ s \in Service
      BY <1>1, <2>5 DEF RunId
    <3> QED BY ONLY <3>1, <3>2, <3>3 DEF Service, st, at
  <2>9. s.status[h] = "queued" /\ s.at[h] = "none"
    BY <1>1, <2>5 DEF Places
  <2>10. \A r \in Callers : /\ r # h => t.status[r] = s.status[r] /\ t.at[r] = s.at[r]
                            /\ r = h => t.status[r] = "running" /\ t.at[r] = "library"
    BY <1>1, <2>7
  <2>11. \A r \in Callers \ {h} : s.at[r] = "none" /\ s.status[r] # "running"
    BY <1>1, <1>5, CallersAssumption DEF Places
  <2>12. Places(t)
    BY <1>1, <1>5, <2>5, <2>6, <2>7, <2>9, <2>10, <2>11, CallersAssumption DEF Places, Live2
  <2>13. Verdicts(t)
    BY <1>1, <2>7, <2>9, <2>10 DEF Verdicts, Terminal
  <2>14. Busy(t) /\ Kept(s, t)
    <3> HIDE DEF t
    <3>1. Busy(t)
      BY <2>5, <2>7, CallersAssumption DEF Busy
    <3>2. \A r \in Callers : t.status[r] = s.status[r]
                            \/ (s.status[r] \in Live2 /\ t.status[r] \in Live2)
      BY <2>9, <2>10 DEF Live2
    <3> QED BY <2>7, <3>1, <3>2 DEF Kept
  <2>15. \A r \in Callers : t.at[r] = "worker" <=> s.at[r] = "worker"
    BY <2>9, <2>10
  <2> QED BY <2>8, <2>12, <2>13, <2>14, <2>15 DEF Sound
<1> QED BY <1>3, <1>4, <1>5

\* finish() of a run that is not terminal; one that waits has a successor.
LEMMA FinishKeeps ==
    ASSUME NEW s, Sound(s), NEW r \in Callers, s.status[r] \in Live2,
           NEW status \in Terminal, NEW settled \in Settled, NEW successor \in RunId,
           settled = Pending => status = "cancelled" /\ successor # NoRun,
           DesignOf(r) \in Designs
    PROVE  LET t == Finish(s, r, status, settled, successor) IN
           /\ Sound(t) /\ (Busy(s) => Busy(t))
           /\ IndexNamesLive(s) => IndexNamesLive(t)
           /\ (\A x \in Callers \ {r} :
                  s.status[x] \in Live2 => s.activeByDesign[DesignOf(x)] = x)
              => LiveIsIndexed(t)
           /\ t.status = [s.status EXCEPT ![r] = status]
           /\ t.settled = [s.settled EXCEPT ![r] = settled]
           /\ t.follows = [s.follows EXCEPT ![r] = successor]
           /\ t.at = s.at /\ t.runs = s.runs /\ t.disposed = s.disposed
<1> DEFINE t == Finish(s, r, status, settled, successor)
           d == DesignOf(r)
<1>1. /\ s \in Service /\ Places(s) /\ Verdicts(s) /\ Distinct(s.queue)
      /\ s.status[r] \notin Terminal
  BY DEF Sound, Places, Live2, Terminal
<1>2. /\ s.status \in [Callers -> Statuses]
      /\ s.settled \in [Callers -> Settled]
      /\ s.follows \in [Callers -> RunId]
      /\ s.runs \subseteq Callers
      /\ s.activeByDesign \in [Designs -> RunId]
      /\ s.queue \in Seq(Callers)
  BY <1>1, Fields
<1>3. /\ t \in Service
      /\ t.status = [s.status EXCEPT ![r] = status]
      /\ t.at = s.at
      /\ t.settled = [s.settled EXCEPT ![r] = settled]
      /\ t.follows = [s.follows EXCEPT ![r] = successor]
      /\ t.runs = s.runs
      /\ t.activeByDesign = [s.activeByDesign EXCEPT ![d] = IF @ = r THEN NoRun ELSE @]
      /\ t.executing = s.executing
      /\ t.disposed = s.disposed
      /\ Distinct(t.queue)
      /\ \A x : Holds(t.queue, x) <=> Holds(s.queue, x) /\ x # r
  BY <1>1, FinishFields
<1> HIDE DEF t
<1>4. \A x \in Callers : /\ x # r => /\ t.status[x] = s.status[x]
                                     /\ t.settled[x] = s.settled[x]
                                     /\ t.follows[x] = s.follows[x]
                         /\ x = r => /\ t.status[x] = status
                                     /\ t.settled[x] = settled
                                     /\ t.follows[x] = successor
  BY <1>2, <1>3
<1>5. status \notin Live2 /\ status \notin {"none", "queued"} /\ NoRun \notin Callers
  BY CallersAssumption DEF Live2, Terminal
<1>6. Places(t)
  <2>1. \A x \in Callers : Holds(t.queue, x) <=> t.status[x] = "queued"
    BY <1>1, <1>3, <1>4, <1>5 DEF Places
  <2>2. \A x \in Callers : t.status[x] = "running" => t.executing = x
    BY <1>1, <1>3, <1>4, <1>5 DEF Places, Live2
  <2>3. \A x \in Callers : t.at[x] # "none" =>
          t.status[x] \notin {"none", "queued"} /\ (t.executing = x \/ t.disposed)
    BY <1>1, <1>3, <1>4, <1>5 DEF Places
  <2>4. \A x \in Callers : t.executing = x => t.at[x] # "none"
    BY <1>1, <1>3 DEF Places
  <2>5. /\ \A x \in t.runs : t.status[x] # "none"
        /\ \A x \in Callers : t.status[x] \in Live2 => x \in t.runs
    BY <1>1, <1>2, <1>3, <1>4, <1>5 DEF Places
  <2>6. t.disposed => t.executing = NoRun /\ \A x \in Callers : t.status[x] \notin Live2
    BY <1>1, <1>3, <1>4, <1>5 DEF Places
  <2> QED BY <1>3, <2>1, <2>2, <2>3, <2>4, <2>5, <2>6 DEF Places
<1>7. Verdicts(t)
  BY <1>1, <1>4 DEF Verdicts, Terminal
<1>8. ASSUME Busy(s) PROVE Busy(t)
  <2> SUFFICES ASSUME t.queue # <<>> PROVE t.executing # NoRun
    BY DEF Busy
  <2>1. t.queue \in Seq(Callers)
    BY <1>3, Fields
  <2>2. Holds(s.queue, Head(t.queue))
    BY <1>3, <2>1, HoldsFacts
  <2>3. s.queue # <<>>
    BY <2>2 DEF Holds
  <2> QED BY <1>3, <1>8, <2>3 DEF Busy
<1>9. ASSUME IndexNamesLive(s) PROVE IndexNamesLive(t)
  <2> SUFFICES ASSUME NEW e \in Designs, t.activeByDesign[e] # NoRun
               PROVE  /\ DesignOf(t.activeByDesign[e]) = e
                      /\ t.status[t.activeByDesign[e]] \in Live2
    BY DEF IndexNamesLive
  <2>1. t.activeByDesign[e] = s.activeByDesign[e] /\ (e = d => s.activeByDesign[e] # r)
    BY <1>2, <1>3
  <2>2. DesignOf(s.activeByDesign[e]) = e /\ s.status[s.activeByDesign[e]] \in Live2
    BY <1>9, <2>1 DEF IndexNamesLive
  <2>3. s.activeByDesign[e] \in Callers /\ s.activeByDesign[e] # r
    BY <1>2, <2>1, <2>2 DEF RunId
  <2> QED BY <1>4, <2>1, <2>2, <2>3
<1>10. ASSUME \A x \in Callers \ {r} :
                 s.status[x] \in Live2 => s.activeByDesign[DesignOf(x)] = x
       PROVE  LiveIsIndexed(t)
  <2> SUFFICES ASSUME NEW x \in Callers, t.status[x] \in Live2
               PROVE  t.activeByDesign[DesignOf(x)] = x
    BY DEF LiveIsIndexed
  <2>1. x # r /\ s.activeByDesign[DesignOf(x)] = x
    BY <1>4, <1>5, <1>10
  <2> QED BY <1>2, <1>3, <2>1
<1>11. Sound(t)
  BY <1>3, <1>6, <1>7 DEF Sound
<1> QED BY <1>3, <1>8, <1>9, <1>10, <1>11 DEF t

\* createRun() by a caller that has no run yet.
LEMMA CreateKeeps ==
    ASSUME NEW s, Sound(s), ~s.disposed, NEW r \in Callers, s.status[r] = "none",
           DesignOf(r) \in Designs
    PROVE  LET t == CreateRun(s, r) IN
           /\ Sound(t)
           /\ IndexNamesLive(s) => IndexNamesLive(t)
           /\ LiveIsIndexed(s) =>
                \A x \in Callers :
                    t.status[x] \in Live2 /\ x # s.activeByDesign[DesignOf(r)] =>
                        t.activeByDesign[DesignOf(x)] = x
           /\ t.status = [s.status EXCEPT ![r] = "queued"]
           /\ t.settled = s.settled /\ t.follows = s.follows /\ t.at = s.at
           /\ t.runs = s.runs \cup {r} /\ t.disposed = s.disposed
<1> DEFINE t == CreateRun(s, r)
           d == DesignOf(r)
<1>1. /\ s \in Service /\ Places(s) /\ Verdicts(s) /\ Distinct(s.queue)
      /\ ~Holds(s.queue, r)
  BY DEF Sound, Places
<1>2. /\ s.status \in [Callers -> Statuses]
      /\ s.settled \in [Callers -> Settled]
      /\ s.follows \in [Callers -> RunId]
      /\ s.runs \subseteq Callers
      /\ s.activeByDesign \in [Designs -> RunId]
      /\ s.queue \in Seq(Callers)
      /\ s.executing \in RunId
  BY <1>1, Fields
<1>3. /\ t \in Service
      /\ t.status = [s.status EXCEPT ![r] = "queued"]
      /\ t.at = s.at /\ t.settled = s.settled /\ t.follows = s.follows
      /\ t.runs = s.runs \cup {r}
      /\ t.activeByDesign = [s.activeByDesign EXCEPT ![d] = r]
      /\ t.executing = s.executing
      /\ t.disposed = s.disposed
      /\ Distinct(t.queue)
      /\ \A x : Holds(t.queue, x) <=> Holds(s.queue, x) \/ x = r
  BY <1>1, CreateFields
<1> HIDE DEF t
<1>4. \A x \in Callers : /\ x # r => t.status[x] = s.status[x]
                         /\ x = r => t.status[x] = "queued"
  BY <1>2, <1>3
<1>5. s.executing # r /\ s.at[r] = "none" /\ "queued" \in Live2
  BY <1>1 DEF Places, Live2
<1>6. Places(t)
  <2>1. \A x \in Callers : Holds(t.queue, x) <=> t.status[x] = "queued"
    BY <1>1, <1>3, <1>4 DEF Places
  <2>2. \A x \in Callers : t.status[x] = "running" => t.executing = x
    BY <1>1, <1>3, <1>4 DEF Places
  <2>3. \A x \in Callers : t.at[x] # "none" =>
          t.status[x] \notin {"none", "queued"} /\ (t.executing = x \/ t.disposed)
    BY <1>1, <1>3, <1>4, <1>5 DEF Places
  <2>4. \A x \in Callers : t.executing = x => t.at[x] # "none"
    BY <1>1, <1>3 DEF Places
  <2>5. /\ \A x \in t.runs : t.status[x] # "none"
        /\ \A x \in Callers : t.status[x] \in Live2 => x \in t.runs
    BY <1>1, <1>2, <1>3, <1>4 DEF Places
  <2> QED BY <1>3, <2>1, <2>2, <2>3, <2>4, <2>5 DEF Places
<1>7. Verdicts(t)
  BY <1>1, <1>3, <1>4 DEF Verdicts, Terminal
<1>8. ASSUME IndexNamesLive(s) PROVE IndexNamesLive(t)
  <2> SUFFICES ASSUME NEW e \in Designs, t.activeByDesign[e] # NoRun
               PROVE  /\ DesignOf(t.activeByDesign[e]) = e
                      /\ t.status[t.activeByDesign[e]] \in Live2
    BY DEF IndexNamesLive
  <2>1. CASE e = d
    BY <1>2, <1>3, <1>4, <1>5, <2>1
  <2>2. CASE e # d
    <3>1. t.activeByDesign[e] = s.activeByDesign[e]
      BY <1>2, <1>3, <2>2
    <3>2. DesignOf(s.activeByDesign[e]) = e /\ s.status[s.activeByDesign[e]] \in Live2
      BY <1>8, <3>1 DEF IndexNamesLive
    <3>3. s.activeByDesign[e] \in Callers /\ s.activeByDesign[e] # r
      BY <1>2, <2>2, <3>1, <3>2 DEF RunId
    <3> QED BY <1>4, <3>1, <3>2, <3>3
  <2> QED BY <2>1, <2>2
<1>9. ASSUME LiveIsIndexed(s), NEW x \in Callers, t.status[x] \in Live2,
             x # s.activeByDesign[d]
      PROVE  t.activeByDesign[DesignOf(x)] = x
  <2>1. CASE x = r
    BY <1>2, <1>3, <2>1
  <2>2. CASE x # r
    <3>1. s.activeByDesign[DesignOf(x)] = x
      BY <1>4, <1>9, <2>2 DEF LiveIsIndexed
    <3>2. DesignOf(x) # d
      BY <1>9, <3>1
    <3> QED BY <1>2, <1>3, <3>1, <3>2
  <2> QED BY <2>1, <2>2
<1>10. Sound(t)
  BY <1>3, <1>6, <1>7 DEF Sound
<1> QED BY <1>3, <1>8, <1>9, <1>10 DEF t

\* The finally block of execute(), of a run that is terminal.
LEMMA LeftFacts ==
    ASSUME NEW s, Sound(s), Busy(s), NEW r \in Callers,
           s.at[r] # "none", s.status[r] \notin Live2
    PROVE  LET t == Left(s, r) IN
           /\ Sound(t) /\ Busy(t) /\ Kept(s, t)
           /\ \A x \in Callers : t.at[x] = "worker" <=> s.at[x] = "worker" /\ x # r
<1> DEFINE u == [s EXCEPT !.at[r] = "none"]
           v == [u EXCEPT !.executing = NoRun]
           t == Left(s, r)
<1>1. /\ s \in Service /\ Places(s) /\ Verdicts(s)
      /\ s.status \in [Callers -> Statuses]
      /\ s.at \in [Callers -> {"none", "library", "worker"}]
      /\ s.executing \in RunId
  BY Fields DEF Sound
<1>2. /\ u.at = [s.at EXCEPT ![r] = "none"] /\ u.executing = s.executing
      /\ u.status = s.status /\ u.queue = s.queue
      /\ u.settled = s.settled /\ u.follows = s.follows /\ u.runs = s.runs
      /\ u.activeByDesign = s.activeByDesign /\ u.disposed = s.disposed
  BY <1>1 DEF Service
<1>3. u \in Service
  <2> DEFINE at == [s.at EXCEPT ![r] = "none"]
  <2>1. at \in [Callers -> {"none", "library", "worker"}]
    BY <1>1
  <2>2. u = [s EXCEPT !.at = at]
    BY <1>1 DEF Service
  <2> HIDE DEF at, u
  <2> QED BY <1>1, <2>1, <2>2 DEF Service
<1>4. /\ v.at = u.at /\ v.executing = NoRun
      /\ v.status = s.status /\ v.queue = s.queue
      /\ v.settled = s.settled /\ v.follows = s.follows /\ v.runs = s.runs
      /\ v.activeByDesign = s.activeByDesign /\ v.disposed = s.disposed
      /\ v \in Service
  <2> HIDE DEF u
  <2> QED BY <1>2, <1>3 DEF Service, RunId
<1>5. t = IF s.executing = r THEN Pump(v) ELSE u
  BY DEF Left
<1> HIDE DEF u, v, t
<1>6. \A x \in Callers : /\ x # r => u.at[x] = s.at[x]
                         /\ x = r => u.at[x] = "none"
  BY <1>1, <1>2
<1>7. CASE s.executing = r
  <2>1. \A x \in Callers : x # r => s.at[x] = "none" \/ s.disposed
    BY <1>1, <1>7 DEF Places
  <2>2. ~s.disposed
    BY <1>1, <1>7, CallersAssumption DEF Places
  <2>3. \A x \in Callers : s.status[x] # "running"
    BY <1>1, <1>7 DEF Places, Live2
  <2>4. Places(v)
    BY <1>1, <1>4, <1>6, <2>1, <2>2, <2>3, CallersAssumption DEF Places
  <2>5. Verdicts(v)
    BY <1>1, <1>4 DEF Verdicts
  <2>6. Sound(v)
    BY <1>4, <2>4, <2>5 DEF Sound
  <2>7. /\ Sound(t) /\ Busy(t) /\ Kept(v, t)
        /\ \A x \in Callers : t.at[x] = "worker" <=> v.at[x] = "worker"
    BY <1>5, <1>7, <2>6, PumpFacts
  <2>8. Kept(s, t)
    BY <1>4, <2>7 DEF Kept
  <2> QED BY <1>4, <1>6, <2>7, <2>8 DEF t
<1>8. CASE s.executing # r
  <2>1. s.disposed
    BY <1>1, <1>8 DEF Places
  <2>2. Places(u)
    BY <1>1, <1>2, <1>6, <1>8, <2>1 DEF Places
  <2>3. Verdicts(u) /\ Busy(u) /\ Kept(s, u)
    BY <1>1, <1>2 DEF Verdicts, Busy, Kept
  <2>4. t = u
    BY <1>5, <1>8
  <2>5. Sound(u)
    BY <1>3, <2>2, <2>3 DEF Sound
  <2> QED BY <1>6, <2>3, <2>4, <2>5 DEF t
<1> QED BY <1>7, <1>8

\* execute() ends a run that is running.
LEMMA EndKeeps ==
    ASSUME NEW s, Whole(s), NEW r \in Callers, s.status[r] = "running",
           NEW status \in Terminal, NEW settled \in Settled, settled # Pending,
           DesignOf(r) \in Designs
    PROVE  LET t == Left(Finish(s, r, status, settled, NoRun), r) IN
           /\ Whole(t)
           /\ \A x \in Callers :
                /\ t.status[x] = "none" <=> s.status[x] = "none"
                /\ t.status[x] \in Live2 <=> s.status[x] \in Live2 /\ x # r
                /\ t.follows[x] \in {s.follows[x], NoRun}
                /\ t.settled[x] = IF x = r THEN settled ELSE s.settled[x]
                /\ t.at[x] = "worker" <=> s.at[x] = "worker" /\ x # r
<1> DEFINE u == Finish(s, r, status, settled, NoRun)
           t == Left(u, r)
<1>1. /\ Sound(s) /\ Busy(s) /\ IndexNamesLive(s) /\ LiveIsIndexed(s)
      /\ s \in Service /\ s.status[r] \in Live2 /\ NoRun \in RunId
      /\ s.at[r] # "none"
  BY DEF Whole, Sound, Live2, RunId, Places
<1>2. /\ s.status \in [Callers -> Statuses] /\ s.settled \in [Callers -> Settled]
      /\ s.follows \in [Callers -> RunId]
  BY <1>1, Fields
<1>3. /\ Sound(u) /\ Busy(u) /\ IndexNamesLive(u)
      /\ (\A x \in Callers \ {r} :
             s.status[x] \in Live2 => s.activeByDesign[DesignOf(x)] = x)
         => LiveIsIndexed(u)
      /\ u.status = [s.status EXCEPT ![r] = status]
      /\ u.settled = [s.settled EXCEPT ![r] = settled]
      /\ u.follows = [s.follows EXCEPT ![r] = NoRun]
      /\ u.at = s.at
  BY <1>1, FinishKeeps
<1> HIDE DEF u
<1>4. LiveIsIndexed(u)
  BY <1>1, <1>3 DEF LiveIsIndexed
<1>5. status \notin Live2 /\ status # "none"
  BY DEF Terminal, Live2
<1>6. \A x \in Callers : /\ u.status[x] = IF x = r THEN status ELSE s.status[x]
                         /\ u.settled[x] = IF x = r THEN settled ELSE s.settled[x]
                         /\ u.follows[x] = IF x = r THEN NoRun ELSE s.follows[x]
  BY <1>2, <1>3
<1>7. u.at[r] # "none" /\ u.status[r] \notin Live2
  BY <1>1, <1>3, <1>5, <1>6
<1>8. /\ Sound(t) /\ Busy(t) /\ Kept(u, t)
      /\ \A x \in Callers : t.at[x] = "worker" <=> u.at[x] = "worker" /\ x # r
  <2>1. Sound(u) /\ Busy(u) /\ u.at[r] # "none" /\ u.status[r] \notin Live2
    BY <1>3, <1>7
  <2> QED BY ONLY <2>1, r \in Callers, LeftFacts DEF t
<1> HIDE DEF t
<1>9. /\ IndexNamesLive(t) /\ LiveIsIndexed(t)
      /\ \A x \in Callers : t.status[x] \in Live2 <=> u.status[x] \in Live2
      /\ \A x \in Callers : t.status[x] = "none" <=> u.status[x] = "none"
  BY <1>3, <1>4, <1>8, KeptIndex DEF Sound
<1>10. Whole(t)
  BY <1>8, <1>9 DEF Whole
<1>11. \A x \in Callers :
         /\ t.status[x] = "none" <=> s.status[x] = "none"
         /\ t.status[x] \in Live2 <=> s.status[x] \in Live2 /\ x # r
  BY <1>1, <1>5, <1>6, <1>9 DEF Live2
<1>12. \A x \in Callers :
         /\ t.follows[x] \in {s.follows[x], NoRun}
         /\ t.settled[x] = IF x = r THEN settled ELSE s.settled[x]
         /\ t.at[x] = "worker" <=> s.at[x] = "worker" /\ x # r
  BY <1>3, <1>6, <1>8 DEF Kept
<1> QED BY <1>10, <1>11, <1>12 DEF t, u

-----------------------------------------------------------------------------
(* What the steps preserve. *)

\* The invariant, as the steps use it.
LEMMA Given ==
    ASSUME IInv
    PROVE  /\ Whole(svc) /\ Sound(svc) /\ svc \in Service
           /\ svc.status \in [Callers -> Statuses]
           /\ svc.at \in [Callers -> {"none", "library", "worker"}]
           /\ svc.settled \in [Callers -> Settled]
           /\ svc.follows \in [Callers -> RunId]
           /\ svc.runs \subseteq Callers
           /\ svc.activeByDesign \in [Designs -> RunId]
           /\ svc.queue \in Seq(Callers) /\ svc.executing \in RunId
           /\ \A c \in Callers : /\ DesignOf(c) \in Designs
                                 /\ RevisionOf(c) \in Nat
                                 /\ head[DesignOf(c)] \in Nat
                                 /\ row[DesignOf(c)] \in Nat
           /\ \A d \in Designs : head[d] \in Nat /\ row[d] \in Nat
           /\ \A c \in Callers : svc.settled[c].is = "report" =>
                                    svc.settled[c].revision \in Nat
<1>1. TypeOK /\ Whole(svc) /\ svc \in Service
  BY DEF IInv, Whole, Sound
<1>2. \A c \in Callers : caller[c] \in Caller
  BY <1>1 DEF TypeOK
<1>3. \A c \in Callers : DesignOf(c) \in Designs /\ RevisionOf(c) \in 0..MaxRevision
  BY <1>2 DEF Caller, DesignOf, RevisionOf, Revision
<1>4. \A d \in Designs : head[d] \in 0..MaxRevision /\ row[d] \in 0..MaxRevision
  BY <1>1 DEF TypeOK, Revision
<1>5. \A x \in Settled : x.is = "report" => x.revision \in 0..MaxRevision
  BY DEF Settled, Revision
<1> QED BY <1>1, <1>3, <1>4, <1>5, Fields DEF Whole

LEMMA WholeNext ==
    ASSUME NEW t, svc' = t, Whole(t),
           \A x \in Callers : caller'[x].design = caller[x].design
    PROVE  Whole(svc)'
<1>1. t \in Service /\ Sound(t) /\ Busy(t) /\ IndexNamesLive(t) /\ LiveIsIndexed(t)
  BY DEF Whole, Sound
<1>2. t.activeByDesign \in [Designs -> RunId]
  BY <1>1, Fields
<1>3. Sound(svc)' /\ Busy(svc)'
  BY <1>1 DEF Sound, Busy, Places, Verdicts
<1>4. IndexNamesLive(svc)'
  <2> SUFFICES ASSUME NEW d \in Designs, t.activeByDesign[d] # NoRun
               PROVE  /\ caller'[t.activeByDesign[d]].design = d
                      /\ t.status[t.activeByDesign[d]] \in Live2
    BY DEF IndexNamesLive, DesignOf
  <2>1. t.activeByDesign[d] \in Callers
    BY <1>2 DEF RunId
  <2> QED BY <1>1, <2>1 DEF IndexNamesLive, DesignOf
<1>5. LiveIsIndexed(svc)'
  BY <1>1 DEF LiveIsIndexed, DesignOf
<1> QED BY <1>3, <1>4, <1>5 DEF Whole

\* A step of the service that leaves calls, reads and designs alone: what the
\* rows and the settled runs must say for it.
LEMMA Carried ==
    ASSUME IInv, UNCHANGED <<head, caller, reads>>,
           \A r \in Callers :
              /\ svc'.status[r] = "none" <=> svc.status[r] = "none"
              /\ svc'.status[r] \in Live2 => svc.status[r] \in Live2
              /\ svc'.follows[r] \in {svc.follows[r], NoRun}
              /\ svc'.settled[r].is = "report" =>
                    \/ svc'.settled[r] = svc.settled[r]
                    \/ /\ svc'.settled[r].revision \in Nat
                       /\ svc'.settled[r].revision >= RevisionOf(r)
                       /\ \/ head[DesignOf(r)] = 0
                          \/ row'[DesignOf(r)] >= svc'.settled[r].revision,
           \A d \in Designs : row'[d] \in Nat /\ row'[d] >= row[d] /\ row'[d] <= head[d],
           \A r \in Callers : svc'.status[r] \in Live2 => row'[DesignOf(r)] <= RevisionOf(r),
           \A c \in Callers : caller[c].at = "reading" =>
              RevisionOf(c) = 0 \/ row'[DesignOf(c)] <= RevisionOf(c)
    PROVE  Attended' /\ Ordered' /\ Chains' /\ Rows'
<1>1. Attended /\ Ordered /\ Chains /\ Rows
  BY DEF IInv
<1>2. /\ \A c \in Callers : DesignOf(c) \in Designs /\ RevisionOf(c) \in Nat
      /\ \A c \in Callers : head[DesignOf(c)] \in Nat /\ row[DesignOf(c)] \in Nat
      /\ \A c \in Callers : svc.settled[c].is = "report" => svc.settled[c].revision \in Nat
  BY Given
<1>3. caller' = caller /\ reads' = reads /\ head' = head
  OBVIOUS
<1>4. \A c : DesignOf(c)' = DesignOf(c) /\ RevisionOf(c)' = RevisionOf(c)
  BY <1>3 DEF DesignOf, RevisionOf
<1>5. Attended'
  <2>1. Distinct(reads)' /\ \A c \in Callers : Holds(reads', c) <=> caller'[c].at = "reading"
    BY <1>1, <1>3 DEF Attended, Distinct
  <2>2. \A c \in Callers : svc'.status[c] # "none" => caller'[c].at = "waiting"
    BY <1>1, <1>3 DEF Attended
  <2>3. ASSUME NEW c \in Callers
        PROVE  IF caller'[c].at = "waiting"
               THEN /\ caller'[c].run # NoRun /\ svc'.status[caller'[c].run] # "none"
                    /\ caller'[caller'[c].run].design = caller'[c].design
                    /\ caller'[caller'[c].run].read >= caller'[c].read
               ELSE caller'[c].run = NoRun
    <3>1. caller[c].run \in Callers \cup {NoRun}
      <4>1. caller[c] \in Caller
        BY DEF IInv, TypeOK
      <4> QED BY <4>1 DEF Caller, RunId
    <3> QED BY <1>1, <1>3, <3>1 DEF Attended, DesignOf, RevisionOf
  <2> QED BY <2>1, <2>2, <2>3 DEF Attended, DesignOf, RevisionOf
<1>6. Ordered'
  <2>1. \A r \in Callers : svc'.status[r] # "none" => svc.status[r] # "none"
    OBVIOUS
  <2> QED BY <1>1, <1>3, <1>4, <2>1 DEF Ordered
<1>7. Chains'
  <2> SUFFICES ASSUME NEW r \in Callers
      PROVE /\ svc'.follows[r] # NoRun =>
                  /\ svc'.status[svc'.follows[r]] # "none"
                  /\ caller'[svc'.follows[r]].design = caller'[r].design
                  /\ caller'[svc'.follows[r]].read > caller'[r].read
            /\ svc'.settled[r].is = "report" => svc'.settled[r].revision >= caller'[r].read
    BY DEF Chains, DesignOf, RevisionOf
  <2>1. svc.follows[r] \in Callers \cup {NoRun}
    BY Given DEF RunId
  <2> QED BY <1>1, <1>3, <2>1 DEF Chains, DesignOf, RevisionOf
<1>8. Rows'
  <2>1. ASSUME NEW r \in Callers, svc'.settled[r].is = "report"
        PROVE  head'[DesignOf(r)'] = 0 \/ row'[DesignOf(r)'] >= svc'.settled[r].revision
    <3>1. CASE svc'.settled[r] = svc.settled[r]
      <4>1. head[DesignOf(r)] = 0 \/ row[DesignOf(r)] >= svc.settled[r].revision
        BY <1>1, <2>1, <3>1 DEF Rows
      <4>2. row'[DesignOf(r)] >= row[DesignOf(r)] /\ row'[DesignOf(r)] \in Nat
        BY <1>2
      <4>3. svc.settled[r].revision \in Nat /\ row[DesignOf(r)] \in Nat
        BY <1>2, <2>1, <3>1
      <4> QED BY <1>3, <1>4, <3>1, <4>1, <4>2, <4>3
    <3>2. CASE svc'.settled[r] # svc.settled[r]
      BY <1>3, <1>4, <2>1, <3>2
    <3> QED BY <3>1, <3>2
  <2>2. NoOrphanRow'
    BY <1>3 DEF NoOrphanRow
  <2>3. \A r \in Callers : svc'.status[r] \in Live2 => row'[DesignOf(r)'] <= RevisionOf(r)'
    BY <1>4
  <2>4. \A c \in Callers : caller'[c].at = "reading" =>
          RevisionOf(c)' = 0 \/ row'[DesignOf(c)'] <= RevisionOf(c)'
    BY <1>3, <1>4
  <2> QED BY <2>1, <2>2, <2>3, <2>4 DEF Rows
<1> QED BY <1>5, <1>6, <1>7, <1>8

\* The same, of a step that writes no row.
LEMMA CarriedBare ==
    ASSUME IInv, UNCHANGED <<head, row, caller, reads>>,
           \A r \in Callers :
              /\ svc'.status[r] = "none" <=> svc.status[r] = "none"
              /\ svc'.status[r] \in Live2 => svc.status[r] \in Live2
              /\ svc'.follows[r] \in {svc.follows[r], NoRun}
              /\ svc'.settled[r].is = "report" => svc'.settled[r] = svc.settled[r]
    PROVE  Attended' /\ Ordered' /\ Chains' /\ Rows'
<1>1. \A d \in Designs : row'[d] \in Nat /\ row'[d] >= row[d] /\ row'[d] <= head[d]
  BY Given DEF IInv, Rows, NoOrphanRow
<1>2. \A r \in Callers : svc'.status[r] \in Live2 => row'[DesignOf(r)] <= RevisionOf(r)
  BY DEF IInv, Rows
<1>3. \A c \in Callers : caller[c].at = "reading" =>
          RevisionOf(c) = 0 \/ row'[DesignOf(c)] <= RevisionOf(c)
  BY DEF IInv, Rows
<1> QED BY <1>1, <1>2, <1>3, Carried

\* The type of the next state, when calls and reads stay as they are.
LEMMA TypeNext ==
    ASSUME IInv, UNCHANGED <<head, caller, reads>>, Whole(svc)',
           row' = row \/ \E d \in Designs : \E v \in Revision : row' = [row EXCEPT ![d] = v],
           job' \in [Callers -> Worker!Fates], aborted' \subseteq Callers
    PROVE  TypeOK'
<1>1. TypeOK /\ svc' \in Service
  BY DEF IInv, Whole, Sound
<1>2. row' \in [Designs -> Revision]
  BY <1>1 DEF TypeOK
<1> QED BY <1>1, <1>2 DEF TypeOK

\* A step of the service that writes no row.
LEMMA ServiceStep ==
    ASSUME IInv, UNCHANGED <<head, row, caller, reads>>, NEW t, svc' = t, Whole(t),
           job' \in [Callers -> Worker!Fates], aborted' \subseteq Callers,
           \A r \in Callers : job'[r] = "open" => t.at[r] = "worker",
           \A r \in Callers :
              /\ t.status[r] = "none" <=> svc.status[r] = "none"
              /\ t.status[r] \in Live2 => svc.status[r] \in Live2
              /\ t.follows[r] \in {svc.follows[r], NoRun}
              /\ t.settled[r].is = "report" => t.settled[r] = svc.settled[r]
    PROVE  IInv'
<1>1. Whole(svc)'
  BY WholeNext
<1>2. Attended' /\ Ordered' /\ Chains' /\ Rows'
  BY CarriedBare
<1>3. TypeOK'
  BY <1>1, TypeNext
<1>4. Working'
  BY DEF Working
<1> QED BY <1>1, <1>2, <1>3, <1>4 DEF IInv

LEMMA AbortFacts ==
    ASSUME IInv, NEW R \in SUBSET Callers, AbortIn(R)
    PROVE  /\ aborted' \subseteq Callers /\ job' \in [Callers -> Worker!Fates]
           /\ \A r \in Callers : job'[r] = "open" => job[r] = "open"
<1>1. job \in [Callers -> Worker!Fates] /\ aborted \subseteq Callers
  BY DEF IInv, TypeOK
<1> DEFINE Q == {r \in R : job[r] \in {"new", "open"}}
<1>2. PICK S \in SUBSET Q : job' = Worker!Cancelled(Worker!Open(S))
  BY DEF AbortIn, Worker!Abort
<1>3. aborted' = aborted \cup Q
  BY DEF AbortIn, Worker!Abort
<1> QED BY <1>1, <1>2, <1>3 DEF Worker!Cancelled, Worker!Fates

LEMMA CancelKeeps ==
    ASSUME IInv, NEW r \in Callers, Cancel(r)
    PROVE  IInv'
<1> DEFINE t == Finish(svc, r, "cancelled", Rejected, NoRun)
<1>1. /\ svc.status[r] \in Live2 /\ svc' = t /\ AbortIn({r})
      /\ UNCHANGED <<head, row, caller, reads>>
  <2>1. /\ r \in svc.runs /\ svc.status[r] \notin Terminal /\ svc.status[r] # "none"
        /\ svc.status[r] \in Statuses
    BY Given DEF Cancel, Sound, Places
  <2> QED BY <2>1 DEF Cancel, CancelRun, Live2, Terminal, Statuses
<1>2. /\ Sound(svc) /\ Busy(svc) /\ IndexNamesLive(svc) /\ LiveIsIndexed(svc)
      /\ DesignOf(r) \in Designs /\ "cancelled" \in Terminal /\ NoRun \in RunId
      /\ Rejected \in Settled /\ Rejected # Pending
  BY Given, Values DEF Whole, Terminal, RunId
<1>3. /\ Sound(t) /\ (Busy(svc) => Busy(t))
      /\ IndexNamesLive(svc) => IndexNamesLive(t)
      /\ (\A x \in Callers \ {r} :
             svc.status[x] \in Live2 => svc.activeByDesign[DesignOf(x)] = x)
         => LiveIsIndexed(t)
      /\ t.status = [svc.status EXCEPT ![r] = "cancelled"]
      /\ t.settled = [svc.settled EXCEPT ![r] = Rejected]
      /\ t.follows = [svc.follows EXCEPT ![r] = NoRun]
      /\ t.at = svc.at
  BY <1>1, <1>2, FinishKeeps
<1> HIDE DEF t
<1>4. Whole(t)
  BY <1>2, <1>3 DEF Whole, LiveIsIndexed
<1>5. \A x \in Callers :
        /\ t.status[x] = IF x = r THEN "cancelled" ELSE svc.status[x]
        /\ t.settled[x] = IF x = r THEN Rejected ELSE svc.settled[x]
        /\ t.follows[x] = IF x = r THEN NoRun ELSE svc.follows[x]
  BY <1>3, Given
<1>6. /\ aborted' \subseteq Callers /\ job' \in [Callers -> Worker!Fates]
      /\ \A x \in Callers : job'[x] = "open" => job[x] = "open"
  BY <1>1, AbortFacts
<1>7. \A x \in Callers : job'[x] = "open" => t.at[x] = "worker"
  BY <1>3, <1>6 DEF IInv, Working
<1>8. \A x \in Callers :
        /\ t.status[x] = "none" <=> svc.status[x] = "none"
        /\ t.status[x] \in Live2 => svc.status[x] \in Live2
        /\ t.follows[x] \in {svc.follows[x], NoRun}
        /\ t.settled[x].is = "report" => t.settled[x] = svc.settled[x]
  BY <1>1, <1>5, Values DEF Live2
<1> QED BY <1>1, <1>4, <1>6, <1>7, <1>8, ServiceStep

\* The run goes on settling as it settled; only the map forgets it.
LEMMA ExpireKeeps ==
    ASSUME IInv, NEW r \in Callers, Expire(r)
    PROVE  IInv'
<1> DEFINE t == [svc EXCEPT !.runs = @ \ {r}]
<1>1. /\ svc.status[r] \in Terminal /\ svc' = t
      /\ UNCHANGED <<head, row, caller, reads, job, aborted>>
  BY DEF Expire
<1>2. /\ svc \in Service /\ Places(svc) /\ Verdicts(svc) /\ Busy(svc)
      /\ IndexNamesLive(svc) /\ LiveIsIndexed(svc)
  BY Given DEF Whole, Sound
<1>3. /\ t.status = svc.status /\ t.at = svc.at /\ t.settled = svc.settled
      /\ t.follows = svc.follows /\ t.runs = svc.runs \ {r}
      /\ t.activeByDesign = svc.activeByDesign /\ t.queue = svc.queue
      /\ t.executing = svc.executing /\ t.disposed = svc.disposed
  BY <1>2 DEF Service
<1>4. t \in Service
  BY <1>2 DEF Service
<1> HIDE DEF t
<1>5. Places(t)
  BY <1>1, <1>2, <1>3 DEF Places, Terminal, Live2
<1>6. Verdicts(t) /\ Busy(t) /\ IndexNamesLive(t) /\ LiveIsIndexed(t)
  BY <1>2, <1>3 DEF Verdicts, Busy, IndexNamesLive, LiveIsIndexed
<1>7. Whole(t)
  BY <1>4, <1>5, <1>6 DEF Whole, Sound
<1>8. job' \in [Callers -> Worker!Fates] /\ aborted' \subseteq Callers
  BY <1>1 DEF IInv, TypeOK
<1>9. \A x \in Callers : job'[x] = "open" => t.at[x] = "worker"
  BY <1>1, <1>3 DEF IInv, Working
<1> QED BY <1>1, <1>3, <1>7, <1>8, <1>9, ServiceStep

LEMMA DisposeKeeps ==
    ASSUME IInv, Dispose
    PROVE  IInv'
<1> DEFINE status == [r \in Callers |-> IF r \in Unfinished THEN "cancelled" ELSE svc.status[r]]
           settled == [r \in Callers |-> IF r \in Unfinished THEN Rejected ELSE svc.settled[r]]
           index == [d \in Designs |-> NoRun]
           t == [svc EXCEPT !.status = status, !.settled = settled,
                            !.runs = {}, !.activeByDesign = index,
                            !.queue = <<>>, !.executing = NoRun, !.disposed = TRUE]
<1>1. /\ svc' = t /\ AbortIn(Unfinished) /\ ~svc.disposed
      /\ UNCHANGED <<head, row, caller, reads>>
  BY DEF Dispose
<1>2. /\ svc \in Service /\ Places(svc) /\ Verdicts(svc)
      /\ svc.status \in [Callers -> Statuses]
      /\ svc.settled \in [Callers -> Settled]
      /\ svc.follows \in [Callers -> RunId]
  BY Given DEF Whole, Sound
<1>3. status \in [Callers -> Statuses] /\ settled \in [Callers -> Settled]
  BY <1>2, Values DEF Statuses
<1>4. index \in [Designs -> RunId] /\ NoRun \in RunId /\ <<>> \in Seq(Callers)
  BY DEF RunId
<1>5. /\ \A r \in Callers : /\ status[r] = IF r \in Unfinished THEN "cancelled" ELSE svc.status[r]
                            /\ settled[r] = IF r \in Unfinished THEN Rejected ELSE svc.settled[r]
      /\ \A d \in Designs : index[d] = NoRun
  OBVIOUS
<1>6. Unfinished \subseteq Callers /\ \A r \in Unfinished : svc.status[r] \in Live2
  <2>1. \A r \in Unfinished : r \in Callers /\ svc.status[r] # "none" /\ svc.status[r] \notin Terminal
    BY <1>2, Given DEF Unfinished, Places
  <2> QED BY <1>2, <2>1 DEF Statuses, Terminal, Live2
<1>7. \A r \in Callers : svc.status[r] \in Live2 => r \in Unfinished
  BY <1>2 DEF Places, Unfinished, Live2, Terminal
<1> HIDE DEF status, settled, index
<1>8. /\ t.status = status /\ t.at = svc.at /\ t.settled = settled
      /\ t.follows = svc.follows /\ t.runs = {} /\ t.activeByDesign = index
      /\ t.queue = <<>> /\ t.executing = NoRun /\ t.disposed = TRUE
  BY <1>2 DEF Service
<1>9. t \in Service
  BY <1>2, <1>3, <1>4 DEF Service
<1> HIDE DEF t
<1>10. \A r \in Callers : /\ t.status[r] \notin Live2
                          /\ t.status[r] = "none" <=> svc.status[r] = "none"
                          /\ r \notin Unfinished => t.status[r] = svc.status[r]
  BY <1>5, <1>6, <1>7, <1>8 DEF Live2
<1>11. \A r : ~Holds(<<>>, r)
  BY DEF Holds
<1>12. Places(t)
  BY <1>2, <1>8, <1>10, <1>11, CallersAssumption DEF Places, Live2, Distinct
<1>13. Verdicts(t)
  <2> SUFFICES ASSUME NEW r \in Callers
      PROVE /\ t.status[r] \notin Terminal => t.settled[r] = Pending /\ t.follows[r] = NoRun
            /\ t.status[r] \in {"completed", "failed"} => t.settled[r] # Pending
            /\ t.status[r] = "cancelled" /\ t.follows[r] = NoRun => t.settled[r] # Pending
    BY DEF Verdicts
  <2>1. CASE r \in Unfinished
    <3>1. t.status[r] = "cancelled" /\ t.settled[r] = Rejected
      BY <1>5, <1>8, <2>1
    <3> QED BY <3>1, Values DEF Terminal
  <2>2. CASE r \notin Unfinished
    <3>1. t.settled[r] = svc.settled[r] /\ t.status[r] = svc.status[r] /\ t.follows[r] = svc.follows[r]
      BY <1>5, <1>8, <2>2
    <3> QED BY <1>2, <3>1 DEF Verdicts
  <2> QED BY <2>1, <2>2
<1>14. Whole(t)
  BY <1>5, <1>8, <1>9, <1>10, <1>12, <1>13 DEF Whole, Sound, Busy, IndexNamesLive, LiveIsIndexed
<1>15. /\ aborted' \subseteq Callers /\ job' \in [Callers -> Worker!Fates]
       /\ \A x \in Callers : job'[x] = "open" => job[x] = "open"
  BY <1>1, <1>6, AbortFacts
<1>16. \A x \in Callers : job'[x] = "open" => t.at[x] = "worker"
  BY <1>8, <1>15 DEF IInv, Working
<1>17. \A r \in Callers :
         /\ t.follows[r] \in {svc.follows[r], NoRun}
         /\ t.settled[r].is = "report" => t.settled[r] = svc.settled[r]
  BY <1>5, <1>8, Values
<1> QED BY <1>1, <1>10, <1>14, <1>15, <1>16, <1>17, ServiceStep

\* A report reaches the callers of a superseded run with its revision, which
\* is later than what they asked for, and its row.
LEMMA AdoptKeeps ==
    ASSUME IInv, NEW r \in Callers, Adopt(r)
    PROVE  IInv'
<1> DEFINE s == svc.follows[r]
           t == [svc EXCEPT !.settled[r] = svc.settled[s]]
<1>1. /\ s # NoRun /\ svc.settled[r] = Pending /\ svc.settled[s] # Pending /\ svc' = t
      /\ UNCHANGED <<head, row, caller, reads, job, aborted>>
  BY DEF Adopt
<1>2. /\ svc \in Service /\ Places(svc) /\ Verdicts(svc) /\ Busy(svc)
      /\ IndexNamesLive(svc) /\ LiveIsIndexed(svc)
      /\ svc.settled \in [Callers -> Settled] /\ s \in Callers
  BY <1>1, Given DEF Whole, Sound, RunId
<1>3. /\ svc.status[s] # "none" /\ DesignOf(s) = DesignOf(r) /\ RevisionOf(s) > RevisionOf(r)
      /\ svc.settled[s].is = "report" => svc.settled[s].revision >= RevisionOf(s)
  BY <1>1, <1>2 DEF IInv, Chains
<1>4. svc.settled[s].is = "report" =>
        head[DesignOf(s)] = 0 \/ row[DesignOf(s)] >= svc.settled[s].revision
  BY <1>2 DEF IInv, Rows
<1>5. svc.status[r] \in Terminal
  BY <1>1, <1>2 DEF Verdicts
<1> HIDE DEF s
<1>6. /\ t.status = svc.status /\ t.at = svc.at
      /\ t.settled = [svc.settled EXCEPT ![r] = svc.settled[s]]
      /\ t.follows = svc.follows /\ t.runs = svc.runs
      /\ t.activeByDesign = svc.activeByDesign /\ t.queue = svc.queue
      /\ t.executing = svc.executing /\ t.disposed = svc.disposed
  BY <1>2 DEF Service
<1>7. t \in Service
  <2> DEFINE settled == [svc.settled EXCEPT ![r] = svc.settled[s]]
  <2>1. settled \in [Callers -> Settled] /\ t = [svc EXCEPT !.settled = settled]
    BY <1>2 DEF Service
  <2> HIDE DEF settled, t
  <2> QED BY <1>2, <2>1 DEF Service
<1> HIDE DEF t
<1>8. \A x \in Callers : t.settled[x] = IF x = r THEN svc.settled[s] ELSE svc.settled[x]
  BY <1>2, <1>6
<1>9. Places(t)
  BY <1>2, <1>6 DEF Places
<1>10. Busy(t) /\ IndexNamesLive(t) /\ LiveIsIndexed(t)
  BY <1>2, <1>6 DEF Busy, IndexNamesLive, LiveIsIndexed
<1>11. Verdicts(t)
  BY <1>1, <1>2, <1>5, <1>6, <1>8 DEF Verdicts
<1>12. Whole(t)
  BY <1>7, <1>9, <1>10, <1>11 DEF Whole, Sound
<1>13. Whole(svc)'
  BY <1>1, <1>12, WholeNext
<1>14. \A d \in Designs : row'[d] \in Nat /\ row'[d] >= row[d] /\ row'[d] <= head[d]
  BY <1>1, Given DEF IInv, Rows, NoOrphanRow
<1>15. \A x \in Callers : svc'.status[x] \in Live2 => row'[DesignOf(x)] <= RevisionOf(x)
  BY <1>1, <1>6 DEF IInv, Rows
<1>16. \A c \in Callers : caller[c].at = "reading" =>
          RevisionOf(c) = 0 \/ row'[DesignOf(c)] <= RevisionOf(c)
  BY <1>1 DEF IInv, Rows
<1>17. ASSUME t.settled[r].is = "report"
       PROVE  /\ t.settled[r].revision \in Nat
              /\ t.settled[r].revision >= RevisionOf(r)
              /\ head[DesignOf(r)] = 0 \/ row'[DesignOf(r)] >= t.settled[r].revision
  <2>1. /\ svc.settled[s].is = "report" /\ svc.settled[s].revision \in Nat
        /\ RevisionOf(r) \in Nat /\ RevisionOf(s) \in Nat
    BY <1>2, <1>8, <1>17, Given
  <2> QED BY <1>1, <1>3, <1>4, <1>8, <2>1
<1>18. \A x \in Callers :
         /\ svc'.status[x] = "none" <=> svc.status[x] = "none"
         /\ svc'.status[x] \in Live2 => svc.status[x] \in Live2
         /\ svc'.follows[x] \in {svc.follows[x], NoRun}
         /\ svc'.settled[x].is = "report" =>
               \/ svc'.settled[x] = svc.settled[x]
               \/ /\ svc'.settled[x].revision \in Nat
                  /\ svc'.settled[x].revision >= RevisionOf(x)
                  /\ \/ head[DesignOf(x)] = 0
                     \/ row'[DesignOf(x)] >= svc'.settled[x].revision
  BY <1>1, <1>6, <1>8, <1>17
<1>19. Attended' /\ Ordered' /\ Chains' /\ Rows'
  BY <1>1, <1>14, <1>15, <1>16, <1>18, Carried
<1>20. TypeOK' /\ Working'
  <2>1. job' \in [Callers -> Worker!Fates] /\ aborted' \subseteq Callers
    BY <1>1 DEF IInv, TypeOK
  <2>2. TypeOK'
    BY <1>1, <1>13, <2>1, TypeNext
  <2>3. Working'
    BY <1>1, <1>6 DEF IInv, Working
  <2> QED BY <2>2, <2>3
<1> QED BY <1>13, <1>19, <1>20 DEF IInv

\* execute() leaves a run that somebody else ended: no callbacks, no row.
LEMMA DroppedKeeps ==
    ASSUME IInv, NEW r \in Callers, svc.at[r] # "none", svc.status[r] # "running",
           job[r] # "open", Dropped(r), UNCHANGED <<caller, reads, job, aborted>>
    PROVE  IInv'
<1> DEFINE t == Left(svc, r)
<1>1. svc' = t /\ UNCHANGED <<head, row, caller, reads>>
  BY DEF Dropped
<1>2. /\ Sound(svc) /\ Busy(svc) /\ IndexNamesLive(svc) /\ LiveIsIndexed(svc)
      /\ svc.status[r] \notin Live2 /\ svc \in Service
  BY Given DEF Whole, Sound, Places, Live2
<1>3. /\ Sound(t) /\ Busy(t) /\ Kept(svc, t)
      /\ \A x \in Callers : t.at[x] = "worker" <=> svc.at[x] = "worker" /\ x # r
  BY <1>2, LeftFacts
<1> HIDE DEF t
<1>4. /\ Whole(t)
      /\ \A x \in Callers : t.status[x] = "none" <=> svc.status[x] = "none"
      /\ \A x \in Callers : t.status[x] \in Live2 <=> svc.status[x] \in Live2
  BY <1>2, <1>3, KeptIndex DEF Whole, Sound
<1>5. job' \in [Callers -> Worker!Fates] /\ aborted' \subseteq Callers
  BY DEF IInv, TypeOK
<1>6. \A x \in Callers : job'[x] = "open" => t.at[x] = "worker"
  BY <1>3 DEF IInv, Working
<1>7. t.follows = svc.follows /\ t.settled = svc.settled
  BY <1>3 DEF Kept
<1> QED BY <1>1, <1>4, <1>5, <1>6, <1>7, ServiceStep

\* execute() ends the run without a report.
LEMMA EndedKeeps ==
    ASSUME IInv, NEW r \in Callers, svc.status[r] = "running", job[r] # "open",
           Fails(r) \/ CancelledInside(r), UNCHANGED <<caller, reads, job, aborted>>
    PROVE  IInv'
<1>1. PICK status \in {"failed", "cancelled"} :
        svc' = Left(Finish(svc, r, status, Rejected, NoRun), r)
  BY DEF Fails, CancelledInside, CancelRun
<1> DEFINE t == Left(Finish(svc, r, status, Rejected, NoRun), r)
<1>2. status \in Terminal /\ Rejected \in Settled /\ Rejected # Pending
      /\ Whole(svc) /\ DesignOf(r) \in Designs
  BY Given, Values DEF Terminal
<1>3. /\ Whole(t)
      /\ \A x \in Callers :
           /\ t.status[x] = "none" <=> svc.status[x] = "none"
           /\ t.status[x] \in Live2 <=> svc.status[x] \in Live2 /\ x # r
           /\ t.follows[x] \in {svc.follows[x], NoRun}
           /\ t.settled[x] = IF x = r THEN Rejected ELSE svc.settled[x]
           /\ t.at[x] = "worker" <=> svc.at[x] = "worker" /\ x # r
  BY <1>2, EndKeeps
<1>4. svc' = t /\ UNCHANGED <<head, row, caller, reads>>
  BY <1>1 DEF Fails, CancelledInside
<1> HIDE DEF t
<1>5. job' \in [Callers -> Worker!Fates] /\ aborted' \subseteq Callers
  BY DEF IInv, TypeOK
<1>6. \A x \in Callers : job'[x] = "open" => t.at[x] = "worker"
  BY <1>3 DEF IInv, Working
<1>7. \A x \in Callers : t.settled[x].is = "report" => t.settled[x] = svc.settled[x]
  BY <1>3, Values
<1> QED BY <1>3, <1>4, <1>5, <1>6, <1>7, ServiceStep

LEMMA LibraryReadKeeps ==
    ASSUME IInv, NEW r \in Callers, LibraryRead(r)
    PROVE  IInv'
<1>1. svc.at[r] = "library" /\ job[r] # "open" /\ UNCHANGED <<caller, reads>>
  BY DEF LibraryRead, IInv, Working
<1>2. CASE svc.status[r] # "running" /\ Dropped(r) /\ UNCHANGED <<job, aborted>>
  BY <1>1, <1>2, DroppedKeeps
<1>3. CASE svc.status[r] = "running" /\ Fails(r) /\ UNCHANGED <<job, aborted>>
  BY <1>1, <1>3, EndedKeeps
<1>4. CASE /\ svc.status[r] = "running" /\ Worker!Call(r)
           /\ svc' = [svc EXCEPT !.at[r] = "worker"] /\ UNCHANGED <<head, row>>
  <2> DEFINE t == [svc EXCEPT !.at[r] = "worker"]
  <2>1. /\ svc \in Service /\ Places(svc) /\ Verdicts(svc) /\ Busy(svc)
        /\ IndexNamesLive(svc) /\ LiveIsIndexed(svc)
        /\ svc.at \in [Callers -> {"none", "library", "worker"}]
    BY Given DEF Whole, Sound
  <2>2. /\ t.status = svc.status /\ t.at = [svc.at EXCEPT ![r] = "worker"]
        /\ t.settled = svc.settled /\ t.follows = svc.follows /\ t.runs = svc.runs
        /\ t.activeByDesign = svc.activeByDesign /\ t.queue = svc.queue
        /\ t.executing = svc.executing /\ t.disposed = svc.disposed
    BY <2>1 DEF Service
  <2>3. t \in Service
    <3> DEFINE at == [svc.at EXCEPT ![r] = "worker"]
    <3>1. at \in [Callers -> {"none", "library", "worker"}] /\ t = [svc EXCEPT !.at = at]
      BY <2>1 DEF Service
    <3> HIDE DEF at, t
    <3> QED BY <2>1, <3>1 DEF Service
  <2>4. svc' = t
    BY <1>4
  <2> HIDE DEF t
  <2>5. \A x \in Callers : t.at[x] = IF x = r THEN "worker" ELSE svc.at[x]
    BY <2>1, <2>2
  <2>6. Places(t)
    BY <1>1, <1>4, <2>1, <2>2, <2>5 DEF Places
  <2>7. Verdicts(t) /\ Busy(t) /\ IndexNamesLive(t) /\ LiveIsIndexed(t)
    BY <2>1, <2>2 DEF Verdicts, Busy, IndexNamesLive, LiveIsIndexed
  <2>8. Whole(t)
    BY <2>3, <2>6, <2>7 DEF Whole, Sound
  <2>9. job \in [Callers -> Worker!Fates] /\ aborted \subseteq Callers
    BY DEF IInv, TypeOK
  <2>10. /\ job' \in [Callers -> Worker!Fates] /\ aborted' \subseteq Callers
         /\ \A x \in Callers \ {r} : job'[x] = job[x]
    BY <1>4, <2>9 DEF Worker!Call, Worker!Fates
  <2>11. \A x \in Callers : job'[x] = "open" => t.at[x] = "worker"
    BY <2>5, <2>10 DEF IInv, Working
  <2> QED BY <1>1, <1>4, <2>2, <2>4, <2>8, <2>10, <2>11, ServiceStep
<1> QED BY <1>1, <1>2, <1>3, <1>4 DEF LibraryRead

\* The report of the only run of the design that could store one.
Stores(r) ==
    /\ svc.status[r] = "running" /\ head[DesignOf(r)] # 0
    /\ Saved(r)
    /\ svc' = Left(Finish(svc, r, "completed", Reported(RevisionOf(r)), NoRun), r)
    /\ UNCHANGED head

LEMMA StoresRow ==
    ASSUME IInv, NEW r \in Callers, Stores(r)
    PROVE  /\ row[DesignOf(r)] <= RevisionOf(r) /\ RevisionOf(r) <= head[DesignOf(r)]
           /\ \A d \in Designs : row'[d] = IF d = DesignOf(r) THEN RevisionOf(r) ELSE row[d]
           /\ \A d \in Designs : row'[d] \in Nat /\ row'[d] >= row[d] /\ row'[d] <= head[d]
<1>1. svc.status[r] \in Live2 /\ svc.status[r] # "none"
  BY DEF Stores, Live2
<1>2. row[DesignOf(r)] <= RevisionOf(r)
  BY <1>1 DEF IInv, Rows
<1>3. RevisionOf(r) <= head[DesignOf(r)]
  BY <1>1 DEF IInv, Attended, Ordered, Stores
<1>4. \A d \in Designs : row'[d] = IF d = DesignOf(r) THEN RevisionOf(r) ELSE row[d]
  BY DEF Stores, Saved, IInv, TypeOK
<1>5. \A d \in Designs : row[d] <= head[d]
  BY DEF IInv, Rows, NoOrphanRow
<1>6. /\ \A d \in Designs : head[d] \in Nat /\ row[d] \in Nat
      /\ DesignOf(r) \in Designs /\ RevisionOf(r) \in Nat
  BY Given
<1> QED BY <1>2, <1>3, <1>4, <1>5, <1>6

LEMMA StoresKeeps ==
    ASSUME IInv, NEW r \in Callers, Stores(r), job[r] # "open",
           UNCHANGED <<caller, reads, job, aborted>>
    PROVE  IInv'
<1> DEFINE v == RevisionOf(r)
           t == Left(Finish(svc, r, "completed", Reported(v), NoRun), r)
<1>1. svc.status[r] = "running" /\ svc' = t /\ UNCHANGED <<head, caller, reads>>
  BY DEF Stores
<1>2. v \in Revision /\ v \in Nat
  <2>1. caller[r] \in Caller
    BY DEF IInv, TypeOK
  <2> QED BY <2>1, Given DEF Caller, RevisionOf
<1>3. /\ "completed" \in Terminal /\ Reported(v) \in Settled /\ Reported(v) # Pending
      /\ Whole(svc) /\ DesignOf(r) \in Designs
  BY <1>2, Given, Values DEF Terminal
<1>4. /\ Whole(t)
      /\ \A x \in Callers :
           /\ t.status[x] = "none" <=> svc.status[x] = "none"
           /\ t.status[x] \in Live2 <=> svc.status[x] \in Live2 /\ x # r
           /\ t.follows[x] \in {svc.follows[x], NoRun}
           /\ t.settled[x] = IF x = r THEN Reported(v) ELSE svc.settled[x]
           /\ t.at[x] = "worker" <=> svc.at[x] = "worker" /\ x # r
  BY <1>1, <1>3, EndKeeps
<1> HIDE DEF t
<1>5. /\ \A d \in Designs : row'[d] = IF d = DesignOf(r) THEN v ELSE row[d]
      /\ \A d \in Designs : row'[d] \in Nat /\ row'[d] >= row[d] /\ row'[d] <= head[d]
  BY StoresRow
<1>6. \A x \in Callers : svc'.status[x] \in Live2 => row'[DesignOf(x)] <= RevisionOf(x)
  <2> SUFFICES ASSUME NEW x \in Callers, t.status[x] \in Live2
               PROVE  row'[DesignOf(x)] <= RevisionOf(x)
    BY <1>1
  <2>1. svc.status[x] \in Live2 /\ x # r /\ svc.status[r] \in Live2
    BY <1>1, <1>4 DEF Live2
  <2>2. DesignOf(x) # DesignOf(r)
    BY <1>3, <2>1 DEF Whole, LiveIsIndexed
  <2>3. row[DesignOf(x)] <= RevisionOf(x)
    BY <2>1 DEF IInv, Rows
  <2> QED BY <1>5, <2>2, <2>3, Given
<1>7. ASSUME NEW c \in Callers, caller[c].at = "reading"
      PROVE  RevisionOf(c) = 0 \/ row'[DesignOf(c)] <= RevisionOf(c)
  <2>1. CASE DesignOf(c) = DesignOf(r)
    <3>1. RevisionOf(c) = 0 \/ v <= RevisionOf(c)
      BY <1>1, <1>7, <2>1 DEF IInv, Ordered
    <3> QED BY <1>3, <1>5, <2>1, <3>1
  <2>2. CASE DesignOf(c) # DesignOf(r)
    <3>1. RevisionOf(c) = 0 \/ row[DesignOf(c)] <= RevisionOf(c)
      BY <1>7 DEF IInv, Rows
    <3> QED BY <1>5, <2>2, <3>1, Given
  <2> QED BY <2>1, <2>2
<1>8. \A x \in Callers :
         /\ svc'.status[x] = "none" <=> svc.status[x] = "none"
         /\ svc'.status[x] \in Live2 => svc.status[x] \in Live2
         /\ svc'.follows[x] \in {svc.follows[x], NoRun}
         /\ svc'.settled[x].is = "report" =>
               \/ svc'.settled[x] = svc.settled[x]
               \/ /\ svc'.settled[x].revision \in Nat
                  /\ svc'.settled[x].revision >= RevisionOf(x)
                  /\ \/ head[DesignOf(x)] = 0
                     \/ row'[DesignOf(x)] >= svc'.settled[x].revision
  <2>1. Reported(v).revision = v
    BY <1>2, Values
  <2>2. row'[DesignOf(r)] = v
    BY <1>3, <1>5
  <2> QED BY <1>1, <1>2, <1>4, <2>1, <2>2
<1>9. Attended' /\ Ordered' /\ Chains' /\ Rows'
  BY <1>1, <1>5, <1>6, <1>7, <1>8, Carried
<1>10. Whole(svc)'
  BY <1>1, <1>4, WholeNext
<1>11. TypeOK'
  <2>1. row' = [row EXCEPT ![DesignOf(r)] = v]
    BY DEF Stores, Saved
  <2>2. job' \in [Callers -> Worker!Fates] /\ aborted' \subseteq Callers
    BY DEF IInv, TypeOK
  <2> QED BY <1>1, <1>2, <1>3, <1>10, <2>1, <2>2, TypeNext
<1>12. Working'
  BY <1>1, <1>4 DEF IInv, Working
<1> QED BY <1>9, <1>10, <1>11, <1>12 DEF IInv

LEMMA WorkerSettledKeeps ==
    ASSUME IInv, NEW r \in Callers, WorkerSettled(r)
    PROVE  IInv'
<1>1. /\ svc.at[r] # "none" /\ job[r] # "open"
      /\ UNCHANGED <<caller, reads, job, aborted>>
  BY DEF WorkerSettled
<1>2. CASE svc.status[r] # "running" /\ Dropped(r)
  BY <1>1, <1>2, DroppedKeeps
<1>3. CASE svc.status[r] = "running" /\ (Fails(r) \/ CancelledInside(r))
  BY <1>1, <1>3, EndedKeeps
<1>4. CASE Stores(r)
  BY <1>1, <1>4, StoresKeeps
<1>5. \/ svc.status[r] # "running" /\ Dropped(r)
      \/ svc.status[r] = "running" /\ (Fails(r) \/ CancelledInside(r))
      \/ Stores(r)
  BY DEF WorkerSettled, PersistAndComplete, Stores
<1> QED BY <1>2, <1>3, <1>4, <1>5

LEMMA WorkerEndsKeeps ==
    ASSUME IInv, NEW r \in Callers, WorkerEnds(r)
    PROVE  IInv'
<1>1. UNCHANGED <<head, row, caller, reads, svc>> /\ Whole(svc)
  BY Given DEF WorkerEnds
<1>2. job \in [Callers -> Worker!Fates] /\ aborted \subseteq Callers
  BY DEF IInv, TypeOK
<1>3. /\ job' \in [Callers -> Worker!Fates] /\ aborted' \subseteq Callers
      /\ \A x \in Callers : job'[x] = "open" => job[x] = "open"
  <2>1. CASE Worker!Report(r) \/ Worker!Fail(r)
    BY <1>2, <2>1 DEF Worker!Report, Worker!Fail, Worker!Ends, Worker!Fates
  <2>2. CASE Worker!Cancel({r})
    BY <1>2, <2>2 DEF Worker!Cancel, Worker!Cancelled, Worker!Open, Worker!Fates
  <2> QED BY <2>1, <2>2 DEF WorkerEnds
<1>4. \A x \in Callers : job'[x] = "open" => svc.at[x] = "worker"
  BY <1>3 DEF IInv, Working
<1> QED BY <1>1, <1>3, <1>4, ServiceStep

LEMMA DesignsKeep ==
    ASSUME IInv, NEW d \in Designs, Edit(d) \/ DeleteDesign(d)
    PROVE  IInv'
<1>1. /\ UNCHANGED <<caller, reads, svc, job, aborted>>
      /\ TypeOK /\ Whole(svc) /\ Working /\ Attended /\ Ordered /\ Chains /\ Rows
  BY DEF Edit, DeleteDesign, IInv
<1>2. \A c : DesignOf(c)' = DesignOf(c) /\ RevisionOf(c)' = RevisionOf(c)
  BY <1>1 DEF DesignOf, RevisionOf
<1>3. Whole(svc)'
  BY <1>1, WholeNext
<1>4. Working' /\ Attended' /\ Chains'
  BY <1>1 DEF Working, Attended, Chains, Distinct, DesignOf, RevisionOf
<1>5. /\ head \in [Designs -> 0..MaxRevision] /\ row \in [Designs -> 0..MaxRevision]
      /\ head[d] # 0 /\ MaxRevision \in Nat
  BY <1>1, MaxRevisionAssumption DEF TypeOK, Revision, Edit, DeleteDesign
<1>6. /\ head' \in [Designs -> Revision] /\ row' \in [Designs -> Revision]
      /\ \A e \in Designs : \/ e # d /\ head'[e] = head[e] /\ row'[e] = row[e]
                            \/ e = d /\ head'[e] = head[e] + 1 /\ row'[e] = row[e]
                            \/ e = d /\ head'[e] = 0 /\ row'[e] = 0
  BY <1>5 DEF Edit, DeleteDesign, Revision
<1>7. TypeOK'
  BY <1>1, <1>6 DEF TypeOK
<1>8. /\ \A c \in Callers : DesignOf(c) \in Designs /\ RevisionOf(c) \in Nat
      /\ \A e \in Designs : head[e] \in Nat /\ row[e] \in Nat
      /\ \A c \in Callers : svc.settled[c].is = "report" => svc.settled[c].revision \in Nat
  BY <1>1, Given DEF IInv
<1>9. \A e \in Designs :
        \/ head'[e] = 0
        \/ row'[e] = row[e] /\ head'[e] >= head[e] /\ (head'[e] # head[e] => head[e] # 0)
  BY <1>5, <1>6, <1>8
<1>10. Ordered'
  <2>1. \A c \in Callers : caller[c].at \in {"reading", "waiting"} =>
          head'[DesignOf(c)] = 0 \/ RevisionOf(c) <= head'[DesignOf(c)]
    <3> SUFFICES ASSUME NEW c \in Callers, caller[c].at \in {"reading", "waiting"},
                        head'[DesignOf(c)] # 0
                 PROVE  RevisionOf(c) <= head'[DesignOf(c)]
      OBVIOUS
    <3>1. head[DesignOf(c)] = 0 \/ RevisionOf(c) <= head[DesignOf(c)]
      BY <1>1 DEF Ordered
    <3> QED BY <1>6, <1>5, <1>8, <3>1
  <2> QED BY <1>1, <1>2, <2>1 DEF Ordered, DesignOf, RevisionOf
<1>11. Rows'
  <2>1. \A r \in Callers : svc.settled[r].is = "report" =>
          head'[DesignOf(r)] = 0 \/ row'[DesignOf(r)] >= svc.settled[r].revision
    BY <1>1, <1>8, <1>9 DEF Rows
  <2>2. \A e \in Designs : row'[e] <= head'[e]
    BY <1>1, <1>6, <1>8 DEF Rows, NoOrphanRow
  <2>3. \A r \in Callers : svc.status[r] \in Live2 => row'[DesignOf(r)] <= RevisionOf(r)
    <3> SUFFICES ASSUME NEW r \in Callers, svc.status[r] \in Live2
                 PROVE  row'[DesignOf(r)] <= RevisionOf(r)
      OBVIOUS
    <3>1. row[DesignOf(r)] <= RevisionOf(r)
      BY <1>1 DEF Rows
    <3> QED BY <1>6, <1>8, <3>1
  <2>4. \A c \in Callers : caller[c].at = "reading" =>
          RevisionOf(c) = 0 \/ row'[DesignOf(c)] <= RevisionOf(c)
    <3> SUFFICES ASSUME NEW c \in Callers, caller[c].at = "reading", RevisionOf(c) # 0
                 PROVE  row'[DesignOf(c)] <= RevisionOf(c)
      OBVIOUS
    <3>1. row[DesignOf(c)] <= RevisionOf(c)
      BY <1>1 DEF Rows
    <3> QED BY <1>6, <1>8, <3>1
  <2> QED BY <1>1, <1>2, <2>1, <2>2, <2>3, <2>4 DEF Rows, NoOrphanRow
<1> QED BY <1>3, <1>4, <1>7, <1>10, <1>11 DEF IInv

\* A read sees the head, which no earlier read or run is ahead of.
LEMMA StartKeeps ==
    ASSUME IInv, NEW c \in Callers, Start(c)
    PROVE  IInv'
<1>1. /\ caller[c].at = "idle" /\ UNCHANGED <<head, row, svc, job, aborted>>
      /\ TypeOK /\ Whole(svc) /\ Working /\ Attended /\ Ordered /\ Chains /\ Rows
      /\ caller \in [Callers -> Caller] /\ reads \in Seq(Callers)
  BY DEF Start, IInv, TypeOK
<1>2. /\ \A x \in Callers : DesignOf(x) \in Designs /\ RevisionOf(x) \in Nat
      /\ \A e \in Designs : head[e] \in Nat /\ row[e] \in Nat /\ head[e] \in Revision
      /\ \A x \in Callers : svc.settled[x].is = "report" => svc.settled[x].revision \in Nat
      /\ svc.follows \in [Callers -> RunId]
  BY <1>1, Given DEF TypeOK
<1> DEFINE v == IF svc.disposed THEN caller[c].read ELSE head[DesignOf(c)]
           at == IF svc.disposed THEN "refused" ELSE "reading"
<1>3. /\ caller' \in [Callers -> Caller]
      /\ \A x \in Callers \ {c} : caller'[x] = caller[x]
      /\ caller'[c].design = caller[c].design /\ caller'[c].run = caller[c].run
      /\ caller'[c].at = at /\ caller'[c].read = v
  <2>1. caller[c] \in Caller /\ DesignOf(c) \in Designs
    BY <1>1, <1>2
  <2>2. v \in Revision
    BY <1>2, <2>1 DEF Caller
  <2> DEFINE k == [caller[c] EXCEPT !.at = at, !.read = v]
  <2>3. caller' = [caller EXCEPT ![c] = k]
    BY <1>1, <2>1 DEF Start, Caller
  <2>4. k \in Caller /\ k.design = caller[c].design /\ k.run = caller[c].run
        /\ k.at = at /\ k.read = v
    <3> HIDE DEF v
    <3> QED BY <2>1, <2>2 DEF Caller
  <2> HIDE DEF k
  <2> QED BY <1>1, <2>3, <2>4
<1>4. /\ reads' = IF svc.disposed THEN reads ELSE Append(reads, c)
      /\ reads' \in Seq(Callers) /\ ~Holds(reads, c)
  <2>1. reads' = IF svc.disposed THEN reads ELSE Append(reads, c)
    BY DEF Start
  <2>2. ~Holds(reads, c)
    BY <1>1 DEF Attended
  <2> QED BY <1>1, <2>1, <2>2
<1>5. \A x \in Callers : /\ DesignOf(x)' = DesignOf(x)
                         /\ x # c => RevisionOf(x)' = RevisionOf(x)
                         /\ x = c => RevisionOf(x)' = v
  BY <1>3 DEF DesignOf, RevisionOf
<1>6. Whole(svc)'
  BY <1>1, <1>3, WholeNext
<1>7. TypeOK' /\ Working'
  BY <1>1, <1>3, <1>4 DEF TypeOK, Working
<1>8. svc.status[c] = "none" /\ caller[c].run = NoRun
  BY <1>1 DEF Attended
<1> HIDE DEF v, at
<1>9. Attended'
  <2>1. Distinct(reads)'
    BY <1>1, <1>4 DEF Attended, Distinct, Holds
  <2>2. ASSUME NEW x \in Callers PROVE Holds(reads', x) <=> caller'[x].at = "reading"
    <3>1. CASE svc.disposed
      BY <1>1, <1>3, <1>4, <3>1 DEF Attended, at
    <3>2. CASE ~svc.disposed
      <4>1. Holds(reads', x) <=> x = c \/ Holds(reads, x)
        BY <1>1, <1>4, <3>2, HoldsFacts
      <4> QED BY <1>1, <1>3, <3>2, <4>1 DEF Attended, at
    <3> QED BY <3>1, <3>2
  <2>3. \A x \in Callers : svc'.status[x] # "none" => caller'[x].at = "waiting"
    BY <1>1, <1>3, <1>8 DEF Attended
  <2>4. ASSUME NEW x \in Callers
        PROVE  IF caller'[x].at = "waiting"
               THEN /\ caller'[x].run # NoRun /\ svc'.status[caller'[x].run] # "none"
                    /\ caller'[caller'[x].run].design = caller'[x].design
                    /\ caller'[caller'[x].run].read >= caller'[x].read
               ELSE caller'[x].run = NoRun
    <3>1. CASE x = c
      BY <1>3, <1>8, <3>1 DEF at
    <3>2. CASE x # c
      <4>1. caller'[x] = caller[x] /\ caller[x].run \in Callers \cup {NoRun}
        <5>1. caller[x] \in Caller
          BY <1>1
        <5> QED BY <1>3, <3>2, <5>1 DEF Caller, RunId
      <4>2. CASE caller[x].at # "waiting"
        BY <1>1, <4>1, <4>2 DEF Attended
      <4>3. CASE caller[x].at = "waiting"
        <5>1. /\ caller[x].run # NoRun /\ svc.status[caller[x].run] # "none"
              /\ DesignOf(caller[x].run) = DesignOf(x)
              /\ RevisionOf(caller[x].run) >= RevisionOf(x)
          BY <1>1, <4>3 DEF Attended
        <5>2. caller[x].run \in Callers \ {c}
          BY <1>8, <4>1, <5>1
        <5> QED BY <1>1, <1>3, <4>1, <4>3, <5>1, <5>2 DEF DesignOf, RevisionOf
      <4> QED BY <4>2, <4>3
    <3> QED BY <3>1, <3>2
  <2> QED BY <2>1, <2>2, <2>3, <2>4 DEF Attended, DesignOf, RevisionOf
<1>10. Ordered'
  <2>1. ASSUME NEW x \in Callers, caller'[x].at \in {"reading", "waiting"}
        PROVE  head[DesignOf(x)] = 0 \/ RevisionOf(x)' <= head[DesignOf(x)]
    <3>1. CASE x = c
      <4>1. v = head[DesignOf(c)]
        BY <1>3, <2>1, <3>1 DEF at, v
      <4> QED BY <1>2, <1>5, <3>1, <4>1
    <3>2. CASE x # c
      BY <1>1, <1>3, <1>5, <2>1, <3>2 DEF Ordered
    <3> QED BY <3>1, <3>2
  <2>2. ASSUME NEW j \in 1..Len(reads'), NEW k \in 1..Len(reads'), j < k,
               DesignOf(reads'[j]) = DesignOf(reads'[k])
        PROVE  \/ caller'[reads'[k]].read = 0
               \/ caller'[reads'[j]].read <= caller'[reads'[k]].read
    <3>1. CASE k \in 1..Len(reads) /\ reads'[k] = reads[k]
      <4>1. j \in 1..Len(reads) /\ reads'[j] = reads[j]
        BY <1>1, <1>4, <2>2, <3>1
      <4>2. reads[j] \in Callers \ {c} /\ reads[k] \in Callers \ {c}
        BY <1>1, <1>4, <3>1, <4>1 DEF Holds
      <4>3. RevisionOf(reads[k]) = 0 \/ RevisionOf(reads[j]) <= RevisionOf(reads[k])
        BY <1>1, <2>2, <3>1, <4>1 DEF Ordered
      <4> QED BY <1>3, <3>1, <4>1, <4>2, <4>3 DEF RevisionOf
    <3>2. CASE ~svc.disposed /\ k = Len(reads) + 1 /\ reads'[k] = c
      <4>1. j \in 1..Len(reads) /\ reads'[j] = reads[j]
        BY <1>1, <1>4, <2>2, <3>2
      <4>2. reads[j] \in Callers \ {c} /\ caller[reads[j]].at = "reading"
        BY <1>1, <1>4, <3>2, <4>1 DEF Holds, Attended
      <4>3. head[DesignOf(c)] = 0 \/ RevisionOf(reads[j]) <= head[DesignOf(c)]
        BY <1>1, <2>2, <3>2, <4>1, <4>2 DEF Ordered
      <4>4. v = head[DesignOf(c)]
        BY <3>2 DEF v
      <4> QED BY <1>3, <3>2, <4>1, <4>2, <4>3, <4>4 DEF RevisionOf
    <3>3. \/ k \in 1..Len(reads) /\ reads'[k] = reads[k]
          \/ ~svc.disposed /\ k = Len(reads) + 1 /\ reads'[k] = c
      BY <1>1, <1>4, <2>2
    <3> QED BY <3>1, <3>2, <3>3
  <2>3. ASSUME NEW x \in Callers, NEW r \in Callers, caller'[x].at = "reading",
               svc.status[r] # "none", DesignOf(r) = DesignOf(x)
        PROVE  RevisionOf(x)' = 0 \/ RevisionOf(r)' <= RevisionOf(x)'
    <3>1. r # c /\ caller[r].at = "waiting"
      BY <1>1, <1>8, <2>3 DEF Attended
    <3>2. CASE x = c
      <4>1. v = head[DesignOf(c)]
        BY <1>3, <2>3, <3>2 DEF at, v
      <4>2. head[DesignOf(r)] = 0 \/ RevisionOf(r) <= head[DesignOf(r)]
        BY <1>1, <3>1 DEF Ordered
      <4> QED BY <1>5, <2>3, <3>1, <3>2, <4>1, <4>2
    <3>3. CASE x # c
      BY <1>1, <1>3, <1>5, <2>3, <3>1, <3>3 DEF Ordered
    <3> QED BY <3>2, <3>3
  <2>4. \A k \in 1..Len(reads') : reads'[k] \in Callers
    BY <1>4
  <2> QED BY <1>1, <1>3, <1>5, <2>1, <2>2, <2>3, <2>4 DEF Ordered, DesignOf, RevisionOf
<1>11. Chains'
  <2> SUFFICES ASSUME NEW r \in Callers
      PROVE /\ svc.follows[r] # NoRun =>
                  /\ svc.status[svc.follows[r]] # "none"
                  /\ caller'[svc.follows[r]].design = caller'[r].design
                  /\ caller'[svc.follows[r]].read > caller'[r].read
            /\ svc.settled[r].is = "report" => svc.settled[r].revision >= caller'[r].read
    BY <1>1 DEF Chains, DesignOf, RevisionOf
  <2>1. CASE r = c
    <3>1. svc.settled[r] = Pending /\ svc.follows[r] = NoRun
      BY <1>1, <1>8, <2>1 DEF Whole, Sound, Verdicts, Terminal
    <3> QED BY <3>1, Values
  <2>2. CASE r # c
    <3>1. svc.follows[r] # NoRun => svc.follows[r] \in Callers \ {c}
      BY <1>1, <1>2, <1>8 DEF RunId, Chains
    <3> QED BY <1>1, <1>3, <2>2, <3>1 DEF Chains, DesignOf, RevisionOf
  <2> QED BY <2>1, <2>2
<1>12. Rows'
  <2>1. \A r \in Callers : svc.settled[r].is = "report" =>
          head[DesignOf(r)] = 0 \/ row[DesignOf(r)] >= svc.settled[r].revision
    BY <1>1 DEF Rows
  <2>2. \A r \in Callers : svc.status[r] \in Live2 => row[DesignOf(r)] <= RevisionOf(r)'
    <3>1. \A r \in Callers : svc.status[r] \in Live2 => r # c
      BY <1>8 DEF Live2
    <3> QED BY <1>1, <1>5, <3>1 DEF Rows
  <2>3. ASSUME NEW x \in Callers, caller'[x].at = "reading"
        PROVE  RevisionOf(x)' = 0 \/ row[DesignOf(x)] <= RevisionOf(x)'
    <3>1. CASE x = c
      <4>1. v = head[DesignOf(c)]
        BY <1>3, <2>3, <3>1 DEF at, v
      <4> QED BY <1>1, <1>2, <1>5, <3>1, <4>1 DEF Rows, NoOrphanRow
    <3>2. CASE x # c
      BY <1>1, <1>3, <1>5, <2>3, <3>2 DEF Rows
    <3> QED BY <3>1, <3>2
  <2>4. NoOrphanRow'
    BY <1>1 DEF Rows, NoOrphanRow
  <2> QED BY <1>1, <1>5, <2>1, <2>2, <2>3, <2>4 DEF Rows
<1> QED BY <1>6, <1>7, <1>9, <1>10, <1>11, <1>12 DEF IInv

\* Only the run of c is new, and who follows it is of an earlier revision.
Grown(t, c, at) ==
    \A x \in Callers :
       /\ svc.status[x] # "none" => t.status[x] # "none"
       /\ t.status[x] # "none" => svc.status[x] # "none" \/ (x = c /\ at = "waiting")
       /\ t.status[x] \in Live2 => svc.status[x] \in Live2 \/ (x = c /\ RevisionOf(c) # 0)
       /\ \/ t.follows[x] = svc.follows[x]
          \/ /\ t.follows[x] = c /\ t.status[c] # "none"
             /\ DesignOf(x) = DesignOf(c) /\ RevisionOf(x) < RevisionOf(c)
       /\ t.settled[x] = svc.settled[x]

\* The first reader has read, and may have created the run t gives it.
LEMMA ResumeStep ==
    ASSUME IInv, reads # <<>>, reads' = Tail(reads), UNCHANGED <<head, row>>,
           NEW c \in Callers, c = Head(reads), NEW t, svc' = t, Whole(t),
           job' \in [Callers -> Worker!Fates], aborted' \subseteq Callers,
           \A r \in Callers : job'[r] = "open" => t.at[r] = "worker",
           NEW at \in {"refused", "waiting"}, NEW run \in RunId,
           caller' = [caller EXCEPT ![c].at = at, ![c].run = run],
           IF at = "waiting"
           THEN /\ run \in Callers /\ t.status[run] # "none" /\ DesignOf(run) = DesignOf(c)
                /\ RevisionOf(run) >= RevisionOf(c)
           ELSE run = NoRun,
           Grown(t, c, at)
    PROVE  IInv'
<1>1. /\ TypeOK /\ Whole(svc) /\ Working /\ Attended /\ Ordered /\ Chains /\ Rows
      /\ caller \in [Callers -> Caller] /\ reads \in Seq(Callers)
  BY DEF IInv, TypeOK
<1> USE DEF Grown
<1>2. /\ \A x \in Callers : DesignOf(x) \in Designs /\ RevisionOf(x) \in Nat
      /\ \A e \in Designs : head[e] \in Nat /\ row[e] \in Nat
      /\ \A x \in Callers : svc.settled[x].is = "report" => svc.settled[x].revision \in Nat
      /\ svc.follows \in [Callers -> RunId]
  BY Given
<1>3. /\ caller' \in [Callers -> Caller]
      /\ \A x \in Callers \ {c} : caller'[x] = caller[x]
      /\ caller'[c].design = caller[c].design /\ caller'[c].read = caller[c].read
      /\ caller'[c].at = at /\ caller'[c].run = run
  <2>1. caller[c] \in Caller
    BY <1>1
  <2> DEFINE k == [caller[c] EXCEPT !.at = at, !.run = run]
  <2>2. caller' = [caller EXCEPT ![c] = k]
    BY <1>1, <2>1 DEF Caller
  <2>3. k \in Caller /\ k.design = caller[c].design /\ k.read = caller[c].read
        /\ k.at = at /\ k.run = run
    BY <2>1 DEF Caller
  <2> HIDE DEF k
  <2> QED BY <1>1, <2>2, <2>3
<1>4. /\ Tail(reads) \in Seq(Callers) /\ Holds(reads, c)
      /\ Len(reads) \in Nat \ {0} /\ reads[1] = c
      /\ Len(Tail(reads)) = Len(reads) - 1
      /\ \A k \in 1..Len(Tail(reads)) : Tail(reads)[k] = reads[k + 1]
      /\ \A r : Holds(reads, r) <=> r = c \/ Holds(Tail(reads), r)
  <2>1. Len(reads) \in Nat \ {0} /\ reads[1] = c
    BY <1>1
  <2> QED BY <1>1, <2>1, HoldsFacts
<1>5. \A k \in 1..Len(Tail(reads)) :
        /\ k + 1 \in 1..Len(reads) /\ Tail(reads)[k] = reads[k + 1] /\ reads[k + 1] # c
        /\ reads[k + 1] \in Callers
  <2> SUFFICES ASSUME NEW k \in 1..Len(Tail(reads)) PROVE reads[k + 1] # c
    BY <1>1, <1>4
  <2>1. k + 1 \in 1..Len(reads) /\ 1 \in 1..Len(reads) /\ k + 1 # 1
    BY <1>4
  <2> QED BY <1>1, <1>4, <2>1 DEF Attended, Distinct
<1>6. \A x \in Callers : DesignOf(x)' = DesignOf(x) /\ RevisionOf(x)' = RevisionOf(x)
  BY <1>3 DEF DesignOf, RevisionOf
<1>7. Whole(svc)'
  BY <1>3, WholeNext
<1>8. TypeOK' /\ Working'
  BY <1>1, <1>3, <1>4, <1>7 DEF TypeOK, Working, Whole, Sound
<1>9. caller[c].at = "reading" /\ svc.status[c] = "none"
  BY <1>1, <1>4 DEF Attended
<1>10. Attended'
  <2>1. Distinct(Tail(reads))
    <3> SUFFICES ASSUME NEW j \in 1..Len(Tail(reads)), NEW k \in 1..Len(Tail(reads)),
                        Tail(reads)[j] = Tail(reads)[k]
                 PROVE  j = k
      BY DEF Distinct
    <3>1. j + 1 \in 1..Len(reads) /\ k + 1 \in 1..Len(reads) /\ reads[j + 1] = reads[k + 1]
      BY <1>5
    <3>2. j + 1 = k + 1
      BY <1>1, <3>1 DEF Attended, Distinct
    <3> QED BY <1>4, <3>2
  <2>2. ASSUME NEW x \in Callers PROVE Holds(Tail(reads), x) <=> caller'[x].at = "reading"
    <3>1. CASE x = c
      BY <1>3, <1>5, <3>1 DEF Holds
    <3>2. CASE x # c
      BY <1>1, <1>3, <1>4, <3>2 DEF Attended
    <3> QED BY <3>1, <3>2
  <2>3. \A x \in Callers : t.status[x] # "none" => caller'[x].at = "waiting"
    BY <1>1, <1>3, <1>9 DEF Attended
  <2>4. ASSUME NEW x \in Callers
        PROVE  IF caller'[x].at = "waiting"
               THEN /\ caller'[x].run # NoRun /\ t.status[caller'[x].run] # "none"
                    /\ caller'[caller'[x].run].design = caller'[x].design
                    /\ caller'[caller'[x].run].read >= caller'[x].read
               ELSE caller'[x].run = NoRun
    <3>1. CASE x = c /\ at = "waiting"
      BY <1>3, <3>1, CallersAssumption DEF DesignOf, RevisionOf
    <3>2. CASE x = c /\ at = "refused"
      BY <1>3, <3>2
    <3>3. CASE x # c
      <4>1. caller'[x] = caller[x] /\ caller[x].run \in Callers \cup {NoRun}
        <5>1. caller[x] \in Caller
          BY <1>1
        <5> QED BY <1>3, <3>3, <5>1 DEF Caller, RunId
      <4>2. CASE caller[x].at # "waiting"
        BY <1>1, <4>1, <4>2 DEF Attended
      <4>3. CASE caller[x].at = "waiting"
        <5>1. /\ caller[x].run # NoRun /\ svc.status[caller[x].run] # "none"
              /\ DesignOf(caller[x].run) = DesignOf(x)
              /\ RevisionOf(caller[x].run) >= RevisionOf(x)
          BY <1>1, <4>3 DEF Attended
        <5>2. caller[x].run \in Callers \ {c}
          BY <1>9, <4>1, <5>1
        <5>3. t.status[caller[x].run] # "none"
          BY <5>1, <5>2
        <5>4. caller'[caller[x].run] = caller[caller[x].run]
          BY <1>3, <5>2
        <5> QED BY ONLY <4>1, <4>3, <5>1, <5>3, <5>4 DEF DesignOf, RevisionOf
      <4> QED BY <4>2, <4>3
    <3> QED BY <3>1, <3>2, <3>3
  <2> QED BY <2>1, <2>2, <2>3, <2>4 DEF Attended, DesignOf, RevisionOf
<1>11. Ordered'
  <2>1. ASSUME NEW x \in Callers, caller'[x].at \in {"reading", "waiting"}
        PROVE  head[DesignOf(x)] = 0 \/ RevisionOf(x) <= head[DesignOf(x)]
    BY <1>1, <1>3, <1>9, <2>1 DEF Ordered
  <2>2. ASSUME NEW j \in 1..Len(Tail(reads)), NEW k \in 1..Len(Tail(reads)), j < k,
               DesignOf(reads[j + 1]) = DesignOf(reads[k + 1])
        PROVE  RevisionOf(reads[k + 1]) = 0 \/ RevisionOf(reads[j + 1]) <= RevisionOf(reads[k + 1])
    <3>1. j + 1 \in 1..Len(reads) /\ k + 1 \in 1..Len(reads) /\ j + 1 < k + 1
      BY <1>4, <2>2
    <3> QED BY <1>1, <2>2, <3>1 DEF Ordered
  <2>3. ASSUME NEW x \in Callers, NEW r \in Callers, caller'[x].at = "reading",
               t.status[r] # "none", DesignOf(r) = DesignOf(x)
        PROVE  RevisionOf(x) = 0 \/ RevisionOf(r) <= RevisionOf(x)
    <3>1. x # c /\ caller[x].at = "reading"
      BY <1>3, <2>3
    <3>2. CASE svc.status[r] # "none"
      BY <1>1, <2>3, <3>1, <3>2 DEF Ordered
    <3>3. CASE r = c
      <4>1. PICK k \in 1..Len(Tail(reads)) : Tail(reads)[k] = x
        BY <1>1, <1>4, <3>1 DEF Attended, Holds
      <4>2. k + 1 \in 1..Len(reads) /\ reads[k + 1] = x /\ 1 < k + 1 /\ 1 \in 1..Len(reads)
        BY <1>4, <1>5, <4>1
      <4>3. DesignOf(reads[1]) = DesignOf(reads[k + 1])
        BY <1>4, <2>3, <3>3, <4>2
      <4>4. \/ RevisionOf(reads[k + 1]) = 0
            \/ RevisionOf(reads[1]) <= RevisionOf(reads[k + 1])
        BY <1>1, <4>2, <4>3 DEF Ordered
      <4> QED BY <1>4, <3>3, <4>2, <4>4
    <3> QED BY <2>3, <3>2, <3>3
  <2>4. ASSUME NEW j \in 1..Len(reads'), NEW k \in 1..Len(reads'), j < k,
               caller'[reads'[j]].design = caller'[reads'[k]].design
        PROVE  caller'[reads'[k]].read = 0 \/ caller'[reads'[j]].read <= caller'[reads'[k]].read
    <3>1. /\ reads'[j] = reads[j + 1] /\ reads[j + 1] \in Callers
          /\ reads'[k] = reads[k + 1] /\ reads[k + 1] \in Callers
          /\ j \in 1..Len(Tail(reads)) /\ k \in 1..Len(Tail(reads))
      BY <1>5
    <3>2. \A x \in Callers : caller'[x].design = DesignOf(x) /\ caller'[x].read = RevisionOf(x)
      BY <1>3 DEF DesignOf, RevisionOf
    <3>3. RevisionOf(reads[k + 1]) = 0 \/ RevisionOf(reads[j + 1]) <= RevisionOf(reads[k + 1])
      <4>1. DesignOf(reads[j + 1]) = DesignOf(reads[k + 1])
        BY ONLY <2>4, <3>1, <3>2
      <4> QED BY ONLY <2>2, <2>4, <3>1, <4>1
    <3> QED BY ONLY <3>1, <3>2, <3>3
  <2>5. /\ svc' = t /\ head' = head
        /\ \A x \in Callers : caller'[x].design = DesignOf(x) /\ caller'[x].read = RevisionOf(x)
    BY <1>3 DEF DesignOf, RevisionOf
  <2>6. \A x \in Callers : caller'[x].at \in {"reading", "waiting"} =>
          head'[caller'[x].design] = 0 \/ caller'[x].read <= head'[caller'[x].design]
    BY ONLY <2>1, <2>5
  <2>7. \A x, r \in Callers :
          caller'[x].at = "reading" /\ svc'.status[r] # "none"
              /\ caller'[r].design = caller'[x].design =>
                 caller'[x].read = 0 \/ caller'[r].read <= caller'[x].read
    BY ONLY <2>3, <2>5
  <2> QED BY ONLY <2>4, <2>6, <2>7 DEF Ordered, DesignOf, RevisionOf
<1>12. Chains'
  <2> SUFFICES ASSUME NEW r \in Callers
      PROVE /\ t.follows[r] # NoRun =>
                  /\ t.status[t.follows[r]] # "none"
                  /\ caller'[t.follows[r]].design = caller'[r].design
                  /\ caller'[t.follows[r]].read > caller'[r].read
            /\ t.settled[r].is = "report" => t.settled[r].revision >= caller'[r].read
    BY DEF Chains, DesignOf, RevisionOf
  <2>1. ASSUME NEW x \in Callers
        PROVE  caller'[x].design = DesignOf(x) /\ caller'[x].read = RevisionOf(x)
    BY <1>3 DEF DesignOf, RevisionOf
  <2>2. t.settled[r].is = "report" => t.settled[r].revision >= caller'[r].read
    BY <1>1, <2>1 DEF Chains
  <2>3. CASE t.follows[r] = svc.follows[r]
    <3>1. t.follows[r] \in Callers \cup {NoRun}
      BY <1>2, <2>3 DEF RunId
    <3> QED BY <1>1, <2>1, <2>2, <2>3, <3>1 DEF Chains
  <2>4. CASE t.follows[r] # svc.follows[r]
    <3>1. /\ t.follows[r] = c /\ t.status[c] # "none"
          /\ DesignOf(r) = DesignOf(c) /\ RevisionOf(r) < RevisionOf(c)
      BY <2>4
    <3>2. RevisionOf(c) > RevisionOf(r)
      BY <1>2, <3>1
    <3>3. caller'[c].design = DesignOf(c) /\ caller'[c].read = RevisionOf(c)
          /\ caller'[r].design = DesignOf(r) /\ caller'[r].read = RevisionOf(r)
      BY <2>1
    <3> QED BY ONLY <2>2, <3>1, <3>2, <3>3
  <2> QED BY <2>3, <2>4
<1>13. Rows'
  <2>1. \A r \in Callers : t.settled[r].is = "report" =>
          head[DesignOf(r)] = 0 \/ row[DesignOf(r)] >= t.settled[r].revision
    BY <1>1 DEF Rows
  <2>2. \A r \in Callers : t.status[r] \in Live2 => row[DesignOf(r)] <= RevisionOf(r)
    BY <1>1, <1>9 DEF Rows
  <2>3. \A x \in Callers : caller'[x].at = "reading" =>
          RevisionOf(x) = 0 \/ row[DesignOf(x)] <= RevisionOf(x)
    BY <1>1, <1>3 DEF Rows
  <2>4. NoOrphanRow'
    BY <1>1 DEF Rows, NoOrphanRow
  <2> QED BY <1>6, <2>1, <2>2, <2>3, <2>4 DEF Rows
<1> QED BY <1>7, <1>8, <1>10, <1>11, <1>12, <1>13 DEF IInv

\* The reader finds its place among the runs, in one step.
LEMMA ResumeKeeps ==
    ASSUME IInv, Resume
    PROVE  IInv'
<1> DEFINE c == Head(reads)
           a == Active(c)
<1>1. /\ reads # <<>> /\ reads' = Tail(reads) /\ UNCHANGED <<head, row>>
      /\ \/ Refused(c)
         \/ ~svc.disposed /\ caller[c].read # 0 /\ Joins(c)
         \/ ~svc.disposed /\ caller[c].read # 0 /\ Supersedes(c)
         \/ ~svc.disposed /\ caller[c].read # 0 /\ Creates(c)
  BY DEF Resume
<1>2. /\ TypeOK /\ Working /\ Attended /\ Ordered
      /\ caller \in [Callers -> Caller] /\ reads \in Seq(Callers)
      /\ job \in [Callers -> Worker!Fates] /\ aborted \subseteq Callers
      /\ \A r \in Callers : job[r] = "open" => svc.at[r] = "worker"
  BY DEF IInv, TypeOK, Working
<1>3. c \in Callers /\ Holds(reads, c)
  BY <1>1, <1>2, HoldsFacts
<1> HIDE DEF c
<1>4. /\ caller[c].at = "reading" /\ caller[c].run = NoRun /\ svc.status[c] = "none"
      /\ caller[c] \in Caller
  BY <1>2, <1>3 DEF Attended
<1>5. /\ Whole(svc) /\ Sound(svc) /\ Busy(svc) /\ IndexNamesLive(svc) /\ LiveIsIndexed(svc)
      /\ svc \in Service /\ DesignOf(c) \in Designs /\ RevisionOf(c) \in Nat
      /\ svc.status \in [Callers -> Statuses]
      /\ svc.activeByDesign \in [Designs -> RunId]
  BY <1>3, Given DEF Whole
<1>6. \/ a = NoRun /\ svc.activeByDesign[DesignOf(c)] = NoRun
      \/ /\ a \in Callers /\ a = svc.activeByDesign[DesignOf(c)]
         /\ DesignOf(a) = DesignOf(c) /\ svc.status[a] \in Live2
  <2>1. CASE svc.activeByDesign[DesignOf(c)] = NoRun
    BY <2>1 DEF Active
  <2>2. CASE svc.activeByDesign[DesignOf(c)] # NoRun
    <3> DEFINE b == svc.activeByDesign[DesignOf(c)]
    <3>1. b \in Callers /\ DesignOf(b) = DesignOf(c) /\ svc.status[b] \in Live2
      BY <1>5, <2>2 DEF RunId, IndexNamesLive
    <3>2. b \in svc.runs /\ svc.status[b] \notin Terminal
      BY <1>5, <3>1 DEF Sound, Places, Live2, Terminal
    <3> QED BY <2>2, <3>1, <3>2 DEF Active
  <2> QED BY <2>1, <2>2
<1> HIDE DEF a
<1>7. CASE Refused(c)
  <2>1. svc' = svc /\ job' = job /\ aborted' = aborted
    BY <1>7 DEF Refused
  <2>2. caller' = [caller EXCEPT ![c].at = "refused", ![c].run = NoRun]
    <3>1. [caller[c] EXCEPT !.at = "refused"] = [caller[c] EXCEPT !.at = "refused", !.run = NoRun]
      BY <1>4 DEF Caller
    <3>2. caller' = [caller EXCEPT ![c] = [caller[c] EXCEPT !.at = "refused"]]
      BY <1>2, <1>3, <1>7 DEF Refused
    <3> QED BY <1>2, <1>3, <3>1, <3>2
  <2>3. NoRun \in RunId /\ "refused" \in {"refused", "waiting"} /\ "refused" # "waiting"
    BY DEF RunId
  <2>4. Grown(svc, c, "refused")
    BY DEF Grown
  <2> QED BY <1>1, <1>2, <1>3, <1>5, <2>1, <2>2, <2>3, <2>4, ResumeStep DEF c
<1>8. CASE ~svc.disposed /\ caller[c].read # 0 /\ Joins(c)
  <2>1. /\ svc' = svc /\ job' = job /\ aborted' = aborted
        /\ a # NoRun /\ RevisionOf(a) = RevisionOf(c)
        /\ caller' = [caller EXCEPT ![c].at = "waiting", ![c].run = a]
    BY <1>8 DEF Joins, Waits, a
  <2>2. /\ a \in Callers /\ a \in RunId /\ svc.status[a] # "none" /\ DesignOf(a) = DesignOf(c)
        /\ RevisionOf(a) >= RevisionOf(c)
    BY <1>5, <1>6, <2>1 DEF Live2, RunId
  <2>3. Grown(svc, c, "waiting")
    BY DEF Grown
  <2> QED BY <1>1, <1>2, <1>3, <1>5, <2>1, <2>2, <2>3, ResumeStep DEF c
<1> DEFINE u == CreateRun(svc, c)
<1>9. ASSUME ~svc.disposed
      PROVE  /\ Sound(u) /\ IndexNamesLive(u)
             /\ \A x \in Callers :
                    u.status[x] \in Live2 /\ x # svc.activeByDesign[DesignOf(c)] =>
                        u.activeByDesign[DesignOf(x)] = x
             /\ u.settled = svc.settled /\ u.follows = svc.follows /\ u.at = svc.at
             /\ \A x \in Callers : u.status[x] = IF x = c THEN "queued" ELSE svc.status[x]
  <2>1. /\ Sound(u) /\ (IndexNamesLive(svc) => IndexNamesLive(u))
        /\ LiveIsIndexed(svc) =>
             \A x \in Callers :
                 u.status[x] \in Live2 /\ x # svc.activeByDesign[DesignOf(c)] =>
                     u.activeByDesign[DesignOf(x)] = x
        /\ u.status = [svc.status EXCEPT ![c] = "queued"]
        /\ u.settled = svc.settled /\ u.follows = svc.follows /\ u.at = svc.at
    BY ONLY <1>3, <1>4, <1>5, <1>9, CreateKeeps
  <2> HIDE DEF u
  <2> QED BY <1>5, <2>1
<1>10. c \in RunId /\ "queued" \in Live2 /\ "queued" # "none"
  BY <1>3 DEF RunId, Live2
<1>11. CASE ~svc.disposed /\ caller[c].read # 0 /\ Creates(c)
  <2> DEFINE t == Pump(u)
  <2>1. /\ svc' = t /\ job' = job /\ aborted' = aborted /\ a = NoRun /\ RevisionOf(c) # 0
        /\ caller' = [caller EXCEPT ![c].at = "waiting", ![c].run = c]
    BY <1>11 DEF Creates, Waits, a, RevisionOf
  <2>2. Sound(u) /\ IndexNamesLive(u) /\ LiveIsIndexed(u)
    BY <1>6, <1>9, <1>11, <2>1, CallersAssumption DEF LiveIsIndexed
  <2> HIDE DEF u
  <2>3. /\ Sound(t) /\ Busy(t) /\ Kept(u, t)
        /\ \A r \in Callers : t.at[r] = "worker" <=> u.at[r] = "worker"
    BY <2>2, PumpFacts
  <2> HIDE DEF t
  <2>4. /\ IndexNamesLive(t) /\ LiveIsIndexed(t)
        /\ \A r \in Callers : t.status[r] \in Live2 <=> u.status[r] \in Live2
        /\ \A r \in Callers : t.status[r] = "none" <=> u.status[r] = "none"
    BY <2>2, <2>3, KeptIndex DEF Sound
  <2>5. Whole(t)
    BY <2>3, <2>4 DEF Whole
  <2>6. t.settled = svc.settled /\ t.follows = svc.follows
    BY <1>9, <1>11, <2>3 DEF Kept
  <2>7. \A x \in Callers :
          /\ svc.status[x] # "none" => t.status[x] # "none"
          /\ t.status[x] # "none" => svc.status[x] # "none" \/ x = c
          /\ t.status[x] \in Live2 => svc.status[x] \in Live2 \/ x = c
    BY <1>9, <1>11, <2>4
  <2>8. t.status[c] # "none"
    BY <1>3, <1>9, <1>10, <1>11, <2>4
  <2>9. \A r \in Callers : job'[r] = "open" => t.at[r] = "worker"
    BY <1>2, <1>9, <1>11, <2>1, <2>3
  <2>10. RevisionOf(c) >= RevisionOf(c)
    BY <1>5
  <2>11. Grown(t, c, "waiting")
    BY <2>1, <2>6, <2>7 DEF Grown
  <2> QED BY <1>1, <1>2, <1>3, <1>10, <2>1, <2>5, <2>8, <2>9, <2>10, <2>11, ResumeStep DEF c
<1>12. CASE ~svc.disposed /\ caller[c].read # 0 /\ Supersedes(c)
  <2> DEFINE v == Finish(u, a, "cancelled", Pending, c)
             t == Pump(v)
  <2>1. /\ svc' = t /\ AbortIn({a}) /\ a # NoRun /\ RevisionOf(c) # 0
        /\ RevisionOf(a) # RevisionOf(c)
        /\ caller' = [caller EXCEPT ![c].at = "waiting", ![c].run = c]
    <3>1. c # NoRun
      BY <1>3, CallersAssumption
    <3> QED BY <1>12, <3>1 DEF Supersedes, CancelRun, Waits, a, RevisionOf
  <2>2. /\ a \in Callers /\ a = svc.activeByDesign[DesignOf(c)] /\ a # c
        /\ DesignOf(a) = DesignOf(c) /\ DesignOf(a) \in Designs
        /\ svc.status[a] \in Live2 /\ svc.status[a] # "none"
    BY <1>4, <1>5, <1>6, <2>1 DEF Live2
  <2>3. RevisionOf(a) < RevisionOf(c)
    <3>1. RevisionOf(a) <= RevisionOf(c) /\ RevisionOf(a) \in Nat
      BY <1>2, <1>3, <1>4, <2>1, <2>2, Given DEF Ordered
    <3> QED BY <1>5, <2>1, <3>1
  <2>4. /\ Sound(u) /\ IndexNamesLive(u) /\ u.status[a] \in Live2
        /\ \A x \in Callers \ {a} :
               u.status[x] \in Live2 => u.activeByDesign[DesignOf(x)] = x
        /\ u \in Service
    BY <1>9, <1>12, <2>2 DEF Sound
  <2>5. u.settled \in [Callers -> Settled] /\ u.follows \in [Callers -> RunId]
        /\ u.status \in [Callers -> Statuses]
    BY <2>4, Fields
  <2>6. "cancelled" \in Terminal /\ Pending \in Settled /\ c # NoRun
    BY <1>3, Values DEF Terminal
  <2> HIDE DEF u
  <2>7. /\ Sound(v) /\ IndexNamesLive(v) /\ LiveIsIndexed(v)
        /\ v.status = [u.status EXCEPT ![a] = "cancelled"]
        /\ v.settled = [u.settled EXCEPT ![a] = Pending]
        /\ v.follows = [u.follows EXCEPT ![a] = c]
        /\ v.at = u.at
    BY <1>10, <2>2, <2>4, <2>6, FinishKeeps
  <2> HIDE DEF v
  <2>8. /\ Sound(t) /\ Busy(t) /\ Kept(v, t)
        /\ \A r \in Callers : t.at[r] = "worker" <=> v.at[r] = "worker"
    BY <2>7, PumpFacts
  <2> HIDE DEF t
  <2>9. /\ IndexNamesLive(t) /\ LiveIsIndexed(t)
        /\ \A r \in Callers : t.status[r] \in Live2 <=> v.status[r] \in Live2
        /\ \A r \in Callers : t.status[r] = "none" <=> v.status[r] = "none"
    <3>1. /\ v \in Service /\ t \in Service /\ Kept(v, t)
          /\ IndexNamesLive(v) /\ LiveIsIndexed(v)
      BY <2>7, <2>8 DEF Sound
    <3> QED BY ONLY <3>1, KeptIndex
  <2>10. Whole(t)
    BY <2>8, <2>9 DEF Whole
  <2>11. \A x \in Callers :
           /\ v.status[x] = IF x = a THEN "cancelled" ELSE u.status[x]
           /\ v.settled[x] = IF x = a THEN Pending ELSE u.settled[x]
           /\ v.follows[x] = IF x = a THEN c ELSE u.follows[x]
    BY <2>5, <2>7
  <2>12. svc.settled[a] = Pending
    BY <1>5, <2>2 DEF Sound, Verdicts, Live2, Terminal
  <2>13. \A x \in Callers :
          /\ svc.status[x] # "none" => t.status[x] # "none"
          /\ t.status[x] # "none" => svc.status[x] # "none" \/ x = c
          /\ t.status[x] \in Live2 => svc.status[x] \in Live2 \/ x = c
    <3>1. "cancelled" \notin Live2
      BY DEF Live2
    <3> QED BY <1>9, <1>12, <2>2, <2>9, <2>11, <3>1
  <2>14. t.status[c] # "none"
    BY <1>3, <1>9, <1>10, <1>12, <2>2, <2>9, <2>11
  <2>15. \A x \in Callers :
           /\ t.settled[x] = svc.settled[x]
           /\ \/ t.follows[x] = svc.follows[x]
              \/ /\ t.follows[x] = c /\ t.status[c] # "none"
                 /\ DesignOf(x) = DesignOf(c) /\ RevisionOf(x) < RevisionOf(c)
    BY <1>9, <1>12, <2>2, <2>3, <2>8, <2>11, <2>12, <2>14 DEF Kept
  <2>16. /\ aborted' \subseteq Callers /\ job' \in [Callers -> Worker!Fates]
         /\ \A r \in Callers : job'[r] = "open" => job[r] = "open"
    BY <2>1, <2>2, AbortFacts
  <2>17. \A r \in Callers : job'[r] = "open" => t.at[r] = "worker"
    BY <1>2, <1>9, <1>12, <2>7, <2>8, <2>16
  <2>18. RevisionOf(c) >= RevisionOf(c)
    BY <1>5
  <2>19. /\ c = Head(reads) /\ DesignOf(c) = DesignOf(c)
         /\ "waiting" \in {"refused", "waiting"}
    BY DEF c
  <2>20. Grown(t, c, "waiting")
    BY ONLY <2>1, <2>13, <2>15 DEF Grown
  <2>21. /\ reads # <<>> /\ reads' = Tail(reads) /\ UNCHANGED <<head, row>>
         /\ c \in Callers /\ svc' = t
         /\ caller' = [caller EXCEPT ![c].at = "waiting", ![c].run = c]
    BY ONLY <1>1, <1>3, <2>1
  <2> QED BY ONLY IInv, <1>10, <2>10, <2>14, <2>16, <2>17, <2>18, <2>19, <2>20, <2>21,
             ResumeStep
<1> QED BY <1>1, <1>7, <1>8, <1>11, <1>12

LEMMA InitIInv == Init => IInv
<1> SUFFICES ASSUME Init PROVE IInv
  OBVIOUS
<1> DEFINE status == [r \in Callers |-> "none"]
           settled == [r \in Callers |-> Pending]
           follows == [r \in Callers |-> NoRun]
           index == [d \in Designs |-> NoRun]
<1>1. /\ head = [d \in Designs |-> 1] /\ row = [d \in Designs |-> 0]
      /\ caller \in [Callers -> [at : {"idle"}, design : Designs, read : {0}, run : {NoRun}]]
      /\ reads = <<>>
      /\ svc = [status |-> status, at |-> status, settled |-> settled, follows |-> follows,
                runs |-> {}, activeByDesign |-> index,
                queue |-> <<>>, executing |-> NoRun, disposed |-> FALSE]
      /\ Worker!Init
  BY DEF Init
<1>2. /\ status \in [Callers -> Statuses]
      /\ status \in [Callers -> {"none", "library", "worker"}]
      /\ settled \in [Callers -> Settled]
      /\ follows \in [Callers -> RunId]
      /\ index \in [Designs -> RunId]
  BY Values DEF Statuses, RunId
<1>3. /\ \A r \in Callers : status[r] = "none" /\ settled[r] = Pending /\ follows[r] = NoRun
      /\ \A d \in Designs : index[d] = NoRun
  OBVIOUS
<1> HIDE DEF status, settled, follows, index
<1>4. svc \in Service /\ <<>> \in Seq(Callers)
  <2>1. {} \in SUBSET Callers /\ <<>> \in Seq(Callers) /\ NoRun \in RunId /\ FALSE \in BOOLEAN
    BY DEF RunId
  <2> QED BY ONLY <1>1, <1>2, <2>1 DEF Service
<1>5. /\ svc.status = status /\ svc.at = status /\ svc.settled = settled
      /\ svc.follows = follows /\ svc.runs = {} /\ svc.activeByDesign = index
      /\ svc.queue = <<>> /\ svc.executing = NoRun /\ svc.disposed = FALSE
  BY <1>1
<1>6. \A c \in Callers : /\ caller[c].at = "idle" /\ caller[c].design \in Designs
                         /\ caller[c].read = 0 /\ caller[c].run = NoRun
                         /\ caller[c] \in [at : {"idle"}, design : Designs, read : {0}, run : {NoRun}]
  BY <1>1
<1>7. TypeOK
  <2>1. caller \in [Callers -> Caller]
    <3>1. [at : {"idle"}, design : Designs, read : {0}, run : {NoRun}] \subseteq Caller
      BY MaxRevisionAssumption DEF Caller, Revision, RunId
    <3> QED BY <1>1, <3>1
  <2>2. head \in [Designs -> Revision] /\ row \in [Designs -> Revision]
    BY <1>1, MaxRevisionAssumption DEF Revision
  <2>3. job \in [Callers -> Worker!Fates] /\ aborted \subseteq Callers
    BY <1>1 DEF Worker!Init, Worker!Fates
  <2> QED BY <1>1, <1>4, <2>1, <2>2, <2>3 DEF TypeOK
<1>8. \A r : ~Holds(<<>>, r)
  BY DEF Holds
<1>9. Whole(svc)
  <2>1. Places(svc)
    BY <1>3, <1>5, <1>8, CallersAssumption DEF Places, Live2, Distinct
  <2>2. Verdicts(svc) /\ Busy(svc)
    BY <1>3, <1>5 DEF Verdicts, Busy
  <2>3. IndexNamesLive(svc) /\ LiveIsIndexed(svc)
    BY <1>3, <1>5 DEF IndexNamesLive, LiveIsIndexed, Live2
  <2> QED BY <1>4, <2>1, <2>2, <2>3 DEF Whole, Sound
<1>10. Working
  BY <1>1 DEF Working, Worker!Init
<1>11. Attended
  BY <1>1, <1>3, <1>5, <1>6, <1>8 DEF Attended, Distinct
<1>12. Ordered
  BY <1>1, <1>6 DEF Ordered
<1>13. Chains
  BY <1>3, <1>5, Values DEF Chains
<1>14. Rows
  BY <1>1, <1>3, <1>5, <1>6, Values DEF Rows, NoOrphanRow, Live2
<1> QED BY <1>7, <1>9, <1>10, <1>11, <1>12, <1>13, <1>14 DEF IInv

LEMMA NextIInv == IInv /\ [Next]_vars => IInv'
<1> SUFFICES ASSUME IInv, [Next]_vars PROVE IInv'
  OBVIOUS
<1>1. CASE UNCHANGED vars
  <2>1. /\ UNCHANGED <<head, row, caller, reads, svc, job, aborted>> /\ Whole(svc)
        /\ job \in [Callers -> Worker!Fates] /\ aborted \subseteq Callers
        /\ \A r \in Callers : job[r] = "open" => svc.at[r] = "worker"
    BY <1>1, Given DEF vars, IInv, TypeOK, Working
  <2> QED BY <2>1, ServiceStep
<1>2. ASSUME NEW d \in Designs, Edit(d) \/ DeleteDesign(d) PROVE IInv'
  BY <1>2, DesignsKeep
<1>3. ASSUME NEW c \in Callers, Start(c) PROVE IInv'
  BY <1>3, StartKeeps
<1>4. CASE Resume
  BY <1>4, ResumeKeeps
<1>5. ASSUME NEW r \in Callers, LibraryRead(r) PROVE IInv'
  BY <1>5, LibraryReadKeeps
<1>6. ASSUME NEW r \in Callers, WorkerSettled(r) PROVE IInv'
  BY <1>6, WorkerSettledKeeps
<1>7. ASSUME NEW r \in Callers, Adopt(r) PROVE IInv'
  BY <1>7, AdoptKeeps
<1>8. ASSUME NEW r \in Callers, Cancel(r) PROVE IInv'
  BY <1>8, CancelKeeps
<1>9. ASSUME NEW r \in Callers, Expire(r) PROVE IInv'
  BY <1>9, ExpireKeeps
<1>10. ASSUME NEW r \in Callers, WorkerEnds(r) PROVE IInv'
  BY <1>10, WorkerEndsKeeps
<1>11. CASE Dispose
  BY <1>11, DisposeKeeps
<1> QED BY <1>1, <1>2, <1>3, <1>4, <1>5, <1>6, <1>7, <1>8, <1>9, <1>10, <1>11 DEF Next

\* Places, answers, the order of the reads and the rows: the inductive
\* invariant holds of every behaviour of the service.
THEOREM ServiceInvariant == Spec => []IInv
  BY InitIInv, NextIInv, PTL DEF Spec

-----------------------------------------------------------------------------
(* What callers rely on. *)

\* The service's maps, queue and slot keep their types, whatever is called.
THEOREM ServiceTypeOK == Spec => []TypeOK
<1>1. IInv => TypeOK
  BY DEF IInv
<1> QED BY <1>1, ServiceInvariant, PTL

\* A run whose callers wait is queued, executes, or follows a later run.
LEMMA Accounted == IInv => RunsAreAccountedFor
<1> SUFFICES ASSUME IInv PROVE RunsAreAccountedFor
  OBVIOUS
<1>1. /\ Places(svc) /\ Verdicts(svc) /\ Busy(svc)
      /\ IndexNamesLive(svc) /\ LiveIsIndexed(svc) /\ Working /\ Chains
      /\ svc.status \in [Callers -> Statuses]
      /\ svc.activeByDesign \in [Designs -> RunId]
      /\ svc.follows \in [Callers -> RunId]
  BY Given DEF IInv, Whole, Sound
<1>2. OneActiveRun
  <2> SUFFICES ASSUME NEW d \in Designs
               PROVE  RunsOf(d) = IF svc.activeByDesign[d] = NoRun THEN {}
                                  ELSE {svc.activeByDesign[d]}
    BY DEF OneActiveRun
  <2> DEFINE a == svc.activeByDesign[d]
  <2>1. \A r \in RunsOf(d) : r \in Callers /\ a = r
    BY <1>1 DEF RunsOf, LiveIsIndexed, Live2
  <2>2. a # NoRun => a \in RunsOf(d)
    BY <1>1 DEF RunsOf, IndexNamesLive, Live2, RunId
  <2>3. \A r \in RunsOf(d) : r # NoRun
    BY CallersAssumption DEF RunsOf
  <2> QED BY <2>1, <2>2, <2>3
<1>3. OneJobAtATime
  BY <1>1, CallersAssumption DEF OneJobAtATime, Working, Places, Busy
<1>4. NoAnswerIsLost
  <2> SUFFICES ASSUME NEW r \in Callers, svc.status[r] # "none", svc.settled[r] = Pending
               PROVE  \/ svc.status[r] = "queued" /\ Holds(svc.queue, r)
                      \/ svc.status[r] = "running" /\ svc.executing = r /\ svc.at[r] # "none"
                      \/ /\ svc.status[r] = "cancelled" /\ svc.follows[r] # NoRun
                         /\ RevisionOf(svc.follows[r]) > RevisionOf(r)
    BY DEF NoAnswerIsLost
  <2>1. svc.status[r] \in {"queued", "running", "cancelled"}
    BY <1>1 DEF Statuses, Verdicts
  <2>2. svc.status[r] = "cancelled" => svc.follows[r] # NoRun
    BY <1>1 DEF Verdicts
  <2>3. svc.follows[r] # NoRun => RevisionOf(svc.follows[r]) > RevisionOf(r)
    BY <1>1 DEF Chains
  <2> QED BY <1>1, <2>1, <2>2, <2>3 DEF Places
<1> QED BY <1>2, <1>3, <1>4 DEF RunsAreAccountedFor

\* At most one run of a design is under way and it is the one a start would
\* join; one run executes at a time; and whoever waits, waits for a run that
\* is queued, executes, or was replaced by one of a later revision.
THEOREM EveryRunHasItsPlace == Spec => []RunsAreAccountedFor
  BY Accounted, ServiceInvariant, PTL

\* The run a caller waits for is of its design, at its revision or later.
LEMMA AnswerFollows ==
    ASSUME IInv, NEW c \in Callers, Answer(c).is = "report"
    PROVE  /\ Answer(c).revision >= caller[c].read
           /\ head[DesignOf(c)] = 0 \/ row[DesignOf(c)] >= Answer(c).revision
<1> DEFINE r == caller[c].run
<1>1. caller[c] \in Caller /\ Attended /\ Chains /\ Rows
  BY DEF IInv, TypeOK
<1>2. r # NoRun /\ Answer(c) = svc.settled[r] /\ r \in Callers
  BY <1>1, Values DEF Answer, Caller, RunId
<1>3. caller[c].at = "waiting"
  BY <1>1, <1>2 DEF Attended
<1>4. DesignOf(r) = DesignOf(c) /\ RevisionOf(r) >= RevisionOf(c)
  BY <1>1, <1>3 DEF Attended
<1>5. svc.settled[r].revision >= RevisionOf(r)
  BY <1>1, <1>2 DEF Chains
<1>6. head[DesignOf(r)] = 0 \/ row[DesignOf(r)] >= svc.settled[r].revision
  BY <1>1, <1>2 DEF Rows
<1>7. RevisionOf(c) = caller[c].read /\ RevisionOf(c) \in Nat /\ RevisionOf(r) \in Nat
      /\ svc.settled[r].revision \in Nat
  BY <1>2, Given DEF RevisionOf
<1> HIDE DEF r
<1> QED BY <1>2, <1>4, <1>5, <1>6, <1>7

\* However often its run was superseded, a caller is never told of the design
\* as it was before the call.
THEOREM NoStaleReport == Spec => []ReportIsFresh
<1>1. IInv => ReportIsFresh
  BY AnswerFollows DEF ReportIsFresh
<1> QED BY <1>1, ServiceInvariant, PTL

\* What a caller was told is in the table, and the table has nothing of a
\* design that is gone, wherever deletions, edits and runs interleave.
THEOREM ToldIsStored == Spec => []ReportsAreStored
<1>1. IInv => ReportsAreStored
  BY AnswerFollows DEF ReportsAreStored, ReportIsStored, IInv, Rows
<1> QED BY <1>1, ServiceInvariant, PTL

\* Runs may end in any order relative to reads, but the only run that can
\* store a report of a design is of the latest revision that was stored.
THEOREM StoredReportsAdvance == Spec => RowNeverGoesBack
<1>1. IInv /\ [Next]_vars => [\A d \in Designs : row'[d] >= row[d] \/ head'[d] = 0]_vars
  <2> SUFFICES ASSUME IInv, Next
               PROVE  \A d \in Designs : row'[d] >= row[d] \/ head'[d] = 0
    OBVIOUS
  <2>1. \A d \in Designs : row[d] \in Nat /\ head[d] \in Nat
    BY Given
  <2>2. CASE row' = row
    BY <2>1, <2>2
  <2>3. ASSUME NEW d \in Designs, DeleteDesign(d)
        PROVE  \A e \in Designs : row'[e] >= row[e] \/ head'[e] = 0
    BY <2>1, <2>3 DEF DeleteDesign, IInv, TypeOK
  <2>4. ASSUME NEW r \in Callers, Stores(r)
        PROVE  \A d \in Designs : row'[d] >= row[d] \/ head'[d] = 0
    BY <2>4, StoresRow
  <2>5. \/ row' = row
        \/ \E d \in Designs : DeleteDesign(d)
        \/ \E r \in Callers : Stores(r)
    <3>1. ASSUME NEW d \in Designs, Edit(d) PROVE row' = row
      BY <3>1 DEF Edit
    <3>2. ASSUME NEW c \in Callers, Start(c) PROVE row' = row
      BY <3>2 DEF Start
    <3>3. CASE Resume
      BY <3>3 DEF Resume
    <3>4. ASSUME NEW r \in Callers, LibraryRead(r) PROVE row' = row
      BY <3>4 DEF LibraryRead, Dropped, Fails
    <3>5. ASSUME NEW r \in Callers, WorkerSettled(r) PROVE row' = row \/ Stores(r)
      BY <3>5 DEF WorkerSettled, PersistAndComplete, Stores, Dropped, Fails, CancelledInside
    <3>6. ASSUME NEW r \in Callers, Adopt(r) \/ Cancel(r) \/ Expire(r) \/ WorkerEnds(r)
          PROVE row' = row
      BY <3>6 DEF Adopt, Cancel, Expire, WorkerEnds
    <3>7. CASE Dispose
      BY <3>7 DEF Dispose
    <3> QED BY <3>1, <3>2, <3>3, <3>4, <3>5, <3>6, <3>7 DEF Next
  <2> QED BY <2>2, <2>3, <2>4, <2>5
<1> QED BY <1>1, ServiceInvariant, PTL DEF Spec, RowNeverGoesBack
=============================================================================
