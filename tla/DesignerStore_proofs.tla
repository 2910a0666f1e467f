-------------------------- MODULE DesignerStore_proofs --------------------------
(***************************************************************************)
(* Proofs about DesignerStore, for any designs, sessions, connections,     *)
(* cells, values and requests: a command id takes effect at most once, the *)
(* log and the document tell the same story, no revision is overwritten    *)
(* unseen, undo and redo are inverse where one session works alone.        *)
(*                                                                         *)
(* One inductive invariant carries them.  An id has one row (OneRow), for  *)
(* every insert follows a look at the log in the same step; what made a    *)
(* revision of a live design has its row there (EveryChangeIsLogged).  So  *)
(* a command that is applied was not applied before.  A deleted design has *)
(* nothing to undo (Gone), so no replay brings it back to life.            *)
(*                                                                         *)
(* A second invariant rests on the first and carries the undo histories    *)
(* (HInv): the two stacks are one line of entries with a place on it, each *)
(* entry a command that ran (Ran) and was not recorded before, and on a    *)
(* cell that no other session edits the value is what the line says at     *)
(* that place.  Undo and redo move the place, recording cuts the line.     *)
(***************************************************************************)
EXTENDS DesignerStore, SequenceTheorems, TLAPS

OneRow == \A r, q \in log : r.request.id = q.request.id => r = q

OwnTrail == \A d \in Designs : \A n \in Dos(d) : trail[d][n].request.design = d

Gone == \A d \in Designs : ~Exists(d) => histories[d] = [s \in Sessions |-> EmptyHistory]

IInv ==
    /\ TypeOK
    /\ OneRow /\ Gone /\ OwnTrail
    /\ EveryChangeIsLogged /\ AppliedAtMostOnce /\ NoLostUpdate

-----------------------------------------------------------------------------
(* Types *)

LEMMA ResultTypes ==
    /\ \A n \in Int : Ok(n) \in Result /\ ConflictAt(n) \in Result
    /\ \A code \in Codes : Outcome(code) \in Result
  BY DEF Ok, ConflictAt, Outcome, Result, Codes, NoRevision

LEMMA RequestFacts ==
    ASSUME NEW req \in Request
    PROVE  /\ req.id \in Nat /\ req.design \in Designs /\ req.session \in Sessions
           /\ req.command.cell \in Cells /\ req.command.value \in Values
  BY DEF Request, Command

LEMMA ReplyTyped ==
    ASSUME answers \subseteq Answer, NEW c \in Connections, NEW id \in Nat,
           NEW result \in Result, Reply(c, id, result)
    PROVE  answers' \subseteq Answer
  BY DEF Reply, Answer

\* Recording an entry yields a history, and so does consuming one.
LEMMA RecordTyped ==
    ASSUME NEW h \in History, NEW entry \in Entry
    PROVE  Record(h, entry) \in History
<1>0. DepthLimit \in Nat
  BY StoreAssumptions
<1> DEFINE pushed == Append(h.undo, entry)
           excess == Len(pushed) - DepthLimit
<1>1. pushed \in Seq(Entry) /\ <<>> \in Seq(Entry)
  BY DEF History
<1> HIDE DEF pushed
<1>2. SubSeq(pushed, excess + 1, Len(pushed)) \in Seq(Entry) \/ ~(excess > 0)
  <2> SUFFICES ASSUME excess > 0 PROVE SubSeq(pushed, excess + 1, Len(pushed)) \in Seq(Entry)
    OBVIOUS
  <2>1. Len(pushed) \in Nat /\ excess \in Int
    BY <1>0, <1>1
  <2>2. \A i \in (excess + 1)..Len(pushed) : pushed[i] \in Entry
    BY <1>0, <1>1, <2>1
  <2>3. excess + 1 \in Int
    BY <2>1
  <2> HIDE DEF excess
  <2> QED BY <2>1, <2>2, <2>3, SubSeqProperties
<1> HIDE DEF excess
<1>3. Record(h, entry) =
        [undo |-> IF excess > 0 THEN SubSeq(pushed, excess + 1, Len(pushed)) ELSE pushed,
         redo |-> <<>>]
  BY DEF Record, pushed, excess
<1> QED BY <1>1, <1>2, <1>3 DEF History

LEMMA StackFacts ==
    ASSUME NEW st \in Seq(Entry), st # <<>>
    PROVE  Last(st) \in Entry /\ Front(st) \in Seq(Entry)
<1>1. Len(st) \in Nat \ {0}
  BY EmptySeq
<1>2. Last(st) \in Entry
  BY <1>1 DEF Last
<1>3. \A i \in 1..(Len(st) - 1) : st[i] \in Entry
  BY <1>1
<1>4. Front(st) \in Seq(Entry)
  BY <1>1, <1>3, SubSeqProperties DEF Front
<1> QED BY <1>2, <1>4

LEMMA ConsumedTyped ==
    ASSUME NEW h \in History, NEW direction \in {"undo", "redo"},
           Stack(h, direction) # <<>>
    PROVE  Consumed(h, direction) \in History /\ Last(Stack(h, direction)) \in Entry
<1>1. h.undo \in Seq(Entry) /\ h.redo \in Seq(Entry)
  BY DEF History
<1>2. CASE direction = "undo"
  <2>1. Last(h.undo) \in Entry /\ Front(h.undo) \in Seq(Entry)
    BY <1>1, <1>2, StackFacts DEF Stack
  <2> QED BY <1>1, <1>2, <2>1 DEF Consumed, Stack, History
<1>3. CASE direction = "redo"
  <2>1. Last(h.redo) \in Entry /\ Front(h.redo) \in Seq(Entry)
    BY <1>1, <1>3, StackFacts DEF Stack
  <2> QED BY <1>1, <1>3, <2>1 DEF Consumed, Stack, History
<1> QED BY <1>2, <1>3

-----------------------------------------------------------------------------
(* A new revision *)

LEMMA AdvanceFacts ==
    ASSUME TypeOK, EveryChangeIsLogged, NEW d \in Designs, Exists(d),
           NEW kind \in {"do", "undo", "redo"}, NEW req \in Request,
           NEW base \in Int, Advance(d, kind, req, base)
    PROVE  /\ head' \in [Designs -> Nat \cup {NoRevision}]
           /\ trail' \in [Designs -> Seq(Change)]
           /\ head[d] \in Nat /\ Len(trail[d]) = head[d]
           /\ head'[d] = head[d] + 1 /\ Len(trail'[d]) = head[d] + 1
           /\ \A e \in Designs \ {d} : head'[e] = head[e] /\ trail'[e] = trail[e]
           /\ \A n \in 1..head[d] : trail'[d][n] = trail[d][n]
           /\ trail'[d][head[d] + 1] = [kind |-> kind, request |-> req, base |-> base]
<1> DEFINE made == [kind |-> kind, request |-> req, base |-> base]
<1>1. made \in Change
  BY DEF Change
<1> HIDE DEF made
<1>2. head[d] \in Nat /\ trail[d] \in Seq(Change) /\ Len(trail[d]) = head[d]
  BY DEF TypeOK, Exists, EveryChangeIsLogged
<1>3. head' = [head EXCEPT ![d] = @ + 1] /\ trail' = [trail EXCEPT ![d] = Append(@, made)]
  BY DEF Advance, made
<1>4. trail'[d] = Append(trail[d], made) /\ head'[d] = head[d] + 1
  BY <1>3 DEF TypeOK
<1>5. /\ Append(trail[d], made) \in Seq(Change)
      /\ Len(Append(trail[d], made)) = head[d] + 1
      /\ \A n \in 1..head[d] : Append(trail[d], made)[n] = trail[d][n]
      /\ Append(trail[d], made)[head[d] + 1] = made
  BY <1>1, <1>2
<1>6. head' \in [Designs -> Nat \cup {NoRevision}] /\ trail' \in [Designs -> Seq(Change)]
  BY <1>1, <1>2, <1>3, <1>5 DEF TypeOK
<1>7. \A e \in Designs \ {d} : head'[e] = head[e] /\ trail'[e] = trail[e]
  BY <1>3 DEF TypeOK
<1> QED BY <1>2, <1>4, <1>5, <1>6, <1>7 DEF made

\* A change that was admitted on top of the head keeps the chain of bases.
LEMMA AdvanceKeepsBases ==
    ASSUME TypeOK, EveryChangeIsLogged, NoLostUpdate, NEW d \in Designs, Exists(d),
           NEW kind \in {"do", "undo", "redo"}, NEW req \in Request,
           NEW base \in {NoRevision, head[d]}, Advance(d, kind, req, base)
    PROVE  NoLostUpdate'
<1>1. base \in Int
  BY DEF TypeOK, NoRevision
<1>2. /\ head[d] \in Nat /\ Len(trail[d]) = head[d]
      /\ Len(trail'[d]) = head[d] + 1
      /\ \A e \in Designs \ {d} : trail'[e] = trail[e]
      /\ \A n \in 1..head[d] : trail'[d][n] = trail[d][n]
      /\ trail'[d][head[d] + 1] = [kind |-> kind, request |-> req, base |-> base]
  <2>1. TypeOK /\ EveryChangeIsLogged /\ Exists(d) /\ Advance(d, kind, req, base)
    OBVIOUS
  <2> QED BY ONLY <1>1, <2>1, AdvanceFacts,
                  d \in Designs, kind \in {"do", "undo", "redo"}, req \in Request
<1> SUFFICES ASSUME NEW e \in Designs, NEW n \in 1..Len(trail'[e])
             PROVE  trail'[e][n].base \in {NoRevision, n - 1}
  BY DEF NoLostUpdate
<1>3. CASE e # d
  BY <1>2, <1>3 DEF NoLostUpdate
<1>4. CASE e = d /\ n # head[d] + 1
  <2>1. n \in 1..head[d]
    BY <1>2, <1>4
  <2> QED BY <1>2, <1>4, <2>1 DEF NoLostUpdate
<1>5. CASE e = d /\ n = head[d] + 1
  BY <1>2, <1>5
<1> QED BY <1>3, <1>4, <1>5

-----------------------------------------------------------------------------
(* The steps of a call *)

\* A step that touches neither document nor log.
LEMMA QuietKeeps ==
    ASSUME IInv, UNCHANGED <<head, doc, view, log, histories, trail>>,
           waiting' \subseteq Call, answers' \subseteq Answer
    PROVE  IInv'
<1>1. TypeOK'
  BY DEF IInv, TypeOK
<1>2. OneRow' /\ OwnTrail' /\ Gone'
  BY DEF IInv, OneRow, OwnTrail, Gone, Exists, Dos
<1>3. EveryChangeIsLogged' /\ AppliedAtMostOnce' /\ NoLostUpdate'
  BY DEF IInv, EveryChangeIsLogged, AppliedAtMostOnce, NoLostUpdate, Exists, Dos
<1> QED BY <1>1, <1>2, <1>3 DEF IInv

\* A new row, for an id that has none.
LEMMA InsertFacts ==
    ASSUME TypeOK, OneRow, NEW req \in Request, NEW result \in Result,
           NEW applied \in Int, ~Logged(req.id), Insert(req, result, applied)
    PROVE  /\ log' \subseteq Row /\ OneRow' /\ log \subseteq log'
           /\ [request |-> req, result |-> result, appliedRevision |-> applied] \in log'
<1> DEFINE row == [request |-> req, result |-> result, appliedRevision |-> applied]
<1>1. row \in Row /\ row.request = req
  BY DEF Row
<1>2. log' = log \cup {row}
  BY DEF Insert
<1> HIDE DEF row
<1>3. \A r \in log : r.request.id # row.request.id
  BY <1>1 DEF Logged
<1>4. log' \subseteq Row /\ log \subseteq log' /\ row \in log'
  BY <1>1, <1>2 DEF TypeOK
<1>5. OneRow'
  BY <1>2, <1>3 DEF OneRow
<1> QED BY <1>4, <1>5 DEF row

\* A command that was answered without an effect on the document.
LEMMA InsertKeeps ==
    ASSUME IInv, NEW req \in Request, NEW result \in Result, NEW applied \in Int,
           ~Logged(req.id), Insert(req, result, applied),
           UNCHANGED <<head, doc, view, histories, trail>>,
           waiting' \subseteq Call, answers' \subseteq Answer
    PROVE  IInv'
<1>1. TypeOK /\ OneRow
  BY DEF IInv
<1>2. log' \subseteq Row /\ OneRow' /\ log \subseteq log'
  BY <1>1, InsertFacts
<1>3. TypeOK'
  BY <1>1, <1>2 DEF TypeOK
<1>4. OwnTrail' /\ Gone' /\ AppliedAtMostOnce' /\ NoLostUpdate'
  BY DEF IInv, OwnTrail, Gone, Exists, Dos, AppliedAtMostOnce, NoLostUpdate
<1>5. EveryChangeIsLogged'
  BY <1>2 DEF IInv, EveryChangeIsLogged, Exists, Dos
<1> QED BY <1>2, <1>3, <1>4, <1>5 DEF IInv

\* What was done, after a new revision.
LEMMA AdvanceDos ==
    ASSUME IInv, NEW d \in Designs, Exists(d),
           NEW kind \in {"do", "undo", "redo"}, NEW req \in Request,
           NEW base \in Int, Advance(d, kind, req, base)
    PROVE  /\ \A e \in Designs \ {d} : Dos(e)' = Dos(e)
           /\ Dos(d)' = IF kind = "do" THEN Dos(d) \cup {head[d] + 1} ELSE Dos(d)
           /\ Dos(d) \subseteq 1..head[d]
<1>1. TypeOK /\ EveryChangeIsLogged
  BY DEF IInv
<1>2. /\ head[d] \in Nat /\ Len(trail[d]) = head[d]
      /\ Len(trail'[d]) = head[d] + 1
      /\ \A e \in Designs \ {d} : trail'[e] = trail[e]
      /\ \A n \in 1..head[d] : trail'[d][n] = trail[d][n]
      /\ trail'[d][head[d] + 1] = [kind |-> kind, request |-> req, base |-> base]
  <2>1. Exists(d) /\ Advance(d, kind, req, base)
    OBVIOUS
  <2> QED BY ONLY <1>1, <2>1, AdvanceFacts, d \in Designs, base \in Int,
                  kind \in {"do", "undo", "redo"}, req \in Request
<1>3. trail'[d][head[d] + 1].kind = kind
  BY <1>2
<1>4. 1..(head[d] + 1) = 1..head[d] \cup {head[d] + 1}
  BY <1>2
<1>5. \A e \in Designs \ {d} : Dos(e)' = Dos(e)
  BY <1>2 DEF Dos
<1>6. /\ Dos(d)' = {n \in 1..(head[d] + 1) : trail'[d][n].kind = "do"}
      /\ Dos(d) = {n \in 1..head[d] : trail[d][n].kind = "do"}
  BY <1>2 DEF Dos
<1>7. Dos(d)' = Dos(d) \cup {n \in {head[d] + 1} : kind = "do"}
  BY <1>2, <1>3, <1>4, <1>6
<1> QED BY <1>5, <1>6, <1>7

\* A command took effect: its id had no row, so it had no effect before.
LEMMA ApplyKeeps ==
    ASSUME IInv, NEW c \in Connections, NEW req \in Request, NEW base \in Int,
           ~Logged(req.id), Apply(c, req, base), waiting' \subseteq Call
    PROVE  IInv'
<1> DEFINE d == req.design
           new == head[d] + 1
<1>1. /\ TypeOK /\ OneRow /\ Gone /\ OwnTrail
      /\ EveryChangeIsLogged /\ AppliedAtMostOnce /\ NoLostUpdate
  BY DEF IInv
<1>2. /\ d \in Designs /\ Exists(d) /\ base \in {NoRevision, head[d]}
      /\ Advance(d, "do", req, base) /\ Insert(req, Ok(new), new)
      /\ Reply(c, req.id, Ok(new))
  BY RequestFacts DEF Apply, Admitted
<1>3. /\ head' \in [Designs -> Nat \cup {NoRevision}]
      /\ trail' \in [Designs -> Seq(Change)]
      /\ head[d] \in Nat /\ Len(trail[d]) = head[d]
      /\ head'[d] = new /\ Len(trail'[d]) = new
      /\ \A e \in Designs \ {d} : head'[e] = head[e] /\ trail'[e] = trail[e]
      /\ \A n \in 1..head[d] : trail'[d][n] = trail[d][n]
      /\ trail'[d][new] = [kind |-> "do", request |-> req, base |-> base]
  BY ONLY <1>1, <1>2, AdvanceFacts, base \in Int, req \in Request
<1>4. /\ \A e \in Designs \ {d} : Dos(e)' = Dos(e)
      /\ Dos(d)' = Dos(d) \cup {new}
      /\ Dos(d) \subseteq 1..head[d]
  BY ONLY IInv, <1>2, AdvanceDos, base \in Int, req \in Request
<1>5. Ok(new) \in Result /\ new \in Int
  BY <1>3, ResultTypes
<1>6. /\ log' \subseteq Row /\ OneRow' /\ log \subseteq log'
      /\ [request |-> req, result |-> Ok(new), appliedRevision |-> new] \in log'
  BY ONLY <1>1, <1>2, <1>5, ~Logged(req.id), InsertFacts, req \in Request
<1>7. NoLostUpdate'
  BY ONLY <1>1, <1>2, AdvanceKeepsBases, req \in Request
<1>8. trail'[d][new].request = req
  BY <1>3
<1>9. answers' \subseteq Answer
  <2>1. answers \subseteq Answer /\ req.id \in Nat
    BY <1>1, RequestFacts DEF TypeOK
  <2> QED BY ONLY <1>2, <1>5, <2>1, ReplyTyped, c \in Connections
<1>10. /\ doc' \in [Designs -> [Cells -> Values]]
       /\ view' \in [Designs -> Values]
       /\ histories' \in [Designs -> [Sessions -> History]]
       /\ \A e \in Designs \ {d} : histories'[e] = histories[e]
  <2> DEFINE k == req.command.cell
             entry == [request |-> req, cell |-> k, old |-> doc[d][k],
                       new |-> req.command.value]
  <2>1. /\ doc \in [Designs -> [Cells -> Values]] /\ view \in [Designs -> Values]
        /\ histories \in [Designs -> [Sessions -> History]]
    BY <1>1 DEF TypeOK
  <2>2. /\ k \in Cells /\ req.command.value \in Values /\ req.session \in Sessions
    BY RequestFacts
  <2>3. entry \in Entry
    BY <1>2, <2>1, <2>2 DEF Entry
  <2>4. Record(histories[d][req.session], entry) \in History
    <3>1. histories[d][req.session] \in History
      BY <1>2, <2>1, <2>2
    <3> QED BY ONLY <2>3, <3>1, RecordTyped
  <2>5. CASE req.command.kind = "view"
    BY <2>1, <2>2, <2>5 DEF Apply
  <2>6. CASE req.command.kind # "view"
    <3>1. /\ doc' = [doc EXCEPT ![d][k] = req.command.value] /\ view' = view
          /\ \/ histories' = histories
             \/ histories' = [histories EXCEPT ![d][req.session] = Record(@, entry)]
      BY <2>6 DEF Apply
    <3> HIDE DEF entry, k
    <3>2. doc' \in [Designs -> [Cells -> Values]]
      BY <1>2, <2>1, <2>2, <3>1
    <3>3. histories' \in [Designs -> [Sessions -> History]]
      <4> DEFINE h == Record(histories[d][req.session], entry)
                 mine == [histories[d] EXCEPT ![req.session] = h]
      <4>1. mine \in [Sessions -> History]
        BY <1>2, <2>1, <2>2, <2>4
      <4>2. \/ histories' = histories
            \/ histories' = [histories EXCEPT ![d] = mine]
        BY <1>2, <2>1, <2>2, <3>1
      <4> HIDE DEF mine
      <4> QED BY <1>2, <2>1, <4>1, <4>2
    <3> QED BY <2>1, <3>1, <3>2, <3>3
  <2> QED BY <2>5, <2>6
<1>11. TypeOK'
  BY <1>3, <1>6, <1>9, <1>10 DEF TypeOK
<1>12. Gone'
  <2> SUFFICES ASSUME NEW e \in Designs, ~Exists(e)'
               PROVE  histories'[e] = [s \in Sessions |-> EmptyHistory]
    BY DEF Gone, EmptyHistory
  <2>1. e # d
    BY <1>3 DEF Exists, NoRevision
  <2>2. ~Exists(e)
    BY <1>3, <2>1 DEF Exists
  <2> QED BY <1>1, <1>10, <2>1, <2>2 DEF Gone
<1>13. OwnTrail'
  <2> SUFFICES ASSUME NEW e \in Designs, NEW n \in Dos(e)'
               PROVE  trail'[e][n].request.design = e
    BY DEF OwnTrail
  <2>1. CASE e # d
    BY <1>1, <1>3, <1>4, <2>1 DEF OwnTrail
  <2>2. CASE e = d /\ n \in Dos(d)
    BY <1>1, <1>2, <1>3, <1>4, <2>2 DEF OwnTrail
  <2>3. CASE e = d /\ n = new
    BY <1>8, <2>3
  <2> QED BY <1>4, <2>1, <2>2, <2>3
<1>14. EveryChangeIsLogged'
  <2> SUFFICES ASSUME NEW e \in Designs, Exists(e)'
               PROVE  /\ Len(trail'[e]) = head'[e]
                      /\ \A n \in Dos(e)' :
                            \E row \in log' : /\ row.request = trail'[e][n].request
                                             /\ row.result = Ok(n)
    BY DEF EveryChangeIsLogged, Ok
  <2>1. CASE e # d
    <3>1. trail'[e] = trail[e] /\ head'[e] = head[e] /\ Dos(e)' = Dos(e)
      BY <1>3, <1>4, <2>1
    <3>2. Exists(e)
      BY <3>1 DEF Exists
    <3> QED BY <1>1, <1>6, <3>1, <3>2 DEF EveryChangeIsLogged
  <2>2. CASE e = d
    <3>1. ASSUME NEW n \in Dos(d)
          PROVE  \E row \in log' : row.request = trail'[d][n].request /\ row.result = Ok(n)
      <4>1. trail'[d][n] = trail[d][n]
        BY <1>3, <1>4
      <4>2. PICK row \in log : row.request = trail[d][n].request /\ row.result = Ok(n)
        BY <1>1, <1>2 DEF EveryChangeIsLogged
      <4> QED BY <1>6, <4>1, <4>2
    <3>2. \E row \in log' : row.request = trail'[d][new].request /\ row.result = Ok(new)
      <4>1. PICK row \in log' :
              row = [request |-> req, result |-> Ok(new), appliedRevision |-> new]
        BY <1>6
      <4> QED BY <1>8, <4>1
    <3> QED BY <1>3, <1>4, <2>2, <3>1, <3>2
  <2> QED BY <2>1, <2>2
<1>15. AppliedAtMostOnce'
  <2>1. \A n \in Dos(d) : trail[d][n].request.id # req.id
    BY <1>1, <1>2 DEF EveryChangeIsLogged, Logged
  <2> SUFFICES ASSUME NEW e \in Designs, NEW m \in Dos(e)', NEW n \in Dos(e)',
                      trail'[e][m].request.id = trail'[e][n].request.id
               PROVE  m = n
    BY DEF AppliedAtMostOnce
  <2>2. CASE e # d
    BY <1>1, <1>3, <1>4, <2>2 DEF AppliedAtMostOnce
  <2>3. CASE e = d
    <3>1. \A i \in Dos(d) : trail'[d][i].request = trail[d][i].request
      BY <1>3, <1>4
    <3>2. CASE m \in Dos(d) /\ n \in Dos(d)
      BY <1>1, <1>2, <2>3, <3>1, <3>2 DEF AppliedAtMostOnce
    <3>3. CASE m = new \/ n = new
      BY <1>4, <1>8, <2>1, <2>3, <3>1, <3>3
    <3> QED BY <1>4, <2>3, <3>2, <3>3
  <2> QED BY <2>2, <2>3
<1> QED BY <1>6, <1>7, <1>11, <1>12, <1>13, <1>14, <1>15 DEF IInv

LEMMA TransactKeeps ==
    ASSUME IInv, NEW c \in Connections, NEW req \in Request, NEW base \in Int,
           ~Logged(req.id), Transact(c, req, base), waiting' \subseteq Call
    PROVE  IInv'
<1> DEFINE d == req.design
<1>1. /\ d \in Designs /\ req.id \in Nat /\ head[d] \in Int /\ NoRevision \in Int
      /\ answers \subseteq Answer
  BY RequestFacts DEF IInv, TypeOK, NoRevision
<1>2. /\ ConflictAt(NoRevision) \in Result /\ ConflictAt(head[d]) \in Result
      /\ Ok(head[d]) \in Result /\ Outcome("REJECTED") \in Result
      /\ Outcome("NET_MERGE_REQUIRES_CONFIRM") \in Result
  BY <1>1, ResultTypes DEF Codes
<1>3. ASSUME NEW result \in Result, Reply(c, req.id, result)
      PROVE  answers' \subseteq Answer
  BY ONLY <1>1, <1>3, ReplyTyped, c \in Connections
<1>4. ASSUME NEW result \in Result, NEW applied \in Int,
             Insert(req, result, applied), Reply(c, req.id, result),
             UNCHANGED <<head, doc, view, histories, trail>>
      PROVE  IInv'
  <2>1. answers' \subseteq Answer
    BY <1>3, <1>4
  <2> QED BY ONLY <1>4, <2>1, InsertKeeps, IInv, req \in Request, ~Logged(req.id),
                  waiting' \subseteq Call
<1>5. ASSUME NEW result \in Result, Reply(c, req.id, result),
             UNCHANGED <<head, doc, view, log, histories, trail>>
      PROVE  IInv'
  <2>1. answers' \subseteq Answer
    BY <1>3, <1>5
  <2> QED BY ONLY <1>5, <2>1, QuietKeeps, IInv, waiting' \subseteq Call
<1>6. CASE Missing(c, req)
  BY <1>1, <1>2, <1>4, <1>6 DEF Missing
<1>7. CASE Stale(c, req, base)
  BY <1>1, <1>2, <1>4, <1>7 DEF Stale
<1>8. CASE Apply(c, req, base)
  BY ONLY <1>8, ApplyKeeps, IInv, c \in Connections, req \in Request, base \in Int,
          ~Logged(req.id), waiting' \subseteq Call
<1>9. CASE NothingToDo(c, req, base)
  BY <1>1, <1>2, <1>4, <1>9 DEF NothingToDo
<1>10. CASE Reject(c, req, base)
  BY <1>1, <1>2, <1>4, <1>10 DEF Reject
<1>11. CASE RefuseMerge(c, req, base)
  BY <1>2, <1>5, <1>11 DEF RefuseMerge
<1>12. CASE Throw(c, req, base)
  BY <1>2, <1>5, <1>12 DEF Throw
<1> QED BY <1>6, <1>7, <1>8, <1>9, <1>10, <1>11, <1>12 DEF Transact

\* A replayed answer is the one that was recorded, or a conflict.
LEMMA ReplayTyped ==
    ASSUME TypeOK, NEW c \in Connections, NEW req \in Request, Logged(req.id),
           Replay(c, req)
    PROVE  answers' \subseteq Answer
<1> DEFINE row == RowOf(req.id)
<1>1. row \in log
  BY DEF Logged, RowOf
<1> HIDE DEF row
<1>2. row.result \in Result /\ row.appliedRevision \in Int
  BY <1>1 DEF TypeOK, Row
<1>3. ConflictAt(row.appliedRevision) \in Result
  BY <1>2, ResultTypes
<1>4. answers \subseteq Answer /\ req.id \in Nat
  BY RequestFacts DEF TypeOK
<1>5. \E result \in Result : Reply(c, req.id, result)
  BY <1>2, <1>3 DEF Replay, Retold, row
<1> QED BY ONLY <1>4, <1>5, ReplyTyped, c \in Connections

-----------------------------------------------------------------------------
(* The actions *)

LEMMA DispatchKeeps ==
    ASSUME IInv, NEW c \in Connections, NEW req \in Request, NEW base \in Int,
           Dispatch(c, req, base)
    PROVE  IInv'
<1>1. TypeOK /\ waiting \subseteq Call /\ answers \subseteq Answer
  BY DEF IInv, TypeOK
<1>2. CASE Logged(req.id) /\ Replay(c, req)
           /\ UNCHANGED <<head, doc, view, log, histories, waiting, trail>>
  <2>1. answers' \subseteq Answer
    BY ONLY <1>1, <1>2, ReplayTyped, c \in Connections, req \in Request
  <2> QED BY <1>1, <1>2, <2>1, QuietKeeps
<1>3. CASE /\ waiting' = waiting \cup {[conn |-> c, request |-> req, base |-> base]}
           /\ UNCHANGED <<head, doc, view, log, histories, answers, trail>>
  <2>1. waiting' \subseteq Call
    BY <1>1, <1>3 DEF Call
  <2> QED BY <1>1, <1>3, <2>1, QuietKeeps
<1>4. CASE ~Logged(req.id) /\ Transact(c, req, base) /\ UNCHANGED waiting
  <2>1. waiting' \subseteq Call
    BY <1>1, <1>4
  <2> QED BY ONLY <1>4, <2>1, TransactKeeps, IInv, c \in Connections,
                  req \in Request, base \in Int
<1> QED BY <1>2, <1>3, <1>4 DEF Dispatch

LEMMA LibraryKeeps ==
    ASSUME IInv, NEW w \in waiting, LibraryResolved(w) \/ LibraryFailed(w)
    PROVE  IInv'
<1>1. /\ TypeOK /\ w \in Call /\ w.conn \in Connections /\ w.request \in Request
      /\ w.base \in Int /\ waiting \ {w} \subseteq Call /\ answers \subseteq Answer
  BY DEF IInv, TypeOK, Call
<1>2. waiting' \subseteq Call
  BY <1>1 DEF LibraryResolved, LibraryFailed
<1>3. CASE Logged(w.request.id) /\ Replay(w.conn, w.request)
           /\ UNCHANGED <<head, doc, view, log, histories, trail>>
  <2>1. answers' \subseteq Answer
    BY ONLY <1>1, <1>3, ReplayTyped
  <2> QED BY <1>2, <1>3, <2>1, QuietKeeps
<1>4. CASE ~Logged(w.request.id) /\ Transact(w.conn, w.request, w.base)
  BY ONLY <1>1, <1>2, <1>4, TransactKeeps, IInv
<1>5. CASE Reply(w.conn, w.request.id, Outcome("ERROR"))
           /\ UNCHANGED <<head, doc, view, log, histories, trail>>
  <2>1. w.request.id \in Nat /\ Outcome("ERROR") \in Result
    BY <1>1, RequestFacts, ResultTypes DEF Codes
  <2>2. answers' \subseteq Answer
    BY ONLY <1>1, <1>5, <2>1, ReplyTyped
  <2> QED BY <1>2, <1>5, <2>2, QuietKeeps
<1> QED BY <1>3, <1>4, <1>5 DEF LibraryResolved, LibraryFailed

\* Undo and redo that advance the design; what was done stays what it was.
LEMMA UndoneKeeps ==
    ASSUME IInv, NEW d \in Designs, NEW s \in Sessions,
           NEW direction \in {"undo", "redo"}, NEW base \in {NoRevision, head[d]},
           Stack(histories[d][s], direction) # <<>>,
           Advance(d, direction, Last(Stack(histories[d][s], direction)).request, base),
           NEW cell \in Cells, NEW value \in Values,
           doc' = [doc EXCEPT ![d][cell] = value],
           histories' = [histories EXCEPT ![d][s] = Consumed(histories[d][s], direction)],
           UNCHANGED <<view, log, waiting>>, answers' \subseteq Answer
    PROVE  IInv'
<1> DEFINE h == histories[d][s]
           req == Last(Stack(h, direction)).request
           new == head[d] + 1
<1>1. /\ TypeOK /\ OneRow /\ Gone /\ OwnTrail
      /\ EveryChangeIsLogged /\ AppliedAtMostOnce /\ NoLostUpdate
  BY DEF IInv
<1>2. h \in History /\ base \in Int
  BY <1>1 DEF TypeOK, NoRevision
<1>3. Consumed(h, direction) \in History /\ Last(Stack(h, direction)) \in Entry
  <2>1. Stack(h, direction) # <<>>
    OBVIOUS
  <2> QED BY ONLY <1>2, <2>1, ConsumedTyped, direction \in {"undo", "redo"}
<1>4. req \in Request
  BY <1>3 DEF Entry
<1>5. Exists(d)
  <2> SUFFICES ASSUME ~Exists(d) PROVE FALSE
    OBVIOUS
  <2>1. h = EmptyHistory
    BY <1>1 DEF Gone
  <2> QED BY <2>1 DEF EmptyHistory, Stack
<1>6. Advance(d, direction, req, base) /\ direction \in {"do", "undo", "redo"}
  OBVIOUS
<1>7. /\ head' \in [Designs -> Nat \cup {NoRevision}]
      /\ trail' \in [Designs -> Seq(Change)]
      /\ head[d] \in Nat /\ Len(trail[d]) = head[d]
      /\ head'[d] = new /\ Len(trail'[d]) = new
      /\ \A e \in Designs \ {d} : head'[e] = head[e] /\ trail'[e] = trail[e]
      /\ \A n \in 1..head[d] : trail'[d][n] = trail[d][n]
  BY ONLY <1>1, <1>2, <1>4, <1>5, <1>6, AdvanceFacts, d \in Designs
<1>8. \A e \in Designs : Dos(e)' = Dos(e)
  <2>1. direction # "do"
    OBVIOUS
  <2>2. /\ \A e \in Designs \ {d} : Dos(e)' = Dos(e)
        /\ Dos(d)' = IF direction = "do" THEN Dos(d) \cup {new} ELSE Dos(d)
    BY ONLY IInv, <1>2, <1>4, <1>5, <1>6, AdvanceDos, d \in Designs
  <2> QED BY <2>1, <2>2
<1>9. \A e \in Designs : \A n \in Dos(e) : trail'[e][n] = trail[e][n]
  BY <1>7 DEF Dos
<1>10. NoLostUpdate'
  BY ONLY <1>1, <1>4, <1>5, <1>6, AdvanceKeepsBases, d \in Designs,
          base \in {NoRevision, head[d]}
<1>11. /\ histories' \in [Designs -> [Sessions -> History]]
       /\ \A e \in Designs \ {d} : histories'[e] = histories[e]
  <2> DEFINE mine == [histories[d] EXCEPT ![s] = Consumed(h, direction)]
  <2>1. histories \in [Designs -> [Sessions -> History]]
    BY <1>1 DEF TypeOK
  <2>2. mine \in [Sessions -> History]
    BY <1>3, <2>1
  <2>3. histories' = [histories EXCEPT ![d] = mine]
    BY <2>1
  <2> HIDE DEF mine
  <2> QED BY <2>1, <2>2, <2>3
<1>12. TypeOK'
  <2>1. doc' \in [Designs -> [Cells -> Values]]
    BY <1>1 DEF TypeOK
  <2> QED BY <1>1, <1>7, <1>11, <2>1 DEF TypeOK
<1>13. OneRow'
  BY <1>1 DEF OneRow
<1>14. Gone'
  <2> SUFFICES ASSUME NEW e \in Designs, ~Exists(e)'
               PROVE  histories'[e] = [x \in Sessions |-> EmptyHistory]
    BY DEF Gone, EmptyHistory
  <2>1. e # d
    BY <1>7 DEF Exists, NoRevision
  <2>2. ~Exists(e)
    BY <1>7, <2>1 DEF Exists
  <2> QED BY <1>1, <1>11, <2>1, <2>2 DEF Gone
<1>15. OwnTrail' /\ AppliedAtMostOnce'
  BY <1>1, <1>8, <1>9 DEF OwnTrail, AppliedAtMostOnce
<1>16. EveryChangeIsLogged'
  <2> SUFFICES ASSUME NEW e \in Designs, Exists(e)'
               PROVE  /\ Len(trail'[e]) = head'[e]
                      /\ \A n \in Dos(e)' :
                            \E row \in log' : /\ row.request = trail'[e][n].request
                                             /\ row.result = Ok(n)
    BY DEF EveryChangeIsLogged, Ok
  <2>1. Exists(e)
    BY <1>5, <1>7 DEF Exists
  <2>2. Len(trail'[e]) = head'[e]
    BY <1>1, <1>7, <2>1 DEF EveryChangeIsLogged
  <2> QED BY <1>1, <1>8, <1>9, <2>1, <2>2 DEF EveryChangeIsLogged
<1> QED BY <1>10, <1>12, <1>13, <1>14, <1>15, <1>16 DEF IInv

LEMMA ReplayHistoryKeeps ==
    ASSUME IInv, NEW c \in Connections, NEW d \in Designs, NEW s \in Sessions,
           NEW direction \in {"undo", "redo"}, NEW expected \in Int,
           ReplayHistory(c, d, s, direction, expected)
    PROVE  IInv'
<1> DEFINE h == histories[d][s]
           entry == Last(Stack(h, direction))
           value == IF direction = "undo" THEN entry.old ELSE entry.new
<1>1. /\ TypeOK /\ head[d] \in Int /\ h \in History /\ answers \subseteq Answer
      /\ waiting \subseteq Call
  BY DEF IInv, TypeOK, NoRevision
<1>2. waiting' = waiting /\ waiting' \subseteq Call
  BY <1>1 DEF ReplayHistory
<1>3. /\ ConflictAt(head[d]) \in Result /\ Ok(head[d] + 1) \in Result
      /\ Outcome("HISTORY_EMPTY") \in Result /\ Outcome("ERROR") \in Result
  BY <1>1, ResultTypes DEF Codes
<1>4. ASSUME NEW result \in Result, Reply(c, 0, result)
      PROVE  answers' \subseteq Answer
  <2>1. 0 \in Nat
    OBVIOUS
  <2> QED BY ONLY <1>1, <1>4, <2>1, ReplyTyped, c \in Connections
<1>5. ASSUME NEW result \in Result, Reply(c, 0, result),
             UNCHANGED <<head, doc, view, log, histories, trail>>
      PROVE  IInv'
  <2>1. answers' \subseteq Answer
    BY <1>4, <1>5
  <2> QED BY ONLY <1>2, <1>5, <2>1, QuietKeeps, IInv
<1>6. CASE /\ Reply(c, 0, ConflictAt(head[d]))
           /\ UNCHANGED <<head, doc, view, log, histories, trail>>
  BY <1>3, <1>5, <1>6
<1>7. CASE /\ Reply(c, 0, Outcome("HISTORY_EMPTY"))
           /\ UNCHANGED <<head, doc, view, log, histories, trail>>
  BY <1>3, <1>5, <1>7
<1>8. CASE /\ Reply(c, 0, Outcome("ERROR"))
           /\ UNCHANGED <<head, doc, view, log, histories, trail>>
  BY <1>3, <1>5, <1>8
<1>9. CASE /\ expected \in {NoRevision, head[d]}
           /\ Stack(h, direction) # <<>>
           /\ Advance(d, direction, entry.request, expected)
           /\ doc' = [doc EXCEPT ![d][entry.cell] = value]
           /\ histories' = [histories EXCEPT ![d][s] = Consumed(h, direction)]
           /\ Reply(c, 0, Ok(head[d] + 1))
           /\ UNCHANGED <<view, log>>
  <2>1. answers' \subseteq Answer
    BY <1>3, <1>4, <1>9
  <2>2. entry \in Entry
    BY ONLY <1>1, <1>9, ConsumedTyped, direction \in {"undo", "redo"}
  <2>3. entry.cell \in Cells /\ value \in Values
    BY <2>2 DEF Entry
  <2> QED BY ONLY <1>2, <1>9, <2>1, <2>3, UndoneKeeps, IInv, d \in Designs,
                  s \in Sessions, direction \in {"undo", "redo"}
<1> QED BY <1>6, <1>7, <1>8, <1>9 DEF ReplayHistory

\* The rows that go are those of the design that goes.
LEMMA DeleteKeeps ==
    ASSUME IInv, NEW d \in Designs, DeleteDesign(d)
    PROVE  IInv'
<1>1. /\ TypeOK /\ OneRow /\ Gone /\ OwnTrail
      /\ EveryChangeIsLogged /\ AppliedAtMostOnce /\ NoLostUpdate
  BY DEF IInv
<1>2. /\ head' = [head EXCEPT ![d] = NoRevision]
      /\ log' = {row \in log : row.request.design # d}
      /\ histories' = [histories EXCEPT ![d] = [s \in Sessions |-> EmptyHistory]]
      /\ doc' = [doc EXCEPT ![d] = [k \in Cells |-> 0]]
      /\ view' = [view EXCEPT ![d] = 0]
      /\ UNCHANGED <<waiting, answers, trail>>
  BY DEF DeleteDesign
<1>3. TypeOK'
  <2>1. EmptyHistory \in History /\ 0 \in Values
    BY StoreAssumptions DEF EmptyHistory, History
  <2>2. [s \in Sessions |-> EmptyHistory] \in [Sessions -> History]
    BY <2>1
  <2> QED BY <1>1, <1>2, <2>1, <2>2 DEF TypeOK
<1>4. OneRow' /\ OwnTrail' /\ AppliedAtMostOnce' /\ NoLostUpdate'
  BY <1>1, <1>2 DEF OneRow, OwnTrail, AppliedAtMostOnce, NoLostUpdate, Dos
<1>5. Gone'
  <2> SUFFICES ASSUME NEW e \in Designs, ~Exists(e)'
               PROVE  histories'[e] = [x \in Sessions |-> EmptyHistory]
    BY DEF Gone, EmptyHistory
  <2>1. CASE e = d
    BY <1>1, <1>2, <2>1 DEF TypeOK
  <2>2. CASE e # d
    BY <1>1, <1>2, <2>2 DEF TypeOK, Gone, Exists
  <2> QED BY <2>1, <2>2
<1>6. EveryChangeIsLogged'
  <2> SUFFICES ASSUME NEW e \in Designs, Exists(e)'
               PROVE  /\ Len(trail[e]) = head'[e]
                      /\ \A n \in Dos(e) :
                            \E row \in log' : /\ row.request = trail[e][n].request
                                             /\ row.result = Ok(n)
    BY <1>2 DEF EveryChangeIsLogged, Ok, Dos
  <2>1. e # d /\ head'[e] = head[e] /\ Exists(e)
    BY <1>1, <1>2 DEF TypeOK, Exists
  <2>2. ASSUME NEW n \in Dos(e)
        PROVE  \E row \in log' : row.request = trail[e][n].request /\ row.result = Ok(n)
    <3>1. PICK row \in log : row.request = trail[e][n].request /\ row.result = Ok(n)
      BY <1>1, <2>1 DEF EveryChangeIsLogged
    <3>2. row.request.design = e
      BY <1>1, <3>1 DEF OwnTrail
    <3> QED BY <1>2, <2>1, <3>1, <3>2
  <2> QED BY <1>1, <2>1, <2>2 DEF EveryChangeIsLogged
<1> QED BY <1>1, <1>3, <1>4, <1>5, <1>6 DEF IInv

-----------------------------------------------------------------------------
(* The invariant *)

LEMMA InitInv == Init => IInv
<1> SUFFICES ASSUME Init PROVE IInv
  OBVIOUS
<1>1. EmptyHistory \in History /\ 0 \in Values
  BY StoreAssumptions DEF EmptyHistory, History
<1>2. \A d \in Designs : trail[d] = <<>> /\ head[d] = 0 /\ Exists(d) /\ Dos(d) = {}
  BY DEF Init, Exists, NoRevision, Dos
<1>3. TypeOK
  BY <1>1 DEF Init, TypeOK
<1>4. OneRow /\ Gone /\ OwnTrail /\ EveryChangeIsLogged
  BY <1>2 DEF Init, OneRow, Gone, OwnTrail, EveryChangeIsLogged
<1>5. AppliedAtMostOnce /\ NoLostUpdate
  BY <1>2 DEF AppliedAtMostOnce, NoLostUpdate
<1> QED BY <1>3, <1>4, <1>5 DEF IInv

LEMMA NextInv == IInv /\ [Next]_vars => IInv'
<1> SUFFICES ASSUME IInv, [Next]_vars PROVE IInv'
  OBVIOUS
<1>1. Requests \subseteq Request /\ Bases \subseteq Int
  BY StoreAssumptions
<1>2. waiting \subseteq Call /\ answers \subseteq Answer
  BY DEF IInv, TypeOK
<1>3. CASE \E c \in Connections, req \in Requests, base \in Bases : Dispatch(c, req, base)
  BY <1>1, <1>3, DispatchKeeps
<1>4. CASE \E w \in waiting : LibraryResolved(w) \/ LibraryFailed(w)
  BY <1>4, LibraryKeeps
<1>5. CASE \E c \in Connections, d \in Designs, s \in Sessions,
              direction \in {"undo", "redo"}, expected \in Bases :
              ReplayHistory(c, d, s, direction, expected)
  <2>1. PICK c \in Connections, d \in Designs, s \in Sessions,
             direction \in {"undo", "redo"}, expected \in Int :
             ReplayHistory(c, d, s, direction, expected)
    BY <1>1, <1>5
  <2> QED BY <2>1, ReplayHistoryKeeps
<1>6. CASE \E d \in Designs : DeleteDesign(d)
  BY <1>6, DeleteKeeps
<1>7. CASE \E a \in answers : Deliver(a)
  BY <1>2, <1>7, QuietKeeps DEF Deliver
<1>8. CASE Restart
  BY <1>2, <1>8, QuietKeeps DEF Restart
<1>9. CASE UNCHANGED vars
  BY <1>2, <1>9, QuietKeeps DEF vars
<1> QED BY <1>3, <1>4, <1>5, <1>6, <1>7, <1>8, <1>9 DEF Next

\* One row per id, a row for all that ran and nothing to undo in a deleted
\* design: every state of the command store has them all.
THEOREM StoreInvariant == Spec => []IInv
<1>1. Init => IInv
  BY InitInv
<1>2. IInv /\ [Next]_vars => IInv'
  BY NextInv
<1> QED BY <1>1, <1>2, PTL DEF Spec

-----------------------------------------------------------------------------
(* What follows *)

\* One row per id, and a row for what ran: what a row says is what happened.
LEMMA LogFollows == IInv => LogIsTruthful
<1> SUFFICES ASSUME IInv, NEW row \in log, Exists(row.request.design),
                    NEW n \in AppliedAt(row.request)
             PROVE  row.result.code = "OK" /\ n = row.result.revision
  BY DEF LogIsTruthful
<1> DEFINE d == row.request.design
<1>1. /\ TypeOK /\ OneRow /\ EveryChangeIsLogged
  BY DEF IInv
<1>2. row \in Row /\ d \in Designs
  BY <1>1, RequestFacts DEF TypeOK, Row
<1>3. n \in Dos(d) /\ trail[d][n].request = row.request
  BY DEF AppliedAt
<1>4. PICK q \in log : q.request = row.request /\ q.result = Ok(n)
  BY <1>1, <1>2, <1>3 DEF EveryChangeIsLogged
<1>5. q = row
  BY <1>1, <1>4 DEF OneRow
<1> QED BY <1>4, <1>5 DEF Ok

\* Whatever callers send, the rows and answers of the store keep their types.
THEOREM StoreTypeOK == Spec => []TypeOK
<1>1. IInv => TypeOK
  BY DEF IInv
<1> QED BY <1>1, StoreInvariant, PTL

\* However often and however concurrently a command is sent, and whatever is
\* lost on the way, its id takes effect at most once.
THEOREM IdsApplyOnce == Spec => []AppliedAtMostOnce
<1>1. IInv => AppliedAtMostOnce
  BY DEF IInv
<1> QED BY <1>1, StoreInvariant, PTL

\* The log of a live design has a row for each command that ran, at its
\* revision, and no row that claims or denies it wrongly.
THEOREM LogTellsTheStory == Spec => []LogMatchesDocument
<1>1. IInv => LogMatchesDocument
  BY LogFollows DEF IInv, LogMatchesDocument
<1> QED BY <1>1, StoreInvariant, PTL

\* A change that named the revision it was made for is the one right after it.
THEOREM NothingOverwritten == Spec => []NoLostUpdate
<1>1. IInv => NoLostUpdate
  BY DEF IInv
<1> QED BY <1>1, StoreInvariant, PTL

-----------------------------------------------------------------------------
(* A history is one line of entries: undo and redo move the place on it. *)

\* A history as one line of entries.
LEMMA LineFacts ==
    ASSUME NEW h \in History
    PROVE  /\ h.undo \in Seq(Entry) /\ h.redo \in Seq(Entry)
           /\ Len(h.undo) \in Nat /\ Len(h.redo) \in Nat
           /\ Line(h) \in Seq(Entry)
           /\ Len(Line(h)) = Len(h.undo) + Len(h.redo)
           /\ \A n \in 1..(Len(h.undo) + Len(h.redo)) :
                 Line(h)[n] = IF n <= Len(h.undo) THEN h.undo[n]
                              ELSE h.redo[((Len(h.undo) + Len(h.redo)) - n) + 1]
<1>1. h.undo \in Seq(Entry) /\ h.redo \in Seq(Entry)
  BY DEF History
<1>2. Len(h.undo) \in Nat /\ Len(h.redo) \in Nat
  BY <1>1
<1> DEFINE r == Reverse(h.redo)
<1>3. /\ r \in Seq(Entry) /\ Len(r) = Len(h.redo)
      /\ \A n \in 1..Len(h.redo) : r[n] = h.redo[(Len(h.redo) - n) + 1]
  <2>1. r = [n \in 1..Len(h.redo) |-> h.redo[(Len(h.redo) - n) + 1]]
    BY DEF Reverse
  <2>2. \A n \in 1..Len(h.redo) : h.redo[(Len(h.redo) - n) + 1] \in Entry
    <3> SUFFICES ASSUME NEW n \in 1..Len(h.redo)
                 PROVE  h.redo[(Len(h.redo) - n) + 1] \in Entry
      OBVIOUS
    <3>1. (Len(h.redo) - n) + 1 \in 1..Len(h.redo)
      BY <1>2
    <3> QED BY <1>1, <3>1
  <2> QED BY <1>2, <2>1, <2>2
<1> HIDE DEF r
<1>4. Line(h) = h.undo \o r
  BY DEF Line, r
<1>5. /\ h.undo \o r \in Seq(Entry)
      /\ Len(h.undo \o r) = Len(h.undo) + Len(r)
      /\ \A i \in 1..(Len(h.undo) + Len(r)) :
            (h.undo \o r)[i] = IF i <= Len(h.undo) THEN h.undo[i] ELSE r[i - Len(h.undo)]
  <2>1. h.undo \in Seq(Entry) /\ r \in Seq(Entry)
    BY ONLY <1>1, <1>3
  <2> QED BY ONLY <2>1, ConcatProperties, Zenon
<1>6. ASSUME NEW n \in 1..(Len(h.undo) + Len(h.redo)), n > Len(h.undo)
      PROVE  r[n - Len(h.undo)] = h.redo[((Len(h.undo) + Len(h.redo)) - n) + 1]
  <2>1. /\ n - Len(h.undo) \in 1..Len(h.redo)
        /\ (Len(h.redo) - (n - Len(h.undo))) + 1
             = ((Len(h.undo) + Len(h.redo)) - n) + 1
    <3> DEFINE u == Len(h.undo)
               q == Len(h.redo)
    <3>1. u \in Nat /\ q \in Nat /\ n \in 1..(u + q) /\ n > u
      BY ONLY <1>2, <1>6, n \in 1..(Len(h.undo) + Len(h.redo))
    <3> HIDE DEF u, q
    <3>2. n - u \in 1..q /\ (q - (n - u)) + 1 = ((u + q) - n) + 1
      BY ONLY <3>1
    <3> QED BY ONLY <3>2 DEF u, q
  <2> QED BY ONLY <1>3, <2>1
<1>7. ASSUME NEW n \in 1..(Len(h.undo) + Len(h.redo))
      PROVE  Line(h)[n] = IF n <= Len(h.undo) THEN h.undo[n]
                          ELSE h.redo[((Len(h.undo) + Len(h.redo)) - n) + 1]
  <2>1. CASE n <= Len(h.undo)
    BY ONLY <1>3, <1>4, <1>5, <2>1, n \in 1..(Len(h.undo) + Len(h.redo))
  <2>2. CASE ~(n <= Len(h.undo))
    <3>1. n > Len(h.undo)
      BY <1>2, <2>2
    <3> QED BY ONLY <1>3, <1>4, <1>5, <1>6, <2>2, <3>1,
                    n \in 1..(Len(h.undo) + Len(h.redo))
  <2> QED BY ONLY <2>1, <2>2
<1> QED BY ONLY <1>1, <1>2, <1>3, <1>4, <1>5, <1>7

\* The last of a stack, and what is before it.
LEMMA PopFacts ==
    ASSUME NEW st \in Seq(Entry), st # <<>>
    PROVE  /\ Len(st) \in Nat \ {0} /\ Last(st) = st[Len(st)] /\ Last(st) \in Entry
           /\ Front(st) \in Seq(Entry) /\ Len(Front(st)) = Len(st) - 1
           /\ \A n \in 1..(Len(st) - 1) : Front(st)[n] = st[n]
<1>1. Len(st) \in Nat \ {0}
  BY EmptySeq
<1>2. Front(st) = SubSeq(st, 1, Len(st) - 1)
  BY DEF Front
<1>3. \A i \in 1..(Len(st) - 1) : st[i] \in Entry
  BY <1>1
<1> DEFINE m == Len(st) - 1
<1>4. m \in Nat /\ m \in Int
  BY ONLY <1>1
<1>m. m = Len(st) - 1
  OBVIOUS
<1> HIDE DEF m
<1>5. /\ Len(SubSeq(st, 1, m)) = IF 1 <= m THEN m - 1 + 1 ELSE 0
      /\ \A i \in 1..(m - 1 + 1) : SubSeq(st, 1, m)[i] = st[1 + i - 1]
  <2>1. 1 \in Int
    OBVIOUS
  <2>2. \A i \in 1..m : st[i] \in Entry
    BY ONLY <1>3, <1>m
  <2> QED BY ONLY <1>4, <2>1, <2>2, SubSeqProperties
<1>6. m \in Nat /\ Len(SubSeq(st, 1, m)) = m
  <2>1. m - 1 + 1 = m /\ (1 <= m \/ m = 0)
    BY ONLY <1>4
  <2> QED BY ONLY <1>4, <1>5, <2>1
<1>7. ASSUME NEW n \in 1..m PROVE SubSeq(st, 1, m)[n] = st[n]
  <2>1. n \in 1..(m - 1 + 1) /\ 1 + n - 1 = n
    BY ONLY <1>6, n \in 1..m
  <2> QED BY ONLY <1>5, <2>1
<1> QED BY <1>1, <1>2, <1>m, <1>6, <1>7, StackFacts DEF Last

\* Undo and redo move the place on the line and leave the line as it is.
LEMMA ConsumedLine ==
    ASSUME NEW h \in History, NEW direction \in {"undo", "redo"},
           Stack(h, direction) # <<>>
    PROVE  LET g == Consumed(h, direction)
               at == IF direction = "undo" THEN Len(h.undo) ELSE Len(h.undo) + 1
           IN  /\ Line(g) = Line(h)
               /\ at \in 1..Len(Line(h)) /\ Last(Stack(h, direction)) = Line(h)[at]
               /\ Len(g.undo) = IF direction = "undo" THEN at - 1 ELSE at
<1> DEFINE g == Consumed(h, direction)
<1> DEFINE u == Len(h.undo)
           r == Len(h.redo)
           all == u + r
<1>b. u \in Nat /\ r \in Nat
  BY LineFacts
<1>c. u = Len(h.undo) /\ r = Len(h.redo)
  OBVIOUS
<1> HIDE DEF u, r
<1>0. u \in Nat /\ r \in Nat /\ all \in Nat /\ all = u + r
  BY ONLY <1>b
<1> HIDE DEF all
<1>1. g \in History
  BY ConsumedTyped
<1>2. /\ h.undo \in Seq(Entry) /\ h.redo \in Seq(Entry)
      /\ Line(h) \in Seq(Entry) /\ Len(Line(h)) = all
      /\ \A n \in 1..all : Line(h)[n] = IF n <= u THEN h.undo[n]
                                        ELSE h.redo[(all - n) + 1]
  BY <1>0, <1>c, LineFacts
<1>3. /\ Len(g.undo) \in Nat /\ Len(g.redo) \in Nat
      /\ Line(g) \in Seq(Entry) /\ Len(Line(g)) = Len(g.undo) + Len(g.redo)
      /\ \A n \in 1..(Len(g.undo) + Len(g.redo)) :
            Line(g)[n] = IF n <= Len(g.undo) THEN g.undo[n]
                         ELSE g.redo[((Len(g.undo) + Len(g.redo)) - n) + 1]
  BY <1>1, LineFacts
<1>4. CASE direction = "undo"
  <2>1. /\ u \in Nat \ {0} /\ Last(h.undo) = h.undo[u] /\ Last(h.undo) \in Entry
        /\ Len(Front(h.undo)) = u - 1
        /\ \A n \in 1..(u - 1) : Front(h.undo)[n] = h.undo[n]
    <3>1. h.undo # <<>>
      BY <1>4 DEF Stack
    <3> QED BY ONLY <1>0, <1>c, <1>2, <3>1, PopFacts
  <2>2. g.undo = Front(h.undo) /\ g.redo = Append(h.redo, Last(h.undo))
    BY <1>4 DEF Consumed
  <2>3. Last(Stack(h, direction)) = h.undo[u]
    BY <1>4, <2>1 DEF Stack
  <2> HIDE DEF g
  <2>4. /\ Len(g.redo) = r + 1 /\ g.redo[r + 1] = h.undo[u]
        /\ \A n \in 1..r : g.redo[n] = h.redo[n]
    BY ONLY <1>0, <1>c, <1>2, <2>1, <2>2
  <2>5. Len(g.undo) = u - 1 /\ Len(g.undo) + Len(g.redo) = all
    <3>1. (u - 1) + (r + 1) = all
      BY ONLY <1>0
    <3> QED BY ONLY <2>1, <2>2, <2>4, <3>1
  <2>6. ASSUME NEW n \in 1..all PROVE Line(g)[n] = Line(h)[n]
    <3>1. CASE n <= u - 1
      <4>1. n \in 1..(u - 1) /\ n <= u
        BY ONLY <3>1, <1>0, n \in 1..all
      <4> QED BY ONLY <1>2, <1>3, <2>1, <2>2, <2>5, <3>1, <4>1, n \in 1..all
    <3>2. CASE n = u
      <4>1. ~(n <= u - 1) /\ n <= u /\ (all - n) + 1 = r + 1
        BY ONLY <1>0, <3>2
      <4> QED BY ONLY <1>2, <1>3, <2>4, <2>5, <3>2, <4>1, n \in 1..all
    <3>3. CASE n > u
      <4>1. ~(n <= u - 1) /\ ~(n <= u) /\ (all - n) + 1 \in 1..r
        BY ONLY <1>0, <3>3, n \in 1..all
      <4> QED BY ONLY <1>2, <1>3, <2>4, <2>5, <4>1, n \in 1..all
    <3> QED BY ONLY <3>1, <3>2, <3>3, n \in 1..all, <1>0
  <2>7. Line(g) = Line(h)
    BY ONLY <1>2, <1>3, <2>5, <2>6, SeqEqual
  <2>8. u \in 1..all /\ Line(h)[u] = h.undo[u]
    <3>1. u \in 1..all /\ u <= u
      BY ONLY <1>0, <2>1
    <3> QED BY ONLY <1>2, <3>1
  <2> QED BY <1>0, <1>c, <1>2, <1>4, <2>3, <2>5, <2>7, <2>8 DEF g
<1>5. CASE direction = "redo"
  <2>1. /\ r \in Nat \ {0} /\ Last(h.redo) = h.redo[r] /\ Last(h.redo) \in Entry
        /\ Len(Front(h.redo)) = r - 1
        /\ \A n \in 1..(r - 1) : Front(h.redo)[n] = h.redo[n]
    <3>1. h.redo # <<>>
      BY <1>5 DEF Stack
    <3> QED BY ONLY <1>0, <1>c, <1>2, <3>1, PopFacts
  <2>2. g.undo = Append(h.undo, Last(h.redo)) /\ g.redo = Front(h.redo)
    BY <1>5 DEF Consumed
  <2>3. Last(Stack(h, direction)) = h.redo[r]
    BY <1>5, <2>1 DEF Stack
  <2> HIDE DEF g
  <2>4. /\ Len(g.undo) = u + 1 /\ g.undo[u + 1] = h.redo[r]
        /\ \A n \in 1..u : g.undo[n] = h.undo[n]
    BY ONLY <1>0, <1>c, <1>2, <2>1, <2>2
  <2>5. Len(g.redo) = r - 1 /\ Len(g.undo) + Len(g.redo) = all
    <3>1. (u + 1) + (r - 1) = all
      BY ONLY <1>0
    <3> QED BY ONLY <2>1, <2>2, <2>4, <3>1
  <2>8. u + 1 \in 1..all /\ Line(h)[u + 1] = h.redo[r]
    <3>1. u + 1 \in 1..all /\ ~(u + 1 <= u) /\ (all - (u + 1)) + 1 = r
      BY ONLY <1>0, <2>1
    <3> QED BY ONLY <1>2, <3>1
  <2>6. ASSUME NEW n \in 1..all PROVE Line(g)[n] = Line(h)[n]
    <3>1. CASE n <= u
      <4>1. n \in 1..u /\ n <= u + 1
        BY ONLY <3>1, <1>0, n \in 1..all
      <4> QED BY ONLY <1>2, <1>3, <2>4, <2>5, <3>1, <4>1, n \in 1..all
    <3>2. CASE n = u + 1
      <4>1. n <= u + 1
        BY ONLY <1>0, <3>2
      <4> QED BY ONLY <1>3, <2>4, <2>5, <2>8, <3>2, <4>1, n \in 1..all
    <3>3. CASE n > u + 1
      <4>1. ~(n <= u + 1) /\ ~(n <= u) /\ (all - n) + 1 \in 1..(r - 1)
        BY ONLY <1>0, <3>3, n \in 1..all
      <4> QED BY ONLY <1>2, <1>3, <2>1, <2>2, <2>4, <2>5, <4>1, n \in 1..all
    <3> QED BY ONLY <3>1, <3>2, <3>3, n \in 1..all, <1>0
  <2>7. Line(g) = Line(h)
    BY ONLY <1>2, <1>3, <2>5, <2>6, SeqEqual
  <2> QED BY <1>0, <1>c, <1>2, <1>5, <2>3, <2>4, <2>7, <2>8 DEF g
<1> QED BY <1>4, <1>5

\* Recording keeps the latest entries done, forgets what could be redone and
\* ends the line with the new entry.
LEMMA RecordLine ==
    ASSUME NEW h \in History, NEW e \in Entry
    PROVE  LET g == Record(h, e)
               all == Len(Line(g))
               off == (Len(h.undo) + 1) - all
           IN  /\ all \in 1..DepthLimit /\ off \in Nat /\ Len(g.undo) = all
               /\ all - 1 <= Len(h.undo) /\ Len(h.undo) <= Len(Line(h))
               /\ Line(g)[all] = e
               /\ \A n \in 1..(all - 1) : Line(g)[n] = Line(h)[n + off]
<1> DEFINE g == Record(h, e)
           pushed == Append(h.undo, e)
<1> DEFINE u == Len(h.undo)
           r == Len(h.redo)
<1>0. u \in Nat /\ r \in Nat
  BY LineFacts
<1>c. u = Len(h.undo) /\ r = Len(h.redo)
  OBVIOUS
<1> HIDE DEF u, r
<1>1. g \in History /\ DepthLimit \in Nat \ {0}
  BY RecordTyped, StoreAssumptions
<1>2. /\ h.undo \in Seq(Entry) /\ Len(Line(h)) = u + r
      /\ \A n \in 1..u : Line(h)[n] = h.undo[n]
  <2>1. /\ h.undo \in Seq(Entry) /\ Len(Line(h)) = u + r
        /\ \A n \in 1..(u + r) : Line(h)[n] = IF n <= u THEN h.undo[n]
                                              ELSE h.redo[((u + r) - n) + 1]
    BY <1>0, <1>c, LineFacts
  <2>2. \A n \in 1..u : n \in 1..(u + r) /\ n <= u
    BY ONLY <1>0
  <2> QED BY ONLY <2>1, <2>2
<1>3. /\ pushed \in Seq(Entry) /\ Len(pushed) = u + 1 /\ pushed[u + 1] = e
      /\ \A n \in 1..u : pushed[n] = h.undo[n]
  BY <1>0, <1>c, <1>2
<1>4. /\ g.redo = <<>>
      /\ g.undo = IF Len(pushed) - DepthLimit > 0
                  THEN SubSeq(pushed, (Len(pushed) - DepthLimit) + 1, Len(pushed))
                  ELSE pushed
  BY DEF Record
<1> HIDE DEF g, pushed
<1>5. PICK off, all :
         /\ off \in Nat /\ all \in Nat /\ all \in 1..DepthLimit /\ all + off = u + 1 /\ Len(g.undo) = all
         /\ \A n \in 1..all : g.undo[n] = pushed[n + off]
  <2>1. CASE Len(pushed) - DepthLimit > 0
    <3> DEFINE lo == ((u + 1) - DepthLimit) + 1
               hi == u + 1
               off == (u + 1) - DepthLimit
    <3>1. lo \in Int /\ hi \in Int /\ lo = ((u + 1) - DepthLimit) + 1 /\ hi = u + 1
      BY ONLY <1>0, <1>1
    <3>6. off \in Nat /\ off = (u + 1) - DepthLimit
      BY ONLY <1>0, <1>1, <1>3, <2>1
    <3> HIDE DEF lo, hi, off
    <3>2. g.undo = SubSeq(pushed, lo, hi)
      BY ONLY <1>3, <1>4, <2>1, <3>1
    <3>3. lo >= 1 /\ lo <= hi /\ (hi - lo) + 1 = DepthLimit
      BY ONLY <1>0, <1>1, <1>3, <2>1, <3>1
    <3>4. \A i \in lo..hi : pushed[i] \in Entry
      <4>1. \A i \in lo..hi : i \in 1..Len(pushed)
        BY ONLY <1>0, <1>3, <3>1, <3>3
      <4> QED BY ONLY <1>3, <4>1, ElementOfSeq
    <3>5. /\ Len(g.undo) = IF lo <= hi THEN hi - lo + 1 ELSE 0
          /\ \A i \in 1..(hi - lo + 1) : g.undo[i] = pushed[lo + i - 1]
      BY ONLY <3>1, <3>2, <3>4, SubSeqProperties
    <3>7. ASSUME NEW n \in 1..DepthLimit PROVE g.undo[n] = pushed[n + off]
      <4>1. n \in 1..(hi - lo + 1) /\ lo + n - 1 = n + off
        BY ONLY <1>0, <1>1, <3>1, <3>3, <3>6, n \in 1..DepthLimit
      <4> QED BY ONLY <3>5, <4>1
    <3>8. /\ DepthLimit \in Nat /\ DepthLimit \in 1..DepthLimit
          /\ DepthLimit + off = u + 1 /\ Len(g.undo) = DepthLimit
      BY ONLY <1>0, <1>1, <3>1, <3>3, <3>5, <3>6
    <3> QED BY ONLY <3>6, <3>7, <3>8
  <2>2. CASE ~(Len(pushed) - DepthLimit > 0)
    <3>1. /\ u + 1 \in Nat /\ 0 \in Nat /\ u + 1 \in 1..DepthLimit
          /\ (u + 1) + 0 = u + 1 /\ \A n \in 1..(u + 1) : n + 0 = n
      BY ONLY <1>0, <1>1, <1>3, <2>2
    <3>2. g.undo = pushed
      BY ONLY <1>4, <2>2
    <3> QED BY ONLY <1>3, <3>1, <3>2
  <2> QED BY ONLY <2>1, <2>2
<1>a. /\ off \in Nat /\ all \in Nat /\ all \in 1..DepthLimit /\ all + off = u + 1
      /\ Len(g.undo) = all /\ \A n \in 1..all : g.undo[n] = pushed[n + off]
  BY <1>5
<1>6. /\ Len(Line(g)) = all
      /\ \A n \in 1..all : Line(g)[n] = g.undo[n]
  <2>1. Len(g.redo) = 0
    BY ONLY <1>4, EmptySeq
  <2>2. /\ Len(Line(g)) = Len(g.undo) + Len(g.redo)
        /\ \A n \in 1..(Len(g.undo) + Len(g.redo)) :
              Line(g)[n] = IF n <= Len(g.undo) THEN g.undo[n]
                           ELSE g.redo[((Len(g.undo) + Len(g.redo)) - n) + 1]
    BY ONLY <1>1, LineFacts
  <2>3. Len(g.undo) + Len(g.redo) = all /\ \A n \in 1..all : n <= Len(g.undo)
    BY ONLY <1>a, <2>1
  <2> QED BY ONLY <2>2, <2>3
<1>7. (Len(h.undo) + 1) - Len(Line(g)) = off /\ all - 1 <= u /\ u <= u + r
  <2>1. (u + 1) - all = off /\ all - 1 <= u /\ u <= u + r
    BY ONLY <1>0, <1>a
  <2> QED BY ONLY <1>c, <1>6, <2>1
<1>8. Line(g)[all] = e
  <2>1. all \in 1..all /\ all + off = u + 1
    BY ONLY <1>a
  <2> QED BY ONLY <1>3, <1>a, <1>6, <2>1
<1>9. ASSUME NEW n \in 1..(all - 1) PROVE Line(g)[n] = Line(h)[n + off]
  <2>1. n \in 1..all /\ n + off \in 1..u
    BY ONLY <1>0, <1>a, n \in 1..(all - 1)
  <2> QED BY ONLY <1>2, <1>3, <1>a, <1>6, <2>1
<1> QED BY <1>0, <1>c, <1>2, <1>a, <1>6, <1>7, <1>8, <1>9 DEF g

-----------------------------------------------------------------------------
(* A line that explains the value of a cell *)

\* No entry on cell k from lo to hi.
Free(line, k, lo, hi) == \A i \in lo..hi : ~(i \in 1..Len(line) /\ line[i].cell = k)

\* What it is for a line to explain a value.
LEMMA ExplainsFacts ==
    ASSUME NEW line, NEW done, NEW k, NEW v
    PROVE  Explains(line, done, k, v) <=>
             /\ \A m, n \in 1..Len(line) :
                   /\ line[m].cell = k /\ line[n].cell = k
                   /\ m < n /\ Free(line, k, m + 1, n - 1)
                   => line[m].new = line[n].old
             /\ \A n \in 1..Len(line) :
                   line[n].cell = k /\ n <= done /\ Free(line, k, n + 1, done)
                   => line[n].new = v
             /\ \A n \in 1..Len(line) :
                   line[n].cell = k /\ n > done /\ Free(line, k, done + 1, n - 1)
                   => line[n].old = v
<1> DEFINE on == {n \in 1..Len(line) : line[n].cell = k}
<1>1. \A n : n \in on <=> n \in 1..Len(line) /\ line[n].cell = k
  OBVIOUS
<1>2. \A lo, hi : (\A i \in lo..hi : i \notin on) <=> Free(line, k, lo, hi)
  BY <1>1 DEF Free
<1>3. Explains(line, done, k, v) <=>
        /\ \A m, n \in on : m < n /\ Free(line, k, m + 1, n - 1) => line[m].new = line[n].old
        /\ \A n \in on : n <= done /\ Free(line, k, n + 1, done) => line[n].new = v
        /\ \A n \in on : n > done /\ Free(line, k, done + 1, n - 1) => line[n].old = v
  BY <1>2, Zenon DEF Explains
<1> HIDE DEF on
<1> QED BY <1>1, <1>3

LEMMA FitsUndo ==
    ASSUME NEW line \in Seq(Entry), NEW at \in 1..Len(line), NEW k, NEW v,
           Explains(line, at, k, v)
    PROVE  Explains(line, at - 1, k, IF line[at].cell = k THEN line[at].old ELSE v)
<1> DEFINE w == IF line[at].cell = k THEN line[at].old ELSE v
           all == Len(line)
<1>0. all \in Nat /\ at \in 1..all
  OBVIOUS
<1> HIDE DEF all
<1>1. /\ \A m, n \in 1..all :
            /\ line[m].cell = k /\ line[n].cell = k
            /\ m < n /\ Free(line, k, m + 1, n - 1)
            => line[m].new = line[n].old
      /\ \A n \in 1..all :
            line[n].cell = k /\ n <= at /\ Free(line, k, n + 1, at) => line[n].new = v
      /\ \A n \in 1..all :
            line[n].cell = k /\ n > at /\ Free(line, k, at + 1, n - 1) => line[n].old = v
  BY ExplainsFacts DEF all
<1>2. ASSUME NEW n \in 1..all, line[n].cell = k, n <= at - 1, Free(line, k, n + 1, at - 1)
      PROVE  line[n].new = w
  <2>1. n < at /\ n <= at
    BY ONLY <1>0, <1>2, n \in 1..all
  <2>2. CASE line[at].cell = k
    BY <1>0, <1>1, <1>2, <2>1, <2>2
  <2>3. CASE line[at].cell # k
    <3>1. Free(line, k, n + 1, at)
      <4> SUFFICES ASSUME NEW i \in (n + 1)..at, i \in 1..Len(line), line[i].cell = k
                   PROVE  FALSE
        BY DEF Free
      <4>1. i # at
        BY <2>3
      <4>2. i \in (n + 1)..(at - 1)
        BY ONLY <1>0, <4>1, i \in (n + 1)..at, n \in 1..all
      <4> QED BY <1>2, <4>2 DEF Free
    <3> QED BY <1>1, <1>2, <2>1, <2>3, <3>1
  <2> QED BY <2>2, <2>3
<1>3. ASSUME NEW n \in 1..all, line[n].cell = k, n > at - 1, Free(line, k, (at - 1) + 1, n - 1)
      PROVE  line[n].old = w
  <2>1. n >= at
    BY ONLY <1>0, <1>3, n \in 1..all
  <2>2. CASE n = at
    BY <1>3, <2>2
  <2>3. CASE n > at
    <3>1. at \in ((at - 1) + 1)..(n - 1)
      BY ONLY <1>0, <2>3, n \in 1..all
    <3>2. line[at].cell # k
      BY <1>3, <3>1 DEF Free
    <3>3. Free(line, k, at + 1, n - 1)
      <4> SUFFICES ASSUME NEW i \in (at + 1)..(n - 1), i \in 1..Len(line), line[i].cell = k
                   PROVE  FALSE
        BY DEF Free
      <4>1. i \in ((at - 1) + 1)..(n - 1)
        BY ONLY <1>0, i \in (at + 1)..(n - 1), n \in 1..all
      <4> QED BY <1>3, <4>1 DEF Free
    <3> QED BY <1>1, <1>3, <2>3, <3>2, <3>3
  <2> QED BY ONLY <1>0, <2>1, <2>2, <2>3, n \in 1..all
<1> HIDE DEF w
<1>4. Explains(line, at - 1, k, w)
  BY <1>1, <1>2, <1>3, ExplainsFacts DEF all
<1> QED BY <1>4 DEF w

LEMMA FitsRedo ==
    ASSUME NEW line \in Seq(Entry), NEW at \in 1..Len(line), NEW k, NEW v,
           Explains(line, at - 1, k, v)
    PROVE  Explains(line, at, k, IF line[at].cell = k THEN line[at].new ELSE v)
<1> DEFINE w == IF line[at].cell = k THEN line[at].new ELSE v
           all == Len(line)
<1>0. all \in Nat /\ at \in 1..all
  OBVIOUS
<1> HIDE DEF all
<1>1. /\ \A m, n \in 1..all :
            /\ line[m].cell = k /\ line[n].cell = k
            /\ m < n /\ Free(line, k, m + 1, n - 1)
            => line[m].new = line[n].old
      /\ \A n \in 1..all :
            line[n].cell = k /\ n <= at - 1 /\ Free(line, k, n + 1, at - 1)
            => line[n].new = v
      /\ \A n \in 1..all :
            line[n].cell = k /\ n > at - 1 /\ Free(line, k, (at - 1) + 1, n - 1)
            => line[n].old = v
  BY ExplainsFacts DEF all
<1>2. ASSUME NEW n \in 1..all, line[n].cell = k, n <= at, Free(line, k, n + 1, at)
      PROVE  line[n].new = w
  <2>1. CASE n = at
    BY <1>2, <2>1
  <2>2. CASE n # at
    <3>1. n <= at - 1 /\ at \in (n + 1)..at
      BY ONLY <1>0, <1>2, <2>2, n \in 1..all
    <3>2. line[at].cell # k
      BY <1>2, <3>1 DEF Free
    <3>3. Free(line, k, n + 1, at - 1)
      <4> SUFFICES ASSUME NEW i \in (n + 1)..(at - 1), i \in 1..Len(line), line[i].cell = k
                   PROVE  FALSE
        BY DEF Free
      <4>1. i \in (n + 1)..at
        BY ONLY <1>0, i \in (n + 1)..(at - 1), n \in 1..all
      <4> QED BY <1>2, <4>1 DEF Free
    <3> QED BY <1>1, <1>2, <3>1, <3>2, <3>3
  <2> QED BY <2>1, <2>2
<1>3. ASSUME NEW n \in 1..all, line[n].cell = k, n > at, Free(line, k, at + 1, n - 1)
      PROVE  line[n].old = w
  <2>1. n > at - 1 /\ at < n
    BY ONLY <1>0, <1>3, n \in 1..all
  <2>2. CASE line[at].cell = k
    BY <1>0, <1>1, <1>3, <2>1, <2>2
  <2>3. CASE line[at].cell # k
    <3>1. Free(line, k, (at - 1) + 1, n - 1)
      <4> SUFFICES ASSUME NEW i \in ((at - 1) + 1)..(n - 1), i \in 1..Len(line), line[i].cell = k
                   PROVE  FALSE
        BY DEF Free
      <4>1. i # at
        BY <2>3
      <4>2. i \in (at + 1)..(n - 1)
        BY ONLY <1>0, <4>1, i \in ((at - 1) + 1)..(n - 1), n \in 1..all
      <4> QED BY <1>3, <4>2 DEF Free
    <3> QED BY <1>1, <1>3, <2>1, <2>3, <3>1
  <2> QED BY <2>2, <2>3
<1> HIDE DEF w
<1>4. Explains(line, at, k, w)
  BY <1>1, <1>2, <1>3, ExplainsFacts DEF all
<1> QED BY <1>4 DEF w

\* Line g keeps the last of what is done of a line, moved by off, and ends
\* with entry e.
Continues(g, line, done, e, off) ==
    /\ Len(g) \in Nat \ {0} /\ off \in Nat /\ (Len(g) - 1) + off = done
    /\ g[Len(g)] = e /\ \A n \in 1..(Len(g) - 1) : g[n] = line[n + off]

\* A new entry on top of what is done, the rest of the line dropped.
LEMMA FitsRecord ==
    ASSUME NEW line \in Seq(Entry), NEW done \in Nat, NEW k, NEW v,
           done <= Len(line), Explains(line, done, k, v),
           NEW g \in Seq(Entry), NEW e, NEW off, Continues(g, line, done, e, off),
           e.cell = k => e.old = v
    PROVE  Explains(g, Len(g), k, IF e.cell = k THEN e.new ELSE v)
<1> DEFINE w == IF e.cell = k THEN e.new ELSE v
           all == Len(g)
           size == Len(line)
<1>0. all \in Nat \ {0} /\ size \in Nat /\ off \in Nat /\ done \in Nat
      /\ (all - 1) + off = done /\ done <= size
  BY DEF Continues
<1>a. g[all] = e /\ \A n \in 1..(all - 1) : g[n] = line[n + off]
  BY DEF Continues
<1>b. e.cell = k => e.old = v
  OBVIOUS
<1> HIDE DEF all, size
<1>1. /\ \A m, n \in 1..size :
            /\ line[m].cell = k /\ line[n].cell = k
            /\ m < n /\ Free(line, k, m + 1, n - 1)
            => line[m].new = line[n].old
      /\ \A n \in 1..size :
            line[n].cell = k /\ n <= done /\ Free(line, k, n + 1, done) => line[n].new = v
  BY ExplainsFacts DEF size
<1>2. ASSUME NEW n \in 1..(all - 1)
      PROVE  n + off \in 1..size /\ n + off <= done /\ n \in 1..all /\ g[n] = line[n + off]
  <2>1. n + off \in 1..size /\ n + off <= done /\ n \in 1..all
    BY ONLY <1>0, n \in 1..(all - 1)
  <2> QED BY ONLY <1>a, <2>1, n \in 1..(all - 1)
<1>3. ASSUME NEW lo \in 1..all, NEW hi \in 0..(all - 1), Free(g, k, lo, hi)
      PROVE  Free(line, k, lo + off, hi + off)
  <2> SUFFICES ASSUME NEW i \in (lo + off)..(hi + off), line[i].cell = k
               PROVE  FALSE
    BY DEF Free
  <2>1. /\ i - off \in 1..(all - 1) /\ i - off \in lo..hi /\ (i - off) + off = i
        /\ i - off \in 1..all
    BY ONLY <1>0, i \in (lo + off)..(hi + off), lo \in 1..all, hi \in 0..(all - 1)
  <2>2. g[i - off] = line[i]
    BY ONLY <1>a, <2>1
  <2> QED BY <1>3, <2>1, <2>2 DEF Free, all
<1>4. ASSUME NEW m \in 1..all, NEW n \in 1..all, g[m].cell = k, g[n].cell = k,
             m < n, Free(g, k, m + 1, n - 1)
      PROVE  g[m].new = g[n].old
  <2>1. /\ m \in 1..(all - 1) /\ m + 1 \in 1..all /\ n - 1 \in 0..(all - 1)
        /\ (m + 1) + off = (m + off) + 1
    BY ONLY <1>0, <1>4, m \in 1..all, n \in 1..all
  <2>2. Free(line, k, (m + off) + 1, (n - 1) + off)
    <3>1. Free(line, k, (m + 1) + off, (n - 1) + off)
      BY ONLY <1>3, <1>4, <2>1
    <3> QED BY ONLY <2>1, <3>1
  <2>3. CASE n = all
    <3>1. (n - 1) + off = done
      BY ONLY <1>0, <2>3
    <3>2. line[m + off].new = v
      BY <1>1, <1>2, <1>4, <2>1, <2>2, <3>1
    <3>3. g[n].old = v
      BY <1>a, <1>b, <1>4, <2>3
    <3> QED BY <1>2, <2>1, <3>2, <3>3
  <2>4. CASE n # all
    <3>1. n \in 1..(all - 1) /\ (n - 1) + off = (n + off) - 1 /\ m + off < n + off
      BY ONLY <1>0, <1>4, <2>4, m \in 1..all, n \in 1..all
    <3>2. Free(line, k, (m + off) + 1, (n + off) - 1)
      BY ONLY <2>2, <3>1
    <3>3. g[m] = line[m + off] /\ g[n] = line[n + off]
          /\ m + off \in 1..size /\ n + off \in 1..size
      BY <1>2, <2>1, <3>1
    <3>4. line[m + off].new = line[n + off].old
      BY <1>1, <1>4, <3>1, <3>2, <3>3
    <3> QED BY <3>3, <3>4
  <2> QED BY <2>3, <2>4
<1>5. ASSUME NEW n \in 1..all, g[n].cell = k, n <= all, Free(g, k, n + 1, all)
      PROVE  g[n].new = w
  <2>1. CASE n = all
    BY <1>a, <1>5, <2>1
  <2>2. CASE n # all
    <3>1. /\ n \in 1..(all - 1) /\ n + 1 \in 1..all /\ all - 1 \in 0..(all - 1)
          /\ all \in (n + 1)..all /\ all \in 1..all
          /\ (n + 1) + off = (n + off) + 1
      BY ONLY <1>0, <2>2, n \in 1..all
    <3>2. e.cell # k
      BY <1>a, <1>5, <3>1 DEF Free, all
    <3>3. Free(g, k, n + 1, all - 1)
      <4> SUFFICES ASSUME NEW i \in (n + 1)..(all - 1), i \in 1..Len(g), g[i].cell = k
                   PROVE  FALSE
        BY DEF Free
      <4>1. i \in (n + 1)..all
        BY ONLY <1>0, i \in (n + 1)..(all - 1), n \in 1..all
      <4> QED BY <1>5, <4>1 DEF Free
    <3>4. Free(line, k, (n + 1) + off, (all - 1) + off)
      BY ONLY <1>3, <3>1, <3>3
    <3>5. Free(line, k, (n + off) + 1, done)
      BY ONLY <1>0, <3>1, <3>4
    <3>6. g[n] = line[n + off] /\ n + off \in 1..size /\ n + off <= done
      BY <1>2, <3>1
    <3>7. line[n + off].new = v
      BY <1>1, <1>5, <3>5, <3>6
    <3> QED BY <3>2, <3>6, <3>7
  <2> QED BY <2>1, <2>2
<1>6. ASSUME NEW n \in 1..all, n > all
      PROVE  FALSE
  BY ONLY <1>0, <1>6, n \in 1..all
<1> HIDE DEF w
<1>7. Explains(g, all, k, w)
  BY <1>4, <1>5, <1>6, ExplainsFacts DEF all
<1> QED BY <1>7 DEF w, all

-----------------------------------------------------------------------------
(* A history that is sound, as long as it is not touched and when it is *)

\* The commands that ran on a design.
Ran(d) == {trail[d][n].request : n \in Dos(d)}

\* The entries of a line are commands that ran, of session s, each once.
Kept(ran, s, line) ==
    /\ Len(line) <= DepthLimit
    /\ \A n \in 1..Len(line) :
          /\ line[n].request \in ran /\ line[n].request.session = s
          /\ line[n].request.command.kind # "view"
          /\ line[n].request.command.cell = line[n].cell
    /\ \A m, n \in 1..Len(line) : line[m].request = line[n].request => m = n

\* Of the commands that ran, session s alone sent those on cell k.
Alone(ran, s, k) ==
    \A req \in ran : req.command.kind # "view" /\ req.command.cell = k => req.session = s

\* History h of session s is made of what ran and explains the rows.
Sound(ran, s, h, rows) ==
    /\ Kept(ran, s, Line(h))
    /\ \A k \in Cells : Alone(ran, s, k) => Explains(Line(h), Len(h.undo), k, rows[k])

HInv ==
    \A d \in Designs, s \in Sessions : Sound(Ran(d), s, histories[d][s], doc[d])

\* One cell is written.
Written(rows, k, v, rows2) ==
    \A x \in Cells : rows2[x] = IF x = k THEN v ELSE rows[x]

LEMMA SoundEmpty ==
    ASSUME NEW ran, NEW s, NEW rows
    PROVE  Sound(ran, s, EmptyHistory, rows)
<1>1. EmptyHistory \in History /\ DepthLimit \in Nat
  BY StoreAssumptions DEF EmptyHistory, History
<1>2. Len(EmptyHistory.undo) = 0 /\ Len(EmptyHistory.redo) = 0
  BY DEF EmptyHistory
<1>3. Len(Line(EmptyHistory)) = 0
  <2>1. Len(Line(EmptyHistory)) = Len(EmptyHistory.undo) + Len(EmptyHistory.redo)
    BY ONLY <1>1, LineFacts
  <2> QED BY <1>2, <2>1
<1>4. 1..Len(Line(EmptyHistory)) = {}
  BY <1>3
<1>5. Kept(ran, s, Line(EmptyHistory))
  BY <1>1, <1>3, <1>4 DEF Kept
<1>6. ASSUME NEW k PROVE Explains(Line(EmptyHistory), Len(EmptyHistory.undo), k, rows[k])
  BY <1>4, ExplainsFacts
<1> QED BY <1>5, <1>6 DEF Sound

\* Others may write where they have written before, or where this session
\* has not.
LEMMA SoundUntouched ==
    ASSUME NEW ran, NEW s, NEW h, NEW rows, Sound(ran, s, h, rows),
           NEW more, ran \subseteq more, NEW rows2,
           \A k \in Cells : Alone(more, s, k) => rows2[k] = rows[k]
    PROVE  Sound(more, s, h, rows2)
<1>1. Kept(more, s, Line(h))
  BY DEF Sound, Kept
<1>2. \A k : Alone(more, s, k) => Alone(ran, s, k)
  BY DEF Alone
<1> QED BY <1>1, <1>2 DEF Sound

\* A command that did not run before is recorded.
LEMMA SoundRecorded ==
    ASSUME NEW ran, NEW s, NEW h \in History, NEW rows, Sound(ran, s, h, rows),
           NEW e \in Entry, e.request \notin ran, e.request.session = s,
           e.request.command.kind # "view", e.request.command.cell = e.cell,
           e.old = rows[e.cell],
           NEW more, more = ran \cup {e.request},
           NEW rows2, Written(rows, e.cell, e.new, rows2)
    PROVE  Sound(more, s, Record(h, e), rows2)
<1> DEFINE g == Record(h, e)
           all == Len(Line(g))
           off == (Len(h.undo) + 1) - all
           done == Len(h.undo)
<1>1. g \in History
  BY RecordTyped
<1>2. /\ all \in 1..DepthLimit /\ off \in Nat /\ Len(g.undo) = all
      /\ all - 1 <= done /\ done <= Len(Line(h))
      /\ Line(g)[all] = e
      /\ \A n \in 1..(all - 1) : Line(g)[n] = Line(h)[n + off]
  BY RecordLine
<1>3. Line(g) \in Seq(Entry)
  BY ONLY <1>1, LineFacts
<1>4. Line(h) \in Seq(Entry) /\ done \in Nat /\ Len(Line(h)) \in Nat
  <2>1. Line(h) \in Seq(Entry) /\ done \in Nat
    BY LineFacts
  <2> QED BY <2>1
<1>5. Kept(ran, s, Line(h))
  BY DEF Sound
<1>6. DepthLimit \in Nat /\ all \in Nat \ {0} /\ (all - 1) + off = done
  <2>1. DepthLimit \in Nat
    BY StoreAssumptions
  <2>2. all \in Nat \ {0} /\ Len(h.undo) \in Nat
    BY ONLY <1>2, <1>4, <2>1
  <2> HIDE DEF all, done
  <2> QED BY <2>1, <2>2 DEF done
<1>7. ASSUME NEW n \in 1..(all - 1)
      PROVE  n + off \in 1..Len(Line(h)) /\ Line(g)[n] = Line(h)[n + off]
  <2>1. n + off \in 1..Len(Line(h))
    <3> HIDE DEF all, off, done
    <3> QED BY ONLY <1>2, <1>4, <1>6, n \in 1..(all - 1)
  <2> QED BY <1>2, <2>1
<1> HIDE DEF g, all, off, done
<1>8. Kept(more, s, Line(g))
  <2>1. ASSUME NEW n \in 1..all
        PROVE  /\ Line(g)[n].request \in more /\ Line(g)[n].request.session = s
               /\ Line(g)[n].request.command.kind # "view"
               /\ Line(g)[n].request.command.cell = Line(g)[n].cell
               /\ n # all => Line(g)[n].request \in ran
    <3>1. CASE n = all
      BY <1>2, <3>1
    <3>2. CASE n # all
      <4>1. n \in 1..(all - 1)
        BY ONLY <1>6, <3>2, n \in 1..all
      <4>2. n + off \in 1..Len(Line(h)) /\ Line(g)[n] = Line(h)[n + off]
        BY <1>7, <4>1
      <4> QED BY <1>5, <4>2 DEF Kept
    <3> QED BY <3>1, <3>2
  <2>2. ASSUME NEW m \in 1..all, NEW n \in 1..all,
               Line(g)[m].request = Line(g)[n].request
        PROVE  m = n
    <3>1. CASE m # all /\ n # all
      <4>1. m \in 1..(all - 1) /\ n \in 1..(all - 1)
        BY ONLY <1>6, <3>1, m \in 1..all, n \in 1..all
      <4>2. /\ m + off \in 1..Len(Line(h)) /\ Line(g)[m] = Line(h)[m + off]
            /\ n + off \in 1..Len(Line(h)) /\ Line(g)[n] = Line(h)[n + off]
        BY <1>7, <4>1
      <4>3. m + off = n + off
        BY <1>5, <2>2, <4>2 DEF Kept
      <4> QED BY ONLY <1>2, <1>6, <4>1, <4>3
    <3>2. CASE m = all /\ n # all
      BY <1>2, <2>1, <2>2, <3>2
    <3>3. CASE m # all /\ n = all
      BY <1>2, <2>1, <2>2, <3>3
    <3> QED BY <3>1, <3>2, <3>3
  <2>3. Len(Line(g)) = all /\ all <= DepthLimit
    <3>1. all <= DepthLimit
      BY ONLY <1>2, <1>6
    <3> QED BY <3>1 DEF all
  <2> QED BY <2>1, <2>2, <2>3 DEF Kept
<1>9. ASSUME NEW k \in Cells, Alone(more, s, k)
      PROVE  Explains(Line(g), Len(g.undo), k, rows2[k])
  <2>1. Alone(ran, s, k)
    BY <1>9 DEF Alone
  <2>2. Explains(Line(h), done, k, rows[k])
    BY <2>1 DEF Sound, done
  <2>3. e.cell = k => e.old = rows[k]
    OBVIOUS
  <2>4. rows2[k] = IF e.cell = k THEN e.new ELSE rows[k]
    BY DEF Written
  <2>5. done <= Len(Line(h)) /\ Len(Line(g)) = all
    BY <1>2 DEF all
  <2>6. Explains(Line(g), all, k, IF e.cell = k THEN e.new ELSE rows[k])
    <3>1. /\ Len(Line(g)) \in Nat \ {0} /\ (Len(Line(g)) - 1) + off = done
          /\ Line(g)[Len(Line(g))] = e
          /\ \A n \in 1..(Len(Line(g)) - 1) : Line(g)[n] = Line(h)[n + off]
      BY ONLY <1>2, <1>6, <2>5
    <3>2. off \in Nat /\ done \in Nat /\ done <= Len(Line(h))
      BY ONLY <1>2, <1>4
    <3>3. Continues(Line(g), Line(h), done, e, off)
      BY ONLY <3>1, <3>2 DEF Continues
    <3>4. Explains(Line(g), Len(Line(g)), k, IF e.cell = k THEN e.new ELSE rows[k])
      BY ONLY <1>3, <1>4, <2>2, <2>3, <3>2, <3>3, FitsRecord
    <3> QED BY ONLY <2>5, <3>4
  <2> QED BY <1>2, <2>4, <2>6
<1> QED BY <1>8, <1>9 DEF Sound, g

\* An undo or redo replays entry e and writes value v.
Replays(h, direction, e, v) ==
    /\ direction \in {"undo", "redo"}
    /\ Stack(h, direction) # <<>> /\ e = Last(Stack(h, direction))
    /\ v = IF direction = "undo" THEN e.old ELSE e.new

\* Undo or redo writes the value that the place on the line asks for.
LEMMA SoundConsumed ==
    ASSUME NEW ran, NEW s, NEW h \in History, NEW rows, Sound(ran, s, h, rows),
           NEW direction, NEW e, NEW v, Replays(h, direction, e, v),
           NEW rows2, Written(rows, e.cell, v, rows2)
    PROVE  /\ Sound(ran, s, Consumed(h, direction), rows2)
           /\ e.request \in ran /\ e.request.session = s
           /\ e.request.command.kind # "view" /\ e.request.command.cell = e.cell
<1> DEFINE g == Consumed(h, direction)
           at == IF direction = "undo" THEN Len(h.undo) ELSE Len(h.undo) + 1
<1>0. /\ direction \in {"undo", "redo"}
      /\ Stack(h, direction) # <<>> /\ e = Last(Stack(h, direction))
      /\ v = IF direction = "undo" THEN e.old ELSE e.new
  BY DEF Replays
<1>1. /\ Line(g) = Line(h) /\ at \in 1..Len(Line(h)) /\ e = Line(h)[at]
      /\ Len(g.undo) = IF direction = "undo" THEN at - 1 ELSE at
  BY <1>0, ConsumedLine
<1>2. Kept(ran, s, Line(h)) /\ Kept(ran, s, Line(g))
  BY <1>1 DEF Sound
<1>3. /\ e.request \in ran /\ e.request.session = s
      /\ e.request.command.kind # "view" /\ e.request.command.cell = e.cell
  BY <1>1, <1>2 DEF Kept
<1>4. Line(h) \in Seq(Entry) /\ Len(h.undo) \in Nat
  BY LineFacts
<1>5. ASSUME NEW k \in Cells, Alone(ran, s, k)
      PROVE  Explains(Line(g), Len(g.undo), k, rows2[k])
  <2>1. Explains(Line(h), Len(h.undo), k, rows[k])
    BY <1>5 DEF Sound
  <2>2. CASE direction = "undo"
    <3>1. at = Len(h.undo) /\ Len(g.undo) = at - 1
      BY <1>1, <2>2
    <3> HIDE DEF at
    <3>2. Explains(Line(h), at - 1, k, IF Line(h)[at].cell = k THEN Line(h)[at].old ELSE rows[k])
      <4>1. Explains(Line(h), at, k, rows[k]) /\ at \in 1..Len(Line(h))
        BY ONLY <1>1, <2>1, <3>1
      <4> QED BY ONLY <1>4, <4>1, FitsUndo
    <3>3. rows2[k] = IF Line(h)[at].cell = k THEN Line(h)[at].old ELSE rows[k]
      BY <1>0, <1>1, <2>2 DEF Written
    <3> QED BY <1>1, <3>1, <3>2, <3>3
  <2>3. CASE direction = "redo"
    <3>1. Len(h.undo) = at - 1 /\ Len(g.undo) = at
      BY <1>1, <1>4, <2>3
    <3> HIDE DEF at
    <3>2. Explains(Line(h), at, k, IF Line(h)[at].cell = k THEN Line(h)[at].new ELSE rows[k])
      <4>1. Explains(Line(h), at - 1, k, rows[k]) /\ at \in 1..Len(Line(h))
        BY ONLY <1>1, <2>1, <3>1
      <4> QED BY ONLY <1>4, <4>1, FitsRedo
    <3>3. rows2[k] = IF Line(h)[at].cell = k THEN Line(h)[at].new ELSE rows[k]
      BY <1>0, <1>1, <2>3 DEF Written
    <3> QED BY <1>1, <3>1, <3>2, <3>3
  <2> QED BY <1>0, <2>2, <2>3
<1> QED BY <1>2, <1>3, <1>5 DEF Sound

-----------------------------------------------------------------------------
(* The histories in a step of the store *)

LEMMA QuietHistories ==
    ASSUME HInv, UNCHANGED <<doc, histories, trail>>
    PROVE  HInv'
  BY DEF HInv, Ran, Dos

LEMMA ApplyHistories ==
    ASSUME IInv, HInv, NEW c \in Connections, NEW req \in Request, NEW base \in Int,
           ~Logged(req.id), Apply(c, req, base)
    PROVE  HInv'
<1> DEFINE d == req.design
           new == head[d] + 1
           k == req.command.cell
           entry == [request |-> req, cell |-> k, old |-> doc[d][k],
                     new |-> req.command.value]
<1>1. /\ TypeOK /\ EveryChangeIsLogged
  BY DEF IInv
<1>2. /\ d \in Designs /\ Exists(d) /\ Advance(d, "do", req, base)
      /\ k \in Cells /\ req.command.value \in Values /\ req.session \in Sessions
  BY RequestFacts DEF Apply, Admitted
<1>3. /\ head[d] \in Nat
      /\ \A e \in Designs \ {d} : head'[e] = head[e] /\ trail'[e] = trail[e]
      /\ \A n \in 1..head[d] : trail'[d][n] = trail[d][n]
      /\ trail'[d][new] = [kind |-> "do", request |-> req, base |-> base]
  BY ONLY <1>1, <1>2, AdvanceFacts, base \in Int, req \in Request
<1>4. /\ \A e \in Designs \ {d} : Dos(e)' = Dos(e)
      /\ Dos(d)' = Dos(d) \cup {new}
      /\ Dos(d) \subseteq 1..head[d]
  BY ONLY IInv, <1>2, AdvanceDos, base \in Int, req \in Request
<1>5. \A e \in Designs \ {d} : Ran(e)' = Ran(e)
  BY <1>3, <1>4 DEF Ran
<1>6. Ran(d)' = Ran(d) \cup {req}
  <2>1. Ran(d)' = {trail'[d][n].request : n \in Dos(d) \cup {new}}
    BY <1>4 DEF Ran
  <2>2. \A n \in Dos(d) : trail'[d][n] = trail[d][n]
    BY <1>3, <1>4
  <2>3. trail'[d][new].request = req
    BY <1>3
  <2> HIDE DEF new, d
  <2> QED BY <2>1, <2>2, <2>3 DEF Ran
<1>7. req \notin Ran(d)
  <2> SUFFICES ASSUME NEW n \in Dos(d), trail[d][n].request = req PROVE FALSE
    BY DEF Ran
  <2>1. \E row \in log : row.request = req
    BY <1>1, <1>2 DEF EveryChangeIsLogged
  <2> QED BY <2>1 DEF Logged
<1>8. /\ doc[d] \in [Cells -> Values] /\ histories[d] \in [Sessions -> History]
      /\ doc \in [Designs -> [Cells -> Values]]
      /\ histories \in [Designs -> [Sessions -> History]]
  BY <1>1, <1>2 DEF TypeOK
<1>9. entry \in Entry
  BY <1>2, <1>8 DEF Entry
<1>10. \/ /\ req.command.kind = "view" /\ doc' = doc /\ histories' = histories
       \/ /\ req.command.kind # "view"
          /\ doc' = [doc EXCEPT ![d][k] = req.command.value]
          /\ \/ entry.old = entry.new /\ histories' = histories
             \/ histories' = [histories EXCEPT ![d][req.session]
                                = Record(histories[d][req.session], entry)]
  BY DEF Apply
<1> SUFFICES ASSUME NEW e \in Designs, NEW s \in Sessions
             PROVE  Sound(Ran(e)', s, histories'[e][s], doc'[e])
  BY DEF HInv
<1>11. Sound(Ran(e), s, histories[e][s], doc[e])
  BY DEF HInv
<1> HIDE DEF d, k, entry, new
<1>12. CASE e # d
  <2>1. histories'[e] = histories[e] /\ doc'[e] = doc[e]
    BY <1>2, <1>8, <1>10, <1>12
  <2>2. Ran(e)' = Ran(e)
    BY <1>5, <1>12
  <2> QED BY ONLY <1>11, <2>1, <2>2
<1>13. CASE e = d /\ histories'[d][s] = histories[d][s]
            /\ \A c2 \in Cells : Alone(Ran(d)', s, c2) => doc'[d][c2] = doc[d][c2]
  <2>1. Ran(d) \subseteq Ran(d)'
    BY <1>6
  <2>2. Sound(Ran(d), s, histories[d][s], doc[d])
    BY <1>11, <1>13
  <2>3. Sound(Ran(d)', s, histories[d][s], doc'[d])
    BY ONLY <1>13, <2>1, <2>2, SoundUntouched
  <2> QED BY <1>13, <2>3
<1>14. CASE e = d /\ req.command.kind = "view"
  BY <1>10, <1>13, <1>14
<1>15. CASE e = d /\ req.command.kind # "view" /\ entry.old = entry.new
            /\ histories' = histories
  <2>1. doc' = [doc EXCEPT ![d][k] = req.command.value]
    BY <1>10, <1>15
  <2>2. req.command.value = doc[d][k]
    BY <1>15 DEF entry
  <2>3. doc'[d] = [doc[d] EXCEPT ![k] = doc[d][k]]
    BY <1>2, <1>8, <2>1, <2>2
  <2>4. doc'[d] = doc[d]
    BY <1>2, <1>8, <2>3
  <2> QED BY <1>13, <1>15, <2>4
<1>16. CASE /\ e = d /\ req.command.kind # "view"
            /\ histories' = [histories EXCEPT ![d][req.session]
                               = Record(histories[d][req.session], entry)]
  <2>1. doc' = [doc EXCEPT ![d][k] = req.command.value]
    BY <1>10, <1>16
  <2>2. \A c2 \in Cells : doc'[d][c2] = IF c2 = k THEN req.command.value ELSE doc[d][c2]
    BY <1>2, <1>8, <2>1
  <2>3. \A x \in Sessions : histories'[d][x] =
           IF x = req.session THEN Record(histories[d][req.session], entry)
           ELSE histories[d][x]
    <3> DEFINE g == Record(histories[d][req.session], entry)
    <3> HIDE DEF g
    <3>1. histories' = [histories EXCEPT ![d][req.session] = g]
      BY <1>16 DEF g
    <3>2. \A x \in Sessions : histories'[d][x] = IF x = req.session THEN g ELSE histories[d][x]
      BY <1>2, <1>8, <3>1
    <3> QED BY <3>2 DEF g
  <2>4. CASE s # req.session
    <3>1. \A c2 \in Cells : Alone(Ran(d)', s, c2) => c2 # k
      BY <1>6, <1>16, <2>4 DEF Alone, k
    <3> QED BY <1>13, <1>16, <2>2, <2>3, <2>4, <3>1
  <2>5. CASE s = req.session
    <3>1. /\ entry.request = req /\ entry.cell = k /\ entry.old = doc[d][k]
          /\ entry.new = req.command.value
      BY DEF entry
    <3>2. histories[d][s] \in History /\ Sound(Ran(d), s, histories[d][s], doc[d])
      BY <1>8, <1>11, <1>16
    <3>3. /\ entry.request \notin Ran(d) /\ entry.request.session = s
          /\ entry.request.command.kind # "view"
          /\ entry.request.command.cell = entry.cell
          /\ entry.old = doc[d][entry.cell]
          /\ Ran(d)' = Ran(d) \cup {entry.request}
          /\ Written(doc[d], entry.cell, entry.new, doc'[d])
      BY <1>6, <1>7, <1>16, <2>2, <2>5, <3>1 DEF k, Written
    <3>4. Sound(Ran(d)', s, Record(histories[d][s], entry), doc'[d])
      BY ONLY <1>9, <3>2, <3>3, SoundRecorded
    <3> QED BY <1>16, <2>3, <2>5, <3>4
  <2> QED BY <2>4, <2>5
<1> QED BY <1>10, <1>12, <1>14, <1>15, <1>16

LEMMA UndoneHistories ==
    ASSUME IInv, HInv, NEW d \in Designs, NEW s \in Sessions,
           NEW direction \in {"undo", "redo"}, NEW base \in {NoRevision, head[d]},
           Stack(histories[d][s], direction) # <<>>,
           NEW e, e = Last(Stack(histories[d][s], direction)),
           Advance(d, direction, e.request, base),
           doc' = [doc EXCEPT ![d][e.cell] =
                     IF direction = "undo" THEN e.old ELSE e.new],
           histories' = [histories EXCEPT ![d][s] = Consumed(histories[d][s], direction)]
    PROVE  HInv'
<1> DEFINE h == histories[d][s]
           v == IF direction = "undo" THEN e.old ELSE e.new
<1>1. /\ TypeOK /\ Gone /\ EveryChangeIsLogged
  BY DEF IInv
<1>2. h \in History /\ base \in Int
  BY <1>1 DEF TypeOK, NoRevision
<1>3. e \in Entry /\ e.request \in Request /\ e.cell \in Cells
  <2>1. Stack(h, direction) # <<>>
    OBVIOUS
  <2>2. Last(Stack(h, direction)) \in Entry
    BY ONLY <1>2, <2>1, ConsumedTyped, direction \in {"undo", "redo"}
  <2> QED BY <2>2 DEF Entry
<1>4. Exists(d)
  <2> SUFFICES ASSUME ~Exists(d) PROVE FALSE
    OBVIOUS
  <2>1. h = EmptyHistory
    BY <1>1 DEF Gone
  <2> QED BY <2>1 DEF EmptyHistory, Stack
<1>5. Advance(d, direction, e.request, base) /\ direction \in {"do", "undo", "redo"}
  OBVIOUS
<1>6. /\ head[d] \in Nat /\ Len(trail[d]) = head[d]
      /\ \A x \in Designs \ {d} : head'[x] = head[x] /\ trail'[x] = trail[x]
      /\ \A n \in 1..head[d] : trail'[d][n] = trail[d][n]
  BY ONLY <1>1, <1>2, <1>3, <1>4, <1>5, AdvanceFacts, d \in Designs
<1>7. \A x \in Designs : Ran(x)' = Ran(x)
  <2>1. direction # "do"
    OBVIOUS
  <2>2. /\ \A x \in Designs \ {d} : Dos(x)' = Dos(x)
        /\ Dos(d)' = IF direction = "do" THEN Dos(d) \cup {head[d] + 1} ELSE Dos(d)
        /\ Dos(d) \subseteq 1..head[d]
    BY ONLY IInv, <1>2, <1>3, <1>4, <1>5, AdvanceDos, d \in Designs
  <2> QED BY <1>6, <2>1, <2>2 DEF Ran
<1>8. /\ doc[d] \in [Cells -> Values] /\ histories[d] \in [Sessions -> History]
      /\ doc \in [Designs -> [Cells -> Values]]
      /\ histories \in [Designs -> [Sessions -> History]]
  BY <1>1 DEF TypeOK
<1>9. /\ \A k \in Cells : doc'[d][k] = IF k = e.cell THEN v ELSE doc[d][k]
      /\ \A x \in Designs \ {d} : doc'[x] = doc[x]
  <2>1. doc' = [doc EXCEPT ![d][e.cell] = v]
    OBVIOUS
  <2> HIDE DEF v
  <2> QED BY <1>3, <1>8, <2>1
<1>10. /\ \A x \in Sessions : histories'[d][x] =
             IF x = s THEN Consumed(h, direction) ELSE histories[d][x]
       /\ \A x \in Designs \ {d} : histories'[x] = histories[x]
  <2> DEFINE g == Consumed(h, direction)
  <2>1. histories' = [histories EXCEPT ![d][s] = g]
    OBVIOUS
  <2> HIDE DEF g
  <2>2. /\ \A x \in Sessions : histories'[d][x] = IF x = s THEN g ELSE histories[d][x]
        /\ \A x \in Designs \ {d} : histories'[x] = histories[x]
    BY <1>8, <2>1
  <2> QED BY <2>2 DEF g
<1>11. Sound(Ran(d), s, h, doc[d])
  BY DEF HInv
<1>12. /\ Sound(Ran(d), s, Consumed(h, direction), doc'[d])
       /\ e.request \in Ran(d) /\ e.request.session = s
       /\ e.request.command.kind # "view" /\ e.request.command.cell = e.cell
  <2>1. Replays(h, direction, e, v)
    BY DEF Replays
  <2>2. Written(doc[d], e.cell, v, doc'[d])
    BY <1>9 DEF Written
  <2> HIDE DEF h, v
  <2> QED BY ONLY <1>2, <1>11, <2>1, <2>2, SoundConsumed
<1> SUFFICES ASSUME NEW x \in Designs, NEW y \in Sessions
             PROVE  Sound(Ran(x)', y, histories'[x][y], doc'[x])
  BY DEF HInv
<1>13. Sound(Ran(x), y, histories[x][y], doc[x])
  BY DEF HInv
<1> HIDE DEF h, v
<1>14. CASE x # d
  <2>1. Ran(x)' = Ran(x) /\ histories'[x] = histories[x] /\ doc'[x] = doc[x]
    BY <1>7, <1>9, <1>10, <1>14
  <2> QED BY ONLY <1>13, <2>1
<1>15. CASE x = d /\ y = s
  BY <1>7, <1>10, <1>12, <1>15
<1>16. CASE x = d /\ y # s
  <2>1. \A k \in Cells : Alone(Ran(d), y, k) => doc'[d][k] = doc[d][k]
    <3>1. \A k \in Cells : Alone(Ran(d), y, k) => k # e.cell
      BY <1>12, <1>16 DEF Alone
    <3> QED BY <1>9, <3>1
  <2>2. Sound(Ran(d), y, histories[d][y], doc[d]) /\ Ran(d) \subseteq Ran(d)
    BY <1>13, <1>16
  <2>3. Sound(Ran(d), y, histories[d][y], doc'[d])
    BY ONLY <2>1, <2>2, SoundUntouched
  <2> QED BY <1>7, <1>10, <1>16, <2>3
<1> QED BY <1>14, <1>15, <1>16

LEMMA DeleteHistories ==
    ASSUME IInv, HInv, NEW d \in Designs, DeleteDesign(d)
    PROVE  HInv'
<1>1. /\ trail' = trail
      /\ histories' = [histories EXCEPT ![d] = [s \in Sessions |-> EmptyHistory]]
      /\ doc' = [doc EXCEPT ![d] = [k \in Cells |-> 0]]
  BY DEF DeleteDesign
<1>2. TypeOK
  BY DEF IInv
<1>3. \A e \in Designs : Ran(e)' = Ran(e)
  BY <1>1 DEF Ran, Dos
<1> SUFFICES ASSUME NEW e \in Designs, NEW s \in Sessions
             PROVE  Sound(Ran(e)', s, histories'[e][s], doc'[e])
  BY DEF HInv
<1>4. CASE e = d
  <2>1. histories'[e][s] = EmptyHistory
    BY <1>1, <1>2, <1>4 DEF TypeOK
  <2> QED BY <2>1, SoundEmpty
<1>5. CASE e # d
  <2>1. histories'[e] = histories[e] /\ doc'[e] = doc[e]
    BY <1>1, <1>2, <1>5 DEF TypeOK
  <2>2. Sound(Ran(e), s, histories[e][s], doc[e])
    BY DEF HInv
  <2> QED BY <1>3, <2>1, <2>2
<1> QED BY <1>4, <1>5

LEMMA InitHistories == Init => HInv
<1> SUFFICES ASSUME Init, NEW d \in Designs, NEW s \in Sessions
             PROVE  Sound(Ran(d), s, histories[d][s], doc[d])
  BY DEF HInv
<1>1. histories[d][s] = EmptyHistory
  BY DEF Init
<1> QED BY <1>1, SoundEmpty

\* The transaction of a command touches a history only if it applies.
LEMMA TransactHistories ==
    ASSUME IInv, HInv, NEW c \in Connections, NEW req \in Request, NEW base \in Int,
           ~Logged(req.id), Transact(c, req, base)
    PROVE  HInv'
<1>1. CASE Apply(c, req, base)
  BY <1>1, ApplyHistories
<1>2. CASE ~Apply(c, req, base)
  <2>1. UNCHANGED <<doc, histories, trail>>
    BY <1>2 DEF Transact, Missing, Stale, NothingToDo, Reject, RefuseMerge, Throw
  <2> QED BY <2>1, QuietHistories
<1> QED BY <1>1, <1>2

LEMMA NextHistories == IInv /\ HInv /\ [Next]_vars => HInv'
<1> SUFFICES ASSUME IInv, HInv, [Next]_vars PROVE HInv'
  OBVIOUS
<1>1. Requests \subseteq Request /\ Bases \subseteq Int /\ waiting \subseteq Call
  BY StoreAssumptions DEF IInv, TypeOK
<1>2. CASE \E c \in Connections, req \in Requests, base \in Bases : Dispatch(c, req, base)
  <2> PICK c \in Connections, req \in Requests, base \in Bases : Dispatch(c, req, base)
    BY <1>2
  <2>1. req \in Request /\ base \in Int
    BY <1>1
  <2>2. CASE ~Logged(req.id) /\ Transact(c, req, base)
    BY <2>1, <2>2, TransactHistories
  <2>3. CASE UNCHANGED <<doc, histories, trail>>
    BY <2>3, QuietHistories
  <2> QED BY <2>2, <2>3 DEF Dispatch
<1>3. CASE \E w \in waiting : LibraryResolved(w) \/ LibraryFailed(w)
  <2> PICK w \in waiting : LibraryResolved(w) \/ LibraryFailed(w)
    BY <1>3
  <2>1. w.conn \in Connections /\ w.request \in Request /\ w.base \in Int
    BY <1>1 DEF Call
  <2>2. CASE ~Logged(w.request.id) /\ Transact(w.conn, w.request, w.base)
    BY <2>1, <2>2, TransactHistories
  <2>3. CASE UNCHANGED <<doc, histories, trail>>
    BY <2>3, QuietHistories
  <2> QED BY <2>2, <2>3 DEF LibraryResolved, LibraryFailed
<1>4. CASE \E c \in Connections, d \in Designs, s \in Sessions,
              direction \in {"undo", "redo"}, expected \in Bases :
              ReplayHistory(c, d, s, direction, expected)
  <2> PICK c \in Connections, d \in Designs, s \in Sessions,
           direction \in {"undo", "redo"}, expected \in Bases :
           ReplayHistory(c, d, s, direction, expected)
    BY <1>4
  <2> DEFINE e == Last(Stack(histories[d][s], direction))
  <2>1. CASE UNCHANGED <<doc, histories, trail>>
    BY <2>1, QuietHistories
  <2>2. CASE /\ expected \in {NoRevision, head[d]}
             /\ Stack(histories[d][s], direction) # <<>>
             /\ Advance(d, direction, e.request, expected)
             /\ doc' = [doc EXCEPT ![d][e.cell] =
                          IF direction = "undo" THEN e.old ELSE e.new]
             /\ histories' = [histories EXCEPT ![d][s]
                                = Consumed(histories[d][s], direction)]
    <3>1. PICK x : x = e
      OBVIOUS
    <3> HIDE DEF e
    <3> QED BY <2>2, <3>1, UndoneHistories DEF e
  <2> QED BY <2>1, <2>2 DEF ReplayHistory
<1>5. CASE \E d \in Designs : DeleteDesign(d)
  BY <1>5, DeleteHistories
<1>6. CASE \E a \in answers : Deliver(a)
  BY <1>6, QuietHistories DEF Deliver
<1>7. CASE Restart
  BY <1>7, QuietHistories DEF Restart
<1>8. CASE UNCHANGED vars
  BY <1>8, QuietHistories DEF vars
<1> QED BY <1>2, <1>3, <1>4, <1>5, <1>6, <1>7, <1>8 DEF Next

\* Sound histories are what the property says of them.
LEMMA HistoriesFollow == IInv /\ HInv => HistoriesAreSound
<1> SUFFICES ASSUME IInv, HInv PROVE HistoriesAreSound
  OBVIOUS
<1>1. HistoriesHoldOwnCommands
  <2> SUFFICES ASSUME NEW d \in Designs, NEW s \in Sessions
               PROVE  LET line == Line(histories[d][s])
                      IN /\ Len(line) <= DepthLimit
                         /\ \A n \in 1..Len(line) :
                               LET req == line[n].request
                               IN /\ req.session = s /\ req.command.kind # "view"
                                  /\ AppliedAt(req) # {}
                         /\ \A m, n \in 1..Len(line) :
                               line[m].request = line[n].request => m = n
    BY DEF HistoriesHoldOwnCommands
  <2>1. Kept(Ran(d), s, Line(histories[d][s]))
    BY DEF HInv, Sound
  <2>2. \A req \in Ran(d) : AppliedAt(req) # {}
    <3> SUFFICES ASSUME NEW n \in Dos(d) PROVE AppliedAt(trail[d][n].request) # {}
      BY DEF Ran
    <3>1. trail[d][n].request.design = d
      BY DEF IInv, OwnTrail
    <3>2. n \in AppliedAt(trail[d][n].request)
      BY <3>1 DEF AppliedAt
    <3> QED BY <3>2
  <2> QED BY <2>1, <2>2 DEF Kept
<1>2. HistoryExplainsDocument
  <2> SUFFICES ASSUME NEW d \in Designs, NEW s \in Sessions, NEW k \in Cells,
                      OwnCell(d, s, k)
               PROVE  Explains(Line(histories[d][s]), Len(histories[d][s].undo), k,
                               doc[d][k])
    BY DEF HistoryExplainsDocument
  <2>1. Alone(Ran(d), s, k)
    BY DEF OwnCell, Alone, Ran
  <2> QED BY <2>1 DEF HInv, Sound
<1> QED BY <1>1, <1>2 DEF HistoriesAreSound

\* Undo and redo stacks hold commands of their own session that ran, each
\* once; and while no other session edits a cell, undo and redo are inverse on
\* it: the stacks explain its value.
THEOREM HistoriesStaySound == Spec => []HistoriesAreSound
<1>1. Init => HInv
  BY InitHistories
<1>2. IInv /\ HInv /\ [Next]_vars => HInv'
  BY NextHistories
<1>3. IInv /\ HInv => HistoriesAreSound
  BY HistoriesFollow
<1> QED BY <1>1, <1>2, <1>3, StoreInvariant, PTL DEF Spec
=============================================================================
