---------------------------- MODULE PageDrafts_proofs ----------------------------
(***************************************************************************)
(* The drafts of a page, for any texts and any number of edits, foreign    *)
(* changes, failures, deletions and restarts, and the tokens their saves   *)
(* are made under.                                                         *)
(*                                                                         *)
(* None of the properties is inductive: they compare the window with the   *)
(* stored row and with the disk, while fetches, answers and journal writes *)
(* are on their way between them.  The invariant says of each of those     *)
(* what it may still bring: a row is the stored one or an earlier one      *)
(* (RowsAreSeen), a save is of the page on display (SaveIsOfPage), a       *)
(* record is the text in the window, or its revision before a restart      *)
(* (DraftIsWanted, BasisIsKnown), and the journal owes a write exactly     *)
(* while one is under way (JournalKeepsUp).                                *)
(***************************************************************************)
EXTENDS PageDrafts, TLAPS

\* PageStore's own constant and variables: its clients, clock and copies.
CONSTANT Clients
VARIABLES row, now, copy
Store == INSTANCE PageStore

\* What was fetched is the row as it is, or as it was: of two rows with one
\* token, or of one revision, neither tells anything the other does not.
Seen(r, s) ==
    /\ r.at <= s.at /\ r.revision <= s.revision
    /\ r.at = s.at => r.revision = s.revision
    /\ r.revision = s.revision => r.text = s.text

RowsAreSeen ==
    /\ Seen(page, server)
    /\ refresh # Nothing => Seen(refresh.page, server)
    /\ verify # Nothing => Seen(verify, server)
    /\ reload # Nothing => Seen(reload.page, server)

\* A window that is not open has nothing but a row it may have fetched.
NothingUnlessOpen ==
    IF window = "open" THEN state # "loading"
    ELSE /\ pending = NothingPending /\ save = Nothing /\ verify = Nothing
         /\ reload = Nothing /\ deletion = "none" /\ state = "loading"
         /\ flags = <<FALSE, FALSE, FALSE, FALSE, FALSE>>

Records == {wanted, stored, underway} \ {NoDraft, Nothing}

\* The journal has a write under way exactly while it owes one, and no record
\* without text.
JournalKeepsUp ==
    /\ state \in {"durable", "loading"} => stored = wanted
    /\ underway = Nothing <=> state \in {"loading", "durable", "blocked"}
    /\ \A r \in Records : HasText(r.pending)

\* The record wanted is the text in the window; only one that cannot be read
\* is wanted without being shown.
DraftIsWanted ==
    window = "open" =>
        IF HasText(pending) THEN wanted # NoDraft /\ wanted.pending = pending
        ELSE wanted = NoDraft \/ state = "blocked"

\* While a save is under way its page stays, so the answer to an accepted one
\* is what the window knows of the page.
SaveIsOfPage ==
    save # Nothing =>
        /\ pending[save.field] # NoText
        /\ save.newest => pending[save.field] = save.value
        /\ save.step # "flush" => save.token = page.at
        /\ save.step = "sent" /\ restarts <= 1 => save.basis = page.revision
        /\ save.step = "landed" =>
             /\ save.answer # Nothing /\ Seen(save.answer, server)
             /\ Known = save.answer /\ save.answer.text[save.field] = save.value

\* A draft builds on the page it is shown on, unless it was recovered and is
\* in conflict; its record says what it builds on until it is recovered.
BasisIsKnown ==
    /\ restarts = 0 /\ window # "open" => stored = NoDraft
    /\ restarts = 0 /\ Dirty => basis = page.revision
    /\ restarts = 1 /\ Dirty /\ ~conflict => basis = page.revision
    /\ restarts = 0 \/ (restarts = 1 /\ window # "open") =>
           \A r \in Records : r.basis = r.revision

IInv ==
    /\ TypeOK /\ {basis, restarts} \subseteq Nat
    /\ RowsAreSeen /\ NothingUnlessOpen
    /\ JournalKeepsUp /\ DraftIsWanted
    /\ SaveIsOfPage /\ BasisIsKnown

-----------------------------------------------------------------------------
(* Rows.                                                                    *)

\* The fields of a row.
LEMMA RowFields ==
  ASSUME NEW r \in Row
  PROVE  /\ r.at \in Nat /\ r.revision \in Nat /\ r.live \in BOOLEAN
         /\ r.text \in [Field -> Texts] /\ r # Nothing
  BY AbsentAssumption DEF Row

\* A save is seen by nobody before it is made, and hides nothing seen before.
LEMMA SavesMoveOn ==
  ASSUME NEW s \in Row, NEW f \in Field, NEW v \in Texts
  PROVE  LET t == Saved(s, f, v, 0)
         IN  /\ t \in Row /\ t.live = s.live
             /\ t.text = [s.text EXCEPT ![f] = v] /\ t.revision = s.revision + 1
             /\ t.at = s.at + 1
             /\ Seen(t, t)
             /\ \A r \in Row : Seen(r, s) => Seen(r, t)
<1> DEFINE t == Saved(s, f, v, 0)
<1>1. /\ t.text = [s.text EXCEPT ![f] = v] /\ t.revision = s.revision + 1
      /\ t.at = s.at + 1 /\ t.live = s.live
  BY RowFields DEF Saved, SavedAt, Later
<1>2. t \in Row
  BY RowFields DEF Saved, SavedAt, Later, Row
<1>3. s.at \in Nat /\ s.revision \in Nat /\ \A r \in Row : r.at \in Nat /\ r.revision \in Nat
  BY RowFields
<1> HIDE DEF t
<1>4. Seen(t, t)
  BY <1>1, <1>3 DEF Seen
<1>5. \A r \in Row : Seen(r, s) => Seen(r, t)
  BY <1>1, <1>3 DEF Seen
<1> QED BY <1>1, <1>2, <1>4, <1>5 DEF t

\* Neither does a move, which keeps the revision.
LEMMA MovesMoveOn ==
  ASSUME NEW s \in Row
  PROVE  /\ Moved(s, s.at + 1) \in Row
         /\ \A r \in Row : Seen(r, s) => Seen(r, Moved(s, s.at + 1))
<1>1. /\ Moved(s, s.at + 1).text = s.text /\ Moved(s, s.at + 1).revision = s.revision
      /\ Moved(s, s.at + 1).at = s.at + 1 /\ Moved(s, s.at + 1) \in Row
  BY DEF Moved, Row
<1>2. s.at \in Nat /\ s.revision \in Nat /\ \A r \in Row : r.at \in Nat /\ r.revision \in Nat
  BY RowFields
<1> QED BY <1>1, <1>2 DEF Seen

\* A deleted row is the row it was, except that no save is accepted.
LEMMA RemovedIsSeen ==
  ASSUME NEW s \in Row
  PROVE  /\ Removed(s) \in Row /\ ~Removed(s).live /\ Removed(s).at = s.at
         /\ \A r \in Row : Seen(r, s) => Seen(r, Removed(s))
  BY DEF Removed, Row, Seen

\* A row fetched now is the stored one.
LEMMA StoredIsSeen == ASSUME NEW s \in Row PROVE Seen(s, s)
  BY RowFields DEF Seen

-----------------------------------------------------------------------------
(* Saves, records and the journal.                                          *)

\* A save takes a pending field as it is, or does not begin.
LEMMA SaveOfIs ==
  ASSUME NEW p \in Pending, NEW b
  PROVE  LET s == SaveOf(p, b)
         IN  \/ s = Nothing
             \/ /\ s \in Save /\ s.step = "flush" /\ s.newest /\ HasText(p)
                /\ s.value = p[s.field] /\ p[s.field] # NoText
<1>1. CASE b \/ ~HasText(p)
  BY <1>1 DEF SaveOf
<1>2. CASE ~b /\ HasText(p)
  <2> DEFINE f == IF p["title"] # NoText THEN "title" ELSE "content"
             s == SaveOf(p, b)
  <2>1. f \in Field /\ p[f] \in Texts /\ p[f] # NoText
    BY <1>2, FieldAssumption DEF Pending, HasText
  <2>2. s = [step |-> "flush", field |-> f, value |-> p[f], newest |-> TRUE,
             token |-> 0, basis |-> 0, answer |-> Nothing]
    BY <1>2 DEF SaveOf
  <2> HIDE DEF f, s
  <2>3. s \in Save
    BY <2>1, <2>2 DEF Save
  <2> QED BY <1>2, <2>1, <2>2, <2>3 DEF s
<1> QED BY <1>1, <1>2

\* A record is the pending text with what it builds on; without text there is none.
LEMMA RecordIs ==
  ASSUME NEW p \in Pending, NEW on \in Row, NEW b \in Nat
  PROVE  LET r == Record(p, on, b)
         IN  IF HasText(p)
               THEN r \in Retained /\ r.pending = p /\ r.basis = b
                    /\ r.revision = on.revision
               ELSE r = NoDraft
  BY RowFields DEF Record, Retained

\* The journal's variables are well typed.
JournalTyped ==
    /\ {wanted, stored} \subseteq Retained \cup {NoDraft}
    /\ underway \in Retained \cup {NoDraft, Nothing}
    /\ state \in Journal!State
    /\ handed \in BOOLEAN

\* What the coordinator does to its journal: it wants a draft that has text or
\* is none, and tries again what failed.
LEMMA JournalServes ==
  ASSUME JournalTyped, JournalKeepsUp, state # "loading",
         NEW v \in Retained \cup {NoDraft}, v = NoDraft \/ HasText(v.pending),
         Retain(v) \/ RetainAndRetry(v)
  PROVE  /\ JournalTyped' /\ JournalKeepsUp'
         /\ wanted' = v /\ stored' = stored /\ state' # "loading"
         /\ state' = "blocked" <=> state = "blocked"
         /\ Records' \subseteq Records \cup {v}
<1>1. wanted' = v /\ stored' = stored
  BY DEF Retain, HandOver, RetainAndRetry, Journal!Want, journal
<1>2. /\ underway' \in {underway, v}
      /\ state' \in Journal!State /\ state' # "loading"
      /\ state' = "blocked" <=> state = "blocked"
      /\ handed' \in BOOLEAN
  BY DEF Retain, HandOver, RetainAndRetry, Journal!Want, journal,
         JournalTyped, Journal!State
<1>3. JournalTyped'
  BY <1>1, <1>2 DEF JournalTyped
<1>4. Records' \subseteq Records \cup {v}
  BY <1>1, <1>2 DEF Records
<1>5. underway' = Nothing <=> state' \in {"loading", "durable", "blocked"}
  BY AbsentAssumption DEF Retain, HandOver, RetainAndRetry, Journal!Want, journal,
         JournalKeepsUp, JournalTyped, Journal!State
<1>6. state' = "durable" => stored' = wanted'
  BY <1>1 DEF Retain, HandOver, RetainAndRetry, Journal!Want, journal,
         JournalKeepsUp, JournalTyped, Journal!State
<1>7. \A r \in Records' : HasText(r.pending)
  BY <1>4 DEF JournalKeepsUp, Records
<1> QED BY <1>1, <1>2, <1>3, <1>4, <1>5, <1>6, <1>7 DEF JournalKeepsUp

\* A retry writes again what is under way.
LEMMA JournalRetried ==
  ASSUME JournalTyped, JournalKeepsUp, state # "loading", RetryJournal
  PROVE  /\ JournalTyped' /\ JournalKeepsUp'
         /\ wanted' = wanted /\ stored' = stored /\ state' # "loading"
         /\ state' = "blocked" <=> state = "blocked"
         /\ Records' = Records
<1>1. /\ UNCHANGED <<wanted, stored, underway, handed>>
      /\ state' = IF state = "error" THEN "writing" ELSE state
  BY DEF RetryJournal, Journal!Retry, journal
<1>2. JournalTyped' /\ Records' = Records
  BY <1>1 DEF JournalTyped, Journal!State, Records
<1> QED BY <1>1, <1>2 DEF JournalKeepsUp

\* The journal at work puts on disk what was under way, and nothing else.
LEMMA JournalRuns ==
  ASSUME JournalTyped, JournalKeepsUp, Journal!Land \/ Journal!Answer \/ Journal!Fail,
         UNCHANGED handed
  PROVE  /\ JournalTyped' /\ JournalKeepsUp'
         /\ wanted' = wanted /\ state = "writing"
         /\ state' \notin {"loading", "blocked"}
         /\ Records' \subseteq Records
<1>1. /\ wanted' = wanted /\ state = "writing" /\ underway # Nothing
      /\ stored' \in {stored, underway} /\ underway' \in {underway, wanted, Nothing}
      /\ state' \in {"writing", "durable", "error"}
      /\ underway' = Nothing <=> state' = "durable"
      /\ state' = "durable" => stored' = wanted'
  BY AbsentAssumption
     DEF Journal!Land, Journal!Answer, Journal!Fail, JournalKeepsUp, JournalTyped
<1>2. JournalTyped'
  BY <1>1 DEF JournalTyped, Journal!State
<1>3. Records' \subseteq Records
  BY <1>1 DEF Records
<1>4. \A r \in Records' : HasText(r.pending)
  BY <1>3 DEF JournalKeepsUp
<1> QED BY <1>1, <1>2, <1>3, <1>4 DEF JournalKeepsUp

\* After a restart the record wanted is the one that is read from disk.
LEMMA JournalRestarts ==
  ASSUME JournalTyped, JournalKeepsUp, Journal!Restart, handed' = FALSE
  PROVE  /\ JournalTyped' /\ JournalKeepsUp'
         /\ state' = "loading" /\ Records' \subseteq Records
<1>1. /\ stored' = stored \/ (stored' = underway /\ underway # Nothing)
      /\ wanted' = stored' /\ underway' = Nothing /\ state' = "loading"
  BY DEF Journal!Restart, JournalKeepsUp
<1>2. JournalTyped'
  BY <1>1 DEF JournalTyped, Journal!State
<1>3. Records' \subseteq Records
  BY <1>1 DEF Records
<1>4. \A r \in Records' : HasText(r.pending)
  BY <1>3 DEF JournalKeepsUp
<1> QED BY <1>1, <1>2, <1>3, <1>4 DEF JournalKeepsUp

\* Reading the record changes nothing but what the editor is told.
LEMMA JournalOpens ==
  ASSUME JournalTyped, JournalKeepsUp, Journal!Open, UNCHANGED handed
  PROVE  /\ JournalTyped' /\ JournalKeepsUp'
         /\ state = "loading" /\ state' \in {"durable", "blocked"}
         /\ UNCHANGED <<wanted, stored, underway>> /\ wanted = stored
<1>1. /\ UNCHANGED <<wanted, underway, stored>> /\ state = "loading"
      /\ state' \in {"durable", "blocked"} /\ underway = Nothing /\ wanted = stored
  BY DEF Journal!Open, JournalKeepsUp
<1>2. JournalTyped'
  BY <1>1 DEF JournalTyped, Journal!State
<1>3. \A r \in Records' : HasText(r.pending)
  BY <1>1 DEF JournalKeepsUp, Records
<1> QED BY <1>1, <1>2, <1>3 DEF JournalKeepsUp

-----------------------------------------------------------------------------
(* What a step leaves alone.                                                *)

\* A fetch that is late is the same fetch.
LEMMA AgedIs ==
  ASSUME NEW K, K \in {Fetch, Decision}, NEW fetch \in K \cup {Nothing}
  PROVE  /\ Aged(fetch) \in K \cup {Nothing}
         /\ Aged(fetch) = Nothing <=> fetch = Nothing
         /\ fetch # Nothing => Aged(fetch).page = fetch.page
<1>1. CASE fetch = Nothing
  BY <1>1 DEF Aged
<1>2. CASE fetch # Nothing /\ K = Fetch
  BY <1>2, AbsentAssumption DEF Aged, Fetch
<1>3. CASE fetch # Nothing /\ K = Decision
  BY <1>3, AbsentAssumption DEF Aged, Decision
<1> QED BY <1>1, <1>2, <1>3

\* Fetches under way age, arrive or are dropped; the row and the page stay.
LEMMA RowsStay ==
  ASSUME TypeOK, RowsAreSeen, UNCHANGED <<server, page>>,
         refresh' \in {refresh, Aged(refresh), Nothing}, verify' \in {verify, Nothing},
         reload' \in {reload, Aged(reload), Nothing}
  PROVE  /\ RowsAreSeen'
         /\ refresh' \in Fetch \cup {Nothing} /\ reload' \in Decision \cup {Nothing}
         /\ verify' \in Row \cup {Nothing}
<1>1. /\ refresh \in Fetch \cup {Nothing} /\ reload \in Decision \cup {Nothing}
      /\ verify \in Row \cup {Nothing}
  BY DEF TypeOK
<1>2. refresh' \in Fetch \cup {Nothing} /\ (refresh' # Nothing => Seen(refresh'.page, server'))
  BY <1>1, AgedIs DEF RowsAreSeen
<1>3. reload' \in Decision \cup {Nothing} /\ (reload' # Nothing => Seen(reload'.page, server'))
  BY <1>1, AgedIs DEF RowsAreSeen
<1> QED BY <1>1, <1>2, <1>3 DEF RowsAreSeen

\* The stored row changes, and nobody in the window hears of it.
LEMMA RowsAge ==
  ASSUME TypeOK, RowsAreSeen, UNCHANGED <<page, inflight>>,
         \A r \in Row : Seen(r, server) => Seen(r, server')
  PROVE  RowsAreSeen'
<1>1. /\ page \in Row /\ refresh \in Fetch \cup {Nothing}
      /\ reload \in Decision \cup {Nothing} /\ verify \in Row \cup {Nothing}
  BY DEF TypeOK
<1>2. /\ refresh # Nothing => refresh.page \in Row
      /\ reload # Nothing => reload.page \in Row
  BY <1>1 DEF Fetch, Decision
<1> QED BY <1>1, <1>2 DEF RowsAreSeen, inflight

\* The journal is left alone.
LEMMA JournalStays ==
  ASSUME JournalKeepsUp, UNCHANGED journal
  PROVE  JournalKeepsUp' /\ Records' = Records
  BY DEF JournalKeepsUp, Records, journal

\* The draft and what is wanted on disk are left alone.
LEMMA DraftStays ==
  ASSUME DraftIsWanted, UNCHANGED <<window, pending, wanted>>,
         state = "blocked" => state' = "blocked"
  PROVE  DraftIsWanted'
  BY DEF DraftIsWanted

\* The save and its page are left alone.
LEMMA SaveStays ==
  ASSUME SaveIsOfPage, UNCHANGED <<save, pending, page, server, restarts>>
  PROVE  SaveIsOfPage'
  BY DEF SaveIsOfPage, Known

\* A save that begins, or none.
LEMMA SaveBegins ==
  ASSUME pending' \in Pending, NEW b, save' = SaveOf(pending', b)
  PROVE  SaveIsOfPage' /\ save' \in Save \cup {Nothing} /\ (save' # Nothing => HasText(pending'))
  BY SaveOfIs DEF SaveIsOfPage

\* Nothing is claimed of a save that is none.
LEMMA NoSave == save' = Nothing => SaveIsOfPage'
  BY DEF SaveIsOfPage

\* A draft that is still there, and still contested if it was, builds on what
\* it was built on.
LEMMA BasisStays ==
  ASSUME BasisIsKnown, UNCHANGED <<window, restarts, basis, page>>,
         window # "open" => UNCHANGED stored,
         Records' \subseteq Records, Dirty' => Dirty, Dirty /\ conflict => conflict'
  PROVE  BasisIsKnown'
  BY DEF BasisIsKnown

\* The types of the journal are part of the types.
LEMMA Typed == TypeOK => JournalTyped
  BY DEF TypeOK, JournalTyped

\* A remote page that arrives: only a clean window takes it over.
LEMMA RemoteAccepted ==
  ASSUME TypeOK, RowsAreSeen, NEW fetched \in Row, Seen(fetched, server),
         AcceptRemote(fetched)
  PROVE  /\ page' \in Row /\ Seen(page', server)
         /\ {error', conflict', recovered', suspended', timer'} \subseteq BOOLEAN
         /\ Dirty => page' = page /\ (conflict => conflict')
  BY DEF TypeOK, RowsAreSeen, AcceptRemote, Contests, RemoteChanged, flags

-----------------------------------------------------------------------------
(* The editor.                                                              *)

\* Typing.
LEMMA EditKeeps ==
  ASSUME IInv, NEW f \in Field, NEW v \in Texts, Edit(f, v)
  PROVE  IInv'
<1> DEFINE r == Record(pending', page, basis')
<1>1. /\ window = "open" /\ pending \in Pending /\ page \in Row /\ save \in Save \cup {Nothing}
      /\ basis \in Nat /\ restarts \in Nat
  BY DEF Edit, IInv, TypeOK
<1>2. /\ UNCHANGED <<server, window, page, conflict, recovered, suspended, verify, deletion,
                     events, restarts>>
      /\ basis' = IF Dirty THEN basis ELSE page.revision
      /\ pending' = [pending EXCEPT ![f] =
                       IF save = Nothing /\ v = page.text[f] THEN NoText ELSE v]
      /\ save' = IF save # Nothing /\ save.field = f
                 THEN [save EXCEPT !.newest = FALSE] ELSE save
      /\ refresh' = Aged(refresh) /\ reload' = Aged(reload) /\ Retain(r)
  BY DEF Edit, NewVersion
<1>3. pending' \in Pending /\ basis' \in Nat /\ (save # Nothing => pending'[f] = v)
  BY <1>1, <1>2, RowFields DEF Pending
<1>4. /\ save' \in Save \cup {Nothing} /\ (save' = Nothing <=> save = Nothing)
      /\ save # Nothing =>
           /\ save'.field = save.field /\ save'.value = save.value /\ save'.step = save.step
           /\ save'.token = save.token /\ save'.basis = save.basis
           /\ save'.answer = save.answer
           /\ save'.newest => save.newest /\ save.field # f
  <2>1. CASE save # Nothing /\ save.field = f
    <3>1. save \in Save /\ save' = [save EXCEPT !.newest = FALSE]
      BY <1>1, <1>2, <2>1
    <3> QED BY <2>1, <3>1, AbsentAssumption DEF Save
  <2>2. CASE save = Nothing \/ save.field # f
    BY <1>1, <1>2, <2>2
  <2> QED BY <2>1, <2>2
<1>5. IF HasText(pending') THEN r \in Retained /\ r.pending = pending' /\ r.basis = basis'
                                /\ r.revision = page.revision
      ELSE r = NoDraft
  BY <1>1, <1>3, RecordIs
<1>6. /\ JournalTyped' /\ JournalKeepsUp' /\ wanted' = r /\ stored' = stored
      /\ state' # "loading" /\ Records' \subseteq Records \cup {r}
  <2>1. JournalTyped /\ JournalKeepsUp /\ state # "loading"
    BY <1>1, Typed DEF IInv, NothingUnlessOpen
  <2>2. r \in Retained \cup {NoDraft} /\ (r = NoDraft \/ HasText(r.pending))
    BY <1>5
  <2> HIDE DEF r
  <2> QED BY <1>2, <2>1, <2>2, JournalServes
<1> HIDE DEF r
<1>7. TypeOK /\ RowsAreSeen /\ {error, conflict} \subseteq BOOLEAN
  BY DEF IInv, TypeOK
<1>8. /\ RowsAreSeen' /\ refresh' \in Fetch \cup {Nothing} /\ reload' \in Decision \cup {Nothing}
  BY <1>2, <1>7, RowsStay
<1>9. error' \in BOOLEAN /\ timer' \in BOOLEAN
  BY <1>7 DEF Edit, Dirty, HasText
<1>10. TypeOK' /\ {basis, restarts}' \subseteq Nat
  BY <1>1, <1>2, <1>3, <1>4, <1>6, <1>7, <1>8, <1>9 DEF TypeOK, JournalTyped
<1>11. NothingUnlessOpen' /\ DraftIsWanted'
  BY <1>1, <1>2, <1>5, <1>6, AbsentAssumption DEF NothingUnlessOpen, DraftIsWanted
<1>12. SaveIsOfPage'
  <2> SUFFICES ASSUME save # Nothing PROVE SaveIsOfPage'
    BY <1>4 DEF SaveIsOfPage
  <2>1. SaveIsOfPage /\ save.field \in Field /\ save.answer \in Row \cup {Nothing}
    BY <1>1 DEF IInv, Save
  <2>2. pending'[save.field] # NoText /\ (save.field # f => pending'[save.field] = pending[save.field])
    BY <1>1, <1>2, <1>3, <2>1, TextsAssumption DEF SaveIsOfPage, Pending
  <2>3. Known' = Known
    BY <1>2, <1>4 DEF Known
  <2> QED BY <1>2, <1>4, <2>1, <2>2, <2>3 DEF SaveIsOfPage
<1>13. BasisIsKnown'
  <2>1. BasisIsKnown
    BY DEF IInv
  <2>2. HasText(pending') => Dirty'
    BY DEF Dirty
  <2> QED BY <1>1, <1>2, <1>5, <1>6, <2>1, <2>2 DEF BasisIsKnown, Records
<1> QED BY <1>6, <1>8, <1>10, <1>11, <1>12, <1>13 DEF IInv

\* A save begins by the timer or because the title is left.
LEMMA FlushKeeps ==
  ASSUME IInv, Flush
  PROVE  IInv'
<1>1. /\ window = "open" /\ timer' = FALSE
      /\ UNCHANGED <<server, window, page, pending, basis, error, conflict, recovered,
                     suspended, refresh, verify, reload, deletion, wanted, underway,
                     stored, state, handed, restarts>>
      /\ save' = IF save # Nothing THEN save ELSE SaveOf(pending, Held)
  BY DEF Flush, draft, inflight, journal, counters
<1>2. TypeOK /\ pending \in Pending
  BY DEF IInv, TypeOK
<1>3. /\ SaveIsOfPage' /\ save' \in Save \cup {Nothing} /\ (Dirty' => Dirty)
  <2>1. CASE save # Nothing
    <3>1. save' = save
      BY <1>1, <2>1
    <3> QED BY <1>1, <1>2, <2>1, <3>1, SaveStays DEF IInv, TypeOK, Dirty
  <2>2. CASE save = Nothing
    <3>1. pending' \in Pending /\ save' = SaveOf(pending', Held)
      BY <1>1, <1>2, <2>2
    <3> QED BY <1>1, <3>1, SaveBegins DEF Dirty
  <2> QED BY <2>1, <2>2
<1>4. TypeOK' /\ {basis, restarts}' \subseteq Nat
  BY <1>1, <1>2, <1>3 DEF TypeOK, IInv
<1>5. RowsAreSeen' /\ JournalKeepsUp' /\ Records' = Records /\ DraftIsWanted'
  BY <1>1, <1>2, RowsStay, JournalStays, DraftStays DEF IInv, journal
<1>6. NothingUnlessOpen' /\ BasisIsKnown'
  BY <1>1, <1>3, <1>5, BasisStays DEF IInv, NothingUnlessOpen
<1> QED BY <1>3, <1>4, <1>5, <1>6 DEF IInv

\* The retry after an error.
LEMMA RetryKeeps ==
  ASSUME IInv, Retry
  PROVE  IInv'
<1>1. /\ window = "open" /\ save = Nothing
      /\ error' = FALSE /\ recovered' = FALSE /\ timer' = FALSE
      /\ UNCHANGED <<server, window, page, pending, basis, conflict,
                     suspended, refresh, verify, reload, deletion, restarts>>
      /\ save' = SaveOf(pending, FALSE) /\ RetryJournal
  BY DEF Retry, draft, inflight, counters
<1>2. TypeOK /\ pending \in Pending /\ JournalTyped /\ JournalKeepsUp
  BY Typed DEF IInv, TypeOK
<1>3. SaveIsOfPage' /\ save' \in Save \cup {Nothing} /\ (Dirty' => Dirty)
  BY <1>1, <1>2, SaveBegins DEF Dirty
<1>4. /\ JournalTyped' /\ JournalKeepsUp' /\ wanted' = wanted /\ stored' = stored
      /\ state' # "loading" /\ (state' = "blocked" <=> state = "blocked")
      /\ Records' \subseteq Records
  BY <1>1, <1>2, JournalRetried DEF IInv, NothingUnlessOpen
<1>5. TypeOK' /\ {basis, restarts}' \subseteq Nat
  BY <1>1, <1>2, <1>3, <1>4 DEF TypeOK, IInv, JournalTyped
<1>6. RowsAreSeen' /\ DraftIsWanted' /\ NothingUnlessOpen' /\ BasisIsKnown'
  BY <1>1, <1>2, <1>3, <1>4, RowsStay, DraftStays, BasisStays DEF IInv, NothingUnlessOpen
<1> QED BY <1>3, <1>4, <1>5, <1>6 DEF IInv

\* A decision about a contested or a recovered draft is asked for.
LEMMA ReloadKeeps ==
  ASSUME IInv, NEW keep \in BOOLEAN, Reload(keep)
  PROVE  IInv'
<1>1. /\ window = "open" /\ reload' = [page |-> server, newest |-> TRUE, keep |-> keep]
      /\ UNCHANGED <<server, window, page, pending, basis, save, error, conflict, recovered,
                     suspended, timer, refresh, verify, deletion, wanted, underway,
                     stored, state, handed, restarts>>
  BY DEF Reload, draft, flags, journal, counters
<1>2. server \in Row /\ reload' \in Decision /\ Seen(server, server)
  BY <1>1, StoredIsSeen DEF IInv, TypeOK, Decision
<1>3. TypeOK' /\ {basis, restarts}' \subseteq Nat
  BY <1>1, <1>2 DEF TypeOK, IInv
<1>4. RowsAreSeen' /\ NothingUnlessOpen'
  BY <1>1, <1>2 DEF IInv, RowsAreSeen, NothingUnlessOpen
<1>5. JournalKeepsUp' /\ Records' = Records /\ DraftIsWanted' /\ SaveIsOfPage'
  BY <1>1, JournalStays, DraftStays, SaveStays DEF IInv, journal
<1>6. BasisIsKnown'
  BY <1>1, <1>5, BasisStays DEF IInv, Dirty
<1> QED BY <1>3, <1>4, <1>5, <1>6 DEF IInv

-----------------------------------------------------------------------------
(* A save.                                                                  *)

\* The page and the draft stay; what is under way may end, and a conflict is
\* not forgotten.
LEMMA DraftOutlives ==
  ASSUME IInv, window = "open",
         UNCHANGED <<server, window, page, pending, basis, restarts, journal>>,
         save' \in {save, Nothing}, refresh' \in {refresh, Aged(refresh), Nothing},
         verify' \in {verify, Nothing}, reload' \in {reload, Aged(reload), Nothing},
         {error', conflict', recovered', suspended', timer'} \subseteq BOOLEAN,
         Dirty /\ conflict => conflict', deletion' \in {"none", "sent", "done"}
  PROVE  IInv'
<1>1. TypeOK /\ save \in Save \cup {Nothing} /\ (Dirty' => Dirty)
  BY DEF IInv, TypeOK, Dirty
<1>2. /\ RowsAreSeen' /\ refresh' \in Fetch \cup {Nothing}
      /\ reload' \in Decision \cup {Nothing} /\ verify' \in Row \cup {Nothing}
  BY <1>1, RowsStay DEF IInv
<1>3. TypeOK' /\ {basis, restarts}' \subseteq Nat
  BY <1>1, <1>2 DEF TypeOK, IInv, journal
<1>4. JournalKeepsUp' /\ Records' = Records /\ DraftIsWanted'
  BY JournalStays, DraftStays DEF IInv, journal
<1>5. SaveIsOfPage'
  BY SaveStays, NoSave DEF IInv
<1>6. NothingUnlessOpen'
  BY DEF IInv, NothingUnlessOpen, journal
<1>7. BasisIsKnown'
  BY <1>1, <1>4, BasisStays DEF IInv
<1> QED BY <1>2, <1>3, <1>4, <1>5, <1>6, <1>7 DEF IInv

\* Only an open window saves.
LEMMA OpenWhenSaving == IInv /\ save # Nothing => window = "open" /\ Dirty
  BY DEF IInv, NothingUnlessOpen, Dirty

\* The journal is durable and the request goes out: with the token of the page
\* on display and, unless the draft is contested, on the basis of its revision.
LEMMA SendKeeps ==
  ASSUME IInv, Send
  PROVE  IInv'
<1>1. /\ window = "open" /\ save \in Save /\ save.step = "flush" /\ Dirty
      /\ UNCHANGED <<server, window, page, pending, basis, error, conflict, recovered,
                     suspended, refresh, verify, reload, deletion, wanted, underway,
                     stored, state, handed, restarts>>
  BY OpenWhenSaving DEF Send, draft, inflight, journal, counters, IInv, TypeOK
<1>2. TypeOK /\ pending \in Pending /\ page \in Row /\ basis \in Nat
  BY DEF IInv, TypeOK
<1>3. /\ SaveIsOfPage' /\ save' \in Save \cup {Nothing} /\ timer' \in BOOLEAN
  <2>1. CASE Held
    <3>1. pending' \in Pending /\ save' = SaveOf(pending', Held)
      BY <1>1, <1>2, <2>1 DEF Send, SaveEnds
    <3>2. timer' \in BOOLEAN
      BY <1>2, <2>1 DEF Send, SaveEnds, TypeOK
    <3> QED BY <3>1, <3>2, SaveBegins
  <2>2. CASE ~Held
    <3>1. /\ save' = [save EXCEPT !.step = "sent", !.token = page.at, !.basis = basis]
          /\ timer' = timer
      BY <2>2 DEF Send
    <3>2. /\ save' \in Save /\ save'.step = "sent" /\ save'.token = page.at
          /\ save'.basis = basis /\ save'.field = save.field
          /\ save'.value = save.value /\ save'.newest = save.newest
      BY <1>1, <1>2, <3>1, RowFields DEF Save
    <3>3. restarts <= 1 => basis = page.revision
      BY <1>1, <2>2 DEF IInv, BasisIsKnown, Held
    <3>4. pending[save.field] # NoText /\ (save.newest => pending[save.field] = save.value)
      BY <1>1, AbsentAssumption DEF IInv, SaveIsOfPage
    <3>5. SaveIsOfPage'
      BY <1>1, <3>2, <3>3, <3>4 DEF SaveIsOfPage
    <3> QED BY <1>2, <3>1, <3>2, <3>5 DEF TypeOK
  <2> QED BY <2>1, <2>2
<1>4. TypeOK' /\ {basis, restarts}' \subseteq Nat
  BY <1>1, <1>2, <1>3 DEF TypeOK, IInv
<1>5. RowsAreSeen' /\ JournalKeepsUp' /\ Records' = Records /\ DraftIsWanted'
  BY <1>1, <1>2, RowsStay, JournalStays, DraftStays DEF IInv, journal
<1>6. NothingUnlessOpen' /\ BasisIsKnown'
  BY <1>1, <1>3, <1>5, BasisStays DEF IInv, NothingUnlessOpen
<1> QED BY <1>3, <1>4, <1>5, <1>6 DEF IInv

\* The journal failed, the service refused, or nobody answered.
LEMMA SaveFailsKeeps ==
  ASSUME IInv, NotRetained \/ Refused \/ Unanswered
  PROVE  IInv'
<1>1. /\ save # Nothing /\ save' = Nothing /\ error' = TRUE
      /\ UNCHANGED <<server, window, page, pending, basis, recovered, suspended, timer,
                     refresh, verify, reload, deletion, restarts, journal>>
  BY DEF NotRetained, Refused, Unanswered, SaveFails, draft, inflight, counters
<1>2. conflict' \in BOOLEAN /\ (conflict => conflict')
  <2>1. CASE conflict' = conflict
    BY <2>1 DEF IInv, TypeOK
  <2>2. CASE conflict' = (conflict \/ save.answer # Nothing)
    BY <2>2
  <2> QED BY <2>1, <2>2 DEF NotRetained, Refused, Unanswered
<1> QED BY <1>1, <1>2, OpenWhenSaving, DraftOutlives DEF IInv, TypeOK

\* The service accepts a save only of the row that the window knows, so that
\* its answer is what the window makes of it.
LEMMA ExecuteKeeps ==
  ASSUME IInv, Execute
  PROVE  IInv'
<1>1. /\ window = "open" /\ save \in Save /\ save.step = "sent" /\ Dirty
      /\ UNCHANGED <<window, page, pending, basis, error, conflict, recovered,
                     suspended, timer, refresh, verify, reload, deletion, wanted, underway,
                     stored, state, handed, restarts>>
  BY OpenWhenSaving DEF Execute, draft, flags, inflight, journal, counters, IInv, TypeOK
<1>2. /\ TypeOK /\ server \in Row /\ page \in Row
      /\ save.field \in Field /\ save.value \in Texts
      /\ Seen(page, server) /\ save.token = page.at
      /\ pending[save.field] # NoText /\ (save.newest => pending[save.field] = save.value)
  BY <1>1, AbsentAssumption DEF IInv, TypeOK, RowsAreSeen, Save, SaveIsOfPage
<1>3. /\ RowsAreSeen' /\ server' \in Row /\ save' \in Save
      /\ SaveIsOfPage'
  <2>1. CASE Accepts(server, save.token)
    <3> DEFINE t == Saved(server, save.field, save.value, 0)
    <3>1. server' = t /\ save' = [save EXCEPT !.step = "landed", !.answer = t]
      BY <1>1, <2>1 DEF Execute
    <3>2. /\ t \in Row /\ t.text = [server.text EXCEPT ![save.field] = save.value]
          /\ t.revision = server.revision + 1 /\ t.at = server.at + 1
          /\ Seen(t, t) /\ \A r \in Row : Seen(r, server) => Seen(r, t)
      BY <1>2, SavesMoveOn
    <3> HIDE DEF t
    <3>3. /\ save' \in Save /\ save'.step = "landed" /\ save'.answer = t
          /\ save'.field = save.field /\ save'.value = save.value
          /\ save'.newest = save.newest /\ save'.token = save.token
      BY <1>1, <3>1, <3>2 DEF Save
    <3>4. server.at = page.at /\ server.text = page.text
      BY <1>2, <2>1, RowFields DEF Accepts, Seen
    <3>5. Known' = t
      <4>1. t.text \in [Field -> Texts] /\ page.text \in [Field -> Texts]
        BY <1>2, <3>2, RowFields
      <4>2. t.text["content"] = IF save.field = "content" THEN save.value ELSE page.text["content"]
        BY <1>2, <3>2, <3>4, <4>1, FieldAssumption
      <4>3. Known' = [t EXCEPT !.text["content"] = t.text["content"]]
        BY <1>1, <3>3, <4>2 DEF Known
      <4> QED BY <3>2, <4>1, <4>3, FieldAssumption DEF Row
    <3>6. RowsAreSeen'
      BY <1>1, <1>2, <3>1, <3>2, RowsAge DEF IInv, inflight
    <3>7. t.text[save.field] = save.value
      BY <1>2, <3>2, RowFields
    <3>8. SaveIsOfPage'
      BY <1>1, <1>2, <3>1, <3>2, <3>3, <3>5, <3>7, RowFields DEF SaveIsOfPage
    <3> QED BY <3>1, <3>2, <3>3, <3>6, <3>8
  <2>2. CASE ~Accepts(server, save.token)
    <3>1. /\ server' = server
          /\ save' = [save EXCEPT !.step = "refused",
                                  !.answer = IF server.live THEN server ELSE Nothing]
      BY <1>1, <2>2 DEF Execute
    <3>2. /\ save' \in Save /\ save'.step = "refused"
          /\ save'.field = save.field /\ save'.value = save.value
          /\ save'.newest = save.newest /\ save'.token = save.token
      BY <1>1, <1>2, <3>1 DEF Save
    <3>3. SaveIsOfPage'
      BY <1>1, <1>2, <3>2 DEF SaveIsOfPage
    <3> QED BY <1>1, <1>2, <3>1, <3>2, <3>3, RowsStay DEF IInv
  <2> QED BY <2>1, <2>2
<1>4. TypeOK' /\ {basis, restarts}' \subseteq Nat
  BY <1>1, <1>2, <1>3 DEF TypeOK, IInv
<1>5. JournalKeepsUp' /\ Records' = Records /\ DraftIsWanted'
  BY <1>1, JournalStays, DraftStays DEF IInv, journal
<1>6. NothingUnlessOpen' /\ BasisIsKnown'
  BY <1>1, <1>3, <1>5, BasisStays DEF IInv, NothingUnlessOpen
<1> QED BY <1>3, <1>4, <1>5, <1>6 DEF IInv

\* The answer is taken over, and with it the draft is settled or built on it.
LEMMA AcknowledgeKeeps ==
  ASSUME IInv, Acknowledge
  PROVE  IInv'
<1>1. /\ window = "open" /\ save \in Save /\ save.step = "landed" /\ Dirty
      /\ UNCHANGED <<server, window, error, conflict, recovered, suspended, verify, deletion,
                     restarts>>
  BY OpenWhenSaving DEF Acknowledge, counters, IInv, TypeOK
<1>2. /\ TypeOK /\ page \in Row /\ pending \in Pending /\ JournalTyped /\ JournalKeepsUp
      /\ timer \in BOOLEAN /\ basis \in Nat
      /\ state # "loading"
  BY <1>1, Typed DEF IInv, TypeOK, NothingUnlessOpen
<1>3. CASE suspended
  <2>1. /\ UNCHANGED <<page, pending, basis, refresh, reload, journal>>
        /\ save' = SaveOf(pending, Held) /\ timer' \in BOOLEAN
    BY <1>1, <1>2, <1>3 DEF Acknowledge, SaveEnds, draft
  <2>2. save' = Nothing
    BY <1>3, <2>1 DEF SaveOf, Held
  <2> QED BY <1>1, <2>1, <2>2, DraftOutlives DEF IInv, TypeOK
<1>4. CASE ~suspended
  <2> DEFINE r == Record(pending', page', basis')
  <2>1. /\ page' = Known /\ pending' = Settled /\ basis' = page'.revision
        /\ refresh' = Aged(refresh) /\ reload' = Aged(reload) /\ Retain(r)
        /\ save' = SaveOf(pending', Held) /\ timer' \in BOOLEAN
    BY <1>2, <1>4 DEF Acknowledge, SaveEnds, NewVersion
  <2>2. /\ save.answer \in Row /\ Known = save.answer /\ Seen(save.answer, server)
    BY <1>1, AbsentAssumption DEF IInv, SaveIsOfPage, Save
  <2>3. /\ page' \in Row /\ pending' \in Pending /\ basis' \in Nat
    BY <1>1, <1>2, <2>1, <2>2, RowFields DEF Settled, Pending
  <2>4. IF HasText(pending') THEN r \in Retained /\ r.pending = pending' /\ r.basis = basis'
                                  /\ r.revision = page'.revision
        ELSE r = NoDraft
    BY <2>3, RecordIs
  <2>5. /\ JournalTyped' /\ JournalKeepsUp' /\ wanted' = r /\ stored' = stored
        /\ state' # "loading" /\ Records' \subseteq Records \cup {r}
    <3>1. r \in Retained \cup {NoDraft} /\ (r = NoDraft \/ HasText(r.pending))
      BY <2>4
    <3> HIDE DEF r
    <3> QED BY <1>2, <2>1, <3>1, JournalServes
  <2> HIDE DEF r
  <2>6. SaveIsOfPage' /\ save' \in Save \cup {Nothing}
    BY <2>1, <2>3, SaveBegins
  <2>7. RowsAreSeen' /\ refresh' \in Fetch \cup {Nothing} /\ reload' \in Decision \cup {Nothing}
    <3>1. /\ refresh \in Fetch \cup {Nothing} /\ reload \in Decision \cup {Nothing}
          /\ verify' = verify /\ server' = server
      BY <1>1, <1>2 DEF TypeOK
    <3>2. Seen(page', server')
      BY <2>1, <2>2, <3>1
    <3>3. refresh' \in Fetch \cup {Nothing} /\ (refresh' # Nothing => Seen(refresh'.page, server'))
      BY <2>1, <3>1, AgedIs DEF IInv, RowsAreSeen
    <3>4. reload' \in Decision \cup {Nothing} /\ (reload' # Nothing => Seen(reload'.page, server'))
      BY <2>1, <3>1, AgedIs DEF IInv, RowsAreSeen
    <3> QED BY <3>1, <3>2, <3>3, <3>4 DEF IInv, RowsAreSeen
  <2>8. TypeOK' /\ {basis, restarts}' \subseteq Nat
    BY <1>1, <1>2, <2>1, <2>3, <2>5, <2>6, <2>7 DEF IInv, TypeOK, JournalTyped
  <2>9. NothingUnlessOpen' /\ DraftIsWanted'
    BY <1>1, <2>4, <2>5, AbsentAssumption DEF NothingUnlessOpen, DraftIsWanted
  <2>10. BasisIsKnown'
    BY <1>1, <2>1, <2>4, <2>5 DEF IInv, BasisIsKnown, Records
  <2> QED BY <2>5, <2>6, <2>7, <2>8, <2>9, <2>10 DEF IInv
<1> QED BY <1>3, <1>4

-----------------------------------------------------------------------------
(* Fetches and events.                                                      *)

\* A fetch reads the row as it is, and waits.
LEMMA FetchKeeps ==
  ASSUME IInv, Visit \/ Reconnect
  PROVE  IInv'
<1>1. /\ UNCHANGED <<server, window, page, pending, basis, save, error, conflict, recovered,
                     suspended, timer, reload, deletion, journal, restarts>>
      /\ \/ refresh' = [page |-> server, newest |-> TRUE] /\ verify' = verify
         \/ verify' = server /\ refresh' = refresh /\ window = "open"
  BY DEF Visit, Reconnect, draft, flags
<1>2. /\ TypeOK /\ server \in Row /\ Seen(server, server)
      /\ [page |-> server, newest |-> TRUE] \in Fetch
  BY StoredIsSeen DEF IInv, TypeOK, Fetch
<1>3. TypeOK' /\ {basis, restarts}' \subseteq Nat
  BY <1>1, <1>2 DEF IInv, TypeOK, journal
<1>4. RowsAreSeen'
  BY <1>1, <1>2 DEF IInv, RowsAreSeen
<1>5. JournalKeepsUp' /\ Records' = Records /\ DraftIsWanted' /\ SaveIsOfPage'
  BY <1>1, JournalStays, DraftStays, SaveStays DEF IInv, journal
<1>6. NothingUnlessOpen' /\ BasisIsKnown'
  BY <1>1, <1>5, BasisStays DEF IInv, NothingUnlessOpen, Dirty, flags, journal
<1> QED BY <1>3, <1>4, <1>5, <1>6 DEF IInv

\* A page that arrives replaces a clean one, and leaves a dirty one alone.
LEMMA ArrivalKeeps ==
  ASSUME IInv, window = "open", NEW fetched \in Row, Seen(fetched, server),
         AcceptRemote(fetched),
         UNCHANGED <<server, window, pending, basis, save, deletion, journal, restarts>>,
         refresh' \in {refresh, Aged(refresh), Nothing}, verify' \in {verify, Nothing},
         reload' \in {reload, Aged(reload), Nothing}
  PROVE  IInv'
<1>1. TypeOK /\ RowsAreSeen
  BY DEF IInv
<1>2. /\ page' \in Row /\ Seen(page', server)
      /\ {error', conflict', recovered', suspended', timer'} \subseteq BOOLEAN
      /\ Dirty => page' = page /\ (conflict => conflict')
  BY <1>1, RemoteAccepted
<1>3. CASE Dirty
  BY <1>2, <1>3, DraftOutlives DEF IInv, TypeOK
<1>4. CASE ~Dirty
  <2>1. save = Nothing /\ save' = Nothing /\ pending' = pending /\ ~HasText(pending) /\ ~Dirty'
    BY <1>4 DEF Dirty
  <2>2. /\ refresh' \in Fetch \cup {Nothing} /\ reload' \in Decision \cup {Nothing}
        /\ verify' \in Row \cup {Nothing}
        /\ refresh' # Nothing => Seen(refresh'.page, server)
        /\ reload' # Nothing => Seen(reload'.page, server)
        /\ verify' # Nothing => Seen(verify', server)
    <3>1. refresh \in Fetch \cup {Nothing} /\ reload \in Decision \cup {Nothing}
      BY <1>1 DEF TypeOK
    <3> QED BY <1>1, <3>1, AgedIs DEF TypeOK, RowsAreSeen
  <2>3. TypeOK' /\ {basis, restarts}' \subseteq Nat
    BY <1>1, <1>2, <2>1, <2>2 DEF IInv, TypeOK, journal
  <2>4. RowsAreSeen'
    BY <1>2, <2>2 DEF RowsAreSeen
  <2>5. JournalKeepsUp' /\ Records' = Records /\ DraftIsWanted' /\ SaveIsOfPage'
    BY <2>1, JournalStays, DraftStays, NoSave DEF IInv, journal
  <2>6. NothingUnlessOpen' /\ BasisIsKnown'
    BY <2>1, <2>5 DEF IInv, NothingUnlessOpen, BasisIsKnown, journal
  <2> QED BY <2>3, <2>4, <2>5, <2>6 DEF IInv
<1> QED BY <1>3, <1>4

\* The fetch of a visit or of an event arrives.
LEMMA RefreshArrivesKeeps ==
  ASSUME IInv, RefreshArrives
  PROVE  IInv'
<1>1. /\ window = "open" /\ refresh \in Fetch /\ refresh' = Nothing
      /\ UNCHANGED <<server, window, pending, basis, save, verify, deletion, journal, restarts>>
  BY DEF RefreshArrives, counters, IInv, TypeOK
<1>2. refresh.page \in Row /\ Seen(refresh.page, server)
  BY <1>1, AbsentAssumption DEF IInv, RowsAreSeen, Fetch
<1>3. CASE refresh.newest
  <2>1. AcceptRemote(refresh.page) /\ reload' \in {reload, Aged(reload)}
    BY <1>3 DEF RefreshArrives
  <2> QED BY <1>1, <1>2, <2>1, ArrivalKeeps
<1>4. CASE ~refresh.newest
  BY <1>1, <1>4, DraftOutlives DEF RefreshArrives, flags, IInv, TypeOK
<1> QED BY <1>3, <1>4

\* The fetch after an outage arrives.
LEMMA VerifyArrivesKeeps ==
  ASSUME IInv, VerifyArrives
  PROVE  IInv'
<1>1. /\ verify # Nothing /\ verify' = Nothing /\ AcceptRemote(verify)
      /\ refresh' \in {refresh, Aged(refresh)} /\ reload' \in {reload, Aged(reload)}
      /\ UNCHANGED <<server, window, pending, basis, save, deletion, journal, restarts>>
  BY DEF VerifyArrives, NewVersion, counters
<1>2. window = "open" /\ verify \in Row /\ Seen(verify, server)
  BY <1>1 DEF IInv, TypeOK, RowsAreSeen, NothingUnlessOpen
<1> QED BY <1>1, <1>2, ArrivalKeeps

\* The decision is carried out, or dropped because something happened since.
LEMMA ReloadArrivesKeeps ==
  ASSUME IInv, ReloadArrives
  PROVE  IInv'
<1>1. /\ reload \in Decision /\ reload' = Nothing /\ window = "open"
      /\ UNCHANGED <<server, window, verify, deletion, restarts>>
  BY DEF ReloadArrives, counters, IInv, TypeOK, NothingUnlessOpen
<1>2. /\ TypeOK /\ reload.page \in Row /\ Seen(reload.page, server)
      /\ reload.keep \in BOOLEAN /\ pending \in Pending
      /\ JournalTyped /\ JournalKeepsUp /\ state # "loading"
  BY <1>1, Typed, AbsentAssumption
     DEF IInv, TypeOK, RowsAreSeen, NothingUnlessOpen, Decision
<1>3. CASE suspended \/ save # Nothing \/ ~reload.newest
  BY <1>1, <1>3, DraftOutlives DEF ReloadArrives, draft, flags, IInv, TypeOK
<1>4. CASE ~(suspended \/ save # Nothing \/ ~reload.newest)
  <2> DEFINE r == Record(pending', page', basis')
  <2>1. /\ page' = reload.page /\ basis' = page'.revision /\ refresh' = Aged(refresh)
        /\ pending' = IF reload.keep THEN pending ELSE NothingPending
        /\ error' = FALSE /\ conflict' = FALSE /\ recovered' = FALSE
        /\ suspended' = suspended /\ save = Nothing /\ RetainAndRetry(r)
        /\ IF reload.keep THEN save' = SaveOf(pending', FALSE) /\ timer' = FALSE
           ELSE UNCHANGED <<save, timer>>
    BY <1>4 DEF ReloadArrives
  <2>2. page' \in Row /\ pending' \in Pending /\ basis' \in Nat
    BY <1>2, <2>1, RowFields DEF Pending, NothingPending
  <2>3. IF HasText(pending') THEN r \in Retained /\ r.pending = pending' /\ r.basis = basis'
                                  /\ r.revision = page'.revision
        ELSE r = NoDraft
    BY <2>2, RecordIs
  <2>4. /\ JournalTyped' /\ JournalKeepsUp' /\ wanted' = r /\ stored' = stored
        /\ state' # "loading" /\ Records' \subseteq Records \cup {r}
    <3>1. r \in Retained \cup {NoDraft} /\ (r = NoDraft \/ HasText(r.pending))
      BY <2>3
    <3> HIDE DEF r
    <3> QED BY <1>2, <2>1, <3>1, JournalServes
  <2> HIDE DEF r
  <2>5. SaveIsOfPage' /\ save' \in Save \cup {Nothing}
    BY <2>1, <2>2, SaveBegins, NoSave
  <2>6. RowsAreSeen' /\ refresh' \in Fetch \cup {Nothing}
    <3>1. refresh \in Fetch \cup {Nothing}
      BY <1>2 DEF TypeOK
    <3>2. refresh' \in Fetch \cup {Nothing} /\ (refresh' # Nothing => Seen(refresh'.page, server))
      BY <2>1, <3>1, AgedIs DEF IInv, RowsAreSeen
    <3> QED BY <1>1, <1>2, <2>1, <3>2 DEF IInv, RowsAreSeen
  <2>7. TypeOK' /\ {basis, restarts}' \subseteq Nat
    BY <1>1, <1>2, <2>1, <2>2, <2>4, <2>5, <2>6 DEF IInv, TypeOK, JournalTyped
  <2>8. NothingUnlessOpen' /\ DraftIsWanted'
    BY <1>1, <2>3, <2>4, AbsentAssumption DEF NothingUnlessOpen, DraftIsWanted
  <2>9. BasisIsKnown'
    BY <1>1, <2>1, <2>3, <2>4 DEF IInv, BasisIsKnown, Records
  <2> QED BY <2>4, <2>5, <2>6, <2>7, <2>8, <2>9 DEF IInv
<1> QED BY <1>3, <1>4

\* The page of the decision cannot be fetched.
LEMMA ReloadFailsKeeps ==
  ASSUME IInv, ReloadFails
  PROVE  IInv'
<1>1. /\ reload # Nothing /\ reload' = Nothing /\ error' = TRUE
      /\ UNCHANGED <<server, window, page, pending, basis, save, conflict, recovered,
                     suspended, timer, refresh, verify, deletion, journal, restarts>>
  BY DEF ReloadFails, draft
<1>2. window = "open"
  BY <1>1 DEF IInv, NothingUnlessOpen
<1> QED BY <1>1, <1>2, DraftOutlives DEF IInv, TypeOK

\* An event contests a dirty page and has a clean one fetched.
LEMMA EventArrivesKeeps ==
  ASSUME IInv, EventArrives
  PROVE  IInv'
<1>1. UNCHANGED <<server, window, page, pending, basis, save, recovered, suspended, verify,
                  deletion, journal, restarts>>
  BY DEF EventArrives, RemoteChanged, flags, counters
<1>2. CASE Dirty
  <2>1. /\ conflict' = TRUE /\ error' = TRUE /\ timer' = FALSE
        /\ refresh' = Aged(refresh) /\ reload' = Aged(reload)
    BY <1>2 DEF EventArrives, RemoteChanged, NewVersion
  <2>2. window = "open"
    BY <1>2 DEF IInv, NothingUnlessOpen, Dirty, HasText, NothingPending
  <2> QED BY <1>1, <2>1, <2>2, DraftOutlives DEF IInv, TypeOK
<1>3. CASE ~Dirty
  <2>1. /\ refresh' \in {[page |-> server, newest |-> TRUE], Nothing}
        /\ reload' = Aged(reload) /\ UNCHANGED flags
    BY <1>3 DEF EventArrives
  <2>2. /\ TypeOK /\ server \in Row /\ reload \in Decision \cup {Nothing}
        /\ Seen(server, server) /\ [page |-> server, newest |-> TRUE] \in Fetch
    BY StoredIsSeen DEF IInv, TypeOK, Fetch
  <2>3. /\ reload' \in Decision \cup {Nothing} /\ (reload' = Nothing <=> reload = Nothing)
        /\ reload' # Nothing => Seen(reload'.page, server)
    BY <2>1, <2>2, AgedIs DEF IInv, RowsAreSeen
  <2>4. TypeOK' /\ {basis, restarts}' \subseteq Nat
    BY <1>1, <2>1, <2>2, <2>3 DEF IInv, TypeOK, journal, flags
  <2>5. RowsAreSeen'
    BY <1>1, <2>1, <2>2, <2>3 DEF IInv, RowsAreSeen
  <2>6. JournalKeepsUp' /\ Records' = Records /\ DraftIsWanted' /\ SaveIsOfPage'
    BY <1>1, JournalStays, DraftStays, SaveStays DEF IInv, journal
  <2>7. NothingUnlessOpen' /\ BasisIsKnown'
    BY <1>1, <2>1, <2>3, <2>6, BasisStays DEF IInv, NothingUnlessOpen, Dirty, flags, journal
  <2> QED BY <2>4, <2>5, <2>6, <2>7 DEF IInv
<1> QED BY <1>2, <1>3

-----------------------------------------------------------------------------
(* The rest of the world, the journal, and the window coming and going.     *)

\* The row moves on unnoticed: by other hands, or deleted.  No save of this
\* window is accepted under what it was.
LEMMA RowMovesKeeps ==
  ASSUME IInv, server' \in Row, \A r \in Row : Seen(r, server) => Seen(r, server'),
         UNCHANGED <<window, page, pending, basis, save, flags, inflight, journal, restarts>>,
         deletion' = deletion \/ (window = "open" /\ deletion' \in {"none", "sent", "done"})
  PROVE  IInv'
<1>1. TypeOK /\ RowsAreSeen'
  BY RowsAge DEF IInv
<1>2. TypeOK' /\ {basis, restarts}' \subseteq Nat
  BY <1>1 DEF IInv, TypeOK, journal, flags, inflight
<1>3. JournalKeepsUp' /\ Records' = Records /\ DraftIsWanted'
  BY JournalStays, DraftStays DEF IInv, journal
<1>4. SaveIsOfPage'
  <2>1. save # Nothing => save \in Save
    BY DEF IInv, TypeOK
  <2>2. Known' = Known
    BY DEF Known
  <2> QED BY <2>1, <2>2 DEF IInv, SaveIsOfPage, Save
<1>5. NothingUnlessOpen' /\ BasisIsKnown'
  BY <1>3, BasisStays DEF IInv, NothingUnlessOpen, Dirty, flags, inflight, journal
<1> QED BY <1>1, <1>2, <1>3, <1>4, <1>5 DEF IInv

\* Somebody else saves, moves or deletes the page, or an event is missed.
LEMMA ElsewhereKeeps ==
  ASSUME IInv, ChangedElsewhere \/ Deleted \/ EventMissed
  PROVE  IInv'
<1>1. /\ UNCHANGED <<window, page, pending, basis, save, flags, inflight, journal, restarts>>
      /\ server \in Row
  BY DEF ChangedElsewhere, Deleted, EventMissed, draft, counters, IInv, TypeOK
<1>2. /\ server' \in Row
      /\ \A r \in Row : Seen(r, server) => Seen(r, server')
  <2>1. CASE ChangedElsewhere
    <3>1. CASE \E f \in Field, v \in Texts : server' = Saved(server, f, v, 0)
      <4>1. PICK f \in Field, v \in Texts : server' = Saved(server, f, v, 0)
        BY <3>1
      <4> QED BY <1>1, <4>1, SavesMoveOn
    <3>2. CASE server' = Moved(server, server.at + 1)
      BY <1>1, <3>2, MovesMoveOn
    <3> QED BY <2>1, <3>1, <3>2 DEF ChangedElsewhere
  <2>2. CASE Deleted
    BY <1>1, <2>2, RemovedIsSeen DEF Deleted
  <2>3. CASE EventMissed
    BY <1>1, <2>3 DEF EventMissed
  <2> QED BY <2>1, <2>2, <2>3
<1>3. deletion' = deletion \/ (window = "open" /\ deletion' \in {"none", "sent", "done"})
  BY DEF ChangedElsewhere, Deleted, EventMissed, IInv, NothingUnlessOpen
<1> QED BY <1>1, <1>2, <1>3, RowMovesKeeps

\* The deletion of the page is asked for, or fails.
LEMMA DeletionKeeps ==
  ASSUME IInv, Delete \/ DeleteFails
  PROVE  IInv'
<1>1. /\ UNCHANGED <<server, window, page, pending, basis, save, conflict, recovered,
                     refresh, verify, reload, journal, restarts>>
      /\ suspended' \in BOOLEAN /\ {error', timer'} \subseteq {error, timer, TRUE, FALSE}
      /\ deletion' \in {"none", "sent", "done"}
  BY DEF Delete, DeleteFails, draft, inflight
<1>2. window = "open"
  BY DEF Delete, DeleteFails, IInv, NothingUnlessOpen
<1> QED BY <1>1, <1>2, DraftOutlives DEF IInv, TypeOK

\* The journal at work.
LEMMA JournalKeeps ==
  ASSUME IInv, JournalWorks \/ JournalFails
  PROVE  IInv'
<1>1. /\ UNCHANGED <<server, window, page, pending, basis, save, error, conflict, recovered,
                     suspended, timer, refresh, verify, reload, deletion, restarts>>
      /\ Journal!Land \/ Journal!Answer \/ Journal!Fail
      /\ UNCHANGED handed
  BY DEF JournalWorks, JournalFails, draft, flags, inflight, counters
<1>2. TypeOK /\ JournalTyped /\ JournalKeepsUp
  BY Typed DEF IInv
<1>3. /\ JournalTyped' /\ JournalKeepsUp' /\ wanted' = wanted /\ state = "writing"
      /\ state' \notin {"loading", "blocked"} /\ Records' \subseteq Records
  BY <1>1, <1>2, JournalRuns
<1>4. TypeOK' /\ {basis, restarts}' \subseteq Nat
  BY <1>1, <1>2, <1>3 DEF IInv, TypeOK, JournalTyped
<1>5. RowsAreSeen' /\ DraftIsWanted' /\ SaveIsOfPage'
  BY <1>1, <1>2, <1>3, RowsStay, DraftStays, SaveStays DEF IInv
<1>6. NothingUnlessOpen' /\ BasisIsKnown'
  BY <1>1, <1>3, BasisStays DEF IInv, NothingUnlessOpen, Dirty
<1> QED BY <1>3, <1>4, <1>5, <1>6 DEF IInv

\* A window is opened on the row as it is stored.
LEMMA OpenKeeps ==
  ASSUME IInv, Open
  PROVE  IInv'
<1>1. /\ window = "closed" /\ window' = "opening" /\ page' = server
      /\ UNCHANGED <<server, pending, basis, save, flags, inflight, deletion, journal, restarts>>
  BY DEF Open, counters
<1>2. /\ TypeOK /\ server \in Row /\ Seen(server, server) /\ save = Nothing
      /\ pending = NothingPending /\ ~Dirty /\ ~Dirty'
  BY <1>1, StoredIsSeen DEF IInv, TypeOK, NothingUnlessOpen, Dirty, HasText, NothingPending
<1>3. TypeOK' /\ {basis, restarts}' \subseteq Nat
  BY <1>1, <1>2 DEF IInv, TypeOK, journal, flags, inflight
<1>4. RowsAreSeen' /\ NothingUnlessOpen'
  BY <1>1, <1>2 DEF IInv, RowsAreSeen, NothingUnlessOpen, inflight, flags, journal
<1>5. JournalKeepsUp' /\ Records' = Records /\ DraftIsWanted' /\ SaveIsOfPage'
  BY <1>1, <1>2, JournalStays, NoSave DEF IInv, DraftIsWanted
<1>6. BasisIsKnown'
  BY <1>1, <1>2, <1>5 DEF IInv, BasisIsKnown, journal
<1> QED BY <1>3, <1>4, <1>5, <1>6 DEF IInv

\* The record is read: a draft that comes back on another page is contested.
LEMMA OpenedKeeps ==
  ASSUME IInv, Opened
  PROVE  IInv'
<1>1. /\ window = "opening" /\ window' = "open" /\ Journal!Open
      /\ UNCHANGED <<server, page, save, suspended, timer, refresh, verify, reload, deletion,
                     handed, restarts>>
  BY DEF Opened, inflight, counters
<1>2. /\ TypeOK /\ JournalTyped /\ JournalKeepsUp /\ save = Nothing
      /\ pending = NothingPending /\ ~HasText(pending) /\ pending \in Pending
  BY <1>1, Typed DEF IInv, TypeOK, NothingUnlessOpen, HasText, NothingPending
<1>3. /\ JournalTyped' /\ JournalKeepsUp' /\ state' \in {"durable", "blocked"}
      /\ UNCHANGED <<wanted, stored, underway>> /\ wanted = stored
  BY <1>1, <1>2, JournalOpens
<1>4. CASE state' = "durable" /\ stored # NoDraft
  <2>1. /\ pending' = stored.pending /\ basis' = stored.basis
        /\ error' = TRUE /\ recovered' = TRUE /\ conflict' = BaseChanged(stored)
        /\ conflict' \in BOOLEAN
    BY <1>4 DEF Opened, BaseChanged
  <2>2. /\ stored \in Retained /\ stored \in Records /\ HasText(stored.pending)
        /\ pending' \in Pending /\ basis' \in Nat
    BY <1>2, <1>4, <2>1, AbsentAssumption DEF JournalTyped, JournalKeepsUp, Records, Retained
  <2>3. TypeOK' /\ {basis, restarts}' \subseteq Nat
    BY <1>1, <1>2, <1>3, <2>1, <2>2 DEF IInv, TypeOK, JournalTyped
  <2>4. RowsAreSeen' /\ SaveIsOfPage'
    BY <1>1, <1>2, RowsStay, NoSave DEF IInv
  <2>5. NothingUnlessOpen' /\ DraftIsWanted'
    BY <1>1, <1>3, <1>4, <2>1, <2>2 DEF NothingUnlessOpen, DraftIsWanted
  <2>6. BasisIsKnown'
    <3>1. restarts # 0 /\ restarts \in Nat
      BY <1>1, <1>4 DEF IInv, BasisIsKnown
    <3>2. restarts = 1 => stored.basis = stored.revision
      BY <1>1, <2>2 DEF IInv, BasisIsKnown
    <3>3. restarts = 1 /\ ~conflict' => basis' = page'.revision
      BY <1>1, <2>1, <3>2 DEF BaseChanged
    <3> QED BY <1>1, <3>1, <3>3 DEF BasisIsKnown
  <2> QED BY <1>3, <2>3, <2>4, <2>5, <2>6 DEF IInv
<1>5. CASE ~(state' = "durable" /\ stored # NoDraft)
  <2>1. UNCHANGED <<pending, basis, error, recovered, conflict>>
    BY <1>5 DEF Opened
  <2>2. ~Dirty' /\ Records' = Records
    BY <1>1, <1>2, <1>3, <2>1 DEF Dirty, Records
  <2>3. TypeOK' /\ {basis, restarts}' \subseteq Nat
    BY <1>1, <1>2, <1>3, <2>1 DEF IInv, TypeOK, JournalTyped
  <2>4. RowsAreSeen' /\ SaveIsOfPage'
    BY <1>1, <1>2, RowsStay, NoSave DEF IInv
  <2>5. NothingUnlessOpen' /\ DraftIsWanted'
    BY <1>1, <1>2, <1>3, <1>5, <2>1 DEF NothingUnlessOpen, DraftIsWanted
  <2>6. BasisIsKnown'
    BY <1>1, <1>3, <2>2 DEF IInv, BasisIsKnown
  <2> QED BY <1>3, <2>3, <2>4, <2>5, <2>6 DEF IInv
<1> QED BY <1>4, <1>5

\* A save that was sent may land after its window is gone.
LEMMA RestartKeeps ==
  ASSUME IInv, Restart
  PROVE  IInv'
<1>1. /\ restarts' = restarts + 1 /\ window' = "closed" /\ page' = page
      /\ pending' = NothingPending /\ save' = Nothing
      /\ error' = FALSE /\ conflict' = FALSE /\ recovered' = FALSE
      /\ suspended' = FALSE /\ timer' = FALSE
      /\ refresh' = Nothing /\ verify' = Nothing /\ reload' = Nothing
      /\ deletion' = "none" /\ basis' = 0 /\ Journal!Restart
      /\ handed' = FALSE
  BY DEF Restart
<1>2. TypeOK /\ JournalTyped /\ JournalKeepsUp /\ server \in Row /\ page \in Row
      /\ save \in Save \cup {Nothing} /\ restarts \in Nat
  BY Typed DEF IInv, TypeOK
<1>3. /\ JournalTyped' /\ JournalKeepsUp' /\ state' = "loading" /\ Records' \subseteq Records
  BY <1>1, <1>2, JournalRestarts
<1>4. server' \in Row /\ Seen(page, server')
  <2>1. CASE server' = server
    BY <1>2, <2>1 DEF IInv, RowsAreSeen
  <2>2. CASE save # Nothing /\ server' = Saved(server, save.field, save.value, 0)
    BY <1>2, <2>2, SavesMoveOn DEF IInv, RowsAreSeen, Save
  <2> QED BY <2>1, <2>2 DEF Restart
<1>5. pending' \in Pending /\ ~Dirty'
      /\ {error', conflict', recovered', suspended', timer'} \subseteq BOOLEAN
  BY <1>1 DEF Pending, NothingPending, Dirty, HasText
<1>6. TypeOK' /\ {basis, restarts}' \subseteq Nat
  BY <1>1, <1>2, <1>3, <1>4, <1>5 DEF TypeOK, JournalTyped
<1>7. RowsAreSeen' /\ SaveIsOfPage' /\ NothingUnlessOpen' /\ DraftIsWanted'
  BY <1>1, <1>3, <1>4, NoSave DEF RowsAreSeen, NothingUnlessOpen, DraftIsWanted, flags
<1>8. BasisIsKnown'
  <2>1. restarts = 0 => \A r \in Records' : r.basis = r.revision
    BY <1>3 DEF IInv, BasisIsKnown
  <2> QED BY <1>1, <1>2, <1>5, <2>1 DEF BasisIsKnown
<1> QED BY <1>3, <1>6, <1>7, <1>8 DEF IInv

-----------------------------------------------------------------------------
(* The theorems.                                                            *)

\* It holds of a closed window with an empty journal.
LEMMA InitKeeps == Init => IInv
<1> SUFFICES ASSUME Init PROVE IInv
  OBVIOUS
<1>1. PICK text \in Texts : server = NewRow([f \in Field |-> text], 1)
  BY DEF Init
<1>2. server \in Row /\ page = server /\ Seen(page, server)
  <2>1. server \in Row
    BY <1>1 DEF NewRow, Row
  <2> QED BY <2>1, StoredIsSeen DEF Init
<1>3. /\ pending \in Pending /\ ~Dirty
  BY DEF Init, Untouched, Pending, NothingPending, Dirty, HasText
<1>4. TypeOK /\ {basis, restarts} \subseteq Nat
  <2>1. /\ basis = 0 /\ restarts = 0 /\ window = "closed" /\ save = Nothing
        /\ wanted = NoDraft /\ stored = NoDraft /\ underway = Nothing /\ state = "loading"
        /\ handed = FALSE
    BY DEF Init, Untouched
  <2>2. /\ {error, conflict, recovered, suspended, timer} \subseteq BOOLEAN
        /\ refresh = Nothing /\ verify = Nothing /\ reload = Nothing /\ deletion = "none"
    BY DEF Init, Untouched
  <2>3. handed \in BOOLEAN
    BY <2>1
  <2> QED BY <1>2, <1>3, <2>1, <2>2, <2>3 DEF TypeOK, Journal!State
<1>5. RowsAreSeen /\ NothingUnlessOpen /\ JournalKeepsUp /\ DraftIsWanted
  BY <1>2 DEF Init, Untouched, RowsAreSeen, NothingUnlessOpen, flags, JournalKeepsUp,
         Records, DraftIsWanted
<1>6. SaveIsOfPage /\ BasisIsKnown
  BY <1>3 DEF Init, Untouched, SaveIsOfPage, BasisIsKnown, Records
<1> QED BY <1>4, <1>5, <1>6 DEF IInv

\* Every step keeps it.
LEMMA StepKeeps == IInv /\ [Next]_vars => IInv'
<1> SUFFICES ASSUME IInv, [Next]_vars PROVE IInv'
  OBVIOUS
<1>1. CASE UNCHANGED vars
  <2>1. UNCHANGED <<window, page, pending, basis, save, flags, inflight, journal, restarts,
                    server, deletion>>
    BY <1>1 DEF vars, draft, counters
  <2>2. server \in Row
    BY DEF IInv, TypeOK
  <2> QED BY <2>1, <2>2, RowMovesKeeps
<1>2. CASE \E f \in Field, v \in Texts : Edit(f, v)
  BY <1>2, EditKeeps
<1>3. CASE TimerFires \/ FinishTitle \/ Retry \/ \E keep \in BOOLEAN : Reload(keep)
  BY <1>3, FlushKeeps, RetryKeeps, ReloadKeeps DEF TimerFires, FinishTitle
<1>4. CASE Send \/ NotRetained \/ Execute \/ Acknowledge \/ Refused \/ Unanswered
  BY <1>4, SendKeeps, SaveFailsKeeps, ExecuteKeeps, AcknowledgeKeeps
<1>5. CASE \/ Visit \/ Reconnect \/ RefreshArrives \/ VerifyArrives
           \/ ReloadArrives \/ ReloadFails \/ EventArrives
  BY <1>5, FetchKeeps, RefreshArrivesKeeps, VerifyArrivesKeeps, ReloadArrivesKeeps,
     ReloadFailsKeeps, EventArrivesKeeps
<1>6. CASE \/ EventMissed \/ ChangedElsewhere \/ Delete \/ Deleted \/ DeleteFails
           \/ JournalWorks \/ JournalFails
  BY <1>6, ElsewhereKeeps, DeletionKeeps, JournalKeeps
<1>7. CASE Open \/ Opened \/ Restart
  BY <1>7, OpenKeeps, OpenedKeeps, RestartKeeps
<1> QED BY <1>1, <1>2, <1>3, <1>4, <1>5, <1>6, <1>7 DEF Next

\* What the drafts, the rows in flight and the journal owe one another holds
\* throughout, for any texts, edits, failures, deletions and restarts.
THEOREM DraftInvariant == Spec => []IInv
  BY InitKeeps, StepKeeps, PTL DEF Spec

\* Every variable keeps its type.
THEOREM DraftsTyped == Spec => []TypeOK
<1>1. IInv => TypeOK
  BY DEF IInv
<1> QED BY <1>1, DraftInvariant, PTL

\* A window that lets itself be closed without a question loses nothing: what
\* is pending is on disk as it is shown.  Without anything pending the disk has
\* no draft either, unless its removal has failed, or it cannot be read.
THEOREM ClosingKeepsTheDraft == Spec => []SafeToCloseKeepsDraft
<1>1. IInv => SafeToCloseKeepsDraft
  <2> SUFFICES ASSUME IInv, window = "open", SafeToClose
               PROVE  IF HasText(pending) THEN stored # NoDraft /\ stored.pending = pending
                      ELSE stored = NoDraft \/ state \in {"error", "blocked"}
    BY DEF SafeToCloseKeepsDraft
  <2>1. CASE HasText(pending)
    <3>1. state = "durable"
      BY <2>1 DEF SafeToClose, Dirty
    <3> QED BY <2>1, <3>1 DEF IInv, JournalKeepsUp, DraftIsWanted
  <2>2. CASE ~HasText(pending)
    <3>1. state \in Journal!State \ {"loading", "writing"}
      BY DEF IInv, TypeOK, NothingUnlessOpen, SafeToClose
    <3>2. CASE state = "durable"
      BY <2>2, <3>2 DEF IInv, JournalKeepsUp, DraftIsWanted
    <3> QED BY <2>2, <3>1, <3>2 DEF Journal!State
  <2> QED BY <2>1, <2>2
<1> QED BY <1>1, DraftInvariant, PTL

\* What the window takes for the page is the page, whatever raced.
THEOREM WindowKnowsThePage == Spec => []KnownPageIsTrue
<1>1. IInv => KnownPageIsTrue
  BY DEF IInv, RowsAreSeen, Seen, KnownPageIsTrue
<1> QED BY <1>1, DraftInvariant, PTL

\* No save replaces a revision its author was not shown, as long as the window
\* was restarted at most once; a second restart forgets a conflict (the finding
\* of ChangedBaselineNeedsDecision), and the claim is false after it.
THEOREM NothingReplacedUnseen == Spec => [](restarts <= 1 => NoLostUpdate)
<1>1. IInv => (restarts <= 1 => NoLostUpdate)
  <2> SUFFICES ASSUME IInv, restarts <= 1 PROVE NoLostUpdate
    OBVIOUS
  <2>1. KnownPageIsTrue
    BY DEF IInv, RowsAreSeen, Seen, KnownPageIsTrue
  <2>2. ASSUME save # Nothing, save.step = "sent", Accepts(server, save.token)
        PROVE  save.basis = server.revision
    <3>1. save.basis = page.revision /\ page.at = server.at
      BY <2>2 DEF IInv, SaveIsOfPage, Accepts
    <3> QED BY <3>1 DEF IInv, RowsAreSeen, Seen
  <2> QED BY <2>1, <2>2 DEF NoLostUpdate
<1> QED BY <1>1, DraftInvariant, PTL

\* A text once typed stays on the screen until it is typed over or discarded,
\* whichever answers, fetches and events arrive.
THEOREM TypingIsKept == Spec => TypedTextStays
<1> DEFINE Stays ==
       \A f \in Field :
         \/ pending[f] = NoText
         \/ Shown(f)' = pending[f]
         \/ \E v \in Texts : Edit(f, v)
         \/ reload # Nothing /\ ~reload.keep /\ ReloadArrives
         \/ Restart
<1>1. ASSUME IInv, [Next]_vars PROVE [Stays]_vars
  <2> SUFFICES ASSUME NEW f \in Field, Next, pending[f] # NoText,
                      ~(\E v \in Texts : Edit(f, v)), ~Restart,
                      ~(reload # Nothing /\ ~reload.keep /\ ReloadArrives)
               PROVE  Shown(f)' = pending[f]
    BY <1>1
  <2>1. pending'[f] = pending[f] => Shown(f)' = pending[f]
    BY DEF Shown
  <2>2. ASSUME UNCHANGED pending PROVE Shown(f)' = pending[f]
    BY <2>1, <2>2
  <2>3. ASSUME NEW g \in Field, NEW v \in Texts, Edit(g, v) PROVE Shown(f)' = pending[f]
    <3>1. g # f /\ pending \in Pending
      BY <2>3, <1>1 DEF IInv, TypeOK
    <3>2. pending'[f] = pending[f]
      BY <2>3, <3>1 DEF Edit, Pending
    <3> QED BY <3>2, <2>1
  <2>4. CASE Acknowledge
    <3>1. /\ save \in Save /\ save.step = "landed" /\ Known = save.answer
          /\ save.newest => pending[save.field] = save.value
          /\ pending \in Pending /\ save.answer.text[save.field] = save.value
      BY <1>1, <2>4, AbsentAssumption DEF IInv, TypeOK, SaveIsOfPage, Acknowledge, Save
    <3>2. CASE suspended
      BY <2>2, <2>4, <3>2 DEF Acknowledge, draft
    <3>3. CASE ~suspended /\ (f # save.field \/ ~save.newest)
      <4>1. pending'[f] = pending[f]
        BY <2>4, <3>1, <3>3 DEF Acknowledge, Settled, Pending
      <4> QED BY <4>1, <2>1
    <3>4. CASE ~suspended /\ f = save.field /\ save.newest
      <4>1. pending'[f] = NoText /\ page' = Known
        BY <2>4, <3>1, <3>4 DEF Acknowledge, Settled, Pending
      <4> QED BY <3>1, <3>4, <4>1 DEF Shown
    <3> QED BY <3>2, <3>3, <3>4
  <2>5. CASE ReloadArrives
    <3>1. pending' = pending
      BY <2>5 DEF ReloadArrives, draft
    <3> QED BY <3>1, <2>2
  <2>6. CASE Opened
    <3>1. pending = NothingPending
      BY <1>1, <2>6 DEF IInv, NothingUnlessOpen, Opened
    <3> QED BY <3>1 DEF NothingPending
  <2>7. CASE \/ TimerFires \/ FinishTitle \/ Retry \/ \E keep \in BOOLEAN : Reload(keep)
             \/ Send \/ NotRetained \/ Execute \/ Refused \/ Unanswered
    BY <2>2, <2>7 DEF TimerFires, FinishTitle, Flush, Retry, Reload, Send, NotRetained,
       Execute, Refused, Unanswered, draft
  <2>8. CASE \/ Visit \/ Reconnect \/ RefreshArrives \/ VerifyArrives \/ ReloadFails
             \/ EventArrives \/ EventMissed \/ ChangedElsewhere
    BY <2>2, <2>8 DEF Visit, Reconnect, RefreshArrives, VerifyArrives, ReloadFails,
       EventArrives, EventMissed, ChangedElsewhere, draft
  <2>9. CASE \/ Delete \/ Deleted \/ DeleteFails \/ JournalWorks \/ JournalFails \/ Open
    BY <2>2, <2>9 DEF Delete, Deleted, DeleteFails, JournalWorks, JournalFails, Open, draft
  <2> QED BY <2>3, <2>4, <2>5, <2>6, <2>7, <2>8, <2>9 DEF Next
<1> QED BY <1>1, DraftInvariant, PTL DEF Spec, TypedTextStays

-----------------------------------------------------------------------------
(* The tokens that saves are made under, in PageStore: windows, agents and  *)
(* scripts that read a page and save it, while its clock runs.  A client's  *)
(* copy is never ahead of the row, and one whose token is the row's has its *)
(* revision.                                                                *)

Tokens ==
    \A c \in Clients : copy[c] # Nothing =>
        /\ copy[c].at <= row.at
        /\ copy[c].at = row.at => copy[c].revision = row.revision

StoreInv == Store!TypeOK /\ Tokens

\* The later of two times.
LEMMA LaterType ==
  ASSUME NEW m \in Nat, NEW n \in Nat
  PROVE  Store!Later(m, n) \in Nat /\ m <= Store!Later(m, n)
  BY DEF Store!Later

\* A save is later than the row it replaces.
LEMMA SavedIsRow ==
  ASSUME NEW r \in Store!Row, NEW f \in Field, NEW v \in Texts, NEW t \in Nat
  PROVE  /\ Store!Saved(r, f, v, t) \in Store!Row
         /\ Store!Saved(r, f, v, t).at \in Nat /\ r.at < Store!Saved(r, f, v, t).at
         /\ Store!Saved(r, f, v, t).live = r.live
<1>1. /\ r.at \in Nat /\ r.revision \in Nat /\ r.live \in BOOLEAN
      /\ r.text \in [Field -> Texts]
  BY DEF Store!Row
<1>2. Store!SavedAt(r, t) \in Nat /\ r.at < Store!SavedAt(r, t)
  <2>1. r.at + 1 \in Nat /\ r.at < r.at + 1
    BY <1>1
  <2>2. Store!Later(r.at + 1, t) \in Nat /\ r.at + 1 <= Store!Later(r.at + 1, t)
    BY <2>1, LaterType
  <2> QED BY <2>1, <2>2, <1>1 DEF Store!SavedAt
<1>3. [r.text EXCEPT ![f] = v] \in [Field -> Texts]
  BY <1>1
<1> QED BY <1>1, <1>2, <1>3 DEF Store!Saved, Store!Row

\* A move and a restore take the time of the clock.
LEMMA MovedIsRow ==
  ASSUME NEW r \in Store!Row, NEW t \in Nat
  PROVE  /\ Store!Moved(r, t) \in Store!Row /\ Store!Moved(r, t).at = t
         /\ Store!Restored(r, t) \in Store!Row /\ Store!Restored(r, t).at = t
         /\ Store!Removed(r) \in Store!Row /\ Store!Removed(r).at = r.at
         /\ Store!Removed(r).revision = r.revision
  BY DEF Store!Moved, Store!Restored, Store!Removed, Store!Row

\* What a client holds is a live row.
LEMMA CopyFacts ==
  ASSUME Store!TypeOK, NEW c \in Clients, copy[c] # Nothing
  PROVE  copy[c] \in Store!Row /\ copy[c].at \in Nat /\ copy[c].live
  BY DEF Store!TypeOK, Store!Row

\* Nobody holds a page at first.
LEMMA StoreInit == Store!Init => StoreInv
<1> SUFFICES ASSUME Store!Init PROVE StoreInv
  OBVIOUS
<1>1. row \in Store!Row
  BY DEF Store!Init, Store!NewRow, Store!Row
<1>2. \A c \in Clients : copy[c] = Nothing
  BY DEF Store!Init
<1> QED BY <1>1, <1>2 DEF Store!Init, StoreInv, Store!TypeOK, Tokens

\* A client that reads, or is answered, holds the row as it is.
LEMMA Refreshed ==
  ASSUME StoreInv, NEW r \in Store!Row, NEW d \in Clients, NEW x \in Store!Row \cup {Nothing},
         x \in {r, Nothing}, x # Nothing => x.live,
         row' = r, row.at <= r.at,
         row.at = r.at => r.revision = row.revision,
         now' \in Nat, copy' = [copy EXCEPT ![d] = x]
  PROVE  StoreInv'
<1>1. copy' \in [Clients -> Store!Row \cup {Nothing}]
  BY DEF StoreInv, Store!TypeOK
<1>2. ASSUME NEW c \in Clients, copy'[c] # Nothing
      PROVE  copy'[c].live /\ copy'[c].at <= r.at
             /\ (copy'[c].at = r.at => copy'[c].revision = r.revision)
  <2>0. r.at \in Nat /\ row.at \in Nat
    BY DEF StoreInv, Store!TypeOK, Store!Row
  <2>1. CASE c = d
    <3>1. copy'[c] = x
      BY <2>1 DEF StoreInv, Store!TypeOK
    <3>2. x = r /\ x.live
      BY <3>1, <1>2
    <3> QED BY <3>1, <3>2, <2>0
  <2>2. CASE c # d
    <3>1. copy'[c] = copy[c]
      BY <2>2 DEF StoreInv, Store!TypeOK
    <3>2. copy[c].at \in Nat /\ copy[c].live
      BY <3>1, <1>2, CopyFacts DEF StoreInv
    <3>3. copy[c].at <= row.at /\ (copy[c].at = row.at => copy[c].revision = row.revision)
      BY <3>1, <1>2 DEF StoreInv, Tokens
    <3> QED BY <3>1, <3>2, <3>3, <2>0
  <2> QED BY <2>1, <2>2
<1> QED BY <1>1, <1>2 DEF StoreInv, Store!TypeOK, Tokens

\* The row changes and nobody is told; its token does not come back.
LEMMA Untold ==
  ASSUME StoreInv, NEW r \in Store!Row, row' = r, row.at <= r.at,
         row.at = r.at => r.revision = row.revision,
         now' \in Nat, copy' = copy
  PROVE  StoreInv'
<1>1. r.at \in Nat /\ row.at \in Nat
  BY DEF StoreInv, Store!TypeOK, Store!Row
<1>2. ASSUME NEW c \in Clients, copy[c] # Nothing
      PROVE  copy[c].at <= r.at /\ (copy[c].at = r.at => copy[c].revision = r.revision)
  <2>1. copy[c].at \in Nat
    BY <1>2, CopyFacts DEF StoreInv
  <2>2. copy[c].at <= row.at /\ (copy[c].at = row.at => copy[c].revision = row.revision)
    BY <1>2 DEF StoreInv, Tokens
  <2> QED BY <2>1, <2>2, <1>1
<1> QED BY <1>2 DEF StoreInv, Store!TypeOK, Tokens

\* Every step keeps it if a move or restore comes later than the token.
LEMMA StoreStep ==
  ASSUME StoreInv, [Store!Next]_Store!vars,
         [Store!Move \/ Store!Restore => row.at < now]_Store!vars
  PROVE  StoreInv'
<1>0. row \in Store!Row /\ now \in Nat /\ row.at \in Nat
  BY DEF StoreInv, Store!TypeOK, Store!Row
<1>1. CASE Store!Tick
  <2>1. now' \in Nat /\ row' = row /\ copy' = copy
    BY <1>1, <1>0 DEF Store!Tick
  <2> QED BY <2>1, <1>0, Untold
<1>2. CASE Store!Move
  <2>1. Store!Moved(row, now) \in Store!Row /\ Store!Moved(row, now).at = now
    BY <1>0, MovedIsRow
  <2>2. row' = Store!Moved(row, now) /\ now' = now /\ copy' = copy
    BY <1>2 DEF Store!Move
  <2>3. CASE row.at < now
    BY <2>1, <2>2, <2>3, <1>0, Untold
  <2>4. CASE UNCHANGED Store!vars
    BY <2>4, <1>0, Untold DEF Store!vars
  <2> QED BY <2>3, <2>4, <1>2
<1>3. CASE Store!Delete
  <2>1. /\ Store!Removed(row) \in Store!Row /\ Store!Removed(row).at = row.at
        /\ Store!Removed(row).revision = row.revision
    BY <1>0, MovedIsRow
  <2>2. row' = Store!Removed(row) /\ now' = now /\ copy' = copy
    BY <1>3 DEF Store!Delete
  <2> QED BY <2>1, <2>2, <1>0, Untold
<1>4. CASE Store!Restore
  <2>1. Store!Restored(row, now) \in Store!Row /\ Store!Restored(row, now).at = now
    BY <1>0, MovedIsRow
  <2>2. row' = Store!Restored(row, now) /\ now' = now /\ copy' = copy
    BY <1>4 DEF Store!Restore
  <2>3. CASE row.at < now
    BY <2>1, <2>2, <2>3, <1>0, Untold
  <2>4. CASE UNCHANGED Store!vars
    BY <2>4, <1>0, Untold DEF Store!vars
  <2> QED BY <2>3, <2>4, <1>4
<1>5. ASSUME NEW c \in Clients, Store!Read(c) PROVE StoreInv'
  <2>1. row' = row /\ now' = now /\ copy' = [copy EXCEPT ![c] = row] /\ row.live
    BY <1>5 DEF Store!Read
  <2>2. /\ row \in Store!Row \cup {Nothing} /\ row \in {row, Nothing}
        /\ row # Nothing => row.live
        /\ row.at <= row.at /\ (row.at = row.at => row.revision = row.revision)
        /\ now' \in Nat
    BY <2>1, <1>0
  <2> QED BY ONLY StoreInv, <2>1, <2>2, <1>0, Refreshed
<1>6. ASSUME NEW c \in Clients, Store!Refused(c) PROVE StoreInv'
  <2> DEFINE x == IF row.live THEN row ELSE Nothing
  <2>1. row' = row /\ now' = now /\ copy' = [copy EXCEPT ![c] = x]
    BY <1>6 DEF Store!Refused
  <2>2. x \in {row, Nothing} /\ (x # Nothing => x.live)
    OBVIOUS
  <2>3. /\ x \in Store!Row \cup {Nothing} /\ now' \in Nat
        /\ row.at <= row.at /\ (row.at = row.at => row.revision = row.revision)
    BY <2>1, <1>0
  <2> HIDE DEF x
  <2> QED BY ONLY StoreInv, <2>1, <2>2, <2>3, <1>0, Refreshed
<1>7. ASSUME NEW c \in Clients, NEW f \in Field, NEW v \in Texts, Store!Save(c, f, v)
      PROVE  StoreInv'
  <2> DEFINE r == Store!Saved(row, f, v, now)
  <2>1. r \in Store!Row /\ r.at \in Nat /\ row.at < r.at /\ r.live = row.live
    BY <1>0, SavedIsRow
  <2>2. row' = r /\ now' = now /\ copy' = [copy EXCEPT ![c] = r] /\ row.live
    BY <1>7 DEF Store!Save, Store!Accepts
  <2> HIDE DEF r
  <2>3. row.at <= r.at /\ row.at # r.at
    BY <2>1, <1>0
  <2> QED BY <2>1, <2>2, <2>3, <1>0, Refreshed
<1>8. CASE UNCHANGED Store!vars
  BY <1>8, <1>0, Untold DEF Store!vars
<1> QED BY <1>1, <1>2, <1>3, <1>4, <1>5, <1>6, <1>7, <1>8 DEF Store!Next

\* A guarded save is accepted only on the revision its author saw, for any
\* number of clients, fields and saves, however the clock stands, as long as
\* no page is moved or restored in a millisecond that its updated_at is not
\* behind.
THEOREM TokensNameRevisions ==
  Store!Spec /\ Store!MovesComeLater => [](Store!TypeOK /\ Store!TokenNamesOneRevision)
<1>1. StoreInv => Store!TypeOK /\ Store!TokenNamesOneRevision
  BY DEF StoreInv, Tokens, Store!TokenNamesOneRevision, Store!Accepts
<1>2. /\ StoreInv /\ [Store!Next]_Store!vars
      /\ [Store!Move \/ Store!Restore => row.at < now]_Store!vars
      => StoreInv'
  BY StoreStep
<1> QED BY StoreInit, <1>1, <1>2, PTL DEF Store!Spec, Store!MovesComeLater
=============================================================================
