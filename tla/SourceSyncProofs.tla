-------------------------- MODULE SourceSyncProofs --------------------------
(***************************************************************************)
(* Proofs about SourceSync, for any number of documents, synchronisations, *)
(* editors, mappings and deaths: types; no document is skipped, however    *)
(* the synchronisations overlap and whatever is saved over their cursor;   *)
(* one synchronisation at a time, when leases outlive the synchronisations *)
(* and no form is saved.                                                   *)
(***************************************************************************)
EXTENDS SourceSync, InvoicesProofs, TLAPS

-----------------------------------------------------------------------------
(* The inductive invariants.                                               *)

\* The cursor column, when every mapping that is saved keeps to it.
Place == Position[CHOOSE m \in Mappings : TRUE]

\* What the cursor needs of the other system and of the mappings: the column
\* is always the same one, no two documents share a value of it, and
\* documents become visible in its order.
SoundColumn ==
  /\ \A m \in Mappings : Position[m] = Place
  /\ \A d, e \in Docs : Place[d] = Place[e] => d = e
  /\ InOrder

Visible(d) == origin[d] # NoVersion

\* Wherever it is kept, a cursor is the place of a document that was seen, and
\* every document up to it was dealt with.
SafeCursor(c) ==
  /\ c = 0 \/ \E e \in Docs : Visible(e) /\ Place[e] = c
  /\ \A d \in Docs : Visible(d) /\ Place[d] <= c => Handled(d)

SafeCursors ==
  /\ SafeCursor(sync_cursor)
  /\ \A s \in Syncers : SafeCursor(source[s].sync_cursor)
  /\ \A e \in Editors : \A row \in form[e] : SafeCursor(row.sync_cursor)

\* What is left of a batch has no gap: a document at or before one that is
\* left was dealt with or is left as well.
NoGap(s) ==
  \A d \in Left(s) :
    /\ Visible(d)
    /\ \A e \in Docs :
         Visible(e) /\ Place[e] <= Place[d] => Handled(e) \/ e \in Left(s)

\* The document in hand is the first of those left, and was dealt with when
\* the cursor is about to be written.
InHand(s) ==
  /\ pc[s] \in {"lines", "handled"} =>
       \A d \in current[s] : /\ d \in Left(s)
                             /\ \A e \in Left(s) : Place[d] <= Place[e]
                             /\ pc[s] = "handled" => Handled(d)
  /\ pc[s] = "lines" => payload[s] \in Versions

\* A row that does not exist has no content.
AbsentRowsEmpty ==
  \A d \in Docs : invoice[d].status = "ABSENT" => invoice[d].version = NoVersion

CursorInv ==
  /\ TypeOK
  /\ AbsentRowsEmpty
  /\ SafeCursors
  /\ \A s \in Syncers : NoGap(s) /\ InHand(s)

\* Whoever is synchronising, the lock is taken and its lease has not ended.
LockInv ==
  /\ TypeOK
  /\ OneSyncAtATime
  /\ \A s \in Syncers : Syncing(s) => lock = "future"

-----------------------------------------------------------------------------
(* Type correctness.                                                       *)

\* The place of a document in a mapping is a cursor.
LEMMA PlaceType ==
  ASSUME NEW m \in Mappings, NEW d \in Docs
  PROVE  Position[m][d] \in Cursor /\ Position[m][d] \in Nat /\ Position[m][d] > 0
  BY SyncAssumption DEF Cursor

\* What the other system holds is a content.
LEMMA SourceVersionsAreContent ==
  /\ SourceVersions \cup {NoVersion} \subseteq Content
  /\ NoVersion \notin SourceVersions
  /\ Mixed \in Content
  BY SyncAssumption, VersionsAssumption DEF Content

\* What a process outside sync_source remembers is a copy of a row.
LEMMA BlankType == Blank \in Copy
  BY SyncAssumption DEF Blank, Copy, Cursor

\* A process that leaves sync_source leaves its memory in its type.
LEMMA ForgetType ==
  ASSUME TypeOK, NEW s \in Syncers, Forget(s)
  PROVE  /\ pc'      \in [Syncers -> SyncPC]
         /\ source'  \in [Syncers -> Copy]
         /\ batch'   \in [Syncers -> [Docs -> SourceVersions \cup {NoVersion}]]
         /\ current' \in [Syncers -> SUBSET Docs]
         /\ payload' \in [Syncers -> Content]
<1>1. Nothing \in [Docs -> SourceVersions \cup {NoVersion}]
  BY DEF Nothing
<1>2. NoVersion \in Content
  BY DEF Content
<1>3. QED
  BY <1>1, <1>2, BlankType DEF Forget, Goto, TypeOK, SyncPC

\* The steps of a synchronisation keep every variable in its type.
LEMMA SyncType ==
  ASSUME TypeOK, NEW s \in Syncers, Load(s) \/ SyncStep(s)
  PROVE  TypeOK'
<1> USE DEF TypeOK, other, gateway, datasource, Goto
<1>1. CASE Load(s)
  BY <1>1 DEF Load, SyncPC, Copy
<1>2. CASE Acquire(s)
  BY <1>2 DEF Acquire, SyncPC, Lock
<1>3. CASE Refused(s)
  BY <1>3, ForgetType DEF Refused
<1>4. CASE Fetch(s)
  <2>1. PICK B \in SUBSET NewRows(s) :
          batch' = [batch EXCEPT ![s] =
                      [d \in Docs |-> IF d \in B THEN origin[d] ELSE NoVersion]]
    BY <1>4 DEF Fetch
  <2>2. [d \in Docs |-> IF d \in B THEN origin[d] ELSE NoVersion]
          \in [Docs -> SourceVersions \cup {NoVersion}]
    OBVIOUS
  <2>3. batch' \in [Syncers -> [Docs -> SourceVersions \cup {NoVersion}]]
    BY <2>1, <2>2
  <2>4. QED
    BY <1>4, <2>3 DEF Fetch, SyncPC
<1>5. ASSUME NEW d \in Docs, ReadLines(s, d)
      PROVE  TypeOK'
  <2>1. (IF origin[d] = batch[s][d] THEN origin[d] ELSE Mixed) \in Content
    BY SourceVersionsAreContent
  <2>2. payload' \in [Syncers -> Content]
    BY <1>5, <2>1 DEF ReadLines
  <2>3. QED
    BY <1>5, <2>2 DEF ReadLines, SyncPC
<1>6. ASSUME NEW d \in Docs, Import(s, d)
      PROVE  TypeOK'
  <2>1. invoice' \in [Docs -> Invoice]
    <3>1. CASE invoice' = invoice
      BY <3>1
    <3>2. CASE invoice' = [invoice EXCEPT ![d] = Saved(@, payload[s])]
      <4>1. CASE payload[s] \in Versions
        BY <3>2, <4>1, SavedFacts
      <4>2. CASE payload[s] \notin Versions
        BY <3>2, <4>2, VersionsAssumption, SavedNothingType DEF Content
      <4>3. QED
        BY <4>1, <4>2
    <3>3. QED
      BY <1>6, <3>1, <3>2 DEF Import
  <2>2. reported' \in SUBSET Docs
    BY <1>6 DEF Import
  <2>3. QED
    BY <1>6, <2>1, <2>2 DEF Import, SyncPC
<1>7. ASSUME NEW d \in Docs, Advance(s, d)
      PROVE  TypeOK'
  <2>1. PositionFor(s, d) \in Cursor
    BY PlaceType DEF PositionFor, Copy
  <2>2. source' \in [Syncers -> Copy]
    BY <1>7, <2>1 DEF Advance, Copy
  <2>3. batch' \in [Syncers -> [Docs -> SourceVersions \cup {NoVersion}]]
    BY <1>7 DEF Advance
  <2>4. QED
    BY <1>7, <2>1, <2>2, <2>3 DEF Advance, SyncPC, Content
<1>8. CASE Stop(s)
  BY <1>8 DEF Stop, SyncPC
<1>9. CASE EndBatch(s)
  BY <1>9 DEF EndBatch, SyncPC
<1>10. CASE ReadFails(s)
  BY <1>10 DEF ReadFails, SyncPC
<1>11. CASE Release(s)
  BY <1>11, ForgetType DEF Release, Lock
<1>12. QED
  BY <1>1, <1>2, <1>3, <1>4, <1>5, <1>6, <1>7, <1>8, <1>9, <1>10, <1>11
  DEF SyncStep

\* The panel keeps every variable in its type.
LEMMA PanelType ==
  ASSUME TypeOK, Panel
  PROVE  TypeOK'
<1> USE DEF TypeOK, other, gateway, datasource, run
<1>1. ASSUME NEW e \in Editors, OpenForm(e)
      PROVE  TypeOK'
  BY <1>1 DEF OpenForm, Form
<1>2. ASSUME NEW e \in Editors, SaveForm(e)
      PROVE  TypeOK'
  BY <1>2 DEF SaveForm, Form, Lock
<1>3. ASSUME NEW m \in Mappings, SaveMapping(m)
      PROVE  TypeOK'
  BY <1>3 DEF SaveMapping
<1>4. QED
  BY <1>1, <1>2, <1>3 DEF Panel

\* The surroundings keep every variable in its type.
LEMMA SurroundingsType ==
  ASSUME TypeOK, Surroundings
  PROVE  TypeOK'
<1> USE DEF TypeOK, other, gateway, datasource, run
<1>1. ASSUME NEW d \in Docs, NEW v \in SourceVersions, Appear(d, v) \/ Correct(d, v)
      PROVE  TypeOK'
  BY <1>1 DEF Appear, Correct
<1>2. CASE ReachabilityChanges
  BY <1>2 DEF ReachabilityChanges
<1>3. ASSUME NEW d \in Docs, Communicate(d)
      PROVE  TypeOK'
  <2>1. invoice' \in [Docs -> Invoice]
    BY <1>3, CommunicatedFacts DEF Communicate
  <2>2. QED
    BY <1>3, <2>1 DEF Communicate
<1>4. CASE LeaseExpires
  BY <1>4 DEF LeaseExpires, Lock
<1>5. ASSUME NEW s \in Syncers, SyncerDies(s)
      PROVE  TypeOK'
  BY <1>5, ForgetType, SyncAssumption DEF SyncerDies
<1>6. ASSUME NEW s \in Syncers, WriteFails(s)
      PROVE  TypeOK'
  BY <1>6, SyncAssumption DEF WriteFails, Goto, SyncPC
<1>7. QED
  BY <1>1, <1>2, <1>3, <1>4, <1>5, <1>6 DEF Surroundings

\* Every step keeps every variable in its type.
LEMMA TypeInductive == TypeOK /\ [Next]_vars => TypeOK'
<1> SUFFICES ASSUME TypeOK, [Next]_vars
             PROVE  TypeOK'
  OBVIOUS
<1>1. CASE UNCHANGED vars
  BY <1>1 DEF TypeOK, vars, other, gateway, datasource, run
<1>2. QED
  BY <1>1, SyncType, PanelType, SurroundingsType DEF Next

\* The initial states are in the type.
LEMMA TypeInitially == Init => TypeOK
<1> SUFFICES ASSUME Init
             PROVE  TypeOK
  OBVIOUS
<1>1. Nothing \in [Docs -> SourceVersions \cup {NoVersion}]
  BY DEF Nothing
<1>2. QED
  BY <1>1, NoInvoiceType, BlankType, SyncAssumption
  DEF Init, TypeOK, Cursor, Lock, SyncPC, Content

\* What the Gateway's table, the row of the source, the locks, the forms and
\* the memory of every synchronisation hold stays in its type.
THEOREM TypeCorrect == Spec => []TypeOK
  BY TypeInitially, TypeInductive, PTL DEF Spec

-----------------------------------------------------------------------------
(* What no step undoes.                                                    *)

\* The column is sound: the places that the code compares are in one order.
LEMMA OnePlace ==
  ASSUME SoundColumn, NEW m \in Mappings, NEW d \in Docs
  PROVE  /\ Position[m][d] = Place[d]
         /\ Place[d] \in Cursor
         /\ Place[d] \in Nat
         /\ Place[d] > 0
  BY PlaceType DEF SoundColumn

\* A step that takes a document in hand leaves it imported or reported.
LEMMA ImportHandles ==
  ASSUME TypeOK, AbsentRowsEmpty, NEW s \in Syncers, NEW d \in Docs,
         payload[s] \in Versions, Import(s, d)
  PROVE  Handled(d)'
<1> DEFINE known    == invoice[d].version = payload[s]
           conflict == ~known /\ (WasCommunicated(invoice[d]) \/ d \in Taken)
<1>1. /\ reported' = IF conflict THEN reported \cup {d} ELSE reported
      /\ invoice'  = IF known \/ conflict THEN invoice
                     ELSE [invoice EXCEPT ![d] = Saved(@, payload[s])]
  BY DEF Import
<1> HIDE DEF conflict
<1>2. CASE known
  <2>1. invoice[d].status # "ABSENT"
    BY <1>2, VersionsAssumption DEF AbsentRowsEmpty
  <2>2. invoice' = invoice
    BY <1>1, <1>2
  <2>3. QED
    BY <2>1, <2>2 DEF Handled
<1>3. CASE conflict
  BY <1>1, <1>3 DEF Handled
<1>4. CASE ~known /\ ~conflict
  <2>1. invoice'[d] = Saved(invoice[d], payload[s])
    BY <1>1, <1>4 DEF TypeOK
  <2>2. Saved(invoice[d], payload[s]).status # "ABSENT"
    BY SavedFacts DEF TypeOK
  <2>3. QED
    BY <2>1, <2>2 DEF Handled
<1>5. QED
  BY <1>2, <1>3, <1>4

\* The rows that a step changes exist after it; no report is withdrawn.
LEMMA RowsStay ==
  ASSUME TypeOK, [Next]_vars, \A s \in Syncers : InHand(s)
  PROVE  /\ reported \subseteq reported'
         /\ \A d \in Docs : invoice'[d] = invoice[d]
                            \/ invoice'[d].status # "ABSENT"
<1> USE DEF other, gateway, datasource, run, Forget, Goto
<1>1. ASSUME NEW s \in Syncers, NEW d \in Docs, Import(s, d)
      PROVE  /\ reported \subseteq reported'
             /\ \A e \in Docs : invoice'[e] = invoice[e]
                                \/ invoice'[e].status # "ABSENT"
  <2>1. payload[s] \in Versions
    BY <1>1 DEF Import, InHand
  <2>2. Saved(invoice[d], payload[s]).status # "ABSENT"
    BY <2>1, SavedFacts DEF TypeOK
  <2>3. reported \subseteq reported'
    BY <1>1 DEF Import
  <2>4. invoice' = invoice
        \/ invoice' = [invoice EXCEPT ![d] = Saved(invoice[d], payload[s])]
    BY <1>1 DEF Import
  <2>5. QED
    BY <2>2, <2>3, <2>4 DEF TypeOK
<1>2. ASSUME NEW d \in Docs, Communicate(d)
      PROVE  /\ reported' = reported
             /\ \A e \in Docs : invoice'[e] = invoice[e]
                                \/ invoice'[e].status # "ABSENT"
  BY <1>2, CommunicatedFacts DEF Communicate, TypeOK
<1>3. ASSUME NEW s \in Syncers, Load(s) \/ SyncStep(s)
      PROVE  UNCHANGED <<invoice, reported>> \/ \E d \in Docs : Import(s, d)
  BY <1>3 DEF Load, SyncStep, Acquire, Refused, Fetch, ReadLines, Advance,
              Stop, EndBatch, ReadFails, Release
<1>4. CASE Panel
  BY <1>4 DEF Panel, OpenForm, SaveForm, SaveMapping
<1>5. CASE Surroundings
  BY <1>2, <1>5 DEF Surroundings, Appear, Correct, ReachabilityChanges,
                    LeaseExpires, SyncerDies, WriteFails
<1>6. CASE UNCHANGED vars
  BY <1>6 DEF vars
<1>7. QED
  BY <1>1, <1>3, <1>4, <1>5, <1>6 DEF Next

\* A document that was dealt with stays so.
LEMMA HandledStays ==
  ASSUME TypeOK, [Next]_vars, \A s \in Syncers : InHand(s),
         NEW d \in Docs, Handled(d)
  PROVE  Handled(d)'
  BY RowsStay DEF Handled

\* A row that does not exist stays without content.
LEMMA AbsentRowsInductive ==
  ASSUME TypeOK, [Next]_vars, \A s \in Syncers : InHand(s), AbsentRowsEmpty
  PROVE  AbsentRowsEmpty'
  BY RowsStay DEF AbsentRowsEmpty

\* A document once visible stays visible, and one that becomes visible comes
\* after all that are.
LEMMA NewestLast ==
  ASSUME TypeOK, SoundColumn, [Next]_vars, NEW d \in Docs
  PROVE  /\ Visible(d) => Visible(d)'
         /\ ~Visible(d) /\ Visible(d)' =>
              \A e \in Docs : Visible(e) => Place[e] < Place[d]
<1> USE DEF other, gateway, datasource, run, Forget, Goto
<1>1. ASSUME NEW s \in Syncers, Load(s) \/ SyncStep(s)
      PROVE  origin' = origin
  BY <1>1 DEF Load, SyncStep, Acquire, Refused, Fetch, ReadLines, Import,
              Advance, Stop, EndBatch, ReadFails, Release
<1>2. CASE Panel
  BY <1>2 DEF Panel, OpenForm, SaveForm, SaveMapping, Visible
<1>3. ASSUME NEW x \in Docs, NEW v \in SourceVersions, Appear(x, v)
      PROVE  /\ Visible(d) => Visible(d)'
             /\ ~Visible(d) /\ Visible(d)' =>
                  \A e \in Docs : Visible(e) => Place[e] < Place[d]
  <2>1. v # NoVersion
    BY SourceVersionsAreContent
  <2>2. origin' = [origin EXCEPT ![x] = v] /\ origin[x] = NoVersion
    BY <1>3 DEF Appear
  <2>3. Visible(d) => Visible(d)'
    BY <2>1, <2>2 DEF Visible, TypeOK
  <2>4. ASSUME ~Visible(d), Visible(d)', NEW e \in Docs, Visible(e)
        PROVE  Place[e] < Place[d]
    <3>1. d = x
      BY <2>2, <2>4 DEF Visible, TypeOK
    <3>2. Position[mapping][e] <= Position[mapping][d]
      BY <1>3, <2>4, <3>1 DEF Appear, SoundColumn, Visible
    <3>3. Place[e] <= Place[d] /\ Place[e] \in Nat /\ Place[d] \in Nat
      BY <3>2, OnePlace DEF TypeOK
    <3>4. d # e
      BY <2>4
    <3>5. Place[e] # Place[d]
      BY <3>4 DEF SoundColumn
    <3>6. QED
      BY <3>3, <3>5
  <2>5. QED
    BY <2>3, <2>4
<1>4. ASSUME NEW x \in Docs, NEW v \in SourceVersions, Correct(x, v)
      PROVE  Visible(d)' <=> Visible(d)
  <2>1. v # NoVersion
    BY SourceVersionsAreContent
  <2>2. QED
    BY <1>4, <2>1 DEF Correct, Visible, TypeOK
<1>5. CASE Surroundings
  <2>1. \/ origin' = origin
        \/ \E x \in Docs, v \in SourceVersions : Appear(x, v) \/ Correct(x, v)
    BY <1>5 DEF Surroundings, ReachabilityChanges, Communicate, LeaseExpires,
                SyncerDies, WriteFails
  <2>2. QED
    BY <1>3, <1>4, <2>1 DEF Visible
<1>6. CASE UNCHANGED vars
  BY <1>6 DEF vars, Visible
<1>7. QED
  BY <1>1, <1>2, <1>5, <1>6 DEF Next, Visible

-----------------------------------------------------------------------------
(* No document is skipped.                                                 *)

\* A cursor that was safe stays safe, wherever it is kept.
LEMMA SafeCursorStays ==
  ASSUME TypeOK, SoundColumn, [Next]_vars, \A s \in Syncers : InHand(s),
         NEW c \in Cursor, SafeCursor(c)
  PROVE  SafeCursor(c)'
<1>1. c = 0 \/ \E e \in Docs : Visible(e)' /\ Place[e] = c
  BY NewestLast DEF SafeCursor
<1>2. ASSUME NEW d \in Docs, Visible(d)', Place[d] <= c
      PROVE  Handled(d)'
  <2>1. CASE Visible(d)
    BY <1>2, <2>1, HandledStays DEF SafeCursor
  <2>2. CASE ~Visible(d)
    <3>1. Place[d] \in Nat /\ Place[d] > 0
      BY OnePlace DEF TypeOK
    <3>2. c # 0
      BY <1>2, <3>1
    <3>3. PICK e \in Docs : Visible(e) /\ Place[e] = c
      BY <3>2 DEF SafeCursor
    <3>4. Place[e] < Place[d] /\ Place[e] \in Nat
      BY <1>2, <2>2, <3>3, NewestLast, OnePlace DEF TypeOK
    <3>5. QED
      BY <1>2, <3>1, <3>3, <3>4
  <2>3. QED
    BY <2>1, <2>2
<1>3. QED
  BY <1>1, <1>2 DEF SafeCursor

\* A batch without gaps that nobody touches stays so.
LEMMA NoGapStays ==
  ASSUME TypeOK, SoundColumn, [Next]_vars, \A s \in Syncers : InHand(s),
         NEW s \in Syncers, NoGap(s), batch'[s] = batch[s]
  PROVE  NoGap(s)'
<1>1. Left(s)' = Left(s)
  BY DEF Left
<1>2. ASSUME NEW d \in Left(s)
      PROVE  Visible(d)'
  BY NewestLast DEF NoGap, Left
<1>3. ASSUME NEW d \in Left(s), NEW e \in Docs, Visible(e)', Place[e] <= Place[d]
      PROVE  Handled(e)' \/ e \in Left(s)
  <2>1. d \in Docs /\ Visible(d)
    BY DEF NoGap, Left
  <2>2. Place[d] \in Nat /\ Place[e] \in Nat
    BY <2>1, OnePlace DEF TypeOK
  <2>3. CASE Visible(e)
    BY <1>3, <2>3, HandledStays DEF NoGap
  <2>4. CASE ~Visible(e)
    <3>1. Place[d] < Place[e]
      BY <1>3, <2>1, <2>4, NewestLast
    <3>2. QED
      BY <1>3, <2>2, <3>1
  <2>5. QED
    BY <2>3, <2>4
<1>4. QED
  BY <1>1, <1>2, <1>3 DEF NoGap

\* So does the document in hand of a synchronisation that does not move.
LEMMA InHandStays ==
  ASSUME TypeOK, [Next]_vars, \A s \in Syncers : InHand(s), NEW s \in Syncers,
         pc'[s] = pc[s], batch'[s] = batch[s], current'[s] = current[s],
         payload'[s] = payload[s]
  PROVE  InHand(s)'
<1>1. Left(s)' = Left(s)
  BY DEF Left
<1>2. ASSUME NEW d \in current[s], Handled(d)
      PROVE  Handled(d)'
  <2>1. d \in Docs
    BY DEF TypeOK
  <2>2. QED
    BY <1>2, <2>1, HandledStays
<1>3. QED
  BY <1>1, <1>2 DEF InHand

\* A process that left sync_source has nothing left and nothing in hand.
LEMMA ForgetCursor ==
  ASSUME TypeOK, NEW s \in Syncers, Forget(s)
  PROVE  /\ source'[s].sync_cursor = 0
         /\ NoGap(s)'
         /\ InHand(s)'
<1>1. pc'[s] = "idle" /\ batch'[s] = Nothing /\ source'[s] = Blank
  BY DEF Forget, Goto, TypeOK
<1>2. Left(s)' = {}
  BY <1>1 DEF Left, Nothing
<1>3. QED
  BY <1>1, <1>2 DEF NoGap, InHand, Blank

\* A step of one synchronisation leaves the memory of the others alone.
LEMMA OthersAlone ==
  ASSUME TypeOK, NEW s \in Syncers,
         Load(s) \/ SyncStep(s) \/ SyncerDies(s) \/ WriteFails(s),
         NEW x \in Syncers, x # s
  PROVE  /\ pc'[x] = pc[x]
         /\ source'[x] = source[x]
         /\ batch'[x] = batch[x]
         /\ current'[x] = current[x]
         /\ payload'[x] = payload[x]
  BY DEF TypeOK, Goto, Forget, Load, SyncStep, Acquire, Refused, Fetch,
         ReadLines, Import, Advance, Stop, EndBatch, ReadFails, Release,
         SyncerDies, WriteFails, other, gateway, datasource

\* The places that are compared are those of the column.
LEMMA PlaceFor ==
  ASSUME TypeOK, SoundColumn, NEW s \in Syncers, NEW d \in Docs
  PROVE  PositionFor(s, d) = Place[d]
  BY OnePlace DEF PositionFor, TypeOK, Copy

\* The batch that documents_query returns has no gap: what comes before one of
\* its rows is in it, or at or before the cursor.
LEMMA FetchCursor ==
  ASSUME CursorInv, SoundColumn, [Next]_vars, NEW s \in Syncers, Fetch(s)
  PROVE  NoGap(s)' /\ InHand(s)'
<1> USE DEF CursorInv
<1>1. PICK B \in SUBSET NewRows(s) :
        /\ IsBatch(s, B)
        /\ batch' = [batch EXCEPT ![s] =
                      [d \in Docs |-> IF d \in B THEN origin[d] ELSE NoVersion]]
  BY DEF Fetch
<1>2. Left(s)' = B
  BY <1>1 DEF Left, TypeOK, NewRows
<1>3. ASSUME NEW d \in B
      PROVE  d \in Docs /\ Visible(d)
  BY DEF NewRows, Visible
<1>4. ASSUME NEW d \in B, NEW e \in Docs, Visible(e), Place[e] <= Place[d]
      PROVE  Handled(e) \/ e \in B
  <2>1. /\ d \in Docs
        /\ Place[d] \in Nat /\ Place[e] \in Nat
        /\ source[s].sync_cursor \in Nat
    BY <1>3, OnePlace DEF TypeOK, Copy, Cursor
  <2>2. CASE Place[e] <= source[s].sync_cursor
    BY <1>4, <2>2 DEF SafeCursors, SafeCursor
  <2>3. CASE ~(Place[e] <= source[s].sync_cursor)
    <3>1. e \in NewRows(s)
      BY <1>4, <2>1, <2>3, PlaceFor DEF NewRows, Visible
    <3>2. e \notin B => Place[d] <= Place[e]
      BY <1>1, <2>1, <3>1, PlaceFor DEF IsBatch
    <3>3. e \notin B => d = e
      BY <1>4, <2>1, <3>2 DEF SoundColumn
    <3>4. QED
      BY <3>3
  <2>4. QED
    BY <2>2, <2>3
<1>5. ASSUME NEW d \in Docs
      PROVE  (Visible(d)' <=> Visible(d)) /\ (Handled(d)' <=> Handled(d))
  BY DEF Fetch, other, gateway, Visible, Handled
<1>6. NoGap(s)'
  BY <1>2, <1>3, <1>4, <1>5 DEF NoGap
<1>7. InHand(s)'
  BY DEF Fetch, Goto, InHand, TypeOK
<1>8. QED
  BY <1>6, <1>7

\* The document taken in hand is the first of those left, with a content.
LEMMA ReadLinesCursor ==
  ASSUME CursorInv, SoundColumn, NEW s \in Syncers, NEW d \in Docs,
         ReadLines(s, d)
  PROVE  InHand(s)'
<1> USE DEF CursorInv
<1>1. /\ pc'[s] = "lines"
      /\ current'[s] = {d}
      /\ batch' = batch
      /\ payload'[s] = IF origin[d] = batch[s][d] THEN origin[d] ELSE Mixed
  BY DEF ReadLines, Goto, TypeOK
<1>2. d \in Left(s) /\ \A e \in Left(s) : Place[d] <= Place[e]
  BY PlaceFor DEF ReadLines, Left
<1>3. Left(s)' = Left(s)
  BY <1>1 DEF Left
<1>4. payload'[s] \in Versions
  <2>1. batch[s][d] # NoVersion
    BY <1>2 DEF Left
  <2>2. QED
    BY <1>1, <2>1, SyncAssumption DEF TypeOK
<1>5. QED
  BY <1>1, <1>2, <1>3, <1>4 DEF InHand

\* The document in hand was dealt with when the import has returned.
LEMMA ImportCursor ==
  ASSUME CursorInv, NEW s \in Syncers, NEW d \in Docs, Import(s, d)
  PROVE  InHand(s)'
<1> USE DEF CursorInv
<1>1. /\ pc[s] = "lines" /\ pc'[s] = "handled"
      /\ current[s] = {d}
      /\ UNCHANGED <<batch, current, payload>>
  BY DEF Import, Goto, TypeOK
<1>2. Handled(d)'
  BY <1>1, ImportHandles DEF InHand
<1>3. Left(s)' = Left(s)
  BY <1>1 DEF Left
<1>4. QED
  BY <1>1, <1>2, <1>3 DEF InHand

\* The cursor that is written is safe, and what is left has no gap.
LEMMA AdvanceCursor ==
  ASSUME CursorInv, SoundColumn, NEW s \in Syncers, NEW d \in Docs,
         Advance(s, d)
  PROVE  /\ SafeCursor(Place[d])
         /\ sync_cursor' = Place[d]
         /\ source'[s].sync_cursor = Place[d]
         /\ NoGap(s)'
         /\ InHand(s)'
<1> USE DEF CursorInv
<1>1. /\ pc[s] = "handled" /\ pc'[s] = "rows"
      /\ current[s] = {d}
      /\ batch' = [batch EXCEPT ![s][d] = NoVersion]
      /\ UNCHANGED <<origin, invoice, reported>>
  BY DEF Advance, Goto, TypeOK, other, gateway
<1>2. /\ d \in Left(s)
      /\ \A e \in Left(s) : Place[d] <= Place[e]
      /\ Handled(d)
  BY <1>1 DEF InHand
<1>3. Left(s)' = Left(s) \ {d}
  BY <1>1 DEF Left, TypeOK
<1>4. ASSUME NEW e \in Docs, Visible(e), Place[e] <= Place[d]
      PROVE  Handled(e)
  <2>1. Handled(e) \/ e \in Left(s)
    BY <1>2, <1>4 DEF NoGap
  <2>2. Place[d] \in Nat /\ Place[e] \in Nat
    BY OnePlace DEF TypeOK
  <2>3. e \in Left(s) => Place[d] = Place[e]
    BY <1>2, <1>4, <2>2
  <2>4. e \in Left(s) => e = d
    BY <2>3 DEF SoundColumn
  <2>5. QED
    BY <1>2, <2>1, <2>4
<1>5. SafeCursor(Place[d])
  BY <1>2, <1>4 DEF SafeCursor, NoGap
<1>6. sync_cursor' = Place[d] /\ source'[s].sync_cursor = Place[d]
  BY PlaceFor DEF Advance, TypeOK, Copy
<1>7. ASSUME NEW e \in Docs
      PROVE  (Visible(e)' <=> Visible(e)) /\ (Handled(e)' <=> Handled(e))
  BY <1>1 DEF Visible, Handled
<1>8. NoGap(s)'
  BY <1>2, <1>3, <1>7 DEF NoGap, Left
<1>9. QED
  BY <1>1, <1>5, <1>6, <1>8 DEF InHand

\* What a step does to the memory of one synchronisation.
LEMMA SyncerInductive ==
  ASSUME CursorInv, SoundColumn, [Next]_vars, NEW s \in Syncers,
         Load(s) \/ SyncStep(s) \/ SyncerDies(s) \/ WriteFails(s)
  PROVE  NoGap(s)' /\ InHand(s)'
<1> USE DEF CursorInv
<1>1. ASSUME batch' = batch
      PROVE  NoGap(s)'
  BY <1>1, NoGapStays
<1>2. ASSUME pc'[s] \notin {"lines", "handled"}
      PROVE  InHand(s)'
  BY <1>2 DEF InHand
<1>3. CASE Load(s) \/ Acquire(s)
  BY <1>1, <1>2, <1>3 DEF Load, Acquire, Goto, TypeOK
<1>4. CASE Refused(s) \/ Release(s) \/ SyncerDies(s)
  BY <1>4, ForgetCursor DEF Refused, Release, SyncerDies
<1>5. CASE Fetch(s)
  BY <1>5, FetchCursor
<1>6. ASSUME NEW d \in Docs, ReadLines(s, d)
      PROVE  NoGap(s)' /\ InHand(s)'
  BY <1>1, <1>6, ReadLinesCursor DEF ReadLines
<1>7. ASSUME NEW d \in Docs, Import(s, d)
      PROVE  NoGap(s)' /\ InHand(s)'
  BY <1>1, <1>7, ImportCursor DEF Import
<1>8. ASSUME NEW d \in Docs, Advance(s, d)
      PROVE  NoGap(s)' /\ InHand(s)'
  BY <1>8, AdvanceCursor
<1>9. CASE Stop(s) \/ EndBatch(s) \/ ReadFails(s) \/ WriteFails(s)
  BY <1>1, <1>2, <1>9 DEF Stop, EndBatch, ReadFails, WriteFails, Goto, TypeOK
<1>10. QED
  BY <1>3, <1>4, <1>5, <1>6, <1>7, <1>8, <1>9 DEF SyncStep

\* A cursor is where a cursor was before the step, zero, or the place of the
\* document that was just dealt with.
LEMMA CursorsMove ==
  ASSUME CursorInv, SoundColumn, [Next]_vars
  PROVE  LET old(c) == c \in Cursor /\ SafeCursor(c)
         IN  /\ old(sync_cursor')
             /\ \A s \in Syncers : old(source'[s].sync_cursor)
             /\ \A e \in Editors : \A row \in form'[e] : old(row.sync_cursor)
<1> DEFINE Old(c) == c \in Cursor /\ SafeCursor(c)
           Goal == /\ Old(sync_cursor')
                   /\ \A s \in Syncers : Old(source'[s].sync_cursor)
                   /\ \A e \in Editors : \A row \in form'[e] : Old(row.sync_cursor)
<1> SUFFICES Goal
  OBVIOUS
<1> USE DEF CursorInv, other, gateway, datasource, run
<1>1. /\ Old(0)
      /\ Old(sync_cursor)
      /\ \A s \in Syncers : Old(source[s].sync_cursor)
      /\ \A e \in Editors : \A row \in form[e] : Old(row.sync_cursor)
  <2>1. Old(0)
    <3>1. \A d \in Docs : ~(Place[d] <= 0)
      BY OnePlace DEF TypeOK
    <3>2. 0 \in Cursor
      BY SyncAssumption DEF Cursor
    <3>3. QED
      BY <3>1, <3>2 DEF SafeCursor
  <2>2. QED
    BY <2>1 DEF SafeCursors, TypeOK, Copy, Form
<1> HIDE DEF Old
<1>2. ASSUME source' = source, sync_cursor' = sync_cursor, form' = form
      PROVE  Goal
  BY <1>1, <1>2
<1>3. ASSUME NEW s \in Syncers, Forget(s), sync_cursor' = sync_cursor,
             form' = form
      PROVE  Goal
  <2>1. source' = [source EXCEPT ![s] = Blank]
    BY <1>3 DEF Forget
  <2>2. QED
    BY <1>1, <1>3, <2>1 DEF TypeOK, Blank
<1>4. ASSUME NEW s \in Syncers, Load(s)
      PROVE  Goal
  BY <1>1, <1>4 DEF Load, TypeOK
<1>5. ASSUME NEW s \in Syncers, NEW d \in Docs, Advance(s, d)
      PROVE  Goal
  <2>1. Old(Place[d]) /\ sync_cursor' = Place[d] /\ form' = form
    BY <1>5, AdvanceCursor, OnePlace DEF Advance, Old, TypeOK
  <2>2. source'[s].sync_cursor = Place[d]
    BY <1>5, AdvanceCursor
  <2>3. \A x \in Syncers : x # s => source'[x] = source[x]
    BY <1>5 DEF Advance, TypeOK
  <2>4. QED
    BY <1>1, <2>1, <2>2, <2>3
<1>6. ASSUME NEW s \in Syncers, SyncStep(s)
      PROVE  Goal
  BY <1>2, <1>3, <1>5, <1>6
  DEF SyncStep, Acquire, Refused, Fetch, ReadLines, Import, Stop, EndBatch,
      ReadFails, Release
<1>7. CASE Panel
  <2>1. ASSUME NEW e \in Editors, OpenForm(e)
        PROVE  Goal
    BY <1>1, <2>1 DEF OpenForm, TypeOK
  <2>2. ASSUME NEW e \in Editors, SaveForm(e)
        PROVE  Goal
    BY <1>1, <2>2 DEF SaveForm, TypeOK
  <2>3. ASSUME NEW m \in Mappings, SaveMapping(m)
        PROVE  Goal
    BY <1>1, <2>3 DEF SaveMapping
  <2>4. QED
    BY <1>7, <2>1, <2>2, <2>3 DEF Panel
<1>8. CASE Surroundings
  BY <1>2, <1>3, <1>8
  DEF Surroundings, Appear, Correct, ReachabilityChanges, Communicate,
      LeaseExpires, SyncerDies, WriteFails
<1>9. CASE UNCHANGED vars
  BY <1>1, <1>9 DEF vars
<1>10. QED
  BY <1>4, <1>6, <1>7, <1>8, <1>9 DEF Next

\* Every cursor is safe after a step.
LEMMA SafeCursorsInductive ==
  ASSUME CursorInv, SoundColumn, [Next]_vars
  PROVE  SafeCursors'
<1>1. ASSUME NEW c \in Cursor, SafeCursor(c)
      PROVE  SafeCursor(c)'
  BY <1>1, SafeCursorStays DEF CursorInv
<1> DEFINE Safe(c) == /\ c = 0 \/ \E e \in Docs : Visible(e)' /\ Place[e] = c
                      /\ \A d \in Docs : Visible(d)' /\ Place[d] <= c => Handled(d)'
<1>2. ASSUME NEW c \in Cursor, SafeCursor(c)
      PROVE  Safe(c)
  BY <1>1, <1>2 DEF SafeCursor
<1> HIDE DEF Safe
<1>3. /\ Safe(sync_cursor')
      /\ \A s \in Syncers : Safe(source'[s].sync_cursor)
      /\ \A e \in Editors : \A row \in form'[e] : Safe(row.sync_cursor)
  BY <1>2, CursorsMove
<1>4. QED
  BY <1>3 DEF Safe, SafeCursors, SafeCursor

\* Every batch is without gaps, and every document in hand the first of those
\* left, after a step.
LEMMA BatchesInductive ==
  ASSUME CursorInv, SoundColumn, [Next]_vars, NEW x \in Syncers
  PROVE  NoGap(x)' /\ InHand(x)'
<1> USE DEF CursorInv
<1>1. ASSUME pc'[x] = pc[x], batch'[x] = batch[x], current'[x] = current[x],
             payload'[x] = payload[x]
      PROVE  NoGap(x)' /\ InHand(x)'
  BY <1>1, NoGapStays, InHandStays
<1>2. ASSUME NEW s \in Syncers,
             Load(s) \/ SyncStep(s) \/ SyncerDies(s) \/ WriteFails(s)
      PROVE  NoGap(x)' /\ InHand(x)'
  <2>1. CASE x = s
    BY <1>2, <2>1, SyncerInductive
  <2>2. CASE x # s
    BY <1>1, <1>2, <2>2, OthersAlone
  <2>3. QED
    BY <2>1, <2>2
<1>3. CASE UNCHANGED run
  BY <1>1, <1>3 DEF run
<1>4. CASE Panel
  BY <1>3, <1>4 DEF Panel, OpenForm, SaveForm, SaveMapping
<1>5. CASE Surroundings
  BY <1>2, <1>3, <1>5 DEF Surroundings, Appear, Correct, ReachabilityChanges,
                          Communicate, LeaseExpires
<1>6. CASE UNCHANGED vars
  BY <1>3, <1>6 DEF vars
<1>7. QED
  BY <1>2, <1>4, <1>5, <1>6 DEF Next

\* No step breaks the invariant of the cursor.
LEMMA CursorInductive ==
  ASSUME CursorInv, SoundColumn, [Next]_vars
  PROVE  CursorInv'
<1>1. TypeOK'
  BY TypeInductive DEF CursorInv
<1>2. AbsentRowsEmpty'
  BY AbsentRowsInductive DEF CursorInv
<1>3. QED
  BY <1>1, <1>2, SafeCursorsInductive, BatchesInductive DEF CursorInv

\* The initial states satisfy the invariant of the cursor.
LEMMA CursorInitially ==
  ASSUME Init
  PROVE  CursorInv
<1>1. TypeOK
  BY TypeInitially
<1>2. \A d \in Docs : ~Visible(d)
  BY DEF Init, Nothing, Visible
<1>3. AbsentRowsEmpty
  BY DEF Init, NoInvoice, AbsentRowsEmpty
<1>4. SafeCursor(0)
  BY <1>2 DEF SafeCursor
<1>5. SafeCursors
  BY <1>4 DEF Init, Blank, SafeCursors
<1>6. ASSUME NEW s \in Syncers
      PROVE  NoGap(s) /\ InHand(s)
  <2>1. Left(s) = {}
    BY DEF Init, Left, Nothing
  <2>2. QED
    BY <2>1 DEF Init, NoGap, InHand
<1>7. QED
  BY <1>1, <1>3, <1>5, <1>6 DEF CursorInv

\* If the cursor column is sound, no document of the other system is skipped:
\* the cursor never passes one that was neither imported nor reported, however
\* many synchronisations overlap, fail or die, and whatever form is saved over
\* the cursor they wrote.  Whether a lease outlives its synchronisation does
\* not matter.
THEOREM NothingSkippedHolds ==
  ASSUME SoundColumn
  PROVE  Spec => []NothingSkipped
<1>1. Init => CursorInv
  BY CursorInitially
<1>2. CursorInv /\ [Next]_vars => CursorInv'
  BY CursorInductive
<1>3. CursorInv => NothingSkipped
  BY OnePlace DEF CursorInv, SafeCursors, SafeCursor, NothingSkipped, Visible,
                  TypeOK
<1>4. QED
  BY <1>1, <1>2, <1>3, PTL DEF Spec

-----------------------------------------------------------------------------
(* One synchronisation at a time.                                          *)

\* If leases outlive the synchronisations and no form of the connection is
\* saved, at most one process is between the lock and its release, whoever
\* dies or fails.
THEOREM OneSyncAtATimeHolds ==
  ASSUME ~SlowSyncs, Editors = {}
  PROVE  Spec => []OneSyncAtATime
<1> DEFINE Held == \A s \in Syncers : Syncing(s) => lock = "future"
<1>1. Init => LockInv
  BY TypeInitially DEF Init, LockInv, OneSyncAtATime, Syncing
<1>2. ASSUME LockInv, [Next]_vars
      PROVE  LockInv'
  <2> USE DEF LockInv, other, gateway, datasource, run
  <2>1. TypeOK'
    BY <1>2, TypeInductive
  <2> SUFFICES (OneSyncAtATime /\ Held)'
    BY <2>1
  <2>2. ASSUME lock' = lock, \A s \in Syncers : Syncing(s)' => Syncing(s)
        PROVE  (OneSyncAtATime /\ Held)'
    BY <1>2, <2>2 DEF OneSyncAtATime
  <2>3. ASSUME NEW s \in Syncers, Load(s) \/ SyncStep(s)
        PROVE  (OneSyncAtATime /\ Held)'
    <3>1. CASE Acquire(s)
      BY <1>2, <3>1 DEF Acquire, Goto, TypeOK, OneSyncAtATime, Syncing
    <3>2. CASE Release(s)
      BY <1>2, <3>2 DEF Release, Forget, Goto, TypeOK, OneSyncAtATime, Syncing
    <3>3. CASE Load(s) \/ Refused(s)
      BY <1>2, <2>2, <3>3 DEF Load, Refused, Forget, Goto, TypeOK, Syncing
    <3>4. ASSUME pc[s] \notin {"idle", "loaded"}, lock' = lock,
                 \E place \in SyncPC : Goto(s, place)
          PROVE  (OneSyncAtATime /\ Held)'
      BY <1>2, <2>2, <3>4 DEF Goto, TypeOK, Syncing
    <3>5. QED
      BY <2>3, <3>1, <3>2, <3>3, <3>4
      DEF SyncStep, Fetch, ReadLines, Import, Advance, Stop, EndBatch,
          ReadFails, SyncPC
  <2>4. CASE Panel
    BY <2>2, <2>4 DEF Panel, SaveMapping, Syncing
  <2>5. CASE LeaseExpires
    BY <2>5 DEF LeaseExpires, OneSyncAtATime, Syncing
  <2>6. ASSUME NEW s \in Syncers, SyncerDies(s) \/ WriteFails(s)
        PROVE  (OneSyncAtATime /\ Held)'
    BY <1>2, <2>2, <2>6
    DEF SyncerDies, WriteFails, Forget, Goto, TypeOK, Syncing
  <2>7. CASE Surroundings
    BY <2>2, <2>5, <2>6, <2>7
    DEF Surroundings, Appear, Correct, ReachabilityChanges, Communicate, Syncing
  <2>8. CASE UNCHANGED vars
    BY <2>2, <2>8 DEF vars, Syncing
  <2>9. QED
    BY <1>2, <2>3, <2>4, <2>7, <2>8 DEF Next
<1>3. LockInv => OneSyncAtATime
  BY DEF LockInv
<1>4. QED
  BY <1>1, <1>2, <1>3, PTL DEF Spec

=============================================================================
