----------------------------- MODULE SourceSync -----------------------------
(***************************************************************************)
(* Reading documents from the database of another system, incrementally by *)
(* a cursor (sources/sync.py), with everything that happens meanwhile: the *)
(* other system writes, other synchronisations of the same source start,   *)
(* an administrator edits the connection, documents are sent to the AGT,   *)
(* processes die.                                                          *)
(*                                                                         *)
(*   Syncers  processes inside sync_source for one source: the scheduler   *)
(*            thread, the command sync_sources, the panel's "sincronizar". *)
(*   Editors  requests of the panel that save the connection's form or its *)
(*            mapping.                                                     *)
(*                                                                         *)
(* A document of the other system is a header row and line rows; its       *)
(* content is a version (see Invoices).  The header is read with the batch *)
(* and the lines later, so a payload may mix two versions.  The value of   *)
(* the cursor column is an abstract position.  The lease of the lock is    *)
(* abstracted to what the code asks of it: null, in the future, past.      *)
(***************************************************************************)
EXTENDS Invoices, FiniteSets

CONSTANTS
  Docs,           \* documents of the other system
  SourceVersions, \* the contents it may give them
  Unreadable,     \* those that parse_document or the mapping refuses
  Mixed,          \* the header of one version with the lines of another
  Mappings,       \* mappings an administrator may save
  Position,       \* value of the cursor column, by mapping and document
  LastPosition,
  Taken,          \* documents whose fiscal number came from another source
  BatchSize,      \* batch_size of the mapping
  InOrder,        \* new documents become visible in the order of the cursor
  Correctable,    \* documents whose content the other system changes
  Syncers,
  Periodic,       \* the syncers that are the scheduler of run_gateway
  Editors,
  SlowSyncs,      \* a synchronisation may outlive the 15 minutes of its lock
  MaxCrashes      \* bound: how many processes may die in a behaviour

ASSUME SyncAssumption ==
  /\ Unreadable \subseteq SourceVersions
  /\ SourceVersions \subseteq Versions
  /\ Mixed \in Versions \ SourceVersions
  /\ Mappings # {}
  /\ LastPosition \in Nat
  /\ Position \in [Mappings -> [Docs -> 1..LastPosition]]
  /\ Taken \subseteq Docs
  /\ Correctable \subseteq Docs
  /\ BatchSize \in Nat \ {0}
  /\ InOrder \in BOOLEAN
  /\ Periodic \subseteq Syncers
  /\ SlowSyncs \in BOOLEAN
  /\ MaxCrashes \in Nat

VARIABLES
  origin,         \* the other system: the content of each document
  reachable,      \* its database answers
  invoice,        \* the Gateway's table: one row per document
  reported,       \* documents recorded as conflicts (SOURCE_CONFLICT)
  mapping,        \* DataSource.mapping
  sync_cursor,    \* DataSource.sync_cursor, 0 before the first document
  lock,           \* DataSource.sync_locked_until
  pc,             \* where each syncer is
  source,         \* the syncer's copy of the row: its mapping and cursor
  batch,          \* documents fetched and not handled yet: their headers
  current,        \* the document in hand
  payload,        \* its header and lines put together
  form,           \* what an editor read and has not saved yet
  crashes

gateway  == <<invoice, reported>>
datasource == <<mapping, sync_cursor, lock>>
other    == <<origin, reachable>>
run      == <<pc, source, batch, current, payload>>
vars     == <<other, gateway, datasource, run, form, crashes>>

Cursor  == 0..LastPosition
Lock    == {"none", "future", "past"}
SyncPC  == {"idle", "loaded", "locked", "rows", "lines", "handled", "release"}
Content == Versions \cup {NoVersion}
Copy    == [mapping : Mappings, sync_cursor : Cursor]
Form    == [mapping : Mappings, sync_cursor : Cursor, lock : Lock]

Nothing == [d \in Docs |-> NoVersion]

\* What a process outside sync_source remembers of the source.
Blank == [mapping |-> CHOOSE m \in Mappings : TRUE, sync_cursor |-> 0]

TypeOK ==
  /\ origin      \in [Docs -> SourceVersions \cup {NoVersion}]
  /\ reachable   \in BOOLEAN
  /\ invoice     \in [Docs -> Invoice]
  /\ reported    \in SUBSET Docs
  /\ mapping     \in Mappings
  /\ sync_cursor \in Cursor
  /\ lock        \in Lock
  /\ pc          \in [Syncers -> SyncPC]
  /\ source      \in [Syncers -> Copy]
  /\ batch       \in [Syncers -> [Docs -> SourceVersions \cup {NoVersion}]]
  /\ current     \in [Syncers -> SUBSET Docs]
  /\ payload     \in [Syncers -> Content]
  /\ form        \in [Editors -> SUBSET Form]
  /\ crashes     \in 0..MaxCrashes

Init ==
  /\ origin      = Nothing
  /\ reachable   = TRUE
  /\ invoice     = [d \in Docs |-> NoInvoice]
  /\ reported    = {}
  /\ mapping     \in Mappings
  /\ sync_cursor = 0
  /\ lock        = "none"
  /\ pc          = [s \in Syncers |-> "idle"]
  /\ source      = [s \in Syncers |-> Blank]
  /\ batch       = [s \in Syncers |-> Nothing]
  /\ current     = [s \in Syncers |-> {}]
  /\ payload     = [s \in Syncers |-> NoVersion]
  /\ form        = [e \in Editors |-> {}]
  /\ crashes     = 0

-----------------------------------------------------------------------------
(* The synchronisation: sync_source and _run.                              *)

Goto(s, place) == pc' = [pc EXCEPT ![s] = place]

\* What the process had in memory is gone.
Forget(s) ==
  /\ Goto(s, "idle")
  /\ source'  = [source EXCEPT ![s] = Blank]
  /\ batch'   = [batch EXCEPT ![s] = Nothing]
  /\ current' = [current EXCEPT ![s] = {}]
  /\ payload' = [payload EXCEPT ![s] = NoVersion]

\* The caller reads the row of the source, some time before it calls
\* sync_source (run_sync_once reads the rows of all sources first).
Load(s) ==
  /\ pc[s] = "idle"
  /\ source' = [source EXCEPT ![s] = [mapping |-> mapping,
                                      sync_cursor |-> sync_cursor]]
  /\ Goto(s, "loaded")
  /\ UNCHANGED <<other, gateway, datasource, batch, current, payload, form,
                 crashes>>

\* Slip: the lock is taken whoever has it.
AcquireAnyway(s) ==
  /\ pc[s] = "loaded"
  /\ lock' = "future"
  /\ Goto(s, "locked")
  /\ UNCHANGED <<other, gateway, mapping, sync_cursor, source, batch, current,
                 payload, form, crashes>>

\* Slip: only a released lock can be taken.
AcquireReleased(s) ==
  /\ pc[s] = "loaded"
  /\ lock = "none"
  /\ lock' = "future"
  /\ Goto(s, "locked")
  /\ UNCHANGED <<other, gateway, mapping, sync_cursor, source, batch, current,
                 payload, form, crashes>>

\* acquire_sync_lock: the conditional UPDATE matched.
Acquire(s) ==
  /\ pc[s] = "loaded"
  /\ lock # "future"
  /\ lock' = "future"
  /\ Goto(s, "locked")
  /\ UNCHANGED <<other, gateway, mapping, sync_cursor, source, batch, current,
                 payload, form, crashes>>

\* It matched no row: a synchronisation of this source is in course.
Refused(s) ==
  /\ pc[s] = "loaded"
  /\ lock = "future"
  /\ Forget(s)
  /\ UNCHANGED <<other, gateway, datasource, form, crashes>>

PositionFor(s, d) == Position[source[s].mapping][d]

\* What documents_query returns without a limit: it asks for a greater
\* position than the cursor of the syncer's copy.
NewRows(s) == {d \in Docs : /\ origin[d] # NoVersion
                            /\ PositionFor(s, d) > source[s].sync_cursor}

\* In the order of the cursor column, the first BatchSize of them.  Rows with
\* the same position come in any order.
IsBatch(s, B) ==
  /\ B \subseteq NewRows(s)
  /\ \A d \in B, e \in NewRows(s) \ B : PositionFor(s, d) <= PositionFor(s, e)
  /\ B = NewRows(s) \/ Cardinality(B) = BatchSize
  /\ Cardinality(B) <= BatchSize

Fetch(s) ==
  /\ pc[s] = "locked"
  /\ reachable
  /\ \E B \in SUBSET NewRows(s) :
       /\ IsBatch(s, B)
       /\ batch' = [batch EXCEPT ![s] =
                      [d \in Docs |-> IF d \in B THEN origin[d] ELSE NoVersion]]
  /\ Goto(s, "rows")
  /\ UNCHANGED <<other, gateway, datasource, source, current, payload, form,
                 crashes>>

Left(s) == {d \in Docs : batch[s][d] # NoVersion}

\* The next row of the batch; its lines are read now.
ReadLines(s, d) ==
  /\ pc[s] = "rows"
  /\ reachable
  /\ d \in Left(s)
  /\ \A e \in Left(s) : PositionFor(s, d) <= PositionFor(s, e)
  /\ current' = [current EXCEPT ![s] = {d}]
  /\ payload' = [payload EXCEPT ![s] =
                   IF origin[d] = batch[s][d] THEN origin[d] ELSE Mixed]
  /\ Goto(s, "lines")
  /\ UNCHANGED <<other, gateway, datasource, source, batch, form, crashes>>

\* Slip: a document that cannot be read is passed over.
StopNot(s) ==
  /\ pc[s] = "lines"
  /\ payload[s] \in Unreadable
  /\ Goto(s, "handled")
  /\ UNCHANGED <<other, gateway, datasource, source, batch, current, payload,
                 form, crashes>>

\* rows_to_payload or parse_document fails: _stop.
Stop(s) ==
  /\ pc[s] = "lines"
  /\ payload[s] \in Unreadable
  /\ Goto(s, "release")
  /\ UNCHANGED <<other, gateway, datasource, source, batch, current, payload,
                 form, crashes>>

\* import_document.  Equal data is a duplicate; other data for a document
\* that was communicated, or a fiscal number that another source has, is a
\* conflict, which is recorded.
Import(s, d) ==
  /\ pc[s] = "lines"
  /\ current[s] = {d}
  /\ payload[s] \notin Unreadable
  /\ LET v        == payload[s]
         known    == invoice[d].version = v
         conflict == ~known /\ (WasCommunicated(invoice[d]) \/ d \in Taken)
     IN  /\ reported' = IF conflict THEN reported \cup {d} ELSE reported
         /\ invoice'  = IF known \/ conflict THEN invoice
                        ELSE [invoice EXCEPT ![d] = Saved(@, v)]
  /\ Goto(s, "handled")
  /\ UNCHANGED <<other, datasource, source, batch, current, payload, form,
                 crashes>>

\* The cursor is written only after the document was dealt with.
Advance(s, d) ==
  /\ pc[s] = "handled"
  /\ current[s] = {d}
  /\ sync_cursor' = PositionFor(s, d)
  /\ source'  = [source EXCEPT ![s].sync_cursor = PositionFor(s, d)]
  /\ batch'   = [batch EXCEPT ![s][d] = NoVersion]
  /\ current' = [current EXCEPT ![s] = {}]
  /\ payload' = [payload EXCEPT ![s] = NoVersion]
  /\ Goto(s, "rows")
  /\ UNCHANGED <<other, gateway, mapping, lock, form, crashes>>

\* Every row of the batch is dealt with; the next synchronisation goes on.
EndBatch(s) ==
  /\ pc[s] = "rows"
  /\ Left(s) = {}
  /\ Goto(s, "release")
  /\ UNCHANGED <<other, gateway, datasource, source, batch, current, payload,
                 form, crashes>>

\* The database of the other system does not answer: the exception ends the
\* synchronisation.
ReadFails(s) ==
  /\ \/ pc[s] = "locked"
     \/ pc[s] = "rows" /\ Left(s) # {}
  /\ ~reachable
  /\ Goto(s, "release")
  /\ UNCHANGED <<other, gateway, datasource, source, batch, current, payload,
                 form, crashes>>

\* release_sync_lock, on every way out, whoever holds the lock by now.
Release(s) ==
  /\ pc[s] = "release"
  /\ lock' = "none"
  /\ Forget(s)
  /\ UNCHANGED <<other, gateway, mapping, sync_cursor, form, crashes>>

-----------------------------------------------------------------------------
(* The panel.                                                              *)

\* The request that saves the form of a connection reads the whole row ...
OpenForm(e) ==
  /\ form[e] = {}
  /\ form' = [form EXCEPT ![e] = {[mapping |-> mapping, lock |-> lock,
                                   sync_cursor |-> sync_cursor]}]
  /\ UNCHANGED <<other, gateway, datasource, run, crashes>>

\* ... and, after checking the form, saves it whole: the fields that are not
\* in the form as it read them.  The mapping is the one it read, or, for the
\* form of the mapping in JSON, a new one.  The end of the lease may have
\* passed since.
SaveForm(e) ==
  /\ \E row \in form[e] :
       /\ mapping' \in {row.mapping} \cup Mappings
       /\ sync_cursor' = row.sync_cursor
       /\ lock' \in IF row.lock = "future" THEN {"future", "past"} ELSE {row.lock}
  /\ form' = [form EXCEPT ![e] = {}]
  /\ UNCHANGED <<other, gateway, run, crashes>>

\* The mapping assistant saves the mapping alone; the cursor stays.
SaveMapping(m) ==
  /\ m # mapping
  /\ mapping' = m
  /\ UNCHANGED <<other, gateway, sync_cursor, lock, run, form, crashes>>

-----------------------------------------------------------------------------
(* The surroundings.                                                       *)

\* A new document becomes visible in the other system.
Appear(d, v) ==
  /\ origin[d] = NoVersion
  /\ InOrder => \A e \in Docs : origin[e] # NoVersion =>
                  Position[mapping][e] <= Position[mapping][d]
  /\ origin' = [origin EXCEPT ![d] = v]
  /\ UNCHANGED <<reachable, gateway, datasource, run, form, crashes>>

\* The other system corrects a document; its place in the order stays.
Correct(d, v) ==
  /\ d \in Correctable
  /\ origin[d] \notin {NoVersion, v}
  /\ origin' = [origin EXCEPT ![d] = v]
  /\ UNCHANGED <<reachable, gateway, datasource, run, form, crashes>>

ReachabilityChanges ==
  /\ reachable' = ~reachable
  /\ UNCHANGED <<origin, gateway, datasource, run, form, crashes>>

\* The queue sends a validated document and the AGT accepts it (AgtQueue has
\* the steps in between).
Communicate(d) ==
  /\ invoice[d].status = "VALIDATED"
  /\ invoice' = [invoice EXCEPT ![d] =
                   AfterSend(Claimed(Enqueued(@, FALSE)), "ACCEPTED", TRUE)]
  /\ UNCHANGED <<other, reported, datasource, run, form, crashes>>

\* Between Acquire and Release.
Syncing(s) == pc[s] \notin {"idle", "loaded"}

\* Fifteen minutes after it was taken the lock counts for nothing.
LeaseExpires ==
  /\ lock = "future"
  /\ SlowSyncs \/ \A s \in Syncers : ~Syncing(s)
  /\ lock' = "past"
  /\ UNCHANGED <<other, gateway, mapping, sync_cursor, run, form, crashes>>

\* A process dies: the lock stays as it is.
SyncerDies(s) ==
  /\ pc[s] # "idle"
  /\ crashes < MaxCrashes
  /\ crashes' = crashes + 1
  /\ Forget(s)
  /\ UNCHANGED <<other, gateway, datasource, form>>

\* An import or the write of the cursor fails (the Gateway's own database is
\* locked, say) without effect, and the synchronisation ends.
WriteFails(s) ==
  /\ pc[s] \in {"lines", "handled"}
  /\ crashes < MaxCrashes
  /\ crashes' = crashes + 1
  /\ Goto(s, "release")
  /\ UNCHANGED <<other, gateway, datasource, source, batch, current, payload,
                 form>>

-----------------------------------------------------------------------------

SyncStep(s) ==
  \/ Acquire(s)
  \/ Refused(s)
  \/ Fetch(s)
  \/ \E d \in Docs : ReadLines(s, d) \/ Import(s, d) \/ Advance(s, d)
  \/ Stop(s)
  \/ EndBatch(s)
  \/ ReadFails(s)
  \/ Release(s)

Panel ==
  \/ \E e \in Editors : OpenForm(e) \/ SaveForm(e)
  \/ \E m \in Mappings : SaveMapping(m)

Surroundings ==
  \/ \E d \in Docs, v \in SourceVersions : Appear(d, v) \/ Correct(d, v)
  \/ ReachabilityChanges
  \/ \E d \in Docs : Communicate(d)
  \/ LeaseExpires
  \/ \E s \in Syncers : SyncerDies(s) \/ WriteFails(s)

Next ==
  \/ \E s \in Syncers : Load(s) \/ SyncStep(s)
  \/ Panel
  \/ Surroundings

Spec == Init /\ [][Next]_vars

\* The scheduler synchronises every five minutes, a synchronisation that has
\* begun goes on, and the lease of a lock ends.
Fairness ==
  /\ \A s \in Syncers : WF_vars(SyncStep(s))
  /\ \A s \in Periodic : WF_vars(Load(s))
  /\ WF_vars(LeaseExpires)

FairSpec == Spec /\ Fairness

-----------------------------------------------------------------------------
(* What must hold.                                                         *)

\* The document has a row in the Gateway, or somebody was told why not.
Handled(d) == invoice[d].status # "ABSENT" \/ d \in reported

\* No document is skipped in silence: the cursor never passes a document
\* that has neither been imported nor recorded as a conflict (sync.py:
\* "Nenhum documento e saltado em silencio").
NothingSkipped ==
  \A d \in Docs :
    origin[d] # NoVersion /\ Position[mapping][d] <= sync_cursor => Handled(d)

\* At most one process is between the lock and its release (models.py:
\* "Impede duas sincronizacoes simultaneas da mesma origem").
OneSyncAtATime ==
  \A s1, s2 \in Syncers : Syncing(s1) /\ Syncing(s2) => s1 = s2

\* If the other database stays reachable and what cannot be read in it is
\* corrected, every document gets into the Gateway, whoever synchronises,
\* fails or dies meanwhile.
EveryDocumentArrives ==
  /\ <>[]reachable
  /\ <>[](\A d \in Docs : origin[d] \notin Unreadable)
  => \A d \in Docs : origin[d] # NoVersion ~> Handled(d)

\* A document that the other system corrected is corrected in the Gateway,
\* unless it was communicated before (docs/origens.md: "Corrigido na origem,
\* e atualizado na proxima leitura, se ainda nao tiver sido comunicado").
CorrectionArrives ==
  <>[]reachable =>
    \A d \in Docs, v \in SourceVersions \ Unreadable :
      <>[](origin[d] = v)
        => <>(invoice[d].version = v \/ WasCommunicated(invoice[d]) \/ d \in reported)

=============================================================================
