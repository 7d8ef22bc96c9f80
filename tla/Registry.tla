------------------------------ MODULE Registry ------------------------------
(***************************************************************************)
(* The REST API and import_document, statement by statement: several       *)
(* requests bring documents to one register at the same time, while keys   *)
(* are made and revoked, sources are renamed and switched off, and the     *)
(* queue sends what is in the register.                                    *)
(*                                                                         *)
(* A transaction sees what others committed (READ COMMITTED).  Its SELECT  *)
(* FOR UPDATE waits for whoever holds the row.  The statements from the    *)
(* first INSERT or UPDATE to the COMMIT are one step: nobody sees what is  *)
(* between them.  The answer comes after the COMMIT, and after the logs    *)
(* and the queueing, which may still fail.  SQLite has no row locks, but   *)
(* lets no transaction write that read before another wrote: it fails,     *)
(* which Fail covers.                                                      *)
(***************************************************************************)
EXTENDS Integers, FiniteSets

CONSTANTS
  Sources, Codes, Companies,
  CompanyOf,      \* the company of each source
  FirstCode,      \* the code each source has at first
  Renames,        \* bound: times the code of a source is changed
  Requests,       \* threads that serve requests
  Payloads,       \* documents: [id, number, content]
  Unreadable,     \* those of them that parse_document refuses
  MaxRequests     \* bound: requests served

ASSUME RegistryAssumption ==
  /\ CompanyOf \in [Sources -> Companies]
  /\ FirstCode \in [Sources -> Codes]
  /\ \A s, t \in Sources :
       s # t /\ CompanyOf[s] = CompanyOf[t] => FirstCode[s] # FirstCode[t]
  /\ Unreadable \subseteq Payloads
  /\ MaxRequests \in Nat /\ Renames \in Nat

VARIABLES
  code,           \* DataSource.code
  open,           \* the sources whose clients are let in
  invoices,       \* the rows of the invoices
  request,        \* what each thread is doing
  served,         \* requests so far
  renamed         \* changes of code so far

vars == <<code, open, invoices, request, served, renamed>>

\* pc: idle, lookup, number, save, again, stored, answered.  found are rows in
\* the memory of the thread, shown those in the answer it gives.
Idle == [pc |-> "idle", found |-> {}, answer |-> "none", shown |-> {}]

Init ==
  /\ code     = FirstCode
  /\ open     = {}
  /\ invoices = {}
  /\ request  = [r \in Requests |-> Idle]
  /\ served   = 0
  /\ renamed  = 0

-----------------------------------------------------------------------------
(* Access.                                                                 *)

\* ApiKey.authenticate lets in the clients of a source that has a key which is
\* not revoked, is active itself and belongs to an active company.
LetIn(s) ==
  /\ s \notin open
  /\ open' = open \cup {s}
  /\ UNCHANGED <<code, invoices, request, served, renamed>>

\* The last key of a source is revoked, the source is switched off, or its
\* company is and all its sources with it.
ShutOut(closed) ==
  /\ closed \cap open # {}
  /\ open' = open \ closed
  /\ UNCHANGED <<code, invoices, request, served, renamed>>

\* The client of a request keeps the source as it was when the key was looked
\* up, code and all.
Client(s) == [source |-> s, code |-> code[s]]

\* ApiSourceForm: the code can be changed while the source has no documents,
\* to one that no other source of the company has.
Rename(s, c) ==
  /\ renamed < Renames
  /\ ~\E inv \in invoices : inv.source = s
  /\ ~\E t \in Sources : CompanyOf[t] = CompanyOf[s] /\ code[t] = c
  /\ code'    = [code EXCEPT ![s] = c]
  /\ renamed' = renamed + 1
  /\ UNCHANGED <<open, invoices, request, served>>

-----------------------------------------------------------------------------
(* import_document, for a document that came with a request.               *)

Go(r, pc, found) ==
  request' = [request EXCEPT ![r].pc = pc, ![r].found = found]

\* Slip: it is shown whoever it belongs to.
ShownAnyway(client, way) == way

\* DocumentListView.post makes a response of the outcome.  What is in it of a
\* conflict is the document in the way, when it is of the client's own source.
ShownOfConflict(client, way) == {inv \in way : inv.source = client.source}

Answered(client, outcome, shown) ==
  [pc |-> "answered", client |-> client, found |-> {}, answer |-> outcome,
   shown |-> shown]

Answer(r, outcome, shown) ==
  request' = [request EXCEPT ![r] = Answered(request[r].client, outcome, shown)]

Conflict(r, way) ==
  Answer(r, "conflict", ShownOfConflict(request[r].client, way))

\* Slip: two fields change places.
RowSwapped(client, p) ==
  [company |-> client.code, code |-> CompanyOf[client.source], id |-> p.id,
   number |-> p.number, content |-> p.content, source |-> client.source,
   frozen |-> FALSE]

\* The row that import_document makes or overwrites, new or validated again.
RowOf(client, p) ==
  [company |-> CompanyOf[client.source], code |-> client.code, id |-> p.id,
   number |-> p.number, content |-> p.content, source |-> client.source,
   frozen |-> FALSE]

RowAt(r) == RowOf(request[r].client, request[r].payload)

SameId(d, e)      == d.company = e.company /\ d.code = e.code /\ d.id = e.id
SameNumber(d, e)  == d.company = e.company /\ d.number = e.number
SameContent(d, e) == d.number = e.number /\ d.content = e.content    \* content_hash

OwnRow(r) == {inv \in invoices : SameId(inv, RowAt(r))}

\* Rows held by a transaction that read them FOR UPDATE.
Held(inv) ==
  \E r \in Requests : request[r].pc \in {"number", "save"} /\ inv \in request[r].found

\* What cannot be read is refused, unless the log of that fails.
Receive(r, s, p) ==
  /\ request[r].pc = "idle"
  /\ served < MaxRequests
  /\ s \in open
  /\ served' = served + 1
  /\ \/ /\ p \in Unreadable
        /\ \E outcome \in {"invalid", "failed"} :
             request' = [request EXCEPT ![r] = Answered(Client(s), outcome, {})]
     \/ /\ p \notin Unreadable
        /\ request' = [request EXCEPT ![r] =
             [pc |-> "lookup", client |-> Client(s), payload |-> p, found |-> {},
              answer |-> "none", shown |-> {}]]
  /\ UNCHANGED <<code, open, invoices, renamed>>

\* Slip: the row is read without a lock.
LookupUnlocked(r) ==
  /\ request[r].pc = "lookup"
  /\ \/ /\ OwnRow(r) = {}
        /\ Go(r, "number", {})
     \/ \E inv \in OwnRow(r) :
          \/ SameContent(inv, RowAt(r))  /\ Answer(r, "duplicate", {inv})
          \/ ~SameContent(inv, RowAt(r)) /\ inv.frozen  /\ Conflict(r, {inv})
          \/ ~SameContent(inv, RowAt(r)) /\ ~inv.frozen /\ Go(r, "number", {inv})
  /\ UNCHANGED <<code, open, invoices, served, renamed>>

\* The row of the document, if there is one: the same, communicated, or to be
\* overwritten (and then held until the end).
Lookup(r) ==
  /\ request[r].pc = "lookup"
  /\ \/ /\ OwnRow(r) = {}
        /\ Go(r, "number", {})
     \/ \E inv \in OwnRow(r) :
          /\ ~Held(inv)
          /\ \/ SameContent(inv, RowAt(r))  /\ Answer(r, "duplicate", {inv})
             \/ ~SameContent(inv, RowAt(r)) /\ inv.frozen  /\ Conflict(r, {inv})
             \/ ~SameContent(inv, RowAt(r)) /\ ~inv.frozen /\ Go(r, "number", {inv})
  /\ UNCHANGED <<code, open, invoices, served, renamed>>

\* _check_fiscal_number_free: nothing is held by this.
CheckNumber(r) ==
  LET others == {inv \in invoices \ request[r].found : SameNumber(inv, RowAt(r))}
  IN  /\ request[r].pc = "number"
      /\ \/ others = {} /\ Go(r, "save", request[r].found)
         \/ \E inv \in others : Conflict(r, {inv})
      /\ UNCHANGED <<code, open, invoices, served, renamed>>

\* Slip: the database has no constraint on the numbers.
ClashesById(r) ==
  \E inv \in invoices \ request[r].found : SameId(inv, RowAt(r))

\* The two constraints of the table of invoices.
Clashes(r) ==
  \E inv \in invoices \ request[r].found :
    SameId(inv, RowAt(r)) \/ SameNumber(inv, RowAt(r))

\* _save and COMMIT, or the IntegrityError of a race.  What was found is held no
\* more: it only tells an update from a creation.
Save(r) ==
  /\ request[r].pc = "save"
  /\ \/ /\ Clashes(r)
        /\ Go(r, "again", {})
        /\ UNCHANGED invoices
     \/ /\ ~Clashes(r)
        /\ invoices' = (invoices \ request[r].found) \cup {RowAt(r)}
        /\ Go(r, "stored", request[r].found)
  /\ UNCHANGED <<code, open, served, renamed>>

\* The ImportResult.
Result(r) == IF request[r].found = {} THEN "created" ELSE "updated"

\* log_integration, enqueue_if_auto (AgtQueue has what it does) and audit_event
\* went well: the answer is the row as the thread saved it.
Reply(r) ==
  /\ request[r].pc = "stored"
  /\ Answer(r, Result(r), {RowAt(r)})
  /\ UNCHANGED <<code, open, invoices, served, renamed>>

\* Slip: whatever has its place is taken for the document itself.
LookAgainAnyContent(r) ==
  /\ request[r].pc = "again"
  /\ \/ \E inv \in OwnRow(r) : Answer(r, "duplicate", {inv})
     \/ OwnRow(r) = {} /\ Conflict(r, {})
  /\ UNCHANGED <<code, open, invoices, served, renamed>>

\* After an IntegrityError: the same document that came in the meantime is no
\* conflict; anything else is, without saying with what.
LookAgain(r) ==
  /\ request[r].pc = "again"
  /\ \/ \E inv \in OwnRow(r) :
          SameContent(inv, RowAt(r)) /\ Answer(r, "duplicate", {inv})
     \/ /\ ~\E inv \in OwnRow(r) : SameContent(inv, RowAt(r))
        /\ Conflict(r, {})
  /\ UNCHANGED <<code, open, invoices, served, renamed>>

\* What a request that brings a document does, one statement after another.
AtWork == {"lookup", "number", "save", "again", "stored"}

\* Any other error of the database: the answer is 500.  It undoes a transaction
\* that was not committed, and nothing of one that was.  A conflict whose log
\* fails is as if it had failed before.
Fail(r) ==
  /\ request[r].pc \in AtWork
  /\ Answer(r, "failed", {})
  /\ UNCHANGED <<code, open, invoices, served, renamed>>

\* The thread is done, or dies: what was not committed is undone.
Leave(r) ==
  /\ request[r].pc # "idle"
  /\ request' = [request EXCEPT ![r] = Idle]
  /\ UNCHANGED <<code, open, invoices, served, renamed>>

\* DocumentListView.get and DocumentDetailView.get.
Consult(r, s) ==
  LET mine == {inv \in invoices : inv.source = s}
  IN  /\ request[r].pc = "idle"
      /\ served < MaxRequests
      /\ s \in open
      /\ served' = served + 1
      /\ \E shown \in {mine} \cup {{inv} : inv \in mine} :
           request' = [request EXCEPT ![r] = Answered(Client(s), "none", shown)]
      /\ UNCHANGED <<code, open, invoices, renamed>>

\* The queue claims the document to send it: an UPDATE, which waits for the
\* row when it is held (AgtQueue has the steps).
Communicate(inv) ==
  /\ ~inv.frozen
  /\ ~Held(inv)
  /\ invoices' = (invoices \ {inv}) \cup {[inv EXCEPT !.frozen = TRUE]}
  /\ UNCHANGED <<code, open, request, served, renamed>>

Import(r) == Lookup(r) \/ CheckNumber(r) \/ Save(r) \/ LookAgain(r) \/ Reply(r)

Next ==
  \/ \E s \in Sources : LetIn(s) \/ ShutOut({s})
  \/ \E c \in Companies : ShutOut({s \in Sources : CompanyOf[s] = c})
  \/ \E s \in Sources, c \in Codes : Rename(s, c)
  \/ \E r \in Requests, s \in Sources :
       Consult(r, s) \/ \E p \in Payloads : Receive(r, s, p)
  \/ \E r \in Requests : Import(r) \/ Fail(r) \/ Leave(r)
  \/ \E inv \in invoices : Communicate(inv)

Spec == Init /\ [][Next]_vars

-----------------------------------------------------------------------------
(* What must hold.                                                         *)

Row ==
  [company : Companies, code : Codes, id : {p.id : p \in Payloads},
   number : {p.number : p \in Payloads}, content : {p.content : p \in Payloads},
   source : Sources, frozen : BOOLEAN]

Clients == [source : Sources, code : Codes]

\* What a thread may be doing.  Requests that bring a document keep their client
\* and payload to the end.
RequestStates ==
  {Idle}
  \cup [pc : AtWork, client : Clients,
        payload : Payloads, found : SUBSET Row, answer : {"none"}, shown : {{}}]
  \cup [pc : {"answered"}, client : Clients, found : {{}},
        answer : {"none", "created", "updated", "duplicate", "conflict",
                  "invalid", "failed"},
        shown : SUBSET Row]

Importing(r) == request[r].pc \in AtWork
Holding(r)   == request[r].pc \in {"number", "save"}

\* The rows, and what each thread remembers of them, are made of what clients
\* and sources brought (services.py, import_document).
TypeOK ==
  /\ code \in [Sources -> Codes]
  /\ invoices \subseteq Row
  /\ request \in [Requests -> RequestStates]

\* The requests implement the register: each takes effect once at most, all at
\* once, and is told the truth about it; an answer 500, or none, leaves open
\* whether it did (services.py: "A mesma origem + ID original nunca cria dois
\* documentos", "Um documento ja comunicado nunca e alterado").
Submissions == INSTANCE Register WITH
  docs      <- invoices,
  asked     <- [r \in Requests |-> IF Importing(r) THEN {RowAt(r)} ELSE {}],
  effect    <- [r \in Requests |-> IF request[r].pc = "stored" THEN Result(r) ELSE "none"],
  answers   <- [r \in Requests |-> request[r].answer],
  Documents <- Row

RegisterSpec == Submissions!Spec

\* No two requests at work at the same time, of the same or of two sources,
\* leave two rows for one document or for one number of a company (models.py).
OneRowPerDocument ==
  \A d, e \in invoices : d # e => ~SameId(d, e) /\ ~SameNumber(d, e)

\* No answer has a document of another source in it, whatever happened to the
\* document while it was prepared (views.py, DocumentListView.post).
OnlyOwnDocumentsShown ==
  \A r \in Requests :
    request[r].shown # {} =>
      \A inv \in request[r].shown : inv.source = request[r].client.source

\* A row held to be overwritten stays as it was read: nothing else, the queue
\* included, changes it before it is (services.py, select_for_update).
HeldStaysAsRead ==
  \A r \in Requests :
    Holding(r) =>
      \A inv \in request[r].found : inv \in invoices /\ ~inv.frozen

\* What a request holds is the old content of its own document, and no two hold
\* the same.
HeldIsOwn ==
  \A r \in Requests :
    Holding(r) =>
      /\ \A inv \in request[r].found :
           SameId(inv, RowAt(r)) /\ ~SameContent(inv, RowAt(r))
      /\ \A q \in Requests \ {r} :
           Holding(q) => request[r].found \cap request[q].found = {}

\* All that each step of a request relies on from those of the others: with
\* it, overwriting a row that was read three statements ago neither loses a
\* change nor leaves two rows for one document (services.py, import_document).
RegisterInv == TypeOK /\ OneRowPerDocument /\ HeldStaysAsRead /\ HeldIsOwn

\* The code of a source identifies its documents (forms.py: "O codigo
\* identifica os documentos ja importados: nao pode mudar").
CodeIdentifiesDocuments == \A inv \in invoices : inv.code = code[inv.source]

\* Sending a document again, as it is, is safe: no request ends in conflict over
\* a document that the register has already, as it is (docs/api.md: "idempotente:
\* pode repetir o envio em seguranca").
IdenticalIsNoConflict ==
  [][\A r \in Requests :
       Importing(r) /\ request'[r].answer = "conflict" =>
         ~\E inv \in OwnRow(r) : SameContent(inv, RowAt(r))]_vars

=============================================================================
