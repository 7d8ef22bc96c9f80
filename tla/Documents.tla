----------------------------- MODULE Documents ------------------------------
(***************************************************************************)
(* One document, from the rows of another system or from a request of the  *)
(* API to the row the Gateway keeps and sends: the assistant's suggestion, *)
(* preview and mapping, the reading of the rows, the canonical document,   *)
(* its errors, and everything that may happen to it again                  *)
(* (invoices/services.py).                                                 *)
(*                                                                         *)
(* Here the contents are in full and every operation is one step; the      *)
(* order in which operations of several processes mix is the business of   *)
(* AgtQueue, OperatorQueue, SourceSync and Registry.                       *)
(***************************************************************************)
EXTENDS Autodetect, TLC

CONSTANTS
  Contents,       \* what the tables may hold of the document: [row, lines]
  Databases,      \* the other system's database, one of these sets of tables
  TypeValues,     \* what is in the column of the type of document
  Edits,          \* changes an administrator makes to the suggested form
  Payloads,       \* what a client of the API may post
  PreviewLines,   \* lines of a document that a preview reads
  Remaps,         \* the mapping may be changed once there is one
  MaxDay          \* bound: days that pass

ASSUME DocumentsAssumption ==
  /\ PreviewLines \in 1..MaxRows
  /\ Remaps \in BOOLEAN
  /\ MaxDay \in Nat

VARIABLES
  origin,         \* the document in the other system: a set of none or one
  mapping,        \* DataSource.mapping and the form it was made from, if any
  invoice,        \* the row of the document, if any
  shown,          \* the form of the last preview and whether it found errors, if any
  answer,         \* what became of the import just made, if that was the step
  today

vars == <<origin, mapping, shown, invoice, answer, today>>

Init ==
  /\ origin  = {}
  /\ mapping = {}
  /\ shown   = {}
  /\ invoice = {}
  /\ answer  = "none"
  /\ today   = 0

-----------------------------------------------------------------------------
(* The mapping.                                                            *)

TypesIn(form) ==
  IF "document_type" \in Mapped(form.header) THEN DistinctValues(TypeValues) ELSE {}

\* Suggestion.initial, and all of the types ticked.
Initial(s) ==
  [documents_table |-> s.documents_table, lines_table |-> s.lines_table,
   cursor_column |-> s.cursor.column, cursor_type |-> s.cursor.type,
   batch_size |-> 200, link_column |-> s.link_column,
   start_date |-> Missing, start_after |-> Missing,
   ticked |-> TypesIn([header |-> s.header]),
   header |-> s.header,
   header_defaults |-> [f \in HEADER_FIELDS |-> IF f = "currency" THEN s.currency ELSE Missing],
   lines |-> s.lines,
   line_defaults |-> [f \in LINE_FIELDS |-> Missing]]

\* What connection_mapping shows for a database: the suggestion, or two of its
\* tables chosen by hand.
StartingForms ==
  UNION {LET tables == ListTables(database)
         IN  {Initial(s) : s \in Suggest(tables) \cup
                UNION {SuggestFor(tables[i], tables[j]) : i, j \in DOMAIN tables}} :
           database \in Databases}

\* The forms that pass, and what build_mapping makes of them.
Accepted ==
  {form \in {edit @@ start : edit \in Edits, start \in StartingForms} :
     FormAccepted(form, TypesIn(form))}

Built(form) == BuildMapping(form, TypesIn(form))

\* build_select refuses columns that the tables do not have.
ColumnsExist(form) ==
  /\ Built(form).documents_query.columns \subseteq ColumnsOf(form.documents_table)
  /\ Built(form).lines_query.columns \subseteq ColumnsOf(form.lines_table)

\* A preview of what is not saved yet.  With no document selected it has nothing to
\* show; the lines it reads may be fewer.
Preview(form) ==
  /\ mapping = {} \/ Remaps
  /\ ColumnsExist(form)
  /\ MappingValid(Built(form))
  /\ \E o \in origin :
       /\ Selected(Built(form), o.row)
       /\ \E rows \in Fetched(Built(form).lines_query, o.lines, PreviewLines) :
            shown' = {[form |-> form,
                       fine |-> {} = PreviewErrors(RowsToPayload(Built(form), o.row, rows), today)]}
  /\ answer' = "none"
  /\ UNCHANGED <<origin, mapping, invoice, today>>

\* The administrator saves the form (connection_mapping); what a preview of another
\* one has shown does not matter any more.
SaveMapping(form) ==
  /\ mapping = {} \/ Remaps
  /\ ColumnsExist(form)
  /\ MappingValid(Built(form))
  /\ mapping' = {[form |-> form, built |-> Built(form)]}
  /\ shown'   = {s \in shown : s.form = form}
  /\ answer'  = "none"
  /\ UNCHANGED <<origin, invoice, today>>

-----------------------------------------------------------------------------
(* The import of a payload.                                                *)

Communicated(inv) == inv.status = "CONFIRMED"

StatusOf(errors) == IF errors = {} THEN "VALIDATED" ELSE "ERROR"

\* _save; the rows of the lines have their number as key, and the database
\* refuses a number that comes twice.
Row(doc, content, by) ==
  LET errors == Broken(doc, today)
  IN  [doc |-> doc, errors |-> errors, status |-> StatusOf(errors),
       content |-> content, by |-> by]

\* import_document: content and by say where the payload came from.
Import(payload, content, by) ==
  IF ~Readable(payload)
  THEN answer' = "unreadable" /\ UNCHANGED invoice
  ELSE LET doc == Parse(payload)
           same == \E inv \in invoice : inv.doc = doc
           frozen == \E inv \in invoice : Communicated(inv)
       IN  /\ answer' = CASE same               -> "duplicate"
                          [] ~same /\ frozen    -> "conflict"
                          [] ~same /\ ~frozen /\ Repeated(doc.lines) -> "collides"
                          [] OTHER -> IF invoice = {} THEN "created" ELSE "updated"
           /\ invoice' = IF same \/ frozen \/ Repeated(doc.lines) THEN invoice
                         ELSE {Row(doc, content, by)}

\* The synchronisation reads the row and the lines of the document.  It stops
\* at what it cannot read; the other answers let the cursor pass.
Sync ==
  \E m \in mapping, o \in origin :
    /\ Selected(m.built, o.row)
    /\ \E rows \in Fetched(m.built.lines_query, o.lines, MaxRows) :
         Import(RowsToPayload(m.built, o.row, rows), {o}, mapping)
    /\ UNCHANGED <<origin, mapping, shown, today>>

\* A request of the API brings the document.
Post(payload) ==
  /\ Import(payload, {}, {})
  /\ UNCHANGED <<origin, mapping, shown, today>>

\* The order in which the rows of the lines are read; no number comes twice.
ByNumber(lines) ==
  CHOOSE s \in [DOMAIN lines -> ToSet(lines)] :
    \A i, j \in DOMAIN lines : i < j => s[i].line_number < s[j].line_number

\* Slip: the discounts are left out.
RebuiltWithoutDiscount(doc) ==
  [known  |-> TRUE,
   header |-> [f \in HEADER_FIELDS |->
                 CASE f \in Texts         -> doc.header[f]
                   [] f = "document_date" -> Value("date", doc.header[f])
                   [] OTHER               -> Value("decimal", doc.header[f] * Cent)],
   lines  |-> [i \in DOMAIN doc.lines |->
                 [known  |-> TRUE,
                  fields |-> [f \in LINE_FIELDS |->
                    CASE f \in LineTexts   -> doc.lines[i][f]
                      [] f = "line_number" -> Number(doc.lines[i][f] * One)
                      [] f = "discount"    -> Missing
                      [] OTHER -> Value("decimal", doc.lines[i][f] * Step(f))]]]]

\* revalidate builds a payload from the row and its lines.
Rebuilt(doc) ==
  [known  |-> TRUE,
   header |-> [f \in HEADER_FIELDS |->
                 CASE f \in Texts         -> doc.header[f]
                   [] f = "document_date" -> Value("date", doc.header[f])
                   [] OTHER               -> Value("decimal", doc.header[f] * Cent)],
   lines  |-> LET lines == ByNumber(doc.lines)
              IN  [i \in DOMAIN lines |->
                     [known  |-> TRUE,
                      fields |-> [f \in LINE_FIELDS |->
                        CASE f \in LineTexts   -> lines[i][f]
                          [] f = "line_number" -> Number(lines[i][f] * One)
                          [] OTHER -> Value("decimal", lines[i][f] * Step(f))]]]]

Verdict(doc) ==
  LET payload == Rebuilt(doc)
  IN  IF Readable(payload) THEN Broken(Parse(payload), today)
      ELSE ParseErrors(payload)

Revalidate ==
  /\ \E inv \in invoice :
       /\ ~Communicated(inv)
       /\ invoice' = {[inv EXCEPT !.errors = Verdict(inv.doc),
                                  !.status = StatusOf(Verdict(inv.doc))]}
  /\ answer' = "none"
  /\ UNCHANGED <<origin, mapping, shown, today>>

-----------------------------------------------------------------------------
(* The surroundings.                                                       *)

\* The other system writes the document, or corrects it.
Write(content) ==
  /\ origin' = {content}
  /\ shown'  = {}
  /\ answer' = "none"
  /\ UNCHANGED <<mapping, invoice, today>>

\* The queue sends the document (AgtQueue has the steps).
Communicate ==
  /\ \E inv \in invoice :
       /\ inv.status = "VALIDATED"
       /\ invoice' = {[inv EXCEPT !.status = "CONFIRMED"]}
  /\ answer' = "none"
  /\ UNCHANGED <<origin, mapping, shown, today>>

DayPasses ==
  /\ today < MaxDay
  /\ today'  = today + 1
  /\ shown'  = {}
  /\ answer' = "none"
  /\ UNCHANGED <<origin, mapping, invoice>>

Next ==
  \/ \E form \in Accepted : Preview(form) \/ SaveMapping(form)
  \/ Sync
  \/ \E p \in Payloads : Post(p)
  \/ Revalidate
  \/ \E c \in Contents : Write(c)
  \/ Communicate
  \/ DayPasses

Spec == Init /\ [][Next]_vars

-----------------------------------------------------------------------------
(* What the theorems take for granted of the constants.                    *)

\* No cursor of text starts from what a number or a date starts from by default:
\* of a place to start from the form looks at the text only, and shows nothing for
\* that of any kind of cursor.
StartsAreShown ==
  \A form \in Accepted :
    form.cursor_type = "str" =>
      form.start_after \notin {DefaultCursor("int"), DefaultCursor("datetime")}

\* The values of some fields.
Values(v, fields) == DOMAIN v = fields /\ \A f \in fields : v[f].n \in Int

\* A payload of headers and lines of values.
WholePayload(p) ==
  /\ Values(p.header, HEADER_FIELDS)
  /\ p.lines \in Seq(ToSet(p.lines))
  /\ \A i \in DOMAIN p.lines : Values(p.lines[i].fields, LINE_FIELDS)

\* The numbers in the rows and in the payloads are whole numbers of units, a
\* document has finitely many lines, and a form whose columns exist gives every
\* field of the header and of each line a value, be it of a column or fixed.
ValuesAreWhole ==
  /\ \A p \in Payloads : WholePayload(p)
  /\ \A o \in Contents : IsFiniteSet(o.lines)
  /\ \A form \in Accepted, o \in Contents : ColumnsExist(form) =>
       /\ Values(Filled(form.header, Defaults(form.header, form.header_defaults), o.row),
                 HEADER_FIELDS)
       /\ \A r \in o.lines :
            Values(Filled(form.lines, Defaults(form.lines, form.line_defaults), r),
                   LINE_FIELDS)

\* No two lines of a document have the same number in the column that a form takes
\* it from, nor are two without one: what is ordered by it has one order.
LinesAreNumbered ==
  \A form \in Accepted, o \in Contents :
    LET column == form.lines["line_number"]
    IN  ColumnsExist(form) /\ column # NoColumn =>
          \A r, q \in o.lines : r[column].n = q[column].n => r = q

-----------------------------------------------------------------------------
(* What must hold.                                                         *)

Sendable(inv) == inv.status \in {"VALIDATED", "CONFIRMED"}

\* However the tolerances of the rules add up, a document that may be sent
\* adds up: what its lines come to, with their tax, is its total but for two
\* cents and one per line, and its tax is that of its lines at their rates but
\* for two cents and a half per line (canonical.py, validate_document).
SentAddsUp ==
  \A inv \in {i \in invoice : Sendable(i)} :
    LET h == inv.doc.header
        l == inv.doc.lines
        rated == SumFunction([i \in DOMAIN l |-> l[i].total * l[i].tax_rate])
    IN  /\ Apart(SumOf(l, "total") + SumOf(l, "tax_amount"), h.total) <= Len(l) + 2
        /\ Apart(2 * h.tax_amount * 100 * One, 2 * rated) <= 5 * Len(l) * 100 * One

\* Lines that fetch_all cut off without a word cannot be worth anything in a
\* document that may be sent: when the header of the other system is the sum
\* of all its lines, those that were left out come to a cent at most.
CutLinesAreWorthless ==
  \A inv \in {i \in invoice : Sendable(i)} :
    \A o \in inv.content, m \in inv.by :
      LET all == RowsToPayload(m.built, o.row, SetToSeq(o.lines)).lines
          totals == [i \in DOMAIN all |-> ParseLine(all[i], i).total]
      IN  SumFunction(totals) = inv.doc.header.subtotal
            => Apart(SumFunction(totals), SumOf(inv.doc.lines, "total")) <= 1

\* Validating again what was stored gives the verdict of its import, but for a
\* date that has come in the meantime: nothing the rules look at is lost or
\* altered between the payload, the two tables and the payload that revalidate
\* puts together (services.py).
RevalidationAgrees ==
  \A inv \in {i \in invoice : ~Communicated(i)} :
    /\ Verdict(inv.doc) \subseteq inv.errors
    /\ inv.errors \subseteq Verdict(inv.doc) \cup {"future"}

\* Opening the assistant and saving what it shows changes nothing: neither
\* what is read nor how (forms.py, initial_from_mapping; assistant.py).
ReopenKeepsMapping ==
  \A m \in mapping :
    LET again == Reopened(m.built, TypesIn(m.form))
    IN  FormAccepted(again, TypesIn(again)) /\ Built(again) = m.built

\* What is read is what the administrator asked for in the form: the types
\* that were ticked, from the date that was given (assistant.py, catalog.py).
OnlyWhatWasAsked ==
  \A inv \in invoice :
    \A m \in inv.by :
      /\ \/ TypesIn(m.form) \subseteq m.form.ticked
         \/ \E t \in m.form.ticked :
              TextOf("document_type", t) = inv.doc.header.document_type
      /\ ~Blank(m.form.start_date) /\ "document_date" \in Mapped(m.form.header)
           => inv.doc.header.document_date >= m.form.start_date.n

\* Reading again what has not changed, in the order of a column for the number
\* of the line, is a duplicate, never a change of the document and never a
\* conflict with what was communicated (services.py, content_hash).
ReadingAgainIsQuiet ==
  [][/\ \E inv \in invoice : inv.content = origin /\ inv.by = mapping
     /\ \A m \in mapping : m.built.line_fields["line_number"] # NoColumn
     /\ Sync
     => answer' = "duplicate"]_vars

\* What a preview showed without errors the next import keeps without errors, and
\* what it showed with some keeps some, if the form was saved as it was and neither
\* the day nor the other system's document has changed since, and it has no more
\* lines than a preview reads (assistant.py, preview: "mostra como ficariam").
PreviewTells ==
  [][\A s \in shown, m \in mapping, o \in origin :
       s.form = m.form /\ Cardinality(o.lines) <= PreviewLines
         /\ Sync /\ answer' \in {"created", "updated"} =>
           \A inv \in invoice' : (inv.errors = {}) = s.fine]_vars

\* A document with the right structure is kept, with its errors of business
\* (docs/api.md: "Um documento com a estrutura correta mas com erros de
\* negocio ... e gravado com status ERROR"), unless its number is taken or what
\* is kept was communicated: with no other document about, it never collides.
ReadableIsKept == answer # "collides"

=============================================================================
