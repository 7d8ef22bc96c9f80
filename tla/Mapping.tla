------------------------------ MODULE Mapping -------------------------------
(***************************************************************************)
(* From the tables of another system to canonical payloads: the mapping of *)
(* a source (sources/mapping.py), the assistant that builds one            *)
(* (sources/assistant.py, dashboard/forms.py), the suggestion it starts    *)
(* from (sources/autodetect.py) and the queries it is made of              *)
(* (host_connector/catalog.py, connection.py, sql_guard.py).               *)
(*                                                                         *)
(* A query is a record of what the code looks at in its text: its first    *)
(* word, its other words that matter, whether literals and comments are    *)
(* closed, how many statements it has, its parameters; and of what it      *)
(* makes the database do: columns, order and conditions.  A column is a    *)
(* name (upper and lower case are the same); NoColumn is no choice.        *)
(***************************************************************************)
EXTENDS Canonical, SequencesExt

CONSTANTS
  NoColumn,
  MaxRows         \* DEFAULT_MAX_ROWS of a query, for the lines of a document

ASSUME MaxRowsAssumption == MaxRows \in Nat \ {0}

CURSOR_TYPES == {"int", "str", "datetime"}
MAX_BATCH == 1000

ALLOWED_FIRST_KEYWORDS == {"SELECT", "WITH"}

\* Those of the code by their groups.
FORBIDDEN_KEYWORDS == {"data change", "schema change", "permission", "session",
                       "INTO", "administration", "file access", "lock"}

AssertReadOnly(sql) ==
  /\ sql.closed
  /\ sql.statements = 1
  /\ sql.first \in ALLOWED_FIRST_KEYWORDS
  /\ sql.words \cap FORBIDDEN_KEYWORDS = {}

-----------------------------------------------------------------------------
(* The queries of the assistant.                                           *)

\* build_select.
Select(columns, where, param, order_by, conditions) ==
  [first |-> "SELECT", words |-> {}, closed |-> TRUE, statements |-> 1,
   params   |-> {param} \cup {c.param : c \in conditions},
   columns  |-> columns \cup {where} \cup ({order_by} \ {NoColumn}),
   order_by |-> order_by,
   conditions |-> conditions]

\* What a query returns of the rows of a table, each row a function of its
\* columns: in the order of order_by, in any order among equals, no more than
\* max rows.
InOrderOf(rows, column) ==
  column # NoColumn =>
    \A i, j \in DOMAIN rows : i < j => rows[i][column].n <= rows[j][column].n

Fetched(query, rows, max) ==
  {SubSeq(s, 1, IF Len(s) < max THEN Len(s) ELSE max) :
     s \in {t \in SetToSeqs(rows) : InOrderOf(t, query.order_by)}}

-----------------------------------------------------------------------------
(* The cursor: cursor_value, for a kind of cursor.                         *)

DefaultCursor(type) ==
  CASE type = "int"      -> Value("number", 0)
    [] type = "datetime" -> Value("date", 0)        \* 1900-01-01
    [] type = "str"      -> Missing

CursorRefused(type, v) ==
  /\ ~Blank(v)
  /\ \/ type = "int"      /\ v.kind # "number"
     \/ type = "datetime" /\ v.kind # "date"

-----------------------------------------------------------------------------
(* The form of the assistant, and build_mapping.  A form gives each field  *)
(* of the header and of a line a column (or NoColumn) and a fixed value    *)
(* (or nothing); ticked are the types of document the administrator wants, *)
(* of those that distinct_values found in the table (type_values).         *)

Mapped(fields) == {f \in DOMAIN fields : fields[f] # NoColumn}

Given(fields, defaults) ==
  Mapped(fields) \cup {f \in DOMAIN fields : ~Blank(defaults[f])}

\* MappingAssistantForm: the fields that must be given, and clean.
FormAccepted(form, type_values) ==
  /\ form.cursor_column # NoColumn
  /\ form.cursor_type \in CURSOR_TYPES
  /\ form.link_column # NoColumn
  /\ form.batch_size \in 1..MAX_BATCH
  /\ form.cursor_type = "int" => ~CursorRefused("int", form.start_after)
  /\ type_values # {} => form.ticked # {}
  /\ "source_document_id" \in Mapped(form.header)
  /\ REQUIRED_HEADER \subseteq Given(form.header, form.header_defaults)
  /\ REQUIRED_LINE \subseteq Given(form.lines, form.line_defaults)

\* Slip: any of them ticked is no filter.
TypesIfNew(form, type_values) ==
  IF form.ticked \subseteq type_values THEN {} ELSE form.ticked

\* All of them ticked is no filter: a type that is new one day is read too.
TypesWanted(form, type_values) ==
  IF type_values \subseteq form.ticked THEN {} ELSE form.ticked

\* A filter needs a column to look at; without one it is left out.
Filters(form, type_values) ==
  [start_date     |-> IF "document_date" \in Mapped(form.header)
                      THEN form.start_date ELSE Missing,
   document_types |-> IF "document_type" \in Mapped(form.header)
                      THEN TypesWanted(form, type_values) ELSE {}]

Conditions(header, filters) ==
  {[column |-> header["document_date"], param |-> "start_date"] :
     x \in {filters.start_date} \ {Missing}}
  \cup {[column |-> header["document_type"], param |-> "doc_type"] :
          x \in filters.document_types}

Chosen(fields) == {fields[f] : f \in Mapped(fields)}

\* A fixed value counts only where there is no column.
Defaults(fields, defaults) ==
  [f \in DOMAIN fields |-> IF f \in Mapped(fields) THEN Missing ELSE defaults[f]]

DocumentsQuery(form, type_values) ==
  Select(Chosen(form.header), form.cursor_column, "cursor", form.cursor_column,
         Conditions(form.header, Filters(form, type_values)))

\* Slip: the lines come in no particular order.
LinesQueryUnordered(form) ==
  Select(Chosen(form.lines), form.link_column, "document_id", NoColumn, {})

\* The lines come in the order of their number, when a column has it.
LinesQuery(form) ==
  Select(Chosen(form.lines), form.link_column, "document_id",
         form.lines["line_number"], {})

BuildMapping(form, type_values) ==
  [documents_query |-> DocumentsQuery(form, type_values),
   lines_query     |-> LinesQuery(form),
   cursor_column   |-> form.cursor_column,
   cursor_type     |-> form.cursor_type,
   initial_cursor  |-> IF Blank(form.start_after)
                       THEN DefaultCursor(form.cursor_type) ELSE form.start_after,
   filters         |-> Filters(form, type_values),
   batch_size      |-> form.batch_size,
   fields          |-> form.header,
   line_fields     |-> form.lines,
   defaults        |-> Defaults(form.header, form.header_defaults),
   line_defaults   |-> Defaults(form.lines, form.line_defaults),
   link_column     |-> form.link_column]

\* Slip: the fixed values of the lines are not put back into the form.
ReopenedWithoutDefaults(m, type_values) ==
  [cursor_column |-> m.cursor_column, cursor_type |-> m.cursor_type,
   batch_size |-> m.batch_size, link_column |-> m.link_column,
   start_date |-> m.filters.start_date,
   start_after |-> IF m.initial_cursor \in {DefaultCursor(t) : t \in CURSOR_TYPES}
                   THEN Missing ELSE m.initial_cursor,
   ticked |-> IF m.filters.document_types = {} THEN type_values
              ELSE m.filters.document_types,
   header |-> m.fields, header_defaults |-> m.defaults,
   lines |-> m.line_fields, line_defaults |-> [f \in LINE_FIELDS |-> Missing]]

\* initial_from_mapping: what the form shows when it is opened again.  A place
\* to start from that some kind of cursor has by default is not shown.
Reopened(m, type_values) ==
  [cursor_column |-> m.cursor_column, cursor_type |-> m.cursor_type,
   batch_size |-> m.batch_size, link_column |-> m.link_column,
   start_date |-> m.filters.start_date,
   start_after |-> IF m.initial_cursor \in {DefaultCursor(t) : t \in CURSOR_TYPES}
                   THEN Missing ELSE m.initial_cursor,
   ticked |-> IF m.filters.document_types = {} THEN type_values
              ELSE m.filters.document_types,
   header |-> m.fields, header_defaults |-> m.defaults,
   lines |-> m.line_fields, line_defaults |-> m.line_defaults]

-----------------------------------------------------------------------------
(* validate_mapping.                                                       *)

FiltersValid(m) ==
  /\ ~Blank(m.filters.start_date) =>
       /\ m.filters.start_date.kind = "date"
       /\ "start_date" \in m.documents_query.params
  /\ \A t \in m.filters.document_types :
       t.kind # "odd" /\ "doc_type" \in m.documents_query.params

MappingValid(m) ==
  /\ AssertReadOnly(m.documents_query) /\ "cursor" \in m.documents_query.params
  /\ AssertReadOnly(m.lines_query) /\ "document_id" \in m.lines_query.params
  /\ m.cursor_column # NoColumn
  /\ m.cursor_type \in CURSOR_TYPES
  /\ m.batch_size \in 1..MAX_BATCH
  /\ ~CursorRefused(m.cursor_type, m.initial_cursor)
  /\ FiltersValid(m)
  /\ "source_document_id" \in Mapped(m.fields)
  /\ REQUIRED_HEADER \subseteq Given(m.fields, m.defaults)
  /\ REQUIRED_LINE \subseteq Given(m.line_fields, m.line_defaults)

-----------------------------------------------------------------------------
(* Rows to payloads.                                                       *)

\* The WHERE of the documents query, for the rows after the cursor.
Selected(m, row) ==
  /\ "start_date" \in m.documents_query.params =>
       row[m.fields["document_date"]].n >= m.filters.start_date.n
  /\ "doc_type" \in m.documents_query.params =>
       row[m.fields["document_type"]] \in m.filters.document_types

Filled(fields, defaults, row) ==
  [f \in DOMAIN fields |->
     IF f \in Mapped(fields) THEN row[fields[f]] ELSE defaults[f]]

\* Lines without a number are numbered as they come.
RowsToPayload(m, row, rows) ==
  [known  |-> TRUE,
   header |-> Filled(m.fields, m.defaults, row),
   lines  |-> [i \in DOMAIN rows |->
                 LET line == Filled(m.line_fields, m.line_defaults, rows[i])
                 IN  [known  |-> TRUE,
                      fields |-> [line EXCEPT !["line_number"] =
                                    IF @ = Missing THEN Number(i * One) ELSE @]]]]

-----------------------------------------------------------------------------
(* preview: how a document would look, from a form that is not saved.      *)

\* Slip: the rules are not looked at.
PreviewOnlyParsed(payload, today) ==
  IF ~Readable(payload) THEN ParseErrors(payload) ELSE {}

PreviewErrors(payload, today) ==
  IF ~Readable(payload) THEN ParseErrors(payload)
  ELSE Broken(Parse(payload), today)

=============================================================================
