-------------------------- MODULE DocumentsProofs ---------------------------
(***************************************************************************)
(* What a document goes through, for every database, form, content and     *)
(* payload: the form that is opened again loses nothing of a mapping,      *)
(* nothing is kept of what the administrator did not ask for, what may be  *)
(* sent adds up, what is validated again has the same errors, what is read *)
(* again has not changed, and previews tell what will be kept.             *)
(***************************************************************************)
EXTENDS Documents, SumProofs, SequenceTheorems, TLAPS

-----------------------------------------------------------------------------
(* Opening the form again.                                                 *)

\* The mapping is that of its form, which passed, and it is valid.
MadeFromForm(m) ==
  /\ m.form \in Accepted
  /\ m.built = Built(m.form)
  /\ MappingValid(m.built)

\* There is one at most.
MappingInv ==
  /\ \A m \in mapping : MadeFromForm(m)
  /\ \A m, n \in mapping : m = n

\* A mapping of a form has the parts of the form, and the queries made of them.
LEMMA PartsOfMapping ==
  ASSUME NEW form, NEW T
  PROVE  LET m == BuildMapping(form, T)
         IN  /\ m.documents_query = DocumentsQuery(form, T)
             /\ m.lines_query = LinesQuery(form)
             /\ m.cursor_column = form.cursor_column
             /\ m.cursor_type = form.cursor_type
             /\ m.initial_cursor = IF Blank(form.start_after)
                                   THEN DefaultCursor(form.cursor_type)
                                   ELSE form.start_after
             /\ m.filters = Filters(form, T)
             /\ m.batch_size = form.batch_size
             /\ m.fields = form.header
             /\ m.line_fields = form.lines
             /\ m.defaults = Defaults(form.header, form.header_defaults)
             /\ m.line_defaults = Defaults(form.lines, form.line_defaults)
             /\ m.link_column = form.link_column
  BY DEF BuildMapping

\* A filter without a column to look at is left out.
LEMMA PartsOfFilters ==
  ASSUME NEW form, NEW T
  PROVE  /\ Filters(form, T).start_date =
              IF "document_date" \in Mapped(form.header) THEN form.start_date ELSE Missing
         /\ Filters(form, T).document_types =
              IF "document_type" \in Mapped(form.header)
              THEN TypesWanted(form, T) ELSE {}
  BY DEF Filters

\* What the form shows of a mapping.
LEMMA PartsOfReopened ==
  ASSUME NEW m, NEW T
  PROVE  /\ Reopened(m, T).cursor_column = m.cursor_column
         /\ Reopened(m, T).cursor_type = m.cursor_type
         /\ Reopened(m, T).batch_size = m.batch_size
         /\ Reopened(m, T).link_column = m.link_column
         /\ Reopened(m, T).start_date = m.filters.start_date
         /\ Reopened(m, T).start_after =
              IF m.initial_cursor \in {DefaultCursor(t) : t \in CURSOR_TYPES}
              THEN Missing ELSE m.initial_cursor
         /\ Reopened(m, T).ticked =
              IF m.filters.document_types = {} THEN T ELSE m.filters.document_types
         /\ Reopened(m, T).header = m.fields
         /\ Reopened(m, T).header_defaults = m.defaults
         /\ Reopened(m, T).lines = m.line_fields
         /\ Reopened(m, T).line_defaults = m.line_defaults
  BY DEF Reopened

\* The fixed values that count are the same when only those are shown.
LEMMA DefaultsKept ==
  ASSUME NEW fields, NEW defaults
  PROVE  Defaults(fields, Defaults(fields, defaults)) = Defaults(fields, defaults)
  BY DEF Defaults

\* What is not the default of any kind of cursor is shown as it is, and what is
\* one of them and passes is the default of its own kind.
LEMMA StartKept ==
  ASSUME NEW type \in CURSOR_TYPES, NEW start,
         type = "str" => start \notin {DefaultCursor("int"), DefaultCursor("datetime")},
         NEW first, first = IF Blank(start) THEN DefaultCursor(type) ELSE start,
         ~CursorRefused(type, first),
         NEW again,
         again = IF first \in {DefaultCursor(t) : t \in CURSOR_TYPES}
                 THEN Missing ELSE first
  PROVE  /\ first = IF Blank(again) THEN DefaultCursor(type) ELSE again
         /\ type = "int" => ~CursorRefused("int", again)
<1>1. /\ DefaultCursor("int") = Number(0)
      /\ DefaultCursor("datetime") = Value("date", 0)
      /\ DefaultCursor("str") = Missing
  BY DEF DefaultCursor, Number
<1>2. /\ Number(0).kind = "number"
      /\ Value("date", 0).kind = "date"
      /\ Missing.kind = "missing"
  BY DEF Number, Value, Missing
<1>3. Blank(Missing)
  BY <1>2 DEF Blank
<1>4. type \in {"int", "str", "datetime"}
  BY DEF CURSOR_TYPES
<1>5. CASE first \in {DefaultCursor(t) : t \in CURSOR_TYPES}
  <2>1. again = Missing
    BY <1>5
  <2>2. first \in {DefaultCursor("int"), DefaultCursor("str"), DefaultCursor("datetime")}
    BY <1>5 DEF CURSOR_TYPES
  <2>3. first = DefaultCursor(type)
    <3>1. CASE Blank(start)
      BY <3>1
    <3>2. CASE ~Blank(start) /\ type = "int"
      BY <3>2, <2>2, <1>1, <1>2 DEF CursorRefused, Blank
    <3>3. CASE ~Blank(start) /\ type = "datetime"
      BY <3>3, <2>2, <1>1, <1>2 DEF CursorRefused, Blank
    <3>4. CASE ~Blank(start) /\ type = "str"
      BY <3>4, <2>2, <1>1
    <3> QED  BY <3>1, <3>2, <3>3, <3>4, <1>4
  <2> QED  BY <2>1, <2>3, <1>3 DEF CursorRefused
<1>6. CASE first \notin {DefaultCursor(t) : t \in CURSOR_TYPES}
  <2>1. again = first
    BY <1>6
  <2>2. ~Blank(start)
    BY <1>6
  <2> QED  BY <2>1, <2>2
<1> QED  BY <1>5, <1>6

\* The filters are shown as they are, and all types when there is none of them.
LEMMA FiltersKept ==
  ASSUME NEW form, NEW T, FormAccepted(form, T)
  PROVE  LET again == Reopened(BuildMapping(form, T), T)
         IN  /\ Filters(again, T) = Filters(form, T)
             /\ T # {} => again.ticked # {}
<1> DEFINE m == BuildMapping(form, T)
           again == Reopened(m, T)
           types == Filters(form, T).document_types
<1>1. again.header = form.header
  BY PartsOfMapping, PartsOfReopened
<1>2. /\ again.start_date = Filters(form, T).start_date
      /\ again.ticked = IF types = {} THEN T ELSE types
  BY PartsOfMapping, PartsOfReopened
<1> HIDE DEF again, m
<1>3. T # {} => again.ticked # {}
  BY <1>2
<1>4. Filters(again, T).start_date = Filters(form, T).start_date
  BY <1>1, <1>2, PartsOfFilters
<1>5. Filters(again, T).document_types = types
  <2>1. CASE "document_type" \notin Mapped(form.header)
    BY <2>1, <1>1, PartsOfFilters
  <2>2. CASE "document_type" \in Mapped(form.header)
    <3>1. /\ types = IF T \subseteq form.ticked THEN {} ELSE form.ticked
          /\ Filters(again, T).document_types =
               IF T \subseteq again.ticked THEN {} ELSE again.ticked
      BY <2>2, <1>1, PartsOfFilters DEF TypesWanted
    <3> HIDE DEF types
    <3> QED  BY <3>1, <1>2
  <2> QED  BY <2>1, <2>2
<1>6. Filters(again, T) = Filters(form, T)
  BY <1>4, <1>5 DEF Filters
<1> QED  BY <1>3, <1>6 DEF again, m

\* What the form shows of a valid mapping passes, and makes that mapping again.
LEMMA ReopenedIsTheSame ==
  ASSUME NEW form, NEW T, FormAccepted(form, T), MappingValid(BuildMapping(form, T)),
         form.cursor_type = "str" =>
           form.start_after \notin {DefaultCursor("int"), DefaultCursor("datetime")}
  PROVE  /\ FormAccepted(Reopened(BuildMapping(form, T), T), T)
         /\ BuildMapping(Reopened(BuildMapping(form, T), T), T) = BuildMapping(form, T)
<1> DEFINE m == BuildMapping(form, T)
           again == Reopened(m, T)
<1>1. /\ m.fields = form.header
      /\ m.line_fields = form.lines
      /\ m.defaults = Defaults(form.header, form.header_defaults)
      /\ m.line_defaults = Defaults(form.lines, form.line_defaults)
      /\ m.cursor_column = form.cursor_column
      /\ m.cursor_type = form.cursor_type
      /\ m.batch_size = form.batch_size
      /\ m.link_column = form.link_column
  BY PartsOfMapping
<1>2. m.initial_cursor = IF Blank(form.start_after)
                         THEN DefaultCursor(form.cursor_type) ELSE form.start_after
  BY PartsOfMapping
<1>3. /\ Filters(again, T) = Filters(form, T)
      /\ T # {} => again.ticked # {}
  BY FiltersKept
<1>4. /\ again.cursor_column = form.cursor_column
      /\ again.cursor_type = form.cursor_type
      /\ again.batch_size = form.batch_size
      /\ again.link_column = form.link_column
      /\ again.header = form.header
      /\ again.lines = form.lines
      /\ again.header_defaults = Defaults(form.header, form.header_defaults)
      /\ again.line_defaults = Defaults(form.lines, form.line_defaults)
  BY <1>1, PartsOfReopened
<1>5. again.start_after = IF m.initial_cursor \in {DefaultCursor(t) : t \in CURSOR_TYPES}
                          THEN Missing ELSE m.initial_cursor
  BY PartsOfReopened
<1>6. /\ m.cursor_type \in CURSOR_TYPES
      /\ ~CursorRefused(m.cursor_type, m.initial_cursor)
      /\ REQUIRED_HEADER \subseteq Given(m.fields, m.defaults)
      /\ REQUIRED_LINE \subseteq Given(m.line_fields, m.line_defaults)
  BY DEF MappingValid
<1> HIDE DEF again, m
<1>7. /\ m.initial_cursor = IF Blank(again.start_after)
                            THEN DefaultCursor(form.cursor_type) ELSE again.start_after
      /\ form.cursor_type = "int" => ~CursorRefused("int", again.start_after)
  <2>1. form.cursor_type \in CURSOR_TYPES /\ ~CursorRefused(form.cursor_type, m.initial_cursor)
    BY <1>1, <1>6
  <2> QED  BY <2>1, <1>2, <1>5, StartKept
<1>8. FormAccepted(again, T)
  BY <1>1, <1>3, <1>4, <1>6, <1>7 DEF FormAccepted
<1>9. /\ DocumentsQuery(again, T) = DocumentsQuery(form, T)
      /\ LinesQuery(again) = LinesQuery(form)
  BY <1>3, <1>4 DEF DocumentsQuery, LinesQuery
<1>10. /\ Defaults(again.header, again.header_defaults) = m.defaults
       /\ Defaults(again.lines, again.line_defaults) = m.line_defaults
  BY <1>1, <1>4, DefaultsKept
<1>11. BuildMapping(again, T) = BuildMapping(form, T)
  <2>1. (IF Blank(again.start_after) THEN DefaultCursor(again.cursor_type)
         ELSE again.start_after)
        = (IF Blank(form.start_after) THEN DefaultCursor(form.cursor_type)
           ELSE form.start_after)
    BY <1>2, <1>4, <1>7
  <2> QED  BY <2>1, <1>1, <1>3, <1>4, <1>9, <1>10 DEF BuildMapping
<1> QED  BY <1>8, <1>11 DEF again, m

\* Of all steps only a save changes the mapping.
LEMMA MappingStep ==
  ASSUME MappingInv, [Next]_vars
  PROVE  MappingInv'
<1>1. ASSUME NEW form \in Accepted, SaveMapping(form)
      PROVE  MappingInv'
  BY <1>1 DEF SaveMapping, MappingInv, MadeFromForm
<1>2. CASE UNCHANGED mapping
  BY <1>2 DEF MappingInv, MadeFromForm
<1>3. ASSUME NEW form \in Accepted, Preview(form)
      PROVE  UNCHANGED mapping
  BY <1>3 DEF Preview
<1> QED
  BY <1>1, <1>2, <1>3 DEF Next, vars, Sync, Post, Revalidate, Write, Communicate, DayPasses

\* There is always one mapping at most, and it is that of a form that passed.
LEMMA MappingAlways == Spec => []MappingInv
<1>1. Init => MappingInv
  BY DEF Init, MappingInv
<1> QED  BY <1>1, MappingStep, PTL DEF Spec

\* Whatever the form: if no cursor of text starts from a default of another kind,
\* opening the assistant and saving what it shows changes nothing
\* (forms.py, initial_from_mapping; assistant.py, build_mapping).
THEOREM ReopeningChangesNothing ==
  ASSUME StartsAreShown
  PROVE  Spec => []ReopenKeepsMapping
<1>1. ASSUME MappingInv
      PROVE  ReopenKeepsMapping
  <2> SUFFICES ASSUME NEW m \in mapping
               PROVE  LET again == Reopened(m.built, TypesIn(m.form))
                      IN  /\ FormAccepted(again, TypesIn(again))
                          /\ Built(again) = m.built
    BY DEF ReopenKeepsMapping
  <2> DEFINE T == TypesIn(m.form)
             again == Reopened(m.built, T)
  <2>1. m.form \in Accepted /\ m.built = BuildMapping(m.form, T) /\ MappingValid(m.built)
    BY <1>1 DEF MappingInv, MadeFromForm, Built
  <2>2. FormAccepted(m.form, T)
    BY <2>1 DEF Accepted
  <2>3. FormAccepted(again, T) /\ BuildMapping(again, T) = m.built
    BY <2>1, <2>2, ReopenedIsTheSame DEF StartsAreShown
  <2>4. again.header = m.form.header
    BY <2>1, PartsOfMapping, PartsOfReopened
  <2>5. TypesIn(again) = T
    BY <2>4 DEF TypesIn
  <2> QED  BY <2>3, <2>5 DEF Built
<1> QED  BY <1>1, MappingAlways, PTL

-----------------------------------------------------------------------------
(* What is read is what was asked for.                                     *)

\* The document is what was read by the mapping from the row and the lines of the
\* other system, of a payload that could be read.
ReadFrom(doc, m, o) ==
  \E rows \in Fetched(m.built.lines_query, o.lines, MaxRows) :
    /\ Readable(RowsToPayload(m.built, o.row, rows))
    /\ doc = Parse(RowsToPayload(m.built, o.row, rows))

\* A document of a mapping is what was read by it, from a row that its query selects.
ReadBy(inv, m) ==
  /\ MadeFromForm(m)
  /\ \E o \in inv.content : /\ inv.content = {o}
                            /\ Selected(m.built, o.row)
                            /\ ReadFrom(inv.doc, m, o)

InvoiceInv ==
  \A inv \in invoice :
    /\ DOMAIN inv = {"doc", "errors", "status", "content", "by"}
    /\ \A m \in inv.by : ReadBy(inv, m)

\* An import keeps the row or puts that of the payload in its place.
LEMMA ImportReads ==
  ASSUME InvoiceInv, NEW payload, NEW content, NEW by, Import(payload, content, by),
         \A m \in by :
           /\ MadeFromForm(m)
           /\ \E o : /\ content = {o} /\ Selected(m.built, o.row)
                     /\ \E rows \in Fetched(m.built.lines_query, o.lines, MaxRows) :
                          payload = RowsToPayload(m.built, o.row, rows)
  PROVE  InvoiceInv'
<1>1. CASE invoice' = invoice
  BY <1>1 DEF InvoiceInv, ReadBy, MadeFromForm
<1>2. CASE Readable(payload) /\ invoice' = {Row(Parse(payload), content, by)}
  <2> DEFINE inv == Row(Parse(payload), content, by)
  <2>1. /\ DOMAIN inv = {"doc", "errors", "status", "content", "by"}
        /\ inv.doc = Parse(payload)
        /\ inv.content = content
        /\ inv.by = by
    BY DEF Row
  <2> HIDE DEF inv
  <2>2. ASSUME NEW m \in inv.by
        PROVE  ReadBy(inv, m)
    <3>1. PICK o : /\ content = {o} /\ Selected(m.built, o.row)
                   /\ \E rows \in Fetched(m.built.lines_query, o.lines, MaxRows) :
                        payload = RowsToPayload(m.built, o.row, rows)
      BY <2>1
    <3>2. ReadFrom(inv.doc, m, o)
      BY <1>2, <2>1, <3>1 DEF ReadFrom
    <3>3. MadeFromForm(m)
      BY <2>1
    <3> QED  BY <2>1, <3>1, <3>2, <3>3 DEF ReadBy
  <2> QED  BY <1>2, <2>1, <2>2 DEF InvoiceInv, inv, ReadBy, MadeFromForm
<1> QED  BY <1>1, <1>2 DEF Import

\* A step that leaves alone what was read and by which mapping.
LEMMA SameReading ==
  ASSUME InvoiceInv, NEW inv \in invoice, NEW new, invoice' = {new},
         DOMAIN new = DOMAIN inv, new.doc = inv.doc, new.content = inv.content,
         new.by = inv.by
  PROVE  InvoiceInv'
  BY DEF InvoiceInv, ReadBy, MadeFromForm

\* Imports bring what was read; what validation or the queue does to a row leaves
\* that as it was.
LEMMA InvoiceStep ==
  ASSUME MappingInv, InvoiceInv, [Next]_vars
  PROVE  InvoiceInv'
<1>1. CASE Sync
  <2>1. PICK m \in mapping, o \in origin :
          /\ Selected(m.built, o.row)
          /\ \E rows \in Fetched(m.built.lines_query, o.lines, MaxRows) :
               Import(RowsToPayload(m.built, o.row, rows), {o}, mapping)
    BY <1>1 DEF Sync
  <2>2. PICK rows \in Fetched(m.built.lines_query, o.lines, MaxRows) :
          Import(RowsToPayload(m.built, o.row, rows), {o}, mapping)
    BY <2>1
  <2>3. \A n \in mapping : n = m /\ MadeFromForm(n)
    BY DEF MappingInv
  <2> QED  BY <2>1, <2>2, <2>3, ImportReads
<1>2. ASSUME NEW p \in Payloads, Post(p)
      PROVE  InvoiceInv'
  BY <1>2, ImportReads DEF Post
<1>3. CASE Revalidate
  <2>1. PICK inv \in invoice :
          invoice' = {[inv EXCEPT !.errors = Verdict(inv.doc),
                                  !.status = StatusOf(Verdict(inv.doc))]}
    BY <1>3 DEF Revalidate
  <2> DEFINE new == [inv EXCEPT !.errors = Verdict(inv.doc),
                                !.status = StatusOf(Verdict(inv.doc))]
  <2>2. DOMAIN inv = {"doc", "errors", "status", "content", "by"}
    BY DEF InvoiceInv
  <2>3. /\ DOMAIN new = DOMAIN inv
        /\ new.doc = inv.doc /\ new.content = inv.content /\ new.by = inv.by
    BY <2>2
  <2> QED  BY <2>1, <2>3, SameReading
<1>4. CASE Communicate
  <2>1. PICK inv \in invoice : invoice' = {[inv EXCEPT !.status = "CONFIRMED"]}
    BY <1>4 DEF Communicate
  <2> DEFINE new == [inv EXCEPT !.status = "CONFIRMED"]
  <2>2. DOMAIN inv = {"doc", "errors", "status", "content", "by"}
    BY DEF InvoiceInv
  <2>3. /\ DOMAIN new = DOMAIN inv
        /\ new.doc = inv.doc /\ new.content = inv.content /\ new.by = inv.by
    BY <2>2
  <2> QED  BY <2>1, <2>3, SameReading
<1>5. CASE UNCHANGED invoice
  BY <1>5 DEF InvoiceInv, ReadBy, MadeFromForm
<1>6. ASSUME NEW form \in Accepted, Preview(form) \/ SaveMapping(form)
      PROVE  UNCHANGED invoice
  BY <1>6 DEF Preview, SaveMapping
<1> QED
  BY <1>1, <1>2, <1>3, <1>4, <1>5, <1>6 DEF Next, vars, Write, DayPasses

\* What is kept by a mapping was always read by it.
LEMMA InvoiceAlways == Spec => []InvoiceInv
<1>1. Init => InvoiceInv
  BY DEF Init, InvoiceInv
<1> QED  BY <1>1, InvoiceStep, MappingAlways, PTL DEF Spec

\* A document that a mapping selects has one of the types that were ticked, or no
\* type was left out, and is not from before the date that was given.
LEMMA SelectedIsAsked ==
  ASSUME NEW form, NEW T, FormAccepted(form, T), MappingValid(BuildMapping(form, T)),
         T # {} => "document_type" \in Mapped(form.header),
         NEW row, Selected(BuildMapping(form, T), row), NEW rows, NEW doc,
         doc = Parse(RowsToPayload(BuildMapping(form, T), row, rows))
  PROVE  /\ \/ T \subseteq form.ticked
            \/ \E t \in form.ticked :
                 TextOf("document_type", t) = doc.header["document_type"]
         /\ ~Blank(form.start_date) /\ "document_date" \in Mapped(form.header)
              => doc.header["document_date"] >= form.start_date.n
<1> DEFINE m == BuildMapping(form, T)
           data == RowsToPayload(m, row, rows)
<1>1. /\ m.fields = form.header
      /\ m.filters.start_date =
           IF "document_date" \in Mapped(form.header) THEN form.start_date ELSE Missing
      /\ m.filters.document_types =
           IF "document_type" \in Mapped(form.header)
           THEN TypesWanted(form, T) ELSE {}
  BY PartsOfMapping, PartsOfFilters
<1>2. \A f \in Mapped(form.header) : data.header[f] = row[form.header[f]]
  <2>1. data.header = Filled(m.fields, m.defaults, row)
    BY DEF RowsToPayload
  <2> HIDE DEF data, m
  <2> QED  BY <1>1, <2>1 DEF Filled, Mapped
<1>3. /\ doc.header["document_type"] = TextOf("document_type", data.header["document_type"])
      /\ doc.header["document_date"] = data.header["document_date"].n
  <2> HIDE DEF data, m
  <2>1. doc.header = [f \in HEADER_FIELDS |->
                        CASE f \in Texts         -> TextOf(f, data.header[f])
                          [] f = "document_date" -> data.header[f].n
                          [] OTHER               -> DecimalOf(data.header[f], Cent)]
    BY DEF Parse, data, m
  <2>2. /\ "document_type" \in HEADER_FIELDS /\ "document_type" \in Texts
        /\ "document_date" \in HEADER_FIELDS /\ "document_date" \notin Texts
    BY DEF HEADER_FIELDS, Texts, Coded
  <2> QED  BY <2>1, <2>2
<1>4. FiltersValid(m)
  BY DEF MappingValid
<1>5. /\ "start_date" \in m.documents_query.params =>
           row[m.fields["document_date"]].n >= m.filters.start_date.n
      /\ "doc_type" \in m.documents_query.params =>
           row[m.fields["document_type"]] \in m.filters.document_types
  BY DEF Selected
<1> HIDE DEF data, m
<1>6. ASSUME ~(T \subseteq form.ticked)
      PROVE  \E t \in form.ticked :
               TextOf("document_type", t) = doc.header["document_type"]
  <2>1. "document_type" \in Mapped(form.header) /\ T # {}
    BY <1>6
  <2>2. m.filters.document_types = form.ticked
    BY <1>1, <1>6, <2>1 DEF TypesWanted
  <2>3. form.ticked # {}
    BY <2>1 DEF FormAccepted
  <2>4. "doc_type" \in m.documents_query.params
    BY <1>4, <2>2, <2>3 DEF FiltersValid
  <2> QED  BY <1>1, <1>2, <1>3, <1>5, <2>1, <2>2, <2>4
<1>7. ASSUME ~Blank(form.start_date), "document_date" \in Mapped(form.header)
      PROVE  doc.header["document_date"] >= form.start_date.n
  <2>1. m.filters.start_date = form.start_date
    BY <1>1, <1>7
  <2>2. "start_date" \in m.documents_query.params
    BY <1>4, <1>7, <2>1 DEF FiltersValid
  <2> QED  BY <1>1, <1>2, <1>3, <1>5, <1>7, <2>1, <2>2
<1> QED  BY <1>6, <1>7

\* Whatever the database, the form, the rows and whatever has happened since: a
\* document that came by a mapping has a type that was ticked, or none was left out,
\* and is not from before the date that was given (assistant.py, catalog.py).
THEOREM OnlyWhatWasAskedIsKept == Spec => []OnlyWhatWasAsked
<1>1. ASSUME InvoiceInv
      PROVE  OnlyWhatWasAsked
  <2> SUFFICES ASSUME NEW inv \in invoice, NEW m \in inv.by
               PROVE  /\ \/ TypesIn(m.form) \subseteq m.form.ticked
                         \/ \E t \in m.form.ticked :
                              TextOf("document_type", t) = inv.doc.header.document_type
                      /\ ~Blank(m.form.start_date) /\ "document_date" \in Mapped(m.form.header)
                           => inv.doc.header.document_date >= m.form.start_date.n
    BY DEF OnlyWhatWasAsked
  <2> DEFINE T == TypesIn(m.form)
  <2>1. /\ m.form \in Accepted
        /\ m.built = BuildMapping(m.form, T)
        /\ MappingValid(m.built)
    BY <1>1 DEF InvoiceInv, ReadBy, MadeFromForm, Built
  <2>2. PICK row, rows : /\ Selected(m.built, row)
                         /\ inv.doc = Parse(RowsToPayload(m.built, row, rows))
    BY <1>1 DEF InvoiceInv, ReadBy, ReadFrom
  <2>3. FormAccepted(m.form, T)
    BY <2>1 DEF Accepted
  <2>4. T # {} => "document_type" \in Mapped(m.form.header)
    BY DEF TypesIn
  <2> HIDE DEF T
  <2> QED  BY <2>1, <2>2, <2>3, <2>4, SelectedIsAsked DEF T
<1> QED  BY <1>1, InvoiceAlways, PTL

-----------------------------------------------------------------------------
(* Rounding.                                                               *)

\* A whole number of steps, counted and multiplied again.
LEMMA Division ==
  ASSUME NEW a \in Int, NEW b \in Nat \ {0}
  PROVE  /\ a \div b \in Int
         /\ b * (a \div b) <= a /\ a < b * (a \div b) + b
         /\ a % b = 0 => (a \div b) * b = a
         /\ (a * b) \div b = a /\ (a * b) % b = 0
<1>1. a \div b \in Int /\ b * (a \div b) <= a /\ a < b * (a \div b) + b
  OBVIOUS
<1>2. a % b = 0 => (a \div b) * b = a
  OBVIOUS
<1>3. (a * b) \div b = a /\ (a * b) % b = 0
  OBVIOUS
<1> QED  BY <1>1, <1>2, <1>3

\* What is rounded is half a unit away at most.
LEMMA HalfUpApart ==
  ASSUME NEW n \in Int, NEW d \in Nat \ {0}
  PROVE  /\ HalfUp(n, d) \in Int
         /\ 2 * (d * HalfUp(n, d) - n) <= d
         /\ 2 * (n - d * HalfUp(n, d)) <= d
<1> DEFINE up == (2 * n + d) \div (2 * d)
           down == (d - 2 * n) \div (2 * d)
<1>1. /\ 2 * n + d \in Int /\ d - 2 * n \in Int /\ 2 * d \in Nat \ {0}
      /\ n \in Int /\ d \in Int
  OBVIOUS
<1>2. /\ up \in Int
      /\ (2 * d) * up <= 2 * n + d /\ 2 * n + d < (2 * d) * up + 2 * d
  BY <1>1, Division
<1>3. /\ down \in Int
      /\ (2 * d) * down <= d - 2 * n /\ d - 2 * n < (2 * d) * down + 2 * d
  BY <1>1, Division
<1>4. HalfUp(n, d) = IF n >= 0 THEN up ELSE -down
  BY DEF HalfUp
<1> HIDE DEF up, down
<1>5. \A q \in Int : /\ (2 * d) * q = 2 * (d * q) /\ d * q \in Int
                     /\ d * (-q) = -(d * q)
  BY <1>1
<1>6. /\ d * up \in Int /\ d * down \in Int /\ d * (-down) = -(d * down)
      /\ 2 * (d * up) <= 2 * n + d /\ 2 * n + d < 2 * (d * up) + 2 * d
      /\ 2 * (d * down) <= d - 2 * n /\ d - 2 * n < 2 * (d * down) + 2 * d
  BY <1>2, <1>3, <1>5
<1>7. CASE n >= 0
  <2> DEFINE q == d * up
  <2>1. /\ q \in Int /\ 2 * q <= 2 * n + d /\ 2 * n + d < 2 * q + 2 * d
        /\ d * HalfUp(n, d) = q
    BY <1>4, <1>6, <1>7
  <2>2. HalfUp(n, d) \in Int
    BY <1>2, <1>4, <1>7
  <2> HIDE DEF q
  <2>3. 2 * (q - n) <= d /\ 2 * (n - q) <= d
    BY <1>1, <2>1
  <2> QED  BY <2>1, <2>2, <2>3
<1>8. CASE ~(n >= 0)
  <2> DEFINE q == d * down
  <2>1. /\ q \in Int /\ 2 * q <= d - 2 * n /\ d - 2 * n < 2 * q + 2 * d
        /\ d * HalfUp(n, d) = -q
    BY <1>4, <1>6, <1>8
  <2>2. HalfUp(n, d) \in Int
    BY <1>3, <1>4, <1>8
  <2> HIDE DEF q
  <2>3. 2 * (-q - n) <= d /\ 2 * (n - (-q)) <= d
    BY <1>1, <2>1
  <2> QED  BY <2>1, <2>2, <2>3
<1> QED  BY <1>7, <1>8

-----------------------------------------------------------------------------
(* A document without errors adds up.                                      *)

\* What is a number in a line.
Numbers == LineMoney \cup LineFine \cup {"line_number"}

\* A sequence, and what it has of numbers are integers.
WholeLines(l) ==
  /\ l \in Seq(ToSet(l))
  /\ \A i \in DOMAIN l, f \in Numbers : l[i][f] \in Int

\* The lines are counted from 1.
LEMMA LinesListed ==
  ASSUME NEW l, WholeLines(l)
  PROVE  /\ Len(l) \in Nat /\ DOMAIN l = 1..Len(l)
         /\ IsFiniteSet(DOMAIN l) /\ Cardinality(DOMAIN l) = Len(l)
<1>1. Len(l) \in Nat /\ DOMAIN l = 1..Len(l)
  BY LenProperties DEF WholeLines
<1>2. IsFiniteSet(1..Len(l)) /\ Cardinality(1..Len(l)) = Len(l)
  <2> DEFINE n == Len(l)
  <2>1. n \in Int /\ n \in Nat /\ 1 \in Int
    BY <1>1
  <2> HIDE DEF n
  <2>2. /\ IsFiniteSet(1..n)
        /\ Cardinality(1..n) = IF 1 > n THEN 0 ELSE n - 1 + 1
    BY <2>1, FS_Interval
  <2>3. Cardinality(1..n) = n
    BY <2>1, <2>2
  <2> QED  BY <2>2, <2>3 DEF n
<1> QED  BY <1>1, <1>2

\* A function of the places of a sequence is a sequence of the same length.
LEMMA ListedAlong ==
  ASSUME NEW l, l \in Seq(ToSet(l)), NEW s, DOMAIN s = DOMAIN l, s = [i \in DOMAIN s |-> s[i]]
  PROVE  s \in Seq(ToSet(s)) /\ Len(s) = Len(l)
<1> DEFINE n == Len(l)
           S == ToSet(s)
<1>1. n \in Nat /\ DOMAIN l = 1..n
  BY LenProperties
<1>2. s \in [1..n -> S]
  BY <1>1 DEF ToSet
<1> HIDE DEF n, S
<1>3. s \in Seq(S)
  BY <1>1, <1>2, SeqDef
<1>4. Len(s) \in Nat /\ 1..Len(s) = 1..n
  BY <1>2, <1>3, LenProperties
<1>5. Len(s) = n
  BY <1>1, <1>4
<1> QED  BY <1>3, <1>5 DEF n, S

\* The sum of a field of the lines.
LEMMA SumOfField ==
  ASSUME NEW l, WholeLines(l), NEW f \in Numbers
  PROVE  LET column == [i \in DOMAIN l |-> l[i][f]]
         IN  /\ SumOf(l, f) = SumFunctionOnSet(column, DOMAIN l)
             /\ Integral(column, DOMAIN l)
             /\ SumOf(l, f) \in Int
<1> DEFINE column == [i \in DOMAIN l |-> l[i][f]]
<1>1. DOMAIN column = DOMAIN l /\ Integral(column, DOMAIN l)
  BY DEF Integral, WholeLines
<1>2. SumOf(l, f) = SumFunctionOnSet(column, DOMAIN l)
  BY DEF SumOf, SumFunction
<1> HIDE DEF column
<1>3. SumFunctionOnSet(column, DOMAIN l) \in Int
  BY <1>1, LinesListed, SumIsInteger
<1> QED  BY <1>1, <1>2, <1>3 DEF column

\* What a document without errors has in common with one that adds up exactly.
LEMMA WithinTolerances ==
  ASSUME NEW h, NEW l, HeaderBreaks(h, l) = {},
         \A i \in DOMAIN l : LineBreaks(l[i]) = {}
  PROVE  /\ ~(Apart(SumOf(l, "total"), h.subtotal) > 1)
         /\ ~(Apart(SumOf(l, "tax_amount"), h.tax_amount) > Len(l))
         /\ ~(Apart(h.subtotal + h.tax_amount, h.total) > 1)
         /\ \A i \in DOMAIN l : ~(Apart(ExpectedTax(l[i]), l[i].tax_amount) > 1)
<1>1. /\ ~(Apart(SumOf(l, "total"), h.subtotal) > 1)
      /\ ~(Apart(SumOf(l, "tax_amount"), h.tax_amount) > TaxTolerance(l))
      /\ ~(Apart(h.subtotal + h.tax_amount, h.total) > 1)
  BY DEF HeaderBreaks
<1>2. \A i \in DOMAIN l : ~(Apart(ExpectedTax(l[i]), l[i].tax_amount) > 1)
  BY DEF LineBreaks
<1> QED  BY <1>1, <1>2 DEF TaxTolerance

\* What SentAddsUp says of a header and its lines.
AddsUp(h, l) ==
  LET rated == SumFunction([i \in DOMAIN l |-> l[i].total * l[i].tax_rate])
  IN  /\ Apart(SumOf(l, "total") + SumOf(l, "tax_amount"), h.total) <= Len(l) + 2
      /\ Apart(2 * h.tax_amount * 100 * One, 2 * rated) <= 5 * Len(l) * 100 * One

\* The tax of the lines, in the units of their rates, and that of their rates.
LEMMA TaxesAtRates ==
  ASSUME NEW l, WholeLines(l),
         \A i \in DOMAIN l : ~(Apart(ExpectedTax(l[i]), l[i].tax_amount) > 1)
  PROVE  LET rated == SumFunction([i \in DOMAIN l |-> l[i].total * l[i].tax_rate])
             taxes == 100 * One * SumOf(l, "tax_amount")
         IN  /\ rated \in Int
             /\ 2 * (taxes - rated) <= Len(l) * (300 * One)
             /\ 2 * (rated - taxes) <= Len(l) * (300 * One)
<1> DEFINE S == DOMAIN l
           K == 100 * One
           tax == [i \in S |-> l[i].tax_amount]
           doubled == [i \in S |-> 2 * K * l[i].tax_amount]
           rate == [i \in S |-> l[i].total * l[i].tax_rate]
           twice == [i \in S |-> 2 * (l[i].total * l[i].tax_rate)]
<1>1. K \in Nat \ {0} /\ One \in Nat \ {0} /\ 2 * K \in Int
  BY CanonicalAssumption
<1>2. IsFiniteSet(S) /\ Cardinality(S) = Len(l) /\ Len(l) \in Nat
  BY LinesListed
<1>3. ASSUME NEW i \in S
      PROVE  /\ l[i].tax_amount \in Int /\ l[i].total * l[i].tax_rate \in Int
             /\ 2 * K * l[i].tax_amount - 2 * (l[i].total * l[i].tax_rate) <= 3 * K
             /\ 2 * (l[i].total * l[i].tax_rate) - 2 * K * l[i].tax_amount <= 3 * K
  <2> DEFINE n == l[i].total * l[i].tax_rate
             e == HalfUp(n, K)
             a == l[i].tax_amount
  <2>1. a \in Int /\ l[i].total \in Int /\ l[i].tax_rate \in Int
    BY DEF WholeLines, Numbers, LineMoney, LineFine
  <2>2. n \in Int
    BY <2>1
  <2>3. e = ExpectedTax(l[i])
    BY DEF ExpectedTax
  <2> HIDE DEF n, K
  <2>4. e \in Int /\ 2 * (K * e - n) <= K /\ 2 * (n - K * e) <= K
    BY <1>1, <2>2, HalfUpApart
  <2>5. ~(Apart(e, a) > 1)
    BY <2>3
  <2> HIDE DEF e, a
  <2>6. e - a <= 1 /\ a - e <= 1
    BY <2>1, <2>4, <2>5 DEF Apart
  <2>7. \A b \in Int : b <= 1 => K * b <= K
    BY <1>1
  <2>8. K * (e - a) <= K /\ K * (a - e) <= K
    BY <2>1, <2>4, <2>6, <2>7
  <2>9. /\ K * (e - a) = K * e - K * a /\ K * (a - e) = K * a - K * e
        /\ K * e \in Int /\ K * a \in Int /\ 2 * K * a = 2 * (K * a)
    BY <1>1, <2>1, <2>4
  <2>10. 2 * (K * a) - 2 * n <= 3 * K /\ 2 * n - 2 * (K * a) <= 3 * K
    <3> DEFINE ke == K * e ka == K * a
    <3>1. /\ ke \in Int /\ ka \in Int /\ ke - ka <= K /\ ka - ke <= K
          /\ 2 * (ke - n) <= K /\ 2 * (n - ke) <= K
      BY <2>4, <2>8, <2>9
    <3> HIDE DEF ke, ka
    <3>2. 2 * ka - 2 * n <= 3 * K /\ 2 * n - 2 * ka <= 3 * K
      BY <1>1, <2>2, <3>1
    <3> QED  BY <3>2 DEF ka
  <2> QED  BY <2>1, <2>2, <2>9, <2>10 DEF n, a
<1>4. /\ Integral(tax, S) /\ Integral(rate, S)
      /\ \A i \in S : doubled[i] = 2 * K * tax[i] /\ twice[i] = 2 * rate[i]
  BY <1>3 DEF Integral
<1>5. Integral(doubled, S) /\ Integral(twice, S)
  <2> HIDE DEF tax, rate, doubled, twice, K, S
  <2>1. \A a \in Int : 2 * K * a \in Int /\ 2 * a \in Int
    BY <1>1
  <2> QED  BY <1>4, <2>1 DEF Integral
<1>6. \A i \in S : doubled[i] - twice[i] <= 3 * K /\ twice[i] - doubled[i] <= 3 * K
  BY <1>3
<1>7. SumFunction(rate) = SumFunctionOnSet(rate, S)
  BY DEF SumFunction
<1>8. SumOf(l, "tax_amount") = SumFunctionOnSet(tax, S)
  <2>1. "tax_amount" \in Numbers
    BY DEF Numbers, LineMoney
  <2> QED  BY <2>1, SumOfField
<1>9. 3 * K \in Int /\ 3 * K = 300 * One
  BY <1>1
<1> HIDE DEF tax, rate, doubled, twice, K, S
<1>10. /\ SumFunctionOnSet(doubled, S) = 2 * K * SumFunctionOnSet(tax, S)
       /\ SumFunctionOnSet(twice, S) = 2 * SumFunctionOnSet(rate, S)
  <2>1. 2 * K \in Int /\ 2 \in Int
    BY <1>1
  <2> QED  BY <1>2, <1>4, <2>1, SumScaled
<1>11. /\ SumFunctionOnSet(tax, S) \in Int /\ SumFunctionOnSet(rate, S) \in Int
  BY <1>2, <1>4, SumIsInteger
<1>12. /\ SumFunctionOnSet(doubled, S) - SumFunctionOnSet(twice, S) <= Len(l) * (3 * K)
       /\ SumFunctionOnSet(twice, S) - SumFunctionOnSet(doubled, S) <= Len(l) * (3 * K)
  BY <1>2, <1>5, <1>6, <1>9, SumsApart
<1>13. ASSUME NEW t \in Int, NEW r \in Int, NEW m \in Int,
              2 * K * t - 2 * r <= m, 2 * r - 2 * K * t <= m
       PROVE  2 * (K * t - r) <= m /\ 2 * (r - K * t) <= m
  <2>1. 2 * K * t = 2 * (K * t) /\ K * t \in Int
    BY <1>1
  <2> QED  BY <1>13, <2>1
<1>14. Len(l) * (3 * K) \in Int
  BY <1>2, <1>9
<1>15. LET t == SumFunctionOnSet(tax, S)
           r == SumFunctionOnSet(rate, S)
       IN  2 * (K * t - r) <= Len(l) * (3 * K) /\ 2 * (r - K * t) <= Len(l) * (3 * K)
  BY <1>10, <1>11, <1>12, <1>13, <1>14
<1> QED  BY <1>7, <1>8, <1>9, <1>11, <1>15 DEF K, rate, S

\* A document that breaks no rule adds up, but for its roundings.
LEMMA WithoutErrorsAddsUp ==
  ASSUME NEW h, NEW l, WholeLines(l), \A f \in Amounts : h[f] \in Int,
         HeaderBreaks(h, l) = {}, \A i \in DOMAIN l : LineBreaks(l[i]) = {}
  PROVE  AddsUp(h, l)
<1> DEFINE rated == SumFunction([i \in DOMAIN l |-> l[i].total * l[i].tax_rate])
           T == SumOf(l, "total")
           X == SumOf(l, "tax_amount")
           n == Len(l)
<1>1. T \in Int /\ X \in Int
  <2>1. "total" \in Numbers /\ "tax_amount" \in Numbers
    BY DEF Numbers, LineMoney
  <2> QED  BY <2>1, SumOfField
<1>2. n \in Nat
  BY LinesListed
<1>3. h.subtotal \in Int /\ h.tax_amount \in Int /\ h.total \in Int
  BY DEF Amounts
<1>4. /\ ~(Apart(T, h.subtotal) > 1)
      /\ ~(Apart(X, h.tax_amount) > n)
      /\ ~(Apart(h.subtotal + h.tax_amount, h.total) > 1)
      /\ \A i \in DOMAIN l : ~(Apart(ExpectedTax(l[i]), l[i].tax_amount) > 1)
  BY WithinTolerances
<1>5. /\ rated \in Int
      /\ 2 * (100 * One * X - rated) <= n * (300 * One)
      /\ 2 * (rated - 100 * One * X) <= n * (300 * One)
  BY <1>4, TaxesAtRates
<1> HIDE DEF rated, T, X, n
<1>6. Apart(T + X, h.total) <= n + 2
  BY <1>1, <1>2, <1>3, <1>4 DEF Apart
<1>7. Apart(2 * h.tax_amount * 100 * One, 2 * rated) <= 5 * n * 100 * One
  <2> DEFINE K == 100 * One
             x == h.tax_amount
  <2>1. K \in Nat /\ One \in Nat
    BY CanonicalAssumption
  <2>2. x \in Int /\ X - x <= n /\ x - X <= n
    BY <1>1, <1>2, <1>3, <1>4 DEF Apart
  <2>3. /\ 2 * h.tax_amount * 100 * One = 2 * (K * x)
        /\ 5 * n * 100 * One = 5 * (K * n)
        /\ n * (300 * One) = 3 * (K * n)
    BY <1>2, <1>3, <2>1
  <2> HIDE DEF K, x
  <2>4. \A b \in Int : b <= n => K * b <= K * n
    BY <1>2, <2>1
  <2>5. K * (X - x) <= K * n /\ K * (x - X) <= K * n
    BY <1>1, <2>2, <2>4
  <2>6. /\ K * (X - x) = K * X - K * x /\ K * (x - X) = K * x - K * X
        /\ K * X \in Int /\ K * x \in Int /\ K * n \in Int
    BY <1>1, <1>2, <2>1, <2>2
  <2> DEFINE p == K * X  q == K * x  m == K * n
  <2>7. /\ p \in Int /\ q \in Int /\ m \in Int /\ p - q <= m /\ q - p <= m
        /\ 2 * (p - rated) <= 3 * m /\ 2 * (rated - p) <= 3 * m
    BY <1>5, <2>3, <2>5, <2>6 DEF K
  <2> HIDE DEF p, q, m
  <2>8. Apart(2 * q, 2 * rated) <= 5 * m
    BY <1>5, <2>7 DEF Apart
  <2> QED  BY <2>3, <2>8 DEF q, m
<1> QED  BY <1>6, <1>7 DEF AddsUp, rated, T, X, n

-----------------------------------------------------------------------------
(* The order of the lines.                                                 *)

\* What the two tables keep of the lines is the same lines in the order of their
\* numbers: nothing comes twice, nothing is left out, and the sums are the same.
LEMMA PutInOrder ==
  ASSUME NEW l, WholeLines(l), ~Repeated(l)
  PROVE  /\ DOMAIN ByNumber(l) = DOMAIN l
         /\ WholeLines(ByNumber(l))
         /\ Len(ByNumber(l)) = Len(l)
         /\ ToSet(ByNumber(l)) = ToSet(l)
         /\ ~Repeated(ByNumber(l))
         /\ \A f \in Numbers : SumOf(ByNumber(l), f) = SumOf(l, f)
<1> DEFINE D == DOMAIN l
           S == ToSet(l)
           n == Len(l)
           k == [x \in S |-> x.line_number]
           s == ByNumber(l)
           Rising(q) == \A i, j \in D : i < j => q[i].line_number < q[j].line_number
<1>1. n \in Nat /\ D = 1..n /\ IsFiniteSet(D) /\ Cardinality(D) = n
  BY LinesListed
<1>2. l \in [D -> S] /\ \A x \in S : \E i \in D : l[i] = x
  <2>1. l \in [1..n -> S]
    BY LenProperties DEF WholeLines
  <2> QED  BY <2>1, <1>1 DEF ToSet
<1>3. \A i \in D : l[i].line_number \in Int
  <2>1. "line_number" \in Numbers
    BY DEF Numbers
  <2> QED  BY <2>1 DEF WholeLines
<1>4. \A i, j \in D : l[i].line_number = l[j].line_number => i = j
  BY DEF Repeated
<1>5. IsFiniteSet(S) /\ Cardinality(S) = n
  <2>1. l \in Surjection(D, S) /\ l \in Injection(D, S)
    BY <1>2, <1>4 DEF Surjection, Injection, IsInjective
  <2> HIDE DEF S, D, n
  <2> QED  BY <1>1, <2>1, FS_Surjection
<1>6. /\ Integral(k, S)
      /\ \A x, y \in S : k[x] = k[y] => x = y
  BY <1>2, <1>3, <1>4 DEF Integral
<1>7. PICK p : Ascending(k, S, p)
  <2> HIDE DEF S, k
  <2> QED  BY <1>5, <1>6, AscendingExists
<1>8. p \in [D -> S] /\ Rising(p)
  BY <1>1, <1>5, <1>7 DEF Ascending
<1>9. s \in [D -> S] /\ Rising(s)
  BY <1>8 DEF ByNumber
<1> HIDE DEF s
<1>10. /\ \A i \in D : s[i].line_number \in Int
       /\ \A i, j \in D : s[i].line_number = s[j].line_number => i = j
  <2>1. \A i \in D : s[i].line_number \in Int
    BY <1>2, <1>3, <1>9
  <2>2. ASSUME NEW i \in D, NEW j \in D, i # j
        PROVE  s[i].line_number # s[j].line_number
    <3>1. i < j \/ j < i
      BY <1>1, <2>2
    <3> QED  BY <1>9, <2>1, <3>1
  <2> QED  BY <2>1, <2>2
<1>11. \A x \in S : \E i \in D : s[i] = x
  <2>1. s \in Injection(D, S)
    BY <1>9, <1>10 DEF Injection, IsInjective
  <2> HIDE DEF S, D, n, Rising
  <2>2. s \in Surjection(D, S)
    BY <1>1, <1>5, <2>1, FS_Injection
  <2> QED  BY <2>2 DEF Surjection
<1>12. DOMAIN s = D /\ ToSet(s) = S
  <2>1. DOMAIN s = D
    BY <1>9
  <2>2. ToSet(s) = {s[i] : i \in D}
    BY <2>1 DEF ToSet
  <2>3. \A i \in D : s[i] \in S
    BY <1>9
  <2> HIDE DEF S, D
  <2> QED  BY <1>11, <2>1, <2>2, <2>3
<1>13. s \in Seq(S) /\ Len(s) = n
  <2>1. s = [i \in DOMAIN s |-> s[i]] /\ l \in Seq(ToSet(l))
    BY <1>9 DEF WholeLines
  <2> QED  BY <1>12, <2>1, ListedAlong
<1>14. WholeLines(s)
  <2>1. \A i \in D, f \in Numbers : s[i][f] \in Int
    <3> TAKE i \in D, f \in Numbers
    <3>1. PICK j \in D : l[j] = s[i]
      BY <1>2, <1>9
    <3> QED  BY <3>1 DEF WholeLines
  <2> QED  BY <1>12, <1>13, <2>1 DEF WholeLines
<1>15. ~Repeated(s)
  BY <1>10, <1>12 DEF Repeated
<1>16. ASSUME NEW f \in Numbers
       PROVE  SumOf(s, f) = SumOf(l, f)
  <2> DEFINE value == [x \in S |-> x[f]]
             ls == [i \in D |-> l[i][f]]
             ss == [i \in D |-> s[i][f]]
  <2>1. /\ SumOf(l, f) = SumFunctionOnSet(ls, D)
        /\ SumOf(s, f) = SumFunctionOnSet(ss, D)
    BY <1>12, <1>14, SumOfField
  <2>2. \A i \in D : /\ l[i] \in S /\ ls[i] = value[l[i]] /\ value[l[i]] \in Int
                     /\ s[i] \in S /\ ss[i] = value[s[i]] /\ value[s[i]] \in Int
    BY <1>2, <1>9, <1>12, <1>14 DEF WholeLines
  <2>3. /\ \A i, j \in D : l[i] = l[j] => i = j
        /\ \A i, j \in D : s[i] = s[j] => i = j
    BY <1>4, <1>10
  <2>4. /\ \A x \in S : \E i \in D : l[i] = x
        /\ \A x \in S : \E i \in D : s[i] = x
    BY <1>2, <1>11
  <2>5. DOMAIN l = D /\ DOMAIN s = D /\ IsFiniteSet(D)
    BY <1>1, <1>12
  <2> HIDE DEF value, ls, ss, S, D
  <2>6. /\ \A i \in D : ls[i] = value[l[i]] /\ value[l[i]] \in Int /\ l[i] \in S
        /\ \A i \in D : ss[i] = value[s[i]] /\ value[s[i]] \in Int /\ s[i] \in S
    BY <2>2
  <2>7. SumFunctionOnSet(ls, D) = SumFunctionOnSet(value, S)
    BY <2>3, <2>4, <2>5, <2>6, SumAlong
  <2>8. SumFunctionOnSet(ss, D) = SumFunctionOnSet(value, S)
    BY <2>3, <2>4, <2>5, <2>6, SumAlong
  <2> QED  BY <2>1, <2>7, <2>8
<1> QED  BY <1>12, <1>13, <1>14, <1>15, <1>16 DEF s

\* So the rules say the same of the document as it was read and as it was kept.
LEMMA BrokenInOrder ==
  ASSUME NEW h, NEW l, WholeLines(l), ~Repeated(l), NEW doc, NEW kept, NEW day,
         doc.header = h, doc.lines = l, kept.header = h, kept.lines = ByNumber(l)
  PROVE  Broken(kept, day) = Broken(doc, day)
<1> DEFINE s == ByNumber(l)
<1>1. /\ Len(s) = Len(l) /\ ToSet(s) = ToSet(l) /\ ~Repeated(s)
      /\ SumOf(s, "total") = SumOf(l, "total")
      /\ SumOf(s, "tax_amount") = SumOf(l, "tax_amount")
  <2>1. "total" \in Numbers /\ "tax_amount" \in Numbers
    BY DEF Numbers, LineMoney
  <2> QED  BY <2>1, PutInOrder
<1> HIDE DEF s
<1>2. HeaderBreaks(h, s) = HeaderBreaks(h, l)
  BY <1>1 DEF HeaderBreaks, TaxTolerance
<1>3. UNION {LineBreaks(s[i]) : i \in DOMAIN s} = UNION {LineBreaks(l[i]) : i \in DOMAIN l}
  <2>1. /\ \A i \in DOMAIN s : \E j \in DOMAIN l : s[i] = l[j]
        /\ \A j \in DOMAIN l : \E i \in DOMAIN s : s[i] = l[j]
    BY <1>1 DEF ToSet
  <2> QED  BY <2>1
<1>4. /\ {r \in {"future"} : kept.header.document_date > day + 1}
           = {r \in {"future"} : doc.header.document_date > day + 1}
      /\ {r \in {"repeated"} : Repeated(kept.lines)} = {r \in {"repeated"} : Repeated(doc.lines)}
  BY <1>1 DEF s
<1> QED  BY <1>2, <1>3, <1>4 DEF Broken, s

-----------------------------------------------------------------------------
(* What is kept of a value is read again as it is.                         *)

\* Text as TextOf leaves it.
SoundText(f, t) == TextOf(f, t) = t /\ ~TextRefused(f, t)

\* A number of steps within the limit of its field.
SoundAmount(x, step, max) == x \in Int /\ -max <= x * step /\ x * step <= max

\* What is made of a text that passes is made of itself again.
LEMMA TextIsKept ==
  ASSUME NEW f, NEW v, ~TextRefused(f, v)
  PROVE  /\ SoundText(f, TextOf(f, v))
         /\ ~Blank(v) => ~Blank(TextOf(f, v))
<1>1. /\ \A n : Value("text", n).kind = "text" /\ Missing.kind = "missing"
  BY DEF Value, Missing
<1>2. CASE Blank(v) /\ f = "currency"
  <2>1. TextOf(f, v) = Value("text", 0)
    BY <1>2 DEF TextOf, Blank
  <2> QED  BY <1>1, <1>2, <2>1 DEF TextOf, TextRefused, Blank, SoundText
<1>3. CASE Blank(v) /\ f # "currency"
  <2>1. TextOf(f, v) = Missing
    BY <1>3 DEF TextOf, Blank
  <2> QED  BY <1>1, <1>3, <2>1 DEF TextOf, TextRefused, Blank, SoundText
<1>4. CASE ~Blank(v) /\ v.kind = "lower" /\ f \in Coded
  <2>1. TextOf(f, v) = Value("text", v.n)
    BY <1>4 DEF TextOf
  <2> QED  BY <1>1, <1>4, <2>1 DEF TextOf, TextRefused, Blank, SoundText
<1>5. CASE ~Blank(v) /\ ~(v.kind = "lower" /\ f \in Coded)
  <2>1. TextOf(f, v) = v
    BY <1>5 DEF TextOf
  <2> QED  BY <1>5, <2>1 DEF SoundText
<1> QED  BY <1>2, <1>3, <1>4, <1>5

\* A number that passes is a number of steps within the limit.
LEMMA AmountIsKept ==
  ASSUME NEW v, v.n \in Int, NEW step \in Nat \ {0}, NEW max \in Nat,
         ~DecimalRefused(v, step, max)
  PROVE  SoundAmount(DecimalOf(v, step), step, max)
<1>1. CASE Numeric(v)
  <2>1. DecimalOf(v, step) = v.n \div step
    BY <1>1 DEF DecimalOf
  <2>2. ~Blank(v)
    BY <1>1 DEF Numeric, Blank
  <2>3. v.n % step = 0 /\ ~(v.n > max) /\ ~(v.n < -max)
    BY <1>1, <2>2 DEF DecimalRefused
  <2>4. v.n \div step \in Int /\ (v.n \div step) * step = v.n
    BY <2>3, Division
  <2>5. v.n <= max /\ -max <= v.n
    BY <2>3
  <2> QED  BY <2>1, <2>4, <2>5 DEF SoundAmount
<1>2. CASE ~Numeric(v)
  <2>1. DecimalOf(v, step) = 0
    BY <1>2 DEF DecimalOf
  <2>2. 0 * step = 0
    OBVIOUS
  <2> QED  BY <2>1, <2>2 DEF SoundAmount
<1> QED  BY <1>1, <1>2

\* And that number of steps, as a decimal of the database, passes again.
LEMMA AmountAgain ==
  ASSUME NEW x, NEW step \in Nat \ {0}, NEW max \in Nat, SoundAmount(x, step, max)
  PROVE  /\ ~DecimalRefused(Value("decimal", x * step), step, max)
         /\ DecimalOf(Value("decimal", x * step), step) = x
         /\ ~Blank(Value("decimal", x * step))
         /\ ~Raises(Value("decimal", x * step))
<1> DEFINE v == Value("decimal", x * step)
<1>1. v.kind = "decimal" /\ v.n = x * step
  BY DEF Value
<1>2. x \in Int /\ (x * step) \div step = x /\ (x * step) % step = 0
  BY Division DEF SoundAmount
<1>3. x * step \in Int /\ ~(x * step > max) /\ ~(x * step < -max)
  <2>1. x * step \in Int
    BY <1>2
  <2> QED  BY <2>1 DEF SoundAmount
<1> HIDE DEF v
<1>4. ~DecimalRefused(v, step, max)
  BY <1>1, <1>2, <1>3 DEF DecimalRefused, Numeric
<1>5. DecimalOf(v, step) = x /\ ~Blank(v) /\ ~Raises(v)
  BY <1>1, <1>2 DEF DecimalOf, Numeric, Blank, Raises
<1> QED  BY <1>4, <1>5 DEF v

\* The number of a line that passes is a whole one from 1.
LEMMA LineNumberIsKept ==
  ASSUME NEW v, v.n \in Int, ~LineNumberRefused(v), NEW index \in Nat \ {0}
  PROVE  LineNumber(v, index) \in Nat \ {0}
<1>1. One \in Nat \ {0}
  BY CanonicalAssumption
<1>2. CASE Blank(v)
  BY <1>2 DEF LineNumber
<1>3. CASE ~Blank(v)
  <2>1. v.n % One = 0 /\ ~(v.n < One) /\ LineNumber(v, index) = v.n \div One
    BY <1>3 DEF LineNumberRefused, LineNumber
  <2> DEFINE q == v.n \div One
  <2>2. q \in Int /\ v.n < One * q + One
    BY <1>1, Division
  <2> HIDE DEF q
  <2>3. q >= 1
    <3>1. ASSUME q <= 0
          PROVE  One * q <= 0
      BY <1>1, <2>2, <3>1
    <3>2. One * q \in Int
      BY <1>1, <2>2
    <3> QED  BY <1>1, <2>1, <2>2, <3>1, <3>2
  <2> QED  BY <2>1, <2>2, <2>3 DEF q
<1> QED  BY <1>2, <1>3

\* And the number of a line as it is kept passes again and is the same.
LEMMA LineNumberAgain ==
  ASSUME NEW x \in Nat \ {0}, NEW index
  PROVE  /\ ~LineNumberRefused(Number(x * One))
         /\ LineNumber(Number(x * One), index) = x
<1>1. One \in Nat \ {0} /\ x \in Int
  BY CanonicalAssumption
<1>2. Number(x * One).kind = "number" /\ Number(x * One).n = x * One
  BY DEF Number, Value
<1>3. (x * One) % One = 0 /\ (x * One) \div One = x
  BY <1>1, Division
<1>4. ~(x * One < One)
  BY <1>1
<1> QED  BY <1>2, <1>3, <1>4 DEF LineNumberRefused, LineNumber, Blank

-----------------------------------------------------------------------------
(* What is parsed can be put together and parsed again.                    *)

\* A header, a line and a document as they are after parsing.
SoundHeader(h) ==
  /\ h = [f \in HEADER_FIELDS |-> h[f]]
  /\ \A f \in Texts : SoundText(f, h[f]) /\ (f \in REQUIRED_HEADER => ~Blank(h[f]))
  /\ \A f \in Amounts : SoundAmount(h[f], Cent, Largest)
  /\ h.document_date \in Int

SoundLine(line) ==
  /\ line = [f \in LINE_FIELDS |-> line[f]]
  /\ \A f \in LineTexts :
       SoundText(f, line[f]) /\ (f \in REQUIRED_LINE => ~Blank(line[f]))
  /\ \A f \in LineMoney \cup LineFine : SoundAmount(line[f], Step(f), Limit(f))
  /\ line.line_number \in Nat \ {0}

SoundDoc(doc) ==
  /\ SoundHeader(doc.header)
  /\ doc.lines \in Seq(ToSet(doc.lines))
  /\ Len(doc.lines) \in 1..MaxLines
  /\ \A i \in DOMAIN doc.lines : SoundLine(doc.lines[i])

\* The fields of a header are texts, amounts and a date.
LEMMA HeaderFields ==
  /\ HEADER_FIELDS = Texts \cup Amounts \cup {"document_date"}
  /\ \A f \in Amounts : f \notin Texts /\ f # "document_date"
  /\ "document_date" \notin Texts
BY DEF HEADER_FIELDS, Texts, Coded, Amounts

\* Those of a line texts, numbers and the number of the line.
LEMMA LineFields ==
  /\ LINE_FIELDS = LineTexts \cup (LineMoney \cup LineFine) \cup {"line_number"}
  /\ \A f \in LineMoney \cup LineFine : f \notin LineTexts /\ f # "line_number"
  /\ "line_number" \notin LineTexts
  /\ \A f \in LineMoney \cup LineFine : Step(f) \in Nat \ {0} /\ Limit(f) \in Nat
<1>1. \A f \in LineMoney \cup LineFine : Step(f) \in Nat \ {0}
  BY CanonicalAssumption DEF Step
<1>2. \A f \in LineMoney \cup LineFine : Limit(f) \in Nat
  BY CanonicalAssumption DEF Limit
<1> QED  BY <1>1, <1>2 DEF LINE_FIELDS, LineTexts, LineMoney, LineFine

\* The header of a payload without errors is sound once it is parsed.
LEMMA HeaderIsSound ==
  ASSUME NEW p, WholePayload(p), HeaderErrors(p) = {}
  PROVE  SoundHeader(Parse(p).header)
<1> DEFINE v == p.header
           h == Parse(p).header
<1>1. h = [f \in HEADER_FIELDS |->
             CASE f \in Texts         -> TextOf(f, v[f])
               [] f = "document_date" -> v[f].n
               [] OTHER               -> DecimalOf(v[f], Cent)]
  BY DEF Parse
<1>2. /\ \A f \in REQUIRED_HEADER : ~Blank(v[f])
      /\ \A f \in Texts : ~TextRefused(f, v[f])
      /\ \A f \in Amounts : ~DecimalRefused(v[f], Cent, Largest)
  BY DEF HeaderErrors
<1>3. \A f \in HEADER_FIELDS : v[f].n \in Int
  BY DEF WholePayload, Values
<1> HIDE DEF h, v
<1>4. /\ \A f \in Texts : h[f] = TextOf(f, v[f])
      /\ \A f \in Amounts : h[f] = DecimalOf(v[f], Cent)
      /\ h.document_date = v.document_date.n
      /\ h = [f \in HEADER_FIELDS |-> h[f]]
  BY <1>1, HeaderFields
<1>5. \A f \in Texts : SoundText(f, h[f]) /\ (f \in REQUIRED_HEADER => ~Blank(h[f]))
  BY <1>2, <1>4, TextIsKept
<1>6. \A f \in Amounts : SoundAmount(h[f], Cent, Largest)
  BY <1>2, <1>3, <1>4, HeaderFields, AmountIsKept, CanonicalAssumption
<1>7. h.document_date \in Int
  BY <1>3, <1>4, HeaderFields
<1> QED  BY <1>4, <1>5, <1>6, <1>7 DEF SoundHeader, h

\* And so is every line.
LEMMA LineIsSound ==
  ASSUME NEW line, Values(line.fields, LINE_FIELDS), LineErrors(line) = {},
         NEW index \in Nat \ {0}
  PROVE  SoundLine(ParseLine(line, index))
<1> DEFINE v == line.fields
           l == ParseLine(line, index)
<1>1. l = [f \in LINE_FIELDS |->
             CASE f \in LineTexts   -> TextOf(f, v[f])
               [] f = "line_number" -> LineNumber(v[f], index)
               [] OTHER             -> DecimalOf(v[f], Step(f))]
  BY DEF ParseLine
<1>2. /\ \A f \in REQUIRED_LINE : ~Blank(v[f])
      /\ \A f \in LineTexts : ~TextRefused(f, v[f])
      /\ \A f \in LineMoney \cup LineFine : ~DecimalRefused(v[f], Step(f), Limit(f))
      /\ ~LineNumberRefused(v["line_number"])
  BY DEF LineErrors
<1>3. \A f \in LINE_FIELDS : v[f].n \in Int
  BY DEF Values
<1> HIDE DEF l, v
<1>4. /\ \A f \in LineTexts : l[f] = TextOf(f, v[f])
      /\ \A f \in LineMoney \cup LineFine : l[f] = DecimalOf(v[f], Step(f))
      /\ l["line_number"] = LineNumber(v["line_number"], index)
      /\ l = [f \in LINE_FIELDS |-> l[f]]
  BY <1>1, LineFields
<1>5. \A f \in LineTexts : SoundText(f, l[f]) /\ (f \in REQUIRED_LINE => ~Blank(l[f]))
  BY <1>2, <1>4, TextIsKept
<1>6. ASSUME NEW f \in LineMoney \cup LineFine
      PROVE  SoundAmount(l[f], Step(f), Limit(f))
  <2> DEFINE x == v[f] step == Step(f) max == Limit(f)
  <2>1. step \in Nat \ {0} /\ max \in Nat /\ x.n \in Int /\ ~DecimalRefused(x, step, max)
    BY <1>2, <1>3, LineFields
  <2>2. l[f] = DecimalOf(x, step)
    BY <1>4
  <2> HIDE DEF x, step, max
  <2>3. SoundAmount(DecimalOf(x, step), step, max)
    BY <2>1, AmountIsKept
  <2> QED  BY <2>2, <2>3 DEF x, step, max
<1>7. l["line_number"] \in Nat \ {0}
  BY <1>2, <1>3, <1>4, LineFields, LineNumberIsKept
<1> QED  BY <1>4, <1>5, <1>6, <1>7 DEF SoundLine, l

\* The document of a payload without errors is sound.
LEMMA ParsedIsSound ==
  ASSUME NEW p, WholePayload(p), ParseErrors(p) = {}
  PROVE  SoundDoc(Parse(p))
<1> DEFINE l == p.lines
           doc == Parse(p)
<1>1. HeaderErrors(p) = {} /\ Len(l) \in 1..MaxLines
  BY DEF ParseErrors, HeaderErrors
<1>2. \A i \in DOMAIN l : LineErrors(l[i]) = {}
  BY <1>1 DEF ParseErrors
<1>3. Len(l) \in Nat /\ DOMAIN l = 1..Len(l)
  BY LenProperties DEF WholePayload
<1>4. doc.lines = [i \in DOMAIN l |-> ParseLine(l[i], i)]
  BY DEF Parse
<1>5. SoundHeader(doc.header)
  BY <1>1, HeaderIsSound
<1>6. \A i \in DOMAIN l : SoundLine(ParseLine(l[i], i))
  BY <1>2, <1>3, LineIsSound DEF WholePayload
<1> HIDE DEF l, doc
<1>7. /\ DOMAIN doc.lines = DOMAIN l
      /\ \A i \in DOMAIN l : SoundLine(doc.lines[i])
  BY <1>4, <1>6
<1>8. doc.lines \in Seq(ToSet(doc.lines)) /\ Len(doc.lines) = Len(l)
  <2> DEFINE s == doc.lines
  <2>1. /\ l \in Seq(ToSet(l)) /\ DOMAIN s = DOMAIN l
        /\ s = [i \in DOMAIN s |-> s[i]]
    BY <1>4, <1>7 DEF WholePayload, l
  <2> HIDE DEF s
  <2> QED  BY <2>1, ListedAlong DEF s
<1> QED  BY <1>1, <1>5, <1>7, <1>8 DEF SoundDoc, doc

\* The numbers of a sound document are whole.
LEMMA SoundIsWhole ==
  ASSUME NEW doc, SoundDoc(doc)
  PROVE  WholeLines(doc.lines) /\ \A f \in Amounts : doc.header[f] \in Int
<1>1. \A f \in Amounts : doc.header[f] \in Int
  BY DEF SoundDoc, SoundHeader, SoundAmount
<1>2. ASSUME NEW line, SoundLine(line)
      PROVE  \A f \in Numbers : line[f] \in Int
  <2>1. \A f \in LineMoney \cup LineFine : SoundAmount(line[f], Step(f), Limit(f))
    BY <1>2 DEF SoundLine
  <2>2. line["line_number"] \in Nat \ {0}
    BY <1>2 DEF SoundLine
  <2> QED  BY <2>1, <2>2 DEF Numbers, SoundAmount
<1>3. \A i \in DOMAIN doc.lines, f \in Numbers : doc.lines[i][f] \in Int
  BY <1>2 DEF SoundDoc
<1> QED  BY <1>1, <1>3 DEF WholeLines, SoundDoc

\* A header that is put together again has no errors and is the same.
LEMMA HeaderAgain ==
  ASSUME NEW doc, SoundHeader(doc.header), Len(Rebuilt(doc).lines) \in 1..MaxLines
  PROVE  /\ HeaderErrors(Rebuilt(doc)) = {}
         /\ \A f \in Amounts : ~Raises(Rebuilt(doc).header[f])
         /\ Parse(Rebuilt(doc)).header = doc.header
<1> DEFINE p == Rebuilt(doc)
           h == doc.header
           v == p.header
<1>1. /\ v = [f \in HEADER_FIELDS |->
                CASE f \in Texts         -> h[f]
                  [] f = "document_date" -> Value("date", h[f])
                  [] OTHER               -> Value("decimal", h[f] * Cent)]
      /\ p.known
  BY DEF Rebuilt
<1>2. Parse(p).header = [f \in HEADER_FIELDS |->
                           CASE f \in Texts         -> TextOf(f, v[f])
                             [] f = "document_date" -> v[f].n
                             [] OTHER               -> DecimalOf(v[f], Cent)]
  BY DEF Parse
<1> HIDE DEF p, h, v
<1>3. /\ \A f \in Texts : v[f] = h[f]
      /\ \A f \in Amounts : v[f] = Value("decimal", h[f] * Cent)
      /\ v["document_date"] = Value("date", h["document_date"])
  BY <1>1, HeaderFields
<1>4. \A f \in Texts : /\ ~TextRefused(f, v[f]) /\ TextOf(f, v[f]) = h[f]
                       /\ f \in REQUIRED_HEADER => ~Blank(v[f])
  BY <1>3 DEF SoundHeader, SoundText, h
<1>5. \A f \in Amounts : /\ ~DecimalRefused(v[f], Cent, Largest)
                         /\ DecimalOf(v[f], Cent) = h[f]
                         /\ ~Blank(v[f]) /\ ~Raises(v[f])
  <2>1. \A f \in Amounts : SoundAmount(h[f], Cent, Largest)
    BY DEF SoundHeader, h
  <2> QED  BY <1>3, <2>1, AmountAgain, CanonicalAssumption
<1>6. /\ v["document_date"].kind = "date"
      /\ v["document_date"].n = h["document_date"]
  BY <1>3 DEF Value
<1>7. ~DateRefused(v["document_date"]) /\ ~Blank(v["document_date"])
  BY <1>6 DEF DateRefused, Blank
<1>8. \A f \in REQUIRED_HEADER : ~Blank(v[f])
  BY <1>4, <1>5, <1>7, HeaderFields DEF REQUIRED_HEADER
<1>9. Len(p.lines) \in 1..MaxLines
  BY DEF p
<1>10. HeaderErrors(p) = {}
  BY <1>1, <1>4, <1>5, <1>7, <1>8, <1>9 DEF HeaderErrors, v
<1>11. Parse(p).header = h
  <2>1. h = [f \in HEADER_FIELDS |-> h[f]]
    BY DEF SoundHeader, h
  <2>2. \A f \in HEADER_FIELDS :
          (CASE f \in Texts         -> TextOf(f, v[f])
             [] f = "document_date" -> v[f].n
             [] OTHER               -> DecimalOf(v[f], Cent)) = h[f]
    BY <1>4, <1>5, <1>6, HeaderFields
  <2> QED  BY <1>2, <2>1, <2>2
<1> QED  BY <1>5, <1>10, <1>11 DEF p, h, v

\* What revalidate makes of a line.
LineAgain(line) ==
  [known  |-> TRUE,
   fields |-> [f \in LINE_FIELDS |->
                 CASE f \in LineTexts   -> line[f]
                   [] f = "line_number" -> Number(line[f] * One)
                   [] OTHER -> Value("decimal", line[f] * Step(f))]]

\* A line that is put together again has no errors and is the same.
LEMMA LineIsSame ==
  ASSUME NEW line, SoundLine(line), NEW index
  PROVE  /\ LineErrors(LineAgain(line)) = {}
         /\ \A f \in LineMoney \cup LineFine : ~Raises(LineAgain(line).fields[f])
         /\ ParseLine(LineAgain(line), index) = line
<1> DEFINE p == LineAgain(line)
           v == p.fields
<1>1. /\ v = [f \in LINE_FIELDS |->
                CASE f \in LineTexts   -> line[f]
                  [] f = "line_number" -> Number(line[f] * One)
                  [] OTHER -> Value("decimal", line[f] * Step(f))]
      /\ p.known
  BY DEF LineAgain
<1>2. ParseLine(p, index) =
        [f \in LINE_FIELDS |->
           CASE f \in LineTexts   -> TextOf(f, v[f])
             [] f = "line_number" -> LineNumber(v[f], index)
             [] OTHER             -> DecimalOf(v[f], Step(f))]
  BY DEF ParseLine
<1> HIDE DEF p, v
<1>3. /\ \A f \in LineTexts : v[f] = line[f]
      /\ \A f \in LineMoney \cup LineFine : v[f] = Value("decimal", line[f] * Step(f))
      /\ v["line_number"] = Number(line["line_number"] * One)
  BY <1>1, LineFields
<1>4. \A f \in LineTexts : /\ ~TextRefused(f, v[f]) /\ TextOf(f, v[f]) = line[f]
                           /\ f \in REQUIRED_LINE => ~Blank(v[f])
  BY <1>3 DEF SoundLine, SoundText
<1>5. ASSUME NEW f \in LineMoney \cup LineFine
      PROVE  /\ ~DecimalRefused(v[f], Step(f), Limit(f))
             /\ DecimalOf(v[f], Step(f)) = line[f]
             /\ ~Blank(v[f]) /\ ~Raises(v[f])
  <2> DEFINE x == line[f] step == Step(f) max == Limit(f)
  <2>1. step \in Nat \ {0} /\ max \in Nat /\ SoundAmount(x, step, max)
    BY LineFields DEF SoundLine
  <2>2. v[f] = Value("decimal", x * step)
    BY <1>3
  <2> HIDE DEF x, step, max
  <2> QED  BY <2>1, <2>2, AmountAgain DEF x, step, max
<1>6. /\ ~LineNumberRefused(v["line_number"])
      /\ LineNumber(v["line_number"], index) = line["line_number"]
  BY <1>3, LineNumberAgain DEF SoundLine
<1>7. \A f \in REQUIRED_LINE : ~Blank(v[f])
  BY <1>4, <1>5, LineFields DEF REQUIRED_LINE
<1>8. LineErrors(p) = {}
  BY <1>1, <1>4, <1>5, <1>6, <1>7 DEF LineErrors, v
<1>9. ParseLine(p, index) = line
  <2>1. line = [f \in LINE_FIELDS |-> line[f]]
    BY DEF SoundLine
  <2>2. \A f \in LINE_FIELDS :
          (CASE f \in LineTexts   -> TextOf(f, v[f])
             [] f = "line_number" -> LineNumber(v[f], index)
             [] OTHER             -> DecimalOf(v[f], Step(f))) = line[f]
    BY <1>4, <1>5, <1>6, LineFields
  <2> QED  BY <1>2, <2>1, <2>2
<1> QED  BY <1>5, <1>8, <1>9 DEF p, v

\* What revalidate puts together of a sound document is read as the same document
\* with its lines in the order of their numbers, so the rules say the same of it.
LEMMA VerdictOfSound ==
  ASSUME NEW doc, SoundDoc(doc), ~Repeated(doc.lines)
  PROVE  Verdict(doc) = Broken(doc, today)
<1> DEFINE l == doc.lines
           s == ByNumber(l)
           p == Rebuilt(doc)
<1>1. WholeLines(l)
  BY SoundIsWhole
<1>2. /\ DOMAIN s = DOMAIN l /\ WholeLines(s) /\ Len(s) = Len(l) /\ ToSet(s) = ToSet(l)
  BY <1>1, PutInOrder
<1>3. p.lines = [i \in DOMAIN s |-> LineAgain(s[i])]
  BY DEF Rebuilt, LineAgain
<1>4. Parse(p).lines = [i \in DOMAIN p.lines |-> ParseLine(p.lines[i], i)]
  BY DEF Parse
<1>5. ParseErrors(p) = HeaderErrors(p) \cup
        (IF Len(p.lines) \in 1..MaxLines
         THEN UNION {LineErrors(p.lines[i]) : i \in DOMAIN p.lines} ELSE {})
  BY DEF ParseErrors
<1>6. ParseRaises(p) <=>
        \/ \E f \in Amounts : Raises(p.header[f])
        \/ /\ Len(p.lines) \in 1..MaxLines
           /\ \E i \in DOMAIN p.lines, f \in LineMoney \cup LineFine :
                Raises(p.lines[i].fields[f])
  BY DEF ParseRaises
<1>7. Len(l) \in 1..MaxLines /\ \A i \in DOMAIN l : SoundLine(l[i])
  BY DEF SoundDoc
<1> HIDE DEF l, s, p
<1>8. \A i \in DOMAIN s : SoundLine(s[i])
  <2>1. \A i \in DOMAIN s : \E j \in DOMAIN l : s[i] = l[j]
    BY <1>2 DEF ToSet
  <2> QED  BY <1>7, <2>1
<1>9. /\ DOMAIN p.lines = DOMAIN s
      /\ \A i \in DOMAIN s : p.lines[i] = LineAgain(s[i])
  BY <1>3
<1>10. Len(p.lines) \in 1..MaxLines
  <2> DEFINE q == p.lines
  <2>1. s \in Seq(ToSet(s)) /\ DOMAIN q = DOMAIN s /\ q = [i \in DOMAIN q |-> q[i]]
    BY <1>2, <1>3 DEF WholeLines
  <2> HIDE DEF q
  <2>2. Len(q) = Len(s)
    BY <2>1, ListedAlong
  <2> QED  BY <1>2, <1>7, <2>2 DEF q
<1>11. /\ HeaderErrors(p) = {}
       /\ \A f \in Amounts : ~Raises(p.header[f])
       /\ Parse(p).header = doc.header
  BY <1>10, HeaderAgain DEF SoundDoc, p
<1>12. \A i \in DOMAIN s :
         /\ LineErrors(p.lines[i]) = {}
         /\ \A f \in LineMoney \cup LineFine : ~Raises(p.lines[i].fields[f])
         /\ ParseLine(p.lines[i], i) = s[i]
  BY <1>8, <1>9, LineIsSame
<1>13. ParseErrors(p) = {} /\ ~ParseRaises(p)
  BY <1>5, <1>6, <1>9, <1>11, <1>12
<1>14. Parse(p).lines = s
  <2>1. Parse(p).lines = [i \in DOMAIN s |-> s[i]]
    BY <1>4, <1>9, <1>12
  <2>2. s = [i \in DOMAIN s |-> s[i]]
    BY <1>2 DEF WholeLines
  <2> QED  BY <2>1, <2>2
<1>15. Verdict(doc) = Broken(Parse(p), today)
  BY <1>13 DEF Verdict, Readable, p
<1> QED  BY <1>1, <1>11, <1>14, <1>15, BrokenInOrder DEF l, s

\* Of a document the rules say the same on every day, but that its date is to come.
LEMMA BrokenAnotherDay ==
  ASSUME NEW doc, doc.header.document_date \in Int, NEW day \in Nat, NEW later \in Nat,
         day <= later
  PROVE  /\ Broken(doc, later) \subseteq Broken(doc, day)
         /\ Broken(doc, day) \subseteq Broken(doc, later) \cup {"future"}
<1>1. doc.header.document_date > later + 1 => doc.header.document_date > day + 1
  OBVIOUS
<1> QED  BY <1>1 DEF Broken

-----------------------------------------------------------------------------
(* What is read and what is posted are values.                             *)

\* What a query returns is a sequence of rows of the table.
LEMMA FetchedRows ==
  ASSUME NEW S, IsFiniteSet(S), NEW query, NEW max \in Nat,
         NEW rows \in Fetched(query, S, max)
  PROVE  /\ rows \in Seq(ToSet(rows))
         /\ \A i \in DOMAIN rows : rows[i] \in S
<1> DEFINE n == Cardinality(S)
<1>1. n \in Nat
  BY FS_CardinalityType
<1>2. PICK s \in SetToSeqs(S) : rows = SubSeq(s, 1, IF Len(s) < max THEN Len(s) ELSE max)
  BY DEF Fetched
<1>3. s \in [1..n -> S]
  BY <1>2 DEF SetToSeqs
<1> HIDE DEF n
<1>4. s \in Seq(S)
  BY <1>1, <1>3, SeqDef
<1>5. Len(s) \in Nat /\ DOMAIN s = 1..Len(s)
  BY <1>4, LenProperties
<1> DEFINE k == IF Len(s) < max THEN Len(s) ELSE max
<1>6. k \in Int /\ 1 \in Int /\ \A i \in 1..k : s[i] \in S
  <2>1. k \in Int /\ k <= Len(s)
    BY <1>5
  <2>2. \A i \in 1..k : i \in DOMAIN s
    BY <1>5, <2>1
  <2> QED  BY <1>3, <2>1, <2>2
<1>7. rows = SubSeq(s, 1, k)
  BY <1>2
<1> HIDE DEF k
<1>8. rows \in Seq(S)
  BY <1>6, <1>7, SubSeqProperties
<1>9. Len(rows) \in Nat /\ rows \in [1..Len(rows) -> S] /\ DOMAIN rows = 1..Len(rows)
  BY <1>8, LenProperties
<1>10. rows \in Seq(ToSet(rows))
  <2> DEFINE m == Len(rows)
             T == ToSet(rows)
  <2>1. rows \in [1..m -> T] /\ m \in Nat
    BY <1>9 DEF ToSet
  <2> HIDE DEF m, T
  <2> QED  BY <2>1, SeqDef DEF T
<1> QED  BY <1>9, <1>10

\* A row and lines that were read make a payload of values.
LEMMA ReadIsWhole ==
  ASSUME ValuesAreWhole, NEW form \in Accepted, ColumnsExist(form), NEW o \in Contents,
         NEW query, NEW max \in Nat, NEW rows \in Fetched(query, o.lines, max)
  PROVE  WholePayload(RowsToPayload(Built(form), o.row, rows))
<1> DEFINE m == Built(form)
           p == RowsToPayload(m, o.row, rows)
           line(i) == Filled(m.line_fields, m.line_defaults, rows[i])
<1>1. /\ m.fields = form.header /\ m.line_fields = form.lines
      /\ m.defaults = Defaults(form.header, form.header_defaults)
      /\ m.line_defaults = Defaults(form.lines, form.line_defaults)
  BY PartsOfMapping DEF Built
<1>2. rows \in Seq(ToSet(rows)) /\ \A i \in DOMAIN rows : rows[i] \in o.lines
  BY FetchedRows DEF ValuesAreWhole
<1>3. /\ p.header = Filled(m.fields, m.defaults, o.row)
      /\ p.lines = [i \in DOMAIN rows |->
                      [known |-> TRUE,
                       fields |-> [line(i) EXCEPT !["line_number"] =
                                     IF @ = Missing THEN Number(i * One) ELSE @]]]
  BY DEF RowsToPayload
<1> HIDE DEF m, p
<1>4. Values(p.header, HEADER_FIELDS)
  BY <1>1, <1>3 DEF ValuesAreWhole
<1>5. \A i \in DOMAIN rows : Values(line(i), LINE_FIELDS)
  BY <1>1, <1>2 DEF ValuesAreWhole
<1>6. DOMAIN p.lines = DOMAIN rows /\ p.lines = [i \in DOMAIN p.lines |-> p.lines[i]]
  BY <1>3
<1>7. \A i \in DOMAIN rows : i \in Int
  <2>1. Len(rows) \in Nat /\ DOMAIN rows = 1..Len(rows)
    BY <1>2, LenProperties
  <2> QED  BY <2>1
<1>8. ASSUME NEW i \in DOMAIN rows
      PROVE  Values(p.lines[i].fields, LINE_FIELDS)
  <2> DEFINE v == line(i)
             number == IF v["line_number"] = Missing THEN Number(i * One)
                       ELSE v["line_number"]
  <2>1. Values(v, LINE_FIELDS)
    BY <1>5
  <2>2. p.lines[i].fields = [v EXCEPT !["line_number"] = number]
    BY <1>3
  <2>3. number.n \in Int
    <3>1. i * One \in Int
      BY <1>7, CanonicalAssumption
    <3>2. Number(i * One).n = i * One
      BY DEF Number, Value
    <3>3. v["line_number"].n \in Int
      BY <2>1, LineFields DEF Values
    <3> QED  BY <3>1, <3>2, <3>3
  <2> HIDE DEF v, number
  <2> QED  BY <2>1, <2>2, <2>3 DEF Values
<1>9. p.lines \in Seq(ToSet(p.lines))
  <2> DEFINE s == p.lines
  <2>1. DOMAIN s = DOMAIN rows /\ s = [i \in DOMAIN s |-> s[i]]
    BY <1>6
  <2> HIDE DEF s
  <2> QED  BY <1>2, <2>1, ListedAlong DEF s
<1> QED  BY <1>4, <1>6, <1>8, <1>9 DEF WholePayload, m, p

-----------------------------------------------------------------------------
(* What is kept is sound, and its errors are those of a day.               *)

SourceInv ==
  /\ origin \subseteq Contents
  /\ \A m \in mapping : ColumnsExist(m.form)
  /\ today \in Nat

\* The errors of a row are those of its document on the day it was imported or
\* validated for the last time; with some it is not sent.
KeptInv ==
  \A inv \in invoice :
    /\ SoundDoc(inv.doc)
    /\ ~Repeated(inv.doc.lines)
    /\ \E day \in 0..today : inv.errors = Broken(inv.doc, day)
    /\ Sendable(inv) => inv.errors = {}

\* The other system holds one of its contents, and what was saved can be read.
LEMMA SourceStep ==
  ASSUME SourceInv, [Next]_vars
  PROVE  SourceInv'
<1>1. ASSUME NEW form \in Accepted, SaveMapping(form)
      PROVE  SourceInv'
  BY <1>1 DEF SaveMapping, SourceInv
<1>2. ASSUME NEW form \in Accepted, Preview(form)
      PROVE  UNCHANGED <<origin, mapping, today>>
  BY <1>2 DEF Preview
<1>3. ASSUME NEW c \in Contents, Write(c)
      PROVE  SourceInv'
  BY <1>3 DEF Write, SourceInv
<1>4. CASE DayPasses
  BY <1>4 DEF DayPasses, SourceInv
<1>5. CASE UNCHANGED <<origin, mapping, today>>
  BY <1>5 DEF SourceInv
<1> QED
  BY <1>1, <1>2, <1>3, <1>4, <1>5 DEF Next, vars, Sync, Post, Revalidate, Communicate

\* An import of values keeps the row or puts a sound one in its place, with the
\* errors it has today.
LEMMA ImportKeeps ==
  ASSUME KeptInv, today \in Nat, today' = today,
         NEW payload, WholePayload(payload), NEW content, NEW by,
         Import(payload, content, by)
  PROVE  KeptInv'
<1>1. CASE invoice' = invoice
  BY <1>1 DEF KeptInv, Sendable
<1>2. CASE invoice' # invoice
  <2> DEFINE doc == Parse(payload)
             inv == Row(doc, content, by)
  <2>1. /\ Readable(payload)
        /\ ~Repeated(doc.lines)
        /\ invoice' = {inv}
    BY <1>2 DEF Import
  <2>2. SoundDoc(doc)
    BY <2>1, ParsedIsSound DEF Readable
  <2>3. /\ inv.doc = doc /\ inv.errors = Broken(doc, today)
        /\ inv.status = StatusOf(Broken(doc, today))
    BY DEF Row
  <2> HIDE DEF doc, inv
  <2>4. Sendable(inv) => inv.errors = {}
    BY <2>3 DEF Sendable, StatusOf
  <2>5. today' \in 0..today'
    OBVIOUS
  <2> QED  BY <2>1, <2>2, <2>3, <2>4, <2>5 DEF KeptInv, Sendable
<1> QED  BY <1>1, <1>2

\* What is validated again has the errors of today, without altering the document.
LEMMA RevalidateKeeps ==
  ASSUME KeptInv, InvoiceInv, today \in Nat, Revalidate
  PROVE  KeptInv'
<1>1. PICK inv \in invoice :
        invoice' = {[inv EXCEPT !.errors = Verdict(inv.doc),
                                !.status = StatusOf(Verdict(inv.doc))]}
  BY DEF Revalidate
<1>2. today' = today
  BY DEF Revalidate
<1> DEFINE new == [inv EXCEPT !.errors = Verdict(inv.doc),
                              !.status = StatusOf(Verdict(inv.doc))]
<1>3. DOMAIN inv = {"doc", "errors", "status", "content", "by"}
  BY DEF InvoiceInv
<1>4. /\ new.doc = inv.doc /\ new.errors = Verdict(inv.doc)
      /\ new.status = StatusOf(Verdict(inv.doc))
  BY <1>3
<1> HIDE DEF new
<1>5. SoundDoc(inv.doc) /\ ~Repeated(inv.doc.lines)
  BY DEF KeptInv
<1>6. new.errors = Broken(new.doc, today)
  BY <1>4, <1>5, VerdictOfSound
<1>7. Sendable(new) => new.errors = {}
  BY <1>4 DEF Sendable, StatusOf
<1>8. today' \in 0..today'
  BY <1>2
<1>9. invoice' = {new}
  BY <1>1 DEF new
<1> QED  BY <1>2, <1>4, <1>5, <1>6, <1>7, <1>8, <1>9 DEF KeptInv, Sendable

\* Only what has no errors is sent.
LEMMA CommunicateKeeps ==
  ASSUME KeptInv, InvoiceInv, Communicate
  PROVE  KeptInv'
<1>1. PICK inv \in invoice :
        /\ inv.status = "VALIDATED"
        /\ invoice' = {[inv EXCEPT !.status = "CONFIRMED"]}
  BY DEF Communicate
<1> DEFINE new == [inv EXCEPT !.status = "CONFIRMED"]
<1>2. DOMAIN inv = {"doc", "errors", "status", "content", "by"} /\ today' = today
  BY DEF InvoiceInv, Communicate
<1>3. new.doc = inv.doc /\ new.errors = inv.errors
  BY <1>2
<1>4. invoice' = {new}
  BY <1>1
<1> HIDE DEF new
<1>5. new.errors = {}
  BY <1>1, <1>3 DEF KeptInv, Sendable
<1> QED  BY <1>2, <1>3, <1>4, <1>5 DEF KeptInv, Sendable

\* Every step keeps what is kept sound: imports, which bring values, and what becomes of
\* a row afterwards.
LEMMA KeptStep ==
  ASSUME ValuesAreWhole, SourceInv, MappingInv, InvoiceInv, KeptInv, [Next]_vars
  PROVE  KeptInv'
<1>1. CASE Sync
  <2>1. PICK m \in mapping, o \in origin :
          \E rows \in Fetched(m.built.lines_query, o.lines, MaxRows) :
            Import(RowsToPayload(m.built, o.row, rows), {o}, mapping)
    BY <1>1 DEF Sync
  <2>2. PICK rows \in Fetched(m.built.lines_query, o.lines, MaxRows) :
          Import(RowsToPayload(m.built, o.row, rows), {o}, mapping)
    BY <2>1
  <2>3. /\ m.form \in Accepted /\ m.built = Built(m.form) /\ ColumnsExist(m.form)
        /\ o \in Contents /\ MaxRows \in Nat
    BY MaxRowsAssumption DEF MappingInv, MadeFromForm, SourceInv
  <2>4. WholePayload(RowsToPayload(m.built, o.row, rows))
    BY <2>3, ReadIsWhole
  <2>5. today' = today
    BY <1>1 DEF Sync
  <2> QED  BY <2>2, <2>4, <2>5, ImportKeeps DEF SourceInv
<1>2. ASSUME NEW p \in Payloads, Post(p)
      PROVE  KeptInv'
  BY <1>2, ImportKeeps DEF Post, ValuesAreWhole, SourceInv
<1>3. CASE Revalidate
  BY <1>3, RevalidateKeeps DEF SourceInv
<1>4. CASE Communicate
  BY <1>4, CommunicateKeeps
<1>5. CASE DayPasses
  <2>1. 0..today \subseteq 0..today'
    BY <1>5 DEF DayPasses, SourceInv
  <2>2. invoice' = invoice
    BY <1>5 DEF DayPasses
  <2> QED  BY <2>1, <2>2 DEF KeptInv, Sendable
<1>6. CASE UNCHANGED <<invoice, today>>
  BY <1>6 DEF KeptInv, Sendable
<1>7. ASSUME NEW form \in Accepted, Preview(form) \/ SaveMapping(form)
      PROVE  UNCHANGED <<invoice, today>>
  BY <1>7 DEF Preview, SaveMapping
<1> QED
  BY <1>1, <1>2, <1>3, <1>4, <1>5, <1>6, <1>7 DEF Next, vars, Write

\* A document that breaks no rule breaks none of its header nor of its lines.
LEMMA NothingBroken ==
  ASSUME NEW doc, NEW day, Broken(doc, day) = {}
  PROVE  /\ HeaderBreaks(doc.header, doc.lines) = {}
         /\ \A i \in DOMAIN doc.lines : LineBreaks(doc.lines[i]) = {}
<1> DEFINE header == HeaderBreaks(doc.header, doc.lines)
           those == {LineBreaks(doc.lines[i]) : i \in DOMAIN doc.lines}
           others == {r \in {"future"} : doc.header.document_date > day + 1}
                     \cup {r \in {"repeated"} : Repeated(doc.lines)}
<1>1. others \cup (UNION those) \cup header = {}
  BY DEF Broken
<1>2. \A i \in DOMAIN doc.lines : LineBreaks(doc.lines[i]) \in those
  OBVIOUS
<1> HIDE DEF header, those, others
<1>3. header = {} /\ \A breaks \in those : breaks = {}
  BY <1>1
<1> QED  BY <1>2, <1>3 DEF header

\* What is kept is always sound, and so is where it comes from.
LEMMA KeptAlways ==
  ASSUME ValuesAreWhole
  PROVE  Spec => []KeptInv /\ []SourceInv
<1>1. Init => KeptInv /\ SourceInv
  BY DEF Init, KeptInv, SourceInv
<1>2. KeptInv /\ SourceInv /\ MappingInv /\ InvoiceInv /\ [Next]_vars
        => KeptInv' /\ SourceInv'
  BY KeptStep, SourceStep
<1> QED  BY <1>1, <1>2, MappingAlways, InvoiceAlways, PTL DEF Spec

\* Whatever the numbers, the lines and the limits: a document that may be sent adds
\* up, but for what its roundings explain (canonical.py, validate_document).
THEOREM WhatIsSentAddsUp ==
  ASSUME ValuesAreWhole
  PROVE  Spec => []SentAddsUp
<1>1. ASSUME KeptInv
      PROVE  SentAddsUp
  <2> SUFFICES ASSUME NEW inv \in invoice, Sendable(inv)
               PROVE  AddsUp(inv.doc.header, inv.doc.lines)
    BY DEF SentAddsUp, AddsUp
  <2>1. PICK day \in 0..today : Broken(inv.doc, day) = {}
    BY <1>1 DEF KeptInv
  <2>2. /\ WholeLines(inv.doc.lines)
        /\ \A f \in Amounts : inv.doc.header[f] \in Int
    BY <1>1, SoundIsWhole DEF KeptInv
  <2>3. /\ HeaderBreaks(inv.doc.header, inv.doc.lines) = {}
        /\ \A i \in DOMAIN inv.doc.lines : LineBreaks(inv.doc.lines[i]) = {}
    BY <2>1, NothingBroken
  <2> QED  BY <2>2, <2>3, WithoutErrorsAddsUp
<1> QED  BY <1>1, KeptAlways, PTL

\* Whatever the number of lines and how many of them a query returns: when the
\* header of the other system is the sum of all its lines, those that were left out
\* of a document that may be sent come to a cent at most (connection.py, fetch_all;
\* canonical.py, validate_document).
THEOREM LinesCutAreWorthless ==
  ASSUME ValuesAreWhole
  PROVE  Spec => []CutLinesAreWorthless
<1>1. ASSUME KeptInv
      PROVE  CutLinesAreWorthless
  <2>1. ASSUME NEW inv \in invoice, Sendable(inv)
        PROVE  Apart(inv.doc.header.subtotal, SumOf(inv.doc.lines, "total")) <= 1
    <3> DEFINE x == inv.doc.header.subtotal
               y == SumOf(inv.doc.lines, "total")
    <3>1. PICK day \in 0..today : Broken(inv.doc, day) = {}
      BY <1>1, <2>1 DEF KeptInv
    <3>2. WholeLines(inv.doc.lines) /\ x \in Int
      BY <1>1, SoundIsWhole DEF KeptInv, Amounts
    <3>3. y \in Int
      <4>1. "total" \in Numbers
        BY DEF Numbers, LineMoney
      <4> QED  BY <3>2, <4>1, SumOfField
    <3>4. ~(Apart(y, x) > 1)
      BY <3>1, NothingBroken, WithinTolerances
    <3> HIDE DEF x, y
    <3>5. Apart(x, y) <= 1
      BY <3>2, <3>3, <3>4 DEF Apart
    <3> QED  BY <3>5 DEF x, y
  <2> QED  BY <2>1 DEF CutLinesAreWorthless
<1> QED  BY <1>1, KeptAlways, PTL

\* Whatever the document and whatever happened to it: what revalidate puts together
\* from the two tables has the errors of the import, but for a date that has come in
\* the meantime (services.py, revalidate).
THEOREM RevalidationFindsTheSame ==
  ASSUME ValuesAreWhole
  PROVE  Spec => []RevalidationAgrees
<1>1. ASSUME KeptInv, SourceInv
      PROVE  RevalidationAgrees
  <2> SUFFICES ASSUME NEW inv \in invoice
               PROVE  /\ Verdict(inv.doc) \subseteq inv.errors
                      /\ inv.errors \subseteq Verdict(inv.doc) \cup {"future"}
    BY DEF RevalidationAgrees
  <2>1. SoundDoc(inv.doc) /\ ~Repeated(inv.doc.lines)
    BY <1>1 DEF KeptInv
  <2>2. PICK day \in 0..today : inv.errors = Broken(inv.doc, day)
    BY <1>1 DEF KeptInv
  <2>3. Verdict(inv.doc) = Broken(inv.doc, today)
    BY <2>1, VerdictOfSound
  <2>4. day \in Nat /\ today \in Nat /\ day <= today
    BY <1>1 DEF SourceInv
  <2>5. inv.doc.header.document_date \in Int
    BY <2>1 DEF SoundDoc, SoundHeader
  <2> QED  BY <2>2, <2>3, <2>4, <2>5, BrokenAnotherDay
<1> QED  BY <1>1, KeptAlways, PTL

-----------------------------------------------------------------------------
(* Reading the same again.                                                 *)

\* A list of all of the rows, each once, in the order of a column.
Listing(s, S, column) ==
  /\ s \in [1..Cardinality(S) -> S]
  /\ s \in Seq(S) /\ Len(s) = Cardinality(S)
  /\ \A i, j \in 1..Cardinality(S) : i # j => s[i] # s[j]
  /\ \A x \in S : \E i \in 1..Cardinality(S) : s[i] = x
  /\ InOrderOf(s, column)

Shorter(S, max) == IF Cardinality(S) < max THEN Cardinality(S) ELSE max

\* What is fetched of a finite set of rows is the beginning of such a list.
LEMMA FetchedOf ==
  ASSUME NEW S, IsFiniteSet(S), NEW query, NEW max \in Nat,
         NEW rows \in Fetched(query, S, max)
  PROVE  \E s : Listing(s, S, query.order_by) /\ rows = SubSeq(s, 1, Shorter(S, max))
<1> DEFINE n == Cardinality(S)
           D == 1..n
<1>1. n \in Nat
  BY FS_CardinalityType
<1>2. PICK s \in SetToSeqs(S) :
        /\ InOrderOf(s, query.order_by)
        /\ rows = SubSeq(s, 1, IF Len(s) < max THEN Len(s) ELSE max)
  BY DEF Fetched
<1>3. s \in [D -> S] /\ \A i, j \in D : i # j => s[i] # s[j]
  BY <1>2 DEF SetToSeqs
<1>4. IsFiniteSet(D) /\ Cardinality(D) = n
  <2> HIDE DEF n
  <2>1. /\ IsFiniteSet(1..n)
        /\ Cardinality(1..n) = IF 1 > n THEN 0 ELSE n - 1 + 1
    BY <1>1, FS_Interval
  <2>2. Cardinality(1..n) = n
    BY <1>1, <2>1
  <2> QED  BY <2>1, <2>2
<1>5. \A x \in S : \E i \in D : s[i] = x
  <2>1. s \in Injection(D, S)
    BY <1>3 DEF Injection, IsInjective
  <2> HIDE DEF D
  <2>2. s \in Surjection(D, S)
    BY <1>4, <2>1, FS_Injection
  <2> QED  BY <2>2 DEF Surjection
<1>6. s \in Seq(S) /\ Len(s) = n
  <2> HIDE DEF n
  <2>1. s \in Seq(S)
    BY <1>1, <1>3, SeqDef
  <2>2. Len(s) \in Nat /\ 1..Len(s) = 1..n
    BY <1>3, <2>1, LenProperties
  <2>3. Len(s) = n
    BY <1>1, <2>2
  <2> QED  BY <2>1, <2>3
<1> QED  BY <1>2, <1>3, <1>5, <1>6 DEF Listing, Shorter

\* When no more rows are asked for than there are, what is fetched is such a list.
LEMMA FetchedWhole ==
  ASSUME NEW S, IsFiniteSet(S), NEW query, NEW max \in Nat, Cardinality(S) <= max,
         NEW rows \in Fetched(query, S, max)
  PROVE  Listing(rows, S, query.order_by)
<1>1. PICK s : Listing(s, S, query.order_by) /\ rows = SubSeq(s, 1, Shorter(S, max))
  BY FetchedOf
<1> DEFINE n == Cardinality(S)
<1>2. n \in Nat
  BY FS_CardinalityType
<1>3. Shorter(S, max) = n
  BY <1>2 DEF Shorter
<1>4. s \in Seq(S) /\ Len(s) = n
  BY <1>1 DEF Listing
<1> HIDE DEF n
<1>5. SubSeq(s, 1, Len(s)) = s
  BY <1>4, SubSeqFull
<1> QED  BY <1>1, <1>3, <1>4, <1>5

\* In the order of a column in which no two rows have the same there is one list only.
LEMMA OneListing ==
  ASSUME NEW S, IsFiniteSet(S), NEW column, column # NoColumn,
         \A r \in S : r[column].n \in Int,
         \A r, q \in S : r[column].n = q[column].n => r = q,
         NEW s, Listing(s, S, column), NEW t, Listing(t, S, column)
  PROVE  s = t
<1> DEFINE n == Cardinality(S)
           k == [r \in S |-> r[column].n]
<1>1. n \in Nat
  BY FS_CardinalityType
<1>2. ASSUME NEW l, Listing(l, S, column)
      PROVE  Ascending(k, S, l)
  <2>1. ASSUME NEW i \in 1..n, NEW j \in 1..n, i < j
        PROVE  k[l[i]] < k[l[j]]
    <3>1. l[i] \in S /\ l[j] \in S /\ l[i] # l[j]
      BY <1>1, <1>2, <2>1 DEF Listing
    <3>2. l[i][column].n <= l[j][column].n
      BY <1>2, <2>1 DEF Listing, InOrderOf
    <3>3. l[i][column].n # l[j][column].n /\ l[i][column].n \in Int /\ l[j][column].n \in Int
      BY <3>1
    <3>4. k[l[i]] = l[i][column].n /\ k[l[j]] = l[j][column].n
      BY <3>1
    <3> QED  BY <3>2, <3>3, <3>4
  <2> QED  BY <1>2, <2>1 DEF Listing, Ascending
<1>3. Integral(k, S)
  BY DEF Integral
<1> HIDE DEF k
<1> QED  BY <1>2, <1>3, AscendingIsOne

\* The query of the lines is in the order of the column of their number.
LEMMA LinesOrder ==
  ASSUME NEW form
  PROVE  Built(form).lines_query.order_by = form.lines["line_number"]
<1>1. Built(form).lines_query = LinesQuery(form)
  BY PartsOfMapping DEF Built
<1> QED  BY <1>1 DEF LinesQuery, Select

\* A form with a column for the number of the line lists a document in one way.
LEMMA FormListsInOneWay ==
  ASSUME ValuesAreWhole, LinesAreNumbered, NEW form \in Accepted, ColumnsExist(form),
         NEW column, column = form.lines["line_number"], column # NoColumn,
         NEW o \in Contents, NEW s, Listing(s, o.lines, column),
         NEW t, Listing(t, o.lines, column)
  PROVE  s = t
<1> DEFINE S == o.lines
<1>1. IsFiniteSet(S)
  BY DEF ValuesAreWhole
<1>2. \A r, q \in S : r[column].n = q[column].n => r = q
  BY DEF LinesAreNumbered
<1>3. ASSUME NEW r \in S
      PROVE  r[column].n \in Int
  <2> DEFINE v == Filled(form.lines, Defaults(form.lines, form.line_defaults), r)
  <2>1. Values(v, LINE_FIELDS)
    BY DEF ValuesAreWhole
  <2>2. v = [f \in DOMAIN form.lines |->
               IF f \in Mapped(form.lines) THEN r[form.lines[f]]
               ELSE Defaults(form.lines, form.line_defaults)[f]]
    BY DEF Filled
  <2> HIDE DEF v
  <2>3. "line_number" \in DOMAIN form.lines
    BY <2>1, <2>2, LineFields DEF Values
  <2>4. v["line_number"] = r[column]
    BY <2>2, <2>3 DEF Mapped
  <2> QED  BY <2>1, <2>4, LineFields DEF Values
<1> QED  BY <1>1, <1>2, <1>3, OneListing

\* And so it reads it in one way.
LEMMA FormReadsInOneWay ==
  ASSUME ValuesAreWhole, LinesAreNumbered, NEW form \in Accepted, ColumnsExist(form),
         form.lines["line_number"] # NoColumn, NEW o \in Contents, NEW max \in Nat,
         NEW rows \in Fetched(Built(form).lines_query, o.lines, max),
         NEW again \in Fetched(Built(form).lines_query, o.lines, max)
  PROVE  rows = again
<1> DEFINE query == Built(form).lines_query
           column == form.lines["line_number"]
           S == o.lines
           size == Shorter(S, max)
<1>1. IsFiniteSet(S) /\ query.order_by = column
  BY LinesOrder DEF ValuesAreWhole
<1>2. rows \in Fetched(query, S, max) /\ again \in Fetched(query, S, max)
  OBVIOUS
<1> HIDE DEF query, column, size
<1>3. PICK s : Listing(s, S, column) /\ rows = SubSeq(s, 1, size)
  BY <1>1, <1>2, FetchedOf DEF size
<1>4. PICK t : Listing(t, S, column) /\ again = SubSeq(t, 1, size)
  BY <1>1, <1>2, FetchedOf DEF size
<1>5. s = t
  BY <1>3, <1>4, FormListsInOneWay DEF column
<1> QED  BY <1>3, <1>4, <1>5

\* Whatever the lines and how many of them a query returns: as long as no two lines
\* of a document have the same number, what has not changed is a duplicate when it is
\* read again (services.py, content_hash; assistant.py, build_mapping).
THEOREM UnchangedIsDuplicate ==
  ASSUME ValuesAreWhole, LinesAreNumbered
  PROVE  Spec => ReadingAgainIsQuiet
<1>1. ASSUME SourceInv, MappingInv, InvoiceInv, NEW inv \in invoice,
             inv.content = origin, inv.by = mapping,
             \A m \in mapping : m.built.line_fields["line_number"] # NoColumn, Sync
      PROVE  answer' = "duplicate"
  <2>1. PICK m \in mapping, o \in origin :
          \E rows \in Fetched(m.built.lines_query, o.lines, MaxRows) :
            Import(RowsToPayload(m.built, o.row, rows), {o}, mapping)
    BY <1>1 DEF Sync
  <2>2. PICK rows \in Fetched(m.built.lines_query, o.lines, MaxRows) :
          Import(RowsToPayload(m.built, o.row, rows), {o}, mapping)
    BY <2>1
  <2>3. ReadFrom(inv.doc, m, o)
    BY <1>1 DEF InvoiceInv, ReadBy
  <2>4. PICK before \in Fetched(m.built.lines_query, o.lines, MaxRows) :
          /\ Readable(RowsToPayload(m.built, o.row, before))
          /\ inv.doc = Parse(RowsToPayload(m.built, o.row, before))
    BY <2>3 DEF ReadFrom
  <2>5. /\ m.form \in Accepted /\ m.built = Built(m.form) /\ ColumnsExist(m.form)
        /\ o \in Contents /\ MaxRows \in Nat
    BY <1>1, MaxRowsAssumption DEF MappingInv, MadeFromForm, SourceInv
  <2>6. m.form.lines["line_number"] # NoColumn
    BY <1>1, <2>5, PartsOfMapping DEF Built
  <2>7. rows = before
    BY <2>2, <2>4, <2>5, <2>6, FormReadsInOneWay
  <2> DEFINE payload == RowsToPayload(m.built, o.row, rows)
  <2>8. Readable(payload) /\ inv.doc = Parse(payload)
    BY <2>4, <2>7
  <2> HIDE DEF payload
  <2>9. Import(payload, {o}, mapping)
    BY <2>2 DEF payload
  <2> QED  BY <2>8, <2>9 DEF Import
<1>2. ASSUME SourceInv, MappingInv, InvoiceInv, [Next]_vars
      PROVE  [/\ \E inv \in invoice : inv.content = origin /\ inv.by = mapping
              /\ \A m \in mapping : m.built.line_fields["line_number"] # NoColumn
              /\ Sync
              => answer' = "duplicate"]_vars
  BY <1>1, <1>2
<1> QED  BY <1>2, KeptAlways, MappingAlways, InvoiceAlways, PTL DEF Spec, ReadingAgainIsQuiet

-----------------------------------------------------------------------------
(* The lines in another order.                                             *)

\* What a line has but its number.
Besides == LINE_FIELDS \ {"line_number"}

\* A payload that raises has errors, too; so one without errors can be read.
LEMMA NoErrorsIsReadable ==
  ASSUME NEW p, ParseErrors(p) = {}
  PROVE  Readable(p)
<1>1. ASSUME NEW v, NEW step, NEW max, Raises(v)
      PROVE  DecimalRefused(v, step, max)
  BY <1>1 DEF Raises, DecimalRefused, Blank, Numeric
<1>2. HeaderErrors(p) = {}
  BY DEF ParseErrors
<1>3. \A f \in Amounts : ~DecimalRefused(p.header[f], Cent, Largest)
  BY <1>2 DEF HeaderErrors
<1>4. ASSUME NEW i \in DOMAIN p.lines, Len(p.lines) \in 1..MaxLines
      PROVE  \A f \in LineMoney \cup LineFine :
               ~DecimalRefused(p.lines[i].fields[f], Step(f), Limit(f))
  <2>1. LineErrors(p.lines[i]) = {}
    BY <1>4 DEF ParseErrors
  <2> QED  BY <2>1 DEF LineErrors
<1>5. ~ParseRaises(p)
  BY <1>1, <1>3, <1>4 DEF ParseRaises
<1> QED  BY <1>5 DEF Readable

\* So a preview without errors is that of a document without errors.
LEMMA FinePreview ==
  ASSUME NEW p, NEW day
  PROVE  {} = PreviewErrors(p, day) <=> Readable(p) /\ Broken(Parse(p), day) = {}
<1>1. ParseErrors(p) = {} => Readable(p)
  BY NoErrorsIsReadable
<1> QED  BY <1>1 DEF PreviewErrors

\* Lines that differ in their number only have the same errors but for that.
LEMMA ErrorsAlike ==
  ASSUME NEW a, NEW b, b.known, \A f \in Besides : a.fields[f] = b.fields[f],
         LineErrors(a) = {}, ~LineNumberRefused(b.fields["line_number"])
  PROVE  LineErrors(b) = {}
<1>1. /\ \A f \in REQUIRED_LINE \cup LineTexts \cup LineMoney \cup LineFine : f \in Besides
  BY DEF REQUIRED_LINE, Besides, LINE_FIELDS, LineTexts, LineMoney, LineFine
<1>2. /\ \A f \in REQUIRED_LINE : ~Blank(a.fields[f])
      /\ \A f \in LineTexts : ~TextRefused(f, a.fields[f])
      /\ \A f \in LineMoney \cup LineFine : ~DecimalRefused(a.fields[f], Step(f), Limit(f))
  BY DEF LineErrors
<1>3. /\ \A f \in REQUIRED_LINE : ~Blank(b.fields[f])
      /\ \A f \in LineTexts : ~TextRefused(f, b.fields[f])
      /\ \A f \in LineMoney \cup LineFine : ~DecimalRefused(b.fields[f], Step(f), Limit(f))
      /\ b.known
  BY <1>1, <1>2
<1> QED  BY <1>3 DEF LineErrors

\* They are parsed to lines that differ in their number only.
LEMMA ParsedAlike ==
  ASSUME NEW a, NEW b, \A f \in Besides : a.fields[f] = b.fields[f], NEW i, NEW j
  PROVE  \A f \in Besides : ParseLine(a, i)[f] = ParseLine(b, j)[f]
<1>1. /\ ParseLine(a, i) =
           [f \in LINE_FIELDS |->
              CASE f \in LineTexts    -> TextOf(f, a.fields[f])
                [] f = "line_number"  -> LineNumber(a.fields[f], i)
                [] OTHER              -> DecimalOf(a.fields[f], Step(f))]
      /\ ParseLine(b, j) =
           [f \in LINE_FIELDS |->
              CASE f \in LineTexts    -> TextOf(f, b.fields[f])
                [] f = "line_number"  -> LineNumber(b.fields[f], j)
                [] OTHER              -> DecimalOf(b.fields[f], Step(f))]
  BY DEF ParseLine
<1> QED  BY <1>1 DEF Besides

\* And such lines break the same rules.
LEMMA BreaksAlike ==
  ASSUME NEW l, NEW m, \A f \in Besides : l[f] = m[f]
  PROVE  LineBreaks(l) = LineBreaks(m)
<1>1. /\ \A f \in LineMoney \cup LineFine : l[f] = m[f]
      /\ l.quantity = m.quantity /\ l.unit_price = m.unit_price
      /\ l.discount = m.discount /\ l.total = m.total /\ l.tax_rate = m.tax_rate
      /\ l.tax_amount = m.tax_amount /\ l.tax_exemption_code = m.tax_exemption_code
  BY DEF Besides, LINE_FIELDS, LineTexts, LineMoney, LineFine
<1>2. ExpectedTotal(l) = ExpectedTotal(m) /\ ExpectedTax(l) = ExpectedTax(m)
  BY <1>1 DEF ExpectedTotal, ExpectedTax
<1> QED  BY <1>1, <1>2 DEF LineBreaks

\* The parts of a document that has its lines read from the rows of S: the i-th from
\* s[i], but for their numbers.
From(p, n, S, s, value) ==
  /\ WholePayload(p)
  /\ Len(p.lines) = n
  /\ s \in [1..n -> S]
  /\ \A i, j \in 1..n : s[i] = s[j] => i = j
  /\ \A x \in S : \E i \in 1..n : s[i] = x
  /\ \A i \in 1..n : p.lines[i].known /\ \A f \in Besides : p.lines[i].fields[f] = value[s[i]][f]

\* The lines of such a payload are counted from 1 to n, and so are those of its
\* document.
LEMMA FromRows ==
  ASSUME NEW p, NEW n, NEW S, NEW s, NEW value, From(p, n, S, s, value)
  PROVE  /\ n \in Nat /\ DOMAIN p.lines = 1..n /\ IsFiniteSet(1..n)
         /\ Parse(p).lines = [i \in 1..n |-> ParseLine(p.lines[i], i)]
         /\ Len(Parse(p).lines) = n
<1> DEFINE l == p.lines
           k == Parse(p).lines
<1>1. l \in Seq(ToSet(l)) /\ Len(l) = n
  BY DEF From, WholePayload
<1>2. n \in Nat /\ DOMAIN l = 1..n
  BY <1>1, LenProperties
<1>3. k = [i \in DOMAIN l |-> ParseLine(l[i], i)]
  BY DEF Parse
<1> HIDE DEF l, k
<1>4. DOMAIN k = DOMAIN l /\ k = [i \in DOMAIN k |-> k[i]]
  BY <1>3
<1>5. Len(k) = n
  BY <1>1, <1>4, ListedAlong
<1> QED  BY <1>2, <1>3, <1>5, FS_Interval DEF l, k

\* What a field of the lines comes to is the same in any order.
LEMMA SumFromRows ==
  ASSUME NEW p, NEW q, NEW n, NEW S, NEW s, NEW t, NEW value, NEW f \in LineMoney,
         From(p, n, S, s, value), From(q, n, S, t, value), Readable(p), Readable(q)
  PROVE  SumOf(Parse(p).lines, f) = SumOf(Parse(q).lines, f)
<1> DEFINE D == 1..n
           w == [x \in S |-> DecimalOf(value[x][f], Step(f))]
<1>1. ASSUME NEW a, NEW u, From(a, n, S, u, value), Readable(a)
      PROVE  SumOf(Parse(a).lines, f) = SumFunctionOnSet(w, S)
  <2> DEFINE k == Parse(a).lines
             column == [i \in DOMAIN k |-> k[i][f]]
  <2>1. /\ n \in Nat /\ DOMAIN k = D /\ IsFiniteSet(D)
        /\ \A i \in D : k[i] = ParseLine(a.lines[i], i)
    BY <1>1, FromRows
  <2>2. WholeLines(k)
    BY <1>1, ParsedIsSound, SoundIsWhole DEF Readable, From
  <2>3. f \in Besides /\ f \in Numbers /\ f \notin LineTexts
    BY DEF Besides, LINE_FIELDS, LineMoney, LineFine, LineTexts, Numbers
  <2>4. ASSUME NEW i \in D
        PROVE  column[i] = w[u[i]] /\ w[u[i]] \in Int
    <3>1. u[i] \in S /\ a.lines[i].fields[f] = value[u[i]][f]
      <4>1. u \in [1..n -> S]
        BY <1>1 DEF From
      <4>2. \A j \in 1..n : \A g \in Besides : a.lines[j].fields[g] = value[u[j]][g]
        BY <1>1 DEF From
      <4> QED  BY <2>3, <4>1, <4>2
    <3>2. ParseLine(a.lines[i], i)[f] = DecimalOf(a.lines[i].fields[f], Step(f))
      BY <2>3 DEF ParseLine, Besides
    <3>3. k[i][f] \in Int
      BY <2>1, <2>2, <2>3 DEF WholeLines
    <3>4. k[i][f] = DecimalOf(value[u[i]][f], Step(f))
      BY <2>1, <3>1, <3>2
    <3>5. column[i] = k[i][f]
      BY <2>1
    <3>6. w[u[i]] = DecimalOf(value[u[i]][f], Step(f))
      BY <3>1
    <3> QED  BY <3>3, <3>4, <3>5, <3>6
  <2>5. SumOf(k, f) = SumFunctionOnSet(column, D)
    BY <2>1, <2>2, <2>3, SumOfField
  <2>6. /\ DOMAIN u = D /\ \A i \in D : u[i] \in S
        /\ \A i, j \in D : u[i] = u[j] => i = j
    BY <1>1 DEF From
  <2>7. \A x \in S : \E i \in D : u[i] = x
    BY <1>1 DEF From
  <2> HIDE DEF w, column, D, k
  <2>8. SumFunctionOnSet(column, D) = SumFunctionOnSet(w, S)
    BY <2>1, <2>4, <2>6, <2>7, SumAlong
  <2> QED  BY <2>5, <2>8 DEF k
<1> QED  BY <1>1

\* Whether a document has errors does not depend on the order of its rows, when the
\* numbers of its lines do not.
LEMMA ReorderedIsFine ==
  ASSUME NEW p, NEW q, NEW n, NEW S, NEW s, NEW t, NEW value, NEW day,
         From(p, n, S, s, value), From(q, n, S, t, value),
         q.known = p.known, q.header = p.header,
         \A i \in 1..n : q.lines[i].fields["line_number"] = p.lines[i].fields["line_number"],
         Readable(p), Broken(Parse(p), day) = {}
  PROVE  Readable(q) /\ Broken(Parse(q), day) = {}
<1> DEFINE D == 1..n
           k == Parse(p).lines
           m == Parse(q).lines
           h == Parse(p).header
<1>1. /\ n \in Nat /\ DOMAIN p.lines = D /\ DOMAIN q.lines = D
      /\ k = [i \in D |-> ParseLine(p.lines[i], i)] /\ Len(k) = n
      /\ m = [i \in D |-> ParseLine(q.lines[i], i)] /\ Len(m) = n
  BY FromRows
<1>2. Len(p.lines) = n /\ Len(q.lines) = n
  BY DEF From
<1>3. \A j \in D : \E i \in D :
        /\ q.lines[j].known
        /\ \A f \in Besides : p.lines[i].fields[f] = q.lines[j].fields[f]
  <2> TAKE j \in D
  <2>1. t[j] \in S /\ \A f \in Besides : q.lines[j].fields[f] = value[t[j]][f]
    BY DEF From
  <2>2. PICK i \in D : s[i] = t[j]
    BY <2>1 DEF From
  <2>3. \A f \in Besides : p.lines[i].fields[f] = value[s[i]][f]
    BY DEF From
  <2>4. q.lines[j].known
    BY DEF From
  <2> QED  BY <2>1, <2>2, <2>3, <2>4
<1>4. ParseErrors(p) = {}
  BY DEF Readable
<1>5. /\ HeaderErrors(p) = {} /\ n \in 1..MaxLines
      /\ \A i \in D : LineErrors(p.lines[i]) = {}
  <2>1. HeaderErrors(p) = {}
    BY <1>4 DEF ParseErrors
  <2>2. n \in 1..MaxLines
    BY <1>2, <2>1 DEF HeaderErrors
  <2> QED  BY <1>1, <1>2, <1>4, <2>1, <2>2 DEF ParseErrors
<1>6. \A j \in D : LineErrors(q.lines[j]) = {}
  <2> TAKE j \in D
  <2>1. PICK i \in D : /\ q.lines[j].known
                       /\ \A f \in Besides : p.lines[i].fields[f] = q.lines[j].fields[f]
    BY <1>3
  <2>2. ~LineNumberRefused(q.lines[j].fields["line_number"])
    <3>1. LineErrors(p.lines[j]) = {}
      BY <1>5
    <3>2. ~LineNumberRefused(p.lines[j].fields["line_number"])
      BY <3>1 DEF LineErrors
    <3> QED  BY <3>2
  <2> QED  BY <1>5, <2>1, <2>2, ErrorsAlike
<1>7. HeaderErrors(q) = {}
  <2>1. HeaderErrors(q) = HeaderErrors(p)
    BY <1>2 DEF HeaderErrors
  <2> QED  BY <1>5, <2>1
<1>8. Readable(q)
  <2>1. ParseErrors(q) = {}
    BY <1>1, <1>6, <1>7 DEF ParseErrors
  <2> QED  BY <2>1, NoErrorsIsReadable
<1>9. Parse(q).header = h
  BY DEF Parse
<1>10. /\ HeaderBreaks(h, k) = {}
       /\ \A i \in DOMAIN k : LineBreaks(k[i]) = {}
       /\ ~Repeated(k) /\ ~(h.document_date > day + 1)
  <2>1. HeaderBreaks(h, k) = {} /\ \A i \in DOMAIN k : LineBreaks(k[i]) = {}
    BY NothingBroken
  <2>2. ~Repeated(k) /\ ~(h.document_date > day + 1)
    BY DEF Broken
  <2> QED  BY <2>1, <2>2
<1>11. \A j \in D : LineBreaks(m[j]) = {}
  <2> TAKE j \in D
  <2>1. PICK i \in D : \A f \in Besides : p.lines[i].fields[f] = q.lines[j].fields[f]
    BY <1>3
  <2>2. \A f \in Besides : ParseLine(p.lines[i], i)[f] = ParseLine(q.lines[j], j)[f]
    BY <2>1, ParsedAlike
  <2>3. LineBreaks(ParseLine(p.lines[i], i)) = LineBreaks(ParseLine(q.lines[j], j))
    BY <2>2, BreaksAlike
  <2> QED  BY <1>1, <1>10, <2>3
<1>12. ~Repeated(m)
  <2>1. \A i \in D : ParseLine(q.lines[i], i)["line_number"]
                       = ParseLine(p.lines[i], i)["line_number"]
    BY LineFields DEF ParseLine
  <2>2. \A i \in D : m[i].line_number = k[i].line_number
    BY <1>1, <2>1
  <2> QED  BY <1>1, <1>10, <2>2 DEF Repeated
<1>13. HeaderBreaks(h, m) = {}
  <2>1. "total" \in LineMoney /\ "tax_amount" \in LineMoney
    BY DEF LineMoney
  <2>2. SumOf(m, "total") = SumOf(k, "total") /\ SumOf(m, "tax_amount") = SumOf(k, "tax_amount")
    BY <1>8, <2>1, SumFromRows
  <2> HIDE DEF k, m, h
  <2> QED  BY <1>1, <1>10, <2>2 DEF HeaderBreaks, TaxTolerance
<1>14. Broken(Parse(q), day) = {}
  <2> DEFINE doc == Parse(q)
             those == {LineBreaks(doc.lines[i]) : i \in DOMAIN doc.lines}
             others == {r \in {"future"} : doc.header.document_date > day + 1}
                       \cup {r \in {"repeated"} : Repeated(doc.lines)}
  <2>1. Broken(doc, day) = others \cup (UNION those) \cup HeaderBreaks(doc.header, doc.lines)
    BY DEF Broken
  <2>2. \A breaks \in those : breaks = {}
    BY <1>1, <1>11
  <2>3. others = {}
    BY <1>9, <1>10, <1>12
  <2>4. HeaderBreaks(doc.header, doc.lines) = {}
    BY <1>9, <1>13
  <2> HIDE DEF doc, those, others
  <2> QED  BY <2>1, <2>2, <2>3, <2>4 DEF doc
<1> QED  BY <1>8, <1>14

\* What the rows of the lines of a document come to by a form.
Valued(form, o) ==
  [r \in o.lines |-> Filled(form.lines, Defaults(form.lines, form.line_defaults), r)]

\* When no lines are cut off, the payload has all of them; one that has no number is
\* numbered as it comes.
LEMMA ReadInFull ==
  ASSUME ValuesAreWhole, NEW form \in Accepted, ColumnsExist(form), NEW o \in Contents,
         NEW max \in Nat, Cardinality(o.lines) <= max,
         NEW rows \in Fetched(Built(form).lines_query, o.lines, max)
  PROVE  LET p == RowsToPayload(Built(form), o.row, rows)
             n == Cardinality(o.lines)
             value == Valued(form, o)
         IN  /\ From(p, n, o.lines, rows, value)
             /\ p.known = TRUE
             /\ p.header = Filled(form.header, Defaults(form.header, form.header_defaults),
                                  o.row)
             /\ \A i \in 1..n :
                  LET number == value[rows[i]]["line_number"]
                  IN  p.lines[i].fields["line_number"] =
                        IF number = Missing THEN Number(i * One) ELSE number
<1> DEFINE m == Built(form)
           p == RowsToPayload(m, o.row, rows)
           S == o.lines
           n == Cardinality(S)
           value == Valued(form, o)
           line(i) == Filled(m.line_fields, m.line_defaults, rows[i])
<1>1. /\ m.fields = form.header /\ m.line_fields = form.lines
      /\ m.defaults = Defaults(form.header, form.header_defaults)
      /\ m.line_defaults = Defaults(form.lines, form.line_defaults)
  BY PartsOfMapping DEF Built
<1>2. WholePayload(p)
  BY ReadIsWhole
<1>3. Listing(rows, S, m.lines_query.order_by)
  BY FetchedWhole DEF ValuesAreWhole
<1>4. /\ rows \in [1..n -> S] /\ DOMAIN rows = 1..n
      /\ \A i, j \in 1..n : rows[i] = rows[j] => i = j
      /\ \A x \in S : \E i \in 1..n : rows[i] = x
  BY <1>3 DEF Listing
<1>5. /\ p.header = Filled(m.fields, m.defaults, o.row)
      /\ p.known = TRUE
      /\ p.lines = [i \in DOMAIN rows |->
                      [known |-> TRUE,
                       fields |-> [line(i) EXCEPT !["line_number"] =
                                     IF @ = Missing THEN Number(i * One) ELSE @]]]
  BY DEF RowsToPayload
<1>6. \A i \in 1..n : line(i) = value[rows[i]]
  BY <1>1, <1>4 DEF Valued
<1> HIDE DEF m, p
<1>7. Len(p.lines) = n
  <2> DEFINE l == p.lines
  <2>1. l \in Seq(ToSet(l)) /\ DOMAIN l = 1..n
    BY <1>2, <1>4, <1>5 DEF WholePayload
  <2>2. n \in Nat
    BY FS_CardinalityType DEF ValuesAreWhole
  <2> HIDE DEF l, n
  <2>3. Len(l) \in Nat /\ 1..Len(l) = 1..n
    BY <2>1, LenProperties
  <2> QED  BY <2>2, <2>3 DEF l
<1>8. ASSUME NEW i \in 1..n
      PROVE  LET number == value[rows[i]]["line_number"]
             IN  /\ p.lines[i].known
                 /\ \A f \in Besides : p.lines[i].fields[f] = value[rows[i]][f]
                 /\ p.lines[i].fields["line_number"] =
                      IF number = Missing THEN Number(i * One) ELSE number
  <2> DEFINE v == line(i)
             number == IF v["line_number"] = Missing THEN Number(i * One)
                       ELSE v["line_number"]
  <2>1. v = value[rows[i]]
    BY <1>6
  <2>2. p.lines[i].known /\ p.lines[i].fields = [v EXCEPT !["line_number"] = number]
    BY <1>4, <1>5
  <2>3. DOMAIN v = LINE_FIELDS
    BY <1>1, <1>4 DEF ValuesAreWhole, Values
  <2> HIDE DEF v, number
  <2>4. \A f \in Besides : p.lines[i].fields[f] = v[f]
    BY <2>2, <2>3 DEF Besides
  <2>5. p.lines[i].fields["line_number"] = number
    BY <2>2, <2>3, LineFields
  <2> QED  BY <2>1, <2>2, <2>4, <2>5 DEF number
<1> HIDE DEF line, n, value, S
<1>9. From(p, n, S, rows, value)
  BY <1>2, <1>4, <1>7, <1>8 DEF From
<1> QED  BY <1>1, <1>5, <1>8, <1>9 DEF m, p, n, value, S

\* So two readings of a document, both in full, have errors both or neither, be the
\* order of its lines given or not.
LEMMA ReadingsAgree ==
  ASSUME ValuesAreWhole, LinesAreNumbered, NEW form \in Accepted, ColumnsExist(form),
         NEW o \in Contents, NEW max \in Nat, Cardinality(o.lines) <= max,
         NEW rows \in Fetched(Built(form).lines_query, o.lines, max),
         NEW most \in Nat, Cardinality(o.lines) <= most,
         NEW again \in Fetched(Built(form).lines_query, o.lines, most), NEW day,
         {} = PreviewErrors(RowsToPayload(Built(form), o.row, rows), day)
  PROVE  {} = PreviewErrors(RowsToPayload(Built(form), o.row, again), day)
<1> DEFINE p == RowsToPayload(Built(form), o.row, rows)
           q == RowsToPayload(Built(form), o.row, again)
           S == o.lines
           n == Cardinality(S)
           value == Valued(form, o)
           column == form.lines["line_number"]
<1>1. CASE column # NoColumn
  <2>1. Listing(rows, S, column) /\ Listing(again, S, column)
    BY LinesOrder, FetchedWhole DEF ValuesAreWhole
  <2>2. rows = again
    BY <1>1, <2>1, FormListsInOneWay
  <2> QED  BY <2>2
<1>2. CASE column = NoColumn
  <2>1. /\ From(p, n, S, rows, value) /\ p.known = TRUE
        /\ p.header = Filled(form.header, Defaults(form.header, form.header_defaults), o.row)
        /\ \A i \in 1..n :
             LET number == value[rows[i]]["line_number"]
             IN  p.lines[i].fields["line_number"] =
                   IF number = Missing THEN Number(i * One) ELSE number
    BY ReadInFull
  <2>2. /\ From(q, n, S, again, value) /\ q.known = TRUE
        /\ q.header = Filled(form.header, Defaults(form.header, form.header_defaults), o.row)
        /\ \A i \in 1..n :
             LET number == value[again[i]]["line_number"]
             IN  q.lines[i].fields["line_number"] =
                   IF number = Missing THEN Number(i * One) ELSE number
    BY ReadInFull
  <2>3. \A r \in S : value[r]["line_number"]
                       = Defaults(form.lines, form.line_defaults)["line_number"]
    <3> TAKE r \in S
    <3> DEFINE v == Filled(form.lines, Defaults(form.lines, form.line_defaults), r)
    <3>1. Values(v, LINE_FIELDS)
      BY DEF ValuesAreWhole
    <3>2. v = [f \in DOMAIN form.lines |->
                 IF f \in Mapped(form.lines) THEN r[form.lines[f]]
                 ELSE Defaults(form.lines, form.line_defaults)[f]]
      BY DEF Filled
    <3>3. value[r] = v
      BY DEF Valued
    <3> HIDE DEF v, value
    <3>4. "line_number" \in DOMAIN form.lines
      BY <3>1, <3>2, LineFields DEF Values
    <3> QED  BY <1>2, <3>2, <3>3, <3>4 DEF Mapped
  <2>4. \A i \in 1..n : rows[i] \in S /\ again[i] \in S
    BY <2>1, <2>2 DEF From
  <2> HIDE DEF p, q, n, S, value
  <2>5. \A i \in 1..n : q.lines[i].fields["line_number"] = p.lines[i].fields["line_number"]
    BY <2>1, <2>2, <2>3, <2>4
  <2>6. q.known = p.known /\ q.header = p.header
    BY <2>1, <2>2
  <2>7. Readable(p) /\ Broken(Parse(p), day) = {}
    BY FinePreview DEF p
  <2>8. Readable(q) /\ Broken(Parse(q), day) = {}
    BY <2>1, <2>2, <2>5, <2>6, <2>7, ReorderedIsFine
  <2> QED  BY <2>8, FinePreview DEF q
<1> QED  BY <1>1, <1>2


-----------------------------------------------------------------------------
(* What a preview shows.                                                   *)

\* A preview of a form may come to this on a day.
MayShow(form, fine, o, day) ==
  \E rows \in Fetched(Built(form).lines_query, o.lines, PreviewLines) :
    fine = ({} = PreviewErrors(RowsToPayload(Built(form), o.row, rows), day))

\* What is shown is what a preview of what the other system holds may come to today.
ShownInv ==
  /\ \A o, q \in origin : o = q
  /\ \A s \in shown :
       /\ s.form \in Accepted
       /\ ColumnsExist(s.form)
       /\ \E o \in origin : MayShow(s.form, s.fine, o, today)

\* Whatever changes what it was read from, or the day, takes it away.
LEMMA ShownStep ==
  ASSUME ShownInv, [Next]_vars
  PROVE  ShownInv'
<1>1. ASSUME NEW form \in Accepted, Preview(form)
      PROVE  ShownInv'
  <2>1. UNCHANGED <<origin, today>> /\ ColumnsExist(form)
    BY <1>1 DEF Preview
  <2>2. PICK o \in origin :
          \E rows \in Fetched(Built(form).lines_query, o.lines, PreviewLines) :
            shown' = {[form |-> form,
                       fine |-> {} = PreviewErrors(RowsToPayload(Built(form), o.row, rows), today)]}
    BY <1>1 DEF Preview
  <2>3. PICK rows \in Fetched(Built(form).lines_query, o.lines, PreviewLines) :
          shown' = {[form |-> form,
                     fine |-> {} = PreviewErrors(RowsToPayload(Built(form), o.row, rows), today)]}
    BY <2>2
  <2>4. ASSUME NEW s \in shown'
        PROVE  /\ s.form = form
               /\ s.fine = ({} = PreviewErrors(RowsToPayload(Built(form), o.row, rows), today))
    BY <2>3, <2>4
  <2>5. ASSUME NEW s \in shown'
        PROVE  s.form = form /\ MayShow(s.form, s.fine, o, today)
    BY <2>4, <2>5 DEF MayShow
  <2> QED  BY <2>1, <2>5 DEF ShownInv
<1>2. ASSUME NEW form \in Accepted, SaveMapping(form)
      PROVE  ShownInv'
  <2>1. UNCHANGED <<origin, today>> /\ shown' \subseteq shown
    BY <1>2 DEF SaveMapping
  <2> QED  BY <2>1 DEF ShownInv
<1>3. ASSUME NEW c \in Contents, Write(c)
      PROVE  ShownInv'
  BY <1>3 DEF Write, ShownInv
<1>4. CASE DayPasses
  BY <1>4 DEF DayPasses, ShownInv
<1>5. CASE UNCHANGED <<origin, shown, today>>
  BY <1>5 DEF ShownInv
<1> QED
  BY <1>1, <1>2, <1>3, <1>4, <1>5 DEF Next, vars, Sync, Post, Revalidate, Communicate

\* Whatever the lines, in whatever order the database gives them: what a preview
\* showed without errors is kept without, and what it showed with some keeps some
\* (assistant.py, preview).
THEOREM PreviewsTell ==
  ASSUME ValuesAreWhole, LinesAreNumbered
  PROVE  Spec => PreviewTells
<1>1. Init => ShownInv
  BY DEF Init, ShownInv
<1>2. Spec => []ShownInv
  BY <1>1, ShownStep, PTL DEF Spec
<1>3. ASSUME ShownInv, SourceInv, MappingInv,
             NEW s \in shown, NEW m \in mapping, NEW o \in origin,
             s.form = m.form, Cardinality(o.lines) <= PreviewLines,
             Sync, answer' \in {"created", "updated"}, NEW inv \in invoice'
      PROVE  (inv.errors = {}) = s.fine
  <2> DEFINE form == s.form
  <2>1. PICK rows \in Fetched(m.built.lines_query, o.lines, MaxRows) :
          Import(RowsToPayload(m.built, o.row, rows), {o}, mapping)
    BY <1>3 DEF Sync, ShownInv, MappingInv
  <2>2. m.built = Built(form) /\ form \in Accepted /\ ColumnsExist(form) /\ o \in Contents
    BY <1>3 DEF MappingInv, MadeFromForm, SourceInv, ShownInv
  <2> HIDE DEF form
  <2> DEFINE p == RowsToPayload(Built(form), o.row, rows)
  <2>3. /\ Readable(p)
        /\ invoice' = {Row(Parse(p), {o}, mapping)}
    BY <1>3, <2>1, <2>2 DEF Import
  <2>4. inv.errors = Broken(Parse(p), today)
    BY <2>3 DEF Row
  <2>5. (inv.errors = {}) <=> {} = PreviewErrors(p, today)
    BY <2>3, <2>4, FinePreview
  <2>6. PICK shows \in Fetched(Built(form).lines_query, o.lines, PreviewLines) :
          s.fine = ({} = PreviewErrors(RowsToPayload(Built(form), o.row, shows), today))
    BY <1>3 DEF ShownInv, MayShow, form
  <2>7. /\ PreviewLines \in Nat /\ MaxRows \in Nat
        /\ Cardinality(o.lines) \in Nat /\ Cardinality(o.lines) <= MaxRows
    <3>1. IsFiniteSet(o.lines)
      BY <2>2 DEF ValuesAreWhole
    <3>2. Cardinality(o.lines) \in Nat
      BY <3>1, FS_CardinalityType
    <3> QED  BY <1>3, <3>2, DocumentsAssumption, MaxRowsAssumption
  <2>8. rows \in Fetched(Built(form).lines_query, o.lines, MaxRows)
    BY <2>1, <2>2
  <2> DEFINE q == RowsToPayload(Built(form), o.row, shows)
  <2>9. ASSUME {} = PreviewErrors(p, today)
        PROVE  {} = PreviewErrors(q, today)
    BY <1>3, <2>2, <2>7, <2>8, <2>9, ReadingsAgree
  <2>10. ASSUME {} = PreviewErrors(q, today)
         PROVE  {} = PreviewErrors(p, today)
    BY <1>3, <2>2, <2>7, <2>8, <2>10, ReadingsAgree
  <2>11. s.fine = ({} = PreviewErrors(q, today))
    BY <2>6
  <2> HIDE DEF p, q
  <2> QED  BY <2>5, <2>9, <2>10, <2>11
<1>4. ASSUME ShownInv, SourceInv, MappingInv, [Next]_vars
      PROVE  [\A s \in shown, m \in mapping, o \in origin :
                s.form = m.form /\ Cardinality(o.lines) <= PreviewLines
                  /\ Sync /\ answer' \in {"created", "updated"} =>
                    \A inv \in invoice' : (inv.errors = {}) = s.fine]_vars
  BY <1>3, <1>4
<1> QED  BY <1>2, <1>4, KeptAlways, MappingAlways, PTL DEF Spec, PreviewTells


=============================================================================
