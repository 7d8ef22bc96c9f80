---------------------------- MODULE MCDocuments -----------------------------
(***************************************************************************)
(* A small instance of Documents for TLC: every column but a few has the   *)
(* name of its field.                                                      *)
(***************************************************************************)
EXTENDS Documents, TLC

Text(n) == Value("text", n)
Money(cents) == Value("decimal", cents * Cent)

DocumentColumns ==
  <<"source_document_id", "created_at", "document_type", "series", "document_number",
    "document_date", "customer_name", "customer_nif", "currency", "subtotal",
    "tax_amount", "total", "document_hash", "hash_control">>
LineColumns ==
  <<"line_id", "document", "line_number", "product_code", "description", "quantity",
    "unit_price", "discount", "tax_rate", "tax_amount", "tax_exemption_code", "total">>

Table(name, words, columns, pk, fks) ==
  [name |-> name, system |-> FALSE, readable |-> TRUE, words |-> words,
   columns |-> columns, pk |-> pk, fks |-> fks]

\* Of the server, and without access to it.
Others == {[Table(1, {"header"}, DocumentColumns, {}, <<>>) EXCEPT !.system = TRUE],
           [Table(4, {"line"}, LineColumns, {}, <<>>) EXCEPT !.readable = FALSE]}

\* The lines have a key of their own and one to the document; or neither, and the
\* document has no number for a key.
TheDatabases ==
  {{Table(2, {"header"}, DocumentColumns, {"source_document_id"}, <<>>),
    Table(3, {"line"}, LineColumns, {"line_id"}, <<<<"document", 2>>>>)} \cup Others,
   {Table(3, {"header"}, DocumentColumns, {"series", "document_number"}, <<>>),
    Table(2, {"line"}, LineColumns, {"document", "line_number"}, <<>>)} \cup Others}

SameName(fields) == [p \in {<<f, f>> : f \in fields} |-> 100]
TheHeaderScore == SameName(HEADER_FIELDS)
TheLineScore == SameName(LINE_FIELDS)
TheLinkNames == [name \in 1..4 |-> IF name = 3 THEN {"document"} ELSE {}]

FT == Text(1)
PF == Value("lower", 2)     \* pro-formas
TheTypes == {FT, PF, Missing}

-----------------------------------------------------------------------------
(* Lines and headers.                                                      *)

Line(number, units, price, discount, rate, tax, total) ==
  [f \in LINE_FIELDS |->
     CASE f = "line_number" -> Number(number * One)
       [] f = "quantity"    -> Value("decimal", units)
       [] f = "unit_price"  -> Value("decimal", price)
       [] f = "discount"    -> Money(discount)
       [] f = "tax_rate"    -> Value("decimal", rate * One)
       [] f = "tax_amount"  -> Money(tax)
       [] f = "total"       -> Money(total)
       [] f = "tax_exemption_code" -> IF rate = 0 THEN Text(1) ELSE Missing
       [] OTHER             -> Text(1)]

\* 1.5 times 0.07 is 0.105: 0.11; 14% of it 0.0154.  The others are one cent
\* off, on either side, in their total and in their tax.
Exact == Line(1, 15000, 700, 0, 14, 2, 11)
Above == Line(2, 15000, 700, 0, 14, 3, 12)
Below == Line(2, 15000, 700, 0, 14, 0, 10)
TwoOff == Line(2, 15000, 700, 0, 14, 1, 13)
Discounted == Line(2, 20000, 2500, 30, 14, 3, 20)
Free == Line(3, 10000, 500, 5, 0, 0, 0)
Dear == Line(3, 10000, 5000, 0, 0, 0, 50)

Header(type, day, subtotal, tax, total) ==
  [f \in HEADER_FIELDS |->
     CASE f = "document_type" -> type
       [] f = "document_date" -> Value("date", day)
       [] f = "subtotal"      -> Money(subtotal)
       [] f = "tax_amount"    -> Money(tax)
       [] f = "total"         -> Money(total)
       [] f = "source_document_id" -> Number(One)
       [] f \in {"currency", "document_hash", "hash_control"} -> Missing
       [] OTHER               -> Text(1)]

InTable(lines) ==
  {[c \in ToSet(LineColumns) |->
      CASE c = "document" -> Number(One)
        [] c = "line_id"  -> l.line_number
        [] OTHER          -> l[c]] : l \in lines}

Content(header, lines) ==
  [row   |-> ("created_at" :> Value("date", 0)) @@ header,
   lines |-> InTable(lines)]

TheContents ==
  {Content(Header(FT, 0, 11, 2, 13), {Exact}),
   Content(Header(FT, 0, 24, 7, 32), {Exact, Above}),        \* all at the limit
   Content(Header(FT, 0, 24, 8, 32), {Exact, Above}),        \* and beyond it
   Content(Header(FT, 1, 21, 2, 22), {Exact, Below}),
   Content(Header(FT, 0, 24, 3, 27), {Exact, TwoOff}),
   Content(Header(FT, 0, 31, 5, 36), {Exact, Discounted}),
   Content(Header(FT, 0, 31, 5, 36), {Exact, Discounted, Free}),
   Content(Header(FT, 0, 81, 5, 86), {Exact, Discounted, Dear}),
   Content(Header(PF, 0, 31, 5, 36), {Exact, Discounted}),
   Content(Header(FT, 2, 11, 2, 13), {Exact}),
   Content(Header(FT, 0, 11, 2, 13), {})}

-----------------------------------------------------------------------------
(* What the administrator changes, and what a client of the API posts.     *)

Suggested == [f \in {} |-> {}]

Only(field, value) == [f \in {field} |-> value]

NoNumbers == [f \in LINE_FIELDS |-> IF f = "line_number" THEN NoColumn ELSE f]
Without(field) == [f \in HEADER_FIELDS |-> IF f = field THEN NoColumn ELSE f]
Fixed(field, v) == [f \in HEADER_FIELDS |-> IF f = field THEN v ELSE Missing]
FixedLine(field, v) == [f \in LINE_FIELDS |-> IF f = field THEN v ELSE Missing]

TheEdits ==
  {Suggested,
   Only("ticked", {FT}),
   Only("ticked", {}),                                      \* refused
   Only("start_after", Text(5)),                            \* refused
   Only("lines", [NoNumbers EXCEPT !["total"] = NoColumn]), \* refused
   Only("start_date", Value("date", 1)) @@ Only("cursor_type", "datetime")
     @@ Only("cursor_column", "document_date") @@ Only("start_after", Value("date", 5)),
   Only("header", Without("currency")) @@ Only("header_defaults", Fixed("currency", Text(0)))
     @@ Only("lines", [NoNumbers EXCEPT !["tax_exemption_code"] = NoColumn])
     @@ Only("line_defaults", FixedLine("tax_exemption_code", Text(1)))
     @@ Only("start_after", Number(5)),
   Only("header", Without("document_type")) @@ Only("header_defaults", Fixed("document_type", FT))
     @@ Only("ticked", {})}

Posted(header, lines) ==
  [known |-> TRUE, header |-> header,
   lines |-> [i \in DOMAIN lines |-> [known |-> TRUE, fields |-> lines[i]]]]

GoodHeader == Header(FT, 0, 31, 5, 36)

ThePayloads ==
  {Posted(GoodHeader, <<Exact, Discounted>>),
   Posted(GoodHeader, <<Discounted, Exact>>),
   Posted([GoodHeader EXCEPT !.currency = Value("lower", 0)],
          <<[Exact EXCEPT !.line_number = Missing], Discounted>>),
   Posted([GoodHeader EXCEPT !.total = Value("huge", 0)], <<Exact>>),
   Posted([GoodHeader EXCEPT !.customer_nif = Value("odd", 0)], <<Exact>>),
   Posted([GoodHeader EXCEPT !.subtotal = Number(3150)], <<Exact>>),
   Posted(GoodHeader, <<[Exact EXCEPT !.line_number = Number(5000)]>>),
   Posted(GoodHeader, <<[Exact EXCEPT !.quantity = Value("large", 0)]>>),
   Posted(Header(FT, 0, -11, -2, -13), <<[Exact EXCEPT !.quantity = Number(-15000)]>>)}

\* And one in which two lines have the same number.
RepeatedPayloads ==
  {Posted(GoodHeader, <<Exact, [Discounted EXCEPT !.line_number = Number(One)]>>),
   Posted(Header(FT, 0, 22, 4, 26), <<Exact, Exact>>)}
  \cup ThePayloads

\* What the theorems take for granted holds here.
ASSUME PremisesAssumption == StartsAreShown /\ ValuesAreWhole /\ LinesAreNumbered

=============================================================================
