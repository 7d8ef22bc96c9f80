----------------------------- MODULE Canonical ------------------------------
(***************************************************************************)
(* The canonical document (invoices/canonical.py): what parse_document     *)
(* makes of a payload, and what validate_document says of the result.      *)
(*                                                                         *)
(* A value of a payload is what its field will make of it: a kind and a    *)
(* number that tells two values of a kind apart.                           *)
(*   missing, blank   no value; nothing but spaces                         *)
(*   text             text within the limits and the pattern of its field  *)
(*   lower, long, odd the same in lower case; too long; other characters   *)
(*   number           n/One, written without superfluous decimals          *)
(*   decimal          n/One from a DECIMAL column, with all its decimals   *)
(*   fine             a number with more than four decimals                *)
(*   large            beyond every maximum; huge: beyond 28 digits, too    *)
(*   date             day n                                                *)
(* Money is counted in cents, quantities, prices and rates in units.       *)
(***************************************************************************)
EXTENDS Integers, FiniteSets, Functions, Sequences

CONSTANTS
  One,            \* units in 1: four decimals
  Cent,           \* units in a cent
  Largest,        \* limits in units of quantities and money: QTY_MAX, MONEY_MAX
  MaxLines        \* MAX_LINES

ASSUME CanonicalAssumption ==
  /\ One \in Nat \ {0}
  /\ Cent \in Nat \ {0}
  /\ Largest \in Nat
  /\ MaxLines \in Nat \ {0}

Value(kind, n) == [kind |-> kind, n |-> n]
Missing   == Value("missing", 0)
Number(n) == Value("number", n)

Coded   == {"document_type", "currency"}    \* written in capitals
Texts   == {"source_document_id", "series", "document_number", "customer_name",
            "customer_nif", "document_hash", "hash_control"} \cup Coded
Amounts == {"subtotal", "tax_amount", "total"}

HEADER_FIELDS   == Texts \cup Amounts \cup {"document_date"}
REQUIRED_HEADER ==
  HEADER_FIELDS \ {"customer_nif", "currency", "document_hash", "hash_control"}

LineTexts  == {"description", "product_code", "tax_exemption_code"}
LineMoney  == {"discount", "tax_amount", "total"}
LineFine   == {"quantity", "unit_price", "tax_rate"}    \* four decimals
LINE_FIELDS   == LineTexts \cup LineMoney \cup LineFine \cup {"line_number"}
REQUIRED_LINE ==
  LINE_FIELDS \ {"line_number", "product_code", "discount", "tax_exemption_code"}

\* The fields whose pattern refuses some characters.
Patterned == Coded \cup {"customer_nif", "document_hash", "hash_control"}

-----------------------------------------------------------------------------
(* The conversions.                                                        *)

Blank(v) == v.kind \in {"missing", "blank"}

\* _text, and the capitals of document_type and currency, which is AOA when
\* nothing is said.
TextOf(field, v) ==
  CASE Blank(v) /\ field = "currency"       -> Value("text", 0)
    [] Blank(v) /\ field # "currency"       -> Missing
    [] v.kind = "lower" /\ field \in Coded  -> Value("text", v.n)
    [] OTHER                                -> v

TextRefused(field, v) ==
  \/ v.kind = "long"
  \/ v.kind = "odd" /\ field \in Patterned

Numeric(v) == v.kind \in {"number", "decimal"}

\* _decimal: the smallest step of the field, and its maximum, in units.
DecimalRefused(v, step, max) ==
  /\ ~Blank(v)
  /\ Numeric(v) => v.n % step # 0 \/ v.n > max \/ v.n < -max

\* Nothing stands for 0 where it is allowed (the discount).
DecimalOf(v, step) == IF Numeric(v) THEN v.n \div step ELSE 0

Step(field) == IF field \in LineFine THEN 1 ELSE Cent
Limit(field) == IF field = "tax_rate" THEN 100 * One ELSE Largest

\* A number that quantize cannot represent: InvalidOperation leaves
\* parse_document.
Raises(v) == v.kind = "huge"

DateRefused(v) == v.kind \notin {"missing", "date"}

\* The line_number is the position in the document when nothing is said.
LineNumberRefused(v) ==
  /\ ~Blank(v)
  /\ v.kind = "number" => v.n % One # 0 \/ v.n < One

LineNumber(v, index) == IF Blank(v) THEN index ELSE v.n \div One

-----------------------------------------------------------------------------
(* parse_document.  A payload is [known, header, lines]: known when it is  *)
(* an object without unknown fields, lines a sequence of the like.         *)

\* The fields of a line that are in error.
LineErrors(line) ==
  LET v == line.fields
  IN  {f \in REQUIRED_LINE : Blank(v[f])}
      \cup {f \in LineTexts : TextRefused(f, v[f])}
      \cup {f \in LineMoney \cup LineFine : DecimalRefused(v[f], Step(f), Limit(f))}
      \cup {f \in {"line_number"} : LineNumberRefused(v[f])}
      \cup {f \in {"unknown"} : ~line.known}

HeaderErrors(data) ==
  LET v == data.header
  IN  {f \in REQUIRED_HEADER : Blank(v[f])}
      \cup {f \in Texts : TextRefused(f, v[f])}
      \cup {f \in Amounts : DecimalRefused(v[f], Cent, Largest)}
      \cup {f \in {"document_date"} : DateRefused(v[f])}
      \cup {f \in {"unknown"} : ~data.known}
      \cup {f \in {"lines"} : Len(data.lines) \notin 1..MaxLines}

\* The lines are looked at only when their number is right.
ParseErrors(data) ==
  HeaderErrors(data) \cup
  (IF Len(data.lines) \in 1..MaxLines
   THEN UNION {LineErrors(data.lines[i]) : i \in DOMAIN data.lines} ELSE {})

ParseRaises(data) ==
  \/ \E f \in Amounts : Raises(data.header[f])
  \/ /\ Len(data.lines) \in 1..MaxLines
     /\ \E i \in DOMAIN data.lines, f \in LineMoney \cup LineFine :
          Raises(data.lines[i].fields[f])

Readable(data) == ~ParseRaises(data) /\ ParseErrors(data) = {}

ParseLine(line, index) ==
  [f \in LINE_FIELDS |->
     CASE f \in LineTexts    -> TextOf(f, line.fields[f])
       [] f = "line_number"  -> LineNumber(line.fields[f], index)
       [] OTHER              -> DecimalOf(line.fields[f], Step(f))]

\* The CanonicalDocument of a payload without errors.  Its fingerprint is the
\* hash of all of it: two documents are equal when their fingerprints are.
Parse(data) ==
  [header |-> [f \in HEADER_FIELDS |->
                 CASE f \in Texts            -> TextOf(f, data.header[f])
                   [] f = "document_date"    -> data.header[f].n
                   [] OTHER                  -> DecimalOf(data.header[f], Cent)],
   lines  |-> [i \in DOMAIN data.lines |-> ParseLine(data.lines[i], i)]]

-----------------------------------------------------------------------------
(* validate_document.                                                      *)

Apart(a, b) == IF a < b THEN b - a ELSE a - b

\* quantize with ROUND_HALF_UP: n/d to the nearest, halves away from zero.
HalfUp(n, d) ==
  IF n >= 0 THEN (2 * n + d) \div (2 * d) ELSE -((d - 2 * n) \div (2 * d))

\* In cents, from units times units.
ExpectedTotal(line) ==
  HalfUp(line.quantity * line.unit_price - line.discount * Cent * One, Cent * One)

ExpectedTax(line) == HalfUp(line.total * line.tax_rate, 100 * One)

Repeated(lines) ==
  \E i, j \in DOMAIN lines : i # j /\ lines[i].line_number = lines[j].line_number

\* The rules a line breaks.
LineBreaks(line) ==
  {f \in LineMoney \cup LineFine : line[f] < 0}
  \cup {r \in {"no quantity"} : line.quantity = 0}
  \cup {r \in {"line total"} : Apart(ExpectedTotal(line), line.total) > 1}
  \cup {r \in {"line tax"} : Apart(ExpectedTax(line), line.tax_amount) > 1}
  \cup {r \in {"exemption"} : line.tax_rate = 0 /\ Blank(line.tax_exemption_code)}

\* The lines' sum of a field.
SumOf(lines, f) == SumFunction([i \in DOMAIN lines |-> lines[i][f]])

\* One cent, and for the tax one per line, which may be rounded line by line.
TaxTolerance(lines) == Len(lines)

\* Slip: the signs of the differences are not taken off.
HeaderBreaksOneSided(h, lines) ==
  {f \in Amounts : h[f] < 0}
  \cup {r \in {"sum"} : SumOf(lines, "total") - h.subtotal > 1}
  \cup {r \in {"sum of tax"} :
          SumOf(lines, "tax_amount") - h.tax_amount > TaxTolerance(lines)}
  \cup {r \in {"grand total"} : h.subtotal + h.tax_amount - h.total > 1}

HeaderBreaks(h, lines) ==
  {f \in Amounts : h[f] < 0}
  \cup {r \in {"sum"} : Apart(SumOf(lines, "total"), h.subtotal) > 1}
  \cup {r \in {"sum of tax"} :
          Apart(SumOf(lines, "tax_amount"), h.tax_amount) > TaxTolerance(lines)}
  \cup {r \in {"grand total"} : Apart(h.subtotal + h.tax_amount, h.total) > 1}

\* The errors of business of a document, on a day.
Broken(doc, today) ==
  {r \in {"future"} : doc.header.document_date > today + 1}
  \cup {r \in {"repeated"} : Repeated(doc.lines)}
  \cup (UNION {LineBreaks(doc.lines[i]) : i \in DOMAIN doc.lines})
  \cup HeaderBreaks(doc.header, doc.lines)

=============================================================================
