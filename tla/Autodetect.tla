----------------------------- MODULE Autodetect -----------------------------
(***************************************************************************)
(* What the assistant starts from: the tables of another system's database *)
(* (host_connector/catalog.py), and which of them, with which columns, hold *)
(* the documents and their lines (sources/autodetect.py).                  *)
(*                                                                         *)
(* A table is [name, system, readable, words, columns, pk, fks]: its place *)
(* in the order of names; whether it belongs to the server, and whether it *)
(* can be looked at; which of "header" and "line" its name suggests; the   *)
(* sequence of its columns; its primary key, a set of them; its foreign    *)
(* keys in order, as pairs of its column and the name of the other table.  *)
(***************************************************************************)
EXTENDS Mapping

CONSTANTS
  HeaderScore,      \* how well a field of the header and a column match, by pair
  LineScore,        \* the same of the fields of a line
  NumericColumns,
  CreationColumns,  \* columns named for the time a row was made
  LinkNames         \* columns named for a document, by the name of its table

-----------------------------------------------------------------------------
(* The catalogue.                                                          *)

\* list_tables, of fewer than there are at most.
ListTables(database) ==
  SetToSortSeq({t \in database : ~t.system}, LAMBDA a, b : a.name < b.name)

\* table_columns.
ColumnsOf(table) == ToSet(table.columns)

\* distinct_values of a column that has these: the types a document may have.
DistinctValues(values) == {v \in values : ~Blank(v)}

-----------------------------------------------------------------------------
(* Columns for the fields.                                                 *)

\* match_columns.  The best pairs of a field and a column are taken first; no
\* field and no column twice.
MatchColumns(fields, columns, score) ==
  LET take(p, m) ==
        IF m[p[1]] = NoColumn /\ \A f \in fields : m[f] # p[2]
        THEN [m EXCEPT ![p[1]] = p[2]] ELSE m
      pair(p) == p
      worst(pairs) == CHOOSE p \in pairs : \A q \in pairs : score[p] <= score[q]
  IN  MapThenFoldSet(take, [f \in fields |-> NoColumn], pair, worst,
                     (fields \X columns) \cap DOMAIN score)

MatchHeader(columns) == MatchColumns(HEADER_FIELDS, columns, HeaderScore)
MatchLine(columns)   == MatchColumns(LINE_FIELDS, columns, LineScore)

\* _table_score.
TableScore(table, word, matched) ==
  (IF word \in table.words THEN 3 ELSE 0) + Cardinality(Mapped(matched))

HeaderTableScore(t) == TableScore(t, "header", MatchHeader(ColumnsOf(t)))
LineTableScore(t)   == TableScore(t, "line", MatchLine(ColumnsOf(t)))

\* The first of those with the highest score, if four or more.
Best(tables, scores) ==
  {tables[i] : i \in {j \in DOMAIN tables :
     /\ scores[j] >= 4
     /\ \A k \in DOMAIN tables : scores[k] <= scores[j]
     /\ \A k \in 1..(j - 1) : scores[k] < scores[j]}}

BestHeader(tables) == Best(tables, [i \in DOMAIN tables |-> HeaderTableScore(tables[i])])
BestLines(tables)  == Best(tables, [i \in DOMAIN tables |-> LineTableScore(tables[i])])

-----------------------------------------------------------------------------
(* suggest.                                                                *)

FirstOf(s) == {s[i] : i \in DOMAIN s \cap {1}}

OrNoColumn(columns) == IF columns = {} THEN NoColumn ELSE CHOOSE c \in columns : TRUE

\* The foreign keys to a table, of the first table that has any.
LinkingKeys(tables, header) ==
  LET to(t) == SelectSeq(t.fks, LAMBDA fk : fk[2] = header.name)
  IN  {[table |-> t, link |-> to(t)[1][1]] :
         t \in FirstOf(SelectSeq(tables, LAMBDA t : t # header /\ to(t) # <<>>))}

LinkByName(lines, header) ==
  OrNoColumn(FirstOf(SelectSeq(lines.columns, LAMBDA c : c \in LinkNames[header.name])))

\* The table of lines and its column that names the document: by a foreign key,
\* otherwise by their names.
LinesAndLink(tables, header) ==
  LET keys   == LinkingKeys(tables, header)
      others == SelectSeq(tables, LAMBDA t : t # header)
  IN  IF keys # {} THEN keys
      ELSE {[table |-> t, link |-> LinkByName(t, header)] : t \in BestLines(others)}

\* A numeric column that is the key alone, otherwise the time of creation.
Cursor(header) ==
  LET created == FirstOf(SelectSeq(header.columns, LAMBDA c : c \in CreationColumns))
  IN  IF Cardinality(header.pk) = 1 /\ header.pk \subseteq NumericColumns
      THEN [column |-> OrNoColumn(header.pk), type |-> "int"]
      ELSE [column |-> OrNoColumn(created),
            type   |-> IF created = {} THEN "int" ELSE "datetime"]

\* What Suggestion.initial fills in where no column is for the currency.
AOA == Value("text", 0)

\* A column for the identification of the document is taken from the cursor when
\* none has the name for it.
WithIdentification(header, cursor) ==
  IF header["source_document_id"] = NoColumn /\ cursor.type = "int"
  THEN [header EXCEPT !["source_document_id"] = cursor.column] ELSE header

\* None or one suggestion.  The link and the key of the lines' table are not
\* offered for its fields.
Suggest(listed) ==
  LET tables == SelectSeq(listed, LAMBDA t : t.readable)
      suggestion(header, found) ==
        [documents_table |-> header, lines_table |-> found.table,
         link_column     |-> found.link,
         cursor          |-> Cursor(header),
         currency        |-> IF MatchHeader(ColumnsOf(header))["currency"] = NoColumn
                             THEN AOA ELSE Missing,
         header |-> WithIdentification(MatchHeader(ColumnsOf(header)), Cursor(header)),
         lines  |-> MatchLine(ColumnsOf(found.table) \ ({found.link} \cup found.table.pk))]
  IN  UNION {{suggestion(h, found) : found \in LinesAndLink(tables, h)} :
               h \in BestHeader(tables)}

\* What the form starts with for two tables that were chosen by hand: what is
\* suggested if it is for the same two, otherwise columns of the same names.
SuggestFor(documents, lines) ==
  LET picked == {s \in Suggest(<<documents, lines>>) :
                   s.documents_table = documents /\ s.lines_table = lines}
  IN  IF picked # {} THEN picked
      ELSE {[documents_table |-> documents, lines_table |-> lines,
             link_column |-> NoColumn, cursor |-> [column |-> NoColumn, type |-> "int"],
             currency |-> Missing,
             header |-> MatchHeader(ColumnsOf(documents)),
             lines  |-> MatchLine(ColumnsOf(lines))]}

=============================================================================
