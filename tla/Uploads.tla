------------------------------ MODULE Uploads ------------------------------
(***************************************************************************)
(* A statement on its way into the books.  The client uploads the file and *)
(* is shown the rows in it, for a CSV file together with the mapping they  *)
(* were read with; it then confirms the rows, or sends the file once more  *)
(* with a mapping, the suggested one or one the user put right.            *)
(*                                                                         *)
(* Next to its lines a file records what its bank meant by them:           *)
(*   format, point   how dates are written, and the decimal mark           *)
(*   header          the line of the column titles, 0 for none             *)
(*   roles           what each column is                                   *)
(*   first, last     the lines of the transactions                         *)
(***************************************************************************)
EXTENDS OfxFormat

CONSTANTS Files, NULL, Failed

CsvFiles == { f \in Files : f.type = "csv" }

\* The column of a role, from 0, or the default where no column has it.
Role(f, role, default) ==
  Max({default} \cup { i - 1 : i \in { j \in DOMAIN f.roles : f.roles[j] = role } })
CellOf(f, i, role) == f.lines[i][Role(f, role, -1) + 1]
Transactions(f) == f.first .. f.last

\* A file is lines; those of a CSV file are cells, as many in the first
\* transaction as there are columns.
ASSUME FilesAssumption ==
  /\ \A f \in Files : f.lines \in Seq(Range(f.lines))
  /\ \A f \in CsvFiles :
       /\ \A i \in DOMAIN f.lines :
            f.lines[i] \in Seq(Range(f.lines[i])) \ {<< >>, <<Blank>>}
       /\ f.roles \in Seq(Range(f.roles)) /\ Len(f.lines[f.first]) = Len(f.roles)
       /\ f.sep \in Separators /\ f.format \in Range(DateFormats) /\ f.point \in {".", ","}
       /\ f.first \in 1 .. f.last /\ f.last \in DOMAIN f.lines

\* A column has the dates, and one the amounts or two the debits and credits.
ASSUME RolesAssumption ==
  \A f \in CsvFiles :
    LET roles == Range(f.roles)
    IN  "date" \in roles /\ ("amount" \in roles <=> ~ {"debit", "credit"} \subseteq roles)

\* The transactions are dated in the format of the file, and nothing else is.
ASSUME DatesAssumption ==
  \A f \in CsvFiles :
    /\ \A i \in Transactions(f) : Accepts(f.format, CellOf(f, i, "date"))
    /\ \A i \in DOMAIN f.lines : \A j \in DOMAIN f.lines[i] :
         LET cell == f.lines[i][j]
         IN  cell.kind = "date" => /\ i \in Transactions(f)
                                   /\ cell.parts \in [1 .. 3 -> [n : Nat, w : Nat]]

\* The decimal mark of an amount is its last mark, if it is there.
ASSUME AmountsAssumption ==
  \A f \in CsvFiles : \A i \in DOMAIN f.lines : \A j \in DOMAIN f.lines[i] :
    LET cell == f.lines[i][j]
    IN  cell.kind = "amount" =>
          /\ cell.marks \in Seq({".", ","})
          /\ \A k \in 1 .. Len(cell.marks) - 1 : i \in Transactions(f) => cell.marks[k] # f.point

VARIABLES
  file,      \* the file the user imports
  answer,    \* what the last preview answered: [mapping, rows], Failed, or NULL
  confirmed  \* what the last confirmation hands on: [mapping, rows], Failed, or NULL

vars == <<file, answer, confirmed>>

\* The mapping a user who knows the bank would give.
RightMapping(f) ==
  [date_col        |-> Role(f, "date", 0),
   description_col |-> Role(f, "desc", 0),
   amount_col      |-> Role(f, "amount", -1),
   debit_col       |-> Role(f, "debit", -1),
   credit_col      |-> Role(f, "credit", -1),
   currency_col    |-> Role(f, "currency", -1),
   skip_rows       |-> f.first - 1,
   date_format     |-> f.format,
   separator       |-> f.sep]

ASSUME NullAssumption == \A f \in CsvFiles : NULL # RightMapping(f)

Mappings == { RightMapping(file) } \cup (IF answer \in {NULL, Failed} THEN {} ELSE {answer.mapping})
LinesShown ==
  IF answer \in {NULL, Failed} THEN {} ELSE { answer.rows[k].line : k \in DOMAIN answer.rows }
-----------------------------------------------------------------------------
Init == file \in Files /\ answer = NULL /\ confirmed = NULL

\* Mutant: the mapping is answered without the separator it was found with.
PreviewUnseparated(sep) ==
  LET records == Records(file, sep)
      mapping == SuggestedMapping(records, sep)
  IN  /\ file.type = "csv"
      /\ sep \in DetectSeparator(file)
      /\ answer' = IF ReadsAll(records)
                   THEN [mapping |-> [mapping EXCEPT !.separator = ","],
                         rows    |-> PreviewRows(records, mapping)]
                   ELSE Failed
      /\ UNCHANGED <<file, confirmed>>

PreviewCSV(sep) ==
  LET records == Records(file, sep)
      mapping == SuggestedMapping(records, sep)
  IN  /\ file.type = "csv"
      /\ sep \in DetectSeparator(file)
      /\ answer' = IF ReadsAll(records)
                   THEN [mapping |-> mapping, rows |-> PreviewRows(records, mapping)]
                   ELSE Failed
      /\ UNCHANGED <<file, confirmed>>

PreviewOFX ==
  /\ file.type = "ofx"
  /\ answer' = [mapping |-> NULL, rows |-> ParseOFX(file.lines)]
  /\ UNCHANGED <<file, confirmed>>

ConfirmFile(mapping) ==
  LET records == Records(file, mapping.separator)
  IN  /\ confirmed' = IF ReadsAll(records)
                      THEN [mapping |-> mapping, rows |-> Parse(records, mapping)]
                      ELSE Failed
      /\ UNCHANGED <<file, answer>>

\* The rows come back as they were shown, those the user kept.
ConfirmRows(kept) ==
  /\ answer \notin {NULL, Failed}
  /\ LET places == InOrder({ k \in DOMAIN answer.rows : answer.rows[k].line \in kept })
     IN  confirmed' = [mapping |-> NULL,
                       rows    |-> [n \in DOMAIN places |-> answer.rows[places[n]]]]
  /\ UNCHANGED <<file, answer>>

Next ==
  \/ \E sep \in Separators : PreviewCSV(sep)
  \/ PreviewOFX
  \/ file.type = "csv" /\ \E mapping \in Mappings : ConfirmFile(mapping)
  \/ \E kept \in SUBSET LinesShown : ConfirmRows(kept)

Spec == Init /\ [][Next]_vars
-----------------------------------------------------------------------------
\* What the bank wrote.
Has(f, role) == Role(f, role, -1) >= 0

DateWritten(f, i) == DateOf(f.format, CellOf(f, i, "date"))

\* An amount in the bank's own hand: the decimal mark is known, any other
\* mark groups digits.
Decimals(f, cell) == cell.marks # << >> /\ Last(cell.marks) = f.point
NumberOf(f, cell) ==
  IF Decimals(f, cell) THEN Decimal(Front(cell.chunks), Last(cell.chunks))
  ELSE Join(cell.chunks) * 10^Digits
Filled(cell) == cell.kind = "amount"

AmountWritten(f, i) ==
  IF Has(f, "amount")
  THEN Signed(CellOf(f, i, "amount"), NumberOf(f, CellOf(f, i, "amount")))
  ELSE LET of(role) == IF Filled(CellOf(f, i, role)) THEN NumberOf(f, CellOf(f, i, role)) ELSE 0
       IN  of("credit") - of("debit")

\* Groups are only told from decimals next to decimals.
Clear(f, cell) == Filled(cell) => cell.marks = << >> \/ Decimals(f, cell)

\* The cells an amount is in: all clear, and no sign in the split columns.
AmountClear(f, i) ==
  IF Has(f, "amount") THEN Clear(f, CellOf(f, i, "amount"))
  ELSE \A role \in {"debit", "credit"} :
         LET cell == CellOf(f, i, role)
         IN  Clear(f, cell) /\ (Filled(cell) => ~cell.minus)

\* No more than one group, or decimals next to them: a number to the parser.
AmountShown(f, i) ==
  \/ ~Has(f, "amount")
  \/ LET cell == CellOf(f, i, "amount")
     IN  Filled(cell) /\ (Len(cell.marks) <= 1 \/ Decimals(f, cell))

\* No tabs stand next to each other: TrimLeadingSpace leaves every field.
BlanksKept(f) ==
  f.sep = "tab" => \A i \in DOMAIN f.lines : \A j \in 1 .. Len(f.lines[i]) - 1 :
                     f.lines[i][j] # Blank

Rectangular(f) == \A i \in DOMAIN f.lines : Len(f.lines[i]) = Len(f.lines[1])

\* In the first line nothing is as frequent as the separator, or it is the comma.
SeparatorTold(f) ==
  \A s \in Separators \ {f.sep} :
    LET more == Count(f.lines[1], f.sep, f.sep) - Count(f.lines[1], s, f.sep)
    IN  more > 0 \/ (more = 0 /\ f.sep = ",")

\* Every title says what its column is and nothing else, and no text above
\* the titles reads like one.
TitlesPlain(f) ==
  /\ f.header \in 1 .. HeaderWithin /\ f.first = f.header + 1
  /\ \A i \in 1 .. f.header - 1, j \in DOMAIN f.roles : f.lines[i][j].hits = {}
  /\ \A j \in DOMAIN f.roles :
       f.lines[f.header][j].hits = IF f.roles[j] = "other" THEN {} ELSE {f.roles[j]}

Orderly(f) ==
  /\ f.type = "csv" /\ Rectangular(f) /\ BlanksKept(f)
  /\ SeparatorTold(f) /\ TitlesPlain(f)

\* A date cannot be read with day and month the other way round.
DayAfterTwelfth(f, i) == DateWritten(f, i)[3] > 12

\* A line after the transactions, a total perhaps, that has numbers where the
\* dates are, and they look like a month and a day.
Misleads(f, i) ==
  LET numbers == Numbers(CellOf(f, i, "date"))
  IN  Len(numbers) >= 2 /\ ~(numbers[1] > 12) /\ numbers[2] > 12

\* The file begins dates with the year, or with the day and nothing after the
\* transactions looks otherwise; or it shows its order: padded dates in any
\* transaction, others in the first.
OrderTold(f) ==
  \/ f.format.order = YearFirst
  \/ f.format.order = DayFirst /\ \A i \in f.last + 1 .. Len(f.lines) : ~Misleads(f, i)
  \/ f.format.padded /\ \E i \in Transactions(f) : DayAfterTwelfth(f, i)
  \/ DayAfterTwelfth(f, f.first)

\* Dates without padding look padded while day and month have two digits.
WidthTold(f) ==
  f.format.padded \/ \E k \in 1 .. 2 : CellOf(f, f.first, "date").parts[k].w = 1

\* The transaction of an OFX file that line i closes is the lines from the one
\* that opens it, with no such line between them.
Ends(f, i) == { k \in 1 .. i : f.lines[k].tag \in {"STMTTRN", "/STMTTRN"} }
Open(f, i) == Ends(f, i) # {} /\ f.lines[Max(Ends(f, i))].tag = "STMTTRN"
Closes(f, i) == f.lines[i].tag = "/STMTTRN" /\ Open(f, i - 1)

\* The last value of a tag in the lines from .. i.
LastValue(f, from, i, tag) ==
  LET given == { k \in from .. i : f.lines[k].tag = tag /\ f.lines[k].value # Blank }
  IN  IF given = {} THEN Blank ELSE f.lines[Max(given)].value

FieldsOf(f, i) == [tag \in Tags |-> LastValue(f, Max(Ends(f, i - 1)), i, tag)]

CurrencyOf(f, i) ==
  IF LastValue(f, 1, i, "CURDEF") = Blank THEN "EUR" ELSE LastValue(f, 1, i, "CURDEF").id
-----------------------------------------------------------------------------
\* In the first line several characters are the most frequent, and the comma
\* is not among them.
Tied(f) ==
  LET count(s) == Count(f.lines[1], s, f.sep)
      leading  == { s \in Separators : \A t \in Separators : count(t) <= count(s) }
  IN  "," \notin leading /\ Cardinality(leading) > 1

\* A file is previewed the same way every time it is uploaded, unless two
\* characters other than the comma are its most frequent separators.
SamePreview ==
  [][ answer # NULL => answer' = answer \/ (file.type = "csv" /\ Tied(file)) ]_vars

\* What is confirmed with the suggested mapping is what was previewed, rows,
\* amounts, dates and hashes; only the currency may differ, in a file that
\* has a column for it.
ConfirmsThePreview ==
  answer \notin {NULL, Failed} /\ confirmed \notin {NULL, Failed} =>
    (confirmed.mapping # NULL /\ confirmed.mapping = answer.mapping =>
       /\ DOMAIN confirmed.rows = DOMAIN answer.rows
       /\ \A k \in DOMAIN answer.rows : \A field \in DOMAIN answer.rows[k] :
            confirmed.rows[k][field] = answer.rows[k][field]
              \/ (field = "currency" /\ answer.mapping.currency_col >= 0))

Shown == IF answer \in {NULL, Failed} THEN << >> ELSE answer.rows
Read  == Shown \o IF confirmed \in {NULL, Failed} THEN << >> ELSE confirmed.rows

\* A date is misread only in a file whose dates do not show the order of day and
\* month (padded, with no day after the 12th in any transaction; not padded,
\* with none in the first), and then only when the months come first or when a
\* line after the transactions has numbers that look like month and day.
DatesAsWritten ==
  Orderly(file) /\ OrderTold(file) =>
    \A k \in DOMAIN Read : Read[k].date = DateWritten(file, Read[k].line)

\* An amount is misread only where a mark groups digits and no decimals
\* follow, or where a split column carries a sign.
AmountsAsWritten ==
  Orderly(file) =>
    \A k \in DOMAIN Read : AmountClear(file, Read[k].line) =>
      Read[k].amount = AmountWritten(file, Read[k].line)

\* Lines that are not transactions are never previewed; a transaction is only
\* left out when its amount is not a number, the order of day and month is
\* not told, or dates without padding begin with a date that looks padded.
NoneLeftOut ==
  Orderly(file) /\ answer \notin {NULL, Failed} =>
    /\ LinesShown \subseteq Transactions(file)
    /\ OrderTold(file) /\ WidthTold(file) =>
         LinesShown = { i \in Transactions(file) : AmountShown(file, i) }

\* With the mapping put right, whatever the preview made of the file, every
\* transaction whose amount is a number is confirmed, on its own date; only a
\* file with tabs for separators must have no empty field but at line ends.
RightMappingReadsAll ==
  file.type = "csv" /\ BlanksKept(file) /\ confirmed \notin {NULL, Failed} =>
    (confirmed.mapping = RightMapping(file) =>
       /\ { confirmed.rows[k].line : k \in DOMAIN confirmed.rows }
            = { i \in Transactions(file) : AmountShown(file, i) }
       /\ \A k \in DOMAIN confirmed.rows :
            confirmed.rows[k].date = DateWritten(file, confirmed.rows[k].line))

\* Of an OFX file every transaction that is closed and has a date and an
\* amount becomes one row, in order, with fields of its own only.
TransactionsApart ==
  file.type = "ofx" /\ answer \notin {NULL, Failed} =>
    /\ LinesShown = { i \in DOMAIN file.lines : Closes(file, i) /\ Buildable(FieldsOf(file, i)) }
    /\ \A k \in DOMAIN answer.rows :
         LET i == answer.rows[k].line
         IN  /\ answer.rows[k] = BuildOFXRow(FieldsOf(file, i), CurrencyOf(file, i), i)
             /\ \A n \in 1 .. k - 1 : answer.rows[n].line < i
=============================================================================
