----------------------------- MODULE CsvFormat -----------------------------
(***************************************************************************)
(* How the CSV parser reads a bank statement.  A file is a sequence of     *)
(* lines, a line a sequence of cells.  A cell says what the parser can     *)
(* tell about its text:                                                    *)
(*   kind    "date", "amount" or "text"                                    *)
(*   hits    the keyword lists it matches, as a column title               *)
(*   seps    the separator characters inside a text, one of each at most   *)
(*   parts   of a date, its numbers n of w digits, joined by "sep"         *)
(*   chunks  of an amount, its digits between the points and commas, which *)
(*           are "marks"; "minus" when it starts with a minus sign         *)
(*   id      of a text, the text                                           *)
(*   numbers of a text, those that begin its parts between /, - and points *)
(* The separator a file is written with is file.sep; where a cell holds    *)
(* that character the cell is quoted.  The reader skips empty lines: a     *)
(* file has none.                                                          *)
(***************************************************************************)
EXTENDS Integers, Sequences, SequencesExt

Separators == {",", ";", "tab", "|"}
Empty == ""

\* A cell with nothing in it.
Blank == [kind |-> "text", hits |-> {}, seps |-> {}, id |-> Empty, numbers |-> << >>]

\* The numbers of a set, from the least on.
InOrder(S) == CHOOSE s \in SetToSeqs(S) : \A i, k \in DOMAIN s : i < k => s[i] < s[k]

\* Amounts are counted in thousandths, the most digits a chunk can have.
Digits == 3

\* dateFormats: order of the parts, what joins them, whether a day and a
\* month need two digits, and the digits of a year.
Layout(order, sep, padded, year) ==
  [order |-> order, sep |-> sep, padded |-> padded, year |-> year]
YearFirst  == <<"y", "m", "d">>
DayFirst   == <<"d", "m", "y">>
MonthFirst == <<"m", "d", "y">>

DateFormats ==
  << Layout(YearFirst, "-", TRUE, 4),
     Layout(DayFirst, "/", TRUE, 4),  Layout(MonthFirst, "/", TRUE, 4),
     Layout(DayFirst, "-", TRUE, 4),  Layout(MonthFirst, "-", TRUE, 4),
     Layout(DayFirst, ".", TRUE, 4),  Layout(YearFirst, "/", TRUE, 4),
     Layout(YearFirst, "", TRUE, 4),
     Layout(DayFirst, "/", FALSE, 4), Layout(MonthFirst, "/", FALSE, 4),
     Layout(DayFirst, "/", TRUE, 2),  Layout(MonthFirst, "/", TRUE, 2) >>

ISO == DateFormats[1]
-----------------------------------------------------------------------------
\* Dates.
PartOf(layout, cell, unit) ==
  cell.parts[CHOOSE i \in 1 .. 3 : layout.order[i] = unit].n

\* Two digits of a year from 69 on are of the last century.
Year(n, w) == IF w = 4 THEN n ELSE IF n >= 69 THEN 1900 + n ELSE 2000 + n

DateOf(layout, cell) ==
  << Year(PartOf(layout, cell, "y"), layout.year),
     PartOf(layout, cell, "m"), PartOf(layout, cell, "d") >>

\* A year, month and day that are in the calendar.
DaysIn(month, year) ==
  CASE month = 2 -> IF year % 4 = 0 /\ (year % 100 # 0 \/ year % 400 = 0) THEN 29 ELSE 28
    [] month \in {4, 6, 9, 11} -> 30
    [] OTHER -> 31
IsDay(date) == date[2] \in 1 .. 12 /\ date[3] \in 1 .. DaysIn(date[2], date[1])

\* time.Parse accepts a cell that has the layout's parts and is a day.
Accepts(layout, cell) ==
  /\ cell.kind = "date" /\ cell.sep = layout.sep
  /\ \A i \in 1 .. 3 :
       cell.parts[i].w \in IF layout.order[i] = "y" THEN {layout.year}
                          ELSE IF layout.padded THEN {2} ELSE {1, 2}
  /\ IsDay(DateOf(layout, cell))

\* The layouts that accept a cell, by their places in the list.
Matching(cell) == { k \in DOMAIN DateFormats : Accepts(DateFormats[k], cell) }

\* The numbers that atoi reads in the parts of a cell, be it a date or not.
Numbers(cell) ==
  CASE cell.kind = "date" ->
         IF cell.sep = "" THEN << >> ELSE [i \in 1 .. 3 |-> cell.parts[i].n]
    [] cell.kind = "amount" ->
         LET starts == InOrder({1} \cup { k + 1 : k \in { i \in DOMAIN cell.marks :
                                                          cell.marks[i] = "." } })
         IN  [k \in DOMAIN starts |-> cell.chunks[starts[k]].n]
    [] OTHER -> cell.numbers

\* What one row says about the order of day and month, once several layouts
\* accept the first row: the layouts whose text starts with 02 or with 01.
Told(cell, matching) ==
  LET starting(unit) == { k \in matching : /\ DateFormats[k].padded
                                           /\ DateFormats[k].order[1] = unit }
      numbers == Numbers(cell)
  IN  IF Len(numbers) < 2 THEN {}
      ELSE IF numbers[1] > 12 /\ starting("d") # {} THEN starting("d")
      ELSE IF numbers[2] > 12 THEN starting("m")
      ELSE {}

\* Mutant: only the first row is looked at.
DetectFromFirst(rows, dateCol) ==
  LET matching == Matching(rows[1][dateCol + 1])
  IN  IF matching = {} THEN ISO ELSE DateFormats[Min(matching)]

DetectDateFormat(rows, dateCol) ==
  LET matching == Matching(rows[1][dateCol + 1])
      telling  == { i \in DOMAIN rows : /\ dateCol < Len(rows[i])
                                        /\ Told(rows[i][dateCol + 1], matching) # {} }
  IN  IF matching = {} THEN ISO
      ELSE IF Cardinality(matching) > 1 /\ telling # {}
           THEN DateFormats[Min(Told(rows[Min(telling)][dateCol + 1], matching))]
      ELSE DateFormats[Min(matching)]
-----------------------------------------------------------------------------
\* Amounts.  The last mark is the decimal point; the other sort of mark is
\* dropped; a second decimal point makes the text unreadable.
PointsIn(cell) == { i \in 1 .. Len(cell.marks) : cell.marks[i] = Last(cell.marks) }

Readable(cell) == cell.kind = "amount" /\ Cardinality(PointsIn(cell)) <= 1

Join(chunks)   == FoldLeft(LAMBDA n, c : n * 10^c.w + c.n, 0, chunks)
Decimal(whole, fraction) == Join(whole) * 10^Digits + fraction.n * 10^(Digits - fraction.w)
Signed(cell, n) == IF cell.minus THEN -n ELSE n

\* Mutant: the first mark is the decimal point.
ParseAtFirstMark(cell) ==
  Signed(cell, IF cell.marks = << >> THEN Join(cell.chunks) * 10^Digits
               ELSE Decimal(<<cell.chunks[1]>>, cell.chunks[2]))

ParseEuropeanDecimalStrict(cell) ==
  Signed(cell, IF PointsIn(cell) = {} THEN Join(cell.chunks) * 10^Digits
               ELSE Decimal(Front(cell.chunks), Last(cell.chunks)))

\* In the columns of a split layout what cannot be read counts as zero.
ParseEuropeanDecimal(cell) == IF Readable(cell) THEN ParseEuropeanDecimalStrict(cell) ELSE 0

Split(mapping) == mapping.debit_col >= 0 /\ mapping.credit_col >= 0

HasAmount(record, mapping) ==
  \/ Split(mapping)
  \/ /\ mapping.amount_col \in 0 .. Len(record) - 1
     /\ Readable(record[mapping.amount_col + 1])

ResolveAmount(record, mapping) ==
  IF Split(mapping)
  THEN ParseEuropeanDecimal(record[mapping.credit_col + 1])
         - ParseEuropeanDecimal(record[mapping.debit_col + 1])
  ELSE ParseEuropeanDecimalStrict(record[mapping.amount_col + 1])
-----------------------------------------------------------------------------
\* Records.  detectSeparator counts the separators of the first line; the
\* comma wins a tie, and any other tie goes by the order of a map.
Occurs(cell, sep) ==
  IF cell.kind = "amount" THEN Cardinality({ i \in DOMAIN cell.marks : cell.marks[i] = sep })
  ELSE IF sep \in cell.seps THEN 1 ELSE 0

Count(line, sep, own) ==
  FoldLeft(LAMBDA n, cell : n + Occurs(cell, sep),
           IF sep = own THEN Len(line) - 1 ELSE 0, line)

\* Mutant: the comma has no precedence.
DetectAnySeparator(file) ==
  LET count(sep) == Count(file.lines[1], sep, file.sep)
  IN  { sep \in Separators : \A s \in Separators : count(s) <= count(sep) }

DetectSeparator(file) ==
  LET count(sep) == Count(file.lines[1], sep, file.sep)
      most       == { sep \in Separators : \A s \in Separators : count(s) <= count(sep) }
  IN  IF "," \in most THEN {","} ELSE most

\* A field that holds separators of the file among its text: no title, no
\* date and no number.
Fragment ==
  [kind |-> "text", hits |-> {}, seps |-> {}, id |-> "fragment", numbers |-> << >>]

\* TrimLeadingSpace takes the tabs before a field for space, those too that
\* separate fields: then a field is only empty at the end of its line.
Fields(line, sep) ==
  LET kept == InOrder({ j \in DOMAIN line : line[j] # Blank \/ j = Len(line) })
  IN  IF sep = "tab" THEN [k \in DOMAIN kept |-> line[kept[k]]] ELSE line

\* Where the file is cut at another character, no date stands alone.
Records(file, sep) ==
  [i \in DOMAIN file.lines |->
     IF sep = file.sep THEN Fields(file.lines[i], sep)
     ELSE [j \in 1 .. Count(file.lines[i], sep, file.sep) + 1 |-> Fragment]]

\* ReadAll fails on a record with more or fewer fields than the first.
ReadsAll(records) ==
  records # << >> /\ \A i \in DOMAIN records : Len(records[i]) = Len(records[1])

HeaderWithin == 10
Titled(records) ==
  { i \in DOMAIN records : i <= HeaderWithin /\ \E j \in DOMAIN records[i] :
      records[i][j].hits \cap {"date", "desc", "amount", "debit", "credit"} # {} }

\* Mutant: the last line that looks like titles.
FindLastHeaderRow(records) ==
  IF Titled(records) = {} THEN 0 ELSE Max(Titled(records)) - 1

FindHeaderRow(records) ==
  IF Titled(records) = {} THEN 0 ELSE Min(Titled(records)) - 1

\* The list a title is taken for: the first in the order of the switch.
Keywords == <<"date", "desc", "amount", "debit", "credit", "currency">>
TitleOf(cell) ==
  LET hits == { k \in DOMAIN Keywords : Keywords[k] \in cell.hits }
  IN  IF hits = {} THEN "none" ELSE Keywords[Min(hits)]

\* The last column of a title, counted from 0.
Column(header, title, default) ==
  Max({default} \cup { i - 1 : i \in { j \in DOMAIN header : TitleOf(header[j]) = title } })

\* The first description column, but column 0 gives way to any later one.
DescriptionColumn(header) ==
  LET later == { i \in 1 .. Len(header) - 1 : TitleOf(header[i + 1]) = "desc" }
  IN  IF later = {} THEN 0 ELSE Min(later)

AmountColumn(header, debit, credit) ==
  LET amount == IF debit >= 0 /\ credit >= 0 THEN -1 ELSE Column(header, "amount", -1)
  IN  IF amount < 0 /\ (debit < 0 \/ credit < 0) THEN 2 ELSE amount

SuggestedMapping(records, sep) ==
  LET skip   == FindHeaderRow(records) + 1
      header == records[skip]
      date   == Column(header, "date", 0)
      debit  == Column(header, "debit", -1)
      credit == Column(header, "credit", -1)
      rows   == SubSeq(records, skip + 1, Len(records))
  IN  [date_col        |-> date,
       description_col |-> DescriptionColumn(header),
       amount_col      |-> AmountColumn(header, debit, credit),
       debit_col       |-> debit,
       credit_col      |-> credit,
       currency_col    |-> Column(header, "currency", -1),
       skip_rows       |-> skip,
       date_format     |-> IF rows = << >> \/ date >= Len(rows[1]) THEN ISO
                           ELSE DetectDateFormat(rows, date),
       separator       |-> sep]
-----------------------------------------------------------------------------
\* Rows.
\* Mutant: one column more than are used.
ColMaxNext(mapping) == 1 + Max({mapping.date_col, mapping.description_col, mapping.amount_col,
                                mapping.debit_col, mapping.credit_col})

ColMax(mapping) == Max({mapping.date_col, mapping.description_col, mapping.amount_col,
                        mapping.debit_col, mapping.credit_col})

IsRow(record, mapping) ==
  /\ Len(record) > ColMax(mapping)
  /\ Accepts(mapping.date_format, record[mapping.date_col + 1])
  /\ HasAmount(record, mapping)

RowHash(date, amount, description) == <<date, amount, description>>

\* The row of a record; "line" is where the record stands, for the properties.
Row(records, i, mapping, currency) ==
  LET date   == DateOf(mapping.date_format, records[i][mapping.date_col + 1])
      amount == ResolveAmount(records[i], mapping)
      desc   == records[i][mapping.description_col + 1]
  IN  [line |-> i, date |-> date, amount |-> amount, description |-> desc,
       currency |-> currency, hash |-> RowHash(date, amount, desc)]

CurrencyIn(record, mapping) ==
  IF /\ mapping.currency_col \in 0 .. Len(record) - 1
     /\ record[mapping.currency_col + 1].id # Empty
  THEN record[mapping.currency_col + 1].id
  ELSE "EUR"

RowLines(records, mapping) ==
  InOrder({ i \in DOMAIN records : i > mapping.skip_rows /\ IsRow(records[i], mapping) })

\* The rows a preview shows are all in the default currency.
PreviewRows(records, mapping) ==
  LET lines == RowLines(records, mapping)
  IN  [k \in DOMAIN lines |-> Row(records, lines[k], mapping, "EUR")]

\* The rows Parse returns are in the currency of their column.
Parse(records, mapping) ==
  LET lines == RowLines(records, mapping)
  IN  [k \in DOMAIN lines |->
         Row(records, lines[k], mapping, CurrencyIn(records[lines[k]], mapping))]
=============================================================================
