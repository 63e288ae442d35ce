----------------------------- MODULE OfxFormat -----------------------------
(***************************************************************************)
(* How the OFX parser reads a statement: line by line, a tag and what      *)
(* follows it.  Dates and amounts are the cells of CsvFormat.  A date is   *)
(* the first eight digits of its value; an amount may have one point.      *)
(***************************************************************************)
EXTENDS CsvFormat

\* A transaction that is being read, and the rows before it.
Tags     == {"DTPOSTED", "TRNAMT", "MEMO", "NAME"}
NoFields == [tag \in Tags |-> Blank]
Scanner  == [inTx |-> FALSE, fields |-> NoFields, curDef |-> "EUR", rows |-> << >>]

OfxLayout == Layout(YearFirst, "", TRUE, 4)

OfxAmount(cell) == cell.kind = "amount" /\ Len(cell.marks) <= 1 /\ "," \notin Range(cell.marks)

Description(fields) == IF fields.MEMO = Blank THEN fields.NAME ELSE fields.MEMO

BuildOFXRow(fields, currency, line) ==
  LET date   == DateOf(OfxLayout, fields.DTPOSTED)
      amount == ParseEuropeanDecimalStrict(fields.TRNAMT)
      desc   == Description(fields)
  IN  [line |-> line, date |-> date, amount |-> amount, description |-> desc,
       currency |-> currency, hash |-> RowHash(date, amount, desc)]

\* What has an unreadable date or amount is dropped.
Buildable(fields) == Accepts(OfxLayout, fields.DTPOSTED) /\ OfxAmount(fields.TRNAMT)

\* Mutant: the fields of the transaction before stay.
OpenedKeeping(s) == [s EXCEPT !.inTx = TRUE]

Opened(s) == [s EXCEPT !.inTx = TRUE, !.fields = NoFields]

Closed(s, line) ==
  [s EXCEPT !.inTx = FALSE,
            !.rows = IF s.inTx /\ Buildable(s.fields)
                     THEN Append(@, BuildOFXRow(s.fields, s.curDef, line)) ELSE @]

Scan(s, line, i) ==
  CASE line.tag = "CURDEF" /\ line.value # Blank -> [s EXCEPT !.curDef = line.value.id]
    [] line.tag = "STMTTRN"                      -> Opened(s)
    [] line.tag = "/STMTTRN"                     -> Closed(s, i)
    [] s.inTx /\ line.tag \in Tags /\ line.value # Blank ->
         [s EXCEPT !.fields[line.tag] = line.value]
    [] OTHER                                     -> s

ParseOFX(lines) ==
  FoldLeft(LAMBDA s, i : Scan(s, lines[i], i), Scanner, [i \in DOMAIN lines |-> i]).rows
=============================================================================
