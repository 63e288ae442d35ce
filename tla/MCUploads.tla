----------------------------- MODULE MCUploads -----------------------------
(***************************************************************************)
(* Instances of Uploads for TLC: statements that differ in their dates, in *)
(* their amounts, in their layout, and OFX files.                          *)
(***************************************************************************)
EXTENDS Uploads

Text(id)         == [Blank EXCEPT !.id = id]
Title(hits)      == [Text("title") EXCEPT !.hits = hits]
With(cell, ss)   == [cell EXCEPT !.seps = ss]
Total(n1, n2)    == [Text("total") EXCEPT !.numbers = <<n1, n2>>]

Part(n, padded) == [n |-> n, w |-> IF padded \/ n >= 10 THEN 2 ELSE 1]
Date(f, d, m) ==
  [kind  |-> "date", hits |-> {}, seps |-> {}, sep |-> f.sep, id |-> "date",
   parts |-> [i \in 1 .. 3 |->
                CASE f.order[i] = "d" -> Part(d, f.padded)
                  [] f.order[i] = "m" -> Part(m, f.padded)
                  [] OTHER -> [n |-> IF f.year = 4 THEN 2024 ELSE 24, w |-> f.year]]]

Sum(minus, chunks, marks) ==
  [kind |-> "amount", hits |-> {}, seps |-> {}, id |-> "amount",
   minus |-> minus, chunks |-> chunks, marks |-> marks]
C(n, w) == [n |-> n, w |-> w]

Simple(point)  == Sum(FALSE, <<C(12, 2), C(50, 2)>>, <<point>>)
Other(point)   == IF point = "." THEN "," ELSE "."
SumsOf(point)  ==
  { Simple(point), Blank, Text("n/a"),
    Sum(TRUE,  <<C(7, 1)>>, << >>),
    Sum(TRUE,  <<C(1, 1), C(500, 3), C(25, 2)>>, <<Other(point), point>>),
    Sum(FALSE, <<C(2, 1), C(0, 3), C(0, 3), C(5, 1)>>, <<Other(point), Other(point), point>>),
    Sum(FALSE, <<C(1, 1), C(500, 3)>>, <<Other(point)>>),
    Sum(FALSE, <<C(1, 1), C(500, 3), C(0, 3)>>, <<Other(point), Other(point)>>) }

Single == <<"date", "desc", "amount">>
Halves == <<"date", "desc", "debit", "credit">>

Statement(sep, format, point, roles, lead, titles, rows, foot) ==
  [type |-> "csv", sep |-> sep, format |-> format, point |-> point, roles |-> roles,
   lines  |-> lead \o titles \o rows \o foot,
   header |-> IF titles = << >> THEN 0 ELSE Len(lead) + 1,
   first  |-> Len(lead \o titles) + 1, last |-> Len(lead \o titles \o rows)]
Plain(roles) == << [j \in DOMAIN roles |-> Title({roles[j]})] >>

\* Three dates in every format.
Dated ==
  { Statement(";", f, ",", Single, << >>, Plain(Single),
              [k \in 1 .. 3 |-> <<Date(f, d[k], m[k]), Text("shop"), Simple(",")>>], << >>) :
      f \in Range(DateFormats), d \in [1 .. 3 -> {5, 11, 13}], m \in [1 .. 3 -> {3, 10}] }

\* Totals in the column of the dates, with numbers of all sorts.
Totalled ==
  { Statement(";", f, ",", Single, << >>, Plain(Single),
              [k \in 1 .. 2 |-> <<Date(f, d[k], 10), Text("shop"), Simple(",")>>],
              << <<total, Blank, Blank>>, <<other, Blank, Blank>> >>) :
      f \in Range(DateFormats), d \in [1 .. 2 -> {5, 11, 13}],
      total, other \in {Total(0, 234), Total(31, 12), Simple("."), Text("total")} }

\* Amounts in one column and in two, in both styles.
Sums ==
  UNION { { Statement(sep, ISO, point, Single, << >>, Plain(Single),
                      << <<Date(ISO, 5, 3), Text("shop"), a>>,
                         <<Date(ISO, 6, 3), Text("rent"), b>> >>, << >>) :
              a, b \in SumsOf(point) }
          \cup
          { Statement(sep, ISO, point, Halves, << >>, Plain(Halves),
                      << <<Date(ISO, 5, 3), Text("shop"), a, b>> >>, << >>) :
              a, b \in SumsOf(point) } : point \in {",", "."}, sep \in {";", "tab"} }

\* Titles, with what surrounds them.
Titles ==
  { << >>, Plain(Single),
    << <<Title({"date"}), Title({"desc"}), Title({"amount", "credit"})>> >>,
    << <<Title({"date", "amount"}), Title({"desc"}), Title({"amount"})>> >>,
    << <<Title({"desc"}), Title({"desc"}), Title({"amount"})>> >>,
    << <<Title({"date"}), Title({"desc"}), Title({})>> >>,
    << <<Title({"date"}), With(Title({"desc"}), {"|"}), Title({"amount"})>> >>,
    << <<With(Title({"date"}), {";", "|"}), With(Title({"desc"}), {";", "|"}),
         Title({"amount"})>> >> }
Leads ==
  { << >>, << <<Text("account")>> >>, << <<Text("account"), Blank, Blank>> >>,
    << <<Title({"date"}), Blank, Blank>> >>,
    [i \in 1 .. 10 |-> <<Text("account"), Blank, Blank>>] }
Feet == { << >>, << <<Text("total"), Blank, Simple(".")>> >>, << <<Text("total")>> >> }

Laid ==
  { Statement(sep, ISO, ".", Single, lead, titles,
              << <<Date(ISO, 5, 3), Title({"credit"}), Simple(".")>>,
                 <<Date(ISO, 6, 3), Text("rent"), Simple(".")>> >>, foot) :
      sep \in Separators, lead \in Leads, titles \in Titles, foot \in Feet }

\* Columns in another order, and a column for the currency.
Wide ==
  { Statement(",", ISO, ".", roles, << >>,
              << [j \in DOMAIN roles |->
                    Title(IF roles[j] = "other" THEN {} ELSE {roles[j]})] >>,
              << [j \in DOMAIN roles |->
                    CASE roles[j] = "date"     -> Date(ISO, 5, 3)
                      [] roles[j] = "amount"   -> Simple(".")
                      [] roles[j] = "currency" -> c
                      [] OTHER                 -> Text(roles[j])] >>, << >>) :
      roles \in { <<"desc", "amount", "currency", "date">>,
                  <<"other", "currency", "amount", "desc", "date", "other">>,
                  <<"desc", "date", "amount", "desc", "currency">> },
      c \in {Blank, Text("EUR"), Text("USD")} }

\* Empty cells, in a column without a title too.
Sparse ==
  { Statement(sep, ISO, ".", <<"date", "other", "debit", "credit", "desc">>, << >>,
              << <<Title({"date"}), other, Title({"debit"}), Title({"credit"}),
                   Title({"desc"})>> >>,
              [k \in 1 .. 2 |->
                 <<Date(ISO, 5, 3), o[k]>>
                 \o (IF out[k] THEN <<Simple("."), Blank>> ELSE <<Blank, Simple(".")>>)
                 \o <<Text("shop")>>], << >>) :
      sep \in {";", "tab"}, other \in {Blank, Title({})},
      o \in [1 .. 2 -> {Blank, Text("value date")}], out \in [1 .. 2 -> BOOLEAN] }

Tag(tag, value) == [tag |-> tag, value |-> value]
OfxDates == { Blank, Date(OfxLayout, 5, 3), Date(OfxLayout, 30, 2), Date(ISO, 5, 3) }
OfxSums  == { Blank, Simple("."), Simple(",") }
Memos    == { Blank, Text("memo") }

\* Two transactions; the fields of one come in any order, and the first may
\* miss its end or its beginning.
Block(t, opens, closes) ==
     (IF opens THEN <<Tag("STMTTRN", Blank)>> ELSE << >>)
  \o <<Tag("NAME", t.NAME), Tag("TRNAMT", t.TRNAMT), Tag("MEMO", t.MEMO),
       Tag("DTPOSTED", t.DTPOSTED)>>
  \o (IF closes THEN <<Tag("/STMTTRN", Blank)>> ELSE << >>)

TagValues == [DTPOSTED : OfxDates, TRNAMT : OfxSums, MEMO : Memos, NAME : {Blank, Text("name")}]

OfxFile(t, u, opens, closes, currency) ==
  [type  |-> "ofx",
   lines |-> <<Tag("OFX", Blank)>>
             \o (IF currency THEN <<Tag("CURDEF", Text("USD"))>> ELSE << >>)
             \o Block(t, opens, closes) \o Block(u, TRUE, TRUE)]

Ofx == { OfxFile(t, u, opens, closes, currency) :
           t \in TagValues, u \in { v \in TagValues : v.NAME = Blank },
           opens \in BOOLEAN, closes \in BOOLEAN, currency \in {FALSE} }
         \cup { OfxFile(t, t, TRUE, TRUE, TRUE) : t \in TagValues }

MCFiles == Dated \cup Totalled \cup Sums \cup Laid \cup Wide \cup Sparse \cup Ofx
=============================================================================
