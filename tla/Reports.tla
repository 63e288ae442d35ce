------------------------------- MODULE Reports -------------------------------
(***************************************************************************)
(* What the queries compute for one user from the committed journals of    *)
(* all users: the balance of an account (AccountRepo), profit and loss,    *)
(* cash flow, balance sheet and category breakdown (ReportRepo), and the   *)
(* progress of budgets (BudgetRepo); and the pages of a listing            *)
(* (LedgerRepo).  Nothing is stored: every figure is a sum over entries.   *)
(* Some queries ask whose the journal is, some whose the account is, some  *)
(* both; a journal may have lines on accounts of another user.  Journals   *)
(* are added as Book says, here with the dates and the categories that the *)
(* queries filter on.                                                      *)
(***************************************************************************)
EXTENDS Postings

CONSTANTS Type,         \* account -> asset, liability, equity, income, expense
          Categories,   \* the categories of User
          Month,        \* day -> its month, date_trunc('month', date)
          MaxJournals,  \* bound: journals in the book
          Filters       \* the filters in requests for a listing

ASSUME TypeAssumption ==
  Type \in [Accounts -> {"asset", "liability", "equity", "income", "expense"}]
ASSUME MonthAssumption ==
  /\ Month \in [1 .. MaxDay -> Int]
  /\ \A d, e \in 1 .. MaxDay : d <= e => Month[d] <= Month[e]
ASSUME JournalsAssumption == MaxJournals \in Nat
ASSUME NoJournalAssumption ==
  NULL \notin [user : Users, of : Nat \cup {NULL}, lines : Seq(Lines)]

\* What a request for a listing may filter on, NULL for a filter not given.
Requests == [from : Days \cup {NULL}, to : Days \cup {NULL},
             category : Categories \cup {NULL}, account : Accounts \cup {NULL}]

ASSUME FiltersAssumption == Filters \subseteq Requests

VARIABLES journals,  \* the committed journals, in the order of their commits
          today

vars == <<journals, today>>

Init == journals = << >> /\ today = 1

Write(j) == /\ Len(journals) < MaxJournals
            /\ journals' = Append(journals, j)
            /\ UNCHANGED today

\* CreateJournalEntry by user u: the client names the date, past or future,
\* the accounts and the category.
Post(u, ls, d, c) ==
  /\ IsBalanced(ls)
  /\ Write([user |-> u, day |-> d, category |-> c, of |-> NULL, lines |-> ls])

\* Mutant: the signs are not flipped.
VoidSameSigns(i) ==
  /\ journals[i].of = NULL
  /\ Write([journals[i] EXCEPT !.day = today, !.of = i])

\* VoidJournalEntry by the user of the journal: the mirror is dated today and
\* keeps the category.
Void(i) ==
  /\ journals[i].of = NULL
  /\ Write([journals[i] EXCEPT !.day = today, !.of = i, !.lines = Negate(@)])

Tick == today < MaxDay /\ today' = today + 1 /\ UNCHANGED journals

Next == \/ \E u \in Users, ls \in EntryLists, d \in Days, c \in Categories \cup {NULL} :
             Post(u, ls, d, c)
        \/ \E i \in 1 .. Len(journals) : Void(i)
        \/ Tick

Spec == Init /\ [][Next]_vars
-----------------------------------------------------------------------------
(* The rows of entries, joined with their journal and account. *)
Entries == UNION {{<<i, n>> : n \in 1 .. Len(journals[i].lines)} : i \in 1 .. Len(journals)}

Poster(e)   == journals[e[1]].user
Day(e)      == journals[e[1]].day
Category(e) == journals[e[1]].category
Account(e)  == journals[e[1]].lines[e[2]].account
Amount(e)   == journals[e[1]].lines[e[2]].amount
TypeOf(e)   == Type[Account(e)]

\* SUM(e.amount) over a set of rows; COALESCE makes it 0 for none.
SumOf(rows) == MapThenSumSet(Amount, rows)

\* AccountRepo.GetBalance of an account of the user: the journals of the user,
\* of all dates, also those to come.
Balance(a) == SumOf({e \in Entries : Account(e) = a /\ Poster(e) = User})

\* Mutant: WHERE je.date >= from AND je.date < to.
UpTo(from, to) == {e \in Entries : /\ Account(e) \in Own
                                   /\ TypeOf(e) \in {"income", "expense"}
                                   /\ from <= Day(e) /\ Day(e) < to}

\* GetProfitAndLoss and GetCashFlow: the rows of the WHERE clause, on accounts
\* of the user, whoever posted them.
Between(from, to) == {e \in Entries : /\ Account(e) \in Own
                                      /\ TypeOf(e) \in {"income", "expense"}
                                      /\ from <= Day(e) /\ Day(e) <= to}

\* GROUP BY month: there is a period only for a month with a row.
Periods(from, to) == {Month[Day(e)] : e \in Between(from, to)}

InPeriod(from, to, m) == {e \in Between(from, to) : Month[Day(e)] = m}

\* Mutant: credits are not told from debits.
IncomeAnySign(from, to, m) ==
  SumOf({e \in InPeriod(from, to, m) : TypeOf(e) = "income" /\ Amount(e) > 0})

Income(from, to, m) ==
  -SumOf({e \in InPeriod(from, to, m) : TypeOf(e) = "income" /\ Amount(e) < 0})

Expenses(from, to, m) ==
  SumOf({e \in InPeriod(from, to, m) : TypeOf(e) = "expense" /\ Amount(e) > 0})

TotalNet(from, to) ==
  LET totalIncome   == MapThenSumSet(LAMBDA m : Income(from, to, m), Periods(from, to))
      totalExpenses == MapThenSumSet(LAMBDA m : Expenses(from, to, m), Periods(from, to))
  IN  totalIncome - totalExpenses

(* GetBalanceSheet: the date is a condition of the second LEFT JOIN, which
   keeps the row of entries when no journal matches.  So the sum depends
   neither on as_of nor on who posted. *)
Sheet(asOf, a) ==
  LET joined == {e \in Entries : Account(e) = a}  \* Day(e) <= asOf or a null journal
  IN  SumOf(joined)

\* Mutant: WHERE je.date >= from AND je.date < to.
CategoryUpTo(c, from, to) ==
  SumOf({e \in Entries : /\ Category(e) = c /\ Poster(e) = User /\ Amount(e) > 0
                         /\ from <= Day(e) /\ Day(e) < to})

\* GetCategoryBreakdown: the debits of the user's journals of a category, on
\* whatever account.
CategoryTotal(c, from, to) ==
  SumOf({e \in Entries : /\ Category(e) = c /\ Poster(e) = User /\ Amount(e) > 0
                         /\ from <= Day(e) /\ Day(e) <= to})

\* ListWithProgress: the spent of a budget for category c and month m.
Spent(c, m) ==
  SumOf({e \in Entries : /\ Category(e) = c /\ Poster(e) = User /\ Amount(e) > 0
                         /\ Month[Day(e)] = m})

OfType(t) == {a \in Own : Type[a] = t}
-----------------------------------------------------------------------------
\* ListJournalEntries: the rows of the WHERE clause.
Selected(f) ==
  {i \in 1 .. Len(journals) :
     /\ journals[i].user = User
     /\ f.from # NULL => journals[i].day >= f.from
     /\ f.to # NULL => journals[i].day <= f.to
     /\ f.category # NULL => journals[i].category = f.category
     /\ f.account # NULL =>
          \E n \in 1 .. Len(journals[i].lines) : journals[i].lines[n].account = f.account}

\* ORDER BY date DESC, created_at DESC; the first row has position 0.
Before(i, k) == \/ journals[i].day > journals[k].day
                \/ journals[i].day = journals[k].day /\ i > k

Position(f, i) == Cardinality({k \in Selected(f) : Before(k, i)})

\* Mutant: pages are counted from 0.
OffsetFromZero(page, size) == page * PageSize(size)

Offset(page, size) == ((IF page < 1 THEN 1 ELSE page) - 1) * PageSize(size)

\* LIMIT and OFFSET.
Page(f, page, size) ==
  {i \in Selected(f) : /\ Position(f, i) >= Offset(page, size)
                       /\ Position(f, i) < Offset(page, size) + PageSize(size)}
-----------------------------------------------------------------------------
(* Balances are derived from entries alone, and a void is one more journal:
   every journal of the user counts in the balance of an account once, less
   the number of its reversals. *)
Reversals(i) == {k \in 1 .. Len(journals) : journals[k].of = i}

Effect(i, a) == MapThenSumSet(LAMBDA n : journals[i].lines[n].amount,
                              {n \in 1 .. Len(journals[i].lines) :
                                 journals[i].lines[n].account = a})

BalancesNetVoids ==
  \A a \in Own :
    Balance(a) = MapThenSumSet(LAMBDA i : (1 - Cardinality(Reversals(i))) * Effect(i, a),
                               {i \in 1 .. Len(journals) : /\ journals[i].user = User
                                                           /\ journals[i].of = NULL})

(* Reports over two adjoining ranges add up to the report over both, also
   when the day between them splits a month: no entry is counted twice or
   left out at a boundary. *)
ReportsAddUp ==
  \A from, mid, to \in Days :
    from <= mid /\ mid < to =>
      TotalNet(from, to) = TotalNet(from, mid) + TotalNet(mid + 1, to)

(* A listing is read in pages: over a book that stands still, the pages up to
   the total, which is counted apart from them, show every journal the
   filters select once, whatever page_size the request names. *)
PagesAreListing ==
  \A f \in Filters, size \in Sizes :
    LET total == Cardinality(Selected(f))
        pages == {p \in 1 .. total : (p - 1) * PageSize(size) < total}
    IN  /\ UNION {Page(f, p, size) : p \in pages} = Selected(f)
        /\ \A p, q \in pages : p # q => Page(f, p, size) \cap Page(f, q, size) = {}

(* Profit and loss explains the balance sheet: while no income of the user is
   debited and no expense credited, the net of all dates is what the asset,
   liability and equity accounts show, and what the same journals put on
   accounts of others, which is nothing while each keeps to the accounts of
   one user.  They show it whichever as_of is asked for: an entry dated later
   counts too (GetBalanceSheet). *)
ProfitIsGain ==
  (\A e \in Entries :
     Account(e) \in Own => /\ TypeOf(e) = "income" => Amount(e) <= 0
                           /\ TypeOf(e) = "expense" => Amount(e) >= 0) =>
    \A asOf \in Days :
      TotalNet(1, MaxDay) =
        MapThenSumSet(LAMBDA a : Sheet(asOf, a),
                      OfType("asset") \cup OfType("liability") \cup OfType("equity"))
          + SumOf({e \in Entries : Account(e) \notin Own})

(* The two queries that group by category agree: over a whole month, the
   breakdown shows of a category what the budget of that month has spent,
   reversals and refunds included in both or in neither. *)
BreakdownMatchesBudget ==
  \A c \in Categories : \A m \in {Month[d] : d \in Days} :
    LET within == {d \in Days : Month[d] = m}
    IN  CategoryTotal(c, Min(within), Max(within)) = Spent(c, m)

(* "BudgetProgress is a calculated view of a budget with current spending"
   (domain/budget.go), "Void with a reverse entry" (domain/journal_entry.go):
   when all that the user posted for a category in a month is purchases, each
   voided once within the month, nothing of them is spent.  The query sums
   the debits, and so counts the money that comes back as spent once more. *)
VoidsAreNetted ==
  \A c \in Categories, m \in {Month[d] : d \in Days} :
    LET js == {i \in 1 .. Len(journals) : /\ journals[i].user = User
                                          /\ journals[i].category = c
                                          /\ Month[journals[i].day] = m}
        IsPurchase(i) == \E n \in 1 .. Len(journals[i].lines) :
                           LET l == journals[i].lines[n]
                           IN  Type[l.account] = "expense" /\ l.amount > 0
    IN  (\A i \in js :
           IF journals[i].of # NULL THEN journals[i].of \in js
           ELSE IsPurchase(i) /\ Cardinality(Reversals(i)) = 1 /\ Reversals(i) \subseteq js)
        => Spent(c, m) = 0
=============================================================================
