------------------------------ MODULE Listing ------------------------------
(***************************************************************************)
(* Requests that need several statements for one answer, next to journals  *)
(* that commit between the statements.  A listing, of journals or of the   *)
(* entries of an account, is counted by one statement and its page read by *)
(* the next; a client walks through the pages up to the total it was told  *)
(* last.  The list of accounts and the dashboard read one balance at a     *)
(* time.  The requests are of one user; the journals are of all users, and *)
(* may have lines on accounts of another.  The statements run outside a    *)
(* transaction, so each sees what has committed when it begins.  Requests  *)
(* like these only read, so it is enough to follow one walk or one         *)
(* overview at a time.                                                     *)
(***************************************************************************)
EXTENDS Postings, SequencesExt, Functions

CONSTANTS Ids,         \* a finite pool of journal ids
          MaxFaults    \* bound: statements that fail

ASSUME IdsAssumption == IsFiniteSet(Ids)

VARIABLES
  posted,     \* id -> journal whose transaction has begun, or NULL
  committed,  \* the ids of the committed journals, in that order
  walk,       \* a client going through a listing, or NULL
  overview,   \* a request for the balances of all accounts, or NULL
  faults      \* statements that have failed

listingVars == <<posted, committed, walk, overview, faults>>

Committed == Range(committed)
Begun     == { id \in Ids : posted[id] # NULL }
-----------------------------------------------------------------------------
\* A listing is of the user's journals, or of the entries of an account of the
\* user, whoever posted them.
Lists == {NULL} \cup Own

RowsOf(list, ids) ==
  IF list = NULL THEN { <<id, 0>> : id \in { i \in ids : posted[i].user = User } }
  ELSE UNION { { <<id, n>> : n \in { k \in DOMAIN posted[id].lines :
                                       posted[id].lines[k].account = list } } : id \in ids }

\* ORDER BY date DESC, created_at DESC, and ORDER BY created_at DESC.  The
\* entries of a journal have its created_at, and come in any order.
Ahead(list, r, s) ==
  LET j == posted[r[1]]
      k == posted[s[1]]
  IN  IF list # NULL THEN j.created > k.created
      ELSE j.day > k.day \/ (j.day = k.day /\ j.created > k.created)

Tied(list, rows, r) == { s \in rows : ~Ahead(list, r, s) /\ ~Ahead(list, s, r) }

\* Mutants: one row less than a page; one row more.
SlotsShort(page, size) == (page - 1) * size .. page * size - 2

SlotsAndOne(page, size) == (page - 1) * size .. page * size

\* LIMIT and OFFSET; the first row is in slot 0.
Slots(page, size) == (page - 1) * size .. page * size - 1

\* A page has the rows of its slots: of rows that tie, as many as fall on it.
IsPage(list, rows, shown, page, size) ==
  \A r \in rows :
    LET before == Cardinality({ s \in rows : Ahead(list, s, r) })
        tied   == Tied(list, rows, r)
    IN  Cardinality(shown \cap tied)
          = Cardinality(Slots(page, size) \cap (before .. before + Cardinality(tied) - 1))

\* The entries on an account from the journals of the user.
BalanceOf(a, ids) ==
  MapThenSumSet(LAMBDA r : posted[r[1]].lines[r[2]].amount,
                RowsOf(a, { id \in ids : posted[id].user = User }))

BalanceNow(a) == BalanceOf(a, Committed)

Walking == walk # NULL /\ ~walk.ended
Reading == overview # NULL /\ overview.left # << >>
-----------------------------------------------------------------------------
ListingInit ==
  /\ posted = [id \in Ids |-> NULL]
  /\ committed = << >>
  /\ walk = NULL
  /\ overview = NULL
  /\ faults = 0

\* created_at is now(), the time the transaction began.
Begin(id, u, day, ls) ==
  /\ posted[id] = NULL /\ IsBalanced(ls)
  /\ posted' = [posted EXCEPT ![id] =
                    [user |-> u, day |-> day, created |-> Cardinality(Begun) + 1, lines |-> ls]]
  /\ UNCHANGED <<committed, walk, overview, faults>>

\* Histories: a commit between the count and the page of a request, and one
\* during a walk.
Commit(id) ==
  /\ id \in Begun \ Committed
  /\ committed' = Append(committed, id)
  /\ walk' = IF walk = NULL \/ walk.ended THEN walk
             ELSE [walk EXCEPT !.still = FALSE, !.split = @ \/ walk.counted]
  /\ UNCHANGED <<posted, overview, faults>>
-----------------------------------------------------------------------------
\* A walk through the pages of a listing.
StartWalk(list, size) ==
  /\ ~Walking /\ ~Reading
  /\ walk' = [list |-> list, size |-> PageSize(size), page |-> 1, counted |-> FALSE, total |-> 0,
              shown |-> << >>, ended |-> FALSE,
              before |-> Committed, still |-> TRUE, split |-> FALSE]
  /\ overview' = NULL
  /\ UNCHANGED <<posted, committed, faults>>

Count ==
  /\ Walking /\ ~walk.counted
  /\ walk' = [walk EXCEPT !.counted = TRUE, !.split = FALSE,
                !.total = Cardinality(RowsOf(walk.list, Committed))]
  /\ UNCHANGED <<posted, committed, overview, faults>>

ReadPage(shown) ==
  /\ Walking /\ walk.counted
  /\ IsPage(walk.list, RowsOf(walk.list, Committed), shown, walk.page, walk.size)
  /\ walk' = [walk EXCEPT !.counted = FALSE, !.shown = Append(@, shown), !.page = @ + 1,
                !.ended = walk.page * walk.size >= walk.total]
  /\ UNCHANGED <<posted, committed, overview, faults>>

\* A statement fails, the request is answered with an error and sent again.
FailPage ==
  /\ Walking /\ faults < MaxFaults
  /\ walk' = [walk EXCEPT !.counted = FALSE]
  /\ faults' = faults + 1
  /\ UNCHANGED <<posted, committed, overview>>
-----------------------------------------------------------------------------
\* The balances of all accounts of the user, for their list or for the dashboard.
StartOverview(dashboard) ==
  /\ ~Walking /\ ~Reading
  /\ walk' = NULL
  /\ \E order \in SetToSeqs(Own) :
       overview' = [dashboard |-> dashboard, left |-> order, read |-> << >>,
                    from |-> Len(committed)]
  /\ UNCHANGED <<posted, committed, faults>>

Answered(a, balance) == [account |-> a, balance |-> balance, failed |-> FALSE]

ReadBalance ==
  /\ Reading
  /\ LET a == Head(overview.left)
     IN  overview' = [overview EXCEPT !.left = Tail(@),
                        !.read = Append(@, Answered(a, BalanceNow(a)))]
  /\ UNCHANGED <<posted, committed, walk, faults>>

\* Mutant: the list of accounts goes on after a failure, like the dashboard.
FailBalanceUnnoticed ==
  /\ Reading /\ faults < MaxFaults
  /\ faults' = faults + 1
  /\ overview' = [overview EXCEPT !.left = Tail(@),
                    !.read = Append(@, [Answered(Head(overview.left), 0) EXCEPT !.failed = TRUE])]
  /\ UNCHANGED <<posted, committed, walk>>

\* The dashboard shows zero for a balance it cannot read; the list of
\* accounts is answered with an error.
FailBalance ==
  /\ Reading /\ faults < MaxFaults
  /\ faults' = faults + 1
  /\ overview' =
       IF overview.dashboard
       THEN [overview EXCEPT !.left = Tail(@),
               !.read = Append(@, [Answered(Head(overview.left), 0) EXCEPT !.failed = TRUE])]
       ELSE NULL
  /\ UNCHANGED <<posted, committed, walk>>

ListingNext ==
  \/ \E id \in Ids, u \in Users, day \in Days, ls \in EntryLists : Begin(id, u, day, ls)
  \/ \E id \in Ids : Commit(id)
  \/ \E list \in Lists, size \in Sizes : StartWalk(list, size)
  \/ Count
  \/ Walking /\ \E shown \in SUBSET RowsOf(walk.list, Committed) : ReadPage(shown)
  \/ FailPage
  \/ \E dashboard \in BOOLEAN : StartOverview(dashboard)
  \/ ReadBalance
  \/ FailBalance

ListingSpec == ListingInit /\ [][ListingNext]_listingVars
-----------------------------------------------------------------------------
\* How often a walk has shown one of the rows.
Shown(rows) == FoldLeft(LAMBDA n, page : n + Cardinality(page \cap rows), 0, walk.shown)

\* A client that walks to the end has been shown every journal that was
\* committed when it began, whatever was committed meanwhile, with whatever
\* date; and of the entries of an account that share a journal, at least as
\* many rows as there are.  Only a commit between the count and the page of
\* the last request can cut the walk short.
WalkShowsAll ==
  walk # NULL /\ ~walk.split => (walk.ended =>
    LET rows == RowsOf(walk.list, walk.before)
    IN  \A r \in rows :
          Shown(Tied(walk.list, rows, r)) >= Cardinality(Tied(walk.list, rows, r)))

\* A row is shown twice, or passed over, only if something was committed
\* during the walk or it ties with another row.
RepeatsExplained ==
  walk # NULL /\ walk.still => (walk.ended =>
    LET rows == RowsOf(walk.list, walk.before)
    IN  \A r \in rows : Tied(walk.list, rows, r) = {r} => Shown({r}) = 1)

\* The balances of one answer are each the balance of some moment of the
\* request, later accounts of later moments: never of half a journal, and
\* zero for a failure on the dashboard alone.  So with no commit meanwhile
\* the answer adds up: what it is short of zero is what the user's journals
\* have put on accounts of others, nothing if they keep to the user's own.
BalancesOfAMoment ==
  overview # NULL =>
    /\ \E moment \in [DOMAIN overview.read -> overview.from .. Len(committed)] :
         \A i \in DOMAIN overview.read :
           /\ \A k \in 1 .. i : moment[k] <= moment[i]
           /\ LET r == overview.read[i]
              IN  \/ r.failed /\ overview.dashboard
                  \/ r.balance = BalanceOf(r.account, Range(SubSeq(committed, 1, moment[i])))
    /\ overview.left = << >> /\ overview.from = Len(committed) =>
         \/ \E i \in DOMAIN overview.read : overview.read[i].failed
         \/ FoldLeft(LAMBDA n, r : n + r.balance, 0, overview.read)
              = -MapThenSumSet(BalanceNow, Accounts \ Own)
=============================================================================
