# fincontrol-back in TLA+

fincontrol-back is a personal-finance server in Go on PostgreSQL: double-entry
journals, accounts, categories, budgets, scheduled transactions, imports of
bank files and reports. Its replicas share nothing but the database. This
directory models the parts whose correctness depends on order: what several
requests, replicas and goroutines do to shared rows between their statements,
and what failures, crashes and restarts leave behind.

- [The system](#the-system)
- [Modules](#modules)
- [Runs](#runs)
- [Bounds](#bounds), [fairness](#fairness), [stopping](#stopping)
- [Proofs](#proofs)
- [Where the code departs from what is said of it](#where-the-code-departs-from-what-is-said-of-it)
- [Not modelled](#not-modelled)
- [Plan](#plan)

To check a module: `tlc -config Ledger.cfg MCLedger.tla`; to check proofs:
`tlapm LedgerProofs.tla`.

## The system

HTTP handlers (`internal/adapter/inbound/http`) parse a request, a service
(`internal/app`) decides, a repository (`internal/adapter/outbound/postgres`)
runs the SQL. A goroutine per replica (`inbound/scheduler/cron.go`) calls the
scheduled service every minute. `cmd/server/main.go` runs the migrations, then
starts the goroutine and the server; the chart deploys two replicas
(`deploy/helm/values.yaml:1`).

| component | state it keeps | operations | what is hard | what makes it correct |
|---|---|---|---|---|
| journal ledger (`transaction_service`, `ledger_repo`) | `journal_entries`, `entries`, rows of `audit_log` | create, void, get | the check of the sum, the commit and the audit row are separate; commits of unknown outcome; voids side by side | journals balance as stored, are never changed, reversals mirror; answers are true |
| scheduled transactions (`scheduled_service`, `schedule_repo`, `cron.go`) | `scheduled_transactions` | create, update, soft delete, the pass every minute | two replicas on the same rows; posting and advancing are two transactions; whole rows are written back | no run early, none passed over but by its user, due runs posted, once |
| import (`import_service`, `import_repo`, `import_handler`) | `import_dedup` | confirm | check, post and record are three transactions; overlapping confirmations | no row lost, none twice |
| migrations (`db.go`) | `schema_migrations`, the schema | run at start | replicas that start together; crash in the middle | once, in order, before serving |
| rate limiter (`middleware/ratelimit.go`) | a map under a mutex, per route and replica | allow, cleanup | ends of windows; every replica counts for itself, and forgets when it restarts; a key is a header or a connection | bounded rate per key, no refusal without reason |
| reports and balances (`report_repo`, `account_repo`, `budget_repo`) | none: sums over entries | profit and loss, cash flow, balance sheet, breakdown, balance, budget progress | signs, dates, voids, ends of ranges; lines on accounts of other users | the figures agree with each other as far as their filters do |
| listings (`ledger_repo`, handlers) | none | count and page of journals, of an account's entries | count and page are two statements; pages are asked for one by one while journals begin and commit; ties | nothing is passed over; what is shown twice or is missing is explained by a commit |
| accounts, categories, budgets (`*_service`, `*_repo`) | `accounts`, `categories`, `budgets` | create, update, list | updates read, merge and write all fields, in two statements | no update lost to a request that does not overlap; parents form no circle |
| audit log (`audit_repo`) | `audit_log` | insert, errors dropped | written after the commit | never records what did not happen |
| authentication (`auth_service`, `auth_repo`, `auth_handler`, `middleware/auth`) | `users`; a cookie in the browser; tokens are signed and not stored | register, login, refresh, logout | two registrations of one email; lost and late answers; tabs that share a cookie | who was told of an account can sign in; tokens name users; a session ends when it is over and not before; a logout holds |
| CSV and OFX parsers (`outbound/parser`, `import_handler`) | none; the client brings file, mapping or rows back | preview, confirm | guessing separators, titles, formats of dates and amounts; the file is read twice | dates and amounts as written; what is confirmed is what was previewed |
| dashboard (`dashboard_handler`), list of accounts | none | balances one by one, the reports, the first journals | queries in separate statements, errors dropped | every balance is one the account had |
| lifecycle (`main.go`, chart) | none | start, stop | shutdown waits for requests and not for the scheduler | a pass that is cut off does no harm |
| config, CORS, logging, headers, money types | none | | | |

Interactions: the scheduler and the import call `CreateJournalEntry` past the
checks of `TransactionService.Create` (in Ledger: `InternalPost`). Reports,
listings and the dashboard read what Ledger writes. Registration and login
stand behind a limiter each, and only those two. A preview of a file keeps
nothing on the server: what the client sends back is what Import records. All
components stand on the schema the migrations make.

## Modules

| module | what it is |
|---|---|
| `Amounts` | lines, sums, what `NUMERIC(19,4)` keeps of an amount |
| `Book` | abstract: a book to which balanced journals and mirrors are added, never changed |
| `Ledger` | `TransactionService` on `LedgerRepo`; implements `Book` |
| `Scheduler` | the scheduler goroutines and the users who edit schedules, on `Calendar` |
| `Import` | confirmations of imports |
| `Migrations` | `RunMigrations` of all replicas |
| `Calendar` | dates as days from a first day; `advanceNextRun` and `AddDate` at the end of months |
| `RateLimiter` | `Allow` and `cleanup` as actions that another module composes |
| `Access` | `AuthService` and its handlers behind the limiters, with the browser that holds the cookie |
| `CsvFormat`, `OfxFormat` | the two parsers as operators |
| `Uploads` | preview and confirmation of a file by `ImportHandler` |
| `Postings` | entry lists, dates and page sizes, shared by `Reports` and `Listing` |
| `Listing` | counts, pages and balances read while journals commit |
| `Reports` | queries and listings as operators over a growing book |
| `Catalog` | accounts, categories and budgets |
| `MC*` | instances of each for TLC |
| `LedgerProofs`, `SchedulerProofs` | theorems, those of `Amounts` and `Calendar` first |
| `ImportProofs`, `MigrationsProofs`, `UploadsProofs`, `AccessProofs`, `CatalogProofs` | theorems |
| `ReportsProofs` | sums over finite sets, then theorems about what `Reports` adds up and what `Listing` shows |

An action is what happens in one step nobody else can get in between: a SQL
statement or a transaction with no statement of others visible inside it. A
local variable that lives from one statement to the next is a variable of the
process. What a transaction wrote is its own (`tx`) until the commit. An error
of any statement, a commit that takes effect although its caller sees an
error, and the death of the replica between any two statements are actions of
their own. Operators whose comment begins with "Mutant" describe a mistake in
the definition that follows them; no specification uses them. They are kept to
show that each property can fail.

**Ledger.** A process is one execution of `TransactionService.Create` or
`Void`, or of a call of the repository by the scheduler or the import. `pc`
names the statement it is at, `req` what it was asked, `tx` its open
transaction. `Insert` is the header and the entries of `CreateJournalEntry`
(one step, nobody sees them before the commit), `CheckBalanced` and
`CheckUnbalanced` its `SELECT SUM`, which a failing query also answers with
"unbalanced". `VoidRead` is `GetJournalEntry`, run on the pool before the
transaction of the void begins; that is why the isolation level of the
transaction does not see what changed since. `VoidInsert` flips the signs and
commits without the sum: what keeps the sum zero is `NegateBalanced` of
LedgerProofs. `Audit` writes its row or fails unnoticed. Requests count in
units smaller than the column's by `Scale`, so rounding can unbalance what the
service found balanced. `entries[id]` is a sequence in the order of the
inserts; `loadEntries` has no `ORDER BY`, and no property depends on the order.

**Scheduler.** `due[r]` is the list of rows `ListDue` returned to replica `r`,
`cur[r]` the schedule that is posted and not advanced. `Post` is the committed
`CreateJournalEntry`, `Advance` the `repo.Update` of the copy. `Refuse` is a
template that does not parse or balance; `PostFails` an error of the database,
before or after the commit took effect. A user's `Update` is `UpdateRead` and
`UpdateWrite`, which always writes `is_active`; `Delete` clears it. One update
by a user is in progress at a time. Time is counted in days of `Calendar`,
whose months have their lengths; `After` is `advanceNextRun`, with the overflow
of `AddDate` into the month after. `deleted` remembers the schedules a user
deleted and has not changed since, `held` those some replica had a copy of
then. `stale` has the replicas whose copy of a row is older than a user's
write, and `lost` the times at which `next_run` stood when a user, or a pass
with a stale copy, put another in its place (`TakenAway`): with them the
properties tell a run that was withdrawn from one that was passed over.

**Import.** A process is a confirmation: `CheckNew`, `CreateJournal`, `Record`
row by row; errors count and the loop goes on. `answered` holds the
confirmations that came to their end.

**Migrations.** `Holds` models the locks that `CREATE TABLE` and `CREATE TYPE`
take: a second transaction that creates the same object waits, then fails or
proceeds. Files are opaque, each is known to create something that cannot be
created twice.

**RateLimiter and Access.** A call of `Allow`, or of one pass of `cleanup` over
a map, holds the mutex and reads the clock under it, so each is one step.
`Access` has one limiter per route and replica, as `NewServer` makes them, and
in each a window for every key: what stands in `X-Forwarded-For`, or else the
address and port of the connection (`Origins`). Which of them a request has is
open each time, so the requests of one tab may be counted in different windows
and those of two tabs in one. A tab of the browser has one request under way,
`req[t]`: it is sent with the cookie as it was (`Sends`), let through or
refused (`Limited`), goes through the statements of its handler, and its answer
is received, at any time later, or lost. `CreateUserFails` covers an INSERT
that took effect although its caller saw an error. `LookupFails` is an error of
the database in `Login` and `RefreshToken`, which answer it as 401. Tokens are
records; signatures and password hashes are taken to do what they are for.
`created`, `session` and `overtaken` are history.

**CsvFormat, OfxFormat, Uploads.** A cell of a file is a record of what the
parser can tell about its text: a date's numbers and how many digits they have,
an amount's chunks of digits and the marks between them, the numbers in a text,
the keyword lists a title matches. `Numbers` is what `atoi` makes of the parts
of any cell: `detectDateFormat` looks at the column of the dates in every row,
totals included. `Fields` is what `TrimLeadingSpace` leaves of a line whose
separator is the tab: a field that is empty is skipped as space, unless it is
the last. `IsDay` is the calendar of `time.Parse`. `DateFormats` is the list
the parser tries in order, and each function of the parser is an operator of
the same name. A file also records what its bank meant: `Uploads` reads the
file by the parser's rules, and the properties compare with what the bank
meant; of an OFX file they go by its lines alone, the fields of a transaction
being the last values of their tags since the line that opened it. `PreviewCSV`
takes any separator that `detectSeparator` may return, since ties are broken by
the iteration of a map. The client then confirms with the suggested mapping,
with the right one, or sends back the rows it was shown.

**Postings.** `Reports` and `Listing` follow the figures of one user among
several. `CreateJournalEntry` asks of a line only that its account exists (the
foreign key of migration 003), so a journal may have lines on accounts of
another user (`Owner`, `Own`), and who sees it depends on the query:

| filter | queries |
|---|---|
| owner of the account | profit and loss, cash flow, balance sheet, entries of an account |
| owner of the journal | category breakdown, spent of a budget, list of journals |
| both | balance of an account |

**Listing.** A journal has a time at which its transaction began, which is its
`created_at`, and a time at which it committed. `Count` and `ReadPage` are the
two statements of a listing; `Ahead` is the order of its rows, `Tied` the rows
among which the order is open: all entries of one journal. `ReadBalance` is one
balance of an overview, `FailBalance` the error that the dashboard drops.

**Reports.** The state is the sequence of the committed journals of all users,
each posted or reversed with a date and a category; every query is an operator
over it. `Entries` is the join, `SumOf` the aggregate. `Sheet` shows what the balance
sheet computes: the condition on the date is in the join of the journal and
removes no entry, so `as_of` is not in it. No two transactions overlap here, so
`created_at` follows the commits; `Listing` has those that do.

**Catalog.** `table` is the three tables, `work[p]` the row an update has read
and the request it will apply. `serial` is what the rows would be had every
update run alone, `raced` the rows where updates overlapped. A budget's amount
passes through the column after it was found positive. An update of a category
that does not mention a parent clears it, since the handler takes a missing
`parent_id` for none.

## Runs

| run | shows |
|---|---|
| `ledger` | `Balanced`; `ReversalMirrors`; `AnswersAreTrue`; `AuditSound`; `ImplementsBook`, with every failure of every statement |
| `scheduler` | `NeverEarly`, `NothingSkipped`, `KeepsPace`, `DeletedStaysQuiet` and, under fairness, `DuePosted` and `Settles` for two replicas, a daily and a monthly schedule on 30 and 31 January 2024, one edit, one fault, and a schedule that can never be posted |
| `scheduler_two_replicas` | fails: `PostedOnce` |
| `import` | `EveryRowPosted`, `OwnRowsOnce`, `DuplicatesBounded` for three overlapping confirmations |
| `import_overlap` | fails: `ImportedOnce` |
| `migrations` | `RecordedIsApplied`, `ServesOnFullSchema`, `AllServe` for three replicas |
| `access` | `AtMostTwice`, `RefusedOnlyWhenFull`, `CanSignIn`, `TokensNameUsers`, `RefusedOnlyExpired`, `LogoutHolds`, for two tabs, four requests of two origins and a fault |
| `uploads` | `DatesAsWritten`, `AmountsAsWritten`, `NoneLeftOut`, `RightMappingReadsAll`, `TransactionsApart`, `ConfirmsThePreview`, `SamePreview`, over some ten thousand files |
| `listing` | `WalkShowsAll`, `RepeatsExplained`, `BalancesOfAMoment`, while three journals of two users begin and commit in any order |
| `reports` | `BalancesNetVoids`, `ReportsAddUp`, `ProfitIsGain`, `BreakdownMatchesBudget`, `PagesAreListing` |
| `reports_void` | fails: `VoidsAreNetted` |
| `catalog` | `LostOnlyToOverlap`, `CirclesAreMoved` |

A run that "fails" checks what the repository says of itself and finds it
violated; see [below](#where-the-code-departs-from-what-is-said-of-it). The type
invariants of Ledger, Scheduler, Import, Migrations and Access are theorems, as
is `InOrder` of Migrations, and are not checked again by a run.

### Bounds

- *Ledger*: two processes are enough for every pair of requests to overlap, and
  each handles any number of requests; three ids allow a journal, its reversal
  and another journal or reversal. The entry lists are a balanced one, one that
  rounding unbalances, an unbalanced template, one that overflows, and a single
  line. The theorems carry the safety properties to all sizes.
- *Scheduler*: the clock goes over two days: a daily schedule is due twice, once
  on time and once overdue, and goes beyond the clock. The two are 30 and 31
  January 2024 (`FirstTime`, `MaxTime`), the days a monthly run leaves for
  March. `MaxEdits` and `MaxFaults` bound what users and failures do: one of
  each meets a pass of each replica. `KeepsPace` looks ahead to the end of the
  calendar, seventeen months that hold a leap February and another one;
  `EveryDayIsOnPace` is for all calendars. `scheduler_two_replicas` needs no edit and
  no fault.
- *Import*: three confirmations (two could not tell "per confirmation" from
  "twice"), a file that repeats a row, one with a row that does not parse and
  one that overlaps with both; one fault.
- *Migrations*: three files and replicas, two faults: a replica can die while
  the second has lost its race to the third.
- *Access*: two tabs, so that a refresh overlaps with another, with a login and
  with a logout; four requests: the bound of the login limiter is three in a
  window's length, and a fourth could pass it; two origins, so that a request
  is counted with others or apart; one replica and one fault (a failed
  statement, a lost answer or a restart, after which the replica is like
  another one). One email, which two passwords compete for. Limits of 2 for
  login and 1 for registration, windows of 1 and a clock up to 2: a window ends
  and the next begins. An access token lives for 1 and a refresh token for 2, so that both
  expire. The proofs are for any number of replicas, origins and requests.
- *Uploads*: each family of files varies what one part of the parser looks at
  and keeps the rest plain: three dates in each of the formats, on days and
  months that can and cannot be swapped; amounts of every shape of digits and
  marks, in one column and in two; totals in the column of the dates whose
  numbers look like a day and month, like a month and day, or like neither;
  empty cells next to each other, with semicolons and with tabs; separators,
  lines before and after the
  table, titles that match no list, one or several; orders of columns and
  currencies; OFX files with fields in any state and a first transaction that
  lacks its end or its beginning. Each is previewed twice and confirmed.
- *Listing*: three journals on two days, so that two are in order and the third
  falls before, between or after them; pages of 2, so that a page can end
  within the entries of one journal; a purchase that two users share; one
  fault.
- *Reports*: three journals over three days in two months: a purchase, its void
  and one more. One account of each type that a query treats differently, one of
  another user, and a purchase that is paid in part from that one. The
  theorems are for books of any size and any number of users.
- *Catalog*: `MaxUpdates` 3: two that overlap and one before or after; two
  categories are the shortest circle that two updates close. The theorems are
  for any number of both.

### Fairness

Only `Scheduler` and `Migrations` have liveness properties. In `Scheduler`
every replica is weakly fair in `Pass`: Go runs a goroutine that can run, the
ticker fires every minute, a statement returns, and the Deployment starts a
container again that stopped. Nothing is assumed of users, of the clock or of
failures, which are bounded instead: a system that fails for ever posts
nothing. In `Migrations` every replica is weakly fair in `Run`, the restart
included, for the same reasons.

### Stopping

`CHECK_DEADLOCK FALSE` is set where a system may really stop: `Access` (all of
`MaxSent` requests are answered and the clock is at `MaxTime`), `Migrations`
(every replica serves and no fault is left), `Reports` (the book has
`MaxJournals` and the clock is at `MaxDay`), `Catalog` (`MaxUpdates` are done
and the pools of ids used up). The others check for deadlocks.

## Proofs

TLAPS proves, for all values of the constants that satisfy the `ASSUME`s:

| theorem | statement | argument |
|---|---|---|
| `SumNegate`, `NegateBalanced` (LedgerProofs) | the mirror of a list sums to the opposite; of a balanced one, to zero | partial sums as a function; a least counterexample instead of induction (`LeastNat`) |
| `LedgerTypes`, `LedgerBalanced`, `LedgerReversals`, `LedgerAnswers` | `TypeOK`, `Balanced`, `ReversalMirrors`, `AnswersAreTrue` always hold | `IInv` of LedgerProofs |
| `AuditStaysSound` | `AuditSound` | `Logs` of LedgerProofs, on `IInv` |
| `LedgerImplementsBook` | `Spec => ImplementsBook` | only `Commit` and `CommitUnknown` change the tables (`OnlyCommitsChangeTables`), and they add what `Book` allows |
| `NextRunIsLater`, `MonthlyStep` | the next run is later than the last; a monthly run falls on the same day of the next month, or, where that month is too short, in the first days of the one after | months as intervals that the first days part, lengths between `Shortest` and `Longest` |
| `EveryDayIsOnPace` | `OnPace = Days`: from any day the monthly runs ahead keep to their months | along the list of runs `MonthlyStep` leaves a month out once at most: from then on the day is one that every month has |
| `SchedulerTypes`, `SchedulerNeverEarly`, `SchedulerSkipsNothing`, `SchedulerDeletedStaysQuiet` | `TypeOK`, `NeverEarly`, `NothingSkipped`, `DeletedStaysQuiet` | `IInv` of SchedulerProofs, on `NextRunIsLater` |
| `ImportTypes`, `ImportLosesNoRow`, `ImportRepeatsOnFaultOnly`, `ImportDuplicatesBounded` | `TypeOK`, `EveryRowPosted`, `OwnRowsOnce`, `DuplicatesBounded` | `IInv` and `CountInv` of ImportProofs |
| `MigrationsTypes`, `MigrationsOnce`, `MigrationsInOrder`, `MigrationsBeforeServing` | `TypeOK`, `RecordedIsApplied`, `InOrder`, `ServesOnFullSchema` | `IInv` of MigrationsProofs |
| `UploadsConfirmsThePreview`, `UploadsSamePreview` | `ConfirmsThePreview`, `SamePreview`, for any set of files | the separator found in the preview is the one found in the confirmation, unless several tie (`SeparatorsAgree`) |
| `UploadsDatesAsWritten`, `UploadsNoneLeftOut` | `DatesAsWritten`, `NoneLeftOut`, for any files | plain titles give the columns of the file (`SuggestedReads`); the format found has the order of the file's (`OrderFound`), and accepts all its dates once their width is told (`WidthFound`) |
| `UploadsAmountsAsWritten`, `UploadsRightMapping` | `AmountsAsWritten`, `RightMappingReadsAll` | what a mapping with the right columns reads from a rectangular file (`FileRead`), on `ReadableIs` and `AmountIs` |
| `UploadsTransactionsApart` | `TransactionsApart` | the scanner after k lines holds the open transaction's fields and the rows of the closed ones (`ScanStep`) |
| `AccessTypes`, `AccessCanSignIn`, `AccessTokensNameUsers`, `AccessRefusedOnlyExpired`, `AccessLogoutHolds` | `TypeOK`, `CanSignIn`, `TokensNameUsers`, `RefusedOnlyExpired`, `LogoutHolds` | `IInv` of AccessProofs |
| `AccessRefusedOnlyWhenFull`, `AccessAtMostTwice` | `RefusedOnlyWhenFull`, `AtMostTwice` | `Windows` of AccessProofs, on `IInv` |
| `UpdatesLostOnlyToOverlap`, `CirclesComeFromUpdates` | `LostOnlyToOverlap`, `CirclesAreMoved` | `CatalogInv` of CatalogProofs |
| `ReportsFollowBook` | `Spec => B!Spec`: what the queries read behaves as the `Book` that Ledger implements | `WriteAdds`: a journal is added under the next place, the others stay |
| `ListingsComeInPages` | `PagesAreListing` | every selected journal has a position below the total (fewer than all are before it), and a position falls on one page |
| `ReportsAddUpAlways`, `BreakdownAndBudgetAgree` | `ReportsAddUp`, `BreakdownMatchesBudget` | sums by month are one sum over the rows of the range (`SumByPeriod`); rows of adjoining ranges are those of both; a month is all days from its first to its last |
| `BookInvariant`, `ProfitExplainsSheet`, `BalancesComeFromEntries` | `BookInv`, `ProfitIsGain`, `BalancesNetVoids` | all entries of a book sum to zero (`EntriesNet`); sums by account and by journal (`SumByGroup`); a reversal undoes the effect of its journal (`EffectUndone`) |
| `WalksShowAll`, `WalksRepeatTiesOnly` | `WalkShowsAll`, `RepeatsExplained` of Listing | `ListingInvariant`: what a journal of the first statement has been shown, against the slots the walk has passed |
| `AnswersAreBalances` | `BalancesOfAMoment` of Listing | `OverviewInvariant`: each balance read is that of a moment since the request began, and the moments never go back |

Few of the invariants are inductive as they stand; what is added:

- *Ledger*: `Balanced` says nothing of open transactions, and the commit of a
  void checks nothing. `Transactions` says of each that a process about to
  commit holds balanced rows, under an id that is in no table and no other
  transaction, and that a reversal to be holds the mirror of a committed
  journal of the same user; `Requests` says the same of a void that has read
  its journal. `Answered` ties what is answered to what is written. For the
  log, `Logs` counts rows still to come as well: a creation that is logged is
  not about to be logged again, and the voids logged of a journal and the
  reversals whose row is pending are together no more than its reversals.
- *Scheduler*: a copy in a pass was due when it was read (`Copies`), and the
  run of a copy about to be advanced has been posted (`Advancing`). Replicas
  move `next_run` back and forth as they write back copies of different passes,
  so `NothingSkipped` needs more than that: `Chain` says that since a user last
  wrote the row, it and the copies no older than that write stand on one chain
  of runs, each posted and leading to the next, up to one that is ahead of them
  all. Where an older copy is written back, the chain starts anew. `Dormant`
  says of a deleted schedule that was in nobody's hands that it still is not:
  it is inactive in the table and in no list of a pass.
- *Import*: recorded hashes have journals (`DedupPosted`), and `Good(p)` says
  what the loop has done for the rows it has passed. `CountInv` says of
  each hash that until it is recorded its journals are those somebody is still
  to record and those whose record was lost, and that journals and the
  processes about to create one stay within the bound together; once it is
  recorded, no process starts to create another.
- *Migrations*: a replica has passed recorded files only (`Passed`), and a file
  held by a transaction is unrecorded and held by no other (`Held`).
- *Uploads*: `ConfirmsThePreview` compares two answers without the file, and
  the other properties speak of rows without the mapping they were read with;
  `AnswerFromFile` and `ConfirmedFromFile` say how each came out of the file: at
  which separator, with which mapping, or from which rows shown before.
- *Access*: the browser receives what was decided earlier, so `Grounded` says of
  each request under way what it rests on: about to be given tokens, that its
  user exists (`Entitled`); with tokens, whose they are (`Issued`); refused, why
  (`Turned`); with a cookie, whose (`Carried`). All of it stays true because
  rows of `users` never change (`UsersStay`) and time only grows.
  `SentWithout` is what makes a logout hold: requests it did not overtake were
  sent without the cookie. `Windows` says of each window that its counter
  counts the last requests let through with its key, all since the window opened and the
  first at its opening; that the stretches of time that reach up to the opening
  had seen less than one window's worth of requests by then; and that no
  stretch has seen two, beyond what each earlier start of the replica adds.
- *Catalog*: `Fresh` says that the copy an update has read is the row as it is,
  unless the row is `raced`. `ParentsExist` is needed for the circles: a new
  category has a parent that is there before it, so it closes none.
- *Reports*: what the figures say of a book holds of any book with the types
  (`ReportsTypes`), except that profit explains the balance sheet when journals
  net to zero (`NetsZero`), over the accounts of all users, and balances net
  the voids when reversals are the mirrors of journals (`Mirrors`).
- *Listing*: `BegunInv` says that `created_at` tells journals apart. `WalkInv`
  says of every journal that had committed when the walk began that its rows
  have been shown at least as often as it has slots below the offset, in the
  listing as it is now, and exactly as often while nothing has committed since:
  a page shows the slots that it passes, and a commit moves those of others
  further on, never back. `OverviewInv` has a moment for every balance read (`Timed`).

The assumptions say of constants what the code grants: `NULL` is no value of a
table and no password, hashes are not the unparsable row, months follow each
other and their lengths are between `Shortest` and `Longest`, tokens live for
some time, bounds, the scale and the number of files are natural numbers; for
Reports and Listing, that `NULL` is no account and no number, that the pool of
ids is finite, that there are finitely many accounts, each with a type and an
owner, that entries
are lists of lines, that the month of a day is no later than that of a later
day, and that filters hold dates, categories and accounts. Of the files the
assumptions of Uploads say what makes them statements: a column has the dates
and one or two the amounts, the transactions stand on lines after each other,
each with a date in the file's own format, no line outside of them has a date,
the decimal mark of an amount in them comes last, and no line is empty, since
the reader skips those. How the file looks
otherwise, which titles it has and whether its lines are equally long, is left
open; the properties name what they need of it (`Orderly`, `BlanksKept`, `OrderTold`,
`WidthTold`, `AmountClear`).

A sum over a finite set is defined by recursion over its subsets, and the
library's induction on finite sets takes an operator as a parameter.
`SubsetInduction` replaces it: it is about a set of subsets, and proved from a
smallest set outside of it. What a sum adds up in which order then does not
matter (`SumRemove`), and the figures of Reports follow as equations of sums.

The parsers fold over lines and cells, and fold by recursion. `TableExists`
shows that such a recursion over 1 .. N has a solution, as a table over the
subsets of 1 .. N built one number after another (`UpTo`); `RunOfTable` reads
the table as a run, one step for each line, and an invariant of the run then
says what the fold has come to (`CountIsNumber`, `OfxRead`). `InOrderIs` does
for the rows of a file what `SumRemove` does for sums: numbers picked from a
set come in one order.

*Model-checked only*: the liveness properties, which are out of the prover's
reach (`DuePosted`, `Settles`, `AllServe`), and `KeepsPace`, which adds to the
theorem `EveryDayIsOnPace` only that the dates in the table are dates of the
calendar. Every other invariant and action property that a run finds to hold is
a theorem.

## Where the code departs from what is said of it

Shown by a run:

1. **Two replicas post a run twice** (`schedule_repo.go:45`): `ListDue` claims
   no row. `PostedOnce`.
2. **Overlapping confirmations import a row twice** (`import_service.go:62`):
   the lookup and the record are far apart and `ON CONFLICT DO NOTHING` hides
   it. `ImportedOnce`.
3. **A voided purchase counts twice in its budget** (`budget_repo.go:46`): what
   a budget has spent is the sum of the positive entries of its category, and in
   the reversal, which keeps the category, the account that was paid from has
   the positive one. `VoidsAreNetted`; the trace is a purchase of food from the
   bank and its void on the same day, both counted as spent.

Seen while modelling and described here. Where a property comes close, it says
what holds instead:

*Journals and schedules*

4. A journal can be voided twice (`ledger_repo.go:101`): a void looks whether
   its target is a reversal, never whether it has one.
   `BalancesNetVoids` counts the reversals.
5. A pass that read a schedule before it was deleted writes it back active
   (`scheduled_service.go:134`). `DeletedStaysQuiet` is about the schedules
   nobody held.
   In the same way it undoes any other change: when a user moves `next_run`, the
   frequency or the template while a pass holds the row, the pass writes its
   copy back, and the run that the user asked for may never be due nor posted.
   `repo.Update` (`schedule_repo.go:72`) has no condition that would notice, and
   no answer tells the user. `NothingSkipped` and `DuePosted` have
   this as an exception, `EditOverwritten` and `lost`.
6. A monthly schedule of the 31st moves to the 1st, 2nd or 3rd after the first
   month that is shorter, and stays there; that month has no run
   (`scheduled_service.go:155`, `AddDate`). `KeepsPace` bounds the shift.
7. The function `check_journal_balance` of migration 003 is attached to no
   table; the `SELECT SUM` in `CreateJournalEntry` is the only check, and
   voids have none.

*Reports and listings*

8. The balance sheet does not depend on its `as_of` (`report_repo.go:74`, in
   `Sheet`): entries of later journals are summed.
9. `net_worth` is assets minus liabilities (`report_repo.go:110`), where
   liabilities are sums of credits and so already negative.
10. `created_at` is the time at which a transaction began, and all entries of a
    journal share it (`ledger_repo.go:315`): a journal that commits late appears
    in the middle of a listing, and the order of an account's entries has ties.
    `RepeatsExplained` and `WalkShowsAll` say what a client still gets.
11. The dashboard shows zero for a balance that could not be read
    (`dashboard_handler.go:109`).

12. Profit and loss leaves the reversal of a journal out (`report_repo.go:28`):
    expenses sum positive entries, income negative ones, so a voided purchase
    stays an expense. No text says that it should not; `ProfitIsGain` is about
    the books without entries of the other sign.
13. Nobody checks that the accounts of a journal are the user's:
    `CreateJournalEntry` relies on the foreign key (`migrations/003:5`), and the
    queries filter in three ways (see [Postings](#modules)). A line on another
    user's account moves that user's balance sheet and profit and loss and not
    the balance shown with the account (`account_repo.go:116`), and the figures
    of the user who posted it no longer net to zero. `ProfitIsGain` and
    `BalancesOfAMoment` state the difference.

*Accounts, categories, budgets*

14. A category becomes its own ancestor by an update (`category_service.go:76`),
    although `domain/category.go:9` speaks of a classification of N levels.
    `CirclesAreMoved` says that only updates can do this.
15. A rename of a category that leaves out `parent_id` moves it to the top.
16. `initial_balance` of a new account is parsed and not used.
17. `ListWithProgress` takes a month and does not filter by it.
18. A positive budget amount below half the column's step is stored as 0
    (`budget_service.go:31`).

*Files of banks*

19. Rows of metadata and totals are said to be skipped (`csv_parser.go:84` and
    `:134`), but the reader fails on the whole file when their number of fields
    is not that of the first line; `NoneLeftOut` is about the files that are
    read at all.
20. The day and the month are told apart by a day after the 12th
    (`csv_parser.go:324`), but only among formats of padded dates; without
    padding, the first format that fits the first row is taken. And the text in
    that column is looked at whether it is a date or not (`csv_parser.go:348`):
    a total such as `Saldo: 1.234,56` splits into parts, of which the second is
    above 12, and turns a day-first file month-first. `OrderTold` names the
    files for which the reading is right.
21. Debits are said to be stored as negative (`csv_parser.go:226`); a debit
    column whose amounts have a sign of their own comes out positive.
22. `1,500` for fifteen hundred is read as one and a half, and so is `1.500`
    (`csv_parser.go:273`). A split amount that cannot be read counts as zero.
23. A file without titles loses its first row: it is taken for the titles.
    Columns titled "debit amount" and "credit amount" are both taken for the
    amount (`csv_parser.go:150`).
24. When separators tie in the first line, the order of a map decides
    (`csv_parser.go:296`). `SamePreview` excepts those files.
25. The preview shows every row in EUR, the confirmation uses the column of the
    currency. `ConfirmsThePreview` excepts the currency.

26. A file whose separator is the tab loses its empty fields: the reader trims
    leading space with `TrimLeadingSpace` (`csv_parser.go:53`, `:124`), and a tab
    is space. With an empty field in some of its lines such a file fails to be
    read; with one in all of them, columns move to the left and are read as
    others. `BlanksKept` is about the files without.

*Sessions*

27. An error of the database during login or refresh is answered 401
    (`auth_service.go:126`), which a browser takes for the end of the session.
    `RefusedOnlyExpired` has it as one of the reasons.
28. A refresh that was sent before a logout and answered after it sets the
    cookie again (`auth_handler.go:111`). `LogoutHolds` is about the others.
29. The limiters are said to be keyed by IP (`ratelimit.go:14`, `:64`), and
    `SHARED-CLAUDE.md:81` speaks of 5 logins in 15 minutes and 3 registrations
    in an hour. The key is the text of `X-Forwarded-For` where the request has
    one, and else `RemoteAddr`, which has the port of the connection
    (`ratelimit.go:68`); every replica counts alone, and a window's length that
    spans two windows sees up to one less than twice the limit. `AtMostTwice`
    and `RefusedOnlyWhenFull` are about one key at one replica.

## Not modelled

- Routing, JSON, parsing of parameters: a request that does not parse is refused
  before anything happens.
- `accounts.is_active`: no code clears it. Currencies: stored and returned, never
  computed with. Percentages and alerts of budgets and breakdowns.
- Users: Ledger, Access, Reports and Listing have several. Scheduler, Import and
  Catalog model one user's rows: their statements name the user, except
  `ListDue`, which serves all users alike and never relates one's rows to
  another's. That a category of a journal or budget is the user's own is not
  checked by the code either; Reports has the user's categories only.
- The text of migrations, beyond what they create.
- Encodings of files (byte order marks, Latin-1): the parser converts them
  before anything it decides. Hashes of passwords and rows, and signatures of
  tokens, are taken to be injective.
- CORS, logging and header middleware, configuration and the money types: they
  keep no state, and no other part's order depends on them.
- The graceful shutdown of `main.go`: it lets requests end that end by other
  actions too, and cuts off a pass, which is `Crash` of Scheduler.

## Plan

The core came first: Amounts, Book, Ledger and their proofs; then the
components where processes meet (Scheduler, Import, Migrations) with theirs;
then Reports and Catalog; then Calendar, Access with the limiter, the parsers
with Uploads, and Listing. What is left, in order:

1. Composition: Scheduler and Import on top of `Book` instead of counters of
   journals, with refinements that show their `posted` and `journals` are those
   of the book.
2. *Lifecycle*: the 30 seconds of the shutdown, as a bound on what a client can
   be left without an answer to.

Runs are kept few; as modules are added, runs that ask related questions are
joined.
