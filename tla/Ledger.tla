------------------------------- MODULE Ledger -------------------------------
(***************************************************************************)
(* The double-entry ledger: TransactionService on top of LedgerRepo.       *)
(*                                                                         *)
(* Every process is one execution of a handler, of the scheduler or of an  *)
(* import in some replica of the server; all of them share the tables.     *)
(* The rows a transaction has written are its own until it commits (tx),   *)
(* every step between two statements can be followed by the death of the   *)
(* replica, and every statement can fail.                                  *)
(***************************************************************************)
EXTENDS Amounts, FiniteSets

CONSTANTS Procs,       \* executions of requests, in all replicas
          Ids,         \* journal ids, a finite pool of uuids
          Users,       \* user ids
          EntryLists,  \* the entry lists requests and templates come with
          NULL         \* no value

ASSUME EntryListsAssumption == EntryLists \subseteq Seq(Lines)
VARIABLES
  journal_entries, \* id -> header row, or NULL
  entries,         \* id -> the rows of the journal, in the order inserted
  audit_log,       \* action -> id -> number of rows
  pc,              \* process -> the statement it executes next
  req,             \* process -> the request it executes
  tx,              \* process -> its open transaction, or NULL
  resp             \* process -> the answer to its last request

tables == <<journal_entries, entries>>
vars   == <<journal_entries, entries, audit_log, pc, req, tx, resp>>

Headers == [user : Users, of : Ids \cup {NULL}]  \* of # NULL: is_reversal
Ops     == {"create", "internal", "void"}
Steps   == {"idle", "insert", "check", "read", "insert_reversal", "commit", "audit"}
Status  == {"none", "done", "invalid", "unbalanced", "not_found", "error"}
Reqs    == [op : Ops, user : Users, target : Ids \cup {NULL}, lines : Seq(Lines)]
Txs     == [id : Ids, user : Users, of : Ids \cup {NULL}, rows : Seq(Lines)]
Answers == [status : Status, id : Ids \cup {NULL}]

\* NULL stands for SQL's null and for no row: it is no id and no row.
ASSUME NullAssumption ==
  /\ NULL \notin Ids /\ NULL \notin Headers /\ NULL \notin Txs
  /\ NULL \notin [user : Users, of : Ids \cup {NULL}, lines : Seq(Lines)]

TypeOK ==
  /\ journal_entries \in [Ids -> Headers \cup {NULL}]
  /\ entries \in [Ids -> Seq(Lines)]
  /\ audit_log \in [{"create", "void"} -> [Ids -> Nat]]
  /\ pc \in [Procs -> Steps]
  /\ req \in [Procs -> Reqs]
  /\ tx \in [Procs -> Txs \cup {NULL}]
  /\ resp \in [Procs -> Answers]

Committed(id)  == journal_entries[id] # NULL
IsReversal(id) == journal_entries[id].of # NULL

Init ==
  /\ journal_entries = [id \in Ids |-> NULL]
  /\ entries = [id \in Ids |-> << >>]
  /\ audit_log = [a \in {"create", "void"} |-> [id \in Ids |-> 0]]
  /\ pc = [p \in Procs |-> "idle"]
  /\ \E u \in Users :
       req = [p \in Procs |-> [op |-> "create", user |-> u, target |-> NULL,
                               lines |-> << >>]]
  /\ tx = [p \in Procs |-> NULL]
  /\ resp = [p \in Procs |-> [status |-> "none", id |-> NULL]]
-----------------------------------------------------------------------------
\* The request of p ends with this answer; an open transaction rolls back.
Answer(p, status, id) ==
  /\ pc' = [pc EXCEPT ![p] = "idle"]
  /\ tx' = [tx EXCEPT ![p] = NULL]
  /\ resp' = [resp EXCEPT ![p] = [status |-> status, id |-> id]]

Fail(p, status) == Answer(p, status, NULL) /\ UNCHANGED <<tables, audit_log, req>>

Receive(p, op, u, target, ls, step) ==
  /\ pc[p] = "idle"
  /\ req' = [req EXCEPT ![p] = [op |-> op, user |-> u, target |-> target, lines |-> ls]]
  /\ pc' = [pc EXCEPT ![p] = step]
  /\ resp' = [resp EXCEPT ![p] = [status |-> "none", id |-> NULL]]
  /\ UNCHANGED <<tables, audit_log, tx>>

\* TransactionService.Create lets a request through to the repository.
Create(p, u, ls) ==
  /\ IsBalanced(ls)
  /\ Receive(p, "create", u, NULL, ls, "insert")

\* TransactionService.Create refuses before it touches the database.
RefuseCreate(p, u, ls) ==
  /\ pc[p] = "idle"
  /\ ~ IsBalanced(ls)
  /\ req' = [req EXCEPT ![p] = [op |-> "create", user |-> u, target |-> NULL, lines |-> ls]]
  /\ Answer(p, IF Len(ls) < 2 THEN "invalid" ELSE "unbalanced", NULL)
  /\ UNCHANGED <<tables, audit_log>>

(* The scheduler and the import call CreateJournalEntry themselves: nothing
   but the number of entries was ever checked (ScheduledService.Create). *)
InternalPost(p, u, ls) ==
  /\ Len(ls) >= 2
  /\ Receive(p, "internal", u, NULL, ls, "insert")

\* TransactionService.Void, for any id a client may name.
Void(p, u, j) == Receive(p, "void", u, j, << >>, "read")
-----------------------------------------------------------------------------
\* uuid.New: an id that is neither in the table nor in an open transaction.
Fresh(id) == ~ Committed(id) /\ \A q \in Procs : tx[q] # NULL => tx[q].id # id

Begin(p, id, rows, step) ==
  /\ Fresh(id)
  /\ tx' = [tx EXCEPT ![p] = [id |-> id, user |-> req[p].user,
                              of |-> req[p].target, rows |-> rows]]
  /\ pc' = [pc EXCEPT ![p] = step]
  /\ UNCHANGED <<tables, audit_log, req, resp>>

\* CreateJournalEntry: the header and the rows, as the column stores them.
Insert(p, id) ==
  /\ pc[p] = "insert"
  /\ ~ Overflows(StoredLines(req[p].lines))
  /\ Begin(p, id, StoredLines(req[p].lines), "check")

InsertOverflow(p) ==
  /\ pc[p] = "insert"
  /\ Overflows(StoredLines(req[p].lines))
  /\ Fail(p, "error")

\* Mutant: the repository trusts the check of the application.
CheckNothing(p) ==
  /\ pc[p] = "check"
  /\ pc' = [pc EXCEPT ![p] = "commit"]
  /\ UNCHANGED <<tables, audit_log, req, tx, resp>>

\* SELECT SUM(amount): the stored rows, not the request, must balance.
CheckBalanced(p) ==
  /\ pc[p] = "check"
  /\ SumAmounts(tx[p].rows) = 0
  /\ pc' = [pc EXCEPT ![p] = "commit"]
  /\ UNCHANGED <<tables, audit_log, req, tx, resp>>

\* A sum that is not zero and a query that fails give the same answer.
CheckUnbalanced(p) == pc[p] = "check" /\ Fail(p, "unbalanced")

\* Mutants: a reversal is voided; the journal of another user is voided.
VoidReadReversal(p) ==
  LET j == req[p].target IN
  /\ pc[p] = "read"
  /\ Committed(j) /\ journal_entries[j].user = req[p].user
  /\ req' = [req EXCEPT ![p].lines = Negate(entries[j])]
  /\ pc' = [pc EXCEPT ![p] = "insert_reversal"]
  /\ UNCHANGED <<tables, audit_log, tx, resp>>

VoidReadAnyUser(p) ==
  LET j == req[p].target IN
  /\ pc[p] = "read"
  /\ Committed(j) /\ ~ IsReversal(j)
  /\ req' = [req EXCEPT ![p].lines = Negate(entries[j])]
  /\ pc' = [pc EXCEPT ![p] = "insert_reversal"]
  /\ UNCHANGED <<tables, audit_log, tx, resp>>

(* GetJournalEntry of the journal to void, another user's being as good as
   none.  Its two statements see the same journal, since a committed one
   never changes; they come in no order that matters (loadEntries has no
   ORDER BY), here the order inserted.  The signs are flipped on the way. *)
VoidRead(p) ==
  LET j == req[p].target IN
  /\ pc[p] = "read"
  /\ Committed(j) /\ journal_entries[j].user = req[p].user
  /\ ~ IsReversal(j)
  /\ req' = [req EXCEPT ![p].lines = Negate(entries[j])]
  /\ pc' = [pc EXCEPT ![p] = "insert_reversal"]
  /\ UNCHANGED <<tables, audit_log, tx, resp>>

VoidNotFound(p) ==
  LET j == req[p].target IN
  /\ pc[p] = "read"
  /\ Committed(j) => journal_entries[j].user # req[p].user
  /\ Fail(p, "not_found")

VoidReversal(p) ==
  LET j == req[p].target IN
  /\ pc[p] = "read"
  /\ Committed(j) /\ journal_entries[j].user = req[p].user
  /\ IsReversal(j)
  /\ Fail(p, "invalid")

(* VoidJournalEntry inserts amounts that came out of the column, so nothing
   is rounded or overflows; and it commits without asking for the sum. *)
VoidInsert(p, id) ==
  /\ pc[p] = "insert_reversal"
  /\ Begin(p, id, req[p].lines, "commit")

\* The rows of the transaction of p become the table's.
Apply(p) ==
  LET id == tx[p].id IN
  /\ journal_entries' = [journal_entries EXCEPT
                           ![id] = [user |-> tx[p].user, of |-> tx[p].of]]
  /\ entries' = [entries EXCEPT ![id] = tx[p].rows]

\* Mutant: the call of tx.Commit is forgotten, the deferred Rollback runs.
CommitForgotten(p) ==
  /\ pc[p] = "commit"
  /\ pc' = [pc EXCEPT ![p] = "audit"]
  /\ tx' = [tx EXCEPT ![p] = NULL]
  /\ resp' = [resp EXCEPT ![p].id = tx[p].id]
  /\ UNCHANGED <<tables, audit_log, req>>

Commit(p) ==
  /\ pc[p] = "commit"
  /\ Apply(p)
  /\ IF req[p].op = "internal"
     THEN Answer(p, "done", tx[p].id)
     ELSE /\ pc' = [pc EXCEPT ![p] = "audit"]
          /\ tx' = [tx EXCEPT ![p] = NULL]
          /\ resp' = [resp EXCEPT ![p].id = tx[p].id]
  /\ UNCHANGED <<audit_log, req>>

\* The commit takes effect and its acknowledgement is lost.
CommitUnknown(p) ==
  /\ pc[p] = "commit"
  /\ Apply(p)
  /\ Answer(p, "error", NULL)
  /\ UNCHANGED <<audit_log, req>>

\* Any other statement fails: the transaction, if there is one, rolls back.
DbError(p) ==
  /\ pc[p] \in {"insert", "read", "insert_reversal", "commit"}
  /\ Fail(p, "error")

\* Mutant: the audit row of a void names the reversal.
AuditReversal(p, logged) ==
  /\ pc[p] = "audit"
  /\ Answer(p, "done", resp[p].id)
  /\ audit_log' = IF logged THEN [audit_log EXCEPT ![req[p].op][resp[p].id] = @ + 1]
                  ELSE audit_log
  /\ UNCHANGED <<tables, req>>

(* The audit row is written after the commit, outside the transaction, and
   its error is dropped.  A void names the journal that was voided. *)
Audit(p, logged) ==
  /\ pc[p] = "audit"
  /\ Answer(p, "done", resp[p].id)
  /\ audit_log' =
       LET id == IF req[p].op = "void" THEN req[p].target ELSE resp[p].id
       IN  IF logged THEN [audit_log EXCEPT ![req[p].op][id] = @ + 1] ELSE audit_log
  /\ UNCHANGED <<tables, req>>

\* The replica dies: PostgreSQL rolls back, the client gets no answer.
Crash(p) == pc[p] # "idle" /\ Fail(p, "none")
-----------------------------------------------------------------------------
Request(p) == \E u \in Users :
                \/ \E ls \in EntryLists : \/ Create(p, u, ls)
                                          \/ RefuseCreate(p, u, ls)
                                          \/ InternalPost(p, u, ls)
                \/ \E j \in Ids : Void(p, u, j)

Step(p) == \/ \E id \in Ids : Insert(p, id) \/ VoidInsert(p, id)
           \/ InsertOverflow(p)
           \/ CheckBalanced(p) \/ CheckUnbalanced(p)
           \/ VoidRead(p) \/ VoidNotFound(p) \/ VoidReversal(p)
           \/ Commit(p) \/ CommitUnknown(p)
           \/ \E logged \in BOOLEAN : Audit(p, logged)

Fault(p) == DbError(p) \/ Crash(p)

Next == \E p \in Procs : Request(p) \/ Step(p) \/ Fault(p)

Spec == Init /\ [][Next]_vars
-----------------------------------------------------------------------------
(* Every committed journal has two entries or more and they sum to zero:
   "INVARIANT: sum(entries.amount) == 0 ALWAYS" (domain/journal_entry.go).
   Requests balance before the column rounds them, templates never did, and
   reversals are not checked at all. *)
Balanced == \A id \in Ids : Committed(id) => IsBalanced(entries[id])

(* A reversal is the exact mirror of a journal that the same user posted and
   that is not itself a reversal (VoidJournalEntry). *)
ReversalMirrors ==
  \A id \in Ids :
    Committed(id) /\ IsReversal(id) =>
      LET j == journal_entries[id].of IN
      /\ Committed(j) /\ ~ IsReversal(j)
      /\ journal_entries[j].user = journal_entries[id].user
      /\ entries[id] = Negate(entries[j])

(* A request answered with success has written one journal of its own, the
   one it asked for, with the rows the column makes of its entries; and it
   is in the table for good, whatever the other processes do. *)
Asked(p) == IF req[p].op = "void" THEN req[p].lines ELSE StoredLines(req[p].lines)
Done(p)  == resp[p].status = "done"

AnswersAreTrue ==
  \A p \in Procs : Done(p) =>
    /\ Committed(resp[p].id)
    /\ journal_entries[resp[p].id] = [user |-> req[p].user, of |-> req[p].target]
    /\ entries[resp[p].id] = Asked(p)
    /\ \A q \in Procs \ {p} : Done(q) => resp[q].id # resp[p].id

(* The audit log never records what did not happen: at most one creation for
   a journal that is committed and no reversal, and no more voids of a
   journal than it has reversals.  (It may record less: see Audit, Crash.) *)
Reversals(j) == {id \in Ids : Committed(id) /\ journal_entries[id].of = j}

AuditSound ==
  \A id \in Ids :
    /\ audit_log["create"][id] <= (IF Committed(id) /\ ~ IsReversal(id) THEN 1 ELSE 0)
    /\ audit_log["void"][id] <= Cardinality(Reversals(id))

(* The book: an id and the journal it names. *)
Journal(id) == IF Committed(id)
               THEN [user |-> journal_entries[id].user, of |-> journal_entries[id].of,
                     lines |-> entries[id]]
               ELSE NULL

(* The tables behave as a book to which balanced journals and mirrors of
   journals are added, one at a time, and which is never changed otherwise:
   "entries are NEVER deleted or updated - only reversed"
   (app/transaction_service.go). *)
B == INSTANCE Book WITH book <- [id \in Ids |-> Journal(id)]
ImplementsBook == B!Spec
=============================================================================
