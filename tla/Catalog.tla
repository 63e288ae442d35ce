------------------------------ MODULE Catalog ------------------------------
(***************************************************************************)
(* The accounts, categories and budgets of one user.  A row is created by  *)
(* one statement; an update reads the row, changes the fields the request  *)
(* names in its copy and writes all of them back.  Requests run side by    *)
(* side, and nothing keeps two updates of one row apart.                   *)
(***************************************************************************)
EXTENDS Integers

CONSTANTS Procs,       \* executions of requests, in all replicas
          Accounts, Categories, Budgets,  \* finite pools of uuids
          Labels,      \* the names and icons requests come with
          Types,       \* the account types of the enum
          Months,      \* first days of months
          Amounts,     \* the amounts requests come with, 0 for none
          Column,      \* amount -> what NUMERIC(19,4) keeps of it
          Thresholds,  \* the thresholds requests come with, 0 for none
          MaxUpdates,  \* bound: updates that have read their row
          NULL         \* no value

ASSUME DisjointAssumption ==
  Accounts \cap (Categories \cup Budgets) = {} /\ Categories \cap Budgets = {}
ASSUME ThresholdsAssumption == Thresholds \subseteq Int
ASSUME ColumnAssumption ==
  /\ Amounts \subseteq Int
  /\ Column \in [Amounts -> Int]
  /\ \A a \in Amounts : a >= 0 => Column[a] >= 0

Ids == Accounts \cup Categories \cup Budgets

AccountRows  == [label : Labels, type : Types]
CategoryRows == [label : Labels, parent : Categories \cup {NULL}]
BudgetRows   == [category : Categories, month : Months, amount : Nat,
                 alert_threshold_pct : Int \ {0}]

AccountRequests  == [label : Labels \cup {NULL}]
CategoryRequests == [label : Labels \cup {NULL}, parent : Categories \cup {NULL}]
BudgetRequests   == [amount : Amounts, alert_threshold_pct : Thresholds]

ASSUME NullAssumption ==
  NULL \notin Categories \cup Labels \cup AccountRows \cup CategoryRows \cup BudgetRows

VARIABLES
  table,   \* accounts, categories and budgets: id -> row, or NULL
  work,    \* process -> the update it has read the row for, or NULL
  updates, \* updates so far
  serial,  \* history: the rows, had every update run on its own
  raced,   \* history: rows written while another update held a copy
  moved    \* history: categories whose parent an update has set

vars == <<table, work, updates, serial, raced, moved>>

Init ==
  /\ table = [id \in Ids |-> NULL]
  /\ work = [p \in Procs |-> NULL]
  /\ serial = [id \in Ids |-> NULL]
  /\ updates = 0 /\ raced = {} /\ moved = {}
-----------------------------------------------------------------------------
Existing == {id \in Ids : table[id] # NULL}

Insert(id, row) ==
  /\ id \notin Existing
  /\ table' = [table EXCEPT ![id] = row]
  /\ serial' = [serial EXCEPT ![id] = row]
  /\ UNCHANGED <<work, updates, raced, moved>>

\* AccountService.Create; the audit row that follows may fail unnoticed.
CreateAccount(a, label, type) == Insert(a, [label |-> label, type |-> type])

\* Mutant: no foreign key on parent_id.
CreateOrphan(c, label, parent) == Insert(c, [label |-> label, parent |-> parent])

\* CategoryService.Create; the foreign key wants the parent to exist.
CreateCategory(c, label, parent) ==
  /\ parent \in Existing \cup {NULL}
  /\ Insert(c, [label |-> label, parent |-> parent])

\* The row of a new budget: the column rounds the amount, 80 is the default.
NewBudget(c, m, amount, pct) ==
  [category |-> c, month |-> m, amount |-> Column[amount],
   alert_threshold_pct |-> IF pct = 0 THEN 80 ELSE pct]

\* BudgetService.Create; a second budget for the month is a conflict.
CreateBudget(b, c, m, amount, pct) ==
  /\ amount > 0 /\ c \in Existing
  /\ \A x \in Budgets \cap Existing : table[x].category # c \/ table[x].month # m
  /\ Insert(b, NewBudget(c, m, amount, pct))

\* Update, first statement: the row as it is now.  None: "not found".
UpdateRead(p, id, request) ==
  /\ updates < MaxUpdates /\ updates' = updates + 1
  /\ work[p] = NULL /\ id \in Existing
  /\ work' = [work EXCEPT ![p] = [id |-> id, row |-> table[id], request |-> request]]
  /\ UNCHANGED <<table, serial, raced, moved>>

MergeAccount(row, request) ==
  [row EXCEPT !.label = IF request.label = NULL THEN @ ELSE request.label]

\* The fields the request names; the parent is always named, NULL for none.
MergeCategory(row, request) ==
  [label  |-> IF request.label = NULL THEN row.label ELSE request.label,
   parent |-> request.parent]

MergeBudget(row, request) ==
  [row EXCEPT
     !.amount = IF request.amount > 0 THEN Column[request.amount] ELSE @,
     !.alert_threshold_pct =
        IF request.alert_threshold_pct > 0 THEN request.alert_threshold_pct ELSE @]

Merge(row, w) == CASE w.id \in Accounts   -> MergeAccount(row, w.request)
                   [] w.id \in Categories -> MergeCategory(row, w.request)
                   [] w.id \in Budgets    -> MergeBudget(row, w.request)

Others(p, id) == {q \in Procs \ {p} : work[q] # NULL /\ work[q].id = id}

Write(p, row) ==
  LET w == work[p] IN
  /\ w.id \in Categories => w.request.parent \in Existing \cup {NULL}
  /\ table' = [table EXCEPT ![w.id] = row]
  /\ serial' = [serial EXCEPT ![w.id] = Merge(@, w)]
  /\ raced' = IF Others(p, w.id) = {} THEN raced ELSE raced \cup {w.id}
  /\ moved' = moved \cup ({w.id} \cap Categories)
  /\ work' = [work EXCEPT ![p] = NULL]
  /\ UNCHANGED updates

\* Mutant: the fields are set in a copy that is not the one written.
UpdateWriteUnmerged(p) == work[p] # NULL /\ Write(p, work[p].row)

\* Update, second statement: the merged copy replaces the row.
UpdateWrite(p) == work[p] # NULL /\ Write(p, Merge(work[p].row, work[p]))

\* A statement fails, the parent does not exist, or the replica dies.
UpdateFails(p) ==
  /\ work[p] # NULL
  /\ work' = [work EXCEPT ![p] = NULL]
  /\ UNCHANGED <<table, updates, serial, raced, moved>>
-----------------------------------------------------------------------------
Next ==
  \/ \E a \in Accounts, label \in Labels, type \in Types : CreateAccount(a, label, type)
  \/ \E c \in Categories, label \in Labels, parent \in Categories \cup {NULL} :
       CreateCategory(c, label, parent)
  \/ \E b \in Budgets, c \in Categories, m \in Months, amount \in Amounts,
        pct \in Thresholds : CreateBudget(b, c, m, amount, pct)
  \/ \E p \in Procs :
       \/ \E a \in Accounts, request \in AccountRequests : UpdateRead(p, a, request)
       \/ \E c \in Categories, request \in CategoryRequests : UpdateRead(p, c, request)
       \/ \E b \in Budgets, request \in BudgetRequests : UpdateRead(p, b, request)
       \/ UpdateWrite(p) \/ UpdateFails(p)

Spec == Init /\ [][Next]_vars
-----------------------------------------------------------------------------
(* An update is lost only to another update of the same row that overlaps
   with it: a row no two updates overlapped on is what its requests make of
   it one after the other, failed ones left out (Update: read, merge, write
   all columns). *)
LostOnlyToOverlap == \A id \in Ids \ raced : table[id] = serial[id]

(* Creating categories never closes a circle of parents; an update may (it
   takes any parent, the category itself or one below it included). *)
CirclesAreMoved ==
  \A circle \in SUBSET (Categories \cap Existing) :
    circle # {} /\ (\A c \in circle : table[c].parent \in circle) =>
      circle \cap moved # {}
=============================================================================
