---------------------------- MODULE CatalogProofs ----------------------------
(***************************************************************************)
(* What holds of any accounts, categories and budgets, however many        *)
(* requests write them next to each other: an update is lost only to       *)
(* another one that overlaps with it, and only updates close circles.      *)
(***************************************************************************)
EXTENDS Catalog, TLAPS

\* The rows, and the requests, of each of the three tables.
IsRow(id, row) ==
  /\ id \in Accounts => row \in AccountRows
  /\ id \in Categories => row \in CategoryRows
  /\ id \in Budgets => row \in BudgetRows

IsRequest(id, request) ==
  /\ id \in Accounts => request \in AccountRequests
  /\ id \in Categories => request \in CategoryRequests
  /\ id \in Budgets => request \in BudgetRequests

Rows     == AccountRows \cup CategoryRows \cup BudgetRows
Requests == AccountRequests \cup CategoryRequests \cup BudgetRequests
Updates  == [id : Ids, row : Rows, request : Requests]

\* An update is of a row that exists, and with a request of its table.
Held(w) == /\ w.id \in Existing
           /\ IsRow(w.id, w.row)
           /\ IsRequest(w.id, w.request)

\* The types that the rest relies on.
CatalogTypes ==
  /\ table \in [Ids -> Rows \cup {NULL}]
  /\ serial \in [Ids -> Rows \cup {NULL}]
  /\ work \in [Procs -> Updates \cup {NULL}]
  /\ \A id \in Existing : IsRow(id, table[id]) /\ IsRow(id, serial[id])
  /\ \A p \in Procs : work[p] # NULL => Held(work[p])

\* A copy is stale only when another update has written its row since.
Fresh == \A p \in Procs :
           work[p] # NULL /\ work[p].id \notin raced => work[p].row = table[work[p].id]

\* A parent is a category that exists.
ParentsExist == \A c \in Categories \cap Existing :
                  table[c].parent \in (Categories \cap Existing) \cup {NULL}

CatalogInv == /\ CatalogTypes
              /\ Fresh
              /\ LostOnlyToOverlap
              /\ ParentsExist
              /\ CirclesAreMoved
-----------------------------------------------------------------------------
(* A request makes of a row another row of the same table. *)
LEMMA MergeIsRow ==
  ASSUME NEW w \in Updates, NEW row, IsRow(w.id, row), IsRequest(w.id, w.request)
  PROVE  Merge(row, w) \in Rows /\ IsRow(w.id, Merge(row, w))
<1>1. w.id \in Ids /\ w.id \in Accounts \cup Categories \cup Budgets
  BY DEF Updates, Ids
<1>2. CASE w.id \in Accounts
  <2>1. w.id \notin Categories /\ w.id \notin Budgets
    BY <1>2, DisjointAssumption
  <2>2. Merge(row, w) = MergeAccount(row, w.request)
    BY <1>2, <2>1 DEF Merge
  <2>3. row \in AccountRows /\ w.request \in AccountRequests
    BY <1>2 DEF IsRow, IsRequest
  <2>4. MergeAccount(row, w.request) \in AccountRows
    BY <2>3 DEF MergeAccount, AccountRows, AccountRequests
  <2> QED  BY <2>1, <2>2, <2>4 DEF IsRow, Rows
<1>3. CASE w.id \in Categories
  <2>1. w.id \notin Accounts /\ w.id \notin Budgets
    BY <1>3, DisjointAssumption
  <2>2. Merge(row, w) = MergeCategory(row, w.request)
    BY <1>3, <2>1 DEF Merge
  <2>3. row \in CategoryRows /\ w.request \in CategoryRequests
    BY <1>3 DEF IsRow, IsRequest
  <2>4. MergeCategory(row, w.request) \in CategoryRows
    BY <2>3 DEF MergeCategory, CategoryRows, CategoryRequests
  <2> QED  BY <2>1, <2>2, <2>4 DEF IsRow, Rows
<1>4. CASE w.id \in Budgets
  <2>1. w.id \notin Accounts /\ w.id \notin Categories
    BY <1>4, DisjointAssumption
  <2>2. Merge(row, w) = MergeBudget(row, w.request)
    BY <1>4, <2>1 DEF Merge
  <2>3. row \in BudgetRows /\ w.request \in BudgetRequests
    BY <1>4 DEF IsRow, IsRequest
  <2>4. w.request.amount \in Amounts /\ w.request.alert_threshold_pct \in Int
    BY <2>3, ThresholdsAssumption DEF BudgetRequests
  <2> DEFINE amount == IF w.request.amount > 0 THEN Column[w.request.amount]
                                               ELSE row.amount
             pct == IF w.request.alert_threshold_pct > 0
                    THEN w.request.alert_threshold_pct ELSE row.alert_threshold_pct
  <2>5. /\ w.request.amount \in Int /\ Column[w.request.amount] \in Int
        /\ w.request.amount >= 0 => Column[w.request.amount] >= 0
    BY <2>4, ColumnAssumption
  <2>6. amount \in Nat
    BY <2>3, <2>5 DEF BudgetRows
  <2>7. pct \in Int \ {0}
    BY <2>3, <2>4 DEF BudgetRows
  <2>8. MergeBudget(row, w.request)
          = [row EXCEPT !.amount = amount, !.alert_threshold_pct = pct]
    BY DEF MergeBudget
  <2> HIDE DEF amount, pct
  <2>9. MergeBudget(row, w.request) \in BudgetRows
    BY <2>3, <2>6, <2>7, <2>8 DEF BudgetRows
  <2> QED  BY <2>1, <2>2, <2>9 DEF IsRow, Rows
<1> QED  BY <1>1, <1>2, <1>3, <1>4

(* The row of a new budget fits its table: an amount above zero is rounded to
   one that is not below it. *)
LEMMA NewBudgetIsRow ==
  ASSUME NEW c \in Categories, NEW m \in Months, NEW amount \in Amounts,
         NEW pct \in Thresholds, amount > 0
  PROVE  NewBudget(c, m, amount, pct) \in BudgetRows
<1>1. Column[amount] \in Nat /\ pct \in Int
  BY ColumnAssumption, ThresholdsAssumption
<1> QED  BY <1>1 DEF NewBudget, BudgetRows

(* What a new row of any table may be. *)
Fits(id, row) ==
  /\ row \in Rows /\ IsRow(id, row)
  /\ id \in Categories => row.parent \in Existing \cup {NULL}

\* A step is an insertion, or one of the statements of an update.
LEMMA StepCases ==
  ASSUME Next
  PROVE  \/ \E id \in Ids, row \in Rows : Fits(id, row) /\ Insert(id, row)
         \/ \E p \in Procs, id \in Ids, request \in Requests :
              IsRequest(id, request) /\ UpdateRead(p, id, request)
         \/ \E p \in Procs : UpdateWrite(p)
         \/ \E p \in Procs : UpdateFails(p)
<1> USE DisjointAssumption
<1>1. CASE \E a \in Accounts, label \in Labels, type \in Types :
             CreateAccount(a, label, type)
  <2>1. PICK a \in Accounts, label \in Labels, type \in Types :
          Insert(a, [label |-> label, type |-> type])
    BY <1>1 DEF CreateAccount
  <2>2. [label |-> label, type |-> type] \in AccountRows
    BY DEF AccountRows
  <2>3. a \in Ids /\ a \notin Categories /\ a \notin Budgets
    BY DEF Ids
  <2>4. Fits(a, [label |-> label, type |-> type])
    BY <2>2, <2>3 DEF Fits, IsRow, Rows
  <2> QED  BY <2>1, <2>3, <2>4 DEF Fits
<1>2. CASE \E c \in Categories, label \in Labels, parent \in Categories \cup {NULL} :
             CreateCategory(c, label, parent)
  <2>1. PICK c \in Categories, label \in Labels, parent \in Categories \cup {NULL} :
          /\ parent \in Existing \cup {NULL}
          /\ Insert(c, [label |-> label, parent |-> parent])
    BY <1>2 DEF CreateCategory
  <2>2. [label |-> label, parent |-> parent] \in CategoryRows
    BY DEF CategoryRows
  <2>3. c \in Ids /\ c \notin Accounts /\ c \notin Budgets
    BY DEF Ids
  <2>4. Fits(c, [label |-> label, parent |-> parent])
    BY <2>1, <2>2, <2>3 DEF Fits, IsRow, Rows
  <2> QED  BY <2>1, <2>3, <2>4 DEF Fits
<1>3. CASE \E b \in Budgets, c \in Categories, m \in Months, amount \in Amounts,
              pct \in Thresholds : CreateBudget(b, c, m, amount, pct)
  <2>1. PICK b \in Budgets, c \in Categories, m \in Months, amount \in Amounts,
             pct \in Thresholds :
          amount > 0 /\ Insert(b, NewBudget(c, m, amount, pct))
    BY <1>3 DEF CreateBudget
  <2>2. NewBudget(c, m, amount, pct) \in BudgetRows
    BY <2>1, NewBudgetIsRow
  <2>3. b \in Ids /\ b \notin Accounts /\ b \notin Categories
    BY DEF Ids
  <2>4. Fits(b, NewBudget(c, m, amount, pct))
    BY <2>2, <2>3 DEF Fits, IsRow, Rows
  <2> QED  BY <2>1, <2>3, <2>4 DEF Fits
<1>4. CASE \E p \in Procs : \E a \in Accounts, request \in AccountRequests :
             UpdateRead(p, a, request)
  BY <1>4 DEF Ids, Requests, IsRequest
<1>5. CASE \E p \in Procs : \E c \in Categories, request \in CategoryRequests :
             UpdateRead(p, c, request)
  BY <1>5 DEF Ids, Requests, IsRequest
<1>6. CASE \E p \in Procs : \E b \in Budgets, request \in BudgetRequests :
             UpdateRead(p, b, request)
  BY <1>6 DEF Ids, Requests, IsRequest
<1>7. CASE \E p \in Procs : UpdateWrite(p) \/ UpdateFails(p)
  BY <1>7
<1> QED  BY <1>1, <1>2, <1>3, <1>4, <1>5, <1>6, <1>7 DEF Next

LEMMA RowsAreNotNull == NULL \notin Rows /\ NULL \notin Categories
BY NullAssumption DEF Rows

(* Nothing is there at first. *)
LEMMA CatalogInit == Init => CatalogInv
<1> SUFFICES ASSUME Init PROVE CatalogInv
  OBVIOUS
<1>1. Existing = {}
  BY DEF Init, Existing
<1>2. CatalogTypes
  BY <1>1 DEF Init, CatalogTypes
<1> QED
  BY <1>1, <1>2 DEF Init, CatalogInv, Fresh, LostOnlyToOverlap, ParentsExist, CirclesAreMoved
-----------------------------------------------------------------------------
(* A new row is nobody's copy, and a new category nobody's parent: no update
   can hold it, and a circle through it was a circle without it. *)
LEMMA InsertKeeps ==
  ASSUME CatalogInv, NEW id \in Ids, NEW row \in Rows, Fits(id, row), Insert(id, row)
  PROVE  CatalogInv'
<1> USE DEF CatalogInv
<1>1. /\ id \notin Existing
      /\ table' = [table EXCEPT ![id] = row]
      /\ serial' = [serial EXCEPT ![id] = row]
      /\ work' = work /\ raced' = raced /\ moved' = moved
  BY DEF Insert
<1>2. /\ table'[id] = row /\ serial'[id] = row
      /\ \A x \in Ids \ {id} : table'[x] = table[x] /\ serial'[x] = serial[x]
  BY <1>1 DEF CatalogTypes
<1>3. Existing' = Existing \cup {id}
  BY <1>1, <1>2, RowsAreNotNull DEF Existing
<1>4. CatalogTypes'
  <2>1. table' \in [Ids -> Rows \cup {NULL}] /\ serial' \in [Ids -> Rows \cup {NULL}]
    BY <1>1 DEF CatalogTypes
  <2>2. ASSUME NEW x \in Existing'
        PROVE  IsRow(x, table'[x]) /\ IsRow(x, serial'[x])
    <3>1. CASE x = id
      BY <3>1, <1>2 DEF Fits
    <3>2. CASE x # id
      BY <3>2, <1>2, <1>3 DEF CatalogTypes, Existing
    <3> QED  BY <3>1, <3>2
  <2>3. \A p \in Procs : work'[p] # NULL => Held(work[p])'
    BY <1>1, <1>3 DEF CatalogTypes, Held, IsRow, IsRequest
  <2> QED  BY <1>1, <2>1, <2>2, <2>3 DEF CatalogTypes
<1>5. Fresh'
  <2> SUFFICES ASSUME NEW p \in Procs, work[p] # NULL, work[p].id \notin raced
               PROVE  work[p].row = table'[work[p].id]
    BY <1>1 DEF Fresh
  <2>1. work[p].id \in Existing /\ work[p].id \in Ids
    BY DEF CatalogTypes, Held, Existing
  <2> QED  BY <2>1, <1>1, <1>2 DEF Fresh
<1>6. LostOnlyToOverlap'
  BY <1>1, <1>2 DEF LostOnlyToOverlap
<1>7. ParentsExist'
  <2> SUFFICES ASSUME NEW c \in Categories, c \in Existing'
               PROVE  table'[c].parent \in (Categories \cap Existing') \cup {NULL}
    BY DEF ParentsExist
  <2>1. CASE c = id
    <3>1. row \in CategoryRows
      BY <2>1 DEF Fits, IsRow
    <3>2. row.parent \in Categories \cup {NULL}
      BY <3>1 DEF CategoryRows
    <3>3. row.parent \in Existing \cup {NULL}
      BY <2>1 DEF Fits
    <3> QED  BY <2>1, <3>2, <3>3, <1>2, <1>3
  <2>2. CASE c # id
    BY <2>2, <1>2, <1>3 DEF ParentsExist, Existing
  <2> QED  BY <2>1, <2>2
<1>8. CirclesAreMoved'
  <2> SUFFICES ASSUME NEW circle \in SUBSET (Categories \cap Existing'),
                      circle # {},
                      \A c \in circle : table'[c].parent \in circle
               PROVE  circle \cap moved # {}
    BY <1>1 DEF CirclesAreMoved
  <2>1. \A c \in circle \ {id} : /\ c \in Categories \cap Existing
                                 /\ table'[c].parent = table[c].parent
    BY <1>2, <1>3 DEF Existing
  <2>2. CASE id \notin circle
    BY <2>1, <2>2 DEF CirclesAreMoved
  <2>3. CASE id \in circle
    <3>1. id \in Categories /\ row.parent \in circle
      BY <2>3, <1>2
    <3>2. row.parent # id /\ row.parent \in circle \ {id}
      BY <3>1, <1>1, RowsAreNotNull DEF Fits
    <3>3. \A c \in circle \ {id} : table[c].parent # id
      BY <2>1, <1>1, <3>1, RowsAreNotNull DEF ParentsExist
    <3>4. \A c \in circle \ {id} : table[c].parent \in circle \ {id}
      BY <2>1, <3>3
    <3> QED  BY <2>1, <3>2, <3>4 DEF CirclesAreMoved
  <2> QED  BY <2>2, <2>3
<1> QED  BY <1>4, <1>5, <1>6, <1>7, <1>8

(* The first statement of an update takes the row as it is. *)
LEMMA ReadKeeps ==
  ASSUME CatalogInv, NEW p \in Procs, NEW id \in Ids, NEW request \in Requests,
         IsRequest(id, request), UpdateRead(p, id, request)
  PROVE  CatalogInv'
<1> USE DEF CatalogInv
<1> DEFINE w == [id |-> id, row |-> table[id], request |-> request]
<1>1. /\ id \in Existing /\ work' = [work EXCEPT ![p] = w]
      /\ table' = table /\ serial' = serial /\ raced' = raced /\ moved' = moved
      /\ Existing' = Existing
  BY DEF UpdateRead, Existing
<1>2. w \in Updates
  BY <1>1 DEF Updates, CatalogTypes, Existing
<1>3. Held(w)
  BY <1>1 DEF Held, CatalogTypes
<1>4. w.id = id /\ w.row = table[id]
  OBVIOUS
<1> HIDE DEF w
<1>5. work'[p] = w /\ \A q \in Procs \ {p} : work'[q] = work[q]
  BY <1>1 DEF CatalogTypes
<1>6. CatalogTypes'
  <2>1. \A q \in Procs : work'[q] # NULL => Held(work'[q])
    BY <1>3, <1>5 DEF CatalogTypes
  <2>2. \A q \in Procs : (work[q] # NULL => Held(work[q]))'
    BY <2>1, <1>1 DEF Held, IsRow, IsRequest
  <2>3. work' \in [Procs -> Updates \cup {NULL}]
    BY <1>1, <1>2 DEF CatalogTypes
  <2>4. \A x \in Existing' : IsRow(x, table'[x]) /\ IsRow(x, serial'[x])
    BY <1>1 DEF CatalogTypes
  <2> QED  BY <1>1, <2>2, <2>3, <2>4 DEF CatalogTypes
<1>7. Fresh'
  BY <1>1, <1>4, <1>5 DEF Fresh
<1>8. LostOnlyToOverlap' /\ ParentsExist' /\ CirclesAreMoved'
  BY <1>1 DEF LostOnlyToOverlap, ParentsExist, CirclesAreMoved
<1> QED  BY <1>6, <1>7, <1>8

(* An update that ends without a write leaves everything as it was. *)
LEMMA FailureKeeps ==
  ASSUME CatalogInv, NEW p \in Procs, UpdateFails(p)
  PROVE  CatalogInv'
<1> USE DEF CatalogInv
<1>1. /\ work' = [work EXCEPT ![p] = NULL] /\ Existing' = Existing
      /\ table' = table /\ serial' = serial /\ raced' = raced /\ moved' = moved
  BY DEF UpdateFails, Existing
<1>2. work'[p] = NULL /\ \A q \in Procs \ {p} : work'[q] = work[q]
  BY <1>1 DEF CatalogTypes
<1>3. CatalogTypes'
  <2>1. \A q \in Procs : work'[q] # NULL => Held(work'[q])
    BY <1>2 DEF CatalogTypes
  <2>2. \A q \in Procs : (work[q] # NULL => Held(work[q]))'
    BY <2>1, <1>1 DEF Held, IsRow, IsRequest
  <2>3. work' \in [Procs -> Updates \cup {NULL}]
    BY <1>1 DEF CatalogTypes
  <2>4. \A x \in Existing' : IsRow(x, table'[x]) /\ IsRow(x, serial'[x])
    BY <1>1 DEF CatalogTypes
  <2> QED  BY <1>1, <2>2, <2>3, <2>4 DEF CatalogTypes
<1>4. Fresh'
  BY <1>1, <1>2 DEF Fresh
<1>5. LostOnlyToOverlap' /\ ParentsExist' /\ CirclesAreMoved'
  BY <1>1 DEF LostOnlyToOverlap, ParentsExist, CirclesAreMoved
<1> QED  BY <1>3, <1>4, <1>5

(* The second statement of an update.  Whoever else holds a copy of the row
   makes it raced; the copy of an update whose row is not raced is the row, so
   merging into the copy is merging into the row.  A circle this closes goes
   through the row, which is moved. *)
LEMMA WriteKeeps ==
  ASSUME CatalogInv, NEW p \in Procs, UpdateWrite(p)
  PROVE  CatalogInv'
<1> USE DEF CatalogInv
<1> DEFINE w == work[p]
           id == w.id
           row == Merge(w.row, w)
           past == Merge(serial[id], w)
<1>1. /\ w # NULL /\ w \in Updates /\ Held(w)
  BY DEF UpdateWrite, CatalogTypes
<1>2. /\ id \in Existing /\ id \in Ids /\ IsRow(id, w.row) /\ IsRequest(id, w.request)
  BY <1>1 DEF Held, Existing
<1>3. row \in Rows /\ IsRow(id, row)
  BY <1>1, <1>2, MergeIsRow
<1>4. past \in Rows /\ IsRow(id, past)
  BY <1>1, <1>2, MergeIsRow DEF CatalogTypes
<1>5. /\ id \in Categories => w.request.parent \in Existing \cup {NULL}
      /\ table' = [table EXCEPT ![id] = row]
      /\ serial' = [serial EXCEPT ![id] = past]
      /\ raced' = IF Others(p, id) = {} THEN raced ELSE raced \cup {id}
      /\ moved' = moved \cup ({id} \cap Categories)
      /\ work' = [work EXCEPT ![p] = NULL]
  BY DEF UpdateWrite, Write
<1>6. id \in Categories => row.parent = w.request.parent
  BY DisjointAssumption DEF Merge, MergeCategory
<1>7. id \notin raced => w.row = table[id]
  BY <1>1 DEF Fresh
<1>8. id \notin raced => row = past
  BY <1>2, <1>7 DEF LostOnlyToOverlap
<1> HIDE DEF row, past
<1>9. /\ table'[id] = row /\ serial'[id] = past
      /\ \A x \in Ids \ {id} : table'[x] = table[x] /\ serial'[x] = serial[x]
  BY <1>2, <1>5 DEF CatalogTypes
<1>10. Existing' = Existing
  BY <1>2, <1>3, <1>9, RowsAreNotNull DEF Existing
<1>11. work'[p] = NULL /\ \A q \in Procs \ {p} : work'[q] = work[q]
  BY <1>5 DEF CatalogTypes
<1>12. CatalogTypes'
  <2>1. \A q \in Procs : work'[q] # NULL => Held(work'[q])
    BY <1>11 DEF CatalogTypes
  <2>2. \A q \in Procs : (work[q] # NULL => Held(work[q]))'
    BY <2>1, <1>10 DEF Held, IsRow, IsRequest
  <2>3. work' \in [Procs -> Updates \cup {NULL}]
    BY <1>5 DEF CatalogTypes
  <2>4. table' \in [Ids -> Rows \cup {NULL}] /\ serial' \in [Ids -> Rows \cup {NULL}]
    BY <1>3, <1>4, <1>5 DEF CatalogTypes
  <2>5. ASSUME NEW x \in Existing'
        PROVE  IsRow(x, table'[x]) /\ IsRow(x, serial'[x])
    <3>1. CASE x = id
      BY <3>1, <1>3, <1>4, <1>9
    <3>2. CASE x # id
      BY <3>2, <1>9, <1>10 DEF CatalogTypes, Existing
    <3> QED  BY <3>1, <3>2
  <2> QED  BY <2>2, <2>3, <2>4, <2>5 DEF CatalogTypes
<1>13. Fresh'
  <2> SUFFICES ASSUME NEW q \in Procs, work'[q] # NULL, work'[q].id \notin raced'
               PROVE  work'[q].row = table'[work'[q].id]
    BY DEF Fresh
  <2>1. q # p /\ work'[q] = work[q]
    BY <1>11
  <2>2. work[q].id \in Ids /\ work[q].id \notin raced
    BY <1>5, <2>1 DEF CatalogTypes, Held, Existing
  <2>3. work[q].id # id
    <3> SUFFICES ASSUME work[q].id = id PROVE FALSE
      OBVIOUS
    <3>1. q \in Others(p, id)
      BY <2>1 DEF Others
    <3> QED  BY <3>1, <1>5, <2>1
  <2> QED  BY <2>1, <2>2, <2>3, <1>9 DEF Fresh
<1>14. LostOnlyToOverlap'
  <2>1. raced \subseteq raced'
    BY <1>5
  <2> QED  BY <2>1, <1>8, <1>9 DEF LostOnlyToOverlap
<1>15. ParentsExist'
  <2> SUFFICES ASSUME NEW c \in Categories, c \in Existing
               PROVE  table'[c].parent \in (Categories \cap Existing) \cup {NULL}
    BY <1>10 DEF ParentsExist
  <2>1. CASE c = id
    <3>1. row \in CategoryRows
      BY <2>1, <1>3 DEF IsRow
    <3>2. row.parent \in Categories \cup {NULL}
      BY <3>1 DEF CategoryRows
    <3> QED  BY <2>1, <3>2, <1>5, <1>6, <1>9
  <2>2. CASE c # id
    BY <2>2, <1>9 DEF ParentsExist, Existing
  <2> QED  BY <2>1, <2>2
<1>16. CirclesAreMoved'
  <2> SUFFICES ASSUME NEW circle \in SUBSET (Categories \cap Existing),
                      circle # {},
                      \A c \in circle : table'[c].parent \in circle
               PROVE  circle \cap moved' # {}
    BY <1>10 DEF CirclesAreMoved
  <2>1. CASE id \in circle
    BY <2>1, <1>5
  <2>2. CASE id \notin circle
    <3>1. \A c \in circle : table[c].parent \in circle
      BY <2>2, <1>9 DEF Existing
    <3> QED  BY <3>1, <1>5 DEF CirclesAreMoved
  <2> QED  BY <2>1, <2>2
<1> QED  BY <1>12, <1>13, <1>14, <1>15, <1>16
-----------------------------------------------------------------------------
(* Rows and requests stay those of their tables, copies go stale only by a
   race, and parents exist. *)
THEOREM CatalogInvariant == Spec => []CatalogInv
<1>1. ASSUME CatalogInv, [Next]_vars PROVE CatalogInv'
  <2>1. CASE Next
    BY <2>1, <1>1, StepCases, InsertKeeps, ReadKeeps, WriteKeeps, FailureKeeps
  <2>2. CASE UNCHANGED vars
    BY <2>2, <1>1 DEF vars, CatalogInv, CatalogTypes, Fresh, LostOnlyToOverlap, ParentsExist,
                      CirclesAreMoved, Existing, Held, IsRow, IsRequest
  <2> QED  BY <1>1, <2>1, <2>2
<1> QED  BY CatalogInit, <1>1, PTL DEF Spec

(* However many requests update the rows next to each other, a row that no
   two updates overlapped on is what its requests make of it one after the
   other (Update of AccountService, CategoryService and BudgetService). *)
THEOREM UpdatesLostOnlyToOverlap == Spec => []LostOnlyToOverlap
<1>1. CatalogInv => LostOnlyToOverlap
  BY DEF CatalogInv
<1> QED  BY CatalogInvariant, <1>1, PTL

(* However many categories there are, a circle of parents of any length has
   been closed by an update: creating categories closes none
   (CategoryService.Create and Update). *)
THEOREM CirclesComeFromUpdates == Spec => []CirclesAreMoved
<1>1. CatalogInv => CirclesAreMoved
  BY DEF CatalogInv
<1> QED  BY CatalogInvariant, <1>1, PTL
=============================================================================
