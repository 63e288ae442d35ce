---------------------------- MODULE LedgerProofs ----------------------------
(***************************************************************************)
(* Balanced, ReversalMirrors, AnswersAreTrue and AuditSound hold in every  *)
(* state of Ledger, and Ledger implements Book, for every set of           *)
(* processes, ids, users and entry lists.                                  *)
(*                                                                         *)
(* First, facts about the operators of Amounts.  The sum of a journal is   *)
(* defined by a recursive function, so its facts are proved by induction   *)
(* on the length of a prefix; the induction is an appeal to the least      *)
(* element of the set of counterexamples (WFMin).                          *)
(***************************************************************************)
EXTENDS Ledger, FiniteSetTheorems, TLAPS

\* A non-empty set of naturals has a least element.
LEMMA LeastNat ==
  ASSUME NEW T \in SUBSET Nat, T # {}
  PROVE  \E m \in T : \A k \in T : m <= k
<1>1. PICK m \in T : \A k \in T : ~ (<<k, m>> \in OpToRel(<, Nat))
  BY NatLessThanWellFounded, WFMin
<1>2. \A k \in T : ~ (k < m)
  <2>1. SUFFICES ASSUME NEW k \in T, k < m PROVE <<k, m>> \in OpToRel(<, Nat)
    BY <1>1
  <2>2. <<k, m>> \in Nat \X Nat /\ <<k, m>>[1] < <<k, m>>[2]  BY <2>1
  <2>. QED  BY <2>2, Zenon DEF OpToRel
<1>. QED  BY <1>2

\* f lists the partial sums of ls up to the prefix of length n.
PartialSums(ls, n, f) ==
  f = [i \in 0 .. n |-> IF i = 0 THEN 0 ELSE f[i - 1] + ls[i].amount]

\* Every prefix of a sequence of lines has its table of partial sums.
LEMMA PartialSumsExist ==
  ASSUME NEW ls \in Seq(Lines)
  PROVE  \E f : PartialSums(ls, Len(ls), f)
<1>. DEFINE T == {n \in Nat : ~ \E f : PartialSums(ls, n, f)}
<1>1. SUFFICES T = {}
  <2>1. Len(ls) \in Nat  OBVIOUS
  <2>. QED  BY <2>1
<1>2. SUFFICES ASSUME T # {} PROVE FALSE  OBVIOUS
<1>3. PICK m \in T : \A k \in T : m <= k  BY <1>2, LeastNat
<1>4. m # 0
  <2>1. PartialSums(ls, 0, [i \in 0 .. 0 |-> 0])  BY DEF PartialSums
  <2>. QED  BY <2>1, <1>3
<1>5. m \in Nat /\ m - 1 \in Nat /\ m - 1 \notin T  BY <1>3, <1>4
<1>6. PICK g : PartialSums(ls, m - 1, g)  BY <1>5
<1>. DEFINE h == [i \in 0 .. m |->
                    IF i = m THEN g[m - 1] + ls[m].amount ELSE g[i]]
<1>7. PartialSums(ls, m, h)
  <2>1. \A i \in 0 .. m : h[i] = IF i = 0 THEN 0 ELSE h[i - 1] + ls[i].amount
    <3>. SUFFICES ASSUME NEW i \in 0 .. m
                  PROVE  h[i] = IF i = 0 THEN 0 ELSE h[i - 1] + ls[i].amount
      OBVIOUS
    <3>0. \A j \in 0 .. (m - 1) :
            g[j] = IF j = 0 THEN 0 ELSE g[j - 1] + ls[j].amount
      BY <1>6 DEF PartialSums
    <3>1. CASE i = m  BY <3>1, <1>5, <1>4
    <3>2. CASE i # m
      <4>1. i \in 0 .. (m - 1) /\ i - 1 # m  BY <3>2, <1>5
      <4>. QED  BY <4>1, <3>0, <1>5
    <3>. QED  BY <3>1, <3>2
  <2>2. h = [i \in 0 .. m |-> h[i]]  OBVIOUS
  <2>. HIDE DEF h
  <2>. QED  BY <2>1, <2>2 DEF PartialSums
<1>. QED  BY <1>3, <1>7

\* SumAmounts is the last of the partial sums.
LEMMA SumIsPartialSum ==
  ASSUME NEW ls \in Seq(Lines)
  PROVE  \E f : PartialSums(ls, Len(ls), f) /\ SumAmounts(ls) = f[Len(ls)]
<1>. DEFINE P(f) == f = [i \in 0 .. Len(ls) |->
                           IF i = 0 THEN 0 ELSE f[i - 1] + ls[i].amount]
            s == CHOOSE f : P(f)
<1>1. \E f : P(f)  BY PartialSumsExist DEF PartialSums
<1>2. P(s)  BY <1>1, Zenon
<1>3. SumAmounts(ls) = s[Len(ls)]  BY Zenon DEF SumAmounts
<1>. QED  BY <1>2, <1>3, Zenon DEF PartialSums

\* The sum of lines is an integer.
LEMMA SumAmountsType ==
  ASSUME NEW ls \in Seq(Lines)
  PROVE  SumAmounts(ls) \in Int
<1>1. PICK f : PartialSums(ls, Len(ls), f) /\ SumAmounts(ls) = f[Len(ls)]
  BY SumIsPartialSum
<1>. DEFINE T == {n \in Nat : n <= Len(ls) /\ f[n] \notin Int}
<1>0. Len(ls) \in Nat  OBVIOUS
<1>a. \A i \in 0 .. Len(ls) :
        f[i] = IF i = 0 THEN 0 ELSE f[i - 1] + ls[i].amount
  BY <1>1 DEF PartialSums
<1>2. SUFFICES ASSUME T # {} PROVE FALSE  BY <1>0, <1>1
<1>3. PICK m \in T : \A k \in T : m <= k  BY <1>2, LeastNat
<1>4. m # 0 /\ m \in 1 .. Len(ls)  BY <1>0, <1>3, <1>a
<1>5. m - 1 \in Nat /\ m - 1 \notin T  BY <1>3, <1>4
<1>6. f[m - 1] \in Int  BY <1>5, <1>4
<1>7. ls[m].amount \in Int
  <2>1. ls[m] \in Lines  BY <1>4
  <2>. QED  BY <2>1 DEF Lines
<1>8. f[m] = f[m - 1] + ls[m].amount  BY <1>4, <1>0, <1>a
<1>. QED  BY <1>3, <1>6, <1>7, <1>8

\* Flipping the signs keeps a sequence of lines one.
LEMMA NegateType ==
  ASSUME NEW ls \in Seq(Lines)
  PROVE  /\ Negate(ls) \in Seq(Lines)
         /\ Len(Negate(ls)) = Len(ls)
         /\ \A i \in 1 .. Len(ls) : Negate(ls)[i].amount = -ls[i].amount
<1>1. \A i \in 1 .. Len(ls) : ls[i] \in Lines  OBVIOUS
<1>2. \A i \in 1 .. Len(ls) : [ls[i] EXCEPT !.amount = -@] \in Lines
  BY <1>1 DEF Lines
<1>. QED  BY <1>1, <1>2 DEF Negate, Lines

(* Flipping the signs flips the sum: what lets VoidJournalEntry commit
   without the balance query of CreateJournalEntry. *)
THEOREM SumNegate ==
  ASSUME NEW ls \in Seq(Lines)
  PROVE  SumAmounts(Negate(ls)) = -SumAmounts(ls)
<1>. DEFINE ns == Negate(ls)
<1>0. ns \in Seq(Lines) /\ Len(ns) = Len(ls) /\ Len(ls) \in Nat
  BY NegateType
<1>1. PICK f : PartialSums(ls, Len(ls), f) /\ SumAmounts(ls) = f[Len(ls)]
  BY SumIsPartialSum
<1>2. PICK g : PartialSums(ns, Len(ns), g) /\ SumAmounts(ns) = g[Len(ns)]
  BY <1>0, SumIsPartialSum
<1>a. \A i \in 0 .. Len(ls) :
        f[i] = IF i = 0 THEN 0 ELSE f[i - 1] + ls[i].amount
  BY <1>1 DEF PartialSums
<1>b. \A i \in 0 .. Len(ls) :
        g[i] = IF i = 0 THEN 0 ELSE g[i - 1] + ns[i].amount
  BY <1>0, <1>2 DEF PartialSums
<1>. DEFINE T == {n \in Nat : n <= Len(ls) /\ ~ (f[n] \in Int /\ g[n] = -f[n])}
<1>3. SUFFICES ASSUME T # {} PROVE FALSE  BY <1>0, <1>1, <1>2
<1>4. PICK m \in T : \A k \in T : m <= k  BY <1>3, LeastNat
<1>5. m # 0 /\ m \in 1 .. Len(ls)  BY <1>0, <1>4, <1>a, <1>b
<1>6. m - 1 \in Nat /\ m - 1 \notin T  BY <1>4, <1>5
<1>7. f[m - 1] \in Int /\ g[m - 1] = -f[m - 1]  BY <1>6, <1>5
<1>8. ls[m].amount \in Int /\ ns[m].amount = -ls[m].amount
  <2>1. ls[m] \in Lines  BY <1>5
  <2>. QED  BY <2>1, <1>5, NegateType DEF Lines
<1>9. f[m] = f[m - 1] + ls[m].amount /\ g[m] = g[m - 1] + ns[m].amount
  BY <1>5, <1>0, <1>a, <1>b
<1>. QED  BY <1>4, <1>7, <1>8, <1>9

\* The mirror of a balanced journal is balanced.
THEOREM NegateBalanced ==
  ASSUME NEW ls \in Seq(Lines), IsBalanced(ls)
  PROVE  IsBalanced(Negate(ls))
BY SumNegate, NegateType DEF IsBalanced

\* What the table stores of a request is a sequence of lines again.
LEMMA StoredLinesType ==
  ASSUME NEW ls \in Seq(Lines)
  PROVE  StoredLines(ls) \in Seq(Lines) /\ Len(StoredLines(ls)) = Len(ls)
<1>1. \A a \in Int : Stored(a) \in Int
  BY ScaleAssumption DEF Stored
<1>2. \A i \in 1 .. Len(ls) : ls[i] \in Lines  OBVIOUS
<1>3. \A i \in 1 .. Len(ls) : [ls[i] EXCEPT !.amount = Stored(@)] \in Lines
  BY <1>1, <1>2 DEF Lines
<1>. QED  BY <1>3 DEF StoredLines
-----------------------------------------------------------------------------
\* j can be reversed for user u: it is committed, u's, and no reversal.
Reversible(j, u) == /\ j \in Ids
                    /\ Committed(j)
                    /\ ~ IsReversal(j)
                    /\ journal_entries[j].user = u

(* What a request knows at each of its steps. *)
Requests ==
  \A p \in Procs :
    /\ pc[p] = "insert" => req[p].target = NULL /\ Len(req[p].lines) >= 2
    /\ pc[p] = "read" => req[p].target \in Ids
    /\ pc[p] = "insert_reversal" =>
         /\ Reversible(req[p].target, req[p].user)
         /\ req[p].lines = Negate(entries[req[p].target])
    /\ req[p].target # NULL <=> req[p].op = "void"

(* What an open transaction is about to commit. *)
Transactions ==
  \A p \in Procs :
    /\ tx[p] # NULL <=> pc[p] \in {"check", "commit"}
    /\ tx[p] # NULL =>
         /\ ~ Committed(tx[p].id)
         /\ tx[p].user = req[p].user /\ tx[p].of = req[p].target
         /\ tx[p].rows = Asked(p)
         /\ \A q \in Procs \ {p} : tx[q] # NULL => tx[q].id # tx[p].id
    /\ pc[p] = "check" => tx[p].of = NULL /\ Len(tx[p].rows) >= 2
    /\ pc[p] = "commit" =>
         /\ IsBalanced(tx[p].rows)
         /\ tx[p].of # NULL => /\ Reversible(tx[p].of, tx[p].user)
                               /\ tx[p].rows = Negate(entries[tx[p].of])

(* What an answer, complete or about to be, says of the table. *)
Answered ==
  \A p \in Procs :
    /\ Done(p) => resp[p].id # NULL
    /\ pc[p] = "audit" => resp[p].id # NULL
    /\ resp[p].id # NULL =>
         /\ pc[p] \in {"idle", "audit"}
         /\ Committed(resp[p].id)
         /\ journal_entries[resp[p].id] = [user |-> req[p].user, of |-> req[p].target]
         /\ entries[resp[p].id] = Asked(p)
         /\ \A q \in Procs \ {p} : resp[q].id # resp[p].id

IInv == /\ TypeOK /\ Requests /\ Transactions /\ Answered
        /\ Balanced /\ ReversalMirrors
-----------------------------------------------------------------------------
LEMMA InitIInv == Init => IInv
<1>. SUFFICES ASSUME Init PROVE IInv  OBVIOUS
<1>. USE DEF Init, Committed
<1>1. TypeOK  BY DEF TypeOK, Reqs, Answers, Ops, Steps, Status
<1>2. Requests  BY DEF Requests
<1>3. Transactions  BY DEF Transactions
<1>4. Answered  BY DEF Answered, Done
<1>5. Balanced /\ ReversalMirrors  BY DEF Balanced, ReversalMirrors
<1>. QED  BY <1>1, <1>2, <1>3, <1>4, <1>5 DEF IInv

\* Answering keeps the types of what it assigns.
LEMMA AnswerType ==
  ASSUME TypeOK, NEW p \in Procs, NEW status \in Status,
         NEW id \in Ids \cup {NULL}, Answer(p, status, id)
  PROVE  /\ pc' \in [Procs -> Steps]
         /\ tx' \in [Procs -> Txs \cup {NULL}]
         /\ resp' \in [Procs -> Answers]
BY DEF TypeOK, Answer, Steps, Answers

LEMMA FailType ==
  ASSUME TypeOK, NEW p \in Procs, NEW status \in Status, Fail(p, status)
  PROVE  TypeOK'
<1>1. Answer(p, status, NULL)  BY DEF Fail
<1>. QED  BY <1>1, AnswerType DEF Fail, TypeOK, tables

\* So does receiving a request.
LEMMA ReceiveType ==
  ASSUME TypeOK, NEW p \in Procs, NEW op \in Ops, NEW u \in Users,
         NEW target \in Ids \cup {NULL}, NEW ls \in Seq(Lines), NEW step \in Steps,
         Receive(p, op, u, target, ls, step)
  PROVE  TypeOK'
BY DEF TypeOK, Receive, tables, Reqs, Answers, Status

\* The steps of p that end its request without a change of the tables.
LEMMA Failing ==
  ASSUME NEW p,
         \/ InsertOverflow(p) \/ CheckUnbalanced(p) \/ VoidNotFound(p)
         \/ VoidReversal(p) \/ Fault(p)
  PROVE  \E status \in Status \ {"done"} : Fail(p, status)
BY DEF InsertOverflow, CheckUnbalanced, VoidNotFound, VoidReversal, Fault, DbError,
       Crash, Status

\* The type invariant is preserved by every step from a state of IInv.
LEMMA TypeStep == IInv /\ [Next]_vars => TypeOK'
<1>. SUFFICES ASSUME IInv, [Next]_vars PROVE TypeOK'  OBVIOUS
<1>0. TypeOK /\ Requests /\ Transactions  BY DEF IInv
<1>. USE <1>0
<1>1. CASE UNCHANGED vars  BY <1>1 DEF TypeOK, vars, tables
<1>2. ASSUME NEW p \in Procs, Request(p) PROVE TypeOK'
  <2>1. ASSUME NEW u \in Users, NEW ls \in EntryLists,
               Create(p, u, ls) \/ InternalPost(p, u, ls)
        PROVE  TypeOK'
    <3>1. ls \in Seq(Lines)  BY EntryListsAssumption
    <3>2. PICK op \in Ops : Receive(p, op, u, NULL, ls, "insert")
      BY <2>1 DEF Create, InternalPost, Ops
    <3>. QED  BY <3>1, <3>2, ReceiveType DEF Steps
  <2>2. ASSUME NEW u \in Users, NEW j \in Ids, Void(p, u, j) PROVE TypeOK'
    <3>1. Receive(p, "void", u, j, << >>, "read")  BY <2>2 DEF Void
    <3>2. "void" \in Ops /\ "read" \in Steps /\ << >> \in Seq(Lines)
      BY DEF Ops, Steps
    <3>. QED  BY <3>1, <3>2, ReceiveType
  <2>3. ASSUME NEW u \in Users, NEW ls \in EntryLists, RefuseCreate(p, u, ls)
        PROVE  TypeOK'
    <3>1. ls \in Seq(Lines)  BY EntryListsAssumption
    <3>2. req' \in [Procs -> Reqs]
      BY <2>3, <3>1 DEF TypeOK, RefuseCreate, Reqs, Ops
    <3>3. PICK status \in Status : Answer(p, status, NULL)
      BY <2>3 DEF RefuseCreate, Status
    <3>. QED  BY <2>3, <3>2, <3>3, AnswerType DEF TypeOK, RefuseCreate, tables
  <2>. QED  BY <1>2, <2>1, <2>2, <2>3 DEF Request
<1>3. ASSUME NEW p \in Procs, Step(p) PROVE TypeOK'
  <2>1. ASSUME NEW id \in Ids, Insert(p, id) \/ VoidInsert(p, id) PROVE TypeOK'
    <3>1. req[p] \in Reqs  BY DEF TypeOK
    <3>2. req[p].lines \in Seq(Lines) /\ StoredLines(req[p].lines) \in Seq(Lines)
      BY <3>1, StoredLinesType DEF Reqs
    <3>3. PICK rows \in Seq(Lines), step \in Steps : Begin(p, id, rows, step)
      BY <2>1, <3>2 DEF Insert, VoidInsert, Steps
    <3>4. [id |-> id, user |-> req[p].user, of |-> req[p].target, rows |-> rows] \in Txs
      BY <3>1 DEF Txs, Reqs
    <3>. QED  BY <3>3, <3>4 DEF TypeOK, Begin, tables
  <2>2. ASSUME \/ InsertOverflow(p) \/ CheckUnbalanced(p) \/ VoidNotFound(p)
               \/ VoidReversal(p)
        PROVE  TypeOK'
    BY <2>2, Failing, FailType
  <2>3. ASSUME CheckBalanced(p) PROVE TypeOK'
    BY <2>3 DEF TypeOK, CheckBalanced, tables, Steps
  <2>4. ASSUME VoidRead(p) PROVE TypeOK'
    <3>1. req[p].target \in Ids  BY <2>4 DEF Requests, VoidRead
    <3>2. Negate(entries[req[p].target]) \in Seq(Lines)
      BY <3>1, NegateType DEF TypeOK
    <3>. QED  BY <2>4, <3>2 DEF TypeOK, VoidRead, tables, Reqs, Steps
  <2>5. ASSUME Commit(p) \/ CommitUnknown(p) PROVE TypeOK'
    <3>1. tx[p] \in Txs  BY <2>5 DEF Commit, CommitUnknown, Transactions, TypeOK
    <3>2. Apply(p) /\ UNCHANGED <<audit_log, req>>
      BY <2>5 DEF Commit, CommitUnknown
    <3>3. journal_entries' \in [Ids -> Headers \cup {NULL}] /\ entries' \in [Ids -> Seq(Lines)]
      BY <3>1, <3>2 DEF TypeOK, Apply, Txs, Headers
    <3>4. CASE \E status \in Status, id \in Ids \cup {NULL} : Answer(p, status, id)
      BY <3>2, <3>3, <3>4, AnswerType DEF TypeOK
    <3>5. CASE /\ pc' = [pc EXCEPT ![p] = "audit"]
               /\ tx' = [tx EXCEPT ![p] = NULL]
               /\ resp' = [resp EXCEPT ![p].id = tx[p].id]
      BY <3>1, <3>2, <3>3, <3>5 DEF TypeOK, Steps, Txs, Answers
    <3>. QED  BY <2>5, <3>1, <3>4, <3>5 DEF Commit, CommitUnknown, Txs, Status
  <2>6. ASSUME NEW logged \in BOOLEAN, Audit(p, logged) PROVE TypeOK'
    <3>1. audit_log' \in [{"create", "void"} -> [Ids -> Nat]]
      <4>. DEFINE op == req[p].op
                  id == IF op = "void" THEN req[p].target ELSE resp[p].id
      <4>1. CASE audit_log' = audit_log  BY <4>1 DEF TypeOK
      <4>2. CASE audit_log' = [audit_log EXCEPT ![op][id] = @ + 1]
        <5>. HIDE DEF op, id
        <5>1. CASE op \notin {"create", "void"}  BY <4>2, <5>1 DEF TypeOK
        <5>2. CASE op \in {"create", "void"}
          <6>1. audit_log[op] \in [Ids -> Nat]  BY <5>2 DEF TypeOK
          <6>2. [audit_log[op] EXCEPT ![id] = @ + 1] \in [Ids -> Nat]
            <7>1. SUFFICES ASSUME NEW g \in [Ids -> Nat]
                           PROVE  [g EXCEPT ![id] = g[id] + 1] \in [Ids -> Nat]
              BY <6>1
            <7>2. CASE id \in Ids  BY <7>2
            <7>3. CASE id \notin Ids  BY <7>3
            <7>. QED  BY <7>2, <7>3
          <6>. QED  BY <4>2, <5>2, <6>2 DEF TypeOK
        <5>. QED  BY <5>1, <5>2
      <4>. QED  BY <2>6, <4>1, <4>2 DEF Audit
    <3>2. resp[p].id \in Ids \cup {NULL}  BY DEF TypeOK, Answers
    <3>3. Answer(p, "done", resp[p].id) /\ "done" \in Status  BY <2>6 DEF Audit, Status
    <3>. QED  BY <2>6, <3>1, <3>2, <3>3, AnswerType DEF TypeOK, Audit, tables
  <2>. QED  BY <1>3, <2>1, <2>2, <2>3, <2>4, <2>5, <2>6 DEF Step
<1>4. ASSUME NEW p \in Procs, Fault(p) PROVE TypeOK'
  BY <1>4, Failing, FailType
<1>. QED  BY <1>1, <1>2, <1>3, <1>4 DEF Next
-----------------------------------------------------------------------------
(* The parts of the invariant about processes and tables, without types. *)
Parts == Requests /\ Transactions /\ Answered /\ Balanced /\ ReversalMirrors

\* A request that ends without success, the tables being as they were.
LEMMA FailStep ==
  ASSUME IInv, NEW p \in Procs, NEW status \in Status \ {"done"}, Fail(p, status)
  PROVE  Parts'
<1>. USE DEF IInv, Fail, Answer, tables
<1>1. Requests'  BY DEF Requests, Reversible, TypeOK, Committed, IsReversal
<1>2. Transactions'
  BY DEF Transactions, Reversible, TypeOK, Committed, IsReversal, Asked
<1>3. Answered'  BY DEF Answered, TypeOK, Committed, Asked, Done
<1>4. Balanced'  BY DEF Balanced, Committed
<1>5. ReversalMirrors'  BY DEF ReversalMirrors, Committed, IsReversal
<1>. QED  BY <1>1, <1>2, <1>3, <1>4, <1>5 DEF Parts

\* A request that begins.
LEMMA ReceiveStep ==
  ASSUME IInv, NEW p \in Procs, NEW u \in Users, NEW op, NEW target, NEW ls, NEW step,
         Receive(p, op, u, target, ls, step),
         \/ op = "void" /\ target \in Ids /\ step = "read"
         \/ op # "void" /\ target = NULL /\ step = "insert" /\ Len(ls) >= 2
  PROVE  Parts'
<1>. USE NullAssumption DEF IInv, Receive, tables
<1>1. Requests'  BY DEF Requests, Reversible, TypeOK, Committed, IsReversal
<1>2. Transactions'
  BY DEF Transactions, Reversible, TypeOK, Committed, IsReversal, Asked
<1>3. Answered'  BY DEF Answered, TypeOK, Committed, Asked, Done
<1>4. Balanced'  BY DEF Balanced, Committed
<1>5. ReversalMirrors'  BY DEF ReversalMirrors, Committed, IsReversal
<1>. QED  BY <1>1, <1>2, <1>3, <1>4, <1>5 DEF Parts

LEMMA RefuseStep ==
  ASSUME IInv, NEW p \in Procs, NEW u \in Users, NEW ls \in EntryLists,
         RefuseCreate(p, u, ls)
  PROVE  Parts'
<1>. USE NullAssumption DEF IInv, RefuseCreate, Answer, tables
<1>1. Requests'  BY DEF Requests, Reversible, TypeOK, Committed, IsReversal
<1>2. Transactions'
  BY DEF Transactions, Reversible, TypeOK, Committed, IsReversal, Asked
<1>3. Answered'  BY DEF Answered, TypeOK, Committed, Asked, Done
<1>4. Balanced'  BY DEF Balanced, Committed
<1>5. ReversalMirrors'  BY DEF ReversalMirrors, Committed, IsReversal
<1>. QED  BY <1>1, <1>2, <1>3, <1>4, <1>5 DEF Parts

\* A transaction that begins and inserts its rows.
LEMMA InsertStep ==
  ASSUME IInv, NEW p \in Procs, NEW id \in Ids, Insert(p, id) \/ VoidInsert(p, id)
  PROVE  Parts'
<1>. USE NullAssumption DEF IInv
<1>a. pc[p] \in {"insert", "insert_reversal"} /\ Fresh(id) /\ UNCHANGED <<tables, req, resp>>
  BY DEF Insert, VoidInsert, Begin
<1>b. PICK rows, step :
        /\ pc' = [pc EXCEPT ![p] = step]
        /\ tx' = [tx EXCEPT ![p] = [id |-> id, user |-> req[p].user,
                                    of |-> req[p].target, rows |-> rows]]
        /\ \/ pc[p] = "insert" /\ step = "check" /\ rows = StoredLines(req[p].lines)
           \/ pc[p] = "insert_reversal" /\ step = "commit" /\ rows = req[p].lines
  BY DEF Insert, VoidInsert, Begin
<1>. DEFINE new == [id |-> id, user |-> req[p].user, of |-> req[p].target, rows |-> rows]
<1>c. req[p].lines \in Seq(Lines) /\ req[p].user \in Users /\ req[p].target \in Ids \cup {NULL}
  BY DEF TypeOK, Reqs
<1>d. rows \in Seq(Lines)  BY <1>b, <1>c, StoredLinesType
<1>e. new # NULL  BY <1>c, <1>d DEF Txs
<1>1. Requests'  BY <1>a, <1>b DEF Requests, Reversible, TypeOK, Committed, IsReversal, tables
<1>2. Transactions'
  <2>1. rows = Asked(p)
    BY <1>b DEF Requests, Reversible, Asked
  <2>2. step = "check" => req[p].target = NULL /\ Len(rows) >= 2
    BY <1>b, <1>c, StoredLinesType DEF Requests
  <2>3. step = "commit" => /\ Reversible(req[p].target, req[p].user)
                           /\ rows = Negate(entries[req[p].target])
                           /\ IsBalanced(rows)
    BY <1>b, NegateBalanced DEF Requests, Balanced, Reversible, TypeOK
  <2>4. /\ ~ Committed(id)
        /\ \A q \in Procs : tx[q] # NULL => tx[q].id # id
    BY <1>a DEF Fresh
  <2>5. tx'[p] = new /\ pc'[p] = step /\ step \in {"check", "commit"}
    BY <1>b DEF TypeOK
  <2>6. \A q \in Procs \ {p} : tx'[q] = tx[q] /\ pc'[q] = pc[q]
    BY <1>b DEF TypeOK
  <2>. HIDE DEF IInv
  <2>7. Transactions  BY DEF IInv
  <2>. SUFFICES ASSUME NEW q \in Procs
                PROVE  (/\ tx[q] # NULL <=> pc[q] \in {"check", "commit"}
                        /\ tx[q] # NULL =>
                             /\ ~ Committed(tx[q].id)
                             /\ tx[q].user = req[q].user /\ tx[q].of = req[q].target
                             /\ tx[q].rows = Asked(q)
                             /\ \A r \in Procs \ {q} : tx[r] # NULL => tx[r].id # tx[q].id
                        /\ pc[q] = "check" => tx[q].of = NULL /\ Len(tx[q].rows) >= 2
                        /\ pc[q] = "commit" =>
                             /\ IsBalanced(tx[q].rows)
                             /\ tx[q].of # NULL =>
                                  /\ Reversible(tx[q].of, tx[q].user)
                                  /\ tx[q].rows = Negate(entries[tx[q].of]))'
    BY DEF Transactions
  <2>8. CASE q = p
    BY <1>a, <1>e, <2>1, <2>2, <2>3, <2>4, <2>5, <2>6, <2>8
    DEF Committed, Reversible, IsReversal, Asked, tables
  <2>9. CASE q # p
    <3>1. tx'[q] = tx[q] /\ pc'[q] = pc[q]  BY <2>6, <2>9
    <3>2. \A r \in Procs \ {q} : tx[q] # NULL /\ tx'[r] # NULL => tx'[r].id # tx[q].id
      BY <2>4, <2>5, <2>6, <2>7 DEF Transactions
    <3>. QED  BY <1>a, <2>7, <3>1, <3>2
         DEF Transactions, Committed, Reversible, IsReversal, Asked, tables
  <2>. QED  BY <2>8, <2>9
<1>3. Answered'  BY <1>a, <1>b DEF Answered, TypeOK, Committed, Asked, Done, tables
<1>4. Balanced'  BY <1>a DEF Balanced, Committed, tables
<1>5. ReversalMirrors'  BY <1>a DEF ReversalMirrors, Committed, IsReversal, tables
<1>. QED  BY <1>1, <1>2, <1>3, <1>4, <1>5 DEF Parts

LEMMA CheckStep ==
  ASSUME IInv, NEW p \in Procs, CheckBalanced(p)
  PROVE  Parts'
<1>. USE NullAssumption DEF IInv, CheckBalanced, tables
<1>1. Requests'  BY DEF Requests, Reversible, TypeOK, Committed, IsReversal
<1>2. Transactions'
  BY DEF Transactions, Reversible, TypeOK, Committed, IsReversal, Asked, IsBalanced
<1>3. Answered'  BY DEF Answered, TypeOK, Committed, Asked, Done
<1>4. Balanced'  BY DEF Balanced, Committed
<1>5. ReversalMirrors'  BY DEF ReversalMirrors, Committed, IsReversal
<1>. QED  BY <1>1, <1>2, <1>3, <1>4, <1>5 DEF Parts

LEMMA VoidReadStep ==
  ASSUME IInv, NEW p \in Procs, VoidRead(p)
  PROVE  Parts'
<1>. USE NullAssumption DEF IInv, VoidRead, tables
<1>1. Requests'  BY DEF Requests, Reversible, TypeOK, Committed, IsReversal, Reqs
<1>2. Transactions'
  BY DEF Transactions, Reversible, TypeOK, Committed, IsReversal, Asked, Reqs
<1>3. Answered'  BY DEF Answered, TypeOK, Committed, Asked, Done, Reqs
<1>4. Balanced'  BY DEF Balanced, Committed
<1>5. ReversalMirrors'  BY DEF ReversalMirrors, Committed, IsReversal
<1>. QED  BY <1>1, <1>2, <1>3, <1>4, <1>5 DEF Parts

LEMMA AuditStep ==
  ASSUME IInv, NEW p \in Procs, NEW logged, Audit(p, logged)
  PROVE  Parts'
<1>. USE NullAssumption DEF IInv, Audit, Answer, tables
<1>1. Requests'  BY DEF Requests, Reversible, TypeOK, Committed, IsReversal
<1>2. Transactions'
  BY DEF Transactions, Reversible, TypeOK, Committed, IsReversal, Asked
<1>3. Answered'  BY DEF Answered, TypeOK, Committed, Asked, Done
<1>4. Balanced'  BY DEF Balanced, Committed
<1>5. ReversalMirrors'  BY DEF ReversalMirrors, Committed, IsReversal
<1>. QED  BY <1>1, <1>2, <1>3, <1>4, <1>5 DEF Parts

(* The two ways a transaction of p commits: the process answers at once, or
   it still has the audit row to write. *)
Committing(p) == Commit(p) \/ CommitUnknown(p)

\* A commit adds one row to journal_entries and leaves every other alone.
LEMMA ApplyFacts ==
  ASSUME IInv, NEW p \in Procs, Committing(p)
  PROVE  /\ pc[p] = "commit" /\ tx[p] \in Txs
         /\ ~ Committed(tx[p].id) /\ journal_entries'[tx[p].id] # NULL
         /\ journal_entries'[tx[p].id] = [user |-> req[p].user, of |-> req[p].target]
         /\ entries'[tx[p].id] = tx[p].rows
         /\ \A j \in Ids \ {tx[p].id} : /\ journal_entries'[j] = journal_entries[j]
                                        /\ entries'[j] = entries[j]
         /\ UNCHANGED req
         /\ pc'[p] \in {"idle", "audit"} /\ tx'[p] = NULL
         /\ pc'[p] = "idle" => resp'[p].status \in {"done", "error"}
         /\ \A q \in Procs \ {p} : pc'[q] = pc[q] /\ tx'[q] = tx[q] /\ resp'[q] = resp[q]
<1>. USE DEF IInv, Committing
<1>1. pc[p] = "commit" /\ Apply(p) /\ UNCHANGED req
  BY DEF Commit, CommitUnknown
<1>2. tx[p] # NULL /\ ~ Committed(tx[p].id)
      /\ tx[p].user = req[p].user /\ tx[p].of = req[p].target
  BY <1>1 DEF Transactions
<1>3. tx[p] \in Txs  BY <1>2 DEF TypeOK
<1>4. tx[p].id \in Ids /\ tx[p].user \in Users /\ tx[p].of \in Ids \cup {NULL}
  BY <1>3 DEF Txs
<1>5. [user |-> tx[p].user, of |-> tx[p].of] # NULL
  BY <1>4, NullAssumption DEF Headers
<1>6. /\ journal_entries'[tx[p].id] = [user |-> tx[p].user, of |-> tx[p].of]
      /\ entries'[tx[p].id] = tx[p].rows
      /\ \A j \in Ids \ {tx[p].id} : /\ journal_entries'[j] = journal_entries[j]
                                     /\ entries'[j] = entries[j]
  BY <1>1, <1>4 DEF Apply, TypeOK
<1>7. /\ pc'[p] \in {"idle", "audit"} /\ tx'[p] = NULL
      /\ pc'[p] = "idle" => resp'[p].status \in {"done", "error"}
      /\ \A q \in Procs \ {p} : pc'[q] = pc[q] /\ tx'[q] = tx[q] /\ resp'[q] = resp[q]
  BY DEF Commit, CommitUnknown, Answer, TypeOK
<1>. QED  BY <1>1, <1>2, <1>3, <1>5, <1>6, <1>7 DEF Committed

\* The journal k is a reversal of the journal j.
Mirror(k, j) == /\ journal_entries[k].of = j
                /\ Reversible(j, journal_entries[k].user)
                /\ entries[k] = Negate(entries[j])

LEMMA CommitStep ==
  ASSUME IInv, NEW p \in Procs, Committing(p)
  PROVE  Parts'
<1>0. PICK id \in Ids : id = tx[p].id  BY ApplyFacts DEF Txs
<1>1. /\ pc[p] = "commit" /\ tx[p] \in Txs
      /\ ~ Committed(id) /\ Committed(id)'
      /\ journal_entries'[id] = [user |-> req[p].user, of |-> req[p].target]
      /\ entries'[id] = tx[p].rows
      /\ UNCHANGED req
      /\ pc'[p] \in {"idle", "audit"} /\ tx'[p] = NULL
  BY <1>0, ApplyFacts DEF Committed
<1>2. \A j \in Ids \ {id} : journal_entries'[j] = journal_entries[j] /\ entries'[j] = entries[j]
  BY <1>0, ApplyFacts
<1>3. \A q \in Procs \ {p} : pc'[q] = pc[q] /\ tx'[q] = tx[q] /\ resp'[q] = resp[q]
  BY ApplyFacts
<1>4. Requests /\ Transactions /\ Answered /\ Balanced /\ ReversalMirrors /\ TypeOK
  BY DEF IInv
<1>5. \A j, u : Reversible(j, u) => /\ j \in Ids \ {id} /\ Reversible(j, u)'
                                    /\ entries'[j] = entries[j]
  BY <1>1, <1>2 DEF Reversible, Committed, IsReversal
<1>6. \A j \in Ids : Committed(j) => Committed(j)' /\ j # id
  BY <1>1, <1>2 DEF Committed
<1>7. tx[p] # NULL  BY <1>1, NullAssumption
<1>a. Requests'
  BY <1>1, <1>3, <1>4, <1>5 DEF Requests
<1>b. Transactions'
  <2>1. \A q \in Procs : tx'[q] # NULL => q # p /\ tx'[q] = tx[q] /\ tx[q].id # id
    BY <1>0, <1>1, <1>3, <1>4, <1>7 DEF Transactions
  <2>2. \A q \in Procs : tx'[q] # NULL => tx[q].id \in Ids
    BY <2>1, <1>4 DEF TypeOK, Txs
  <2>3. \A q \in Procs : tx'[q] # NULL => journal_entries'[tx'[q].id] = NULL
    BY <2>1, <2>2, <1>2, <1>4 DEF Transactions, Committed
  <2>. SUFFICES ASSUME NEW q \in Procs
                PROVE  (/\ tx[q] # NULL <=> pc[q] \in {"check", "commit"}
                        /\ tx[q] # NULL =>
                             /\ ~ Committed(tx[q].id)
                             /\ tx[q].user = req[q].user /\ tx[q].of = req[q].target
                             /\ tx[q].rows = Asked(q)
                             /\ \A r \in Procs \ {q} : tx[r] # NULL => tx[r].id # tx[q].id
                        /\ pc[q] = "check" => tx[q].of = NULL /\ Len(tx[q].rows) >= 2
                        /\ pc[q] = "commit" =>
                             /\ IsBalanced(tx[q].rows)
                             /\ tx[q].of # NULL =>
                                  /\ Reversible(tx[q].of, tx[q].user)
                                  /\ tx[q].rows = Negate(entries[tx[q].of]))'
    BY DEF Transactions
  <2>4. CASE q = p  BY <1>1, <2>4
  <2>5. CASE q # p
    <3>1. /\ pc'[q] = pc[q] /\ tx'[q] = tx[q] /\ req'[q] = req[q] /\ Asked(q)' = Asked(q)
      BY <1>1, <1>3, <2>5 DEF Asked
    <3>2. \A r \in Procs \ {q} : tx[q] # NULL /\ tx'[r] # NULL => tx'[r].id # tx[q].id
      BY <1>1, <1>3, <1>4 DEF Transactions
    <3>3. pc[q] = "commit" /\ tx[q].of # NULL =>
            /\ Reversible(tx[q].of, tx[q].user)
            /\ journal_entries'[tx[q].of] = journal_entries[tx[q].of]
            /\ entries'[tx[q].of] = entries[tx[q].of]
      BY <1>2, <1>4, <1>5 DEF Transactions
    <3>. QED  BY <1>4, <2>3, <3>1, <3>2, <3>3
         DEF Transactions, Committed, Reversible, IsReversal
  <2>. QED  BY <2>4, <2>5
<1>c. Answered'
  <2>1. ASSUME NEW q \in Procs \ {p}, resp[q].id # NULL
        PROVE  resp[q].id \in Ids \ {id} /\ journal_entries'[resp[q].id] # NULL
    BY <2>1, <1>4, <1>6 DEF Answered, TypeOK, Answers, Committed
  <2>2. CASE resp'[p].id = NULL
    <3>1. CommitUnknown(p)
      BY <2>2, <1>0, <1>1, <1>4, NullAssumption
      DEF Committing, Commit, Answer, TypeOK, Answers
    <3>2. ~ Done(p)' /\ pc'[p] = "idle"
      BY <3>1, <1>4 DEF CommitUnknown, Answer, Done, TypeOK
    <3>3. \A q \in Procs \ {p} : resp[q].id # NULL => Asked(q)' = Asked(q)
      BY <1>1 DEF Asked
    <3>. SUFFICES ASSUME NEW q \in Procs
                  PROVE  (/\ Done(q) => resp[q].id # NULL
                          /\ pc[q] = "audit" => resp[q].id # NULL
                          /\ resp[q].id # NULL =>
                               /\ pc[q] \in {"idle", "audit"}
                               /\ Committed(resp[q].id)
                               /\ journal_entries[resp[q].id] =
                                    [user |-> req[q].user, of |-> req[q].target]
                               /\ entries[resp[q].id] = Asked(q)
                               /\ \A r \in Procs \ {q} : resp[r].id # resp[q].id)'
      BY DEF Answered
    <3>4. CASE q = p  BY <2>2, <3>2, <3>4
    <3>5. CASE q # p
      <4>1. /\ pc'[q] = pc[q] /\ resp'[q] = resp[q] /\ Asked(q)' = Asked(q)
            /\ req' = req
        BY <1>1, <1>3, <3>5 DEF Asked
      <4>2. \A r \in Procs \ {q} : resp[q].id # NULL => resp'[r].id # resp[q].id
        <5>1. \A r \in Procs \ {q} : resp[q].id # NULL => resp[r].id # resp[q].id
          BY <1>4 DEF Answered
        <5>2. \A r \in Procs : resp'[r].id = NULL \/ resp'[r] = resp[r]
          BY <1>3, <2>2
        <5>. QED  BY <5>1, <5>2
      <4>3. /\ Done(q) => resp[q].id # NULL
            /\ pc[q] = "audit" => resp[q].id # NULL
            /\ resp[q].id # NULL =>
                 /\ pc[q] \in {"idle", "audit"}
                 /\ journal_entries[resp[q].id] = [user |-> req[q].user, of |-> req[q].target]
                 /\ entries[resp[q].id] = Asked(q)
        BY <1>4 DEF Answered
      <4>4. Done(q)' = Done(q)  BY <4>1 DEF Done
      <4>5. resp[q].id # NULL =>
              /\ journal_entries'[resp[q].id] = journal_entries[resp[q].id]
              /\ journal_entries'[resp[q].id] # NULL
              /\ entries'[resp[q].id] = entries[resp[q].id]
        BY <3>5, <2>1, <1>2
      <4>. QED  BY <4>1, <4>2, <4>3, <4>4, <4>5 DEF Committed
    <3>. QED  BY <3>4, <3>5
  <2>3. CASE resp'[p].id # NULL
    <3>1. resp'[p].id = id
      BY <2>3, <1>0, <1>1, <1>4 DEF Committing, Commit, CommitUnknown, Answer, TypeOK, Answers
    <3>2. tx[p].rows = Asked(p) /\ Asked(p)' = Asked(p)
      BY <1>1, <1>4, <1>7 DEF Transactions, Asked
    <3>. SUFFICES ASSUME NEW q \in Procs
                  PROVE  (/\ Done(q) => resp[q].id # NULL
                          /\ pc[q] = "audit" => resp[q].id # NULL
                          /\ resp[q].id # NULL =>
                               /\ pc[q] \in {"idle", "audit"}
                               /\ Committed(resp[q].id)
                               /\ journal_entries[resp[q].id] =
                                    [user |-> req[q].user, of |-> req[q].target]
                               /\ entries[resp[q].id] = Asked(q)
                               /\ \A r \in Procs \ {q} : resp[r].id # resp[q].id)'
      BY DEF Answered
    <3>3. \A r \in Procs \ {p} : resp'[r].id # id
      BY <1>3, <2>1, NullAssumption
    <3>4. CASE q = p
      BY <1>1, <2>3, <3>1, <3>2, <3>3, <3>4 DEF Committed
    <3>5. CASE q # p
      <4>1. /\ pc'[q] = pc[q] /\ resp'[q] = resp[q] /\ Asked(q)' = Asked(q)
            /\ req' = req
        BY <1>1, <1>3, <3>5 DEF Asked
      <4>2. \A r \in Procs \ {q} : resp[q].id # NULL => resp'[r].id # resp[q].id
        <5>1. resp[q].id # NULL => resp'[p].id # resp[q].id  BY <3>1, <3>5, <2>1
        <5>2. \A r \in Procs \ {q} : resp[q].id # NULL => resp[r].id # resp[q].id
          BY <1>4 DEF Answered
        <5>3. \A r \in Procs \ {p} : resp'[r] = resp[r]  BY <1>3
        <5>. QED  BY <5>1, <5>2, <5>3
      <4>3. /\ Done(q) => resp[q].id # NULL
            /\ pc[q] = "audit" => resp[q].id # NULL
            /\ resp[q].id # NULL =>
                 /\ pc[q] \in {"idle", "audit"}
                 /\ journal_entries[resp[q].id] = [user |-> req[q].user, of |-> req[q].target]
                 /\ entries[resp[q].id] = Asked(q)
        BY <1>4 DEF Answered
      <4>4. Done(q)' = Done(q)  BY <4>1 DEF Done
      <4>5. resp[q].id # NULL =>
              /\ journal_entries'[resp[q].id] = journal_entries[resp[q].id]
              /\ journal_entries'[resp[q].id] # NULL
              /\ entries'[resp[q].id] = entries[resp[q].id]
        BY <3>5, <2>1, <1>2
      <4>. QED  BY <4>1, <4>2, <4>3, <4>4, <4>5 DEF Committed
    <3>. QED  BY <3>4, <3>5
  <2>. QED  BY <2>2, <2>3
<1>d. Balanced'
  BY <1>1, <1>2, <1>4 DEF Balanced, Transactions, Committed
<1>e. ReversalMirrors'
  <2>1. req[p].target # NULL => /\ Reversible(req[p].target, req[p].user)
                                /\ tx[p].rows = Negate(entries[req[p].target])
    BY <1>1, <1>4, <1>7 DEF Transactions
  <2>. SUFFICES ASSUME NEW k \in Ids, Committed(k)', IsReversal(k)'
                PROVE  \E j : Mirror(k, j)'
    BY DEF ReversalMirrors, Mirror, Reversible
  <2>2. CASE k = id
    <3>1. Mirror(k, req[p].target)'
      BY <2>1, <2>2, <1>1, <1>2, <1>5 DEF IsReversal, Reversible, Mirror, Committed
    <3>. QED  BY <3>1
  <2>3. CASE k # id
    <3>1. Committed(k) /\ IsReversal(k)  BY <2>3, <1>2 DEF Committed, IsReversal
    <3>2. PICK j : Mirror(k, j)
      <4>1. journal_entries[k] \in Headers  BY <3>1, <1>4 DEF TypeOK, Committed
      <4>. QED  BY <3>1, <4>1, <1>4
           DEF ReversalMirrors, Reversible, Headers, IsReversal, Mirror
    <3>3. Mirror(k, j)'
      BY <2>3, <3>2, <1>2, <1>5 DEF Mirror, Reversible, Committed, IsReversal
    <3>. QED  BY <3>3
  <2>. QED  BY <2>2, <2>3
<1>. QED  BY <1>a, <1>b, <1>c, <1>d, <1>e DEF Parts
-----------------------------------------------------------------------------
\* The invariant is inductive.
LEMMA IInvStep == IInv /\ [Next]_vars => IInv'
<1>. SUFFICES ASSUME IInv, [Next]_vars PROVE IInv'  OBVIOUS
<1>1. TypeOK'  BY TypeStep
<1>2. Parts'
  <2>1. CASE UNCHANGED vars
    BY <2>1 DEF IInv, Parts, Requests, Transactions, Answered, Balanced, ReversalMirrors,
                Reversible, Committed, IsReversal, Asked, Done, vars, tables
  <2>2. ASSUME NEW p \in Procs, Request(p) PROVE Parts'
    <3>1. ASSUME NEW u \in Users, NEW ls \in EntryLists,
                 Create(p, u, ls) \/ InternalPost(p, u, ls)
          PROVE  Parts'
      BY <3>1, ReceiveStep DEF Create, InternalPost, IsBalanced
    <3>2. ASSUME NEW u \in Users, NEW ls \in EntryLists, RefuseCreate(p, u, ls)
          PROVE  Parts'
      BY <3>2, RefuseStep
    <3>3. ASSUME NEW u \in Users, NEW j \in Ids, Void(p, u, j) PROVE Parts'
      BY <3>3, ReceiveStep DEF Void
    <3>. QED  BY <2>2, <3>1, <3>2, <3>3 DEF Request
  <2>3. ASSUME NEW p \in Procs, Step(p) PROVE Parts'
    <3>1. ASSUME NEW id \in Ids, Insert(p, id) \/ VoidInsert(p, id) PROVE Parts'
      BY <3>1, InsertStep
    <3>2. CASE \/ InsertOverflow(p) \/ CheckUnbalanced(p) \/ VoidNotFound(p)
               \/ VoidReversal(p)
      BY <3>2, Failing, FailStep
    <3>3. CASE CheckBalanced(p)  BY <3>3, CheckStep
    <3>4. CASE VoidRead(p)  BY <3>4, VoidReadStep
    <3>5. CASE Committing(p)  BY <3>5, CommitStep
    <3>6. ASSUME NEW logged \in BOOLEAN, Audit(p, logged) PROVE Parts'
      BY <3>6, AuditStep
    <3>. QED  BY <2>3, <3>1, <3>2, <3>3, <3>4, <3>5, <3>6 DEF Step, Committing
  <2>4. ASSUME NEW p \in Procs, Fault(p) PROVE Parts'
    BY <2>4, Failing, FailStep
  <2>. QED  BY <2>1, <2>2, <2>3, <2>4 DEF Next
<1>. QED  BY <1>1, <1>2 DEF IInv, Parts

THEOREM InductiveInvariant == Spec => []IInv
<1>. QED  BY InitIInv, IInvStep, PTL DEF Spec

(* Every journal that is ever committed balances, in the rows the table
   holds, whoever asked for it and whatever failed on the way
   (CreateJournalEntry, VoidJournalEntry). *)
THEOREM LedgerBalanced == Spec => []Balanced
<1>1. IInv => Balanced  BY DEF IInv
<1>. QED  BY <1>1, InductiveInvariant, PTL

\* A reversal is the mirror of a journal of the same user (VoidJournalEntry).
THEOREM LedgerReversals == Spec => []ReversalMirrors
<1>1. IInv => ReversalMirrors  BY DEF IInv
<1>. QED  BY <1>1, InductiveInvariant, PTL

(* An answer of success stands for one journal of its own, in the table as it
   was asked for (TransactionService.Create and Void). *)
THEOREM LedgerAnswers == Spec => []AnswersAreTrue
<1>1. IInv => AnswersAreTrue
  BY DEF IInv, Answered, AnswersAreTrue, Done
<1>. QED  BY <1>1, InductiveInvariant, PTL

THEOREM LedgerTypes == Spec => []TypeOK
<1>1. IInv => TypeOK  BY DEF IInv
<1>. QED  BY <1>1, InductiveInvariant, PTL
-----------------------------------------------------------------------------
(* The audit log, from here to AuditStaysSound.  A void counts as logged from
   the moment it is audited; until then its reversal is pending. *)
Pending(j) ==
  {resp[p].id : p \in {q \in Procs : /\ pc[q] = "audit"
                                     /\ req[q].op = "void"
                                     /\ req[q].target = j}}

CreationsLogged ==
  \A id \in Ids :
    /\ audit_log["create"][id] <= 1
    /\ audit_log["create"][id] # 0 =>
         /\ Committed(id) /\ ~ IsReversal(id)
         /\ \A p \in Procs : pc[p] = "audit" /\ req[p].op = "create" => resp[p].id # id

VoidsLogged ==
  \A j \in Ids :
    /\ IsFiniteSet(Reversals(j))
    /\ audit_log["void"][j] + Cardinality(Pending(j)) <= Cardinality(Reversals(j))

Logs == /\ \A p \in Procs : pc[p] = "audit" => req[p].op \in {"create", "void"}
        /\ CreationsLogged /\ VoidsLogged

\* A pending reversal is one of the journal's: their number is finite.
LEMMA PendingReversals ==
  ASSUME IInv, NEW j \in Ids, IsFiniteSet(Reversals(j))
  PROVE  /\ Pending(j) \subseteq Reversals(j)
         /\ IsFiniteSet(Pending(j))
         /\ Cardinality(Pending(j)) \in Nat /\ Cardinality(Reversals(j)) \in Nat
<1>1. Pending(j) \subseteq Reversals(j)
  <2>. SUFFICES ASSUME NEW q \in Procs, pc[q] = "audit", req[q].target = j
                PROVE  resp[q].id \in Reversals(j)
    BY DEF Pending
  <2>1. resp[q].id # NULL /\ resp[q].id \in Ids  BY DEF IInv, Answered, TypeOK, Answers
  <2>2. /\ Committed(resp[q].id)
        /\ journal_entries[resp[q].id] = [user |-> req[q].user, of |-> req[q].target]
    BY <2>1 DEF IInv, Answered
  <2>3. journal_entries[resp[q].id].of = j  BY <2>2
  <2>. QED  BY <2>1, <2>2, <2>3 DEF Reversals
<1>. QED  BY <1>1, FS_Subset, FS_CardinalityType

LEMMA InitLogs == Init => Logs
<1>. SUFFICES ASSUME Init PROVE Logs  OBVIOUS
<1>1. \A j \in Ids : Pending(j) = {} /\ Reversals(j) = {}
  BY DEF Init, Pending, Reversals, Committed
<1>2. \A id \in Ids : audit_log["create"][id] = 0 /\ audit_log["void"][id] = 0
  BY DEF Init
<1>3. \A p \in Procs : pc[p] # "audit"  BY DEF Init
<1>4. IsFiniteSet({}) /\ Cardinality({}) = 0  BY FS_EmptySet
<1>5. CreationsLogged  BY <1>2 DEF CreationsLogged
<1>6. VoidsLogged  BY <1>1, <1>2, <1>4 DEF VoidsLogged
<1>. QED  BY <1>3, <1>5, <1>6 DEF Logs

(* A step that writes neither table nor log and brings no process to the audit
   row can only make reversals less pending. *)
Quiet == /\ UNCHANGED <<tables, audit_log>>
         /\ \A q \in Procs : pc'[q] = "audit" =>
              pc[q] = "audit" /\ req'[q] = req[q] /\ resp'[q] = resp[q]

LEMMA QuietStep ==
  ASSUME IInv, IInv', Logs, Quiet
  PROVE  Logs'
<1>1. CreationsLogged'
  BY DEF Logs, CreationsLogged, Quiet, tables, Committed, IsReversal
<1>2. ASSUME NEW j \in Ids
      PROVE  /\ IsFiniteSet(Reversals(j)')
             /\ audit_log'["void"][j] + Cardinality(Pending(j)') <= Cardinality(Reversals(j)')
  <2>1. Pending(j)' \subseteq Pending(j)  BY DEF Pending, Quiet
  <2>2. Reversals(j)' = Reversals(j) /\ audit_log' = audit_log
    BY DEF Reversals, Quiet, tables, Committed
  <2>3. IsFiniteSet(Reversals(j))
        /\ audit_log["void"][j] + Cardinality(Pending(j)) <= Cardinality(Reversals(j))
    BY DEF Logs, VoidsLogged
  <2>4. /\ IsFiniteSet(Pending(j)) /\ Cardinality(Pending(j)) \in Nat
        /\ Cardinality(Reversals(j)) \in Nat
    BY <2>3, PendingReversals
  <2>5. Cardinality(Pending(j)') <= Cardinality(Pending(j)) /\ Cardinality(Pending(j)') \in Nat
    BY <2>1, <2>4, FS_Subset, FS_CardinalityType
  <2>6. audit_log["void"][j] \in Nat  BY DEF IInv, TypeOK
  <2>. QED  BY <2>2, <2>3, <2>4, <2>5, <2>6
<1>3. \A p \in Procs : pc'[p] = "audit" => req'[p].op \in {"create", "void"}
  BY DEF Logs, Quiet
<1>. QED  BY <1>1, <1>2, <1>3 DEF Logs, VoidsLogged

\* All steps are quiet but commits and audit rows that are written.
LEMMA OtherStepsAreQuiet ==
  ASSUME IInv, [Next]_vars,
         ~ \E p \in Procs : Committing(p) \/ Audit(p, TRUE)
  PROVE  Quiet
<1>. USE DEF Quiet
<1>t. TypeOK  BY DEF IInv
<1>1. CASE UNCHANGED vars  BY <1>1 DEF vars, tables
<1>2. ASSUME NEW p \in Procs, Request(p) PROVE Quiet
  <2>1. /\ UNCHANGED <<tables, audit_log>>
        /\ \E step \in {"idle", "insert", "read"} : pc' = [pc EXCEPT ![p] = step]
        /\ \A q \in Procs \ {p} : req'[q] = req[q] /\ resp'[q] = resp[q]
    BY <1>2, <1>t DEF Request, Create, RefuseCreate, InternalPost, Void, Receive, Answer,
                      TypeOK, tables
  <2>. QED  BY <2>1, <1>t DEF TypeOK
<1>3. ASSUME NEW p \in Procs, NEW status, Fail(p, status) PROVE Quiet
  BY <1>3, <1>t DEF Fail, Answer, TypeOK
<1>4. ASSUME NEW p \in Procs, Step(p) PROVE Quiet
  <2>1. CASE \/ InsertOverflow(p) \/ CheckUnbalanced(p) \/ VoidNotFound(p)
             \/ VoidReversal(p)
    BY <2>1, <1>3, Failing
  <2>2. CASE \E id \in Ids : Insert(p, id) \/ VoidInsert(p, id)
    BY <2>2, <1>t DEF Insert, VoidInsert, Begin, TypeOK
  <2>3. CASE CheckBalanced(p) \/ VoidRead(p)
    BY <2>3, <1>t DEF CheckBalanced, VoidRead, TypeOK
  <2>4. CASE Audit(p, FALSE)
    BY <2>4, <1>t DEF Audit, Answer, TypeOK
  <2>. QED  BY <1>4, <2>1, <2>2, <2>3, <2>4 DEF Step, Committing
<1>5. ASSUME NEW p \in Procs, Fault(p) PROVE Quiet
  BY <1>3, <1>5, Failing
<1>. QED  BY <1>1, <1>2, <1>4, <1>5 DEF Next

(* A commit adds a reversal of the journal it names, if it names one, and at
   most that one becomes pending. *)
LEMMA CommitLogs ==
  ASSUME IInv, IInv', Logs, NEW p \in Procs, Committing(p)
  PROVE  Logs'
<1>0. PICK id \in Ids : id = tx[p].id  BY ApplyFacts DEF Txs
<1>1. /\ pc[p] = "commit" /\ ~ Committed(id) /\ Committed(id)'
      /\ journal_entries'[id] = [user |-> req[p].user, of |-> req[p].target]
      /\ \A j \in Ids \ {id} : journal_entries'[j] = journal_entries[j]
      /\ UNCHANGED req
      /\ \A q \in Procs \ {p} : pc'[q] = pc[q] /\ resp'[q] = resp[q]
  BY <1>0, ApplyFacts DEF Committed
<1>2. UNCHANGED audit_log  BY DEF Committing, Commit, CommitUnknown
<1>3. pc'[p] = "audit" => req[p].op # "internal" /\ resp'[p].id = id
  BY <1>0, <1>1 DEF Committing, Commit, CommitUnknown, Answer, IInv, TypeOK, Answers
<1>4. req[p].op \in Ops  BY DEF IInv, TypeOK, Reqs
<1>5. \A q \in Procs : pc'[q] = "audit" => req'[q].op \in {"create", "void"}
  BY <1>1, <1>3, <1>4 DEF Logs, Ops
<1>6. CreationsLogged'
  BY <1>1, <1>2, <1>3 DEF Logs, CreationsLogged, Committed, IsReversal
<1>7. ASSUME NEW j \in Ids
      PROVE  /\ IsFiniteSet(Reversals(j)')
             /\ audit_log'["void"][j] + Cardinality(Pending(j)') <= Cardinality(Reversals(j)')
  <2>1. IsFiniteSet(Reversals(j))
        /\ audit_log["void"][j] + Cardinality(Pending(j)) <= Cardinality(Reversals(j))
    BY DEF Logs, VoidsLogged
  <2>2. /\ IsFiniteSet(Pending(j)) /\ Cardinality(Pending(j)) \in Nat
        /\ Cardinality(Reversals(j)) \in Nat
    BY <2>1, PendingReversals
  <2>3. audit_log["void"][j] \in Nat  BY DEF IInv, TypeOK
  <2>4. CASE req[p].target = j
    <3>1. Reversals(j)' = Reversals(j) \cup {id} /\ id \notin Reversals(j)
      BY <1>1, <2>4 DEF Reversals, Committed
    <3>2. Pending(j)' \subseteq Pending(j) \cup {id}
      BY <1>1, <1>3 DEF Pending
    <3>3. IsFiniteSet(Reversals(j)') /\ Cardinality(Reversals(j)') = Cardinality(Reversals(j)) + 1
      BY <2>1, <3>1, FS_AddElement
    <3>4. /\ IsFiniteSet(Pending(j) \cup {id})
          /\ Cardinality(Pending(j) \cup {id}) <= Cardinality(Pending(j)) + 1
      <4>. DEFINE P == Pending(j)
      <4>1. IsFiniteSet(P) /\ Cardinality(P) \in Nat  BY <2>2
      <4>. HIDE DEF P
      <4>2. /\ IsFiniteSet(P \cup {id})
            /\ Cardinality(P \cup {id}) = IF id \in P THEN Cardinality(P) ELSE Cardinality(P) + 1
        BY <4>1, FS_AddElement, Zenon
      <4>3. Cardinality(P \cup {id}) <= Cardinality(P) + 1  BY <4>1, <4>2
      <4>. QED  BY <4>2, <4>3 DEF P
    <3>5. /\ Cardinality(Pending(j)') <= Cardinality(Pending(j) \cup {id})
          /\ Cardinality(Pending(j)') \in Nat /\ Cardinality(Pending(j) \cup {id}) \in Nat
      BY <3>2, <3>4, FS_Subset, FS_CardinalityType
    <3>. QED  BY <1>2, <2>1, <2>2, <2>3, <3>3, <3>4, <3>5
  <2>5. CASE req[p].target # j
    <3>1. Reversals(j)' = Reversals(j)
      BY <1>1, <2>5 DEF Reversals, Committed
    <3>2. Pending(j)' \subseteq Pending(j)  BY <1>1, <2>5 DEF Pending
    <3>3. Cardinality(Pending(j)') <= Cardinality(Pending(j)) /\ Cardinality(Pending(j)') \in Nat
      BY <2>2, <3>2, FS_Subset, FS_CardinalityType
    <3>. QED  BY <1>2, <2>1, <2>2, <2>3, <3>1, <3>3
  <2>. QED  BY <2>4, <2>5
<1>. QED  BY <1>5, <1>6, <1>7 DEF Logs, VoidsLogged

\* The audit row of p is written: what it logs is no longer pending.
LEMMA AuditLogs ==
  ASSUME IInv, IInv', Logs, NEW p \in Procs, Audit(p, TRUE)
  PROVE  Logs'
<1>0. TypeOK /\ Requests /\ Answered  BY DEF IInv
<1>1. /\ pc[p] = "audit" /\ pc'[p] = "idle" /\ UNCHANGED <<tables, req>>
      /\ \A q \in Procs \ {p} : pc'[q] = pc[q] /\ resp'[q] = resp[q]
  BY <1>0 DEF Audit, Answer, TypeOK
<1>2. PICK id \in Ids : id = resp[p].id
  BY <1>0, <1>1 DEF Answered, TypeOK, Answers
<1>3. /\ Committed(id)
      /\ journal_entries[id] = [user |-> req[p].user, of |-> req[p].target]
      /\ \A q \in Procs \ {p} : resp[q].id # id
  BY <1>0, <1>1, <1>2 DEF Answered
<1>4. req[p].op \in {"create", "void"}  BY <1>1 DEF Logs
<1>5. \A q \in Procs : pc'[q] = "audit" => q # p /\ pc[q] = "audit" /\ resp'[q] = resp[q]
  BY <1>1
<1>6. \A q \in Procs : pc'[q] = "audit" => req'[q].op \in {"create", "void"}
  BY <1>1, <1>5 DEF Logs
<1>7. \A j \in Ids : Reversals(j)' = Reversals(j) /\ Pending(j)' \subseteq Pending(j)
  BY <1>1, <1>5 DEF Reversals, Pending, tables, Committed
<1>8. ASSUME NEW j \in Ids
      PROVE  /\ IsFiniteSet(Reversals(j)) /\ Cardinality(Reversals(j)) \in Nat
             /\ IsFiniteSet(Pending(j)) /\ Cardinality(Pending(j)) \in Nat
             /\ audit_log["void"][j] \in Nat /\ audit_log["create"][j] \in Nat
             /\ audit_log["void"][j] + Cardinality(Pending(j)) <= Cardinality(Reversals(j))
             /\ Cardinality(Pending(j)') \in Nat
             /\ Cardinality(Pending(j)') <= Cardinality(Pending(j))
  <2>1. IsFiniteSet(Reversals(j))
        /\ audit_log["void"][j] + Cardinality(Pending(j)) <= Cardinality(Reversals(j))
    BY DEF Logs, VoidsLogged
  <2>2. /\ IsFiniteSet(Pending(j)) /\ Cardinality(Pending(j)) \in Nat
        /\ Cardinality(Reversals(j)) \in Nat
    BY <2>1, PendingReversals
  <2>3. audit_log["void"][j] \in Nat /\ audit_log["create"][j] \in Nat
    BY <1>0 DEF TypeOK
  <2>4. Cardinality(Pending(j)') <= Cardinality(Pending(j)) /\ Cardinality(Pending(j)') \in Nat
    BY <1>7, <2>2, FS_Subset, FS_CardinalityType
  <2>. QED  BY <2>1, <2>2, <2>3, <2>4
<1>9. CASE req[p].op = "create"
  <2>1. audit_log'["void"] = audit_log["void"]
        /\ audit_log'["create"] = [audit_log["create"] EXCEPT ![id] = @ + 1]
    BY <1>0, <1>2, <1>9 DEF Audit, TypeOK
  <2>2. req[p].target = NULL /\ ~ IsReversal(id)
    BY <1>0, <1>3, <1>9 DEF Requests, IsReversal
  <2>3. audit_log["create"][id] = 0
    BY <1>1, <1>2, <1>9 DEF Logs, CreationsLogged
  <2>4. \A j \in Ids : audit_log'["create"][j] =
                         IF j = id THEN 1 ELSE audit_log["create"][j]
    BY <1>0, <2>1, <2>3 DEF TypeOK
  <2>5. CreationsLogged'
    BY <1>1, <1>3, <1>5, <2>2, <2>4 DEF Logs, CreationsLogged, Committed, IsReversal, tables
  <2>6. VoidsLogged'
    BY <1>7, <1>8, <2>1 DEF VoidsLogged
  <2>. QED  BY <1>6, <2>5, <2>6 DEF Logs
<1>10. CASE req[p].op = "void"
  <2>0. PICK t \in Ids : t = req[p].target
    BY <1>0, <1>10 DEF Requests, TypeOK, Reqs
  <2>1. audit_log'["create"] = audit_log["create"]
        /\ audit_log'["void"] = [audit_log["void"] EXCEPT ![t] = @ + 1]
    BY <1>0, <1>10, <2>0 DEF Audit, TypeOK
  <2>2. CreationsLogged'
    BY <1>1, <1>5, <2>1 DEF Logs, CreationsLogged, Committed, IsReversal, tables
  <2>3. Cardinality(Pending(t)') + 1 <= Cardinality(Pending(t))
    <3>1. id \in Pending(t)  BY <1>1, <1>2, <1>10, <2>0 DEF Pending
    <3>2. Pending(t)' \subseteq Pending(t) \ {id}
      BY <1>1, <1>3, <1>5 DEF Pending
    <3>3. /\ IsFiniteSet(Pending(t) \ {id})
          /\ Cardinality(Pending(t) \ {id}) = Cardinality(Pending(t)) - 1
      BY <1>8, <3>1, FS_RemoveElement
    <3>4. Cardinality(Pending(t)') <= Cardinality(Pending(t) \ {id})
      BY <3>2, <3>3, FS_Subset
    <3>. QED  BY <1>8, <3>3, <3>4
  <2>4. \A j \in Ids : audit_log'["void"][j] =
                         IF j = t THEN audit_log["void"][j] + 1 ELSE audit_log["void"][j]
    BY <1>0, <2>1 DEF TypeOK
  <2>5. VoidsLogged'
    BY <1>7, <1>8, <2>3, <2>4 DEF VoidsLogged
  <2>. QED  BY <1>6, <2>2, <2>5 DEF Logs
<1>. QED  BY <1>4, <1>9, <1>10

LEMMA LogsStep == IInv /\ IInv' /\ Logs /\ [Next]_vars => Logs'
BY QuietStep, OtherStepsAreQuiet, CommitLogs, AuditLogs

(* The audit log never claims a creation or a void that the tables do not
   show, although its row is written after the commit, outside the
   transaction, by whichever process gets that far (TransactionService.Create
   and Void). *)
THEOREM AuditStaysSound == Spec => []AuditSound
<1>1. IInv /\ Logs => AuditSound
  <2>. SUFFICES ASSUME IInv, Logs, NEW id \in Ids
                PROVE  /\ audit_log["create"][id] <= (IF Committed(id) /\ ~ IsReversal(id)
                                                      THEN 1 ELSE 0)
                       /\ audit_log["void"][id] <= Cardinality(Reversals(id))
    BY DEF AuditSound
  <2>1. audit_log["void"][id] \in Nat /\ audit_log["create"][id] \in Nat
    BY DEF IInv, TypeOK
  <2>2. /\ Cardinality(Pending(id)) \in Nat /\ Cardinality(Reversals(id)) \in Nat
    BY PendingReversals DEF Logs, VoidsLogged
  <2>. QED  BY <2>1, <2>2 DEF Logs, CreationsLogged, VoidsLogged
<1>. QED  BY <1>1, InductiveInvariant, InitLogs, InitIInv, LogsStep, PTL DEF Spec
-----------------------------------------------------------------------------
(* The refinement: a commit is a step of the book, every other step leaves
   the book as it is. *)
bookMap == [id \in Ids |-> Journal(id)]

\* The book's operators on lines are the ledger's.
LEMMA SameLines ==
  /\ B!Lines = Lines
  /\ \A ls : B!Negate(ls) = Negate(ls)
  /\ \A ls : B!IsBalanced(ls) <=> IsBalanced(ls)
BY Zenon DEF B!Lines, Lines, B!Negate, Negate, B!IsBalanced, IsBalanced, B!SumAmounts, SumAmounts

LEMMA StutterStep ==
  UNCHANGED tables => UNCHANGED bookMap
BY DEF tables, bookMap, Journal, Committed

LEMMA BookStep ==
  ASSUME IInv, IInv', NEW p \in Procs, Committing(p)
  PROVE  B!Next
<1>0. PICK id \in Ids : id = tx[p].id  BY ApplyFacts DEF Txs
<1>1. /\ pc[p] = "commit" /\ tx[p] # NULL /\ ~ Committed(id)
      /\ journal_entries'[id] = [user |-> req[p].user, of |-> req[p].target]
      /\ journal_entries'[id] # NULL
      /\ entries'[id] = tx[p].rows
      /\ \A j \in Ids \ {id} : journal_entries'[j] = journal_entries[j] /\ entries'[j] = entries[j]
  BY <1>0, ApplyFacts, NullAssumption
<1>2. /\ IsBalanced(tx[p].rows) /\ tx[p].user = req[p].user /\ tx[p].of = req[p].target
      /\ tx[p].of # NULL => /\ Reversible(tx[p].of, tx[p].user)
                            /\ tx[p].rows = Negate(entries[tx[p].of])
  BY <1>1 DEF IInv, Transactions
<1>3. bookMap[id] = NULL /\ bookMap'[id] = [user |-> req[p].user, of |-> req[p].target,
                                            lines |-> tx[p].rows]
  BY <1>1 DEF bookMap, Journal, Committed
<1>4. bookMap' = [bookMap EXCEPT ![id] = bookMap'[id]]
  BY <1>1 DEF bookMap, Journal, Committed
<1>5. bookMap'[id] \in B!Journals
  <2>1. tx[p] \in Txs /\ req[p] \in Reqs  BY <1>1 DEF IInv, TypeOK
  <2>. QED  BY <1>3, <2>1, SameLines DEF B!Journals, Txs, Reqs
<1>6. B!Add(id)  BY <1>3, <1>4, <1>5 DEF B!Add, bookMap
<1>7. CASE req[p].target = NULL
  <2>1. B!Post(id)  BY <1>2, <1>3, <1>6, <1>7, SameLines DEF B!Post, bookMap
  <2>. QED  BY <2>1 DEF B!Next
<1>8. CASE req[p].target # NULL
  <2>1. PICK j \in Ids : j = req[p].target /\ Reversible(j, req[p].user)
                         /\ tx[p].rows = Negate(entries[j])
    BY <1>2, <1>8 DEF Reversible
  <2>2. bookMap[j] # NULL /\ bookMap[j].of = NULL /\ bookMap[j].user = req[p].user
        /\ bookMap[j].lines = entries[j]
    <3>1. bookMap[j] = [user |-> journal_entries[j].user, of |-> journal_entries[j].of,
                        lines |-> entries[j]]
      BY <2>1 DEF bookMap, Journal, Reversible
    <3>2. journal_entries[j] \in Headers /\ entries[j] \in Seq(Lines)
      BY <2>1 DEF IInv, TypeOK, Reversible, Committed
    <3>3. bookMap[j] # NULL  BY <3>1, <3>2, NullAssumption DEF Headers
    <3>. QED  BY <2>1, <3>1, <3>3 DEF Reversible, IsReversal
  <2>3. B!Reverse(id, j)
    BY <1>3, <1>6, <2>1, <2>2, SameLines DEF B!Reverse, bookMap
  <2>. QED  BY <2>3 DEF B!Next
<1>. QED  BY <1>7, <1>8

\* Only a commit changes the tables.
LEMMA OnlyCommitsChangeTables ==
  ASSUME [Next]_vars, ~ \E p \in Procs : Committing(p)
  PROVE  UNCHANGED tables
<1>1. CASE UNCHANGED vars  BY <1>1 DEF vars, tables
<1>2. CASE \E p \in Procs : Request(p)
  BY <1>2 DEF Request, Create, RefuseCreate, InternalPost, Void, Receive
<1>3. CASE \E p \in Procs : Step(p)
  BY <1>3 DEF Step, Insert, VoidInsert, Begin, InsertOverflow, CheckBalanced,
              CheckUnbalanced, VoidRead, VoidNotFound, VoidReversal, Audit, Fail,
              Committing
<1>4. CASE \E p \in Procs : Fault(p)  BY <1>4 DEF Fault, DbError, Crash, Fail
<1>. QED  BY <1>1, <1>2, <1>3, <1>4 DEF Next

(* The tables implement the append-only book: "entries are NEVER deleted or
   updated - only reversed" (app/transaction_service.go). *)
THEOREM LedgerImplementsBook == Spec => ImplementsBook
<1>1. Init => B!Init
  BY DEF Init, B!Init, Journal, Committed
<1>2. IInv /\ IInv' /\ [Next]_vars => [B!Next]_bookMap
  BY BookStep, StutterStep, OnlyCommitsChangeTables
<1>. QED  BY <1>1, <1>2, InductiveInvariant, PTL DEF Spec, ImplementsBook, B!Spec, bookMap
=============================================================================
