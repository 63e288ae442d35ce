------------------------------ MODULE Amounts ------------------------------
(***************************************************************************)
(* Amounts and lines of a journal, as the application and the column       *)
(* entries.amount NUMERIC(19,4) see them.                                  *)
(*                                                                         *)
(* Two units are used.  A row of the table counts in units of 0.0001, the  *)
(* smallest step of the column.  An amount of a request is a decimal of    *)
(* any precision (shopspring/decimal); it counts in units of 0.0001/Scale, *)
(* so that Scale > 1 gives requests the digits the column cannot keep.     *)
(***************************************************************************)
EXTENDS Integers, Sequences

CONSTANTS Accounts,   \* account ids
          Scale,      \* request units in one stored unit
          MaxAmount   \* largest magnitude the column holds, in stored units

ASSUME ScaleAssumption == Scale \in Nat \ {0}
ASSUME MaxAmountAssumption == MaxAmount \in Nat

\* A line of a request or of a journal; positive = debit, negative = credit.
Lines == [account : Accounts, amount : Int]

(* Sum of the amounts of a sequence of lines: the loop over input.Entries in
   the application and SUM(amount) in the database. *)
SumAmounts(ls) ==
  LET upTo[i \in 0 .. Len(ls)] ==
        IF i = 0 THEN 0 ELSE upTo[i - 1] + ls[i].amount
  IN  upTo[Len(ls)]

\* The same lines with every sign flipped.
Negate(ls) == [i \in 1 .. Len(ls) |-> [ls[i] EXCEPT !.amount = -@]]

\* What PostgreSQL stores for a request amount: rounded half away from zero.
Stored(a) == IF a >= 0 THEN (2 * a + Scale) \div (2 * Scale)
                       ELSE -((Scale - 2 * a) \div (2 * Scale))

StoredLines(ls) == [i \in 1 .. Len(ls) |-> [ls[i] EXCEPT !.amount = Stored(@)]]

\* A stored amount that the column rejects (numeric field overflow).
Overflows(ls) == \E i \in 1 .. Len(ls) :
                   ls[i].amount > MaxAmount \/ -ls[i].amount > MaxAmount

\* A journal worth the name: two lines or more, and debits equal to credits.
IsBalanced(ls) == Len(ls) >= 2 /\ SumAmounts(ls) = 0
=============================================================================
