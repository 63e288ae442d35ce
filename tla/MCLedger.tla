------------------------------ MODULE MCLedger ------------------------------
(***************************************************************************)
(* Instance of Ledger for TLC: Scale = 2, so that an odd request amount is *)
(* half a stored unit and rounding can unbalance what was balanced, and    *)
(* the column holds magnitudes up to 2.                                    *)
(***************************************************************************)
EXTENDS Ledger, TLC

Line(a, x) == [account |-> a, amount |-> x]

CONSTANTS cash, food   \* two accounts

MCEntryLists == {
  << Line(cash, 2), Line(food, -2) >>,                  \* an expense
  << Line(cash, 1), Line(food, 1), Line(cash, -2) >>,   \* balanced, not when stored
  << Line(cash, 2), Line(food, -3) >>,                  \* a template nobody checked
  << Line(cash, 6), Line(food, -6) >>,                  \* too large for the column
  << Line(cash, 0) >> }                                 \* a single line

Symmetry == Permutations(Procs) \cup Permutations(Ids) \cup Permutations(Users)
=============================================================================
