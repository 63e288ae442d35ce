----------------------------- MODULE MCCatalog -----------------------------
(***************************************************************************)
(* Instances of Catalog for TLC: the smallest amount is lost to rounding.  *)
(***************************************************************************)
EXTENDS Catalog, TLC

MCColumn == [a \in Amounts |-> IF a = 1 THEN 0 ELSE a]
Symmetry == Permutations(Procs) \cup Permutations(Categories) \cup Permutations(Budgets)
              \cup Permutations(Labels)
=============================================================================
