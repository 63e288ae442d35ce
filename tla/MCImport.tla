------------------------------ MODULE MCImport ------------------------------
(***************************************************************************)
(* Instances of Import for TLC: a file with a repeated row, one with a row *)
(* that does not parse, and one that overlaps with both.                   *)
(***************************************************************************)
EXTENDS Import, TLC

CONSTANTS coffee, rent
MCFiles == { <<coffee, rent, coffee>>, <<BadRow, rent>>, <<coffee>> }
Symmetry == Permutations(Procs)
=============================================================================
