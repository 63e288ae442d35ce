---------------------------- MODULE MCScheduler ----------------------------
(***************************************************************************)
(* Instances of Scheduler for TLC, on the calendar of the years from 2024. *)
(***************************************************************************)
EXTENDS Scheduler, TLC

\* January is month 0.
Length(m) == CASE m % 12 = 1            -> IF m = 1 THEN 29 ELSE 28
               [] m % 12 \in {3, 5, 8, 10} -> 30
               [] OTHER                  -> 31

MCMonthStart == [m \in Months |->
  LET start[k \in Months] == IF k = 0 THEN 0 ELSE start[k - 1] + Length(k - 1)
  IN  start[m]]

MCMonthOf == [t \in Days |->
  CHOOSE m \in 0 .. LastMonth - 1 : MonthStart[m] <= t /\ t < MonthStart[m + 1]]

Symmetry == Permutations(Replicas)
=============================================================================
