------------------------------ MODULE Calendar ------------------------------
(***************************************************************************)
(* The dates of scheduled runs.  A day is a number; a calendar tells where *)
(* months begin.  advanceNextRun leaves the arithmetic to AddDate of Go's  *)
(* time package, which keeps the day of the month and, when the next month *)
(* has no such day, counts on into the month after it.                     *)
(***************************************************************************)
EXTENDS Integers

CONSTANTS LastMonth,   \* bound: months are numbered 0 .. LastMonth
          MonthStart,  \* month -> its first day
          MonthOf,     \* day -> its month
          Shortest,    \* the length of the shortest month
          Longest      \* and of the longest

Months == 0 .. LastMonth
Days   == 0 .. MonthStart[LastMonth] - 1

ASSUME MonthsAssumption ==
  /\ LastMonth \in Nat \ {0}
  /\ MonthStart \in [Months -> Nat]
  /\ \A m, n \in Months : m < n => MonthStart[m] < MonthStart[n]

ASSUME LengthsAssumption ==
  /\ Shortest \in Nat \ {0} /\ Longest \in Nat
  /\ Longest - Shortest < Shortest
  /\ \A m \in 0 .. LastMonth - 1 :
       MonthStart[m + 1] - MonthStart[m] \in Shortest .. Longest

ASSUME MonthOfAssumption ==
  /\ MonthOf \in [Days -> 0 .. LastMonth - 1]
  /\ \A t \in Days : MonthStart[MonthOf[t]] <= t /\ t < MonthStart[MonthOf[t] + 1]

\* The day of the month, from 0.
DayOf(t) == t - MonthStart[MonthOf[t]]
-----------------------------------------------------------------------------
\* Mutant: a month is thirty days.
AddThirtyDays(t) == t + 30

\* AddDate(0, 1, 0): Date of the next month and the same day, normalised.
AddMonth(t) == MonthStart[MonthOf[t] + 1] + DayOf(t)

\* advanceNextRun.
After(t, f) == CASE f = "daily"  -> t + 1
                 [] f = "weekly" -> t + 7
                 [] OTHER        -> AddMonth(t)
-----------------------------------------------------------------------------
\* The runs of a monthly schedule, as far as the calendar goes.
RunsFrom(t) ==
  LET run[n \in 0 .. LastMonth] == IF n = 0 THEN t ELSE After(run[n - 1], "monthly")
  IN  run

\* The days from which a monthly schedule keeps pace with the months: its n-th
\* run from there is in the n-th month, or in the next once a month was too
\* short for the day; then the schedule has left one month out and runs on one
\* of the first days of each month from there on.
OnPace ==
  { t \in Days : \A n \in 0 .. LastMonth - MonthOf[t] - 2 :
      LET run == RunsFrom(t)[n]
      IN  \/ MonthOf[run] = MonthOf[t] + n /\ DayOf(run) = DayOf(t)
          \/ MonthOf[run] = MonthOf[t] + n + 1 /\ DayOf(run) < Longest - Shortest }
=============================================================================
