-------------------------- MODULE SchedulerProofs --------------------------
(***************************************************************************)
(* NeverEarly, NothingSkipped and DeletedStaysQuiet hold for               *)
(* any number of replicas, any schedules, calendar and bounds, with every  *)
(* edit, fault and crash the specification allows.                         *)
(*                                                                         *)
(* First, the steps of a schedule on any calendar whose months differ in   *)
(* length by less than the shortest of them.                               *)
(***************************************************************************)
EXTENDS Scheduler, WellFoundedInduction, TLAPS

LEMMA MonthsBounded ==
  /\ LastMonth \in Nat /\ LastMonth >= 1
  /\ \A m \in Months : MonthStart[m] \in Nat
  /\ \A m, n \in Months : m < n => MonthStart[m] < MonthStart[n]
BY MonthsAssumption

\* What is known of a day and its month.
LEMMA DayFacts ==
  ASSUME NEW t \in Days
  PROVE  /\ t \in Nat
         /\ MonthOf[t] \in Nat /\ MonthOf[t] + 1 <= LastMonth
         /\ MonthOf[t] \in Months /\ MonthOf[t] + 1 \in Months
         /\ DayOf(t) \in 0 .. Longest - 1
         /\ t = MonthStart[MonthOf[t]] + DayOf(t)
         /\ DayOf(t) < MonthStart[MonthOf[t] + 1] - MonthStart[MonthOf[t]]
<1>1. MonthOf[t] \in 0 .. LastMonth - 1
      /\ MonthStart[MonthOf[t]] <= t /\ t < MonthStart[MonthOf[t] + 1]
  BY MonthOfAssumption
<1>2. MonthOf[t] \in Months /\ MonthOf[t] + 1 \in Months
  BY <1>1, MonthsBounded DEF Months
<1>3. MonthStart[MonthOf[t] + 1] - MonthStart[MonthOf[t]] \in Shortest .. Longest
  BY <1>1, LengthsAssumption
<1>4. MonthStart[MonthOf[t]] \in Nat /\ MonthStart[MonthOf[t] + 1] \in Nat
  BY <1>2, MonthsBounded
<1>5. t \in Nat /\ LastMonth \in Months
  BY MonthsBounded DEF Days, Months
<1>. QED  BY <1>1, <1>2, <1>3, <1>4, <1>5, MonthsBounded, LengthsAssumption DEF DayOf

\* The days of a month are in that month and in no other.
LEMMA MonthIsUnique ==
  ASSUME NEW t \in Days, NEW m \in 0 .. LastMonth - 1,
         MonthStart[m] <= t, t < MonthStart[m + 1]
  PROVE  MonthOf[t] = m /\ DayOf(t) = t - MonthStart[m]
<1>0. m \in Months /\ m + 1 \in Months /\ m \in Nat  BY MonthsBounded DEF Months
<1>a. /\ MonthOf[t] \in Months /\ MonthOf[t] + 1 \in Months /\ MonthOf[t] \in Nat
      /\ MonthStart[MonthOf[t]] <= t /\ t < MonthStart[MonthOf[t] + 1] /\ t \in Nat
  BY DayFacts, MonthOfAssumption
<1>b. /\ MonthStart[m] \in Nat /\ MonthStart[m + 1] \in Nat
      /\ MonthStart[MonthOf[t]] \in Nat /\ MonthStart[MonthOf[t] + 1] \in Nat
  BY <1>0, <1>a, MonthsBounded
<1>1. ~ (MonthOf[t] < m)
  <2>. SUFFICES ASSUME MonthOf[t] < m PROVE FALSE  OBVIOUS
  <2>1. MonthOf[t] + 1 = m \/ MonthOf[t] + 1 < m  BY <1>0, <1>a
  <2>2. MonthStart[MonthOf[t] + 1] <= MonthStart[m]
    BY <2>1, <1>0, <1>a, <1>b, MonthsBounded
  <2>. QED  BY <2>2, <1>a, <1>b
<1>2. ~ (m < MonthOf[t])
  <2>. SUFFICES ASSUME m < MonthOf[t] PROVE FALSE  OBVIOUS
  <2>1. m + 1 = MonthOf[t] \/ m + 1 < MonthOf[t]  BY <1>0, <1>a
  <2>2. MonthStart[m + 1] <= MonthStart[MonthOf[t]]
    BY <2>1, <1>0, <1>a, <1>b, MonthsBounded
  <2>. QED  BY <2>2, <1>a, <1>b
<1>3. MonthOf[t] = m  BY <1>0, <1>a, <1>1, <1>2
<1>. QED  BY <1>3 DEF DayOf

(* Whatever the frequency, the next run is later than the one it follows: a
   pass cannot loop on a schedule (advanceNextRun). *)
THEOREM NextRunIsLater ==
  ASSUME NEW t \in Days, NEW f
  PROVE  After(t, f) \in Nat /\ After(t, f) > t
<1>1. AddMonth(t) \in Nat /\ AddMonth(t) > t
  <2>1. MonthStart[MonthOf[t]] \in Nat /\ MonthStart[MonthOf[t] + 1] \in Nat
        /\ MonthStart[MonthOf[t]] < MonthStart[MonthOf[t] + 1]
    BY DayFacts, MonthsBounded
  <2>. QED  BY <2>1, DayFacts DEF AddMonth
<1>. QED  BY <1>1, DayFacts DEF After

(* Where a monthly schedule goes from any day: to the same day of the next
   month or, when that month is too short, to one of the first days of the
   month after it, which every month has.  So a schedule leaves out one month
   at most, and moves to another day at most once (advanceNextRun). *)
THEOREM MonthlyStep ==
  ASSUME NEW t \in Days, AddMonth(t) \in Days
  PROVE  /\ \/ /\ MonthOf[AddMonth(t)] = MonthOf[t] + 1
               /\ DayOf(AddMonth(t)) = DayOf(t)
            \/ /\ MonthOf[AddMonth(t)] = MonthOf[t] + 2
               /\ DayOf(AddMonth(t)) < Longest - Shortest
               /\ DayOf(t) >= Shortest
         /\ DayOf(t) < Longest - Shortest =>
              MonthOf[AddMonth(t)] = MonthOf[t] + 1 /\ DayOf(AddMonth(t)) = DayOf(t)
<1>. DEFINE m == MonthOf[t]
            d == DayOf(t)
            u == AddMonth(t)
<1>0. /\ m \in Nat /\ m + 1 \in Months /\ m + 1 <= LastMonth /\ t \in Nat
      /\ d \in 0 .. Longest - 1 /\ Longest \in Nat /\ Shortest \in Nat
      /\ Longest - Shortest < Shortest
      /\ MonthStart[m + 1] \in Nat /\ u = MonthStart[m + 1] + d /\ u \in Nat
  BY DayFacts, MonthsBounded, LengthsAssumption DEF AddMonth
<1>1. m + 1 < LastMonth
  <2>1. u < MonthStart[LastMonth]  BY <1>0, MonthsBounded DEF Days, Months
  <2>2. MonthStart[m + 1] < MonthStart[LastMonth]
    BY <2>1, <1>0, MonthsBounded DEF Months
  <2>. QED  BY <2>2, <1>0, MonthsBounded
<1>2. m + 1 \in 0 .. LastMonth - 1 /\ m + 2 \in Months
  BY <1>0, <1>1, MonthsBounded DEF Months
<1>3. MonthStart[m + 2] \in Nat /\ MonthStart[m + 2] - MonthStart[m + 1] \in Shortest .. Longest
  <2>1. MonthStart[(m + 1) + 1] - MonthStart[m + 1] \in Shortest .. Longest
    BY <1>2, LengthsAssumption
  <2>2. (m + 1) + 1 = m + 2  BY <1>0
  <2>. QED  BY <1>2, <2>1, <2>2, MonthsBounded
<1>4. CASE u < MonthStart[m + 2]
  <2>1. (m + 1) + 1 = m + 2 /\ MonthStart[m + 1] <= u  BY <1>0
  <2>2. MonthOf[u] = m + 1 /\ DayOf(u) = u - MonthStart[m + 1]
    BY <1>2, <1>4, <2>1, MonthIsUnique
  <2>3. DayOf(u) = d  BY <1>0, <2>2
  <2>. QED  BY <2>2, <2>3
<1>5. CASE u >= MonthStart[m + 2]
  <2>1. d >= Shortest /\ u - MonthStart[m + 2] < Longest - Shortest
    BY <1>0, <1>3, <1>5
  <2>2. m + 2 < LastMonth
    <3>1. u < MonthStart[LastMonth]  BY <1>0, MonthsBounded DEF Days, Months
    <3>2. m + 2 # LastMonth  BY <3>1, <1>0, <1>3, <1>5
    <3>. QED  BY <3>2, <1>0, <1>1, MonthsBounded
  <2>3. m + 2 \in 0 .. LastMonth - 1 /\ (m + 2) + 1 = m + 3 /\ m + 3 \in Months
    BY <2>2, <1>0, MonthsBounded DEF Months
  <2>4. MonthStart[m + 3] \in Nat /\ MonthStart[m + 3] - MonthStart[m + 2] \in Shortest .. Longest
    <3>1. MonthStart[(m + 2) + 1] - MonthStart[m + 2] \in Shortest .. Longest
      BY <2>3, LengthsAssumption
    <3>. QED  BY <3>1, <2>3, MonthsBounded
  <2>5. u < MonthStart[m + 3]  BY <2>1, <2>4, <1>0, <1>3
  <2>6. MonthOf[u] = m + 2 /\ DayOf(u) = u - MonthStart[m + 2]
    BY <2>3, <2>5, <1>5, MonthIsUnique
  <2>. QED  BY <2>1, <2>6, <1>0
<1>. QED  BY <1>0, <1>3, <1>4, <1>5

\* A non-empty set of naturals has a least element.
LEMMA LeastNat ==
  ASSUME NEW T \in SUBSET Nat, T # {}
  PROVE  \E m \in T : \A k \in T : m <= k
<1>1. PICK m \in T : \A k \in T : ~ (<<k, m>> \in OpToRel(<, Nat))
  BY NatLessThanWellFounded, WFMin
<1>2. \A k \in T : ~ (k < m)
  <2>1. SUFFICES ASSUME NEW k \in T, k < m PROVE <<k, m>> \in OpToRel(<, Nat)
    BY <1>1
  <2>2. <<k, m>> \in Nat \X Nat /\ <<k, m>>[1] < <<k, m>>[2]  BY <2>1
  <2>. QED  BY <2>2, Zenon DEF OpToRel
<1>. QED  BY <1>2

\* f lists the first N runs of a monthly schedule from t.
Lists(t, N, f) ==
  f = [n \in 0 .. N |-> IF n = 0 THEN t ELSE After(f[n - 1], "monthly")]

LEMMA ListsExist ==
  ASSUME NEW t, NEW N \in Nat
  PROVE  \E f : Lists(t, N, f)
<1>. DEFINE T == {n \in Nat : ~ \E f : Lists(t, n, f)}
<1>1. SUFFICES ASSUME T # {} PROVE FALSE  OBVIOUS
<1>2. PICK m \in T : \A k \in T : m <= k  BY <1>1, LeastNat
<1>3. m # 0
  <2>1. Lists(t, 0, [n \in 0 .. 0 |-> t])  BY DEF Lists
  <2>. QED  BY <2>1, <1>2
<1>4. m \in Nat /\ m - 1 \in Nat /\ m - 1 \notin T  BY <1>2, <1>3
<1>5. PICK g : Lists(t, m - 1, g)  BY <1>4
<1>. DEFINE h == [n \in 0 .. m |-> IF n = m THEN After(g[m - 1], "monthly") ELSE g[n]]
<1>6. Lists(t, m, h)
  <2>0. \A j \in 0 .. (m - 1) : g[j] = IF j = 0 THEN t ELSE After(g[j - 1], "monthly")
    BY <1>5 DEF Lists
  <2>1. \A n \in 0 .. m : h[n] = IF n = 0 THEN t ELSE After(h[n - 1], "monthly")
    <3>. SUFFICES ASSUME NEW n \in 0 .. m
                  PROVE  h[n] = IF n = 0 THEN t ELSE After(h[n - 1], "monthly")
      OBVIOUS
    <3>1. CASE n = m  BY <3>1, <1>3, <1>4
    <3>2. CASE n # m
      <4>1. n \in 0 .. (m - 1) /\ n - 1 # m  BY <3>2, <1>4
      <4>2. h[n] = g[n] /\ (n # 0 => h[n - 1] = g[n - 1])  BY <4>1, <1>4
      <4>. QED  BY <4>1, <4>2, <2>0
    <3>. QED  BY <3>1, <3>2
  <2>2. h = [n \in 0 .. m |-> h[n]]  OBVIOUS
  <2>. HIDE DEF h
  <2>. QED  BY <2>1, <2>2 DEF Lists
<1>. QED  BY <1>2, <1>6

\* RunsFrom is the list it is defined to be.
LEMMA RunsFromFacts ==
  ASSUME NEW t
  PROVE  /\ RunsFrom(t)[0] = t
         /\ \A n \in 1 .. LastMonth : RunsFrom(t)[n] = AddMonth(RunsFrom(t)[n - 1])
<1>0. LastMonth \in Nat  BY MonthsBounded
<1>. DEFINE P(f) == f = [n \in 0 .. LastMonth |->
                           IF n = 0 THEN t ELSE After(f[n - 1], "monthly")]
            s == CHOOSE f : P(f)
<1>1. \E f : P(f)  BY <1>0, ListsExist DEF Lists
<1>2. P(s)  BY <1>1, Zenon
<1>3. RunsFrom(t) = s  BY Zenon DEF RunsFrom
<1>. HIDE DEF s
<1>4. \A n \in 0 .. LastMonth : s[n] = IF n = 0 THEN t ELSE After(s[n - 1], "monthly")
  BY <1>2
<1>. QED  BY <1>0, <1>3, <1>4 DEF After

\* A run of a day ahead of the last two months is on the calendar as well.
LEMMA NextRunOnCalendar ==
  ASSUME NEW t \in Days,
         \/ MonthOf[t] + 3 <= LastMonth
         \/ MonthOf[t] + 2 <= LastMonth /\ DayOf(t) < Longest - Shortest
  PROVE  AddMonth(t) \in Days
<1>. DEFINE m == MonthOf[t]
            d == DayOf(t)
<1>1. /\ m \in Nat /\ m + 2 <= LastMonth /\ LastMonth \in Nat
      /\ d \in Nat /\ d <= Longest - 1 /\ Longest \in Nat /\ Shortest \in Nat
      /\ Longest - Shortest < Shortest
  BY DayFacts, MonthsBounded, LengthsAssumption
<1>2. m + 1 \in Months /\ m + 2 \in Months /\ m + 1 \in 0 .. LastMonth - 1 /\ (m + 1) + 1 = m + 2
      /\ LastMonth \in Months
  BY <1>1 DEF Months
<1>3. /\ MonthStart[m + 1] \in Nat /\ MonthStart[m + 2] \in Nat /\ MonthStart[LastMonth] \in Nat
      /\ MonthStart[m + 2] >= MonthStart[m + 1] + Shortest
  <2>1. MonthStart[(m + 1) + 1] - MonthStart[m + 1] \in Shortest .. Longest
    BY <1>2, LengthsAssumption
  <2>. QED  BY <1>1, <1>2, <2>1, MonthsBounded
<1>4. AddMonth(t) = MonthStart[m + 1] + d  BY DEF AddMonth
<1>5. CASE d < Longest - Shortest
  <2>1. MonthStart[m + 2] <= MonthStart[LastMonth]
    <3>1. m + 2 = LastMonth \/ m + 2 < LastMonth  BY <1>1
    <3>. QED  BY <3>1, <1>2, <1>3, MonthsBounded
  <2>. QED  BY <1>1, <1>3, <1>4, <1>5, <2>1 DEF Days
<1>6. CASE m + 3 <= LastMonth
  <2>1. m + 3 \in Months /\ m + 2 \in 0 .. LastMonth - 1 /\ (m + 2) + 1 = m + 3
    BY <1>1, <1>6 DEF Months
  <2>2. MonthStart[m + 3] \in Nat /\ MonthStart[m + 3] >= MonthStart[m + 2] + Shortest
    <3>1. MonthStart[(m + 2) + 1] - MonthStart[m + 2] \in Shortest .. Longest
      BY <2>1, LengthsAssumption
    <3>. QED  BY <1>1, <1>3, <2>1, <3>1, MonthsBounded
  <2>3. MonthStart[m + 3] <= MonthStart[LastMonth]
    <3>1. m + 3 = LastMonth \/ m + 3 < LastMonth  BY <1>1, <1>6
    <3>. QED  BY <3>1, <1>2, <2>1, <2>2, MonthsBounded
  <2>. QED  BY <1>1, <1>3, <1>4, <2>2, <2>3 DEF Days
<1>. QED  BY <1>5, <1>6

(* From whatever day it starts, a monthly schedule leaves out one month at
   most, however far ahead one looks: it is on pace (advanceNextRun). *)
THEOREM EveryDayIsOnPace == OnPace = Days
<1>. SUFFICES ASSUME NEW t \in Days PROVE t \in OnPace
  BY DEF OnPace
<1>. DEFINE m == MonthOf[t]
            run == RunsFrom(t)
            K == LastMonth - m - 2
            Good(n) == /\ run[n] \in Days
                       /\ \/ MonthOf[run[n]] = m + n /\ DayOf(run[n]) = DayOf(t)
                          \/ MonthOf[run[n]] = m + n + 1 /\ DayOf(run[n]) < Longest - Shortest
            T == {n \in Nat : n <= K /\ ~ Good(n)}
<1>0. m \in Nat /\ LastMonth \in Nat /\ K \in Int /\ K <= LastMonth  BY DayFacts, MonthsBounded
<1>1. T = {}
  <2>. SUFFICES ASSUME T # {} PROVE FALSE  OBVIOUS
  <2>1. PICK k \in T : \A j \in T : k <= j  BY LeastNat
  <2>2. k # 0
    <3>1. run[0] = t  BY RunsFromFacts
    <3>. QED  BY <2>1, <3>1, <1>0
  <2>3. k \in 1 .. LastMonth /\ k - 1 \in Nat /\ k <= K /\ k - 1 \notin T
    BY <2>1, <2>2, <1>0
  <2>4. Good(k - 1)  BY <2>3, <1>0
  <2>. DEFINE u == run[k - 1]
  <2>5. run[k] = AddMonth(u)  BY <2>3, RunsFromFacts
  <2>6. u \in Days
        /\ \/ MonthOf[u] = m + (k - 1) /\ DayOf(u) = DayOf(t)
           \/ MonthOf[u] = m + (k - 1) + 1 /\ DayOf(u) < Longest - Shortest
    BY <2>4
  <2>. HIDE DEF run, u
  <2>7. AddMonth(u) \in Days
    BY <2>3, <2>6, <1>0, NextRunOnCalendar
  <2>8. Good(k)
    <3>1. CASE MonthOf[u] = m + (k - 1) /\ DayOf(u) = DayOf(t)
      BY <3>1, <2>3, <2>5, <2>6, <2>7, <1>0, MonthlyStep
    <3>2. CASE MonthOf[u] = m + (k - 1) + 1 /\ DayOf(u) < Longest - Shortest
      BY <3>2, <2>3, <2>5, <2>6, <2>7, <1>0, MonthlyStep
    <3>. QED  BY <3>1, <3>2, <2>6
  <2>. QED  BY <2>1, <2>8
<1>2. \A n \in 0 .. K : Good(n)  BY <1>0, <1>1
<1>. HIDE DEF run
<1>. QED  BY <1>2 DEF OnPace, run
-----------------------------------------------------------------------------
\* The copies of a pass were due when they were read.
Copies ==
  \A r \in Replicas, s \in Schedules :
    due[r][s] # NULL => due[r][s].next_run <= clock

\* Between the two statements the journal of the run has been posted.
Advancing ==
  \A r \in Replicas :
    pc[r] = "advance" => posted[cur[r]][due[r][cur[r]].next_run] > 0

(* A schedule that was deleted while no pass held it is in no pass, and no
   query finds it. *)
Dormant ==
  \A s \in deleted \ held :
    /\ table[s] # NULL /\ ~ table[s].is_active
    /\ \A r \in Replicas : due[r][s] = NULL

(* The runs that passes have left behind since a user last set next_run, and
   the one ahead of them, m: each of those behind was posted and leads to
   another of them or to m.  The row, and the copies that are not older than
   the user's write, stand at one of them. *)
Links(s, P, m) ==
  /\ table[s].next_run \in P \cup {m}
  /\ \A r \in Replicas \ stale[s] : due[r][s] # NULL =>
       due[r][s].next_run \in P \cup {m} /\ due[r][s].frequency = table[s].frequency
  /\ \A p \in P : p < m /\ posted[s][p] > 0 /\ After(p, table[s].frequency) \in P \cup {m}

Chained(s) == \E P \in SUBSET Times, m \in Runs : Links(s, P, m)

Chain == \A s \in Schedules : table[s] # NULL => Chained(s)

Parts == NeverEarly /\ Copies /\ Advancing
IInv  == TypeOK /\ Parts /\ Chain /\ Dormant

-----------------------------------------------------------------------------
\* The clock stays within the calendar.
LEMMA TimesAreDays ==
  /\ FirstTime \in Times /\ Times \subseteq Days /\ Times \subseteq Runs /\ Runs \subseteq Nat
  /\ FirstTime \in Nat /\ MaxTime \in Nat
<1>1. MaxTime \in 0 .. MonthStart[LastMonth] - 1  BY MaxTimeAssumption DEF Days
<1>2. MonthStart[LastMonth] \in Nat  BY MonthsBounded DEF Months
<1>3. FirstTime \in 0 .. MaxTime  BY MaxTimeAssumption
<1>. QED  BY <1>1, <1>2, <1>3 DEF Times, Days, Runs

LEMMA InitIInv == Init => IInv
<1>. SUFFICES ASSUME Init PROVE IInv  OBVIOUS
<1>. USE DEF Init
<1>1. TypeOK  BY TimesAreDays DEF TypeOK, Times, Idle
<1>2. Parts
  BY DEF Parts, NeverEarly, Copies, Advancing
<1>3. Dormant /\ Chain  BY DEF Dormant, Chain
<1>. QED  BY <1>1, <1>2, <1>3 DEF IInv

\* Posting one more journal keeps the shape of the history.
LEMMA PostedType ==
  ASSUME TypeOK, NEW s \in Schedules, NEW t, Posted(s, t)
  PROVE  /\ posted' \in [Schedules -> [Times -> Nat]]
         /\ t \in Times => posted'[s][t] > 0
         /\ \A x \in Schedules, u \in Times : posted'[x][u] >= posted[x][u]
         /\ \A x \in Schedules, u \in Times :
              posted'[x][u] > 0 => posted[x][u] > 0 \/ (x = s /\ u = t)
<1>1. posted[s] \in [Times -> Nat]  BY DEF TypeOK
<1>2. posted' = [posted EXCEPT ![s] = [posted[s] EXCEPT ![t] = posted[s][t] + 1]]
  BY DEF Posted
<1>3. CASE t \in Times
  <2>1. [posted[s] EXCEPT ![t] = posted[s][t] + 1] \in [Times -> Nat]  BY <1>1, <1>3
  <2>. QED  BY <1>1, <1>2, <1>3, <2>1 DEF TypeOK
<1>4. CASE t \notin Times
  <2>1. [posted[s] EXCEPT ![t] = posted[s][t] + 1] = posted[s]  BY <1>1, <1>4
  <2>2. posted' = posted  BY <1>2, <2>1 DEF TypeOK
  <2>. QED  BY <1>4, <2>2 DEF TypeOK
<1>. QED  BY <1>3, <1>4
-----------------------------------------------------------------------------
\* What becomes of the history when the row of s is replaced.
LEMMA TakenType ==
  ASSUME TypeOK, NEW s \in Schedules, NEW row \in Rows, NEW by,
         table[s] \in Rows, TakenAway(s, row, by)
  PROVE  stale' \in [Schedules -> SUBSET Replicas] /\ lost' \in [Schedules -> SUBSET Runs]
<1>1. table[s].next_run \in Runs  BY DEF Rows
<1>. QED  BY <1>1 DEF TakenAway, TypeOK

LEMMA TypeStep == TypeOK /\ [Next]_vars => TypeOK'
<1>. SUFFICES ASSUME TypeOK, [Next]_vars PROVE TypeOK'  OBVIOUS
<1>. USE DEF replica, user, history
<1>1. CASE UNCHANGED vars  BY <1>1 DEF TypeOK, vars, Idle
<1>2. CASE Tick  BY <1>2, TimesAreDays DEF TypeOK, Tick, Times, Idle
<1>3. CASE User
  <2>1. ASSUME NEW s \in Schedules, NEW f \in Frequencies, NEW t \in Times, Create(s, f, t)
        PROVE  TypeOK'
    BY <2>1, TimesAreDays DEF TypeOK, Create, Rows, Times, Idle
  <2>2. ASSUME NEW s \in Schedules, UpdateRead(s) PROVE TypeOK'
    BY <2>2 DEF TypeOK, UpdateRead, Idle
  <2>3. ASSUME NEW f \in Frequencies \cup {NULL}, NEW t \in Times \cup {NULL},
               NEW active \in BOOLEAN, UpdateWrite(f, t, active)
        PROVE  TypeOK'
    <3>1. edit.id \in Schedules /\ edit.row \in Rows  BY <2>3 DEF TypeOK, UpdateWrite
    <3>2. [next_run  |-> IF t = NULL THEN edit.row.next_run ELSE t,
           frequency |-> IF f = NULL THEN edit.row.frequency ELSE f,
           is_active |-> active] \in Rows
      BY <3>1, TimesAreDays DEF Rows, Times
    <3>3. table' \in [Schedules -> Rows \cup {NULL}]
      BY <2>3, <3>1, <3>2 DEF TypeOK, UpdateWrite
    <3>4. PICK s \in Schedules, row \in Rows : s = edit.id /\ TakenAway(s, row, {})
                                              /\ table' = [table EXCEPT ![s] = row]
      BY <2>3, <3>1, <3>2 DEF UpdateWrite
    <3>5. table[s] \in Rows  BY <2>3, <3>4 DEF UpdateWrite, TypeOK
    <3>6. stale' \in [Schedules -> SUBSET Replicas] /\ lost' \in [Schedules -> SUBSET Runs]
      BY <3>4, <3>5, TakenType
    <3>7. \A x \in Schedules : table[x] # NULL => table'[x] # NULL
      BY <3>4, NullAssumption DEF TypeOK
    <3>. QED  BY <2>3, <3>3, <3>6, <3>7 DEF TypeOK, UpdateWrite, Idle
  <2>4. CASE UpdateFails  BY <2>4 DEF TypeOK, UpdateFails, Idle
  <2>5. ASSUME NEW s \in Schedules, Delete(s) PROVE TypeOK'
    <3>0. table[s] \in Rows  BY <2>5 DEF Delete, TypeOK
    <3>1. [table[s] EXCEPT !.is_active = FALSE] \in Rows  BY <3>0 DEF Rows
    <3>2. table' \in [Schedules -> Rows \cup {NULL}]
          /\ \A x \in Schedules : table[x] # NULL => table'[x] # NULL
      BY <2>5, <3>1, NullAssumption DEF TypeOK, Delete
    <3>3. lost' \in [Schedules -> SUBSET Runs]  BY <2>5, <3>0 DEF TypeOK, Delete, Rows
    <3>. QED  BY <2>5, <3>2, <3>3 DEF TypeOK, Delete, Idle
  <2>. QED  BY <1>3, <2>1, <2>2, <2>3, <2>4, <2>5 DEF User
<1>4. ASSUME NEW r \in Replicas, Pass(r) PROVE TypeOK'
  <2>1. CASE ListDue(r)
    <3>1. \A s \in Schedules : IsDue(s) => table[s].next_run \in Times
      <4>. SUFFICES ASSUME NEW s \in Schedules, IsDue(s) PROVE table[s].next_run \in Times
           OBVIOUS
      <4>1. table[s] \in Rows  BY DEF TypeOK, IsDue
      <4>2. table[s].next_run \in Runs /\ table[s].next_run <= clock  BY <4>1 DEF Rows, IsDue
      <4>. QED  BY <4>2, TimesAreDays DEF TypeOK, Times, Runs
    <3>2. stale' \in [Schedules -> SUBSET Replicas]  BY <2>1 DEF TypeOK, ListDue, Fresh
    <3>. QED  BY <2>1, <3>1, <3>2, NullAssumption DEF TypeOK, ListDue, Idle, IsDue
  <2>2. CASE Advance(r)
    <3>1. cur[r] \in Schedules /\ due[r][cur[r]] \in Rows  BY <2>2 DEF TypeOK, Advance
    <3>2. Advanced(due[r][cur[r]]) \in Rows
      <4>1. PICK row \in Rows : row = due[r][cur[r]]  BY <3>1
      <4>2. row.next_run \in Times
        BY <2>2, <3>1, <4>1, NullAssumption DEF TypeOK, Advance
      <4>3. After(row.next_run, row.frequency) \in Runs
        BY <4>2, NextRunIsLater, TimesAreDays DEF Times, Runs
      <4>. QED  BY <4>1, <4>3 DEF Advanced, Rows
    <3>3. PICK s \in Schedules, row \in Rows : s = cur[r] /\ row = Advanced(due[r][s])
      BY <3>1, <3>2
    <3>4. table[s] \in Rows  BY <2>2, <3>1, <3>3, NullAssumption DEF Advance, TypeOK
    <3>5. stale' \in [Schedules -> SUBSET Replicas] /\ lost' \in [Schedules -> SUBSET Runs]
      <4>1. CASE TakenAway(s, row, {r})  BY <3>4, <4>1, TakenType
      <4>2. CASE lost' = [lost EXCEPT ![s] = @ \ Stands(row)] /\ stale' = stale
        BY <4>2 DEF TypeOK
      <4>. QED  BY <2>2, <3>3, <4>1, <4>2 DEF Advance
    <3>6. table' = [table EXCEPT ![s] = row] /\ row # NULL
      BY <2>2, <3>3, NullAssumption DEF Advance
    <3>7. table' \in [Schedules -> Rows \cup {NULL}]
          /\ \A x \in Schedules : table[x] # NULL => table'[x] # NULL
      BY <3>6 DEF TypeOK
    <3>. QED  BY <2>2, <3>1, <3>5, <3>7 DEF TypeOK, Advance, Skip, Idle
  <2>3. CASE EndPass(r)  BY <2>3 DEF TypeOK, EndPass, Idle
  <2>4. CASE Restart(r)  BY <2>4 DEF TypeOK, Restart, Idle
  <2>5. ASSUME NEW s \in Schedules, Post(r, s) PROVE TypeOK'
    <3>1. posted' \in [Schedules -> [Times -> Nat]]  BY <2>5, PostedType DEF Post
    <3>. QED  BY <2>5, <3>1 DEF TypeOK, Post, First, Idle
  <2>6. ASSUME NEW s \in Schedules, Refuse(r, s) PROVE TypeOK'
    BY <2>6, NullAssumption DEF TypeOK, Refuse, Skip, Idle
  <2>. QED  BY <1>4, <2>1, <2>2, <2>3, <2>4, <2>5, <2>6 DEF Pass
<1>5. ASSUME NEW r \in Replicas, Fault(r) PROVE TypeOK'
  <2>1. CASE Crash(r)  BY <2>1 DEF TypeOK, Crash, Idle
  <2>2. CASE AdvanceFails(r)  BY <2>2, NullAssumption DEF TypeOK, AdvanceFails, Skip, Idle
  <2>3. ASSUME NEW s \in Schedules, NEW committed \in BOOLEAN, PostFails(r, s, committed)
        PROVE  TypeOK'
    <3>1. posted' \in [Schedules -> [Times -> Nat]]
      BY <2>3, PostedType DEF PostFails, TypeOK
    <3>. QED  BY <2>3, <3>1, NullAssumption DEF TypeOK, PostFails, Skip, Idle
  <2>. QED  BY <1>5, <2>1, <2>2, <2>3 DEF Fault
<1>. QED  BY <1>1, <1>2, <1>3, <1>4, <1>5 DEF Next
-----------------------------------------------------------------------------
\* What has been posted stays so, and no step turns the clock back.
Grows == /\ clock' >= clock
         /\ \A s \in Schedules, t \in Times : posted[s][t] > 0 => posted'[s][t] > 0

LEMMA GrowsStep == TypeOK /\ [Next]_vars => Grows
<1>. SUFFICES ASSUME TypeOK, [Next]_vars PROVE Grows  OBVIOUS
<1>. USE DEF replica, user, history
<1>0. clock \in Int  BY DEF TypeOK, Times
<1>1. CASE UNCHANGED vars  BY <1>0, <1>1 DEF vars, Grows
<1>2. CASE Tick  BY <1>0, <1>2 DEF Tick, Grows
<1>3. CASE User
  <2>1. clock' = clock /\ posted' = posted
    BY <1>3 DEF User, Create, UpdateRead, UpdateWrite, UpdateFails, Delete
  <2>. QED  BY <1>0, <2>1 DEF Grows
<1>4. ASSUME NEW r \in Replicas, Pass(r) PROVE Grows
  <2>1. ASSUME NEW s \in Schedules, Post(r, s) PROVE Grows
    <3>1. \A x \in Schedules, t \in Times : posted'[x][t] >= posted[x][t]
      BY <2>1, PostedType DEF Post
    <3>2. \A x \in Schedules, t \in Times : posted[x][t] \in Nat /\ posted'[x][t] \in Nat
      BY <2>1, PostedType DEF Post, TypeOK
    <3>. QED  BY <1>0, <2>1, <3>1, <3>2 DEF Post, Grows
  <2>. QED  BY <1>0, <1>4, <2>1 DEF Pass, ListDue, Advance, EndPass, Restart, Refuse, Grows
<1>5. ASSUME NEW r \in Replicas, Fault(r) PROVE Grows
  <2>1. ASSUME NEW s \in Schedules, NEW committed \in BOOLEAN, PostFails(r, s, committed)
        PROVE  Grows
    <3>1. CASE UNCHANGED posted  BY <1>0, <2>1, <3>1 DEF PostFails, Grows
    <3>2. CASE Posted(s, due[r][s].next_run)
      <4>1. \A x \in Schedules, t \in Times : posted'[x][t] >= posted[x][t]
        BY <3>2, PostedType
      <4>2. \A x \in Schedules, t \in Times : posted[x][t] \in Nat /\ posted'[x][t] \in Nat
        BY <3>2, PostedType DEF TypeOK
      <4>. QED  BY <1>0, <2>1, <4>1, <4>2 DEF PostFails, Grows
    <3>. QED  BY <2>1, <3>1, <3>2 DEF PostFails
  <2>. QED  BY <1>0, <1>5, <2>1 DEF Fault, Crash, AdvanceFails, Grows
<1>. QED  BY <1>1, <1>2, <1>3, <1>4, <1>5 DEF Next

\* Steps that post nothing: what passes hold was held before, or is due now.
LEMMA QuietStep ==
  ASSUME IInv, TypeOK', Grows, UNCHANGED posted,
         \A r \in Replicas, s \in Schedules :
           due'[r][s] # NULL => \/ due'[r][s] = due[r][s]
                                \/ IsDue(s) /\ due'[r][s] = table[s],
         \A r \in Replicas : pc'[r] = "advance" =>
           pc[r] = "advance" /\ cur'[r] = cur[r] /\ due'[r] = due[r]
  PROVE  Parts'
<1>. USE DEF IInv, Parts
<1>0. clock \in Int /\ clock' \in Int  BY DEF TypeOK, Times
<1>1. NeverEarly'  BY <1>0 DEF NeverEarly, Grows, Times
<1>2. Copies'
  <2>. SUFFICES ASSUME NEW r \in Replicas, NEW s \in Schedules, due'[r][s] # NULL
                PROVE  due'[r][s].next_run <= clock'
    BY DEF Copies
  <2>1. PICK row \in Rows : row = due'[r][s]  BY DEF TypeOK
  <2>2. row.next_run \in Nat  BY TimesAreDays DEF Rows
  <2>3. row.next_run <= clock  BY <2>1 DEF Copies, IsDue
  <2>. QED  BY <1>0, <2>1, <2>2, <2>3 DEF Grows
<1>3. Advancing'  BY DEF Advancing
<1>. QED  BY <1>1, <1>2, <1>3

\* Steps that post the run of a copy.
LEMMA PostStep ==
  ASSUME IInv, TypeOK', Grows, NEW r \in Replicas, NEW s \in Schedules,
         due[r][s] # NULL, Posted(s, due[r][s].next_run), UNCHANGED clock,
         \A q \in Replicas, x \in Schedules :
           due'[q][x] # NULL => due'[q][x] = due[q][x],
         \A q \in Replicas : pc'[q] = "advance" =>
           \/ q = r /\ cur'[q] = s /\ due' = due
           \/ pc[q] = "advance" /\ cur'[q] = cur[q] /\ due'[q] = due[q]
  PROVE  Parts'
<1>. USE DEF IInv, Parts
<1>0. clock \in Int /\ clock' = clock  BY DEF TypeOK, Times
<1>1. PICK t \in Times : t = due[r][s].next_run /\ t <= clock
  BY DEF TypeOK, Copies
<1>2. /\ posted'[s][t] > 0
      /\ \A x \in Schedules, u \in Times :
           posted'[x][u] > 0 => posted[x][u] > 0 \/ (x = s /\ u = t)
  BY <1>1, PostedType
<1>3. NeverEarly'  BY <1>0, <1>1, <1>2 DEF NeverEarly
<1>4. Copies'  BY <1>0 DEF Copies
<1>5. Advancing'
  <2>. SUFFICES ASSUME NEW q \in Replicas, pc'[q] = "advance"
                PROVE  posted'[cur'[q]][due'[q][cur'[q]].next_run] > 0
    BY DEF Advancing
  <2>1. CASE q = r /\ cur'[q] = s /\ due' = due  BY <2>1, <1>1, <1>2
  <2>2. CASE pc[q] = "advance" /\ cur'[q] = cur[q] /\ due'[q] = due[q]
    <3>1. cur[q] \in Schedules /\ due[q][cur[q]].next_run \in Times  BY <2>2 DEF TypeOK
    <3>. QED  BY <2>2, <3>1 DEF Advancing, Grows
  <2>. QED  BY <2>1, <2>2
<1>. QED  BY <1>3, <1>4, <1>5
-----------------------------------------------------------------------------
\* The row of s stays where it is, and no older copy becomes a fresh one.
LEMMA ChainKept ==
  ASSUME IInv, Grows, NEW s \in Schedules, table[s] # NULL,
         table'[s].next_run = table[s].next_run,
         table'[s].frequency = table[s].frequency,
         \A r \in Replicas \ stale'[s] : due'[r][s] # NULL =>
           \/ r \notin stale[s] /\ due'[r][s] = due[r][s]
           \/ due'[r][s] = table[s]
  PROVE  Chained(s)'
<1>1. PICK P \in SUBSET Times, m \in Runs : Links(s, P, m)
  BY DEF IInv, Chain, Chained
<1>2. ASSUME NEW r \in Replicas \ stale'[s], due'[r][s] # NULL
      PROVE  due'[r][s].next_run \in P \cup {m} /\ due'[r][s].frequency = table[s].frequency
  BY <1>1, <1>2 DEF Links
<1>3. ASSUME NEW p \in P
      PROVE  p < m /\ posted'[s][p] > 0 /\ After(p, table'[s].frequency) \in P \cup {m}
  BY <1>1 DEF Links, Grows
<1>4. Links(s, P, m)'  BY <1>1, <1>2, <1>3 DEF Links
<1>. QED  BY <1>4 DEF Chained

\* A user, or a copy older than a user's write, has set next_run.
LEMMA ChainStarts ==
  ASSUME NEW s \in Schedules, table'[s] \in Rows,
         \A r \in Replicas \ stale'[s] : due'[r][s] = NULL
  PROVE  Chained(s)'
<1>1. PICK m \in Runs : m = table'[s].next_run  BY DEF Rows
<1>2. Links(s, {}, m)'  BY <1>1 DEF Links
<1>. QED  BY <1>2 DEF Chained

\* A pass advances a copy that is not older than the user's write.
LEMMA ChainGrows ==
  ASSUME IInv, NEW r \in Replicas, Advance(r), NEW s \in Schedules, s = cur[r],
         r \notin stale[s]
  PROVE  /\ Chained(s)'
         /\ table'[s].next_run > table[s].next_run => posted[s][table[s].next_run] > 0
<1>1. /\ pc[r] = "advance" /\ due[r][s] # NULL /\ due[r][s] \in Rows
      /\ due[r][s].next_run \in Times /\ table[s] # NULL /\ table[s] \in Rows
  BY DEF Advance, IInv, TypeOK
<1>2. PICK u \in Times, f \in Frequencies : u = due[r][s].next_run /\ f = due[r][s].frequency
  BY <1>1 DEF Rows
<1>3. posted[s][u] > 0  BY <1>1, <1>2 DEF IInv, Parts, Advancing
<1>4. PICK P \in SUBSET Times, m \in Runs : Links(s, P, m)
  BY <1>1 DEF IInv, Chain, Chained
<1>5. /\ table[s].next_run \in P \cup {m} /\ u \in P \cup {m} /\ table[s].frequency = f
      /\ \A p \in P : p < m /\ posted[s][p] > 0 /\ After(p, f) \in P \cup {m}
  BY <1>1, <1>2, <1>4 DEF Links
<1>6. /\ table'[s].next_run = After(u, f) /\ table'[s].frequency = f
  <2>1. table'[s] = Advanced(due[r][s])  BY <1>1 DEF Advance, IInv, TypeOK
  <2>. QED  BY <1>1, <1>2, <2>1 DEF Advanced, Rows
<1>7. /\ stale' = stale /\ posted' = posted
      /\ \A q \in Replicas : due'[q][s] # NULL => due'[q][s] = due[q][s]
  BY <1>1 DEF Advance, Skip, IInv, TypeOK
<1>8. \A q \in Replicas \ stale[s] : due'[q][s] # NULL =>
        due'[q][s].next_run \in P \cup {m} /\ due'[q][s].frequency = f
  BY <1>4, <1>5, <1>7 DEF Links
<1>9. m \in Nat /\ u \in Nat /\ After(u, f) \in Nat /\ After(u, f) > u /\ P \subseteq Nat
  BY <1>2, NextRunIsLater, TimesAreDays
<1>a. CASE u \in P
  <2>1. After(u, f) \in P \cup {m}  BY <1>5, <1>a
  <2>2. Links(s, P, m)'
    <3>. QED  BY <1>5, <1>6, <1>7, <1>8, <2>1 DEF Links
  <2>3. ASSUME After(u, f) > table[s].next_run
        PROVE  table[s].next_run \in P
    BY <1>5, <1>9, <2>1, <2>3
  <2>. QED  BY <1>4, <1>5, <1>6, <2>2, <2>3 DEF Chained
<1>b. CASE u = m
  <2>1. PICK n \in Runs : n = After(u, f)  BY <1>2, <1>9, TimesAreDays DEF Times, Runs
  <2>. DEFINE Q == P \cup {m}
  <2>2. Q \in SUBSET Times  BY <1>2, <1>b
  <2>3. \A p \in Q : p < n /\ posted[s][p] > 0 /\ After(p, f) \in Q \cup {n}
    BY <1>3, <1>5, <1>9, <1>b, <2>1
  <2>4. Links(s, Q, n)'
    <3>. QED  BY <1>6, <1>7, <1>8, <2>1, <2>3 DEF Links
  <2>5. table[s].next_run \in Q  BY <1>5
  <2>. QED  BY <2>2, <2>3, <2>4, <2>5 DEF Chained
<1>. QED  BY <1>5, <1>a, <1>b
-----------------------------------------------------------------------------
\* Only a deletion puts a schedule to rest, and a change by its user wakes it.
LEMMA DormantStep == IInv /\ TypeOK' /\ [Next]_vars => Dormant'
<1>. SUFFICES ASSUME IInv, TypeOK', [Next]_vars,
                     NEW s \in Schedules, s \in deleted', s \notin held'
              PROVE  /\ table'[s] # NULL /\ ~ table'[s].is_active
                     /\ \A r \in Replicas : due'[r][s] = NULL
  BY DEF Dormant, TypeOK
<1>. USE DEF IInv, replica, user, history
<1>1. ASSUME s \in deleted, s \notin held, UNCHANGED table \/ table'[s] = table[s],
             \A r \in Replicas : due'[r][s] # NULL =>
               due'[r][s] = due[r][s] \/ IsDue(s)
      PROVE  /\ table'[s] # NULL /\ ~ table'[s].is_active
             /\ \A r \in Replicas : due'[r][s] = NULL
  BY <1>1 DEF Dormant, IsDue
<1>2. CASE UNCHANGED vars \/ Tick  BY <1>1, <1>2 DEF vars, Tick
<1>3. CASE User
  <2>1. ASSUME NEW x \in Schedules, NEW f \in Frequencies, NEW t \in Times, Create(x, f, t)
        PROVE  table'[s] = table[s]
    BY <2>1 DEF Create, Dormant, TypeOK
  <2>2. ASSUME NEW f \in Frequencies \cup {NULL}, NEW t \in Times \cup {NULL},
               NEW active \in BOOLEAN, UpdateWrite(f, t, active)
        PROVE  table'[s] = table[s] /\ s \in deleted
    BY <2>2 DEF UpdateWrite, TypeOK
  <2>3. ASSUME NEW x \in Schedules, Delete(x)
        PROVE  /\ table'[s] # NULL /\ ~ table'[s].is_active
               /\ \A r \in Replicas : due'[r][s] = NULL
    <3>1. CASE x = s
      <4>1. table[s] \in Rows  BY <2>3, <3>1 DEF Delete, TypeOK
      <4>2. table'[s] = [table[s] EXCEPT !.is_active = FALSE]
        BY <2>3, <3>1 DEF Delete, TypeOK
      <4>3. table'[s] \in Rows /\ ~ table'[s].is_active  BY <4>1, <4>2 DEF Rows
      <4>4. \A r \in Replicas : due[r][s] = NULL  BY <2>3, <3>1 DEF Delete
      <4>. QED  BY <2>3, <4>3, <4>4, NullAssumption DEF Delete
    <3>2. CASE x # s
      <4>1. table'[s] = table[s] /\ s \in deleted /\ s \notin held /\ due' = due
        BY <2>3, <3>2 DEF Delete, TypeOK
      <4>. QED  BY <1>1, <4>1
    <3>. QED  BY <3>1, <3>2
  <2>4. CASE UpdateFails \/ \E x \in Schedules : UpdateRead(x)
    BY <1>1, <2>4 DEF UpdateFails, UpdateRead
  <2>5. ASSUME NEW x \in Schedules, NEW f \in Frequencies, NEW t \in Times, Create(x, f, t)
        PROVE  s \in deleted /\ s \notin held /\ due' = due
    BY <2>5 DEF Create
  <2>6. ASSUME NEW f \in Frequencies \cup {NULL}, NEW t \in Times \cup {NULL},
               NEW active \in BOOLEAN, UpdateWrite(f, t, active)
        PROVE  s \notin held /\ due' = due
    BY <2>6 DEF UpdateWrite
  <2>. QED  BY <1>1, <1>3, <2>1, <2>2, <2>3, <2>4, <2>5, <2>6 DEF User
<1>4. ASSUME NEW r \in Replicas, Pass(r) \/ Fault(r)
      PROVE  /\ table'[s] # NULL /\ ~ table'[s].is_active
             /\ \A q \in Replicas : due'[q][s] = NULL
  <2>0. s \in deleted /\ s \notin held
    BY <1>4 DEF Pass, Fault, ListDue, Advance, EndPass, Restart, Post, Refuse,
                Crash, AdvanceFails, PostFails
  <2>1. table'[s] = table[s]
    <3>1. CASE Advance(r)
      <4>1. cur[r] # s  BY <2>0, <3>1 DEF Advance, TypeOK, Dormant
      <4>. QED  BY <3>1, <4>1 DEF Advance, TypeOK
    <3>. QED  BY <1>4, <3>1 DEF Pass, Fault, ListDue, EndPass, Restart, Post, Refuse,
                               Crash, AdvanceFails, PostFails
  <2>2. \A q \in Replicas : due'[q][s] # NULL => due'[q][s] = due[q][s] \/ IsDue(s)
    <3>1. CASE ListDue(r)  BY <3>1 DEF ListDue, TypeOK
    <3>2. CASE Crash(r)  BY <3>2 DEF Crash, TypeOK
    <3>3. CASE \E x : Skip(r, x)  BY <3>3 DEF Skip, TypeOK
    <3>. QED  BY <1>4, <3>1, <3>2, <3>3
              DEF Pass, Fault, Advance, EndPass, Restart, Post, Refuse, AdvanceFails, PostFails
  <2>. QED  BY <1>1, <2>0, <2>1, <2>2
<1>. QED  BY <1>2, <1>3, <1>4 DEF Next

\* A pass drops a row it is done with, and holds on to the others.
LEMMA DropsOne ==
  ASSUME TypeOK, NEW r \in Replicas, NEW s, Skip(r, s)
  PROVE  /\ \A q \in Replicas, x \in Schedules : due'[q][x] # NULL => due'[q][x] = due[q][x]
         /\ \A q \in Replicas : pc'[q] = "advance" =>
              pc[q] = "advance" /\ cur'[q] = cur[q] /\ due'[q] = due[q]
BY DEF TypeOK, Skip

\* The parts that are about one copy at a time.
LEMMA PartsStep == IInv /\ TypeOK' /\ Grows /\ [Next]_vars => Parts'
<1>. SUFFICES ASSUME IInv, TypeOK', Grows, [Next]_vars PROVE Parts'  OBVIOUS
<1>0. TypeOK  BY DEF IInv
<1>. USE <1>0 DEF replica, user, history
<1>1. CASE UNCHANGED vars  BY <1>1, QuietStep DEF vars
<1>2. CASE Tick  BY <1>2, QuietStep DEF Tick
<1>3. CASE User
  BY <1>3, QuietStep DEF User, Create, UpdateRead, UpdateWrite, UpdateFails, Delete
<1>4. ASSUME NEW r \in Replicas, Pass(r) PROVE Parts'
  <2>1. CASE ListDue(r)
    <3>1. \A q \in Replicas, s \in Schedules :
            due'[q][s] # NULL => \/ due'[q][s] = due[q][s]
                                 \/ IsDue(s) /\ due'[q][s] = table[s]
      BY <2>1 DEF ListDue, TypeOK
    <3>2. \A q \in Replicas : pc'[q] = "advance" =>
            pc[q] = "advance" /\ cur'[q] = cur[q] /\ due'[q] = due[q]
      BY <2>1 DEF ListDue, TypeOK
    <3>. QED  BY <2>1, <3>1, <3>2, QuietStep DEF ListDue
  <2>2. CASE EndPass(r)  BY <2>2, QuietStep DEF EndPass, TypeOK
  <2>3. CASE Restart(r)  BY <2>3, QuietStep DEF Restart, TypeOK
  <2>4. ASSUME NEW s \in Schedules, Post(r, s) PROVE Parts'
    <3>1. \A q \in Replicas : pc'[q] = "advance" =>
            \/ q = r /\ cur'[q] = s /\ due' = due
            \/ pc[q] = "advance" /\ cur'[q] = cur[q] /\ due'[q] = due[q]
      BY <2>4 DEF Post, TypeOK
    <3>. QED  BY <2>4, <3>1, PostStep DEF Post, First
  <2>5. ASSUME Advance(r) \/ \E s \in Schedules : Refuse(r, s) PROVE Parts'
    <3>1. PICK s : Skip(r, s)  BY <2>5 DEF Advance, Refuse
    <3>2. UNCHANGED posted  BY <2>5 DEF Advance, Refuse
    <3>. QED  BY <3>1, <3>2, DropsOne, QuietStep
  <2>. QED  BY <1>4, <2>1, <2>2, <2>3, <2>4, <2>5 DEF Pass
<1>5. ASSUME NEW r \in Replicas, Fault(r) PROVE Parts'
  <2>1. CASE Crash(r)  BY <2>1, QuietStep DEF Crash, TypeOK
  <2>2. CASE AdvanceFails(r)  BY <2>2, DropsOne, QuietStep DEF AdvanceFails
  <2>3. ASSUME NEW s \in Schedules, NEW committed \in BOOLEAN, PostFails(r, s, committed)
        PROVE  Parts'
    <3>0. Skip(r, s)  BY <2>3 DEF PostFails
    <3>1. CASE UNCHANGED posted  BY <3>0, <3>1, DropsOne, QuietStep
    <3>2. CASE Posted(s, due[r][s].next_run)
      BY <2>3, <3>0, <3>2, DropsOne, PostStep DEF PostFails, First
    <3>. QED  BY <2>3, <3>1, <3>2 DEF PostFails
  <2>. QED  BY <1>5, <2>1, <2>2, <2>3 DEF Fault
<1>. QED  BY <1>1, <1>2, <1>3, <1>4, <1>5 DEF Next

\* Each step keeps the chain, lets it grow, or starts another.
LEMMA ChainStep == IInv /\ TypeOK' /\ Grows /\ [Next]_vars => Chain'
<1>. SUFFICES ASSUME IInv, TypeOK', Grows, [Next]_vars,
                     NEW s \in Schedules, table'[s] # NULL
              PROVE  Chained(s)'
  BY DEF Chain
<1>0. TypeOK /\ table'[s] \in Rows  BY DEF IInv, TypeOK
<1>. USE <1>0 DEF replica, user, history
<1>1. CASE UNCHANGED vars  BY <1>1, ChainKept DEF vars
<1>2. CASE Tick  BY <1>2, ChainKept DEF Tick
<1>3. CASE User
  <2>1. ASSUME NEW x \in Schedules, NEW f \in Frequencies, NEW t \in Times, Create(x, f, t)
        PROVE  Chained(s)'
    <3>1. CASE x = s  BY <2>1, <3>1, ChainStarts DEF Create, TypeOK
    <3>2. CASE x # s  BY <2>1, <3>2, ChainKept DEF Create, TypeOK
    <3>. QED  BY <3>1, <3>2
  <2>2. ASSUME NEW x \in Schedules, UpdateRead(x) PROVE Chained(s)'
    BY <2>2, ChainKept DEF UpdateRead
  <2>3. ASSUME NEW f \in Frequencies \cup {NULL}, NEW t \in Times \cup {NULL},
               NEW active \in BOOLEAN, UpdateWrite(f, t, active)
        PROVE  Chained(s)'
    <3>1. PICK x, row : x \in Schedules /\ x = edit.id /\ TakenAway(x, row, {})
                                      /\ table' = [table EXCEPT ![x] = row] /\ due' = due
      BY <2>3 DEF UpdateWrite, TypeOK
    <3>2. CASE x = s
      <4>1. \A q \in Replicas \ stale'[s] : due'[q][s] = NULL
        BY <3>1, <3>2 DEF TakenAway, TypeOK
      <4>. QED  BY <4>1, ChainStarts
    <3>3. CASE x # s
      <4>1. table'[s] = table[s] /\ stale'[s] = stale[s]
        BY <3>1, <3>3 DEF TakenAway, TypeOK
      <4>. QED  BY <3>1, <4>1, ChainKept
    <3>. QED  BY <3>2, <3>3
  <2>4. CASE UpdateFails  BY <2>4, ChainKept DEF UpdateFails
  <2>5. ASSUME NEW x \in Schedules, Delete(x) PROVE Chained(s)'
    <3>1. table[s] # NULL  BY <2>5 DEF Delete, TypeOK
    <3>2. table[s] \in Rows  BY <3>1 DEF TypeOK
    <3>3. table'[s].next_run = table[s].next_run /\ table'[s].frequency = table[s].frequency
      BY <2>5, <3>2 DEF Delete, TypeOK, Rows
    <3>. QED  BY <2>5, <3>1, <3>3, ChainKept DEF Delete
  <2>. QED  BY <1>3, <2>1, <2>2, <2>3, <2>4, <2>5 DEF User
<1>4. ASSUME NEW r \in Replicas, Pass(r) PROVE Chained(s)'
  <2>1. CASE ListDue(r)
    <3>1. \A q \in Replicas \ stale'[s] : due'[q][s] # NULL =>
            \/ q \notin stale[s] /\ due'[q][s] = due[q][s]
            \/ due'[q][s] = table[s]
      BY <2>1 DEF ListDue, Fresh, TypeOK
    <3>. QED  BY <2>1, <3>1, ChainKept DEF ListDue
  <2>2. CASE Advance(r)
    <3>0. PICK x, row : x \in Schedules /\ x = cur[r] /\ table' = [table EXCEPT ![x] = row]
            /\ row = Advanced(due[r][x]) /\ Skip(r, x)
      BY <2>2 DEF Advance, TypeOK
    <3>1. CASE x = s /\ r \notin stale[s]  BY <2>2, <3>0, <3>1, ChainGrows
    <3>2. CASE x = s /\ r \in stale[s]
      <4>1. TakenAway(s, row, {r})  BY <2>2, <3>0, <3>2 DEF Advance
      <4>2. \A q \in Replicas \ stale'[s] : due'[q][s] = NULL
        BY <3>0, <3>2, <4>1 DEF TakenAway, TypeOK, Skip
      <4>. QED  BY <4>2, ChainStarts
    <3>3. CASE x # s
      <4>1. table'[s] = table[s] /\ stale'[s] = stale[s]
        BY <2>2, <3>0, <3>3 DEF Advance, TakenAway, TypeOK
      <4>2. \A q \in Replicas : due'[q][s] = due[q][s]
        BY <3>0, <3>3 DEF Skip, TypeOK
      <4>. QED  BY <4>1, <4>2, ChainKept
    <3>. QED  BY <3>1, <3>2, <3>3
  <2>3. CASE EndPass(r) \/ Restart(r)  BY <2>3, ChainKept DEF EndPass, Restart
  <2>4. ASSUME NEW x \in Schedules, Post(r, x) PROVE Chained(s)'
    BY <2>4, ChainKept DEF Post
  <2>5. ASSUME NEW x \in Schedules, Refuse(r, x) PROVE Chained(s)'
    BY <2>5, DropsOne, ChainKept DEF Refuse
  <2>. QED  BY <1>4, <2>1, <2>2, <2>3, <2>4, <2>5 DEF Pass
<1>5. ASSUME NEW r \in Replicas, Fault(r) PROVE Chained(s)'
  <2>1. CASE Crash(r)  BY <2>1, ChainKept DEF Crash, TypeOK
  <2>2. CASE AdvanceFails(r)  BY <2>2, DropsOne, ChainKept DEF AdvanceFails
  <2>3. ASSUME NEW x \in Schedules, NEW committed \in BOOLEAN, PostFails(r, x, committed)
        PROVE  Chained(s)'
    BY <2>3, DropsOne, ChainKept DEF PostFails
  <2>. QED  BY <1>5, <2>1, <2>2, <2>3 DEF Fault
<1>. QED  BY <1>1, <1>2, <1>3, <1>4, <1>5 DEF Next

\* The invariant is inductive.
LEMMA IInvStep == IInv /\ [Next]_vars => IInv'
<1>1. IInv => TypeOK  BY DEF IInv
<1>. QED  BY <1>1, TypeStep, GrowsStep, DormantStep, PartsStep, ChainStep DEF IInv

THEOREM InductiveInvariant == Spec => []IInv
<1>. QED  BY InitIInv, IInvStep, PTL DEF Spec

THEOREM SchedulerTypes == Spec => []TypeOK
<1>1. IInv => TypeOK  BY DEF IInv
<1>. QED  BY <1>1, InductiveInvariant, PTL

(* No replica posts a run before its time, whatever the others, the users
   and the failures do (ListDue). *)
THEOREM SchedulerNeverEarly == Spec => []NeverEarly
<1>1. IInv => NeverEarly  BY DEF IInv, Parts
<1>. QED  BY <1>1, InductiveInvariant, PTL

(* next_run is moved past a run only when the journal of that run was posted,
   but for a user's own write and for a pass that writes back a copy older
   than one: whatever passes, faults and edits overlap (processSingle). *)
THEOREM SchedulerSkipsNothing == Spec => NothingSkipped
<1>. DEFINE Skipless ==
       \A s \in Schedules :
         table[s] # NULL /\ table'[s].next_run > table[s].next_run =>
           \/ UserWrites(s)
           \/ EditOverwritten(s)
           \/ posted[s][table[s].next_run] > 0
<1>1. ASSUME IInv, Next PROVE Skipless
  <2>. SUFFICES ASSUME NEW s \in Schedules, table[s] # NULL,
                       table'[s].next_run > table[s].next_run
                PROVE  \/ UserWrites(s)
                       \/ EditOverwritten(s)
                       \/ posted[s][table[s].next_run] > 0
    OBVIOUS
  <2>. USE DEF replica, user, history
  <2>0. TypeOK /\ table[s] \in Rows  BY <1>1 DEF IInv, TypeOK
  <2>n. PICK n \in Nat : n = table[s].next_run  BY <2>0, TimesAreDays DEF Rows
  <2>1. table'[s].next_run # table[s].next_run /\ table'[s] # table[s]  BY <2>n
  <2>2. CASE Tick  BY <2>1, <2>2 DEF Tick
  <2>3. CASE User
    <3>1. ASSUME NEW x \in Schedules, NEW f \in Frequencies, NEW t \in Times, Create(x, f, t)
          PROVE  FALSE
      BY <2>0, <2>1, <3>1 DEF Create, TypeOK
    <3>2. ASSUME NEW x \in Schedules, UpdateRead(x) PROVE FALSE
      BY <2>1, <3>2 DEF UpdateRead
    <3>3. ASSUME NEW f \in Frequencies \cup {NULL}, NEW t \in Times \cup {NULL},
                 NEW active \in BOOLEAN, UpdateWrite(f, t, active)
          PROVE  UserWrites(s)
      <4>1. edit # NULL /\ edit.id = s
        BY <2>0, <2>1, <3>3 DEF UpdateWrite, TypeOK
      <4>. QED  BY <3>3, <4>1 DEF UserWrites
    <3>4. ASSUME NEW x \in Schedules, Delete(x) PROVE FALSE
      <4>1. table'[s].next_run = table[s].next_run
        BY <2>0, <3>4 DEF Delete, TypeOK, Rows
      <4>. QED  BY <2>1, <4>1
    <3>5. CASE UpdateFails  BY <2>1, <3>5 DEF UpdateFails
    <3>. QED  BY <2>3, <3>1, <3>2, <3>3, <3>4, <3>5 DEF User
  <2>4. ASSUME NEW r \in Replicas, Advance(r)
        PROVE  EditOverwritten(s) \/ posted[s][table[s].next_run] > 0
    <3>1. cur[r] = s  BY <2>0, <2>1, <2>4 DEF Advance, TypeOK
    <3>2. CASE r \in stale[s]  BY <2>4, <3>1, <3>2 DEF EditOverwritten
    <3>3. CASE r \notin stale[s]  BY <1>1, <2>4, <3>1, <3>3, ChainGrows
    <3>. QED  BY <3>2, <3>3
  <2>5. ASSUME NEW r \in Replicas, Pass(r)
        PROVE  EditOverwritten(s) \/ posted[s][table[s].next_run] > 0
    BY <2>1, <2>4, <2>5 DEF Pass, ListDue, EndPass, Restart, Post, Refuse
  <2>6. ASSUME NEW r \in Replicas, Fault(r) PROVE FALSE
    BY <2>1, <2>6 DEF Fault, Crash, AdvanceFails, PostFails
  <2>. QED  BY <1>1, <2>2, <2>3, <2>5, <2>6 DEF Next
<1>2. IInv /\ [Next]_vars => [Skipless]_vars  BY <1>1
<1>. QED  BY <1>2, InductiveInvariant, PTL DEF Spec, NothingSkipped

(* A schedule deleted while no pass held a copy of it is not posted again
   until its user changes it (Delete of ScheduleRepo). *)
THEOREM SchedulerDeletedStaysQuiet == Spec => DeletedStaysQuiet
<1>1. IInv /\ [Next]_vars => [\A s \in deleted \ held : posted'[s] = posted[s]]_vars
  <2>. SUFFICES ASSUME IInv, Next, NEW s \in deleted, s \notin held
                PROVE  posted'[s] = posted[s]
    BY DEF vars
  <2>. USE DEF replica, user, history
  <2>1. s \in Schedules /\ \A r \in Replicas : due[r][s] = NULL
    BY DEF IInv, TypeOK, Dormant
  <2>2. \A x : x # s => \A t : Posted(x, t) => posted'[s] = posted[s]
    BY <2>1 DEF Posted, IInv, TypeOK
  <2>3. CASE Tick \/ User
    BY <2>3 DEF Tick, User, Create, UpdateRead, UpdateWrite, UpdateFails, Delete
  <2>4. ASSUME NEW r \in Replicas, Pass(r) PROVE posted'[s] = posted[s]
    BY <2>1, <2>2, <2>4
    DEF Pass, ListDue, Advance, EndPass, Restart, Post, Refuse, First
  <2>5. ASSUME NEW r \in Replicas, Fault(r) PROVE posted'[s] = posted[s]
    BY <2>1, <2>2, <2>5 DEF Fault, Crash, AdvanceFails, PostFails, First
  <2>. QED  BY <2>3, <2>4, <2>5 DEF Next
<1>. QED  BY <1>1, InductiveInvariant, PTL DEF Spec, DeletedStaysQuiet
=============================================================================
