---------------------------- MODULE UploadsProofs ----------------------------
(***************************************************************************)
(* What holds of every file, however its cells are written, about a        *)
(* preview and the confirmation after it.                                  *)
(***************************************************************************)
EXTENDS Uploads, FiniteSetTheorems, TLAPS

\* A non-empty set of naturals has a least element.
LEMMA LeastNat ==
  ASSUME NEW T \in SUBSET Nat, T # {}
  PROVE  \E m \in T : \A k \in T : m <= k
<1>1. PICK m \in T : \A k \in T : ~ (<<k, m>> \in OpToRel(<, Nat))
  BY NatLessThanWellFounded, WFMin
<1>2. \A k \in T : ~ (k < m)
  <2>1. SUFFICES ASSUME NEW k \in T, k < m PROVE <<k, m>> \in OpToRel(<, Nat)
    BY <1>1
  <2>2. <<k, m>> \in Nat \X Nat /\ <<k, m>>[1] < <<k, m>>[2]  BY <2>1
  <2> QED  BY <2>2, Zenon DEF OpToRel
<1> QED  BY <1>2

\* Steps from 0 up to N.
LEMMA UpTo ==
  ASSUME NEW N \in Nat, NEW Q, 0 \in Q, \A k \in 1 .. N : k - 1 \in Q => k \in Q
  PROVE  \A k \in 0 .. N : k \in Q
<1> DEFINE T == {k \in 0 .. N : k \notin Q}
<1> SUFFICES ASSUME T # {} PROVE FALSE
  OBVIOUS
<1>1. T \in SUBSET Nat
  OBVIOUS
<1>2. PICK m \in T : \A k \in T : m <= k
  BY <1>1, LeastNat
<1>3. m \in 1 .. N /\ m - 1 \in 0 .. N /\ ~ (m <= m - 1)
  BY <1>2
<1>4. m - 1 \in Q
  BY <1>2, <1>3
<1> QED  BY <1>2, <1>3, <1>4

\* Min picks it.
LEMMA LeastIs ==
  ASSUME NEW S \in SUBSET Nat, S # {}
  PROVE  Min(S) \in S /\ \A k \in S : Min(S) <= k
BY LeastNat DEF Min

\* A non-empty set of integers below a bound has a greatest, and Max picks it.
LEMMA GreatestIs ==
  ASSUME NEW S \in SUBSET Int, S # {}, NEW B \in Int, \A k \in S : k <= B
  PROVE  Max(S) \in S /\ \A k \in S : Max(S) >= k
<1> DEFINE T == {B - k : k \in S}
<1>1. T \in SUBSET Nat /\ T # {}
  <2>1. \A k \in S : B - k \in Nat
    OBVIOUS
  <2> QED  BY <2>1
<1>2. PICK m \in T : \A k \in T : m <= k
  BY <1>1, LeastNat
<1>3. PICK x \in S : m = B - x
  BY <1>2
<1>4. \A k \in S : x >= k
  <2> SUFFICES ASSUME NEW k \in S PROVE x >= k
    OBVIOUS
  <2>1. m <= B - k
    BY <1>2
  <2> QED  BY <1>3, <2>1
<1> QED  BY <1>3, <1>4 DEF Max

\* The numbers of a set, one after another.
Increasing(s, S) == s \in SetToSeqs(S) /\ \A i, k \in DOMAIN s : i < k => s[i] < s[k]

\* A set of numbers up to N is finite and can be listed in increasing order.
LEMMA Enumerated ==
  ASSUME NEW N \in Nat
  PROVE  \A S \in SUBSET (1 .. N) : /\ IsFiniteSet(S) /\ Cardinality(S) \in Nat
                                    /\ \E s : Increasing(s, S)
<1>1. \A S \in SUBSET (1 .. N) : IsFiniteSet(S) /\ Cardinality(S) \in Nat
  <2> DEFINE D == 1 .. N
  <2>1. IsFiniteSet(D)
    BY FS_Interval
  <2> HIDE DEF D
  <2>2. \A S \in SUBSET D : IsFiniteSet(S) /\ Cardinality(S) \in Nat
    BY <2>1, FS_Subset, FS_CardinalityType
  <2> QED  BY <2>2 DEF D
<1> DEFINE Q == {n \in 0 .. N : \A S \in SUBSET (1 .. n) : \E s : Increasing(s, S)}
<1>2. 0 \in Q
  <2> SUFFICES ASSUME NEW S \in SUBSET (1 .. 0) PROVE \E s : Increasing(s, S)
    OBVIOUS
  <2>1. S = {} /\ Cardinality({}) = 0
    BY FS_EmptySet
  <2>2. Increasing([i \in 1 .. 0 |-> 0], S)
    BY <2>1 DEF Increasing, SetToSeqs
  <2> QED  BY <2>2
<1>3. ASSUME NEW n \in 1 .. N, n - 1 \in Q PROVE n \in Q
  <2> SUFFICES ASSUME NEW S \in SUBSET (1 .. n) PROVE \E s : Increasing(s, S)
    OBVIOUS
  <2>1. CASE n \notin S
    <3>1. S \in SUBSET (1 .. (n - 1))
      BY <2>1
    <3> QED  BY <1>3, <3>1
  <2>2. CASE n \in S
    <3> DEFINE R == S \ {n}
    <3>1. R \in SUBSET (1 .. (n - 1)) /\ n \notin R /\ S = R \cup {n}
      BY <2>2
    <3>2. PICK r : Increasing(r, R)
      BY <1>3, <3>1
    <3>3. IsFiniteSet(R) /\ Cardinality(R) \in Nat
      BY <1>1
    <3>4. Cardinality(S) = Cardinality(R) + 1
      BY <3>1, <3>3, FS_AddElement
    <3> HIDE DEF R
    <3>5. PICK m \in Nat : m = Cardinality(R)
      BY <3>3
    <3>6. /\ r \in [1 .. m -> R]
          /\ \A i, k \in 1 .. m : i < k => r[i] < r[k]
          /\ \A i, k \in 1 .. m : i # k => r[i] # r[k]
      BY <3>2, <3>5 DEF Increasing, SetToSeqs
    <3> DEFINE s == [i \in 1 .. (m + 1) |-> IF i = m + 1 THEN n ELSE r[i]]
    <3>7. /\ \A i \in 1 .. m : s[i] = r[i] /\ r[i] \in R /\ r[i] < n
          /\ s[m + 1] = n /\ \A i \in 1 .. (m + 1) : i \in 1 .. m \/ i = m + 1
      <4>1. \A x \in R : x < n
        BY <3>1
      <4>2. \A i \in 1 .. m : r[i] \in R
        BY <3>6
      <4> QED  BY <4>1, <4>2
    <3>8. \A i \in 1 .. (m + 1) : s[i] \in S
      BY <3>1, <3>7
    <3>9. \A i, k \in 1 .. (m + 1) : i < k => s[i] < s[k]
      BY <3>6, <3>7
    <3>10. \A i, k \in 1 .. (m + 1) : i # k => s[i] # s[k]
      <4> SUFFICES ASSUME NEW i \in 1 .. (m + 1), NEW k \in 1 .. (m + 1), i # k
                   PROVE  s[i] # s[k]
        OBVIOUS
      <4>1. s[i] \in Int /\ s[k] \in Int
        BY <3>8, \A x \in S : x \in Int
      <4>2. i < k \/ k < i
        OBVIOUS
      <4> HIDE DEF s
      <4> QED  BY <3>9, <4>1, <4>2
    <3>11. s \in [1 .. (m + 1) -> S]
      BY <3>8
    <3>12. Cardinality(S) = m + 1 /\ DOMAIN s = 1 .. (m + 1)
      BY <3>4, <3>5
    <3> HIDE DEF s
    <3>13. Increasing(s, S)
      BY <3>9, <3>10, <3>11, <3>12 DEF Increasing, SetToSeqs
    <3> QED  BY <3>13
  <2> QED  BY <2>1, <2>2
<1> HIDE DEF Q
<1>4. N \in Q
  BY <1>2, <1>3, UpTo
<1> QED  BY <1>1, <1>4 DEF Q

\* InOrder lists a set of numbers from the least on.
LEMMA InOrderIs ==
  ASSUME NEW N \in Nat, NEW S \in SUBSET (1 .. N)
  PROVE  /\ InOrder(S) \in Seq(S) /\ DOMAIN InOrder(S) = 1 .. Len(InOrder(S))
         /\ \A k \in DOMAIN InOrder(S) : InOrder(S)[k] \in S
         /\ \A i, k \in DOMAIN InOrder(S) : i < k => InOrder(S)[i] < InOrder(S)[k]
         /\ S = {InOrder(S)[k] : k \in DOMAIN InOrder(S)}
<1>1. \E s : Increasing(s, S)
  BY Enumerated
<1>2. Increasing(InOrder(S), S)
  BY <1>1, Zenon DEF InOrder, Increasing
<1> DEFINE s == InOrder(S)
<1> HIDE DEF s
<1>3. PICK m \in Nat : m = Cardinality(S)
  BY Enumerated
<1>4. /\ s \in [1 .. m -> S] /\ DOMAIN s = 1 .. m
      /\ \A i, k \in 1 .. m : i < k => s[i] < s[k]
      /\ \A i, k \in 1 .. m : i # k => s[i] # s[k]
  BY <1>2, <1>3 DEF Increasing, SetToSeqs, s
<1>5. s \in Seq(S) /\ Len(s) = m
  BY <1>4
<1>6. s \in Injection(1 .. m, S)
  BY <1>4 DEF Injection, IsInjective
<1>7. IsFiniteSet(1 .. m) /\ Cardinality(1 .. m) = m /\ IsFiniteSet(S)
  <2>1. IsFiniteSet(S)
    BY Enumerated
  <2>2. 1 \in Int /\ m \in Int /\ m - 1 + 1 = m
    OBVIOUS
  <2> QED  BY <2>1, <2>2, FS_Interval
<1>8. s \in Surjection(1 .. m, S)
  <2> DEFINE D == 1 .. m
  <2>1. s \in Injection(D, S) /\ IsFiniteSet(D) /\ Cardinality(D) = Cardinality(S)
    BY <1>3, <1>6, <1>7
  <2> HIDE DEF D
  <2>2. s \in Surjection(D, S)
    BY <1>7, <2>1, FS_Injection
  <2> QED  BY <2>2 DEF D
<1>9. S = {s[k] : k \in DOMAIN s}
  <2>1. \A y \in S : \E k \in 1 .. m : s[k] = y
    BY <1>8 DEF Surjection
  <2>2. \A k \in 1 .. m : s[k] \in S
    BY <1>4
  <2>3. DOMAIN s = 1 .. m
    BY <1>4
  <2> QED  BY <2>1, <2>2, <2>3
<1> QED  BY <1>4, <1>5, <1>9 DEF s

\* All numbers up to N are listed as they are.
LEMMA InOrderAll ==
  ASSUME NEW N \in Nat
  PROVE  InOrder(1 .. N) = [k \in 1 .. N |-> k]
<1> DEFINE s == InOrder(1 .. N)
<1>1. 1 .. N \in SUBSET (1 .. N)
  OBVIOUS
<1>2. /\ s \in Seq(1 .. N) /\ DOMAIN s = 1 .. Len(s)
      /\ \A k \in DOMAIN s : s[k] \in 1 .. N
      /\ \A i, k \in DOMAIN s : i < k => s[i] < s[k]
      /\ 1 .. N = {s[k] : k \in DOMAIN s}
  BY <1>1, InOrderIs
<1> HIDE DEF s
<1>3. PICK m \in Nat : DOMAIN s = 1 .. m
  <2>1. Len(s) \in Nat
    BY <1>2
  <2> QED  BY <1>2, <2>1
\* A number k has k - 1 below it: up to k, the list cannot but go on by one.
<1> DEFINE Q == {k \in 0 .. N : k <= m /\ \A j \in 1 .. k : s[j] = j}
<1>4. 0 \in Q
  OBVIOUS
<1>5. ASSUME NEW k \in 1 .. N, k - 1 \in Q PROVE k \in Q
  <2>1. PICK i \in 1 .. m : s[i] = k
    BY <1>2, <1>3
  <2>2. k - 1 <= m /\ \A j \in 1 .. (k - 1) : s[j] = j
    BY <1>5
  <2>3. ~ (i <= k - 1)
    BY <2>1, <2>2
  <2>4. k \in 1 .. m /\ s[k] \in 1 .. N
    BY <1>2, <1>3, <2>3
  <2>5. s[k] <= k
    <3>1. k < i => s[k] < s[i]
      BY <1>2, <1>3, <2>1, <2>4
    <3> QED  BY <2>1, <2>3, <2>4, <3>1
  <2>6. ~ (s[k] <= k - 1)
    <3> SUFFICES ASSUME s[k] <= k - 1 PROVE FALSE
      OBVIOUS
    <3>1. s[k] \in 1 .. (k - 1) /\ s[k] \in 1 .. m /\ s[k] < k
      BY <2>2, <2>4
    <3>2. s[s[k]] = s[k] /\ s[s[k]] < s[k]
      BY <1>2, <1>3, <2>2, <2>4, <3>1
    <3> QED  BY <2>4, <3>2
  <2>7. s[k] = k
    BY <2>4, <2>5, <2>6
  <2>8. \A j \in 1 .. k : j \in 1 .. (k - 1) \/ j = k
    OBVIOUS
  <2> QED  BY <2>2, <2>4, <2>7, <2>8
<1> HIDE DEF Q
<1>6. N \in Q
  <2>1. N \in 0 .. N
    OBVIOUS
  <2> QED  BY <1>4, <1>5, <2>1, UpTo
<1>7. N <= m /\ \A j \in 1 .. N : s[j] = j
  BY <1>6 DEF Q
<1>8. m = N
  <2> SUFFICES ASSUME N < m PROVE FALSE
    BY <1>7
  <2>1. m \in 1 .. m /\ s[m] \in 1 .. N
    BY <1>2, <1>3
  <2>2. s[m] \in 1 .. m /\ s[s[m]] = s[m] /\ s[m] < m
    BY <1>7, <2>1
  <2>3. s[s[m]] < s[m]
    BY <1>2, <1>3, <2>1, <2>2
  <2> QED  BY <2>1, <2>2, <2>3
<1>9. s = [k \in DOMAIN s |-> s[k]]
  BY <1>2
<1> QED  BY <1>3, <1>7, <1>8, <1>9 DEF s
-----------------------------------------------------------------------------
\* g is the table of a fold over 1 .. N: what it comes to on every subset.
Table(g, N, base, step) ==
  g = [s \in SUBSET (1 .. N) |-> IF s = {} THEN base ELSE step[<<g[s \ {Max(s)}], Max(s)>>]]

\* The greatest of some numbers up to n.
LEMMA MaxUpTo ==
  ASSUME NEW n \in Nat, NEW s \in SUBSET (1 .. n)
  PROVE  /\ s # {} => Max(s) \in s
         /\ \A k \in s : k = n => Max(s) = n
<1>1. s # {} => Max(s) \in s /\ \A k \in s : Max(s) >= k
  <2> SUFFICES ASSUME s # {} PROVE Max(s) \in s /\ \A k \in s : Max(s) >= k
    OBVIOUS
  <2>1. s \in SUBSET Int /\ n \in Int /\ \A k \in s : k <= n
    OBVIOUS
  <2> QED  BY <2>1, GreatestIs
<1>2. ASSUME n \in s PROVE Max(s) = n
  <2>1. Max(s) \in s /\ Max(s) >= n
    BY <1>1, <1>2
  <2>2. \A k \in s : k \in Int /\ k <= n
    OBVIOUS
  <2>3. Max(s) \in Int /\ Max(s) <= n
    BY <2>1, <2>2
  <2> QED  BY <2>1, <2>3
<1> QED  BY <1>1, <1>2

\* A fold over 1 .. N has a table, with values where its steps stay.
LEMMA TableExists ==
  ASSUME NEW N \in Nat, NEW X, NEW base \in X, NEW step \in [X \X (1 .. N) -> X]
  PROVE  \E g : Table(g, N, base, step) /\ \A s \in SUBSET (1 .. N) : g[s] \in X
<1> DEFINE Q == {n \in 0 .. N : \E g : Table(g, n, base, step)
                                        /\ \A s \in SUBSET (1 .. n) : g[s] \in X}
<1>1. 0 \in Q
  <2> DEFINE g == [s \in SUBSET (1 .. 0) |-> base]
  <2>1. \A s \in SUBSET (1 .. 0) : s = {} /\ g[s] = base
    OBVIOUS
  <2>2. Table(g, 0, base, step)
    BY <2>1 DEF Table
  <2>3. \A s \in SUBSET (1 .. 0) : g[s] \in X
    BY <2>1
  <2> HIDE DEF g
  <2> QED  BY <2>2, <2>3
<1>2. ASSUME NEW n \in 1 .. N, n - 1 \in Q PROVE n \in Q
  <2>1. PICK g : Table(g, n - 1, base, step) /\ \A s \in SUBSET (1 .. (n - 1)) : g[s] \in X
    BY <1>2
  <2> DEFINE h == [s \in SUBSET (1 .. n) |-> IF n \in s THEN step[<<g[s \ {n}], n>>] ELSE g[s]]
  <2>2. ASSUME NEW s \in SUBSET (1 .. n)
        PROVE  /\ h[s] \in X
               /\ h[s] = IF s = {} THEN base ELSE step[<<h[s \ {Max(s)}], Max(s)>>]
    <3>0. h[s] = IF n \in s THEN step[<<g[s \ {n}], n>>] ELSE g[s]
      OBVIOUS
    <3>1. CASE n \in s
      <4>1. s \ {n} \in SUBSET (1 .. (n - 1)) /\ s \ {n} \in SUBSET (1 .. n) /\ n \notin s \ {n}
        OBVIOUS
      <4>2. h[s \ {n}] = g[s \ {n}]
        BY <4>1
      <4> HIDE DEF h
      <4>3. Max(s) = n
        BY <3>1, MaxUpTo
      <4>4. g[s \ {n}] \in X
        BY <2>1, <4>1
      <4> QED  BY <3>0, <3>1, <4>2, <4>3, <4>4
    <3>2. CASE n \notin s
      <4>1. s \in SUBSET (1 .. (n - 1))
        BY <3>2
      <4>2. h[s] = g[s] /\ g[s] \in X
        BY <2>1, <3>0, <3>2, <4>1
      <4>3. g[s] = IF s = {} THEN base ELSE step[<<g[s \ {Max(s)}], Max(s)>>]
        BY <2>1, <4>1 DEF Table
      <4>4. s \ {Max(s)} \in SUBSET (1 .. n) /\ n \notin s \ {Max(s)}
        BY <3>2
      <4>5. h[s \ {Max(s)}] = g[s \ {Max(s)}]
        BY <4>4
      <4> HIDE DEF h
      <4> QED  BY <4>2, <4>3, <4>5
    <3> QED  BY <3>1, <3>2
  <2>3. h = [s \in SUBSET (1 .. n) |-> h[s]]
    OBVIOUS
  <2> HIDE DEF h
  <2>4. Table(h, n, base, step)
    BY <2>2, <2>3 DEF Table
  <2>5. \A s \in SUBSET (1 .. n) : h[s] \in X
    BY <2>2
  <2>6. n \in 0 .. N
    OBVIOUS
  <2> QED  BY <2>4, <2>5, <2>6
<1> HIDE DEF Q
<1>3. N \in Q
  BY <1>1, <1>2, UpTo
<1> QED  BY <1>3 DEF Q

\* What a fold has come to after k elements.
RunOf(g, N) == [k \in 0 .. N |-> g[1 .. k]]

\* The run of a table, with what a step of it needs.
Runs(g, N, run) ==
  /\ run[0] = g[{}] /\ run[N] = g[1 .. N]
  /\ \A k \in 1 .. N : /\ 1 .. k \in SUBSET (1 .. N) /\ 1 .. k # {}
                       /\ Max(1 .. k) = k /\ g[1 .. k] = run[k]
                       /\ g[(1 .. k) \ {Max(1 .. k)}] = run[k - 1]

\* One element after another is folded in.
LEMMA RunOfTable ==
  ASSUME NEW N \in Nat, NEW g
  PROVE  Runs(g, N, RunOf(g, N))
<1>1. 1 .. 0 = {}
  OBVIOUS
<1>2. ASSUME NEW k \in 1 .. N
      PROVE  /\ 1 .. k \in SUBSET (1 .. N) /\ 1 .. k # {} /\ Max(1 .. k) = k
             /\ (1 .. k) \ {Max(1 .. k)} = 1 .. (k - 1)
  <2>1. k \in Nat /\ 1 .. k \in SUBSET (1 .. k) /\ k \in 1 .. k
    OBVIOUS
  <2>2. Max(1 .. k) = k
    BY <2>1, MaxUpTo
  <2>3. (1 .. k) \ {k} = 1 .. (k - 1)
    OBVIOUS
  <2> QED  BY <2>1, <2>2, <2>3
<1> DEFINE run == RunOf(g, N)
<1>3. run[0] = g[{}] /\ run[N] = g[1 .. N]
  BY <1>1 DEF RunOf
<1>4. ASSUME NEW k \in 1 .. N
      PROVE  g[1 .. k] = run[k] /\ g[(1 .. k) \ {Max(1 .. k)}] = run[k - 1]
  <2>1. k \in 0 .. N /\ k - 1 \in 0 .. N
    OBVIOUS
  <2>2. run[k] = g[1 .. k] /\ run[k - 1] = g[1 .. (k - 1)]
    BY <2>1 DEF RunOf
  <2> HIDE DEF run
  <2> QED  BY <1>2, <2>2
<1> HIDE DEF run
<1>5. /\ run[0] = g[{}] /\ run[N] = g[1 .. N]
      /\ \A k \in 1 .. N : /\ 1 .. k \in SUBSET (1 .. N) /\ 1 .. k # {}
                           /\ Max(1 .. k) = k /\ g[1 .. k] = run[k]
                           /\ g[(1 .. k) \ {Max(1 .. k)}] = run[k - 1]
  BY <1>2, <1>3, <1>4
<1> QED  BY <1>5 DEF run, Runs
-----------------------------------------------------------------------------
\* The domain of a sequence.
LEMMA Listed ==
  ASSUME NEW S, NEW s \in Seq(S)
  PROVE  Len(s) \in Nat /\ DOMAIN s = 1 .. Len(s)
OBVIOUS

\* The amounts of a line have points and commas for marks.
Marked(line) ==
  \A j \in DOMAIN line : line[j].kind = "amount" => line[j].marks \in Seq({".", ","})

\* The separators counted in a line are a number.
LEMMA CountIsNumber ==
  ASSUME NEW line, NEW sep, NEW own, line \in Seq(Range(line)), Marked(line)
  PROVE  Count(line, sep, own) \in Int
<1>1. PICK N \in Nat : N = Len(line) /\ DOMAIN line = 1 .. N
  <2>1. Len(line) \in Nat /\ DOMAIN line = 1 .. Len(line)
    OBVIOUS
  <2> QED  BY <2>1
<1> DEFINE P(g) == g = [s \in SUBSET DOMAIN line |->
                          IF s = {} THEN IF sep = own THEN Len(line) - 1 ELSE 0
                          ELSE g[s \ {Max(s)}] + Occurs(line[Max(s)], sep)]
           c == CHOOSE g : P(g)
           base == IF sep = own THEN Len(line) - 1 ELSE 0
<1>2. base \in Int
  BY <1>1
<1>3. ASSUME NEW j \in 1 .. N PROVE Occurs(line[j], sep) \in Int
  <2> DEFINE marks == line[j].marks
             found == { i \in DOMAIN marks : marks[i] = sep }
  <2>1. CASE line[j].kind = "amount"
    <3>1. marks \in Seq({".", ","})
      BY <1>1, <2>1 DEF Marked
    <3> HIDE DEF marks
    <3>2. PICK m \in Nat : DOMAIN marks = 1 .. m
      <4>1. Len(marks) \in Nat /\ DOMAIN marks = 1 .. Len(marks)
        BY <3>1, Listed
      <4> QED  BY <4>1
    <3>3. found \in SUBSET (1 .. m)
      BY <3>2
    <3> HIDE DEF found
    <3>4. Cardinality(found) \in Nat
      BY <3>3, Enumerated
    <3>5. Occurs(line[j], sep) = Cardinality(found)
      BY <2>1 DEF Occurs, found, marks
    <3> QED  BY <3>4, <3>5
  <2>2. CASE line[j].kind # "amount"
    BY <2>2 DEF Occurs
  <2> QED  BY <2>1, <2>2
<1>4. Count(line, sep, own) = c[DOMAIN line]
  BY Zenon DEF Count, FoldLeft, MapThenFoldSet
<1> HIDE DEF base
<1> DEFINE step == [p \in Int \X (1 .. N) |-> p[1] + Occurs(line[p[2]], sep)]
<1>5. step \in [Int \X (1 .. N) -> Int]
  <2>1. \A x \in Int, j \in 1 .. N : x + Occurs(line[j], sep) \in Int
    BY <1>3
  <2> QED  BY <2>1
<1>6. \A x \in Int, j \in 1 .. N : step[<<x, j>>] = x + Occurs(line[j], sep)
  OBVIOUS
<1> HIDE DEF step
<1>7. PICK g : Table(g, N, base, step) /\ \A s \in SUBSET (1 .. N) : g[s] \in Int
  BY <1>2, <1>5, TableExists
<1>8. P(g)
  <2>1. ASSUME NEW s \in SUBSET (1 .. N), s # {}
        PROVE  step[<<g[s \ {Max(s)}], Max(s)>>] = g[s \ {Max(s)}] + Occurs(line[Max(s)], sep)
    BY <1>6, <1>7, <2>1, MaxUpTo
  <2> QED  BY <1>1, <1>7, <2>1 DEF Table, base
<1>9. P(c)
  BY <1>8, Zenon
<1> HIDE DEF c
<1>10. \A s \in SUBSET (1 .. N) :
         c[s] = IF s = {} THEN base ELSE c[s \ {Max(s)}] + Occurs(line[Max(s)], sep)
  BY <1>1, <1>9 DEF base
<1> DEFINE run == RunOf(c, N)
<1> HIDE DEF P, base
<1>11. Runs(c, N, run)
  BY RunOfTable
<1> HIDE DEF run
<1> DEFINE Q == {k \in 0 .. N : run[k] \in Int}
<1>12. 0 \in Q
  <2>1. c[{}] = base
    BY <1>10
  <2> QED  BY <1>2, <1>11, <2>1 DEF Runs
<1>13. ASSUME NEW k \in 1 .. N, k - 1 \in Q PROVE k \in Q
  <2>1. run[k - 1] \in Int /\ k \in 0 .. N
    BY <1>13
  <2>2. run[k] = run[k - 1] + Occurs(line[k], sep)
    BY <1>10, <1>11 DEF Runs
  <2> QED  BY <1>3, <2>1, <2>2
<1>14. N \in 0 .. N
  OBVIOUS
<1> HIDE DEF Q
<1>15. N \in Q
  BY <1>12, <1>13, <1>14, UpTo
<1> QED  BY <1>1, <1>4, <1>11, <1>15 DEF Q, Runs
-----------------------------------------------------------------------------
\* The lines, columns and transactions of a CSV file.
LEMMA FileIs ==
  ASSUME NEW f \in CsvFiles
  PROVE  /\ Len(f.lines) \in Nat /\ DOMAIN f.lines = 1 .. Len(f.lines)
         /\ \A i \in DOMAIN f.lines :
              /\ f.lines[i] \in Seq(Range(f.lines[i])) /\ Marked(f.lines[i])
              /\ Len(f.lines[i]) \in Nat /\ DOMAIN f.lines[i] = 1 .. Len(f.lines[i])
         /\ Len(f.roles) \in Nat /\ DOMAIN f.roles = 1 .. Len(f.roles)
         /\ f.first \in Nat /\ f.last \in Nat /\ 1 <= f.first /\ f.first <= f.last
         /\ f.last <= Len(f.lines) /\ f.first \in DOMAIN f.lines /\ 1 \in DOMAIN f.lines
         /\ Len(f.lines[f.first]) = Len(f.roles)
<1>1. f \in Files /\ f.lines \in Seq(Range(f.lines))
  BY FilesAssumption DEF CsvFiles
<1>2. Len(f.lines) \in Nat /\ DOMAIN f.lines = 1 .. Len(f.lines)
  BY <1>1, Listed
<1>3. \A i \in DOMAIN f.lines : f.lines[i] \in Seq(Range(f.lines[i]))
  BY FilesAssumption
<1>4. \A i \in DOMAIN f.lines : Marked(f.lines[i])
  BY AmountsAssumption DEF Marked
<1>5. \A i \in DOMAIN f.lines : Len(f.lines[i]) \in Nat
                                /\ DOMAIN f.lines[i] = 1 .. Len(f.lines[i])
  BY <1>3, Listed
<1>6. Len(f.roles) \in Nat /\ DOMAIN f.roles = 1 .. Len(f.roles)
      /\ Len(f.lines[f.first]) = Len(f.roles)
  BY FilesAssumption, Listed
<1>7. f.first \in 1 .. f.last /\ f.last \in DOMAIN f.lines
  BY FilesAssumption
<1>8. /\ f.first \in Nat /\ f.last \in Nat /\ 1 <= f.first /\ f.first <= f.last
      /\ f.last <= Len(f.lines) /\ f.first \in DOMAIN f.lines /\ 1 \in DOMAIN f.lines
  BY <1>2, <1>7
<1> QED  BY <1>2, <1>3, <1>4, <1>5, <1>6, <1>8

\* detectSeparator finds the separator of a file that tells it.
LEMMA SeparatorFound ==
  ASSUME NEW f \in CsvFiles, SeparatorTold(f)
  PROVE  DetectSeparator(f) = {f.sep}
<1> DEFINE count(s) == Count(f.lines[1], s, f.sep)
           most == { s \in Separators : \A t \in Separators : count(t) <= count(s) }
<1>1. \A s : count(s) \in Int
  BY FileIs, CountIsNumber
<1>2. f.sep \in Separators
  BY FilesAssumption
<1>3. \A s \in Separators \ {f.sep} :
        count(f.sep) - count(s) > 0 \/ (count(f.sep) - count(s) = 0 /\ f.sep = ",")
  BY Zenon DEF SeparatorTold
<1>4. DetectSeparator(f) = IF "," \in most THEN {","} ELSE most
  BY Zenon DEF DetectSeparator
<1> HIDE DEF count
<1>5. f.sep \in most
  <2> SUFFICES ASSUME NEW t \in Separators PROVE count(t) <= count(f.sep)
    BY <1>2
  <2>1. CASE t = f.sep
    BY <1>1, <2>1
  <2>2. CASE t # f.sep
    <3>1. count(t) \in Int /\ count(f.sep) \in Int
      BY <1>1
    <3>2. count(f.sep) - count(t) > 0 \/ count(f.sep) - count(t) = 0
      BY <1>3, <2>2
    <3> QED  BY <3>1, <3>2
  <2> QED  BY <2>1, <2>2
<1>6. ASSUME NEW t \in most, t # f.sep PROVE f.sep = ","
  <2>1. t \in Separators /\ count(f.sep) <= count(t)
    BY <1>2, <1>6
  <2>2. count(t) \in Int /\ count(f.sep) \in Int
    BY <1>1
  <2>3. count(f.sep) - count(t) > 0 \/ f.sep = ","
    BY <1>3, <1>6, <2>1
  <2>4. ~ (count(f.sep) - count(t) > 0)
    BY <2>1, <2>2
  <2> QED  BY <2>3, <2>4
<1> HIDE DEF most
<1>7. CASE f.sep = ","
  BY <1>4, <1>5, <1>7
<1>8. CASE f.sep # ","
  <2>1. most = {f.sep}
    BY <1>5, <1>6, <1>8
  <2> QED  BY <1>4, <1>8, <2>1
<1> QED  BY <1>7, <1>8

\* The last of some columns, counted from 0, or the default.
LEMMA LastColumn ==
  ASSUME NEW n \in Nat, NEW S \in SUBSET (1 .. n), NEW default \in {0, -1}
  PROVE  /\ S = {} => Max({default} \cup { i - 1 : i \in S }) = default
         /\ S # {} => /\ Max({default} \cup { i - 1 : i \in S }) = Max(S) - 1
                      /\ Max(S) \in S
<1> DEFINE T == {default} \cup { i - 1 : i \in S }
<1>1. \A i \in S : i - 1 \in 0 .. n /\ i \in Int
  OBVIOUS
<1>2. T \in SUBSET Int /\ T # {} /\ default \in T /\ \A k \in T : k <= n
  BY <1>1
<1>3. Max(T) \in T /\ \A k \in T : Max(T) >= k
  <2> HIDE DEF T
  <2>1. n \in Int
    OBVIOUS
  <2> QED  BY <1>2, <2>1, GreatestIs
<1>4. CASE S = {}
  <2>1. T = {default}
    BY <1>4
  <2> QED  BY <1>3, <1>4, <2>1
<1>5. CASE S # {}
  <2>1. S \in SUBSET Int /\ n \in Int /\ \A k \in S : k <= n
    OBVIOUS
  <2>2. Max(S) \in S /\ \A k \in S : Max(S) >= k
    BY <1>5, <2>1, GreatestIs
  <2> DEFINE m == Max(S)
             t == Max(T)
  <2>3. m \in S /\ \A k \in S : m >= k
    BY <2>2
  <2>4. t \in T /\ \A k \in T : t >= k
    BY <1>3
  <2> HIDE DEF m, t
  <2>5. m - 1 \in T /\ t >= m - 1 /\ t \in Int
    BY <1>2, <2>3, <2>4
  <2>6. \A k \in T : k <= m - 1
    <3>1. m \in Int /\ m - 1 \in 0 .. n
      BY <1>1, <2>3
    <3>2. \A i \in S : i - 1 <= m - 1
      BY <1>1, <2>3, <3>1
    <3> QED  BY <3>1, <3>2
  <2>7. t = m - 1
    <3>1. t <= m - 1 /\ m \in Int
      BY <2>3, <2>4, <2>6
    <3> QED  BY <2>5, <3>1
  <2> QED  BY <1>5, <2>3, <2>7 DEF m, t
<1> QED  BY <1>4, <1>5

\* The columns that have a role.
Having(f, role) == { j \in DOMAIN f.roles : f.roles[j] = role }

\* The column of a role is the last that has it.
LEMMA RoleIs ==
  ASSUME NEW f \in CsvFiles, NEW role, NEW default \in {0, -1}
  PROVE  /\ role \notin Range(f.roles) => Role(f, role, default) = default
         /\ role \in Range(f.roles) =>
              /\ Role(f, role, default) = Max(Having(f, role)) - 1
              /\ Role(f, role, default) \in 0 .. Len(f.roles) - 1
         /\ Has(f, role) <=> role \in Range(f.roles)
<1>1. Having(f, role) \in SUBSET (1 .. Len(f.roles)) /\ Len(f.roles) \in Nat
  BY FileIs DEF Having
<1>2. role \in Range(f.roles) <=> Having(f, role) # {}
  BY DEF Range, Having
<1>3. Role(f, role, default) = Max({default} \cup { i - 1 : i \in Having(f, role) })
      /\ Role(f, role, -1) = Max({-1} \cup { i - 1 : i \in Having(f, role) })
  BY Zenon DEF Role, Having
<1>4. Max(Having(f, role)) \in Having(f, role) => Max(Having(f, role)) - 1 \in 0 .. Len(f.roles) - 1
  BY <1>1
<1>5. CASE Having(f, role) = {}
  <2>1. Role(f, role, default) = default /\ Role(f, role, -1) = -1
    BY <1>1, <1>3, <1>5, LastColumn
  <2> QED  BY <1>2, <1>5, <2>1 DEF Has
<1>6. CASE Having(f, role) # {}
  <2>1. /\ Role(f, role, default) = Max(Having(f, role)) - 1
        /\ Role(f, role, -1) = Max(Having(f, role)) - 1
        /\ Max(Having(f, role)) \in Having(f, role)
    BY <1>1, <1>3, <1>6, LastColumn
  <2> QED  BY <1>2, <1>4, <1>6, <2>1 DEF Has
<1> QED  BY <1>5, <1>6
-----------------------------------------------------------------------------
\* A plain title is taken for what it says.
LEMMA TitleIs ==
  ASSUME NEW cell, NEW role, cell.hits = IF role = "other" THEN {} ELSE {role},
         NEW title \in Range(Keywords)
  PROVE  TitleOf(cell) = title <=> role = title
<1> DEFINE hits == { k \in DOMAIN Keywords : Keywords[k] \in cell.hits }
<1>1. Keywords = <<"date", "desc", "amount", "debit", "credit", "currency">>
  BY DEF Keywords
<1>2. DOMAIN Keywords = 1 .. 6 /\ title # "other" /\ title # "none"
      /\ \E k \in 1 .. 6 : Keywords[k] = title
  BY <1>1 DEF Range
<1>3. hits \in SUBSET Nat
  BY <1>2
<1>4. TitleOf(cell) = IF hits = {} THEN "none" ELSE Keywords[Min(hits)]
  BY Zenon DEF TitleOf
<1>5. hits # {} => Min(hits) \in hits
  <2> HIDE DEF hits
  <2> QED  BY <1>3, LeastIs
<1>6. hits # {} => Keywords[Min(hits)] = role
  BY <1>5
<1>7. role = title => hits # {}
  BY <1>2
<1> HIDE DEF hits
<1> QED  BY <1>2, <1>4, <1>6, <1>7

\* The columns SuggestMapping finds by plain titles are those of the roles.
LEMMA ColumnIs ==
  ASSUME NEW f \in CsvFiles, TitlesPlain(f), Len(f.lines[f.header]) = Len(f.roles),
         NEW title \in Range(Keywords), NEW default \in {0, -1}
  PROVE  Column(f.lines[f.header], title, default) = Role(f, title, default)
<1> DEFINE header == f.lines[f.header]
<1>1. f.header \in DOMAIN f.lines
  BY FileIs DEF TitlesPlain
<1>2. DOMAIN header = DOMAIN f.roles
  BY <1>1, FileIs
<1>3. \A j \in DOMAIN header : TitleOf(header[j]) = title <=> f.roles[j] = title
  <2> SUFFICES ASSUME NEW j \in DOMAIN f.roles
               PROVE  TitleOf(f.lines[f.header][j]) = title <=> f.roles[j] = title
    BY <1>2
  <2>1. f.lines[f.header][j].hits = IF f.roles[j] = "other" THEN {} ELSE {f.roles[j]}
    BY DEF TitlesPlain
  <2> DEFINE cell == f.lines[f.header][j]
             role == f.roles[j]
  <2>2. cell.hits = IF role = "other" THEN {} ELSE {role}
    BY <2>1
  <2> HIDE DEF cell, role
  <2>3. TitleOf(cell) = title <=> role = title
    BY <2>2, TitleIs
  <2> QED  BY <2>3 DEF cell, role
<1>4. Column(header, title, default)
        = Max({default} \cup { i - 1 : i \in { j \in DOMAIN header : TitleOf(header[j]) = title } })
  BY Zenon DEF Column
<1> HIDE DEF header
<1>5. { j \in DOMAIN header : TitleOf(header[j]) = title }
        = { j \in DOMAIN f.roles : f.roles[j] = title }
  BY <1>2, <1>3
<1>6. Column(header, title, default) = Role(f, title, default)
  BY <1>4, <1>5, Zenon DEF Role
<1> QED  BY <1>6 DEF header

\* In a rectangular file every line has a cell for every column.
LEMMA CellsAre ==
  ASSUME NEW f \in CsvFiles, Rectangular(f), NEW i \in DOMAIN f.lines
  PROVE  /\ Len(f.lines[i]) = Len(f.roles) /\ DOMAIN f.lines[i] = DOMAIN f.roles
         /\ f.lines[i] \in Seq(Range(f.lines[i]))
BY FileIs DEF Rectangular

\* findHeaderRow finds the line of plain titles.
LEMMA HeaderFound ==
  ASSUME NEW f \in CsvFiles, TitlesPlain(f), Rectangular(f)
  PROVE  FindHeaderRow(f.lines) = f.header - 1
<1>1. f.header \in DOMAIN f.lines /\ f.header \in 1 .. HeaderWithin /\ f.header \in Nat
  <2>1. f.header \in 1 .. 10 /\ f.first = f.header + 1
    BY DEF TitlesPlain, HeaderWithin
  <2>2. f.first \in 1 .. Len(f.lines) /\ DOMAIN f.lines = 1 .. Len(f.lines)
    BY FileIs
  <2> QED  BY <2>1, <2>2 DEF HeaderWithin
<1>2. \A i \in DOMAIN f.lines : DOMAIN f.lines[i] = DOMAIN f.roles
  BY CellsAre
<1>3. PICK j \in DOMAIN f.roles : f.roles[j] = "date"
  BY RolesAssumption DEF Range
<1>4. "date" \in f.lines[f.header][j].hits
  BY <1>3 DEF TitlesPlain
<1>5. f.header \in Titled(f.lines)
  BY <1>1, <1>2, <1>4 DEF Titled
<1>6. Titled(f.lines) \in SUBSET Nat /\ \A i \in Titled(f.lines) : i \in DOMAIN f.lines
  BY FileIs DEF Titled
<1>7. ASSUME NEW i \in Titled(f.lines) PROVE f.header <= i
  <2> SUFFICES ASSUME i < f.header PROVE FALSE
    BY <1>1, <1>6
  <2>1. PICK k \in DOMAIN f.lines[i] : f.lines[i][k].hits # {}
    BY DEF Titled
  <2>2. i \in 1 .. f.header - 1
    BY <1>1, <1>6, FileIs
  <2>3. i \in DOMAIN f.lines
    BY <1>6
  <2>4. k \in DOMAIN f.roles
    BY <1>2, <2>1, <2>3
  <2> QED  BY <2>1, <2>2, <2>4 DEF TitlesPlain
<1>8. Min(Titled(f.lines)) \in Titled(f.lines)
      /\ \A i \in Titled(f.lines) : Min(Titled(f.lines)) <= i
  BY <1>5, <1>6, LeastIs
<1>9. Min(Titled(f.lines)) = f.header
  BY <1>1, <1>5, <1>6, <1>7, <1>8
<1> QED  BY <1>5, <1>9 DEF FindHeaderRow

-----------------------------------------------------------------------------
\* Two digits for a day or a month, or one of them.
Fits(layout, part) == part.w \in IF layout.padded THEN {2} ELSE {1, 2}

\* A year, a month and a day in these parts of a cell are in the calendar.
InCalendar(layout, y, m, d) == IsDay(<<Year(y.n, layout.year), m.n, d.n>>)

\* A day is one of a month, and the first twelve are of every month.
LEMMA DaysAre ==
  ASSUME NEW layout, NEW y, NEW m, NEW d
  PROVE  /\ InCalendar(layout, y, m, d) => m.n \in 1 .. 12 /\ d.n \in 1 .. 31
         /\ m.n \in 1 .. 12 /\ d.n \in 1 .. 12 => InCalendar(layout, y, m, d)
         /\ \A other : other.year = layout.year =>
              (InCalendar(layout, y, m, d) <=> InCalendar(other, y, m, d))
<1> DEFINE year == Year(y.n, layout.year)
<1>1. DaysIn(m.n, year) \in {28, 29, 30, 31}
  <2> HIDE DEF year
  <2>1. CASE m.n = 2
    BY <2>1, Zenon DEF DaysIn
  <2>2. CASE m.n # 2 /\ m.n \in {4, 6, 9, 11}
    BY <2>2, Zenon DEF DaysIn
  <2>3. CASE m.n # 2 /\ m.n \notin {4, 6, 9, 11}
    BY <2>3, Zenon DEF DaysIn
  <2> QED  BY <2>1, <2>2, <2>3
<1>2. InCalendar(layout, y, m, d) <=> m.n \in 1 .. 12 /\ d.n \in 1 .. DaysIn(m.n, year)
  <2>1. <<year, m.n, d.n>>[1] = year /\ <<year, m.n, d.n>>[2] = m.n /\ <<year, m.n, d.n>>[3] = d.n
    OBVIOUS
  <2> HIDE DEF year
  <2>2. IsDay(<<year, m.n, d.n>>) <=> m.n \in 1 .. 12 /\ d.n \in 1 .. DaysIn(m.n, year)
    BY <2>1, Zenon DEF IsDay
  <2> QED  BY <2>2, Zenon DEF InCalendar, year
<1>3. \A other : other.year = layout.year =>
        (InCalendar(layout, y, m, d) <=> InCalendar(other, y, m, d))
  BY Zenon DEF InCalendar
<1> HIDE DEF year
<1>4. PICK n \in {28, 29, 30, 31} : n = DaysIn(m.n, year)
  BY <1>1
<1> QED  BY <1>2, <1>3, <1>4

\* The k-th format.
Is(k, order, sep, padded, year) ==
  /\ DateFormats[k].order = order /\ DateFormats[k].sep = sep
  /\ DateFormats[k].padded = padded /\ DateFormats[k].year = year

\* The formats: years come first with four digits and padding; next to one that
\* begins with the month stands one that begins with the day.
LEMMA FormatIs ==
  /\ DOMAIN DateFormats = 1 .. 12
  /\ \A k \in 1 .. 12 :
       /\ DateFormats[k].order \in {YearFirst, DayFirst, MonthFirst}
       /\ DateFormats[k].padded \in BOOLEAN /\ DateFormats[k].year \in {2, 4}
       /\ DateFormats[k].order = YearFirst => DateFormats[k].padded /\ DateFormats[k].year = 4
       /\ DateFormats[k].order # YearFirst => DateFormats[k].sep # ""
       /\ DateFormats[k].order = MonthFirst =>
            /\ k - 1 \in 1 .. 12 /\ DateFormats[k].sep # ""
            /\ DateFormats[k - 1].order = DayFirst
            /\ DateFormats[k - 1].sep = DateFormats[k].sep
            /\ DateFormats[k - 1].padded = DateFormats[k].padded
            /\ DateFormats[k - 1].year = DateFormats[k].year
<1>1. /\ Is(1, YearFirst, "-", TRUE, 4)
      /\ Is(2, DayFirst, "/", TRUE, 4)
      /\ Is(3, MonthFirst, "/", TRUE, 4)
      /\ Is(4, DayFirst, "-", TRUE, 4)
      /\ Is(5, MonthFirst, "-", TRUE, 4)
      /\ Is(6, DayFirst, ".", TRUE, 4)
      /\ Is(7, YearFirst, "/", TRUE, 4)
      /\ Is(8, YearFirst, "", TRUE, 4)
      /\ Is(9, DayFirst, "/", FALSE, 4)
      /\ Is(10, MonthFirst, "/", FALSE, 4)
      /\ Is(11, DayFirst, "/", TRUE, 2)
      /\ Is(12, MonthFirst, "/", TRUE, 2)
  BY DEF DateFormats, Layout, Is
<1>2. YearFirst # DayFirst /\ YearFirst # MonthFirst /\ DayFirst # MonthFirst
  BY DEF YearFirst, DayFirst, MonthFirst
<1>3. DOMAIN DateFormats = 1 .. 12
  BY DEF DateFormats
<1>4. \A k \in 1 .. 12 : k = 1 \/ k = 2 \/ k = 3 \/ k = 4 \/ k = 5 \/ k = 6
                         \/ k = 7 \/ k = 8 \/ k = 9 \/ k = 10 \/ k = 11 \/ k = 12
  OBVIOUS
<1>5. ASSUME NEW k \in 1 .. 12
      PROVE  /\ DateFormats[k].order \in {YearFirst, DayFirst, MonthFirst}
             /\ DateFormats[k].padded \in BOOLEAN /\ DateFormats[k].year \in {2, 4}
             /\ DateFormats[k].order = YearFirst =>
                  DateFormats[k].padded /\ DateFormats[k].year = 4
             /\ DateFormats[k].order # YearFirst => DateFormats[k].sep # ""
             /\ DateFormats[k].order = MonthFirst => k \in {3, 5, 10, 12}
  <2>1. CASE k = 1
    BY <1>1, <1>2, <2>1 DEF Is
  <2>2. CASE k = 2
    BY <1>1, <1>2, <2>2 DEF Is
  <2>3. CASE k = 3
    BY <1>1, <1>2, <2>3 DEF Is
  <2>4. CASE k = 4
    BY <1>1, <1>2, <2>4 DEF Is
  <2>5. CASE k = 5
    BY <1>1, <1>2, <2>5 DEF Is
  <2>6. CASE k = 6
    BY <1>1, <1>2, <2>6 DEF Is
  <2>7. CASE k = 7
    BY <1>1, <1>2, <2>7 DEF Is
  <2>8. CASE k = 8
    BY <1>1, <1>2, <2>8 DEF Is
  <2>9. CASE k = 9
    BY <1>1, <1>2, <2>9 DEF Is
  <2>10. CASE k = 10
    BY <1>1, <1>2, <2>10 DEF Is
  <2>11. CASE k = 11
    BY <1>1, <1>2, <2>11 DEF Is
  <2>12. CASE k = 12
    BY <1>1, <1>2, <2>12 DEF Is
  <2> QED  BY <1>4, <2>1, <2>2, <2>3, <2>4, <2>5, <2>6, <2>7, <2>8, <2>9, <2>10, <2>11, <2>12
<1>6. ASSUME NEW k \in {3, 5, 10, 12}
      PROVE  /\ k - 1 \in 1 .. 12 /\ DateFormats[k].sep # ""
             /\ DateFormats[k - 1].order = DayFirst
             /\ DateFormats[k - 1].sep = DateFormats[k].sep
             /\ DateFormats[k - 1].padded = DateFormats[k].padded
             /\ DateFormats[k - 1].year = DateFormats[k].year
  <2>1. CASE k = 3
    <3>1. k - 1 = 2
      BY <2>1
    <3>2. k - 1 \in 1 .. 12
      BY <3>1
    <3> QED  BY <1>1, <2>1, <3>1, <3>2 DEF Is
  <2>2. CASE k = 5
    <3>1. k - 1 = 4
      BY <2>2
    <3>2. k - 1 \in 1 .. 12
      BY <3>1
    <3> QED  BY <1>1, <2>2, <3>1, <3>2 DEF Is
  <2>3. CASE k = 10
    <3>1. k - 1 = 9
      BY <2>3
    <3>2. k - 1 \in 1 .. 12
      BY <3>1
    <3> QED  BY <1>1, <2>3, <3>1, <3>2 DEF Is
  <2>4. CASE k = 12
    <3>1. k - 1 = 11
      BY <2>4
    <3>2. k - 1 \in 1 .. 12
      BY <3>1
    <3> QED  BY <1>1, <2>4, <3>1, <3>2 DEF Is
  <2> QED  BY <2>1, <2>2, <2>3, <2>4
<1> QED  BY <1>3, <1>5, <1>6

\* What a layout accepts, by the order of its parts.
LEMMA AcceptsIs ==
  ASSUME NEW layout, NEW cell, layout.order \in {YearFirst, DayFirst, MonthFirst}
  PROVE  Accepts(layout, cell) <=>
           /\ cell.kind = "date" /\ cell.sep = layout.sep
           /\ layout.order = YearFirst =>
                /\ cell.parts[1].w = layout.year
                /\ Fits(layout, cell.parts[2]) /\ Fits(layout, cell.parts[3])
                /\ InCalendar(layout, cell.parts[1], cell.parts[2], cell.parts[3])
           /\ layout.order = DayFirst =>
                /\ Fits(layout, cell.parts[1]) /\ Fits(layout, cell.parts[2])
                /\ cell.parts[3].w = layout.year
                /\ InCalendar(layout, cell.parts[3], cell.parts[2], cell.parts[1])
           /\ layout.order = MonthFirst =>
                /\ Fits(layout, cell.parts[1]) /\ Fits(layout, cell.parts[2])
                /\ cell.parts[3].w = layout.year
                /\ InCalendar(layout, cell.parts[3], cell.parts[1], cell.parts[2])
<1> DEFINE At(i) == cell.parts[i].w \in IF layout.order[i] = "y" THEN {layout.year}
                                        ELSE IF layout.padded THEN {2} ELSE {1, 2}
           day == IsDay(DateOf(layout, cell))
<1>1. Accepts(layout, cell) <=>
        cell.kind = "date" /\ cell.sep = layout.sep /\ At(1) /\ At(2) /\ At(3) /\ day
  <2>1. Accepts(layout, cell) <=>
          cell.kind = "date" /\ cell.sep = layout.sep /\ (\A i \in 1 .. 3 : At(i)) /\ day
    BY Zenon DEF Accepts
  <2> HIDE DEF At, day
  <2>2. (\A i \in 1 .. 3 : At(i)) <=> At(1) /\ At(2) /\ At(3)
    <3>1. 1 .. 3 = {1, 2, 3}
      OBVIOUS
    <3> QED  BY <3>1
  <2> QED  BY <2>1, <2>2
<1>2. YearFirst # DayFirst /\ YearFirst # MonthFirst /\ DayFirst # MonthFirst
  BY DEF YearFirst, DayFirst, MonthFirst
<1>3. \A i \in 1 .. 3 : At(i) <=> IF layout.order[i] = "y" THEN cell.parts[i].w = layout.year
                                  ELSE Fits(layout, cell.parts[i])
  BY DEF Fits
<1>4. ASSUME NEW y \in 1 .. 3, NEW m \in 1 .. 3, NEW d \in 1 .. 3,
             layout.order[y] = "y", layout.order[m] = "m", layout.order[d] = "d",
             \A i \in 1 .. 3 : i = y \/ i = m \/ i = d
      PROVE  day <=> InCalendar(layout, cell.parts[y], cell.parts[m], cell.parts[d])
  <2>1. /\ (CHOOSE i \in 1 .. 3 : layout.order[i] = "y") = y
        /\ (CHOOSE i \in 1 .. 3 : layout.order[i] = "m") = m
        /\ (CHOOSE i \in 1 .. 3 : layout.order[i] = "d") = d
    BY <1>4
  <2>2. /\ PartOf(layout, cell, "y") = cell.parts[y].n
        /\ PartOf(layout, cell, "m") = cell.parts[m].n
        /\ PartOf(layout, cell, "d") = cell.parts[d].n
    BY <2>1, Zenon DEF PartOf
  <2> QED  BY <2>2, Zenon DEF DateOf, InCalendar
<1>5. \A i \in 1 .. 3 : i = 1 \/ i = 2 \/ i = 3
  OBVIOUS
<1> HIDE DEF At, day
<1>6. CASE layout.order = YearFirst
  <2>1. layout.order[1] = "y" /\ layout.order[2] = "m" /\ layout.order[3] = "d"
    BY <1>6 DEF YearFirst
  <2>2. day <=> InCalendar(layout, cell.parts[1], cell.parts[2], cell.parts[3])
    BY <1>4, <1>5, <2>1
  <2>3. /\ At(1) <=> cell.parts[1].w = layout.year
        /\ At(2) <=> Fits(layout, cell.parts[2])
        /\ At(3) <=> Fits(layout, cell.parts[3])
    BY <1>3, <2>1
  <2> QED  BY <1>1, <1>2, <1>6, <2>2, <2>3
<1>7. CASE layout.order = DayFirst
  <2>1. layout.order[1] = "d" /\ layout.order[2] = "m" /\ layout.order[3] = "y"
    BY <1>7 DEF DayFirst
  <2>2. day <=> InCalendar(layout, cell.parts[3], cell.parts[2], cell.parts[1])
    BY <1>4, <1>5, <2>1
  <2>3. /\ At(1) <=> Fits(layout, cell.parts[1])
        /\ At(2) <=> Fits(layout, cell.parts[2])
        /\ At(3) <=> cell.parts[3].w = layout.year
    BY <1>3, <2>1
  <2> QED  BY <1>1, <1>2, <1>7, <2>2, <2>3
<1>8. CASE layout.order = MonthFirst
  <2>1. layout.order[1] = "m" /\ layout.order[2] = "d" /\ layout.order[3] = "y"
    BY <1>8 DEF MonthFirst
  <2>2. day <=> InCalendar(layout, cell.parts[3], cell.parts[1], cell.parts[2])
    BY <1>4, <1>5, <2>1
  <2>3. /\ At(1) <=> Fits(layout, cell.parts[1])
        /\ At(2) <=> Fits(layout, cell.parts[2])
        /\ At(3) <=> cell.parts[3].w = layout.year
    BY <1>3, <2>1
  <2> QED  BY <1>1, <1>2, <1>8, <2>2, <2>3
<1> QED  BY <1>6, <1>7, <1>8

-----------------------------------------------------------------------------
\* The format of a file and any other of the list.
LEMMA InFormats ==
  ASSUME NEW a \in Range(DateFormats)
  PROVE  /\ a.order \in {YearFirst, DayFirst, MonthFirst} /\ a.padded \in BOOLEAN
         /\ a.order = YearFirst => a.padded /\ a.year = 4
         /\ \E k \in 1 .. 12 : a = DateFormats[k]
<1>1. PICK k \in 1 .. 12 : a = DateFormats[k]
  BY FormatIs DEF Range
<1> QED  BY <1>1, FormatIs

\* Layouts of one order read a cell they both accept in the same way.
LEMMA SameReading ==
  ASSUME NEW a \in Range(DateFormats), NEW b \in Range(DateFormats), a.order = b.order,
         NEW cell, Accepts(a, cell), Accepts(b, cell)
  PROVE  a.sep = b.sep /\ a.year = b.year /\ DateOf(a, cell) = DateOf(b, cell)
<1>1. a.sep = b.sep /\ a.year = b.year
  BY InFormats, AcceptsIs
<1>2. \A unit : PartOf(a, cell, unit) = PartOf(b, cell, unit)
  BY DEF PartOf
<1>3. DateOf(a, cell) = DateOf(b, cell)
  BY <1>1, <1>2 DEF DateOf
<1> QED  BY <1>1, <1>3

\* No cell is accepted with the year first and with the year last.
LEMMA YearsDiffer ==
  ASSUME NEW a \in Range(DateFormats), NEW b \in Range(DateFormats), a.order = YearFirst,
         NEW cell, Accepts(a, cell), Accepts(b, cell)
  PROVE  b.order = YearFirst
<1>1. a.year = 4 /\ cell.parts[1].w = 4
  BY InFormats, AcceptsIs
<1>2. ~ Fits(b, cell.parts[1])
  BY <1>1 DEF Fits
<1>3. b.order \in {YearFirst, DayFirst, MonthFirst}
  BY InFormats
<1> QED  BY <1>2, <1>3, AcceptsIs

\* Where the day is, with the month first or the day.
LEMMA DayIs ==
  ASSUME NEW layout, NEW cell
  PROVE  /\ layout.order = MonthFirst => DateOf(layout, cell)[3] = cell.parts[2].n
         /\ layout.order = DayFirst => DateOf(layout, cell)[3] = cell.parts[1].n
<1>1. \A i \in 1 .. 3 : i = 1 \/ i = 2 \/ i = 3
  OBVIOUS
<1>2. DateOf(layout, cell)[3] = PartOf(layout, cell, "d")
  BY DEF DateOf
<1>3. ASSUME layout.order = MonthFirst PROVE DateOf(layout, cell)[3] = cell.parts[2].n
  <2>1. layout.order[1] = "m" /\ layout.order[2] = "d" /\ layout.order[3] = "y"
    BY <1>3 DEF MonthFirst
  <2>2. \A i \in 1 .. 3 : layout.order[i] = "d" <=> i = 2
    BY <1>1, <2>1
  <2>3. (CHOOSE i \in 1 .. 3 : layout.order[i] = "d") = 2
    BY <2>2
  <2> QED  BY <1>2, <2>3 DEF PartOf
<1>4. ASSUME layout.order = DayFirst PROVE DateOf(layout, cell)[3] = cell.parts[1].n
  <2>1. layout.order[1] = "d" /\ layout.order[2] = "m" /\ layout.order[3] = "y"
    BY <1>4 DEF DayFirst
  <2>2. \A i \in 1 .. 3 : layout.order[i] = "d" <=> i = 1
    BY <1>1, <2>1
  <2>3. (CHOOSE i \in 1 .. 3 : layout.order[i] = "d") = 1
    BY <2>2
  <2> QED  BY <1>2, <2>3 DEF PartOf
<1> QED  BY <1>3, <1>4

\* A cell whose text seems to begin with a day, or with a month before a day.
DayLike(cell)   == Len(Numbers(cell)) >= 2 /\ Numbers(cell)[1] > 12
MonthLike(cell) == Len(Numbers(cell)) >= 2 /\ Numbers(cell)[2] > 12

\* The numbers of the parts of a date.
LEMMA TripleIs ==
  ASSUME NEW parts, NEW s, s = [i \in 1 .. 3 |-> parts[i].n]
  PROVE  Len(s) >= 2 /\ s[1] = parts[1].n /\ s[2] = parts[2].n
<1>1. s = [i \in 1 .. 3 |-> s[i]] /\ DOMAIN s = 1 .. 3
  OBVIOUS
<1>2. s \in Seq(Range(s))
  BY <1>1 DEF Range
<1>3. Len(s) = 3
  BY <1>1, <1>2
<1> QED  BY <1>3

\* A date does where its first or second part is after the 12th.
LEMMA DateLike ==
  ASSUME NEW cell, cell.kind = "date", cell.sep # ""
  PROVE  /\ DayLike(cell) <=> cell.parts[1].n > 12
         /\ MonthLike(cell) <=> cell.parts[2].n > 12
<1>1. Numbers(cell) = [i \in 1 .. 3 |-> cell.parts[i].n]
  BY Zenon DEF Numbers
<1>2. /\ Len(Numbers(cell)) >= 2
      /\ Numbers(cell)[1] = cell.parts[1].n /\ Numbers(cell)[2] = cell.parts[2].n
  BY <1>1, TripleIs
<1> QED  BY <1>2, Zenon DEF DayLike, MonthLike

\* What a row says about the order.
LEMMA ToldIs ==
  ASSUME NEW cell, NEW matching \in SUBSET (1 .. 12)
  PROVE  /\ Told(cell, matching) \subseteq matching
         /\ \A k \in Told(cell, matching) :
              \/ DateFormats[k].order[1] = "d" /\ DayLike(cell)
              \/ /\ DateFormats[k].order[1] = "m" /\ DateFormats[k].padded
                 /\ MonthLike(cell)
                 /\ DayLike(cell) => \A j \in matching : ~ ( /\ DateFormats[j].padded
                                                            /\ DateFormats[j].order[1] = "d" )
         /\ \A k \in matching :
              DateFormats[k].padded =>
                /\ DateFormats[k].order[1] = "d" /\ DayLike(cell)   => Told(cell, matching) # {}
                /\ DateFormats[k].order[1] = "m" /\ MonthLike(cell) => Told(cell, matching) # {}
<1> DEFINE starting(unit) == { k \in matching : /\ DateFormats[k].padded
                                                /\ DateFormats[k].order[1] = unit }
<1>1. Told(cell, matching) =
        IF Len(Numbers(cell)) < 2 THEN {}
        ELSE IF Numbers(cell)[1] > 12 /\ starting("d") # {} THEN starting("d")
        ELSE IF Numbers(cell)[2] > 12 THEN starting("m")
        ELSE {}
  BY Zenon DEF Told
<1>2. \A unit : \A k : k \in starting(unit) <=>
        k \in matching /\ DateFormats[k].padded /\ DateFormats[k].order[1] = unit
  OBVIOUS
<1> HIDE DEF starting
<1>3. Len(Numbers(cell)) < 2 => ~ (Len(Numbers(cell)) >= 2)
  OBVIOUS
<1>4. /\ DayLike(cell) /\ starting("d") # {} => Told(cell, matching) = starting("d")
      /\ ~ (DayLike(cell) /\ starting("d") # {}) /\ MonthLike(cell) =>
           Told(cell, matching) = starting("m")
      /\ ~ (DayLike(cell) /\ starting("d") # {}) /\ ~ MonthLike(cell) =>
           Told(cell, matching) = {}
  BY <1>1, <1>3 DEF DayLike, MonthLike
<1>5. CASE DayLike(cell) /\ starting("d") # {}
  BY <1>2, <1>4, <1>5
<1>6. CASE ~ (DayLike(cell) /\ starting("d") # {})
  BY <1>2, <1>4, <1>6
<1> QED  BY <1>5, <1>6
-----------------------------------------------------------------------------
\* The date of the first transaction, and the layouts that accept it.
FirstDate(f) == CellOf(f, f.first, "date")
Candidates(f)   == Matching(FirstDate(f))

\* The lines that say something about the order.
Telling(f) ==
  { i \in f.first .. Len(f.lines) : Told(CellOf(f, i, "date"), Candidates(f)) # {} }

\* The format found from the transactions on.
FormatFound(f) ==
  DetectDateFormat(SubSeq(f.lines, f.first, Len(f.lines)), Role(f, "date", -1))

\* It is the first choice or one that a line tells.
LEMMA FoundIs ==
  ASSUME NEW f \in CsvFiles, Rectangular(f), Candidates(f) # {}
  PROVE  /\ Candidates(f) \in SUBSET (1 .. 12) /\ Cardinality(Candidates(f)) \in Nat
         /\ \E k \in Candidates(f) :
              /\ FormatFound(f) = DateFormats[k]
              /\ \/ /\ \A j \in Candidates(f) : k <= j
                    /\ Telling(f) = {} \/ ~ (Cardinality(Candidates(f)) > 1)
                 \/ \E i \in Telling(f) : /\ k \in Told(CellOf(f, i, "date"), Candidates(f))
                                          /\ \A t \in Telling(f) : i <= t
<1> DEFINE rows == SubSeq(f.lines, f.first, Len(f.lines))
           col == Role(f, "date", -1)
           matching == Matching(rows[1][col + 1])
           telling == { i \in DOMAIN rows : /\ col < Len(rows[i])
                                             /\ Told(rows[i][col + 1], matching) # {} }
<1>1. FormatFound(f) =
        IF matching = {} THEN ISO
        ELSE IF Cardinality(matching) > 1 /\ telling # {}
             THEN DateFormats[Min(Told(rows[Min(telling)][col + 1], matching))]
        ELSE DateFormats[Min(matching)]
  BY Zenon DEF FormatFound, DetectDateFormat
<1>2. /\ DOMAIN rows \in SUBSET Nat /\ 1 \in DOMAIN rows
      /\ \A n \in DOMAIN rows : /\ f.first + n - 1 \in f.first .. Len(f.lines)
                                /\ rows[n] = f.lines[f.first + n - 1]
  <2>1. f.lines \in Seq(Range(f.lines))
    BY FilesAssumption DEF CsvFiles
  <2>2. f.first \in Nat /\ Len(f.lines) \in Nat /\ 1 <= f.first /\ f.first <= Len(f.lines)
    BY FileIs
  <2> QED  BY <2>1, <2>2
<1>3. \A n \in DOMAIN rows : rows[n][col + 1] = CellOf(f, f.first + n - 1, "date")
  BY <1>2 DEF CellOf
<1>4. f.first + 1 - 1 = f.first
  BY FileIs
<1>20. \A n \in DOMAIN rows : col < Len(rows[n])
  <2>1. "date" \in Range(f.roles) /\ Len(f.roles) \in Nat
    BY RolesAssumption, FileIs
  <2>2. col \in 0 .. Len(f.roles) - 1
    BY <2>1, RoleIs
  <2>3. \A i \in f.first .. Len(f.lines) : i \in DOMAIN f.lines
    BY FileIs
  <2>4. \A n \in DOMAIN rows : Len(rows[n]) = Len(f.roles)
    BY <1>2, <2>3, CellsAre
  <2> HIDE DEF col, rows
  <2> QED  BY <2>1, <2>2, <2>4
<1> HIDE DEF rows
<1>5. matching = Candidates(f)
  BY <1>2, <1>3, <1>4 DEF Candidates, FirstDate
<1> HIDE DEF col
<1>6. \A n \in telling : f.first + n - 1 \in Telling(f)
  BY <1>2, <1>3, <1>5 DEF Telling
<1>7. \A i \in Telling(f) : i - f.first + 1 \in telling
  <2> SUFFICES ASSUME NEW i \in Telling(f) PROVE i - f.first + 1 \in telling
    OBVIOUS
  <2> DEFINE n == i - f.first + 1
  <2>1. n \in DOMAIN rows /\ f.first + n - 1 = i
    <3>1. i \in f.first .. Len(f.lines) /\ f.first \in Nat /\ Len(f.lines) \in Nat
      BY FileIs DEF Telling
    <3>2. f.lines \in Seq(Range(f.lines)) /\ f.first >= 1
      BY FilesAssumption, FileIs DEF CsvFiles
    <3>3. DOMAIN rows = 1 .. Len(f.lines) - f.first + 1
      BY <3>1, <3>2 DEF rows
    <3> QED  BY <3>1, <3>3
  <2> HIDE DEF n
  <2>2. n \in telling
    BY <1>3, <1>5, <1>20, <2>1 DEF Telling
  <2> QED  BY <2>2 DEF n
<1>8. Candidates(f) \in SUBSET (1 .. 12)
  BY FormatIs DEF Candidates, Matching
<1>9. Cardinality(Candidates(f)) \in Nat
  BY <1>8, Enumerated
<1>10. telling # {} => Min(telling) \in telling /\ \A k \in telling : Min(telling) <= k
  BY <1>2, LeastIs
<1> HIDE DEF matching, telling
<1>11. CASE Cardinality(Candidates(f)) > 1 /\ telling # {}
  <2> DEFINE n == Min(telling)
             told == Told(rows[n][col + 1], Candidates(f))
  <2>1. n \in telling
    BY <1>10, <1>11
  <2>2. told # {}
    BY <1>5, <2>1 DEF telling
  <2>3. told \in SUBSET (1 .. 12) /\ told \in SUBSET Candidates(f)
    BY <1>8, ToldIs
  <2>4. FormatFound(f) = DateFormats[Min(told)]
    BY <1>1, <1>5, <1>11
  <2>5. told = Told(CellOf(f, f.first + n - 1, "date"), Candidates(f))
    BY <1>3, <2>1 DEF telling
  <2>6. \A t \in Telling(f) : f.first + n - 1 <= t
    <3>1. telling \subseteq Nat /\ f.first \in Nat
      BY <1>2, FileIs DEF telling
    <3>2. \A t \in Telling(f) : t \in Int /\ n <= t - f.first + 1
      BY <1>7, <1>10, <1>11, FileIs DEF Telling
    <3> HIDE DEF n
    <3> QED  BY <2>1, <3>1, <3>2
  <2> HIDE DEF told, n
  <2>7. Min(told) \in told
    BY <2>2, <2>3, LeastIs
  <2> QED  BY <1>6, <1>8, <1>9, <2>1, <2>3, <2>4, <2>5, <2>6, <2>7
<1>12. CASE ~ (Cardinality(Candidates(f)) > 1 /\ telling # {})
  <2>1. FormatFound(f) = DateFormats[Min(Candidates(f))]
    BY <1>1, <1>5, <1>12
  <2>2. Min(Candidates(f)) \in Candidates(f) /\ \A j \in Candidates(f) : Min(Candidates(f)) <= j
    BY <1>8, LeastIs
  <2> QED  BY <1>7, <1>8, <1>9, <1>12, <2>1, <2>2
<1> QED  BY <1>11, <1>12

-----------------------------------------------------------------------------
\* The dates of a file are those of its transactions, in its format.
LEMMA DateCells ==
  ASSUME NEW f \in CsvFiles, Rectangular(f)
  PROVE  /\ f.format \in Range(DateFormats) /\ f.first \in Transactions(f)
         /\ Transactions(f) \subseteq DOMAIN f.lines
         /\ \A i \in Transactions(f) : Accepts(f.format, CellOf(f, i, "date"))
         /\ \A i \in DOMAIN f.lines : CellOf(f, i, "date").kind = "date" =>
              /\ i \in Transactions(f)
              /\ CellOf(f, i, "date").parts \in [1 .. 3 -> [n : Nat, w : Nat]]
<1>1. f.format \in Range(DateFormats)
  BY FilesAssumption
<1>2. f.first \in Transactions(f) /\ Transactions(f) \subseteq DOMAIN f.lines
  BY FileIs DEF Transactions
<1>3. \A i \in Transactions(f) : Accepts(f.format, CellOf(f, i, "date"))
  BY DatesAssumption
<1>4. ASSUME NEW i \in DOMAIN f.lines, CellOf(f, i, "date").kind = "date"
      PROVE  /\ i \in Transactions(f)
             /\ CellOf(f, i, "date").parts \in [1 .. 3 -> [n : Nat, w : Nat]]
  <2> DEFINE j == Role(f, "date", -1) + 1
  <2>1. "date" \in Range(f.roles)
    BY RolesAssumption
  <2>2. Role(f, "date", -1) \in 0 .. Len(f.roles) - 1
    BY <2>1, RoleIs
  <2>3. j \in DOMAIN f.lines[i]
    BY <2>2, CellsAre, FileIs
  <2>4. CellOf(f, i, "date") = f.lines[i][j]
    BY DEF CellOf
  <2> HIDE DEF j
  <2> QED  BY <1>4, <2>3, <2>4, DatesAssumption
<1> QED  BY <1>1, <1>2, <1>3, <1>4

\* Of the first layouts that accept a date, none reads the month first that could
\* be read the other way round.
LEMMA DayFirstBefore ==
  ASSUME NEW k \in 1 .. 12, DateFormats[k].order = MonthFirst,
         NEW cell, cell.parts \in [1 .. 3 -> [n : Nat, w : Nat]],
         Accepts(DateFormats[k], cell),
         NEW b \in Range(DateFormats), b.order = DayFirst, Accepts(b, cell)
  PROVE  k - 1 \in 1 .. 12 /\ Accepts(DateFormats[k - 1], cell)
<1>1. /\ k - 1 \in 1 .. 12 /\ DateFormats[k - 1].order = DayFirst
      /\ DateFormats[k - 1].sep = DateFormats[k].sep
      /\ DateFormats[k - 1].padded = DateFormats[k].padded
      /\ DateFormats[k - 1].year = DateFormats[k].year
  BY FormatIs
<1>2. \A part : Fits(DateFormats[k], part) => Fits(DateFormats[k - 1], part)
  BY <1>1 DEF Fits
<1>3. /\ cell.kind = "date" /\ cell.sep = DateFormats[k].sep
      /\ Fits(DateFormats[k], cell.parts[1]) /\ Fits(DateFormats[k], cell.parts[2])
      /\ cell.parts[3].w = DateFormats[k].year
      /\ InCalendar(DateFormats[k], cell.parts[3], cell.parts[1], cell.parts[2])
  BY AcceptsIs
<1>4. DayFirst # YearFirst /\ DayFirst # MonthFirst
  BY DEF YearFirst, DayFirst, MonthFirst
<1>5. InCalendar(b, cell.parts[3], cell.parts[2], cell.parts[1])
  BY <1>4, AcceptsIs
<1>6. cell.parts[1].n \in 1 .. 12 /\ cell.parts[2].n \in 1 .. 12
  BY <1>3, <1>5, DaysAre
<1>7. InCalendar(DateFormats[k - 1], cell.parts[3], cell.parts[2], cell.parts[1])
  BY <1>6, DaysAre
<1>8. Accepts(DateFormats[k - 1], cell)
  <2> DEFINE a == DateFormats[k - 1]
  <2>1. /\ a.order = DayFirst /\ cell.sep = a.sep /\ cell.parts[3].w = a.year
        /\ Fits(a, cell.parts[1]) /\ Fits(a, cell.parts[2])
        /\ InCalendar(a, cell.parts[3], cell.parts[2], cell.parts[1])
    BY <1>1, <1>2, <1>3, <1>7
  <2> HIDE DEF a
  <2>2. Accepts(a, cell)
    BY <1>3, <1>4, <2>1, AcceptsIs
  <2> QED  BY <2>2 DEF a
<1> QED  BY <1>1, <1>8

\* A set with two elements has more than one.
LEMMA TwoOf ==
  ASSUME NEW N \in Nat, NEW S \in SUBSET (1 .. N), NEW a \in S, NEW b \in S,
         ~ (Cardinality(S) > 1)
  PROVE  a = b
<1> SUFFICES ASSUME a # b PROVE FALSE
  OBVIOUS
<1>1. IsFiniteSet(S) /\ Cardinality(S) \in Nat
  BY Enumerated
<1>2. IsFiniteSet({a}) /\ Cardinality({a}) = 1
  BY FS_Singleton
<1>3. Cardinality({a} \cup {b}) = 2
  BY <1>2, FS_AddElement
<1>4. Cardinality({a} \cup {b}) <= Cardinality(S)
  BY <1>1, FS_Subset
<1> QED  BY <1>1, <1>3, <1>4

\* The format found has its parts in the order of the file, unless they are
\* month-first and no date tells it.
LEMMA OrderFound ==
  ASSUME NEW f \in CsvFiles, Rectangular(f), OrderTold(f)
  PROVE  /\ FormatFound(f) \in Range(DateFormats)
         /\ Accepts(FormatFound(f), FirstDate(f))
         /\ FormatFound(f).order = f.format.order
<1> DEFINE own == FirstDate(f)
<1>1. /\ f.format \in Range(DateFormats) /\ Accepts(f.format, own)
      /\ own.kind = "date" /\ own.parts \in [1 .. 3 -> [n : Nat, w : Nat]]
  <2>1. Accepts(f.format, own) /\ f.format \in Range(DateFormats) /\ f.first \in DOMAIN f.lines
    BY DateCells DEF FirstDate
  <2>2. own.kind = "date"
    BY <2>1, Zenon DEF Accepts
  <2> QED  BY <2>1, <2>2, DateCells DEF FirstDate
<1>2. PICK c \in 1 .. 12 : f.format = DateFormats[c]
  BY <1>1, InFormats
<1>3. c \in Candidates(f) /\ \A k \in Candidates(f) : Accepts(DateFormats[k], own)
  BY <1>1, <1>2, FormatIs DEF Candidates, Matching
<1>4. /\ Candidates(f) \in SUBSET (1 .. 12) /\ Cardinality(Candidates(f)) \in Nat
      /\ \E k \in Candidates(f) :
           /\ FormatFound(f) = DateFormats[k]
           /\ \/ /\ \A j \in Candidates(f) : k <= j
                 /\ Telling(f) = {} \/ ~ (Cardinality(Candidates(f)) > 1)
              \/ \E i \in Telling(f) : /\ k \in Told(CellOf(f, i, "date"), Candidates(f))
                                       /\ \A t \in Telling(f) : i <= t
  BY <1>3, FoundIs
<1>5. PICK k \in Candidates(f) :
        /\ FormatFound(f) = DateFormats[k]
        /\ \/ /\ \A j \in Candidates(f) : k <= j
              /\ Telling(f) = {} \/ ~ (Cardinality(Candidates(f)) > 1)
           \/ \E i \in Telling(f) : /\ k \in Told(CellOf(f, i, "date"), Candidates(f))
                                    /\ \A t \in Telling(f) : i <= t
  BY <1>4
<1> DEFINE layout == DateFormats[k]
<1> HIDE DEF own
<1>6. layout \in Range(DateFormats) /\ Accepts(layout, own) /\ k \in 1 .. 12
  BY <1>3, <1>4, FormatIs DEF Range
<1>7. /\ f.format.order \in {YearFirst, DayFirst, MonthFirst}
      /\ layout.order \in {YearFirst, DayFirst, MonthFirst}
      /\ YearFirst # DayFirst /\ YearFirst # MonthFirst /\ DayFirst # MonthFirst
  BY <1>1, <1>6, InFormats DEF YearFirst, DayFirst, MonthFirst
<1>8. f.format.order = YearFirst <=> layout.order = YearFirst
  BY <1>1, <1>6, YearsDiffer
\* What a transaction seems to tell is in its date.
<1>9. ASSUME NEW i \in Transactions(f), f.format.order # YearFirst
      PROVE  /\ Accepts(f.format, CellOf(f, i, "date"))
             /\ DayLike(CellOf(f, i, "date")) <=> CellOf(f, i, "date").parts[1].n > 12
             /\ MonthLike(CellOf(f, i, "date")) <=> CellOf(f, i, "date").parts[2].n > 12
             /\ i \in f.first .. Len(f.lines)
  <2>1. Accepts(f.format, CellOf(f, i, "date"))
    BY DateCells
  <2>2. CellOf(f, i, "date").kind = "date" /\ CellOf(f, i, "date").sep = f.format.sep
    BY <1>7, <2>1, AcceptsIs
  <2>3. f.format.sep # ""
    BY <1>2, <1>7, <1>9, FormatIs
  <2>4. i \in f.first .. Len(f.lines)
    BY FileIs DEF Transactions
  <2> QED  BY <2>1, <2>2, <2>3, <2>4, DateLike
<1>10. /\ \A a \in Range(DateFormats) : a.order[1] = "d" => a.order = DayFirst
       /\ \A a \in Range(DateFormats) : a.order[1] = "m" => a.order = MonthFirst
       /\ MonthFirst[1] = "m" /\ DayFirst[1] = "d"
  BY InFormats DEF YearFirst, DayFirst, MonthFirst
<1> HIDE DEF layout
\* Told the month first, the line is not a transaction; a total after them
\* misleads, but only if no transaction before it has told the day.
<1>11. ASSUME f.format.order = DayFirst PROVE layout.order = DayFirst
  <2> SUFFICES ASSUME layout.order = MonthFirst PROVE FALSE
    BY <1>7, <1>8, <1>11
  <2>1. k - 1 \in 1 .. 12 /\ Accepts(DateFormats[k - 1], own)
    BY <1>1, <1>6, <1>11, DayFirstBefore DEF layout
  <2>2. k - 1 \in Candidates(f) /\ ~ (k <= k - 1)
    <3>1. ~ (k <= k - 1)
      BY <1>6
    <3> QED  BY <2>1, <3>1, FormatIs DEF Candidates, Matching, own
  <2>3. PICK i \in Telling(f) : /\ k \in Told(CellOf(f, i, "date"), Candidates(f))
                               /\ \A t \in Telling(f) : i <= t
    BY <1>5, <2>2
  <2>4. /\ MonthLike(CellOf(f, i, "date")) /\ DateFormats[k].padded
        /\ DayLike(CellOf(f, i, "date")) =>
             \A j \in Candidates(f) : ~ (DateFormats[j].padded /\ DateFormats[j].order[1] = "d")
    <3>1. DateFormats[k].order[1] # "d"
      BY <1>6, <1>7, <1>10 DEF layout
    <3> QED  BY <1>4, <2>3, <3>1, ToldIs
  <2>5. ~ DayLike(CellOf(f, i, "date"))
    <3>1. DateFormats[k - 1].padded /\ DateFormats[k - 1].order = DayFirst
      BY <1>6, <2>4, FormatIs DEF layout
    <3>2. DateFormats[k - 1].padded /\ DateFormats[k - 1].order[1] = "d"
      BY <1>10, <3>1
    <3> QED  BY <2>2, <2>4, <3>2
  <2>6. i \in f.last + 1 .. Len(f.lines)
    <3>1. i \notin Transactions(f)
      <4> SUFFICES ASSUME i \in Transactions(f) PROVE FALSE
        OBVIOUS
      <4>1. CellOf(f, i, "date").parts[2].n > 12
        BY <1>7, <1>9, <1>11, <2>4
      <4>2. CellOf(f, i, "date").parts[2].n \in 1 .. 12
        <5>1. InCalendar(f.format, CellOf(f, i, "date").parts[3],
                         CellOf(f, i, "date").parts[2], CellOf(f, i, "date").parts[1])
          BY <1>7, <1>9, <1>11, AcceptsIs
        <5> QED  BY <5>1, DaysAre
      <4> QED  BY <4>1, <4>2
    <3>2. i \in f.first .. Len(f.lines)
      BY DEF Telling
    <3> QED  BY <3>1, <3>2, FileIs DEF Transactions
  <2>7. ~ (\E t \in Transactions(f) : t \in Telling(f))
    <3> SUFFICES ASSUME NEW t \in Transactions(f), t \in Telling(f) PROVE FALSE
      OBVIOUS
    <3>1. i <= t /\ t <= f.last /\ t \in Int
      BY <2>3, FileIs DEF Transactions
    <3> QED  BY <2>6, <3>1, FileIs
  <2>8. CASE \A t \in f.last + 1 .. Len(f.lines) : ~Misleads(f, t)
    <3>1. ~ Misleads(f, i)
      BY <2>6, <2>8
    <3> QED  BY <2>4, <2>5, <3>1 DEF Misleads, DayLike, MonthLike
  <2>9. CASE f.format.padded /\ \E t \in Transactions(f) : DayAfterTwelfth(f, t)
    <3>1. PICK t \in Transactions(f) : DayAfterTwelfth(f, t)
      BY <2>9
    <3>2. DayLike(CellOf(f, t, "date"))
      BY <1>7, <1>9, <1>11, <3>1, DayIs DEF DayAfterTwelfth, DateWritten
    <3>3. c \in Candidates(f) /\ DateFormats[c].padded /\ DateFormats[c].order[1] = "d"
      BY <1>2, <1>3, <1>10, <1>11, <2>9
    <3>4. Told(CellOf(f, t, "date"), Candidates(f)) # {}
      BY <1>4, <3>2, <3>3, ToldIs
    <3>5. t \in Telling(f)
      BY <1>7, <1>9, <1>11, <3>4 DEF Telling
    <3> QED  BY <2>7, <3>5
  <2>10. CASE DayAfterTwelfth(f, f.first)
    <3>1. own.parts[1].n > 12
      BY <1>11, <2>10, DayIs DEF DayAfterTwelfth, DateWritten, FirstDate, own
    <3>2. InCalendar(layout, own.parts[3], own.parts[1], own.parts[2])
      BY <1>6, <1>7, AcceptsIs
    <3>3. own.parts[1].n \in 1 .. 12
      BY <3>2, DaysAre
    <3> QED  BY <3>1, <3>3
  <2> QED  BY <1>7, <1>11, <2>8, <2>9, <2>10 DEF OrderTold
<1>12. ASSUME f.format.order = MonthFirst PROVE layout.order = MonthFirst
  <2> SUFFICES ASSUME layout.order = DayFirst PROVE FALSE
    BY <1>7, <1>8, <1>12
  \* The first date has a day after the 12th: it is not accepted with the day first.
  <2>1. CASE DayAfterTwelfth(f, f.first)
    <3>1. own.parts[2].n > 12
      BY <1>12, <2>1, DayIs DEF DayAfterTwelfth, DateWritten, FirstDate, own
    <3>2. InCalendar(layout, own.parts[3], own.parts[2], own.parts[1])
      BY <1>6, <1>7, AcceptsIs
    <3>3. own.parts[2].n \in 1 .. 12
      BY <3>2, DaysAre
    <3> QED  BY <3>1, <3>3
  \* A padded date has one: its line tells, and the first that does is a transaction.
  <2>2. CASE f.format.padded /\ \E i \in Transactions(f) : DayAfterTwelfth(f, i)
    <3>1. PICK i \in Transactions(f) : DayAfterTwelfth(f, i)
      BY <2>2
    <3>2. MonthLike(CellOf(f, i, "date"))
      BY <1>7, <1>9, <1>12, <3>1, DayIs DEF DayAfterTwelfth, DateWritten
    <3>3. c \in Candidates(f) /\ DateFormats[c].padded /\ DateFormats[c].order[1] = "m"
      BY <1>2, <1>3, <1>10, <1>12, <2>2
    <3>4. Told(CellOf(f, i, "date"), Candidates(f)) # {}
      BY <1>4, <3>2, <3>3, ToldIs
    <3>5. i \in Telling(f)
      BY <1>7, <1>9, <1>12, <3>4 DEF Telling
    <3>6. CASE \E t \in Telling(f) : /\ k \in Told(CellOf(f, t, "date"), Candidates(f))
                                    /\ \A u \in Telling(f) : t <= u
      <4>1. PICK t \in Telling(f) : /\ k \in Told(CellOf(f, t, "date"), Candidates(f))
                                   /\ \A u \in Telling(f) : t <= u
        BY <3>6
      <4>2. t \in Transactions(f)
        <5>1. t <= i /\ i <= f.last /\ i \in Int /\ t \in f.first .. Len(f.lines)
          BY <3>5, <4>1, FileIs DEF Transactions, Telling
        <5> QED  BY <5>1, FileIs DEF Transactions
      <4>3. CellOf(f, t, "date").parts[1].n > 12
        <5>1. DateFormats[k].order[1] # "m"
          BY <1>6, <1>7, <1>10 DEF layout
        <5>2. DayLike(CellOf(f, t, "date"))
          BY <1>4, <4>1, <5>1, ToldIs
        <5> QED  BY <1>7, <1>9, <1>12, <4>2, <5>2
      <4>4. CellOf(f, t, "date").parts[1].n \in 1 .. 12
        <5>1. InCalendar(f.format, CellOf(f, t, "date").parts[3],
                         CellOf(f, t, "date").parts[1], CellOf(f, t, "date").parts[2])
          BY <1>7, <1>9, <1>12, <4>2, AcceptsIs
        <5> QED  BY <5>1, DaysAre
      <4> QED  BY <4>3, <4>4
    <3>7. CASE ~ (Cardinality(Candidates(f)) > 1)
      <4>1. c = k
        BY <1>3, <1>4, <3>7, TwoOf
      <4> QED  BY <1>2, <1>7, <1>12, <4>1 DEF layout
    <3> QED  BY <1>5, <3>5, <3>6, <3>7
  <2> QED  BY <1>7, <1>12, <2>1, <2>2 DEF OrderTold
<1>13. layout.order = f.format.order
  BY <1>7, <1>8, <1>11, <1>12
<1> QED  BY <1>5, <1>6, <1>13 DEF own, layout

-----------------------------------------------------------------------------
\* Where the width of the parts is told as well, it accepts every date of the file.
LEMMA WidthFound ==
  ASSUME NEW f \in CsvFiles, Rectangular(f), OrderTold(f), WidthTold(f),
         NEW cell, Accepts(f.format, cell)
  PROVE  Accepts(FormatFound(f), cell)
<1> DEFINE layout == FormatFound(f)
           own == FirstDate(f)
<1>1. /\ layout \in Range(DateFormats) /\ Accepts(layout, own) /\ layout.order = f.format.order
      /\ f.format \in Range(DateFormats) /\ Accepts(f.format, own)
  BY OrderFound, DateCells DEF FirstDate
<1> HIDE DEF layout, own
<1>2. layout.sep = f.format.sep /\ layout.year = f.format.year
  BY <1>1, SameReading
<1>3. /\ f.format.order \in {YearFirst, DayFirst, MonthFirst}
      /\ f.format.order = YearFirst => f.format.padded
      /\ layout.padded \in BOOLEAN
      /\ YearFirst # DayFirst /\ YearFirst # MonthFirst /\ DayFirst # MonthFirst
  BY <1>1, InFormats DEF YearFirst, DayFirst, MonthFirst
<1>4. \A part : Fits(f.format, part) => Fits(layout, part)
  <2>1. CASE f.format.padded
    BY <2>1 DEF Fits
  <2>2. CASE ~ f.format.padded
    <3>1. PICK k \in 1 .. 2 : own.parts[k].w = 1
      BY <2>2 DEF WidthTold, FirstDate, own
    <3>2. k = 1 \/ k = 2
      OBVIOUS
    <3>3. Fits(layout, own.parts[k])
      BY <1>1, <1>3, <2>2, <3>2, AcceptsIs
    <3>4. ~ layout.padded
      BY <3>1, <3>3 DEF Fits
    <3> QED  BY <2>2, <3>4 DEF Fits
  <2> QED  BY <2>1, <2>2
<1>6. \A y, m, d : InCalendar(f.format, y, m, d) => InCalendar(layout, y, m, d)
  BY <1>2, DaysAre
<1>5. Accepts(layout, cell)
  <2>1. cell.kind = "date" /\ cell.sep = layout.sep
    BY <1>2, <1>3, AcceptsIs
  <2>2. CASE f.format.order = YearFirst
    BY <1>1, <1>2, <1>3, <1>4, <1>6, <2>1, <2>2, AcceptsIs
  <2>3. CASE f.format.order = DayFirst
    BY <1>1, <1>2, <1>3, <1>4, <1>6, <2>1, <2>3, AcceptsIs
  <2>4. CASE f.format.order = MonthFirst
    BY <1>1, <1>2, <1>3, <1>4, <1>6, <2>1, <2>4, AcceptsIs
  <2> QED  BY <1>3, <2>2, <2>3, <2>4
<1> QED  BY <1>5 DEF layout
-----------------------------------------------------------------------------
\* A mapping that has the columns of the file, from its first transaction on.
Reads(f, m) ==
  /\ m.date_col = Role(f, "date", -1) /\ m.amount_col = Role(f, "amount", -1)
  /\ m.debit_col = Role(f, "debit", -1) /\ m.credit_col = Role(f, "credit", -1)
  /\ m.description_col \in 0 .. Len(f.roles) - 1
  /\ m.skip_rows = f.first - 1

\* A column of dates, of amounts or of debits and credits.
LEMMA ColumnsAre ==
  ASSUME NEW f \in CsvFiles
  PROVE  /\ "date" \in Range(f.roles) /\ Role(f, "date", 0) = Role(f, "date", -1)
         /\ Role(f, "date", -1) \in 0 .. Len(f.roles) - 1
         /\ \A role : \/ ~ Has(f, role) /\ Role(f, role, -1) = -1
                      \/ Has(f, role) /\ Role(f, role, -1) \in 0 .. Len(f.roles) - 1
         /\ Has(f, "amount") <=> ~ (Has(f, "debit") /\ Has(f, "credit"))
<1>1. "date" \in Range(f.roles)
      /\ ("amount" \in Range(f.roles) <=> ~ {"debit", "credit"} \subseteq Range(f.roles))
  BY RolesAssumption
<1>2. \A role : Has(f, role) <=> role \in Range(f.roles)
  BY RoleIs
<1>3. \A role : /\ role \notin Range(f.roles) => Role(f, role, -1) = -1
                /\ role \in Range(f.roles) => Role(f, role, -1) \in 0 .. Len(f.roles) - 1
  BY RoleIs
<1>4. Role(f, "date", 0) = Role(f, "date", -1)
  BY <1>1, RoleIs
<1> QED  BY <1>1, <1>2, <1>3, <1>4

\* The mapping the user gives.
LEMMA RightReads ==
  ASSUME NEW f \in CsvFiles
  PROVE  /\ Reads(f, RightMapping(f)) /\ RightMapping(f).date_format = f.format
         /\ RightMapping(f).separator = f.sep
<1>1. Role(f, "desc", 0) \in 0 .. Len(f.roles) - 1
  <2>1. Len(f.roles) \in Nat /\ Role(f, "date", -1) \in 0 .. Len(f.roles) - 1
    BY FileIs, ColumnsAre
  <2> QED  BY <2>1, RoleIs
<1>2. Role(f, "date", 0) = Role(f, "date", -1)
  BY ColumnsAre
<1> QED  BY <1>1, <1>2 DEF Reads, RightMapping

\* The mapping suggested when every title is plain.
LEMMA SuggestedReads ==
  ASSUME NEW f \in CsvFiles, Rectangular(f), TitlesPlain(f)
  PROVE  /\ Reads(f, SuggestedMapping(f.lines, f.sep))
         /\ SuggestedMapping(f.lines, f.sep).date_format = FormatFound(f)
         /\ SuggestedMapping(f.lines, f.sep).separator = f.sep
<1> DEFINE m == SuggestedMapping(f.lines, f.sep)
           header == f.lines[f.header]
           debit == Column(header, "debit", -1)
           credit == Column(header, "credit", -1)
           rows == SubSeq(f.lines, f.first, Len(f.lines))
<1>1. /\ f.header \in Nat /\ f.header >= 1 /\ f.first = f.header + 1
      /\ FindHeaderRow(f.lines) = f.header - 1
  <2>1. f.header \in 1 .. 10 /\ f.first = f.header + 1
    BY DEF TitlesPlain, HeaderWithin
  <2>2. FindHeaderRow(f.lines) = f.header - 1
    BY HeaderFound
  <2> QED  BY <2>1, <2>2
<1>2. FindHeaderRow(f.lines) + 1 = f.header /\ f.header + 1 = f.first /\ f.first - 1 = f.header
  BY <1>1
<1>3. m = [date_col        |-> Column(header, "date", 0),
           description_col |-> DescriptionColumn(header),
           amount_col      |-> AmountColumn(header, debit, credit),
           debit_col       |-> debit,
           credit_col      |-> credit,
           currency_col    |-> Column(header, "currency", -1),
           skip_rows       |-> f.header,
           date_format     |-> IF rows = << >> \/ Column(header, "date", 0) >= Len(rows[1]) THEN ISO
                               ELSE DetectDateFormat(rows, Column(header, "date", 0)),
           separator       |-> f.sep]
  BY <1>2, Zenon DEF SuggestedMapping
<1>4. f.header \in DOMAIN f.lines /\ Len(header) = Len(f.roles) /\ DOMAIN header = DOMAIN f.roles
  <2>1. f.header \in DOMAIN f.lines
    BY <1>1, FileIs
  <2> QED  BY <2>1, CellsAre
<1>5. \A title \in Range(Keywords) : \A default \in {0, -1} :
        Column(header, title, default) = Role(f, title, default)
  BY <1>4, ColumnIs
<1>6. /\ Column(header, "date", 0) = Role(f, "date", -1)
      /\ debit = Role(f, "debit", -1) /\ credit = Role(f, "credit", -1)
      /\ Column(header, "amount", -1) = Role(f, "amount", -1)
  <2>1. {"date", "debit", "credit", "amount"} \subseteq Range(Keywords)
    <3>1. Keywords[1] = "date" /\ Keywords[4] = "debit" /\ Keywords[5] = "credit"
          /\ Keywords[3] = "amount" /\ DOMAIN Keywords = 1 .. 6
      BY DEF Keywords
    <3> QED  BY <3>1 DEF Range
  <2> QED  BY <1>5, <2>1, ColumnsAre
<1>7. AmountColumn(header, debit, credit) = Role(f, "amount", -1)
  <2>1. AmountColumn(header, debit, credit) =
          LET amount == IF debit >= 0 /\ credit >= 0 THEN -1 ELSE Role(f, "amount", -1)
          IN  IF amount < 0 /\ (debit < 0 \/ credit < 0) THEN 2 ELSE amount
    BY <1>6 DEF AmountColumn
  <2> HIDE DEF debit, credit
  <2>2. CASE Has(f, "amount")
    <3>1. debit < 0 \/ credit < 0
      BY <1>6, <2>2, ColumnsAre DEF Has
    <3>2. debit \in Int /\ credit \in Int /\ Role(f, "amount", -1) \in Nat
      BY <1>6, <2>2, ColumnsAre
    <3> QED  BY <2>1, <3>1, <3>2
  <2>3. CASE ~ Has(f, "amount")
    <3>1. debit >= 0 /\ credit >= 0
      BY <1>6, <2>3, ColumnsAre DEF Has
    <3>2. debit \in Int /\ credit \in Int /\ Role(f, "amount", -1) = -1
      BY <1>6, <2>3, ColumnsAre
    <3> QED  BY <2>1, <3>1, <3>2
  <2> QED  BY <2>2, <2>3
<1>8. DescriptionColumn(header) \in 0 .. Len(f.roles) - 1
  <2> DEFINE later == { i \in 1 .. Len(header) - 1 : TitleOf(header[i + 1]) = "desc" }
  <2>1. DescriptionColumn(header) = IF later = {} THEN 0 ELSE Min(later)
    BY Zenon DEF DescriptionColumn
  <2>2. Len(f.roles) \in Nat /\ Role(f, "date", -1) \in 0 .. Len(f.roles) - 1
    BY FileIs, ColumnsAre
  <2>3. later \in SUBSET Nat /\ later \subseteq 0 .. Len(f.roles) - 1
    BY <1>4, <2>2
  <2> HIDE DEF later
  <2>4. later # {} => Min(later) \in later
    BY <2>3, LeastIs
  <2>5. 0 \in 0 .. Len(f.roles) - 1
    BY <2>2
  <2> QED  BY <2>1, <2>3, <2>4, <2>5
<1>9. ~ (rows = << >>) /\ rows[1] = f.lines[f.first]
  <2>1. /\ f.lines \in Seq(Range(f.lines))
        /\ f.first \in Nat /\ 1 <= f.first /\ f.first <= Len(f.lines)
    <3>1. f.lines \in Seq(Range(f.lines))
      BY FilesAssumption DEF CsvFiles
    <3> QED  BY <3>1, FileIs
  <2> QED  BY <2>1
<1>10. ~ (Column(header, "date", 0) >= Len(rows[1]))
  <2>1. Len(rows[1]) = Len(f.roles) /\ Len(f.roles) \in Nat
    BY <1>9, FileIs
  <2> HIDE DEF rows
  <2> QED  BY <1>6, <2>1, ColumnsAre
<1> HIDE DEF rows, header, debit, credit
<1>11. m.date_format = FormatFound(f)
  BY <1>3, <1>6, <1>9, <1>10 DEF FormatFound, rows
<1>12. /\ m.date_col = Role(f, "date", -1) /\ m.amount_col = Role(f, "amount", -1)
       /\ m.debit_col = Role(f, "debit", -1) /\ m.credit_col = Role(f, "credit", -1)
       /\ m.description_col = DescriptionColumn(header) /\ m.skip_rows = f.first - 1
       /\ m.separator = f.sep
  BY <1>2, <1>3, <1>6, <1>7
<1> HIDE DEF m
<1>13. Reads(f, m)
  BY <1>8, <1>12 DEF Reads
<1> QED  BY <1>11, <1>12, <1>13 DEF m

-----------------------------------------------------------------------------
\* The last column a mapping uses is one of the file's.
LEMMA ColumnsWithin ==
  ASSUME NEW f \in CsvFiles, NEW m, Reads(f, m)
  PROVE  /\ ColMax(m) < Len(f.roles) /\ Len(f.roles) \in Nat
         /\ m.date_col \in 0 .. Len(f.roles) - 1
         /\ m.description_col \in 0 .. Len(f.roles) - 1
         /\ Split(m) <=> ~ Has(f, "amount")
         /\ Has(f, "amount") => m.amount_col \in 0 .. Len(f.roles) - 1
         /\ ~ Has(f, "amount") => /\ m.debit_col \in 0 .. Len(f.roles) - 1
                                  /\ m.credit_col \in 0 .. Len(f.roles) - 1
<1> DEFINE n == Len(f.roles)
           used == {m.date_col, m.description_col, m.amount_col, m.debit_col, m.credit_col}
<1>1. n \in Nat
  BY FileIs
<1> HIDE DEF n
<1>2. /\ m.date_col \in 0 .. n - 1 /\ m.description_col \in 0 .. n - 1
      /\ m.amount_col = Role(f, "amount", -1)
      /\ m.debit_col = Role(f, "debit", -1) /\ m.credit_col = Role(f, "credit", -1)
  BY ColumnsAre DEF Reads, n
<1>3. \A role : \/ ~ Has(f, role) /\ Role(f, role, -1) = -1
                \/ Has(f, role) /\ Role(f, role, -1) \in 0 .. n - 1
  BY ColumnsAre DEF n
<1>4. used \in SUBSET Int /\ \A k \in used : k <= n - 1
  <2>1. \A role : Role(f, role, -1) \in Int /\ Role(f, role, -1) <= n - 1
    BY <1>1, <1>2, <1>3
  <2> QED  BY <1>1, <1>2, <2>1
<1>5. ColMax(m) \in used
  <2>1. ColMax(m) = Max(used)
    BY Zenon DEF ColMax
  <2>2. used # {} /\ n - 1 \in Int
    BY <1>1
  <2> HIDE DEF used
  <2> QED  BY <1>4, <2>1, <2>2, GreatestIs
<1>6. ColMax(m) < n
  BY <1>1, <1>4, <1>5
<1>7. Has(f, "amount") <=> ~ (Has(f, "debit") /\ Has(f, "credit"))
  BY ColumnsAre
<1>8. Split(m) <=> Has(f, "debit") /\ Has(f, "credit")
  BY <1>2 DEF Split, Has
<1> QED  BY <1>1, <1>2, <1>3, <1>6, <1>7, <1>8 DEF n
-----------------------------------------------------------------------------
\* The elements of a sequence.
LEMMA ElementsOf ==
  ASSUME NEW S, NEW s \in Seq(S)
  PROVE  /\ \A k \in 1 .. Len(s) : s[k] \in S
         /\ s = << >> <=> Len(s) = 0
OBVIOUS

\* A cell of the file whose decimal mark is known: its last mark, if it is there.
PointLast(f, cell) ==
  cell.kind = "amount" =>
    /\ cell.marks \in Seq({".", ","})
    /\ \A k \in 1 .. Len(cell.marks) - 1 : cell.marks[k] # f.point

\* What the parser takes for a number.
LEMMA ReadableIs ==
  ASSUME NEW f \in CsvFiles, NEW cell, PointLast(f, cell)
  PROVE  /\ Readable(cell) <=> Filled(cell) /\ (Len(cell.marks) <= 1 \/ Decimals(f, cell))
         /\ Filled(cell) /\ Clear(f, cell) =>
              Readable(cell) /\ ParseEuropeanDecimalStrict(cell) = Signed(cell, NumberOf(f, cell))
<1> SUFFICES ASSUME cell.kind = "amount"
             PROVE  /\ Readable(cell) <=>
                         Filled(cell) /\ (Len(cell.marks) <= 1 \/ Decimals(f, cell))
                    /\ Filled(cell) /\ Clear(f, cell) =>
                         /\ Readable(cell)
                         /\ ParseEuropeanDecimalStrict(cell) = Signed(cell, NumberOf(f, cell))
  BY DEF Readable, Filled
<1> DEFINE marks == cell.marks
           points == PointsIn(cell)
<1>1. marks \in Seq({".", ","}) /\ \A k \in 1 .. Len(marks) - 1 : marks[k] # f.point
  BY DEF PointLast
<1> HIDE DEF marks
<1>2. f.point \in {".", ","}
  BY FilesAssumption
<1>3. PICK N \in Nat : N = Len(marks) /\ DOMAIN marks = 1 .. N
  BY <1>1, Listed
<1>4. /\ \A k \in 1 .. N : marks[k] \in {".", ","}
      /\ marks = << >> <=> N = 0
  BY <1>1, <1>3, ElementsOf
<1>5. marks = << >> <=> N = 0
  BY <1>4
<1>6. points = { i \in 1 .. N : marks[i] = marks[N] }
  BY <1>3 DEF PointsIn, Last, marks
<1>7. Decimals(f, cell) <=> N # 0 /\ marks[N] = f.point
  BY <1>3, <1>5 DEF Decimals, Last, marks
<1> HIDE DEF points
<1>8. points \in SUBSET (1 .. N) /\ Cardinality(points) \in Nat
  <2>1. points \in SUBSET (1 .. N)
    BY <1>6
  <2> QED  BY <2>1, Enumerated
<1>9. N # 0 => N \in points
  BY <1>6
<1>10. Readable(cell) <=> ~ (Cardinality(points) > 1)
  BY <1>8 DEF Readable, points
<1>11. ASSUME N = 0 \/ points = {N} PROVE ~ (Cardinality(points) > 1)
  <2>1. CASE N = 0
    <3>1. points = {}
      BY <1>6, <2>1
    <3> QED  BY <3>1, FS_EmptySet
  <2>2. CASE points = {N}
    <3>1. Cardinality({N}) = 1
      BY FS_Singleton
    <3> QED  BY <2>2, <3>1
  <2> QED  BY <1>11, <2>1, <2>2
<1>12. ASSUME ~ (Cardinality(points) > 1), N # 0 PROVE points = {N}
  <2>1. \A a \in points, b \in points : a = b
    BY <1>8, <1>12, TwoOf
  <2> QED  BY <1>9, <1>12, <2>1
<1>13. ASSUME N # 0 PROVE points = {N} <=> N = 1 \/ marks[N] = f.point
  <2>1. ASSUME N = 1 PROVE points = {N}
    BY <1>6, <2>1
  <2>2. ASSUME marks[N] = f.point PROVE points = {N}
    <3>1. \A k \in 1 .. N : k # N => marks[k] # marks[N]
      <4>1. \A k \in 1 .. N : k # N => k \in 1 .. N - 1
        OBVIOUS
      <4>2. \A k \in 1 .. N - 1 : marks[k] # f.point
        BY <1>1, <1>3
      <4> QED  BY <2>2, <4>1, <4>2
    <3> QED  BY <1>6, <1>9, <1>13, <3>1
  <2>3. ASSUME N # 1, marks[N] # f.point PROVE points # {N}
    <3>1. N - 1 \in 1 .. N /\ N - 1 \in 1 .. Len(marks) - 1 /\ N \in 1 .. N
      BY <1>3, <1>13, <2>3
    <3>2. marks[N - 1] # f.point /\ marks[N - 1] \in {".", ","} /\ marks[N] \in {".", ","}
      BY <1>1, <1>4, <3>1
    <3>3. N - 1 \in points
      BY <1>2, <1>6, <2>3, <3>1, <3>2
    <3> QED  BY <3>3
  <2> QED  BY <2>1, <2>2, <2>3
<1>14. Readable(cell) <=> Len(cell.marks) <= 1 \/ Decimals(f, cell)
  <2>1. Len(cell.marks) <= 1 <=> N = 0 \/ N = 1
    <3>1. N <= 1 <=> N = 0 \/ N = 1
      OBVIOUS
    <3>2. Len(cell.marks) = N
      BY <1>3 DEF marks
    <3> QED  BY <3>1, <3>2
  <2> QED  BY <1>7, <1>10, <1>11, <1>12, <1>13, <2>1
<1>15. ASSUME marks = << >> \/ Decimals(f, cell)
       PROVE  points = {} <=> ~ Decimals(f, cell)
  BY <1>5, <1>6, <1>7, <1>9, <1>15
<1>16. ASSUME Clear(f, cell), Filled(cell)
       PROVE  Readable(cell)
              /\ ParseEuropeanDecimalStrict(cell) = Signed(cell, NumberOf(f, cell))
  <2>1. marks = << >> \/ Decimals(f, cell)
    BY <1>16 DEF Clear, marks
  <2>2. Readable(cell)
    <3>1. marks = << >> => Len(cell.marks) <= 1
      BY <1>3, <1>5 DEF marks
    <3> QED  BY <1>14, <2>1, <3>1
  <2>3. PointsIn(cell) = {} <=> ~ Decimals(f, cell)
    BY <1>15, <2>1 DEF points
  <2>4. (IF PointsIn(cell) = {} THEN Join(cell.chunks) * 10^Digits
         ELSE Decimal(Front(cell.chunks), Last(cell.chunks))) = NumberOf(f, cell)
    BY <2>3, Zenon DEF NumberOf
  <2> QED  BY <2>2, <2>4, Zenon DEF ParseEuropeanDecimalStrict
<1> QED  BY <1>14, <1>16 DEF Filled

-----------------------------------------------------------------------------
\* The amounts of a transaction have the decimal mark of the file.
LEMMA AmountCells ==
  ASSUME NEW f \in CsvFiles, Rectangular(f), NEW i \in Transactions(f), NEW role, Has(f, role)
  PROVE  PointLast(f, CellOf(f, i, role))
<1>1. i \in DOMAIN f.lines
  BY DateCells
<1>2. Role(f, role, -1) \in 0 .. Len(f.roles) - 1 /\ Len(f.roles) \in Nat
  BY ColumnsAre, FileIs
<1>3. PICK j \in DOMAIN f.lines[i] : CellOf(f, i, role) = f.lines[i][j]
  <2>1. Role(f, role, -1) + 1 \in DOMAIN f.lines[i]
    BY <1>1, <1>2, CellsAre, FileIs
  <2> QED  BY <2>1 DEF CellOf
<1>4. f.lines[i][j].kind = "amount" =>
        /\ f.lines[i][j].marks \in Seq({".", ","})
        /\ \A k \in 1 .. Len(f.lines[i][j].marks) - 1 : f.lines[i][j].marks[k] # f.point
  BY <1>1, AmountsAssumption
<1> QED  BY <1>3, <1>4 DEF PointLast

\* The record on line i is a row exactly when it is a transaction that the
\* format accepts the date of and whose amount is a number.
LEMMA RowIs ==
  ASSUME NEW f \in CsvFiles, Rectangular(f), NEW m, Reads(f, m), NEW i \in DOMAIN f.lines
  PROVE  i > m.skip_rows /\ IsRow(f.lines[i], m) <=>
           /\ i \in Transactions(f) /\ Accepts(m.date_format, CellOf(f, i, "date"))
           /\ AmountShown(f, i)
<1>1. CellOf(f, i, "date") = f.lines[i][m.date_col + 1]
  BY DEF CellOf, Reads
<1>2. Len(f.lines[i]) = Len(f.roles) /\ Len(f.lines[i]) > ColMax(m)
  BY CellsAre, ColumnsWithin
<1>3. IsRow(f.lines[i], m) <=>
        Accepts(m.date_format, CellOf(f, i, "date")) /\ HasAmount(f.lines[i], m)
  BY <1>1, <1>2 DEF IsRow
<1>4. Accepts(m.date_format, CellOf(f, i, "date")) => i \in Transactions(f)
  BY DateCells DEF Accepts
<1>5. i \in Transactions(f) => i > m.skip_rows
  BY FileIs DEF Transactions, Reads
<1>6. ASSUME i \in Transactions(f) PROVE HasAmount(f.lines[i], m) <=> AmountShown(f, i)
  <2>1. CASE ~ Has(f, "amount")
    BY <2>1, ColumnsWithin DEF HasAmount, AmountShown
  <2>2. CASE Has(f, "amount")
    <3> DEFINE cell == CellOf(f, i, "amount")
    <3>1. cell = f.lines[i][m.amount_col + 1]
      BY DEF CellOf, Reads
    <3>2. ~ Split(m) /\ m.amount_col \in 0 .. Len(f.lines[i]) - 1
      BY <1>2, <2>2, ColumnsWithin
    <3>3. HasAmount(f.lines[i], m) <=> Readable(cell)
      BY <3>1, <3>2 DEF HasAmount
    <3>4. PointLast(f, cell)
      BY <1>6, <2>2, AmountCells
    <3>5. AmountShown(f, i) <=> Filled(cell) /\ (Len(cell.marks) <= 1 \/ Decimals(f, cell))
      BY <2>2 DEF AmountShown
    <3> HIDE DEF cell
    <3> QED  BY <3>3, <3>4, <3>5, ReadableIs
  <2> QED  BY <2>1, <2>2
<1> QED  BY <1>3, <1>4, <1>5, <1>6

\* A row has the amount the bank wrote, where its marks are clear.
LEMMA AmountIs ==
  ASSUME NEW f \in CsvFiles, Rectangular(f), NEW m, Reads(f, m), NEW i \in Transactions(f),
         AmountShown(f, i), AmountClear(f, i)
  PROVE  ResolveAmount(f.lines[i], m) = AmountWritten(f, i)
<1>1. CASE Has(f, "amount")
  <2> DEFINE cell == CellOf(f, i, "amount")
  <2>1. cell = f.lines[i][m.amount_col + 1]
    BY DEF CellOf, Reads
  <2>2. ~ Split(m)
    BY <1>1, ColumnsWithin
  <2>3. Filled(cell) /\ Clear(f, cell)
    BY <1>1 DEF AmountShown, AmountClear
  <2>4. PointLast(f, cell)
    BY <1>1, AmountCells
  <2>5. ResolveAmount(f.lines[i], m) = ParseEuropeanDecimalStrict(cell)
    BY <2>1, <2>2 DEF ResolveAmount
  <2>6. AmountWritten(f, i) = Signed(cell, NumberOf(f, cell))
    BY <1>1 DEF AmountWritten
  <2> HIDE DEF cell
  <2> QED  BY <2>3, <2>4, <2>5, <2>6, ReadableIs
<1>2. CASE ~ Has(f, "amount")
  <2> DEFINE of(role) == IF Filled(CellOf(f, i, role)) THEN NumberOf(f, CellOf(f, i, role))
                         ELSE 0
  <2>1. Split(m)
    BY <1>2, ColumnsWithin
  <2>2. Has(f, "debit") /\ Has(f, "credit")
    BY <1>2, ColumnsAre
  <2>3. ASSUME NEW role \in {"debit", "credit"}
        PROVE  ParseEuropeanDecimal(CellOf(f, i, role)) = of(role)
    <3> DEFINE cell == CellOf(f, i, role)
    <3>1. PointLast(f, cell)
      BY <2>2, AmountCells
    <3>2. Clear(f, cell) /\ (Filled(cell) => ~ cell.minus)
      BY <1>2 DEF AmountClear
    <3>3. of(role) = IF Filled(cell) THEN NumberOf(f, cell) ELSE 0
      OBVIOUS
    <3> HIDE DEF cell, of
    <3>4. CASE Filled(cell)
      <4>1. Readable(cell) /\ ParseEuropeanDecimalStrict(cell) = Signed(cell, NumberOf(f, cell))
        BY <3>1, <3>2, <3>4, ReadableIs
      <4> QED  BY <3>2, <3>3, <3>4, <4>1 DEF ParseEuropeanDecimal, Signed, cell
    <3>5. CASE ~ Filled(cell)
      BY <3>3, <3>5 DEF ParseEuropeanDecimal, Readable, Filled, cell
    <3> QED  BY <3>4, <3>5
  <2>4. AmountWritten(f, i) = of("credit") - of("debit")
    BY <1>2 DEF AmountWritten
  <2>5. ResolveAmount(f.lines[i], m) = ParseEuropeanDecimal(CellOf(f, i, "credit"))
                                        - ParseEuropeanDecimal(CellOf(f, i, "debit"))
    BY <2>1 DEF ResolveAmount, CellOf, Reads
  <2> HIDE DEF of
  <2> QED  BY <2>3, <2>4, <2>5
<1> QED  BY <1>1, <1>2
-----------------------------------------------------------------------------
\* The lines a parser takes for transactions, with dates of a layout.
LinesOf(f, layout) ==
  { i \in Transactions(f) : Accepts(layout, CellOf(f, i, "date")) /\ AmountShown(f, i) }

\* Rows that are transactions of the file, read with a layout, where their
\* amounts are clear with the amounts the bank wrote.
RowReads(f, layout, row) ==
  /\ row.line \in LinesOf(f, layout)
  /\ row.date = DateOf(layout, CellOf(f, row.line, "date"))
  /\ AmountClear(f, row.line) => row.amount = AmountWritten(f, row.line)

RowsRead(f, layout, rows) ==
  /\ { rows[k].line : k \in DOMAIN rows } = LinesOf(f, layout)
  /\ \A k \in DOMAIN rows : RowReads(f, layout, rows[k])

\* What a mapping with the columns of the file reads, shown and parsed.
LEMMA FileRead ==
  ASSUME NEW f \in CsvFiles, Rectangular(f), NEW m, Reads(f, m)
  PROVE  /\ RowsRead(f, m.date_format, PreviewRows(f.lines, m))
         /\ RowsRead(f, m.date_format, Parse(f.lines, m))
<1> DEFINE layout == m.date_format
           found == { i \in DOMAIN f.lines : i > m.skip_rows /\ IsRow(f.lines[i], m) }
           lines == RowLines(f.lines, m)
<1>1. found = LinesOf(f, layout)
  <2>1. Transactions(f) \subseteq DOMAIN f.lines
    BY DateCells
  <2> QED  BY <2>1, RowIs DEF LinesOf
<1>2. PICK N \in Nat : DOMAIN f.lines = 1 .. N
  BY FileIs
<1>3. found \in SUBSET (1 .. N)
  BY <1>2
<1>4. lines = InOrder(found)
  BY Zenon DEF RowLines
<1> HIDE DEF lines, found
<1>5. /\ \A k \in DOMAIN lines : lines[k] \in found
      /\ found = {lines[k] : k \in DOMAIN lines}
  <2>1. /\ \A k \in DOMAIN InOrder(found) : InOrder(found)[k] \in found
        /\ found = {InOrder(found)[k] : k \in DOMAIN InOrder(found)}
    BY <1>3, InOrderIs
  <2> QED  BY <1>4, <2>1
<1>6. ASSUME NEW i \in found, NEW currency
      PROVE  /\ Row(f.lines, i, m, currency).line = i
             /\ RowReads(f, layout, Row(f.lines, i, m, currency))
  <2> DEFINE row == Row(f.lines, i, m, currency)
  <2>1. /\ row.line = i /\ row.date = DateOf(layout, f.lines[i][m.date_col + 1])
        /\ row.amount = ResolveAmount(f.lines[i], m)
    BY DEF Row
  <2>2. f.lines[i][m.date_col + 1] = CellOf(f, i, "date")
    BY DEF CellOf, Reads
  <2>3. i \in LinesOf(f, layout) /\ i \in Transactions(f) /\ AmountShown(f, i)
    BY <1>1, <1>6 DEF LinesOf
  <2>4. AmountClear(f, i) => ResolveAmount(f.lines[i], m) = AmountWritten(f, i)
    BY <2>3, AmountIs
  <2> HIDE DEF row, layout
  <2>5. RowReads(f, layout, row)
    BY <2>1, <2>2, <2>3, <2>4 DEF RowReads
  <2> QED  BY <2>1, <2>5 DEF row
<1>7. PreviewRows(f.lines, m) = [k \in DOMAIN lines |-> Row(f.lines, lines[k], m, "EUR")]
  BY Zenon DEF PreviewRows, lines
<1>8. Parse(f.lines, m) = [k \in DOMAIN lines |->
          Row(f.lines, lines[k], m, CurrencyIn(f.lines[lines[k]], m))]
  BY Zenon DEF Parse, lines
<1> HIDE DEF layout
<1>9. ASSUME NEW rows, DOMAIN rows = DOMAIN lines,
             \A k \in DOMAIN lines : \E currency : rows[k] = Row(f.lines, lines[k], m, currency)
      PROVE  RowsRead(f, layout, rows)
  <2>1. \A k \in DOMAIN rows : rows[k].line = lines[k] /\ RowReads(f, layout, rows[k])
    BY <1>5, <1>6, <1>9
  <2>2. { rows[k].line : k \in DOMAIN rows } = found
    BY <1>5, <1>9, <2>1
  <2> QED  BY <1>1, <2>1, <2>2 DEF RowsRead
<1>10. RowsRead(f, layout, PreviewRows(f.lines, m))
  BY <1>7, <1>9
<1>11. RowsRead(f, layout, Parse(f.lines, m))
  BY <1>8, <1>9
<1> QED  BY <1>10, <1>11 DEF layout

-----------------------------------------------------------------------------
\* Cut at its own separator, a file is read as the lines it has, if no tabs stand
\* next to each other.
LEMMA OwnRecords ==
  ASSUME NEW f \in CsvFiles, BlanksKept(f)
  PROVE  /\ Records(f, f.sep) = f.lines
         /\ ReadsAll(f.lines) <=> Rectangular(f)
<1>1. f.lines = [i \in DOMAIN f.lines |-> f.lines[i]] /\ f.lines # << >>
  <2>1. f.lines \in Seq(Range(f.lines)) /\ 1 \in DOMAIN f.lines
    BY FilesAssumption, FileIs DEF CsvFiles
  <2> QED  BY <2>1
<1>2. ASSUME NEW i \in DOMAIN f.lines PROVE Fields(f.lines[i], f.sep) = f.lines[i]
  <2> DEFINE line == f.lines[i]
             kept == { j \in DOMAIN line : line[j] # Blank \/ j = Len(line) }
  <2>1. line \in Seq(Range(line)) /\ Len(line) \in Nat /\ DOMAIN line = 1 .. Len(line)
    BY FileIs
  <2>2. Fields(line, f.sep)
          = IF f.sep = "tab" THEN [k \in DOMAIN InOrder(kept) |-> line[InOrder(kept)[k]]]
            ELSE line
    BY Zenon DEF Fields
  <2>3. ASSUME f.sep = "tab"
        PROVE  [k \in DOMAIN InOrder(kept) |-> line[InOrder(kept)[k]]] = line
    <3>1. \A j \in 1 .. Len(line) - 1 : line[j] # Blank
      BY <2>3 DEF BlanksKept
    <3> HIDE DEF line
    <3>2. kept = 1 .. Len(line)
      <4>1. PICK N \in Nat : N = Len(line)
        BY <2>1
      <4>2. \A j \in 1 .. N : j \in 1 .. N - 1 \/ j = N
        OBVIOUS
      <4> QED  BY <2>1, <3>1, <4>1, <4>2
    <3>3. InOrder(kept) = [k \in 1 .. Len(line) |-> k]
      BY <2>1, <3>2, InOrderAll
    <3> HIDE DEF kept
    <3>4. line = [k \in 1 .. Len(line) |-> line[k]]
      BY <2>1
    <3> QED  BY <3>3, <3>4
  <2> HIDE DEF line, kept
  <2>4. Fields(line, f.sep) = line
    BY <2>2, <2>3
  <2> QED  BY <2>4 DEF line
<1>3. Records(f, f.sep) = [i \in DOMAIN f.lines |-> Fields(f.lines[i], f.sep)]
  BY Zenon DEF Records
<1>4. Records(f, f.sep) = f.lines
  BY <1>1, <1>2, <1>3
<1> QED  BY <1>1, <1>4 DEF ReadsAll, Rectangular

\* Rows are numbered from 1.
Numbered(rows) == Len(rows) \in Nat /\ DOMAIN rows = 1 .. Len(rows) /\ rows \in Seq(Range(rows))

\* A function on 1 .. n is a sequence.
LEMMA NumberedIs ==
  ASSUME NEW rows, NEW n \in Nat, DOMAIN rows = 1 .. n, rows = [k \in DOMAIN rows |-> rows[k]]
  PROVE  Numbered(rows)
<1>1. rows \in [1 .. n -> Range(rows)]
  BY DEF Range
<1>2. rows \in Seq(Range(rows))
  BY <1>1
<1> QED  BY <1>2, Listed DEF Numbered

\* The rows of a file are numbered, however it is cut.
LEMMA RowsNumbered ==
  ASSUME NEW f \in CsvFiles, NEW sep, NEW m
  PROVE  Numbered(PreviewRows(Records(f, sep), m)) /\ Numbered(Parse(Records(f, sep), m))
<1> DEFINE records == Records(f, sep)
           found == { i \in DOMAIN records : i > m.skip_rows /\ IsRow(records[i], m) }
           lines == RowLines(records, m)
<1>1. PICK N \in Nat : DOMAIN f.lines = 1 .. N
  BY FileIs
<1>2. found \in SUBSET (1 .. N)
  <2>1. DOMAIN records = 1 .. N
    BY <1>1 DEF Records
  <2> QED  BY <2>1
<1>3. lines = InOrder(found)
  BY Zenon DEF RowLines
<1> HIDE DEF lines, found
<1>4. PICK n \in Nat : DOMAIN lines = 1 .. n
  <2>1. DOMAIN InOrder(found) = 1 .. Len(InOrder(found)) /\ InOrder(found) \in Seq(found)
    BY <1>2, InOrderIs
  <2>2. Len(InOrder(found)) \in Nat
    BY <2>1, Listed
  <2> QED  BY <1>3, <2>1, <2>2
<1>5. PreviewRows(records, m) = [k \in DOMAIN lines |-> Row(records, lines[k], m, "EUR")]
  BY Zenon DEF PreviewRows, lines
<1>6. Parse(records, m) = [k \in DOMAIN lines |->
          Row(records, lines[k], m, CurrencyIn(records[lines[k]], m))]
  BY Zenon DEF Parse, lines
<1> HIDE DEF records
<1>7. Numbered(PreviewRows(records, m))
  <2>1. /\ DOMAIN PreviewRows(records, m) = 1 .. n
        /\ PreviewRows(records, m)
             = [k \in DOMAIN PreviewRows(records, m) |-> PreviewRows(records, m)[k]]
    BY <1>4, <1>5
  <2> QED  BY <2>1, NumberedIs
<1>8. Numbered(Parse(records, m))
  <2>1. /\ DOMAIN Parse(records, m) = 1 .. n
        /\ Parse(records, m) = [k \in DOMAIN Parse(records, m) |-> Parse(records, m)[k]]
    BY <1>4, <1>6
  <2> QED  BY <2>1, NumberedIs
<1> QED  BY <1>7, <1>8 DEF records

-----------------------------------------------------------------------------
(* detectSeparator: there is one separator, unless the first line has as
   many of one character as of another and the comma is not among them. *)
LEMMA SeparatorsAgree ==
  ASSUME NEW f, ~ Tied(f), NEW a \in DetectSeparator(f), NEW b \in DetectSeparator(f)
  PROVE  a = b
<1> DEFINE count(sep) == Count(f.lines[1], sep, f.sep)
           most == { s \in Separators : \A t \in Separators : count(t) <= count(s) }
<1> HIDE DEF count
<1>1. DetectSeparator(f) = IF "," \in most THEN {","} ELSE most
  BY Zenon DEF DetectSeparator, count
<1>2. CASE "," \in most
  <2> HIDE DEF most
  <2>1. DetectSeparator(f) = {","}
    BY <1>1, <1>2, Zenon
  <2> QED  BY <2>1
<1>3. CASE "," \notin most
  <2>1. ~ (Cardinality(most) > 1)
    <3> HIDE DEF most
    <3>1. Tied(f) <=> "," \notin most /\ Cardinality(most) > 1
      BY Zenon DEF Tied, count, most
    <3> QED  BY <3>1, <1>3
  <2>2. a \in most /\ b \in most
    <3> HIDE DEF most
    <3> QED  BY <1>1, <1>3
  <2>3. IsFiniteSet(most) /\ Cardinality(most) \in Nat
    <3>1. IsFiniteSet(Separators)
      <4>1. Separators = ((({} \cup {","}) \cup {";"}) \cup {"tab"}) \cup {"|"}
        BY DEF Separators
      <4>2. \A x : IsFiniteSet({x})
        BY FS_Singleton
      <4> QED  BY <4>1, <4>2, FS_EmptySet, FS_Union
    <3>2. most \subseteq Separators
      OBVIOUS
    <3> QED  BY <3>1, <3>2, FS_Subset, FS_CardinalityType
  <2> HIDE DEF most
  <2>4. ASSUME a # b PROVE FALSE
    <3>1. {a, b} \subseteq most
      BY <2>2
    <3>2. Cardinality({a, b}) = 2
      <4>1. {a, b} = {a} \cup {b} /\ b \notin {a}
        BY <2>4
      <4>2. IsFiniteSet({a}) /\ Cardinality({a}) = 1
        BY FS_Singleton
      <4>3. Cardinality({a} \cup {b}) = Cardinality({a}) + 1
        BY <4>1, <4>2, FS_AddElement
      <4> QED  BY <4>1, <4>2, <4>3
    <3>3. Cardinality({a, b}) <= Cardinality(most)
      BY <3>1, <2>3, FS_Subset
    <3> QED  BY <3>2, <3>3, <2>1, <2>3
  <2> QED  BY <2>4
<1> QED  BY <1>2, <1>3

-----------------------------------------------------------------------------
\* The answer to a preview of the file when its records are cut at sep.
AnswerAt(sep) ==
  LET records == Records(file, sep)
      mapping == SuggestedMapping(records, sep)
  IN  IF ReadsAll(records)
      THEN [mapping |-> mapping, rows |-> PreviewRows(records, mapping)]
      ELSE Failed

\* A preview is a function of the file and of the separator that was found.
AnswerFromFile ==
  answer # NULL =>
    \/ file.type = "ofx" /\ answer = [mapping |-> NULL, rows |-> ParseOFX(file.lines)]
    \/ file.type = "csv" /\ \E sep \in DetectSeparator(file) : answer = AnswerAt(sep)

\* A mapping that was suggested for the file, or the one that is right for it.
Suggested(sep) == SuggestedMapping(Records(file, sep), sep)

MappingOfFile(m) ==
  m = RightMapping(file) \/ \E sep \in DetectSeparator(file) : m = Suggested(sep)

\* Rows that come back are among those of a preview.
RowsFromAnswer(rows) ==
  /\ Numbered(rows)
  /\ \E sep \in DetectSeparator(file) :
       /\ ReadsAll(Records(file, sep))
       /\ Range(rows) \subseteq Range(PreviewRows(Records(file, sep), Suggested(sep)))

\* What is confirmed of a CSV file was read with such a mapping, or came back
\* as it was shown.
ConfirmedFromFile ==
  confirmed \notin {NULL, Failed} =>
    \/ /\ file.type = "csv" /\ MappingOfFile(confirmed.mapping)
       /\ ReadsAll(Records(file, confirmed.mapping.separator))
       /\ confirmed.rows = Parse(Records(file, confirmed.mapping.separator), confirmed.mapping)
    \/ /\ confirmed.mapping = NULL
       /\ file.type = "csv" => RowsFromAnswer(confirmed.rows)

IInv == file \in Files /\ AnswerFromFile /\ ConfirmedFromFile

\* A preview that did not fail shows the rows of the file, cut at a separator.
LEMMA AnswerIs ==
  ASSUME file \in Files, AnswerFromFile, answer \notin {NULL, Failed}, file.type = "csv"
  PROVE  \E sep \in DetectSeparator(file) :
           /\ ReadsAll(Records(file, sep)) /\ answer.mapping = Suggested(sep)
           /\ answer.rows = PreviewRows(Records(file, sep), Suggested(sep))
<1>1. PICK sep \in DetectSeparator(file) : answer = AnswerAt(sep)
  BY DEF AnswerFromFile
<1>2. answer = IF ReadsAll(Records(file, sep))
               THEN [mapping |-> Suggested(sep),
                     rows    |-> PreviewRows(Records(file, sep), Suggested(sep))]
               ELSE Failed
  BY <1>1, Zenon DEF AnswerAt, Suggested
<1> QED  BY <1>2

\* Nothing has been answered or confirmed yet.
LEMMA InitIInv == Init => IInv
BY DEF Init, IInv, AnswerFromFile, ConfirmedFromFile

\* Previews and confirmations keep the invariant (Preview, Confirm of ImportHandler).
LEMMA IInvStep == IInv /\ [Next]_vars => IInv'
<1> SUFFICES ASSUME IInv, [Next]_vars PROVE IInv'
  OBVIOUS
<1>1. file' = file
  BY DEF Next, vars, PreviewCSV, PreviewOFX, ConfirmFile, ConfirmRows
<1>2. /\ \A sep : AnswerAt(sep)' = AnswerAt(sep)
      /\ \A m : MappingOfFile(m)' <=> MappingOfFile(m)
      /\ \A rows : RowsFromAnswer(rows)' <=> RowsFromAnswer(rows)
  BY <1>1 DEF AnswerAt, MappingOfFile, RowsFromAnswer, Suggested
<1>3. AnswerFromFile'
  <2>1. CASE answer' = answer
    BY <1>1, <1>2, <2>1 DEF IInv, AnswerFromFile
  <2>2. ASSUME NEW sep \in Separators, PreviewCSV(sep) PROVE AnswerFromFile'
    <3>1. answer' = AnswerAt(sep)
      BY <2>2 DEF PreviewCSV, AnswerAt
    <3> QED  BY <1>1, <1>2, <2>2, <3>1 DEF PreviewCSV, AnswerFromFile
  <2>3. CASE PreviewOFX
    BY <1>1, <2>3 DEF PreviewOFX, AnswerFromFile
  <2> QED  BY <2>1, <2>2, <2>3 DEF Next, vars, ConfirmFile, ConfirmRows
<1>4. ConfirmedFromFile'
  <2>1. CASE confirmed' = confirmed
    BY <1>1, <1>2, <2>1 DEF IInv, ConfirmedFromFile
  <2>2. ASSUME file.type = "csv", NEW mapping \in Mappings, ConfirmFile(mapping)
        PROVE  ConfirmedFromFile'
    <3>1. confirmed' = IF ReadsAll(Records(file, mapping.separator))
                       THEN [mapping |-> mapping,
                             rows |-> Parse(Records(file, mapping.separator), mapping)]
                       ELSE Failed
      BY <2>2 DEF ConfirmFile
    <3>2. MappingOfFile(mapping)
      <4>1. CASE mapping = RightMapping(file)
        BY <4>1 DEF MappingOfFile
      <4>2. CASE mapping # RightMapping(file)
        <5>1. answer \notin {NULL, Failed} /\ mapping = answer.mapping
          BY <4>2 DEF Mappings
        <5> QED  BY <2>2, <5>1, AnswerIs DEF IInv, MappingOfFile
      <4> QED  BY <4>1, <4>2
    <3> QED  BY <1>1, <1>2, <2>2, <3>1, <3>2 DEF ConfirmedFromFile
  <2>3. ASSUME NEW kept \in SUBSET LinesShown, ConfirmRows(kept) PROVE ConfirmedFromFile'
    <3> DEFINE chosen == { k \in DOMAIN answer.rows : answer.rows[k].line \in kept }
               places == InOrder(chosen)
    <3>1. answer \notin {NULL, Failed}
          /\ confirmed' = [mapping |-> NULL,
                           rows    |-> [n \in DOMAIN places |-> answer.rows[places[n]]]]
      BY <2>3, Zenon DEF ConfirmRows
    <3> HIDE DEF places
    <3>2. ASSUME file.type = "csv" PROVE RowsFromAnswer(confirmed'.rows)
      <4>0. file \in CsvFiles
        BY <3>2 DEF IInv, CsvFiles
      <4>1. PICK sep \in DetectSeparator(file) :
              /\ ReadsAll(Records(file, sep)) /\ answer.mapping = Suggested(sep)
              /\ answer.rows = PreviewRows(Records(file, sep), Suggested(sep))
        BY <3>1, <3>2, AnswerIs DEF IInv
      <4>2. Numbered(answer.rows)
        BY <4>0, <4>1, RowsNumbered
      <4>3. PICK N \in Nat : DOMAIN answer.rows = 1 .. N
        BY <4>2 DEF Numbered
      <4>4. chosen \in SUBSET (1 .. N) /\ chosen \subseteq DOMAIN answer.rows
        BY <4>3
      <4> HIDE DEF chosen
      <4>5. /\ InOrder(chosen) \in Seq(chosen)
            /\ DOMAIN InOrder(chosen) = 1 .. Len(InOrder(chosen))
            /\ \A n \in DOMAIN InOrder(chosen) : InOrder(chosen)[n] \in chosen
        BY <4>4, InOrderIs
      <4>6. PICK n \in Nat : DOMAIN places = 1 .. n
        BY <4>5, Listed DEF places
      <4> DEFINE rows == [k \in DOMAIN places |-> answer.rows[places[k]]]
      <4>7. Numbered(rows)
        <5>1. DOMAIN rows = 1 .. n /\ rows = [k \in DOMAIN rows |-> rows[k]]
          BY <4>6
        <5> HIDE DEF rows
        <5> QED  BY <5>1, NumberedIs
      <4>8. Range(rows) \subseteq Range(answer.rows)
        <5>1. \A k \in DOMAIN places : places[k] \in DOMAIN answer.rows
          BY <4>4, <4>5 DEF places
        <5> QED  BY <5>1 DEF Range
      <4>9. confirmed'.rows = rows
        BY <3>1
      <4> HIDE DEF rows
      <4> QED  BY <4>1, <4>7, <4>8, <4>9 DEF RowsFromAnswer
    <3>3. confirmed'.mapping = NULL
      BY <3>1
    <3> QED  BY <1>1, <1>2, <3>2, <3>3 DEF ConfirmedFromFile
  <2> QED  BY <2>1, <2>2, <2>3 DEF Next, vars, PreviewCSV, PreviewOFX
<1>5. (file \in Files)'
  BY <1>1 DEF IInv
<1> QED  BY <1>3, <1>4, <1>5 DEF IInv

(* Whatever has been previewed and confirmed, the last answer is that of the
   file at a separator it may be cut at, and the last confirmation was read
   with a mapping of the file or consists of rows it was shown. *)
THEOREM InductiveInvariant == Spec => []IInv
<1> QED  BY InitIInv, IInvStep, PTL DEF Spec

-----------------------------------------------------------------------------
\* The same lines are rows of a preview and of a parse with its mapping, and
\* the rows differ in their currencies only (SuggestMapping, Parse).
LEMMA SameRows ==
  ASSUME NEW records, NEW mapping
  PROVE  /\ DOMAIN Parse(records, mapping) = DOMAIN PreviewRows(records, mapping)
         /\ \A k \in DOMAIN PreviewRows(records, mapping) :
              \A field \in DOMAIN PreviewRows(records, mapping)[k] :
                \/ Parse(records, mapping)[k][field] = PreviewRows(records, mapping)[k][field]
                \/ field = "currency" /\ mapping.currency_col >= 0
<1> DEFINE lines == RowLines(records, mapping)
<1>1. PreviewRows(records, mapping)
        = [k \in DOMAIN lines |-> Row(records, lines[k], mapping, "EUR")]
  BY Zenon DEF PreviewRows
<1>2. Parse(records, mapping)
        = [k \in DOMAIN lines |->
             Row(records, lines[k], mapping, CurrencyIn(records[lines[k]], mapping))]
  BY Zenon DEF Parse
<1>3. ASSUME NEW i, NEW currency, NEW other,
             NEW field \in DOMAIN Row(records, i, mapping, currency), field # "currency"
      PROVE  Row(records, i, mapping, other)[field] = Row(records, i, mapping, currency)[field]
  BY <1>3 DEF Row
<1>4. ASSUME NEW i, ~ (mapping.currency_col >= 0)
      PROVE  CurrencyIn(records[i], mapping) = "EUR"
  BY <1>4 DEF CurrencyIn
<1> HIDE DEF lines
<1>5. DOMAIN Parse(records, mapping) = DOMAIN PreviewRows(records, mapping)
  BY <1>1, <1>2
<1>6. ASSUME NEW k \in DOMAIN PreviewRows(records, mapping),
             NEW field \in DOMAIN PreviewRows(records, mapping)[k]
      PROVE  \/ Parse(records, mapping)[k][field] = PreviewRows(records, mapping)[k][field]
             \/ field = "currency" /\ mapping.currency_col >= 0
  <2> DEFINE own == CurrencyIn(records[lines[k]], mapping)
  <2>1. /\ PreviewRows(records, mapping)[k] = Row(records, lines[k], mapping, "EUR")
        /\ Parse(records, mapping)[k] = Row(records, lines[k], mapping, own)
    BY <1>1, <1>2
  <2>2. CASE field # "currency"
    <3> HIDE DEF own
    <3>1. field \in DOMAIN Row(records, lines[k], mapping, "EUR")
      BY <2>1
    <3>2. Row(records, lines[k], mapping, own)[field]
            = Row(records, lines[k], mapping, "EUR")[field]
      BY <1>3, <2>2, <3>1
    <3> QED  BY <2>1, <3>2
  <2>3. CASE ~ (mapping.currency_col >= 0)
    <3>1. own = "EUR"
      BY <1>4, <2>3
    <3> QED  BY <2>1, <3>1
  <2> QED  BY <2>2, <2>3
<1> QED  BY <1>5, <1>6

(* What is confirmed with the mapping a preview suggested is what was
   previewed, whatever the file, however often it is previewed and confirmed
   with other mappings in between (Preview and Confirm of ImportHandler). *)
THEOREM UploadsConfirmsThePreview == Spec => []ConfirmsThePreview
<1>1. IInv => ConfirmsThePreview
  <2> SUFFICES ASSUME IInv, answer \notin {NULL, Failed}, confirmed \notin {NULL, Failed},
                      confirmed.mapping # NULL, confirmed.mapping = answer.mapping
               PROVE  /\ DOMAIN confirmed.rows = DOMAIN answer.rows
                      /\ \A k \in DOMAIN answer.rows : \A field \in DOMAIN answer.rows[k] :
                           confirmed.rows[k][field] = answer.rows[k][field]
                             \/ (field = "currency" /\ answer.mapping.currency_col >= 0)
    BY DEF ConfirmsThePreview
  <2> DEFINE m == answer.mapping
             records == Records(file, m.separator)
  <2>1. confirmed.rows = Parse(records, m)
    BY DEF IInv, ConfirmedFromFile
  <2>2. answer.rows = PreviewRows(records, m)
    <3>1. PICK sep \in DetectSeparator(file) : answer = AnswerAt(sep)
      <4>1. answer # [mapping |-> NULL, rows |-> ParseOFX(file.lines)]
        OBVIOUS
      <4> QED  BY <4>1 DEF IInv, AnswerFromFile
    <3>2. answer = [mapping |-> SuggestedMapping(Records(file, sep), sep),
                    rows    |-> PreviewRows(Records(file, sep),
                                            SuggestedMapping(Records(file, sep), sep))]
      BY <3>1, Zenon DEF AnswerAt
    <3>3. m = SuggestedMapping(Records(file, sep), sep)
      BY <3>2
    <3>4. SuggestedMapping(Records(file, sep), sep).separator = sep
      BY DEF SuggestedMapping
    <3> QED  BY <3>2, <3>3, <3>4
  <2> HIDE DEF m, records
  <2>3. m = answer.mapping
    BY DEF m
  <2> QED  BY <2>1, <2>2, <2>3, SameRows
<1> QED  BY <1>1, InductiveInvariant, PTL

(* A file that is uploaded again is previewed the same way, unless its
   separators tie without the comma (detectSeparator). *)
THEOREM UploadsSamePreview == Spec => SamePreview
<1>1. IInv /\ IInv' /\ [Next]_vars =>
        [answer # NULL => answer' = answer \/ (file.type = "csv" /\ Tied(file))]_vars
  <2> SUFFICES ASSUME IInv, Next, answer # NULL, ~ (file.type = "csv" /\ Tied(file))
               PROVE  answer' = answer
    BY DEF vars
  <2>1. ASSUME NEW sep \in Separators, PreviewCSV(sep) PROVE answer' = answer
    <3>1. file.type = "csv" /\ sep \in DetectSeparator(file) /\ answer' = AnswerAt(sep)
      BY <2>1, Zenon DEF PreviewCSV, AnswerAt
    <3>2. PICK was \in DetectSeparator(file) : answer = AnswerAt(was)
      BY <3>1 DEF IInv, AnswerFromFile
    <3>3. was = sep
      BY <3>1, <3>2, SeparatorsAgree
    <3> QED  BY <3>1, <3>2, <3>3
  <2>2. CASE PreviewOFX
    BY <2>2 DEF PreviewOFX, IInv, AnswerFromFile
  <2> QED  BY <2>1, <2>2 DEF Next, ConfirmFile, ConfirmRows
<1> QED  BY <1>1, InductiveInvariant, PTL DEF Spec, SamePreview

-----------------------------------------------------------------------------
\* The rows of an orderly file, previewed or confirmed, are its transactions.
LEMMA OrderlyRows ==
  ASSUME IInv, Orderly(file)
  PROVE  /\ answer \notin {NULL, Failed} => RowsRead(file, FormatFound(file), answer.rows)
         /\ \A k \in DOMAIN Read : \E layout \in {FormatFound(file), file.format} :
              RowReads(file, layout, Read[k])
<1>1. /\ file \in CsvFiles /\ file.type = "csv" /\ Rectangular(file) /\ TitlesPlain(file)
      /\ DetectSeparator(file) = {file.sep} /\ BlanksKept(file)
  <2>1. file \in CsvFiles
    BY DEF IInv, Orderly, CsvFiles
  <2> QED  BY <2>1, SeparatorFound DEF Orderly
<1> DEFINE m == Suggested(file.sep)
<1>2. Records(file, file.sep) = file.lines /\ m = SuggestedMapping(file.lines, file.sep)
  BY <1>1, OwnRecords DEF Suggested
<1>3. Reads(file, m) /\ m.date_format = FormatFound(file) /\ m.separator = file.sep
  BY <1>1, <1>2, SuggestedReads
<1>4. Reads(file, RightMapping(file)) /\ RightMapping(file).date_format = file.format
      /\ RightMapping(file).separator = file.sep
  BY <1>1, RightReads
<1> HIDE DEF m
<1>5. /\ RowsRead(file, FormatFound(file), PreviewRows(file.lines, m))
      /\ RowsRead(file, FormatFound(file), Parse(file.lines, m))
  BY <1>1, <1>3, FileRead
<1>6. RowsRead(file, file.format, Parse(file.lines, RightMapping(file)))
  BY <1>1, <1>4, FileRead
<1>7. ASSUME answer \notin {NULL, Failed}
      PROVE  answer.rows = PreviewRows(file.lines, m) /\ Numbered(answer.rows)
  <2>1. PICK sep \in DetectSeparator(file) :
          answer.rows = PreviewRows(Records(file, sep), Suggested(sep))
    BY <1>1, <1>7, AnswerIs DEF IInv
  <2> QED  BY <1>1, <1>2, <2>1, RowsNumbered DEF m
<1>8. ASSUME confirmed \notin {NULL, Failed}
      PROVE  /\ Numbered(confirmed.rows)
             /\ \A k \in DOMAIN confirmed.rows : \E layout \in {FormatFound(file), file.format} :
                  RowReads(file, layout, confirmed.rows[k])
  <2>1. CASE /\ MappingOfFile(confirmed.mapping)
             /\ confirmed.rows = Parse(Records(file, confirmed.mapping.separator),
                                       confirmed.mapping)
    <3>1. confirmed.mapping = RightMapping(file) \/ confirmed.mapping = m
      BY <1>1, <2>1 DEF MappingOfFile, m
    <3>2. confirmed.rows = Parse(file.lines, confirmed.mapping)
      BY <1>2, <1>3, <1>4, <2>1, <3>1
    <3>3. Numbered(confirmed.rows)
      BY <1>1, <2>1, RowsNumbered
    <3>4. \/ RowsRead(file, FormatFound(file), confirmed.rows)
          \/ RowsRead(file, file.format, confirmed.rows)
      BY <1>5, <1>6, <3>1, <3>2
    <3> QED  BY <3>3, <3>4 DEF RowsRead
  <2>2. CASE RowsFromAnswer(confirmed.rows)
    <3>1. Range(confirmed.rows) \subseteq Range(PreviewRows(file.lines, m))
          /\ Numbered(confirmed.rows)
      BY <1>1, <1>2, <2>2 DEF RowsFromAnswer, m
    <3>2. \A k \in DOMAIN confirmed.rows : RowReads(file, FormatFound(file), confirmed.rows[k])
      BY <1>5, <3>1 DEF RowsRead, Range
    <3> QED  BY <3>1, <3>2
  <2> QED  BY <1>1, <1>8, <2>1, <2>2 DEF IInv, ConfirmedFromFile
<1> DEFINE after == IF confirmed \in {NULL, Failed} THEN << >> ELSE confirmed.rows
           good == { row \in Range(Shown) \cup Range(after) :
                       \E layout \in {FormatFound(file), file.format} :
                         RowReads(file, layout, row) }
<1>9. Shown \in Seq(good)
  <2>1. CASE answer \in {NULL, Failed}
    BY <2>1 DEF Shown
  <2>2. CASE answer \notin {NULL, Failed}
    <3>1. Shown = answer.rows /\ Numbered(Shown)
      BY <1>7, <2>2 DEF Shown
    <3>2. \A k \in DOMAIN Shown : Shown[k] \in good
      BY <1>5, <1>7, <2>2, <3>1 DEF RowsRead, Range
    <3> HIDE DEF good
    <3> QED  BY <3>1, <3>2 DEF Numbered
  <2> QED  BY <2>1, <2>2
<1>10. after \in Seq(good)
  <2>1. CASE confirmed \in {NULL, Failed}
    BY <2>1
  <2>2. CASE confirmed \notin {NULL, Failed}
    <3>1. after = confirmed.rows /\ Numbered(after)
      BY <1>8, <2>2
    <3>2. \A k \in DOMAIN after : after[k] \in good
      BY <1>8, <2>2, <3>1 DEF Range
    <3> HIDE DEF good, after
    <3> QED  BY <3>1, <3>2 DEF Numbered
  <2> QED  BY <2>1, <2>2
<1>11. Read \in Seq(good)
  <2> HIDE DEF good
  <2> QED  BY <1>9, <1>10 DEF Read
<1>12. \A k \in DOMAIN Read : Read[k] \in good
  <2> HIDE DEF good
  <2> QED  BY <1>11, Listed, ElementsOf
<1>13. answer \notin {NULL, Failed} => RowsRead(file, FormatFound(file), answer.rows)
  BY <1>5, <1>7
<1> QED  BY <1>12, <1>13

(* Dates are never read with day and month the other way round, unless no
   date of a month-first file shows its order (DetectDateFormat, Parse). *)
THEOREM UploadsDatesAsWritten == Spec => []DatesAsWritten
<1>1. IInv => DatesAsWritten
  <2> SUFFICES ASSUME IInv, Orderly(file), OrderTold(file), NEW k \in DOMAIN Read
               PROVE  Read[k].date = DateWritten(file, Read[k].line)
    BY DEF DatesAsWritten
  <2>1. file \in CsvFiles /\ Rectangular(file)
    BY DEF IInv, Orderly, CsvFiles
  <2>2. PICK layout \in {FormatFound(file), file.format} : RowReads(file, layout, Read[k])
    BY OrderlyRows
  <2> DEFINE i == Read[k].line
             cell == CellOf(file, i, "date")
  <2>3. i \in Transactions(file) /\ Accepts(layout, cell) /\ Read[k].date = DateOf(layout, cell)
    BY <2>2 DEF RowReads, LinesOf
  <2>4. layout \in Range(DateFormats) /\ layout.order = file.format.order
    BY <2>1, DateCells, OrderFound
  <2>5. file.format \in Range(DateFormats) /\ Accepts(file.format, cell)
    BY <2>1, <2>3, DateCells
  <2> HIDE DEF cell
  <2>6. DateOf(layout, cell) = DateOf(file.format, cell)
    BY <2>3, <2>4, <2>5, SameReading
  <2> QED  BY <2>3, <2>6 DEF DateWritten, cell
<1> QED  BY <1>1, InductiveInvariant, PTL

(* The amounts of an orderly file, previewed and confirmed, are those the bank
   wrote, wherever its marks are clear (parseEuropeanDecimal, resolveAmount). *)
THEOREM UploadsAmountsAsWritten == Spec => []AmountsAsWritten
<1>1. IInv => AmountsAsWritten
  <2> SUFFICES ASSUME IInv, Orderly(file), NEW k \in DOMAIN Read,
                      AmountClear(file, Read[k].line)
               PROVE  Read[k].amount = AmountWritten(file, Read[k].line)
    BY DEF AmountsAsWritten
  <2>1. PICK layout \in {FormatFound(file), file.format} : RowReads(file, layout, Read[k])
    BY OrderlyRows
  <2> QED  BY <2>1 DEF RowReads
<1> QED  BY <1>1, InductiveInvariant, PTL

(* A preview shows transactions only, and all of them whose amounts are
   numbers, once order and width of the dates are told (findHeaderRow,
   DetectDateFormat, SuggestMapping). *)
THEOREM UploadsNoneLeftOut == Spec => []NoneLeftOut
<1>1. IInv => NoneLeftOut
  <2> SUFFICES ASSUME IInv, Orderly(file), answer \notin {NULL, Failed}
               PROVE  /\ LinesShown \subseteq Transactions(file)
                      /\ OrderTold(file) /\ WidthTold(file) =>
                           LinesShown = { i \in Transactions(file) : AmountShown(file, i) }
    BY DEF NoneLeftOut
  <2>1. file \in CsvFiles /\ Rectangular(file)
    BY DEF IInv, Orderly, CsvFiles
  <2>2. LinesShown = LinesOf(file, FormatFound(file))
    BY OrderlyRows DEF RowsRead, LinesShown
  <2>3. ASSUME OrderTold(file), WidthTold(file)
        PROVE  \A i \in Transactions(file) : Accepts(FormatFound(file), CellOf(file, i, "date"))
    <3> TAKE i \in Transactions(file)
    <3>1. Accepts(file.format, CellOf(file, i, "date"))
      BY <2>1, DateCells
    <3> QED  BY <2>1, <2>3, <3>1, WidthFound
  <2> QED  BY <2>2, <2>3 DEF LinesOf
<1> QED  BY <1>1, InductiveInvariant, PTL

(* With the mapping put right every transaction whose amount is a number is
   confirmed, on its own date, whatever the preview made of the file (Parse). *)
THEOREM UploadsRightMapping == Spec => []RightMappingReadsAll
<1>1. IInv => RightMappingReadsAll
  <2> SUFFICES ASSUME IInv, file.type = "csv", BlanksKept(file),
                      confirmed \notin {NULL, Failed},
                      confirmed.mapping = RightMapping(file)
               PROVE  /\ { confirmed.rows[k].line : k \in DOMAIN confirmed.rows }
                           = { i \in Transactions(file) : AmountShown(file, i) }
                      /\ \A k \in DOMAIN confirmed.rows :
                           confirmed.rows[k].date = DateWritten(file, confirmed.rows[k].line)
    BY DEF RightMappingReadsAll
  <2>1. file \in CsvFiles
    BY DEF IInv, CsvFiles
  <2>2. /\ Reads(file, RightMapping(file)) /\ RightMapping(file).date_format = file.format
        /\ RightMapping(file).separator = file.sep
    BY <2>1, RightReads
  <2>3. ReadsAll(Records(file, file.sep))
        /\ confirmed.rows = Parse(Records(file, file.sep), RightMapping(file))
    BY <2>1, <2>2, NullAssumption DEF IInv, ConfirmedFromFile
  <2>4. Rectangular(file) /\ confirmed.rows = Parse(file.lines, RightMapping(file))
    BY <2>1, <2>3, OwnRecords
  <2>5. RowsRead(file, file.format, confirmed.rows)
    BY <2>1, <2>2, <2>4, FileRead
  <2>6. LinesOf(file, file.format) = { i \in Transactions(file) : AmountShown(file, i) }
    BY <2>1, <2>4, DateCells DEF LinesOf
  <2> QED  BY <2>5, <2>6 DEF RowsRead, RowReads, DateWritten
<1> QED  BY <1>1, InductiveInvariant, PTL

-----------------------------------------------------------------------------
OfxFiles == { f \in Files : f.type = "ofx" }

\* A file is a number of lines.
LEMMA OfxLines ==
  ASSUME NEW f \in OfxFiles
  PROVE  Len(f.lines) \in Nat /\ DOMAIN f.lines = 1 .. Len(f.lines)
<1>1. f.lines \in Seq(Range(f.lines))
  BY FilesAssumption DEF OfxFiles
<1> QED  BY <1>1, Listed

\* The lines that open or close a transaction, one line further.
LEMMA EndsAre ==
  ASSUME NEW f, NEW k \in Nat, k >= 1
  PROVE  /\ f.lines[k].tag \in {"STMTTRN", "/STMTTRN"} =>
              Ends(f, k) # {} /\ Max(Ends(f, k)) = k
         /\ f.lines[k].tag \notin {"STMTTRN", "/STMTTRN"} => Ends(f, k) = Ends(f, k - 1)
         /\ Ends(f, k - 1) # {} => Max(Ends(f, k - 1)) \in 1 .. k - 1
<1>1. \A i \in 1 .. k : i = k \/ i \in 1 .. k - 1
  OBVIOUS
<1>2. 1 .. k - 1 \subseteq 1 .. k /\ k \in 1 .. k /\ k - 1 \in Nat
  OBVIOUS
<1>3. ASSUME f.lines[k].tag \in {"STMTTRN", "/STMTTRN"}
      PROVE  Ends(f, k) # {} /\ Max(Ends(f, k)) = k
  <2>1. Ends(f, k) \in SUBSET (1 .. k) /\ k \in Ends(f, k)
    BY <1>2, <1>3 DEF Ends
  <2> QED  BY <2>1, MaxUpTo
<1>4. ASSUME f.lines[k].tag \notin {"STMTTRN", "/STMTTRN"}
      PROVE  Ends(f, k) = Ends(f, k - 1)
  BY <1>1, <1>2, <1>4 DEF Ends
<1>5. ASSUME Ends(f, k - 1) # {} PROVE Max(Ends(f, k - 1)) \in 1 .. k - 1
  <2>1. Ends(f, k - 1) \in SUBSET (1 .. k - 1)
    BY DEF Ends
  <2>2. Max(Ends(f, k - 1)) \in Ends(f, k - 1)
    BY <1>2, <1>5, <2>1, MaxUpTo
  <2> QED  BY <2>1, <2>2
<1> QED  BY <1>3, <1>4, <1>5

\* The last value of a tag, one line further.
LEMMA LastValueIs ==
  ASSUME NEW f, NEW k \in Nat, NEW from \in 1 .. k, NEW tag
  PROVE  /\ f.lines[k].tag = tag /\ f.lines[k].value # Blank =>
              LastValue(f, from, k, tag) = f.lines[k].value
         /\ ~ (f.lines[k].tag = tag /\ f.lines[k].value # Blank) =>
              LastValue(f, from, k, tag) = LastValue(f, from, k - 1, tag)
         /\ LastValue(f, k, k - 1, tag) = Blank
<1> DEFINE given(i) == { j \in from .. i : f.lines[j].tag = tag /\ f.lines[j].value # Blank }
<1>1. \A i : LastValue(f, from, i, tag)
               = IF given(i) = {} THEN Blank ELSE f.lines[Max(given(i))].value
  BY Zenon DEF LastValue
<1>2. ASSUME f.lines[k].tag = tag, f.lines[k].value # Blank
      PROVE  LastValue(f, from, k, tag) = f.lines[k].value
  <2>1. given(k) \in SUBSET (1 .. k) /\ k \in given(k)
    BY <1>2
  <2> HIDE DEF given
  <2>2. given(k) # {} /\ Max(given(k)) = k
    BY <2>1, MaxUpTo
  <2> QED  BY <1>1, <2>2
<1>3. ASSUME ~ (f.lines[k].tag = tag /\ f.lines[k].value # Blank)
      PROVE  LastValue(f, from, k, tag) = LastValue(f, from, k - 1, tag)
  <2>1. given(k) = given(k - 1)
    <3>1. \A i \in from .. k : i = k \/ i \in from .. k - 1
      OBVIOUS
    <3>2. from .. k - 1 \subseteq from .. k
      OBVIOUS
    <3> QED  BY <1>3, <3>1, <3>2
  <2> HIDE DEF given
  <2> QED  BY <1>1, <2>1
<1>4. LastValue(f, k, k - 1, tag) = Blank
  <2>1. k .. k - 1 = {}
    OBVIOUS
  <2> QED  BY <2>1 DEF LastValue
<1> QED  BY <1>2, <1>3, <1>4
-----------------------------------------------------------------------------
\* What the scanner can hold: values of the file, and rows made of them.
Values(f) == {Blank} \cup { f.lines[i].value : i \in DOMAIN f.lines }
Currencies(f) == {"EUR"} \cup { f.lines[i].value.id : i \in DOMAIN f.lines }
OfxRows(f) ==
  { BuildOFXRow(p[1], p[2], p[3]) : p \in [Tags -> Values(f)] \X Currencies(f) \X DOMAIN f.lines }
ScannerStates(f) ==
  [inTx : BOOLEAN, fields : [Tags -> Values(f)], curDef : Currencies(f), rows : Seq(OfxRows(f))]

\* The scanner does one thing with a line.
LEMMA ScanIs ==
  ASSUME NEW s, NEW line, NEW i
  PROVE  /\ line.tag = "CURDEF" /\ line.value # Blank =>
              Scan(s, line, i) = [s EXCEPT !.curDef = line.value.id]
         /\ line.tag = "STMTTRN" => Scan(s, line, i) = Opened(s)
         /\ line.tag = "/STMTTRN" => Scan(s, line, i) = Closed(s, i)
         /\ s.inTx /\ line.tag \in Tags /\ line.value # Blank =>
              Scan(s, line, i) = [s EXCEPT !.fields[line.tag] = line.value]
         /\ ~ (line.tag = "CURDEF" /\ line.value # Blank) /\ line.tag # "STMTTRN"
              /\ line.tag # "/STMTTRN" /\ ~ (s.inTx /\ line.tag \in Tags /\ line.value # Blank) =>
              Scan(s, line, i) = s
<1> DEFINE a == [s EXCEPT !.curDef = line.value.id]
           b == [s EXCEPT !.fields[line.tag] = line.value]
<1>1. Scan(s, line, i) =
        CASE line.tag = "CURDEF" /\ line.value # Blank -> a
          [] line.tag = "STMTTRN"                      -> Opened(s)
          [] line.tag = "/STMTTRN"                     -> Closed(s, i)
          [] s.inTx /\ line.tag \in Tags /\ line.value # Blank -> b
          [] OTHER                                     -> s
  BY Zenon DEF Scan
<1> HIDE DEF a, b
<1>2. line.tag \in Tags => line.tag # "CURDEF" /\ line.tag # "STMTTRN" /\ line.tag # "/STMTTRN"
  BY DEF Tags
<1>3. ASSUME line.tag = "CURDEF" /\ line.value # Blank PROVE Scan(s, line, i) = a
  BY <1>1, <1>2, <1>3
<1>4. ASSUME line.tag = "STMTTRN" PROVE Scan(s, line, i) = Opened(s)
  BY <1>1, <1>2, <1>4
<1>5. ASSUME line.tag = "/STMTTRN" PROVE Scan(s, line, i) = Closed(s, i)
  BY <1>1, <1>2, <1>5
<1>6. ASSUME s.inTx /\ line.tag \in Tags /\ line.value # Blank PROVE Scan(s, line, i) = b
  BY <1>1, <1>2, <1>6
<1>7. ~ (line.tag = "CURDEF" /\ line.value # Blank) /\ line.tag # "STMTTRN"
        /\ line.tag # "/STMTTRN" /\ ~ (s.inTx /\ line.tag \in Tags /\ line.value # Blank) =>
        Scan(s, line, i) = s
  <2> SUFFICES ASSUME ~ (line.tag = "CURDEF" /\ line.value # Blank),
                      line.tag # "STMTTRN", line.tag # "/STMTTRN",
                      ~ (s.inTx /\ line.tag \in Tags /\ line.value # Blank)
               PROVE  Scan(s, line, i) = s
    OBVIOUS
  <2> QED  BY <1>1
<1>8. line.tag = "CURDEF" /\ line.value # Blank =>
        Scan(s, line, i) = [s EXCEPT !.curDef = line.value.id]
  BY <1>3, Zenon DEF a
<1>9. s.inTx /\ line.tag \in Tags /\ line.value # Blank =>
        Scan(s, line, i) = [s EXCEPT !.fields[line.tag] = line.value]
  BY <1>6, Zenon DEF b
<1> QED  BY <1>4, <1>5, <1>7, <1>8, <1>9, Zenon

\* It stays one.
LEMMA ScanType ==
  ASSUME NEW f \in OfxFiles
  PROVE  /\ Scanner \in ScannerStates(f)
         /\ \A s \in ScannerStates(f), i \in DOMAIN f.lines :
              Scan(s, f.lines[i], i) \in ScannerStates(f)
<1>1. Scanner \in ScannerStates(f)
  BY DEF Scanner, ScannerStates, NoFields, Values, Currencies
<1>2. ASSUME NEW s \in ScannerStates(f), NEW i \in DOMAIN f.lines
      PROVE  Scan(s, f.lines[i], i) \in ScannerStates(f)
  <2> DEFINE line == f.lines[i]
  <2>1. /\ s.inTx \in BOOLEAN /\ s.fields \in [Tags -> Values(f)]
        /\ s.curDef \in Currencies(f) /\ s.rows \in Seq(OfxRows(f))
        /\ s = [inTx |-> s.inTx, fields |-> s.fields, curDef |-> s.curDef, rows |-> s.rows]
    BY DEF ScannerStates
  <2>2. line.value \in Values(f) /\ line.value.id \in Currencies(f)
    BY DEF Values, Currencies
  <2> HIDE DEF line
  <2>3. CASE line.tag = "CURDEF" /\ line.value # Blank
    <3>1. Scan(s, line, i) = [s EXCEPT !.curDef = line.value.id]
      BY <2>3, ScanIs
    <3> QED  BY <2>2, <3>1 DEF ScannerStates, line
  <2>4. CASE line.tag = "STMTTRN"
    <3>1. Scan(s, line, i) = Opened(s)
      BY <2>4, ScanIs
    <3>2. NoFields \in [Tags -> Values(f)]
      BY DEF NoFields, Values
    <3> QED  BY <3>1, <3>2 DEF Opened, ScannerStates, line
  <2>5. CASE line.tag = "/STMTTRN"
    <3>1. Scan(s, line, i) = Closed(s, i)
      BY <2>5, ScanIs
    <3>2. BuildOFXRow(s.fields, s.curDef, i) \in OfxRows(f)
      <4>1. <<s.fields, s.curDef, i>> \in [Tags -> Values(f)] \X Currencies(f) \X DOMAIN f.lines
        BY <2>1
      <4>2. \A p \in [Tags -> Values(f)] \X Currencies(f) \X DOMAIN f.lines :
              BuildOFXRow(p[1], p[2], p[3]) \in OfxRows(f)
        BY DEF OfxRows
      <4> QED  BY <4>1, <4>2
    <3>3. Append(s.rows, BuildOFXRow(s.fields, s.curDef, i)) \in Seq(OfxRows(f))
      BY <2>1, <3>2
    <3> QED  BY <2>1, <3>1, <3>3 DEF Closed, ScannerStates, line
  <2>6. CASE s.inTx /\ line.tag \in Tags /\ line.value # Blank
    <3>1. Scan(s, line, i) = [s EXCEPT !.fields[line.tag] = line.value]
      BY <2>6, ScanIs
    <3>2. [s.fields EXCEPT ![line.tag] = line.value] \in [Tags -> Values(f)]
      BY <2>1, <2>2
    <3> QED  BY <2>1, <3>1, <3>2 DEF ScannerStates, line
  <2>7. CASE /\ ~ (line.tag = "CURDEF" /\ line.value # Blank)
             /\ line.tag # "STMTTRN" /\ line.tag # "/STMTTRN"
             /\ ~ (s.inTx /\ line.tag \in Tags /\ line.value # Blank)
    BY <2>7, ScanIs DEF line
  <2> QED  BY <2>3, <2>4, <2>5, <2>6, <2>7 DEF line
<1> QED  BY <1>1, <1>2
-----------------------------------------------------------------------------
\* The rows of the transactions closed in the first k lines.
RowsUpTo(f, k, rows) ==
  /\ { rows[n].line : n \in DOMAIN rows }
       = { i \in 1 .. k : Closes(f, i) /\ Buildable(FieldsOf(f, i)) }
  /\ \A n \in DOMAIN rows :
       LET i == rows[n].line
       IN  /\ rows[n] = BuildOFXRow(FieldsOf(f, i), CurrencyOf(f, i), i)
           /\ \A j \in 1 .. n - 1 : rows[j].line < i

\* The fields of the transaction that is open.
FieldsUpTo(f, k, fields) ==
  \A tag \in Tags : fields[tag] = LastValue(f, Max(Ends(f, k)), k, tag)

\* The scanner after k lines.
ScannedUpTo(f, k, s) ==
  /\ s.inTx <=> Open(f, k)
  /\ s.inTx => FieldsUpTo(f, k, s.fields)
  /\ s.curDef = CurrencyOf(f, k)
  /\ RowsUpTo(f, k, s.rows)

\* One more line, and the scanner has read one line more.
LEMMA ScanStep ==
  ASSUME NEW f \in OfxFiles, NEW k \in DOMAIN f.lines, NEW s \in ScannerStates(f),
         ScannedUpTo(f, k - 1, s)
  PROVE  ScannedUpTo(f, k, Scan(s, f.lines[k], k))
<1> DEFINE line == f.lines[k]
           t == Scan(s, line, k)
<1>1. k \in Nat /\ k >= 1 /\ k - 1 \in Nat /\ 1 \in 1 .. k
  BY OfxLines
<1>2. /\ s.inTx \in BOOLEAN /\ s.fields \in [Tags -> Values(f)] /\ s.rows \in Seq(OfxRows(f))
  BY DEF ScannerStates
<1>3. /\ s.inTx <=> Open(f, k - 1)
      /\ s.inTx => FieldsUpTo(f, k - 1, s.fields)
      /\ s.curDef = CurrencyOf(f, k - 1)
      /\ RowsUpTo(f, k - 1, s.rows)
  BY DEF ScannedUpTo
<1>4. /\ line.tag \in {"STMTTRN", "/STMTTRN"} => Ends(f, k) # {} /\ Max(Ends(f, k)) = k
      /\ line.tag \notin {"STMTTRN", "/STMTTRN"} => Ends(f, k) = Ends(f, k - 1)
      /\ Ends(f, k - 1) # {} => Max(Ends(f, k - 1)) \in 1 .. k
  BY <1>1, EndsAre
<1>5. Open(f, k) <=> IF line.tag \in {"STMTTRN", "/STMTTRN"} THEN line.tag = "STMTTRN"
                     ELSE Open(f, k - 1)
  BY <1>4 DEF Open
<1>6. CurrencyOf(f, k) = IF line.tag = "CURDEF" /\ line.value # Blank THEN line.value.id
                         ELSE CurrencyOf(f, k - 1)
  BY <1>1, LastValueIs DEF CurrencyOf
<1>7. ASSUME Open(f, k - 1), line.tag \in {"/STMTTRN"} \cup Tags \/ Open(f, k)
      PROVE  \A tag \in Tags :
               LastValue(f, Max(Ends(f, k - 1)), k, tag)
                 = IF line.tag = tag /\ line.value # Blank THEN line.value
                   ELSE LastValue(f, Max(Ends(f, k - 1)), k - 1, tag)
  <2>1. Max(Ends(f, k - 1)) \in 1 .. k
    BY <1>4, <1>7 DEF Open
  <2> QED  BY <1>1, <2>1, LastValueIs
<1>8. ASSUME line.tag # "/STMTTRN" PROVE RowsUpTo(f, k, s.rows)
  <2>1. ~ Closes(f, k)
    BY <1>8 DEF Closes
  <2>2. { i \in 1 .. k : Closes(f, i) /\ Buildable(FieldsOf(f, i)) }
          = { i \in 1 .. k - 1 : Closes(f, i) /\ Buildable(FieldsOf(f, i)) }
    <3>1. \A i \in 1 .. k : i = k \/ i \in 1 .. k - 1
      BY <1>1
    <3>2. 1 .. k - 1 \subseteq 1 .. k
      BY <1>1
    <3> QED  BY <2>1, <3>1, <3>2
  <2> QED  BY <1>3, <2>2 DEF RowsUpTo
<1> SUFFICES ScannedUpTo(f, k, t)
  OBVIOUS
<1> HIDE DEF line
<1>9. CASE line.tag = "CURDEF" /\ line.value # Blank
  <2>1. t = [s EXCEPT !.curDef = line.value.id]
    BY <1>9, ScanIs
  <2>2. /\ t.inTx = s.inTx /\ t.fields = s.fields /\ t.rows = s.rows
        /\ t.curDef = line.value.id
    BY <2>1 DEF ScannerStates
  <2> HIDE DEF t
  <2>3. t.inTx => FieldsUpTo(f, k, t.fields)
    <3> SUFFICES ASSUME t.inTx, NEW tag \in Tags
                 PROVE  t.fields[tag] = LastValue(f, Max(Ends(f, k)), k, tag)
      BY DEF FieldsUpTo
    <3>1. Open(f, k - 1) /\ Open(f, k) /\ line.tag # tag /\ Ends(f, k) = Ends(f, k - 1)
      BY <1>3, <1>4, <1>5, <1>9, <2>2 DEF Tags
    <3> QED  BY <1>3, <1>7, <2>2, <3>1 DEF FieldsUpTo
  <2> QED  BY <1>3, <1>5, <1>6, <1>8, <1>9, <2>2, <2>3 DEF ScannedUpTo
<1>10. CASE line.tag = "STMTTRN"
  <2>1. t = Opened(s)
    BY <1>10, ScanIs
  <2>2. /\ t.inTx = TRUE /\ t.fields = NoFields /\ t.rows = s.rows /\ t.curDef = s.curDef
    BY <2>1 DEF Opened, ScannerStates
  <2> HIDE DEF t
  <2>3. FieldsUpTo(f, k, t.fields)
    <3> SUFFICES ASSUME NEW tag \in Tags
                 PROVE  t.fields[tag] = LastValue(f, Max(Ends(f, k)), k, tag)
      BY DEF FieldsUpTo
    <3>1. line.tag # tag
      BY <1>10 DEF Tags
    <3>2. Max(Ends(f, k)) = k /\ k \in 1 .. k
      BY <1>1, <1>4, <1>10
    <3>3. LastValue(f, k, k, tag) = Blank
      BY <1>1, <3>1, <3>2, LastValueIs DEF line
    <3>4. t.fields[tag] = Blank
      BY <2>2 DEF NoFields
    <3> QED  BY <3>2, <3>3, <3>4
  <2> QED  BY <1>3, <1>5, <1>6, <1>8, <1>10, <2>2, <2>3 DEF ScannedUpTo
<1>11. CASE line.tag = "/STMTTRN"
  <2> DEFINE built == BuildOFXRow(s.fields, s.curDef, k)
  <2>1. t = Closed(s, k)
    BY <1>11, ScanIs
  <2>2. /\ t.inTx = FALSE /\ t.curDef = s.curDef
        /\ t.rows = IF s.inTx /\ Buildable(s.fields) THEN Append(s.rows, built) ELSE s.rows
    BY <2>1 DEF Closed, ScannerStates
  <2>3. built.line = k
    BY DEF BuildOFXRow
  <2> HIDE DEF t, built
  <2>4. Closes(f, k) <=> s.inTx
    BY <1>3, <1>11 DEF Closes, line
  <2>5. ASSUME s.inTx
        PROVE  FieldsOf(f, k) = s.fields /\ CurrencyOf(f, k) = s.curDef
    <3>1. \A tag \in Tags : LastValue(f, Max(Ends(f, k - 1)), k, tag) = s.fields[tag]
      <4>1. \A tag \in Tags : line.tag # tag
        BY <1>11 DEF Tags
      <4> QED  BY <1>3, <1>7, <1>11, <2>5, <4>1 DEF FieldsUpTo
    <3>2. FieldsOf(f, k) = [tag \in Tags |-> s.fields[tag]]
      BY <3>1 DEF FieldsOf
    <3> QED  BY <1>2, <1>3, <1>6, <1>11, <3>2
  <2>6. \A i \in 1 .. k : i = k \/ i \in 1 .. k - 1
    BY <1>1
  <2>7. 1 .. k - 1 \subseteq 1 .. k /\ k \in 1 .. k
    BY <1>1
  <2> DEFINE closed(j) == { i \in 1 .. j : Closes(f, i) /\ Buildable(FieldsOf(f, i)) }
  <2>8. /\ { s.rows[n].line : n \in DOMAIN s.rows } = closed(k - 1)
        /\ \A n \in DOMAIN s.rows :
             /\ s.rows[n] = BuildOFXRow(FieldsOf(f, s.rows[n].line),
                                        CurrencyOf(f, s.rows[n].line), s.rows[n].line)
             /\ \A j \in 1 .. n - 1 : s.rows[j].line < s.rows[n].line
    BY <1>3, Zenon DEF RowsUpTo
  <2>9. RowsUpTo(f, k, t.rows)
    <3>1. CASE ~ (s.inTx /\ Buildable(s.fields))
      <4>1. ~ (Closes(f, k) /\ Buildable(FieldsOf(f, k)))
        BY <2>4, <2>5, <3>1
      <4>2. closed(k) = closed(k - 1)
        BY <2>6, <2>7, <4>1
      <4>3. t.rows = s.rows
        BY <2>2, <3>1
      <4> QED  BY <1>3, <4>2, <4>3 DEF RowsUpTo
    <3>2. CASE s.inTx /\ Buildable(s.fields)
      <4>1. Closes(f, k) /\ Buildable(FieldsOf(f, k))
        BY <2>4, <2>5, <3>2
      <4>2. closed(k) = closed(k - 1) \cup {k}
        BY <2>6, <2>7, <4>1
      <4>3. PICK N \in Nat : N = Len(s.rows) /\ DOMAIN s.rows = 1 .. N
        BY <1>2, Listed
      <4>4. t.rows = Append(s.rows, built)
        BY <2>2, <3>2
      <4>5. /\ DOMAIN t.rows = 1 .. N + 1 /\ t.rows[N + 1] = built
            /\ \A n \in 1 .. N : t.rows[n] = s.rows[n]
        BY <1>2, <4>3, <4>4
      <4>6. \A n \in 1 .. N + 1 : n = N + 1 \/ n \in 1 .. N
        OBVIOUS
      <4>7. 1 .. N \subseteq 1 .. N + 1 /\ N + 1 \in 1 .. N + 1 /\ N + 1 - 1 = N
        OBVIOUS
      <4>8. \A n \in 1 .. N : s.rows[n].line \in 1 .. k - 1
        BY <2>8, <4>3
      <4> HIDE DEF closed
      <4>9. { t.rows[n].line : n \in DOMAIN t.rows } = closed(k)
        <5>1. { s.rows[n].line : n \in 1 .. N } = closed(k - 1)
          BY <2>8, <4>3
        <5> QED  BY <2>3, <4>2, <4>5, <4>6, <4>7, <5>1
      <4>10. built = BuildOFXRow(FieldsOf(f, k), CurrencyOf(f, k), k)
        BY <2>5, <3>2 DEF built
      <4>11. ASSUME NEW n \in DOMAIN t.rows
             PROVE  /\ t.rows[n] = BuildOFXRow(FieldsOf(f, t.rows[n].line),
                                        CurrencyOf(f, t.rows[n].line), t.rows[n].line)
                    /\ \A j \in 1 .. n - 1 : t.rows[j].line < t.rows[n].line
        <5>1. CASE n \in 1 .. N
          <6>1. \A j \in 1 .. n - 1 : j \in 1 .. N
            BY <5>1
          <6> QED  BY <2>8, <4>3, <4>5, <5>1, <6>1
        <5>2. CASE n = N + 1
          <6>1. t.rows[n] = built /\ n - 1 = N
            BY <4>5, <4>7, <5>2
          <6>2. \A j \in 1 .. N : t.rows[j].line < k
            BY <1>1, <4>5, <4>8
          <6> QED  BY <2>3, <4>10, <6>1, <6>2
        <5> QED  BY <4>5, <4>6, <5>1, <5>2
      <4> QED  BY <4>9, <4>11 DEF RowsUpTo, closed
    <3> QED  BY <3>1, <3>2
  <2> QED  BY <1>3, <1>5, <1>6, <1>11, <2>2, <2>9 DEF ScannedUpTo
<1>12. CASE line.tag \notin {"STMTTRN", "/STMTTRN"} /\ ~ (line.tag = "CURDEF" /\ line.value # Blank)
  <2>1. /\ t.inTx = s.inTx /\ t.rows = s.rows /\ t.curDef = s.curDef
        /\ t.fields = IF s.inTx /\ line.tag \in Tags /\ line.value # Blank
                      THEN [s.fields EXCEPT ![line.tag] = line.value] ELSE s.fields
    <3>1. CASE s.inTx /\ line.tag \in Tags /\ line.value # Blank
      <4>1. t = [s EXCEPT !.fields[line.tag] = line.value]
        BY <1>12, <3>1, ScanIs
      <4> QED  BY <3>1, <4>1 DEF ScannerStates
    <3>2. CASE ~ (s.inTx /\ line.tag \in Tags /\ line.value # Blank)
      <4>1. t = s
        BY <1>12, <3>2, ScanIs
      <4> QED  BY <3>2, <4>1
    <3> QED  BY <3>1, <3>2
  <2> HIDE DEF t
  <2>2. t.inTx => FieldsUpTo(f, k, t.fields)
    <3> SUFFICES ASSUME t.inTx, NEW tag \in Tags
                 PROVE  t.fields[tag] = LastValue(f, Max(Ends(f, k)), k, tag)
      BY DEF FieldsUpTo
    <3>1. Open(f, k - 1) /\ Open(f, k) /\ Ends(f, k) = Ends(f, k - 1) /\ s.inTx
      BY <1>3, <1>4, <1>5, <1>12, <2>1
    <3>2. LastValue(f, Max(Ends(f, k)), k, tag)
            = IF line.tag = tag /\ line.value # Blank THEN line.value ELSE s.fields[tag]
      BY <1>3, <1>7, <3>1 DEF FieldsUpTo
    <3>3. t.fields[tag] = IF line.tag = tag /\ line.value # Blank THEN line.value
                          ELSE s.fields[tag]
      BY <1>2, <2>1, <3>1
    <3> QED  BY <3>2, <3>3
  <2> QED  BY <1>3, <1>5, <1>6, <1>8, <1>12, <2>1, <2>2 DEF ScannedUpTo
<1> QED  BY <1>9, <1>10, <1>11, <1>12

-----------------------------------------------------------------------------
\* Before the first line.
LEMMA ScanStart ==
  ASSUME NEW f \in OfxFiles
  PROVE  ScannedUpTo(f, 0, Scanner)
<1>1. 1 .. 0 = {}
  OBVIOUS
<1>2. ~ Open(f, 0)
  BY <1>1 DEF Open, Ends
<1>3. CurrencyOf(f, 0) = "EUR"
  BY <1>1 DEF CurrencyOf, LastValue
<1>4. RowsUpTo(f, 0, << >>)
  BY <1>1 DEF RowsUpTo
<1> QED  BY <1>2, <1>3, <1>4 DEF ScannedUpTo, Scanner

\* The rows of an OFX file are its closed transactions.
LEMMA OfxRead ==
  ASSUME NEW f \in OfxFiles
  PROVE  RowsUpTo(f, Len(f.lines), ParseOFX(f.lines))
<1>1. PICK N \in Nat : N = Len(f.lines) /\ DOMAIN f.lines = 1 .. N
  BY OfxLines
<1> DEFINE X == ScannerStates(f)
           numbers == [i \in DOMAIN f.lines |-> i]
           P(g) == g = [s \in SUBSET DOMAIN numbers |->
                          IF s = {} THEN Scanner
                          ELSE Scan(g[s \ {Max(s)}], f.lines[numbers[Max(s)]], numbers[Max(s)])]
           c == CHOOSE g : P(g)
           step == [p \in X \X (1 .. N) |-> Scan(p[1], f.lines[p[2]], p[2])]
<1>2. Scanner \in X /\ \A s \in X, i \in 1 .. N : Scan(s, f.lines[i], i) \in X
  BY <1>1, ScanType
<1>3. ParseOFX(f.lines) = c[DOMAIN numbers].rows
  BY Zenon DEF ParseOFX, FoldLeft, MapThenFoldSet
<1>4. DOMAIN numbers = 1 .. N /\ \A i \in 1 .. N : numbers[i] = i
  BY <1>1
<1> HIDE DEF X, numbers
<1>5. step \in [X \X (1 .. N) -> X]
      /\ \A s \in X, i \in 1 .. N : step[<<s, i>>] = Scan(s, f.lines[i], i)
  BY <1>2
<1> HIDE DEF step
<1>6. PICK g : Table(g, N, Scanner, step) /\ \A s \in SUBSET (1 .. N) : g[s] \in X
  BY <1>2, <1>5, TableExists
<1>7. P(g)
  <2>1. ASSUME NEW s \in SUBSET (1 .. N), s # {}
        PROVE  step[<<g[s \ {Max(s)}], Max(s)>>]
                 = Scan(g[s \ {Max(s)}], f.lines[numbers[Max(s)]], numbers[Max(s)])
    <3>1. Max(s) \in 1 .. N /\ s \ {Max(s)} \in SUBSET (1 .. N)
      BY <2>1, MaxUpTo
    <3> QED  BY <1>4, <1>5, <1>6, <3>1
  <2> QED  BY <1>4, <1>6, <2>1 DEF Table
<1>8. P(c)
  BY <1>7, Zenon
<1> HIDE DEF c
<1>9. \A s \in SUBSET (1 .. N) :
        c[s] = IF s = {} THEN Scanner
               ELSE Scan(c[s \ {Max(s)}], f.lines[numbers[Max(s)]], numbers[Max(s)])
  BY <1>4, <1>8
<1> DEFINE run == RunOf(c, N)
<1> HIDE DEF P
<1>10. Runs(c, N, run)
  BY RunOfTable
<1> HIDE DEF run
<1> DEFINE Q == {k \in 0 .. N : run[k] \in X /\ ScannedUpTo(f, k, run[k])}
<1>11. 0 \in Q
  <2>1. run[0] = Scanner
    BY <1>9, <1>10 DEF Runs
  <2> QED  BY <1>2, <2>1, ScanStart
<1>12. ASSUME NEW k \in 1 .. N, k - 1 \in Q PROVE k \in Q
  <2>1. run[k - 1] \in X /\ ScannedUpTo(f, k - 1, run[k - 1]) /\ k \in 0 .. N
    BY <1>12
  <2>2. run[k] = Scan(run[k - 1], f.lines[k], k)
    <3>1. /\ 1 .. k \in SUBSET (1 .. N) /\ 1 .. k # {} /\ Max(1 .. k) = k
          /\ c[1 .. k] = run[k] /\ c[(1 .. k) \ {Max(1 .. k)}] = run[k - 1]
      BY <1>10 DEF Runs
    <3>2. c[1 .. k] = Scan(c[(1 .. k) \ {Max(1 .. k)}], f.lines[numbers[Max(1 .. k)]],
                           numbers[Max(1 .. k)])
      BY <1>9, <3>1
    <3>3. numbers[Max(1 .. k)] = k
      BY <1>4, <3>1
    <3> QED  BY <3>1, <3>2, <3>3
  <2>3. ScannedUpTo(f, k, run[k])
    BY <1>1, <2>1, <2>2, ScanStep DEF X
  <2> QED  BY <1>2, <2>1, <2>2, <2>3
<1>13. N \in 0 .. N
  OBVIOUS
<1> HIDE DEF Q
<1>14. N \in Q
  BY <1>11, <1>12, <1>13, UpTo
<1>15. ScannedUpTo(f, N, run[N])
  BY <1>14 DEF Q
<1>16. ParseOFX(f.lines) = run[N].rows
  BY <1>3, <1>4, <1>10 DEF Runs
<1> QED  BY <1>1, <1>15, <1>16 DEF ScannedUpTo

(* The rows of an OFX file are its closed transactions that can be read, each
   with the fields and the currency it stands under (OFXParser.Parse). *)
THEOREM UploadsTransactionsApart == Spec => []TransactionsApart
<1>1. IInv => TransactionsApart
  <2> SUFFICES ASSUME IInv, file.type = "ofx", answer \notin {NULL, Failed}
               PROVE  /\ LinesShown = { i \in DOMAIN file.lines :
                                          Closes(file, i) /\ Buildable(FieldsOf(file, i)) }
                      /\ \A k \in DOMAIN answer.rows :
                           LET i == answer.rows[k].line
                           IN  /\ answer.rows[k]
                                    = BuildOFXRow(FieldsOf(file, i), CurrencyOf(file, i), i)
                               /\ \A n \in 1 .. k - 1 : answer.rows[n].line < i
    BY DEF TransactionsApart
  <2>1. file \in OfxFiles
    BY DEF IInv, OfxFiles
  <2>2. answer.rows = ParseOFX(file.lines)
    BY DEF IInv, AnswerFromFile
  <2>3. RowsUpTo(file, Len(file.lines), answer.rows)
    BY <2>1, <2>2, OfxRead
  <2>4. LinesShown = { answer.rows[k].line : k \in DOMAIN answer.rows }
    BY DEF LinesShown
  <2> QED  BY <2>1, <2>3, <2>4, OfxLines DEF RowsUpTo
<1> QED  BY <1>1, InductiveInvariant, PTL
=============================================================================
