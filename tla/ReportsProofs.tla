---------------------------- MODULE ReportsProofs ----------------------------
(***************************************************************************)
(* What Reports says of listings, reports, budgets and balances holds for  *)
(* every chart of accounts, every entry lists, days, months and sizes of   *)
(* the book.                                                               *)
(*                                                                         *)
(* Every figure is a sum over a finite set, so most of the module is about *)
(* such sums: over nothing, one element more, two sets, groups, multiples, *)
(* in any order.  MapThenSumSet is a recursive function on the subsets of  *)
(* its set; its facts are proved by induction on subsets, which is an      *)
(* appeal to the smallest counterexample (SubsetInduction).  The figures   *)
(* are then written as sums over rows, and follow.                         *)
(*                                                                         *)
(* Listing, which follows one client through the same book while journals  *)
(* commit, needs the same sums; its theorems are in the second half, for   *)
(* any pool of journals.  Most of them are about tables p, q of journals   *)
(* and sets of ids, apart from any state.                                  *)
(***************************************************************************)
EXTENDS Reports, Listing, FiniteSetTheorems, TLAPS

\* A non-empty set of naturals has a least element.
LEMMA LeastNat ==
  ASSUME NEW T \in SUBSET Nat, T # {}
  PROVE  \E m \in T : \A k \in T : m <= k
<1>1. PICK m \in T : \A k \in T : ~ (<<k, m>> \in OpToRel(<, Nat))
  BY NatLessThanWellFounded, WFMin
<1>2. \A k \in T : ~ (k < m)
  <2>1. SUFFICES ASSUME NEW k \in T, k < m PROVE <<k, m>> \in OpToRel(<, Nat)
    BY <1>1
  <2>2. <<k, m>> \in Nat \X Nat /\ <<k, m>>[1] < <<k, m>>[2]  BY <2>1
  <2> QED  BY <2>2, Zenon DEF OpToRel
<1> QED  BY <1>2

(* A set of subsets of a finite set that is not empty has a smallest one. *)
LEMMA SmallestSubset ==
  ASSUME NEW D, IsFiniteSet(D), NEW Q \in SUBSET SUBSET D, Q # {}
  PROVE  \E s \in Q : \A r \in Q : ~ (Cardinality(r) < Cardinality(s))
<1>1. \A s \in SUBSET D : IsFiniteSet(s) /\ Cardinality(s) \in Nat
  BY FS_Subset, FS_CardinalityType
<1> DEFINE T == {Cardinality(s) : s \in Q}
<1>2. T \in SUBSET Nat /\ T # {}
  BY <1>1
<1>3. PICK m \in T : \A k \in T : m <= k
  BY <1>2, LeastNat
<1>4. PICK s \in Q : m = Cardinality(s)
  BY <1>3
<1>5. \A r \in Q : Cardinality(r) \in Nat /\ Cardinality(s) <= Cardinality(r)
  BY <1>1, <1>3, <1>4
<1> QED  BY <1>1, <1>5

(* What holds of no element, and of one more element with any set it holds of,
   holds of every subset of a finite set. *)
LEMMA SubsetInduction ==
  ASSUME NEW D, IsFiniteSet(D), NEW Q, {} \in Q,
         \A s \in SUBSET D : \A x \in D \ s : s \in Q => s \cup {x} \in Q
  PROVE  \A s \in SUBSET D : s \in Q
<1> SUFFICES ASSUME (SUBSET D) \ Q # {} PROVE FALSE
  OBVIOUS
<1>1. PICK s \in (SUBSET D) \ Q :
        \A r \in (SUBSET D) \ Q : ~ (Cardinality(r) < Cardinality(s))
  BY SmallestSubset
<1>2. PICK x \in s : TRUE
  BY <1>1
<1> DEFINE r == s \ {x}
<1>3. IsFiniteSet(s) /\ Cardinality(s) \in Nat
  BY FS_Subset, FS_CardinalityType
<1>4. Cardinality(r) = Cardinality(s) - 1
  BY <1>2, <1>3, FS_RemoveElement
<1>5. r \in Q
  BY <1>1, <1>3, <1>4
<1>6. x \in D \ r /\ r \cup {x} = s
  BY <1>2
<1> QED  BY <1>1, <1>5, <1>6
-----------------------------------------------------------------------------
\* The sum of the summands f over S.
SumOver(f, S) == MapThenSumSet(LAMBDA x : f[x], S)

\* The element a sum over s begins with.
Pick(s) == CHOOSE x \in s : TRUE

\* g is the table of the sums of f over the subsets of S.
Sums(f, S, g) ==
  g = [s \in SUBSET S |-> IF s = {} THEN 0 ELSE f[Pick(s)] + g[s \ {Pick(s)}]]

\* The summands of a set are integers.
IntOn(f, D) == \A x \in D : f[x] \in Int

(* A finite set has a table of the sums of its subsets. *)
LEMMA SumsExist ==
  ASSUME NEW S, IsFiniteSet(S), NEW f
  PROVE  \E g : Sums(f, S, g)
<1> DEFINE Sum(g, s) == IF s = {} THEN 0 ELSE f[Pick(s)] + g[s \ {Pick(s)}]
           Tabled(n, g) == /\ g = [s \in SUBSET S |-> g[s]]
                           /\ \A s \in SUBSET S : Cardinality(s) <= n => g[s] = Sum(g, s)
           T == {n \in Nat : ~ \E g : Tabled(n, g)}
<1>1. \A s \in SUBSET S : /\ IsFiniteSet(s) /\ Cardinality(s) \in Nat
                          /\ Cardinality(s) <= Cardinality(S)
                          /\ Cardinality(s) = 0 => s = {}
  BY FS_Subset, FS_CardinalityType, FS_EmptySet
<1>2. \A s \in SUBSET S : s # {} => /\ Pick(s) \in s
                                    /\ Cardinality(s \ {Pick(s)}) = Cardinality(s) - 1
  <2> SUFFICES ASSUME NEW s \in SUBSET S, s # {}
               PROVE  Pick(s) \in s /\ Cardinality(s \ {Pick(s)}) = Cardinality(s) - 1
    OBVIOUS
  <2>1. Pick(s) \in s
    BY DEF Pick
  <2> QED  BY <2>1, <1>1, FS_RemoveElement
<1>3. T = {}
  <2> SUFFICES ASSUME T # {} PROVE FALSE
    OBVIOUS
  <2>1. PICK m \in T : \A k \in T : m <= k
    BY LeastNat
  <2>2. m # 0
    <3> DEFINE z == [s \in SUBSET S |-> 0]
    <3>1. Tabled(0, z)
      BY <1>1
    <3> HIDE DEF Tabled, z
    <3>2. 0 \notin T
      BY <3>1
    <3> QED  BY <3>2, <2>1
  <2>3. m \in Nat /\ m - 1 \in Nat /\ m - 1 \notin T
    <3> HIDE DEF T
    <3>1. m \in Nat
      BY <2>1 DEF T
    <3>2. ~ (m <= m - 1)
      BY <3>1
    <3> QED  BY <2>1, <2>2, <3>1, <3>2
  <2>4. PICK g : Tabled(m - 1, g)
    BY <2>3
  <2> DEFINE h == [s \in SUBSET S |-> Sum(g, s)]
  <2>5. \A s \in SUBSET S : Cardinality(s) <= m - 1 => h[s] = g[s]
    BY <2>4
  <2>6. \A s \in SUBSET S : Cardinality(s) <= m => h[s] = Sum(h, s)
    <3> SUFFICES ASSUME NEW s \in SUBSET S, Cardinality(s) <= m
                 PROVE  h[s] = Sum(h, s)
      OBVIOUS
    <3>1. CASE s = {}
      BY <3>1
    <3>2. CASE s # {}
      <4>1. Cardinality(s \ {Pick(s)}) <= m - 1 /\ s \ {Pick(s)} \in SUBSET S
        BY <3>2, <1>1, <1>2, <2>3
      <4>2. h[s \ {Pick(s)}] = g[s \ {Pick(s)}]
        BY <4>1, <2>5
      <4>3. h[s] = Sum(g, s)
        OBVIOUS
      <4> HIDE DEF h
      <4> QED  BY <3>2, <4>2, <4>3
    <3> QED  BY <3>1, <3>2
  <2>7. h = [s \in SUBSET S |-> h[s]]
    OBVIOUS
  <2> HIDE DEF h
  <2>8. Tabled(m, h)
    BY <2>6, <2>7
  <2> QED  BY <2>1, <2>8
<1>4. Cardinality(S) \in Nat
  BY FS_CardinalityType
<1>5. PICK g : Tabled(Cardinality(S), g)
  BY <1>3, <1>4
<1>6. \A s \in SUBSET S : g[s] = Sum(g, s)
  BY <1>1, <1>5
<1>7. g = [s \in SUBSET S |-> Sum(g, s)]
  BY <1>5, <1>6
<1> QED  BY <1>7 DEF Sums

(* Two tables agree where their summands do. *)
LEMMA SumsAgree ==
  ASSUME NEW S, IsFiniteSet(S), NEW f, NEW g, Sums(f, S, g),
         NEW T, NEW e, NEW h, Sums(e, T, h),
         \A x \in S \cap T : f[x] = e[x]
  PROVE  \A s \in SUBSET (S \cap T) : g[s] = h[s]
<1> DEFINE D == S \cap T
           Q == {s \in SUBSET D : g[s] # h[s]}
<1> SUFFICES ASSUME Q # {} PROVE FALSE
  OBVIOUS
<1>1. IsFiniteSet(D)
  BY FS_Subset
<1>2. PICK s \in Q : \A r \in Q : ~ (Cardinality(r) < Cardinality(s))
  BY <1>1, SmallestSubset
<1>3. s \in SUBSET S /\ s \in SUBSET T
  BY <1>2
<1>4. /\ g[s] = IF s = {} THEN 0 ELSE f[Pick(s)] + g[s \ {Pick(s)}]
      /\ h[s] = IF s = {} THEN 0 ELSE e[Pick(s)] + h[s \ {Pick(s)}]
  BY <1>3 DEF Sums
<1>5. s # {}
  BY <1>2, <1>4
<1>6. Pick(s) \in s
  BY <1>5 DEF Pick
<1>7. IsFiniteSet(s) /\ Cardinality(s) \in Nat
  BY <1>1, <1>2, FS_Subset, FS_CardinalityType
<1>8. Cardinality(s \ {Pick(s)}) = Cardinality(s) - 1
  BY <1>6, <1>7, FS_RemoveElement
<1>9. g[s \ {Pick(s)}] = h[s \ {Pick(s)}]
  BY <1>2, <1>7, <1>8
<1>10. f[Pick(s)] = e[Pick(s)]
  BY <1>3, <1>6
<1> QED  BY <1>2, <1>4, <1>9, <1>10

(* The sum over a finite set is the last entry of its table. *)
LEMMA SumIsLast ==
  ASSUME NEW S, IsFiniteSet(S), NEW f
  PROVE  \E g : Sums(f, S, g) /\ SumOver(f, S) = g[S]
<1> DEFINE P(g) == g = [s \in SUBSET S |->
                          IF s = {} THEN 0
                          ELSE f[CHOOSE x \in s : TRUE] + g[s \ {CHOOSE x \in s : TRUE}]]
           c == CHOOSE g : P(g)
<1>0. \E g : Sums(f, S, g)
  BY SumsExist
<1>1. \E g : P(g)
  BY <1>0, Zenon DEF Sums, Pick
<1>2. P(c)
  BY <1>1, Zenon
<1>3. SumOver(f, S) = c[S]
  BY Zenon DEF SumOver, MapThenSumSet, MapThenFoldSet
<1> QED  BY <1>2, <1>3, Zenon DEF Sums, Pick

(* The sum over nothing. *)
LEMMA SumEmpty ==
  ASSUME NEW f
  PROVE  SumOver(f, {}) = 0
<1>1. PICK g : Sums(f, {}, g) /\ SumOver(f, {}) = g[{}]
  BY SumIsLast, FS_EmptySet
<1> QED  BY <1>1 DEF Sums

(* A sum begins with the element the definition picks. *)
LEMMA SumPick ==
  ASSUME NEW S, IsFiniteSet(S), S # {}, NEW f
  PROVE  SumOver(f, S) = f[Pick(S)] + SumOver(f, S \ {Pick(S)})
<1> DEFINE T == S \ {Pick(S)}
<1>1. PICK g : Sums(f, S, g) /\ SumOver(f, S) = g[S]
  BY SumIsLast
<1>2. IsFiniteSet(T)
  BY FS_Subset
<1>3. PICK h : Sums(f, T, h) /\ SumOver(f, T) = h[T]
  BY <1>2, SumIsLast
<1>4. \A s \in SUBSET (S \cap T) : g[s] = h[s]
  BY <1>1, <1>3, SumsAgree
<1>5. g[T] = h[T]
  BY <1>4
<1>6. g[S] = f[Pick(S)] + g[T]
  BY <1>1 DEF Sums
<1> QED  BY <1>1, <1>3, <1>5, <1>6

(* A sum of integers is one. *)
LEMMA SumType ==
  ASSUME NEW S, IsFiniteSet(S), NEW f, IntOn(f, S)
  PROVE  SumOver(f, S) \in Int
<1> DEFINE Q == {s \in SUBSET S : SumOver(f, s) \notin Int}
<1> SUFFICES ASSUME Q # {} PROVE FALSE
  OBVIOUS
<1>1. PICK s \in Q : \A r \in Q : ~ (Cardinality(r) < Cardinality(s))
  BY SmallestSubset
<1>2. s # {}
  BY <1>1, SumEmpty
<1>3. IsFiniteSet(s) /\ Cardinality(s) \in Nat
  BY FS_Subset, FS_CardinalityType
<1>4. Pick(s) \in s
  BY <1>2 DEF Pick
<1>5. Cardinality(s \ {Pick(s)}) = Cardinality(s) - 1
  BY <1>3, <1>4, FS_RemoveElement
<1>6. SumOver(f, s \ {Pick(s)}) \in Int
  BY <1>1, <1>3, <1>5
<1>7. SumOver(f, s) = f[Pick(s)] + SumOver(f, s \ {Pick(s)})
  BY <1>2, <1>3, SumPick
<1> QED  BY <1>1, <1>4, <1>6, <1>7 DEF IntOn

(* A sum may begin with any element: addition is commutative. *)
LEMMA SumRemove ==
  ASSUME NEW D, IsFiniteSet(D), NEW f, IntOn(f, D)
  PROVE  \A s \in SUBSET D : \A x \in s : SumOver(f, s) = f[x] + SumOver(f, s \ {x})
<1> DEFINE Q == {s \in SUBSET D : \E x \in s : SumOver(f, s) # f[x] + SumOver(f, s \ {x})}
<1> SUFFICES ASSUME Q # {} PROVE FALSE
  OBVIOUS
<1>1. PICK s \in Q : \A r \in Q : ~ (Cardinality(r) < Cardinality(s))
  BY SmallestSubset
<1>2. PICK x \in s : SumOver(f, s) # f[x] + SumOver(f, s \ {x})
  BY <1>1
<1> DEFINE p == Pick(s)
<1>3. \A r \in SUBSET D : IsFiniteSet(r) /\ Cardinality(r) \in Nat /\ SumOver(f, r) \in Int
  <2> SUFFICES ASSUME NEW r \in SUBSET D
               PROVE  IsFiniteSet(r) /\ Cardinality(r) \in Nat /\ SumOver(f, r) \in Int
    OBVIOUS
  <2>1. IsFiniteSet(r) /\ Cardinality(r) \in Nat
    BY FS_Subset, FS_CardinalityType
  <2> QED  BY <2>1, SumType DEF IntOn
<1>4. p \in s /\ SumOver(f, s) = f[p] + SumOver(f, s \ {p})
  <2>1. p \in s
    BY <1>2 DEF Pick
  <2> QED  BY <2>1, <1>1, <1>3, SumPick
<1>5. p # x
  BY <1>2, <1>4
<1>6. /\ Cardinality(s \ {x}) = Cardinality(s) - 1
      /\ Cardinality(s \ {p}) = Cardinality(s) - 1
  BY <1>1, <1>3, <1>4, FS_RemoveElement
<1>7. s \ {x} \notin Q /\ s \ {p} \notin Q
  BY <1>1, <1>3, <1>6
<1>8. SumOver(f, s \ {p}) = f[x] + SumOver(f, (s \ {p}) \ {x})
  BY <1>1, <1>5, <1>7
<1>9. SumOver(f, s \ {x}) = f[p] + SumOver(f, (s \ {x}) \ {p})
  BY <1>1, <1>4, <1>5, <1>7
<1>10. (s \ {x}) \ {p} = (s \ {p}) \ {x}
  OBVIOUS
<1>11. /\ f[x] \in Int /\ f[p] \in Int /\ SumOver(f, (s \ {p}) \ {x}) \in Int
  BY <1>1, <1>3, <1>4 DEF IntOn
<1> HIDE DEF p
<1>12. \A a, b, c \in Int : a + (b + c) = b + (a + c)
  OBVIOUS
<1>13. f[p] + (f[x] + SumOver(f, (s \ {p}) \ {x}))
         = f[x] + (f[p] + SumOver(f, (s \ {p}) \ {x}))
  BY <1>11, <1>12
<1> QED  BY <1>2, <1>4, <1>8, <1>9, <1>10, <1>13, Zenon

(* The sum over a set and one element more. *)
LEMMA SumAdd ==
  ASSUME NEW D, IsFiniteSet(D), NEW f, IntOn(f, D),
         NEW s \in SUBSET D, NEW x \in D \ s
  PROVE  /\ SumOver(f, s \cup {x}) = f[x] + SumOver(f, s)
         /\ SumOver(f, s) \in Int
<1>1. (s \cup {x}) \ {x} = s /\ s \cup {x} \in SUBSET D /\ x \in s \cup {x}
  OBVIOUS
<1>2. SumOver(f, s \cup {x}) = f[x] + SumOver(f, s)
  BY <1>1, SumRemove DEF IntOn
<1>3. SumOver(f, s) \in Int
  <2>1. IsFiniteSet(s)
    BY FS_Subset
  <2> QED  BY <2>1, SumType DEF IntOn
<1> QED  BY <1>2, <1>3

(* The sum over two sets that do not meet. *)
LEMMA SumUnion ==
  ASSUME NEW D, IsFiniteSet(D), NEW f, IntOn(f, D),
         NEW A \in SUBSET D, NEW B \in SUBSET D, A \cap B = {}
  PROVE  SumOver(f, A \cup B) = SumOver(f, A) + SumOver(f, B)
<1>0. IsFiniteSet(B) /\ IsFiniteSet(A) /\ SumOver(f, A) \in Int
  <2>1. IsFiniteSet(B) /\ IsFiniteSet(A)
    BY FS_Subset
  <2> QED  BY <2>1, SumType DEF IntOn
<1> DEFINE Q == {s \in SUBSET B : SumOver(f, A \cup s) = SumOver(f, A) + SumOver(f, s)}
<1>1. {} \in Q
  <2>1. A \cup {} = A
    OBVIOUS
  <2> QED  BY <2>1, <1>0, SumEmpty
<1>2. ASSUME NEW s \in SUBSET B, NEW x \in B \ s, s \in Q
      PROVE  s \cup {x} \in Q
  <2> DEFINE u == A \cup s
  <2>1. A \cup (s \cup {x}) = u \cup {x}
    OBVIOUS
  <2>2. u \in SUBSET D /\ x \in D \ u /\ s \in SUBSET D /\ x \in D \ s
    OBVIOUS
  <2>6. SumOver(f, u) = SumOver(f, A) + SumOver(f, s)
    BY <1>2
  <2> HIDE DEF u
  <2>3. SumOver(f, u \cup {x}) = f[x] + SumOver(f, u)
    BY <2>2, SumAdd
  <2>4. SumOver(f, s \cup {x}) = f[x] + SumOver(f, s) /\ SumOver(f, s) \in Int
    BY <2>2, SumAdd
  <2>5. f[x] \in Int
    BY DEF IntOn
  <2>7. \A a, b, c \in Int : a + (b + c) = b + (a + c)
    OBVIOUS
  <2>8. f[x] + (SumOver(f, A) + SumOver(f, s)) = SumOver(f, A) + (f[x] + SumOver(f, s))
    BY <1>0, <2>4, <2>5, <2>7
  <2>9. SumOver(f, A \cup (s \cup {x})) = SumOver(f, A) + SumOver(f, s \cup {x})
    BY <2>1, <2>3, <2>4, <2>6, <2>8, Zenon
  <2> QED  BY <2>9
<1> HIDE DEF Q
<1>3. \A s \in SUBSET B : s \in Q
  BY <1>0, <1>1, <1>2, SubsetInduction
<1> QED  BY <1>3 DEF Q

(* The sum of sums. *)
LEMMA SumPlus ==
  ASSUME NEW S, IsFiniteSet(S), NEW f, NEW e, NEW h,
         \A x \in S : f[x] \in Int /\ e[x] \in Int /\ h[x] = f[x] + e[x]
  PROVE  SumOver(h, S) = SumOver(f, S) + SumOver(e, S)
<1> DEFINE Q == {s \in SUBSET S : SumOver(h, s) = SumOver(f, s) + SumOver(e, s)}
<1>1. {} \in Q
  BY SumEmpty
<1>2. ASSUME NEW s \in SUBSET S, NEW x \in S \ s, s \in Q
      PROVE  s \cup {x} \in Q
  <2>1. /\ IntOn(f, S) /\ IntOn(e, S) /\ IntOn(h, S)
        /\ f[x] \in Int /\ e[x] \in Int /\ h[x] \in Int
    BY DEF IntOn
  <2>a. SumOver(f, s \cup {x}) = f[x] + SumOver(f, s) /\ SumOver(f, s) \in Int
    BY <2>1, SumAdd
  <2>b. SumOver(e, s \cup {x}) = e[x] + SumOver(e, s) /\ SumOver(e, s) \in Int
    BY <2>1, SumAdd
  <2>2. SumOver(h, s \cup {x}) = h[x] + SumOver(h, s)
    BY <2>1, SumAdd
  <2>3. SumOver(h, s) = SumOver(f, s) + SumOver(e, s) /\ h[x] = f[x] + e[x]
    BY <1>2
  <2>4. \A a, b, c, d \in Int : (a + b) + (c + d) = (a + c) + (b + d)
    OBVIOUS
  <2>5. SumOver(h, s \cup {x}) = SumOver(f, s \cup {x}) + SumOver(e, s \cup {x})
    BY <2>1, <2>a, <2>b, <2>2, <2>3, <2>4
  <2> QED  BY <2>5
<1> HIDE DEF Q
<1>3. \A s \in SUBSET S : s \in Q
  BY <1>1, <1>2, SubsetInduction
<1> QED  BY <1>3 DEF Q

\* The summands h are those of f, taken c times.
Times(h, c, f, S) == \A x \in S : h[x] = c * f[x]

(* The sum of multiples by one number. *)
LEMMA SumTimes ==
  ASSUME NEW S, IsFiniteSet(S), NEW f, IntOn(f, S), NEW h, NEW c \in Int, Times(h, c, f, S)
  PROVE  SumOver(h, S) = c * SumOver(f, S)
<1> DEFINE Q == {s \in SUBSET S : SumOver(h, s) = c * SumOver(f, s)}
<1>1. {} \in Q
  BY SumEmpty
<1>2. ASSUME NEW s \in SUBSET S, NEW x \in S \ s, s \in Q
      PROVE  s \cup {x} \in Q
  <2>0. \A a, b \in Int : c * (a + b) = c * a + c * b
    OBVIOUS
  <2>1. IntOn(f, S) /\ IntOn(h, S)
    BY DEF IntOn, Times
  <2>a. SumOver(f, s \cup {x}) = f[x] + SumOver(f, s) /\ SumOver(f, s) \in Int
    BY <2>1, SumAdd
  <2>2. SumOver(h, s \cup {x}) = h[x] + SumOver(h, s)
    BY <2>1, SumAdd
  <2>3. SumOver(h, s) = c * SumOver(f, s) /\ h[x] = c * f[x] /\ f[x] \in Int
    BY <1>2 DEF IntOn, Times
  <2>5. SumOver(h, s \cup {x}) = c * SumOver(f, s \cup {x})
    BY <2>0, <2>a, <2>2, <2>3
  <2> QED  BY <2>5
<1> HIDE DEF Q
<1>3. \A s \in SUBSET S : s \in Q
  BY <1>1, <1>2, SubsetInduction
<1> QED  BY <1>3 DEF Q

(* The sum of the same number, once for each element. *)
LEMMA SumOfOne ==
  ASSUME NEW S, IsFiniteSet(S), NEW f, NEW c \in Int, \A x \in S : f[x] = c
  PROVE  SumOver(f, S) = Cardinality(S) * c
<1> DEFINE Q == {s \in SUBSET S : SumOver(f, s) = Cardinality(s) * c}
<1>1. {} \in Q
  BY SumEmpty, FS_EmptySet
<1>2. ASSUME NEW s \in SUBSET S, NEW x \in S \ s, s \in Q
      PROVE  s \cup {x} \in Q
  <2>0. \A n \in Nat : (n + 1) * c = c + n * c
    OBVIOUS
  <2>1. IsFiniteSet(s) /\ Cardinality(s) \in Nat
    BY FS_Subset, FS_CardinalityType
  <2>2. Cardinality(s \cup {x}) = Cardinality(s) + 1
    BY <2>1, FS_AddElement
  <2>c. IntOn(f, S)
    BY DEF IntOn
  <2>3. SumOver(f, s \cup {x}) = f[x] + SumOver(f, s)
    BY <2>c, SumAdd
  <2>4. SumOver(f, s) = Cardinality(s) * c /\ f[x] = c
    BY <1>2
  <2>5. SumOver(f, s \cup {x}) = Cardinality(s \cup {x}) * c
    BY <2>0, <2>1, <2>2, <2>3, <2>4
  <2> QED  BY <2>5
<1> HIDE DEF Q
<1>3. \A s \in SUBSET S : s \in Q
  BY <1>1, <1>2, SubsetInduction
<1> QED  BY <1>3 DEF Q

\* The summands g are the sums of f over the groups K.
Groups(g, K, f, S, group) ==
  /\ \A x \in S : group[x] \in K
  /\ \A k \in K : g[k] = SumOver(f, {x \in S : group[x] = k})

(* A sum may be taken group by group. *)
LEMMA SumByGroup ==
  ASSUME NEW S, IsFiniteSet(S), NEW f, IntOn(f, S), NEW K, IsFiniteSet(K),
         NEW g, NEW group, Groups(g, K, f, S, group)
  PROVE  SumOver(g, K) = SumOver(f, S)
<1> DEFINE In(s) == {x \in S : group[x] \in s}
           Of(k) == {x \in S : group[x] = k}
           Q == {s \in SUBSET K : SumOver(g, s) = SumOver(f, In(s))}
<1>0. \A k \in K : g[k] \in Int
  <2> SUFFICES ASSUME NEW k \in K PROVE SumOver(f, Of(k)) \in Int
    BY DEF Groups
  <2>1. IsFiniteSet(Of(k))
    BY FS_Subset
  <2> QED  BY <2>1, SumType DEF IntOn
<1>a. IntOn(g, K)
  BY <1>0 DEF IntOn
<1>1. {} \in Q
  <2>1. In({}) = {}
    OBVIOUS
  <2> QED  BY <2>1, SumEmpty
<1>2. ASSUME NEW s \in SUBSET K, NEW k \in K \ s, s \in Q
      PROVE  s \cup {k} \in Q
  <2>1. In(s \cup {k}) = In(s) \cup Of(k) /\ In(s) \cap Of(k) = {}
    OBVIOUS
  <2>2. In(s) \in SUBSET S /\ Of(k) \in SUBSET S
    OBVIOUS
  <2>3. g[k] = SumOver(f, Of(k))
    BY DEF Groups
  <2>4. SumOver(g, s) = SumOver(f, In(s))
    BY <1>2
  <2> HIDE DEF In, Of
  <2>5. SumOver(f, In(s) \cup Of(k)) = SumOver(f, In(s)) + SumOver(f, Of(k))
    BY <2>1, <2>2, SumUnion
  <2>6. SumOver(g, s \cup {k}) = g[k] + SumOver(g, s) /\ SumOver(g, s) \in Int
    BY <1>a, SumAdd
  <2>7. \A a, b \in Int : a + b = b + a
    OBVIOUS
  <2>8. SumOver(g, s \cup {k}) = SumOver(f, In(s \cup {k}))
    BY <1>0, <2>1, <2>3, <2>4, <2>5, <2>6, <2>7
  <2> QED  BY <2>8
<1>3. In(K) = S
  BY DEF Groups
<1> HIDE DEF Q
<1>4. \A s \in SUBSET K : s \in Q
  BY <1>1, <1>2, SubsetInduction
<1> QED  BY <1>3, <1>4 DEF Q
-----------------------------------------------------------------------------
(* The image of a finite set is finite. *)
LEMMA ImageFinite ==
  ASSUME NEW S, IsFiniteSet(S), NEW F
  PROVE  IsFiniteSet({F[x] : x \in S})
<1> DEFINE T == {F[x] : x \in S}
           G == [x \in S |-> F[x]]
<1>1. G \in Surjection(S, T)
  BY DEF Surjection
<1> HIDE DEF G, T
<1>2. IsFiniteSet(T)
  BY <1>1, FS_Surjection
<1> QED  BY <1>2 DEF T

\* The journals that are written, and those they may reverse.
Journal == [user : Users, day : Days, category : Categories \cup {NULL},
            of : Nat \cup {NULL}, lines : Seq(Lines)]

\* The type invariant.
ReportsTypes == journals \in Seq(Journal) /\ today \in Days

(* Every journal is a journal. *)
LEMMA JournalType ==
  ASSUME ReportsTypes
  PROVE  /\ Len(journals) \in Nat
         /\ \A i \in 1 .. Len(journals) :
              /\ journals[i].user \in Users
              /\ journals[i].day \in Days
              /\ journals[i].category \in Categories \cup {NULL}
              /\ journals[i].of \in Nat \cup {NULL}
              /\ journals[i].lines \in Seq(Lines)
              /\ Len(journals[i].lines) \in Nat
<1>1. Len(journals) \in Nat /\ \A i \in 1 .. Len(journals) : journals[i] \in Journal
  BY DEF ReportsTypes
<1>2. ASSUME NEW i \in 1 .. Len(journals)
      PROVE  /\ journals[i].user \in Users
             /\ journals[i].day \in Days
             /\ journals[i].category \in Categories \cup {NULL}
             /\ journals[i].of \in Nat \cup {NULL}
             /\ journals[i].lines \in Seq(Lines)
             /\ Len(journals[i].lines) \in Nat
  <2>1. journals[i] \in Journal
    BY <1>1
  <2>2. /\ journals[i].day \in Days /\ journals[i].lines \in Seq(Lines)
        /\ journals[i].category \in Categories \cup {NULL}
        /\ journals[i].of \in Nat \cup {NULL}
        /\ journals[i].user \in Users
    BY <2>1 DEF Journal
  <2> QED  BY <2>2
<1> QED  BY <1>1, <1>2

(* What a reversal is written with. *)
LEMMA NegateType ==
  ASSUME NEW ls \in Seq(Lines)
  PROVE  /\ Negate(ls) \in Seq(Lines)
         /\ Len(Negate(ls)) = Len(ls)
         /\ \A n \in 1 .. Len(ls) : /\ Negate(ls)[n].amount = -ls[n].amount
                                    /\ Negate(ls)[n].account = ls[n].account
<1>1. \A n \in 1 .. Len(ls) : ls[n] \in Lines
  OBVIOUS
<1>2. \A n \in 1 .. Len(ls) : [ls[n] EXCEPT !.amount = -@] \in Lines
  BY <1>1 DEF Lines
<1> QED  BY <1>1, <1>2 DEF Negate, Lines

(* A journal that Post and Void write. *)
LEMMA ReverseWrites ==
  ASSUME ReportsTypes, NEW i \in 1 .. Len(journals)
  PROVE  LET j == [journals[i] EXCEPT !.day = today, !.of = i, !.lines = Negate(@)]
         IN  /\ j \in Journal
             /\ j.of = i /\ j.lines = Negate(journals[i].lines)
             /\ j.user = journals[i].user
<1> DEFINE ls == Negate(journals[i].lines)
           k == [journals[i] EXCEPT !.day = today]
           m == [k EXCEPT !.of = i]
           j == [m EXCEPT !.lines = ls]
<1>1. journals[i] \in Journal /\ i \in Nat /\ today \in Days
  BY DEF ReportsTypes
<1>2. ls \in Seq(Lines)
  BY JournalType, NegateType
<1> HIDE DEF ls
<1>3. k \in Journal /\ k.user = journals[i].user
  BY <1>1 DEF Journal
<1> HIDE DEF k
<1>4. m \in Journal /\ m.of = i /\ m.user = journals[i].user
  BY <1>1, <1>3 DEF Journal
<1> HIDE DEF m
<1>5. j \in Journal /\ j.of = i /\ j.lines = ls /\ j.user = journals[i].user
  BY <1>2, <1>4 DEF Journal
<1> QED  BY <1>5 DEF k, m, ls

(* A step writes one journal, for a request or to reverse one, or is a day. *)
LEMMA StepCases ==
  ASSUME ReportsTypes, Next
  PROVE  \/ /\ \E j \in Journal :
                 /\ journals' = Append(journals, j)
                 /\ \/ j.of = NULL /\ SumAmounts(j.lines) = 0
                    \/ /\ j.of \in 1 .. Len(journals)
                       /\ journals[j.of].of = NULL
                       /\ j.user = journals[j.of].user
                       /\ j.lines = Negate(journals[j.of].lines)
            /\ today' = today
         \/ journals' = journals /\ today' \in Days
<1>1. CASE \E u \in Users, ls \in EntryLists, d \in Days, c \in Categories \cup {NULL} :
             Post(u, ls, d, c)
  <2>1. PICK u \in Users, ls \in EntryLists, d \in Days, c \in Categories \cup {NULL} :
             Post(u, ls, d, c)
    BY <1>1
  <2> DEFINE j == [user |-> u, day |-> d, category |-> c, of |-> NULL, lines |-> ls]
  <2>2. journals' = Append(journals, j) /\ SumAmounts(ls) = 0 /\ today' = today
    BY <2>1 DEF Post, Write, IsBalanced
  <2>3. j \in Journal /\ j.of = NULL /\ j.lines = ls
    BY EntriesAssumption DEF Journal
  <2> HIDE DEF j
  <2> QED  BY <2>2, <2>3
<1>2. CASE \E i \in 1 .. Len(journals) : Void(i)
  <2>1. PICK i \in 1 .. Len(journals) : Void(i)
    BY <1>2
  <2> DEFINE j == [journals[i] EXCEPT !.day = today, !.of = i, !.lines = Negate(@)]
  <2>2. journals[i].of = NULL /\ journals' = Append(journals, j) /\ today' = today
    BY <2>1 DEF Void, Write
  <2>3. /\ j \in Journal /\ j.of = i /\ j.lines = Negate(journals[i].lines)
        /\ j.user = journals[i].user
    BY ReverseWrites
  <2> HIDE DEF j
  <2> QED  BY <2>2, <2>3
<1>3. CASE Tick
  BY <1>3, DaysAssumption, MonthAssumption DEF Tick, Days, ReportsTypes
<1> QED  BY <1>1, <1>2, <1>3 DEF Next

(* Journals and days keep their types. *)
THEOREM ReportsTypeCorrect == Spec => []ReportsTypes
<1>1. Init => ReportsTypes
  BY DaysAssumption, MonthAssumption DEF Init, ReportsTypes, Days
<1>2. ASSUME ReportsTypes, [Next]_vars PROVE ReportsTypes'
  <2>1. CASE Next
    <3>1. journals \in Seq(Journal) /\ today \in Days
      BY <1>2 DEF ReportsTypes
    <3>2. \/ (\E j \in Journal : journals' = Append(journals, j)) /\ today' = today
          \/ journals' = journals /\ today' \in Days
      BY <1>2, <2>1, StepCases
    <3>3. Days' = Days /\ Journal' = Journal
      BY DEF Days, Journal
    <3> QED  BY <3>1, <3>2, <3>3 DEF ReportsTypes
  <2>2. CASE UNCHANGED vars
    BY <1>2, <2>2 DEF vars, ReportsTypes, Journal, Days
  <2> QED  BY <1>2, <2>1, <2>2
<1> QED  BY <1>1, <1>2, PTL DEF Spec
-----------------------------------------------------------------------------
(* Whatever page_size the request names, a page has room. *)
LEMMA PageSizeType ==
  ASSUME NEW size \in Int
  PROVE  PageSize(size) \in 1 .. 100
BY DEF PageSize

(* Division into pages: a position falls on one page. *)
LEMMA PageOf ==
  ASSUME NEW pos \in Nat, NEW size \in 1 .. 100
  PROVE  \E p \in Nat \ {0} : (p - 1) * size <= pos /\ pos < (p - 1) * size + size
<1> DEFINE q == pos \div size
           r == pos % size
<1>1. q \in Nat /\ r \in 0 .. (size - 1) /\ pos = size * q + r
  OBVIOUS
<1> HIDE DEF q, r
<1>2. q + 1 \in Nat \ {0} /\ (q + 1) - 1 = q
  BY <1>1
<1>3. size * q = q * size
  BY <1>1
<1>4. q * size \in Nat
  BY <1>1
<1>5. q * size <= pos /\ pos < q * size + size
  BY <1>1, <1>3, <1>4
<1> QED  BY <1>2, <1>5

(* The ranges of positions of two pages do not meet. *)
LEMMA PagesApart ==
  ASSUME NEW p \in Nat, NEW q \in Nat, p < q, NEW size \in 1 .. 100
  PROVE  p * size + size <= q * size
<1>1. p + 1 <= q /\ p + 1 \in Nat
  OBVIOUS
<1>2. (p + 1) * size <= q * size
  BY <1>1
<1>3. (p + 1) * size = p * size + size
  OBVIOUS
<1> QED  BY <1>2, <1>3

(* The pages of a listing are its journals, each on one page: where a journal
   stands in the order depends on the book alone, and pages do not meet. *)
LEMMA PagesFromTypes ==
  ASSUME ReportsTypes
  PROVE  PagesAreListing
<1> SUFFICES ASSUME NEW f \in Filters, NEW size \in Sizes
             PROVE  LET total == Cardinality(Selected(f))
                        pages == {p \in 1 .. total : (p - 1) * PageSize(size) < total}
                    IN  /\ UNION {Page(f, p, size) : p \in pages} = Selected(f)
                        /\ \A p, q \in pages :
                             p # q => Page(f, p, size) \cap Page(f, q, size) = {}
  BY DEF PagesAreListing
<1> DEFINE S == Selected(f)
           n == PageSize(size)
           total == Cardinality(S)
           pages == {p \in 1 .. total : (p - 1) * n < total}
<1>1. n \in 1 .. 100
  BY SizesAssumption, PageSizeType
<1>2. S \subseteq 1 .. Len(journals) /\ Len(journals) \in Nat
  BY JournalType DEF Selected
<1>3. IsFiniteSet(S) /\ total \in Nat
  <2>1. IsFiniteSet(1 .. Len(journals))
    BY <1>2, FS_Interval
  <2>2. IsFiniteSet(S)
    BY <1>2, <2>1, FS_Subset
  <2> QED  BY <2>2, FS_CardinalityType
<1>4. ASSUME NEW i \in S
      PROVE  Position(f, i) \in Nat /\ Position(f, i) < total
  <2> DEFINE ahead == {k \in S : Before(k, i)}
  <2>1. ~ Before(i, i)
    BY <1>2, JournalType, DaysAssumption, MonthAssumption DEF Before, Days
  <2>2. ahead \in SUBSET S /\ ahead # S
    BY <2>1
  <2>3. IsFiniteSet(ahead) /\ Cardinality(ahead) <= total /\ Cardinality(ahead) # total
    BY <1>3, <2>2, FS_Subset
  <2>4. Cardinality(ahead) \in Nat
    BY <2>3, FS_CardinalityType
  <2>5. Position(f, i) = Cardinality(ahead)
    BY DEF Position
  <2> HIDE DEF ahead, total
  <2> QED  BY <1>3, <2>3, <2>4, <2>5
<1>5. \A p \in Nat \ {0} : Page(f, p, size) =
        {i \in S : (p - 1) * n <= Position(f, i) /\ Position(f, i) < (p - 1) * n + n}
  <2> SUFFICES ASSUME NEW p \in Nat \ {0}
               PROVE  Page(f, p, size) =
                        {i \in S : (p - 1) * n <= Position(f, i)
                                   /\ Position(f, i) < (p - 1) * n + n}
    OBVIOUS
  <2>1. Offset(p, size) = (p - 1) * n
    BY DEF Offset
  <2>2. (p - 1) * n \in Int
    BY <1>1
  <2> HIDE DEF n
  <2> QED  BY <1>1, <1>4, <2>1, <2>2 DEF Page, n
<1> HIDE DEF S, n, total
<1>6. ASSUME NEW i \in S
      PROVE  \E p \in pages : i \in Page(f, p, size)
  <2>1. PICK p \in Nat \ {0} : /\ (p - 1) * n <= Position(f, i)
                               /\ Position(f, i) < (p - 1) * n + n
    BY <1>1, <1>4, PageOf
  <2>2. (p - 1) * n < total /\ (p - 1) * n \in Nat
    BY <1>1, <1>3, <1>4, <2>1
  <2>3. p - 1 <= (p - 1) * n
    BY <1>1
  <2>4. p \in pages
    BY <1>3, <2>2, <2>3
  <2> QED  BY <1>5, <2>1, <2>4
<1>7. ASSUME NEW p \in pages, NEW q \in pages, p < q
      PROVE  Page(f, p, size) \cap Page(f, q, size) = {}
  <2> SUFFICES ASSUME NEW i \in Page(f, p, size), i \in Page(f, q, size)
               PROVE  FALSE
    OBVIOUS
  <2>1. p \in Nat \ {0} /\ q \in Nat \ {0} /\ p - 1 \in Nat /\ q - 1 \in Nat /\ p - 1 < q - 1
    BY <1>3, <1>7
  <2>2. i \in S /\ Position(f, i) < (p - 1) * n + n /\ (q - 1) * n <= Position(f, i)
    BY <1>5, <2>1
  <2>3. (p - 1) * n + n <= (q - 1) * n
    BY <1>1, <2>1, PagesApart
  <2>4. (p - 1) * n \in Nat /\ (q - 1) * n \in Nat /\ Position(f, i) \in Nat /\ n \in Nat
    BY <1>1, <1>4, <2>1, <2>2
  <2> QED  BY <2>2, <2>3, <2>4
<1>8. \A p \in pages : p \in Nat \ {0} /\ Page(f, p, size) \subseteq S
  BY <1>3, <1>5
<1>9. UNION {Page(f, p, size) : p \in pages} = S
  BY <1>6, <1>8
<1>10. \A p, q \in pages : p # q => Page(f, p, size) \cap Page(f, q, size) = {}
  <2> SUFFICES ASSUME NEW p \in pages, NEW q \in pages, p # q
               PROVE  Page(f, p, size) \cap Page(f, q, size) = {}
    OBVIOUS
  <2>1. p < q \/ q < p
    BY <1>8
  <2> QED  BY <1>7, <2>1
<1> QED  BY <1>9, <1>10 DEF S, n, total

(* However long the book and whatever page_size a request names, the pages up
   to the total are the journals the filters select, each on one page
   (LedgerRepo.ListJournalEntries). *)
THEOREM ListingsComeInPages == Spec => []PagesAreListing
BY ReportsTypeCorrect, PagesFromTypes, PTL
-----------------------------------------------------------------------------
(* The numbers up to n are finitely many. *)
LEMMA UpToFinite ==
  ASSUME NEW n \in Nat
  PROVE  IsFiniteSet(1 .. n)
BY FS_Interval

(* The entries of a book are finitely many, each of an account, of a day and
   of an amount. *)
LEMMA EntryType ==
  ASSUME ReportsTypes
  PROVE  /\ IsFiniteSet(Entries)
         /\ \A e \in Entries :
              /\ e[1] \in 1 .. Len(journals)
              /\ e[2] \in 1 .. Len(journals[e[1]].lines)
              /\ e = <<e[1], e[2]>>
              /\ Amount(e) \in Int /\ Account(e) \in Accounts /\ Day(e) \in Days
<1> DEFINE N == Len(journals)
           M(i) == Len(journals[i].lines)
           Of == [i \in 1 .. N |-> {<<i, n>> : n \in 1 .. M(i)}]
<1>1. N \in Nat /\ \A i \in 1 .. N : M(i) \in Nat
  BY JournalType
<1>2. ASSUME NEW i \in 1 .. N
      PROVE  IsFiniteSet(Of[i])
  <2> DEFINE F == [n \in 1 .. M(i) |-> <<i, n>>]
  <2>1. M(i) \in Nat
    BY <1>1
  <2> HIDE DEF M
  <2>a. IsFiniteSet(1 .. M(i))
    BY <2>1, UpToFinite
  <2>2. IsFiniteSet({F[n] : n \in 1 .. M(i)})
    BY <2>a, ImageFinite
  <2>3. {F[n] : n \in 1 .. M(i)} = Of[i]
    OBVIOUS
  <2> QED  BY <2>2, <2>3
<1>3. Entries = UNION {Of[i] : i \in 1 .. N}
  BY DEF Entries
<1> HIDE DEF Of, N
<1>4. IsFiniteSet({Of[i] : i \in 1 .. N})
  <2>1. IsFiniteSet(1 .. N)
    BY <1>1, UpToFinite
  <2> QED  BY <2>1, ImageFinite
<1>5. IsFiniteSet(Entries)
  BY <1>2, <1>3, <1>4, FS_UNION
<1>6. ASSUME NEW e \in Entries
      PROVE  /\ e[1] \in 1 .. Len(journals)
             /\ e[2] \in 1 .. Len(journals[e[1]].lines)
             /\ e = <<e[1], e[2]>>
             /\ Amount(e) \in Int /\ Account(e) \in Accounts /\ Day(e) \in Days
  <2>1. PICK i \in 1 .. N : \E n \in 1 .. M(i) : e = <<i, n>>
    BY DEF Entries, N
  <2>2. PICK n \in 1 .. M(i) : e = <<i, n>>
    BY <2>1
  <2>3. journals[i].lines \in Seq(Lines) /\ journals[i].day \in Days
    BY JournalType DEF N
  <2>4. journals[i].lines[n] \in Lines
    BY <2>3
  <2>5. e[1] = i /\ e[2] = n
    BY <2>2
  <2> QED  BY <2>2, <2>3, <2>4, <2>5 DEF N, Amount, Account, Day, Lines
<1> QED  BY <1>5, <1>6

\* The amounts of the entries, as summands.
amounts == [e \in Entries |-> Amount(e)]

(* Amounts are summands of the entries. *)
LEMMA AmountsType ==
  ASSUME ReportsTypes, NEW rows \in SUBSET Entries
  PROVE  /\ IsFiniteSet(rows)
         /\ IntOn(amounts, rows)
         /\ SumOver(amounts, rows) \in Int
<1>1. IsFiniteSet(rows)
  BY EntryType, FS_Subset
<1>2. IntOn(amounts, rows)
  BY EntryType DEF IntOn, amounts
<1> QED  BY <1>1, <1>2, SumType

(* A table with the right entries ends in the right sum. *)
LEMMA SumOfTable ==
  ASSUME NEW S, IsFiniteSet(S), NEW f, NEW c, c = [s \in SUBSET S |-> c[s]],
         \A s \in SUBSET S : c[s] = IF s = {} THEN 0 ELSE f[Pick(s)] + c[s \ {Pick(s)}]
  PROVE  c[S] = SumOver(f, S)
<1>1. Sums(f, S, c)
  BY DEF Sums
<1>2. PICK g : Sums(f, S, g) /\ SumOver(f, S) = g[S]
  BY SumIsLast
<1>3. \A s \in SUBSET (S \cap S) : g[s] = c[s]
  BY <1>1, <1>2, SumsAgree
<1> QED  BY <1>2, <1>3

(* SUM(e.amount) over rows. *)
LEMMA SumOfIs ==
  ASSUME ReportsTypes, NEW rows \in SUBSET Entries
  PROVE  SumOf(rows) = SumOver(amounts, rows)
<1> DEFINE P(g) == g = [s \in SUBSET rows |->
                          IF s = {} THEN 0
                          ELSE Amount(CHOOSE x \in s : TRUE) + g[s \ {CHOOSE x \in s : TRUE}]]
           c == CHOOSE g : P(g)
<1>1. IsFiniteSet(rows)
  BY AmountsType
<1>2. \A s \in SUBSET rows : s # {} =>
        /\ Pick(s) = CHOOSE x \in s : TRUE
        /\ amounts[Pick(s)] = Amount(CHOOSE x \in s : TRUE)
  BY DEF Pick, amounts
<1>3. PICK g : Sums(amounts, rows, g)
  BY <1>1, SumsExist
<1>4. P(g)
  BY <1>2, <1>3 DEF Sums
<1>5. P(c)
  BY <1>4, Zenon
<1>6. SumOf(rows) = c[rows]
  BY Zenon DEF SumOf, MapThenSumSet, MapThenFoldSet
<1> HIDE DEF c
<1>7. /\ c = [s \in SUBSET rows |-> c[s]]
      /\ \A s \in SUBSET rows :
           c[s] = IF s = {} THEN 0 ELSE amounts[Pick(s)] + c[s \ {Pick(s)}]
  BY <1>2, <1>5
<1>8. c[rows] = SumOver(amounts, rows)
  BY <1>1, <1>7, SumOfTable
<1> QED  BY <1>6, <1>8
-----------------------------------------------------------------------------
\* The rows that count as income, and as expenses, of a range.
Earned(from, to) == {e \in Between(from, to) : TypeOf(e) = "income" /\ Amount(e) < 0}
Paid(from, to)   == {e \in Between(from, to) : TypeOf(e) = "expense" /\ Amount(e) > 0}

(* The periods of a report are finitely many. *)
LEMMA PeriodsFinite ==
  ASSUME ReportsTypes, NEW from, NEW to
  PROVE  IsFiniteSet(Periods(from, to))
<1> DEFINE F == [e \in Between(from, to) |-> Month[Day(e)]]
<1>1. Between(from, to) \in SUBSET Entries
  BY DEF Between
<1>2. IsFiniteSet(Between(from, to))
  BY <1>1, AmountsType
<1>3. IsFiniteSet({F[e] : e \in Between(from, to)})
  BY <1>2, ImageFinite
<1>4. Periods(from, to) = {F[e] : e \in Between(from, to)}
  BY DEF Periods
<1> QED  BY <1>3, <1>4

(* Rows of a range summed period by period. *)
LEMMA SumByPeriod ==
  ASSUME ReportsTypes, NEW from, NEW to, NEW rows \in SUBSET Between(from, to), NEW g,
         \A m \in Periods(from, to) :
           g[m] = SumOver(amounts, {e \in rows : Month[Day(e)] = m})
  PROVE  SumOver(g, Periods(from, to)) = SumOver(amounts, rows)
<1> DEFINE month == [e \in Entries |-> Month[Day(e)]]
           K == Periods(from, to)
<1>1. rows \in SUBSET Entries
  BY DEF Between
<1>2. IsFiniteSet(rows) /\ IntOn(amounts, rows) /\ IsFiniteSet(K)
  BY <1>1, AmountsType, PeriodsFinite
<1>3. \A e \in rows : month[e] = Month[Day(e)] /\ month[e] \in K
  BY <1>1 DEF Periods
<1>4. \A m \in K : {e \in rows : Month[Day(e)] = m} = {e \in rows : month[e] = m}
  BY <1>3
<1> HIDE DEF month, K
<1>5. Groups(g, K, amounts, rows, month)
  BY <1>3, <1>4 DEF K, Groups
<1>6. SumOver(g, K) = SumOver(amounts, rows)
  BY <1>2, <1>5, SumByGroup
<1> QED  BY <1>6 DEF K

(* totalIncome, over the periods of a report. *)
LEMMA IncomeIs ==
  ASSUME ReportsTypes, NEW from, NEW to
  PROVE  MapThenSumSet(LAMBDA m : Income(from, to, m), Periods(from, to))
           = -SumOver(amounts, Earned(from, to))
<1> DEFINE K == Periods(from, to)
           income == [m \in K |-> Income(from, to, m)]
           groups == [m \in K |-> SumOver(amounts, {e \in Earned(from, to) : Month[Day(e)] = m})]
           P(g) == g = [s \in SUBSET K |->
                          IF s = {} THEN 0
                          ELSE Income(from, to, CHOOSE x \in s : TRUE)
                                 + g[s \ {CHOOSE x \in s : TRUE}]]
           c == CHOOSE g : P(g)
<1>1. IsFiniteSet(K)
  BY PeriodsFinite
<1>2. \A s \in SUBSET K : s # {} =>
        /\ Pick(s) = CHOOSE x \in s : TRUE
        /\ income[Pick(s)] = Income(from, to, CHOOSE x \in s : TRUE)
  BY DEF Pick
<1>3. PICK g : Sums(income, K, g)
  BY <1>1, SumsExist
<1>4. P(g)
  BY <1>2, <1>3 DEF Sums
<1>5. P(c)
  BY <1>4, Zenon
<1>6. MapThenSumSet(LAMBDA m : Income(from, to, m), K) = c[K]
  BY Zenon DEF MapThenSumSet, MapThenFoldSet
<1> HIDE DEF c
<1>7. /\ c = [s \in SUBSET K |-> c[s]]
      /\ \A s \in SUBSET K : c[s] = IF s = {} THEN 0 ELSE income[Pick(s)] + c[s \ {Pick(s)}]
  BY <1>2, <1>5
<1>8. c[K] = SumOver(income, K)
  BY <1>1, <1>7, SumOfTable
<1>9. Earned(from, to) \in SUBSET Between(from, to) /\ Between(from, to) \in SUBSET Entries
  BY DEF Earned, Between
<1>10. SumOver(groups, K) = SumOver(amounts, Earned(from, to))
  BY <1>9, SumByPeriod
<1>11. \A m \in K : groups[m] \in Int /\ income[m] = -groups[m]
  <2> SUFFICES ASSUME NEW m \in K
               PROVE  groups[m] \in Int /\ income[m] = -groups[m]
    OBVIOUS
  <2> DEFINE rows == {e \in Earned(from, to) : Month[Day(e)] = m}
  <2>1. rows \in SUBSET Entries
    BY <1>9
  <2>2. rows = {e \in InPeriod(from, to, m) : TypeOf(e) = "income" /\ Amount(e) < 0}
    BY DEF Earned, InPeriod
  <2>3. SumOver(amounts, rows) \in Int /\ SumOf(rows) = SumOver(amounts, rows)
    BY <2>1, AmountsType, SumOfIs
  <2>4. groups[m] = SumOver(amounts, rows) /\ income[m] = Income(from, to, m)
    OBVIOUS
  <2> HIDE DEF rows, groups, income
  <2>5. Income(from, to, m) = -SumOf(rows)
    BY <2>2 DEF Income
  <2> QED  BY <2>3, <2>4, <2>5
<1> HIDE DEF groups, income, K
<1>12. PICK minus \in Int : minus = -1
  OBVIOUS
<1>13. IntOn(groups, K) /\ Times(income, minus, groups, K)
  BY <1>11, <1>12 DEF IntOn, Times
<1>14. SumOver(income, K) = minus * SumOver(groups, K)
  BY <1>1, <1>13, SumTimes
<1>15. SumOver(income, K) = -SumOver(amounts, Earned(from, to))
  <2>1. SumOver(amounts, Earned(from, to)) \in Int
    BY <1>9, AmountsType
  <2> QED  BY <2>1, <1>10, <1>12, <1>14
<1> QED  BY <1>6, <1>8, <1>15, Zenon DEF K

(* totalExpenses, over the periods of a report. *)
LEMMA ExpensesAre ==
  ASSUME ReportsTypes, NEW from, NEW to
  PROVE  MapThenSumSet(LAMBDA m : Expenses(from, to, m), Periods(from, to))
           = SumOver(amounts, Paid(from, to))
<1> DEFINE K == Periods(from, to)
           expenses == [m \in K |-> Expenses(from, to, m)]
           P(g) == g = [s \in SUBSET K |->
                          IF s = {} THEN 0
                          ELSE Expenses(from, to, CHOOSE x \in s : TRUE)
                                 + g[s \ {CHOOSE x \in s : TRUE}]]
           c == CHOOSE g : P(g)
<1>1. IsFiniteSet(K)
  BY PeriodsFinite
<1>2. \A s \in SUBSET K : s # {} =>
        /\ Pick(s) = CHOOSE x \in s : TRUE
        /\ expenses[Pick(s)] = Expenses(from, to, CHOOSE x \in s : TRUE)
  BY DEF Pick
<1>3. PICK g : Sums(expenses, K, g)
  BY <1>1, SumsExist
<1>4. P(g)
  BY <1>2, <1>3 DEF Sums
<1>5. P(c)
  BY <1>4, Zenon
<1>6. MapThenSumSet(LAMBDA m : Expenses(from, to, m), K) = c[K]
  BY Zenon DEF MapThenSumSet, MapThenFoldSet
<1> HIDE DEF c
<1>7. /\ c = [s \in SUBSET K |-> c[s]]
      /\ \A s \in SUBSET K : c[s] = IF s = {} THEN 0 ELSE expenses[Pick(s)] + c[s \ {Pick(s)}]
  BY <1>2, <1>5
<1>8. c[K] = SumOver(expenses, K)
  BY <1>1, <1>7, SumOfTable
<1>9. Paid(from, to) \in SUBSET Between(from, to) /\ Between(from, to) \in SUBSET Entries
  BY DEF Paid, Between
<1>10. \A m \in K : expenses[m] = SumOver(amounts, {e \in Paid(from, to) : Month[Day(e)] = m})
  <2> SUFFICES ASSUME NEW m \in K
               PROVE  Expenses(from, to, m)
                        = SumOver(amounts, {e \in Paid(from, to) : Month[Day(e)] = m})
    OBVIOUS
  <2> DEFINE rows == {e \in Paid(from, to) : Month[Day(e)] = m}
  <2>1. rows \in SUBSET Entries
    BY <1>9
  <2>2. rows = {e \in InPeriod(from, to, m) : TypeOf(e) = "expense" /\ Amount(e) > 0}
    BY DEF Paid, InPeriod
  <2>3. SumOf(rows) = SumOver(amounts, rows)
    BY <2>1, SumOfIs
  <2> QED  BY <2>2, <2>3 DEF Expenses
<1> HIDE DEF expenses
<1>11. SumOver(expenses, K) = SumOver(amounts, Paid(from, to))
  BY <1>9, <1>10, SumByPeriod
<1> QED  BY <1>6, <1>8, <1>11

(* Profit and loss, period by period, is that of its rows: the months they
   fall in do not matter. *)
LEMMA TotalNetIs ==
  ASSUME ReportsTypes, NEW from, NEW to
  PROVE  TotalNet(from, to)
           = -SumOver(amounts, Earned(from, to)) - SumOver(amounts, Paid(from, to))
BY IncomeIs, ExpensesAre DEF TotalNet

(* The rows of two adjoining ranges are those of both, none of them twice. *)
LEMMA RangeSplits ==
  ASSUME ReportsTypes, NEW from \in Days, NEW mid \in Days, NEW to \in Days,
         from <= mid, mid < to
  PROVE  TotalNet(from, to) = TotalNet(from, mid) + TotalNet(mid + 1, to)
<1> DEFINE e1 == Earned(from, mid)
           e2 == Earned(mid + 1, to)
           p1 == Paid(from, mid)
           p2 == Paid(mid + 1, to)
<1>1. Days \subseteq Int
  BY DaysAssumption, MonthAssumption DEF Days
<1>2. /\ Between(from, to) = Between(from, mid) \cup Between(mid + 1, to)
      /\ Between(from, mid) \cap Between(mid + 1, to) = {}
  <2>1. \A e \in Entries : Day(e) \in Int
    BY <1>1, EntryType
  <2>2. from \in Int /\ mid \in Int /\ to \in Int
    BY <1>1
  <2> QED  BY <2>1, <2>2 DEF Between
<1>3. /\ Earned(from, to) = e1 \cup e2 /\ e1 \cap e2 = {}
      /\ Paid(from, to) = p1 \cup p2 /\ p1 \cap p2 = {}
  BY <1>2 DEF Earned, Paid
<1>4. /\ e1 \in SUBSET Entries /\ e2 \in SUBSET Entries
      /\ p1 \in SUBSET Entries /\ p2 \in SUBSET Entries
  BY DEF Earned, Paid, Between
<1>5. Entries \in SUBSET Entries
  OBVIOUS
<1>6. IsFiniteSet(Entries) /\ IntOn(amounts, Entries)
  BY <1>5, AmountsType
<1> HIDE DEF e1, e2, p1, p2
<1>7. SumOver(amounts, e1 \cup e2) = SumOver(amounts, e1) + SumOver(amounts, e2)
  BY <1>3, <1>4, <1>6, SumUnion
<1>8. SumOver(amounts, p1 \cup p2) = SumOver(amounts, p1) + SumOver(amounts, p2)
  BY <1>3, <1>4, <1>6, SumUnion
<1>9. /\ SumOver(amounts, e1) \in Int /\ SumOver(amounts, e2) \in Int
      /\ SumOver(amounts, p1) \in Int /\ SumOver(amounts, p2) \in Int
  BY <1>4, AmountsType
<1>10. /\ TotalNet(from, to) = -(SumOver(amounts, e1) + SumOver(amounts, e2))
                                 - (SumOver(amounts, p1) + SumOver(amounts, p2))
       /\ TotalNet(from, mid) = -SumOver(amounts, e1) - SumOver(amounts, p1)
       /\ TotalNet(mid + 1, to) = -SumOver(amounts, e2) - SumOver(amounts, p2)
  BY <1>3, <1>7, <1>8, TotalNetIs DEF e1, e2, p1, p2
<1>11. \A a, b, c, d \in Int : -(a + b) - (c + d) = (-a - c) + (-b - d)
  OBVIOUS
<1> QED  BY <1>9, <1>10, <1>11

(* Whatever was written, and wherever a range is cut, within a month or
   between months, the reports over its two parts add up to the report over
   the whole (ReportRepo.GetProfitAndLoss). *)
THEOREM ReportsAddUpAlways == Spec => []ReportsAddUp
<1>1. ReportsTypes => ReportsAddUp
  BY RangeSplits DEF ReportsAddUp
<1> QED  BY ReportsTypeCorrect, <1>1, PTL
-----------------------------------------------------------------------------
(* The first and the last day of a month. *)
LEMMA FirstAndLast ==
  ASSUME NEW D \in SUBSET Days, D # {}
  PROVE  /\ Min(D) \in D /\ \A d \in D : Min(D) <= d
         /\ Max(D) \in D /\ \A d \in D : d <= Max(D)
<1>1. MaxDay \in Nat /\ \A d \in D : d \in Nat /\ d <= MaxDay
  BY DaysAssumption, MonthAssumption DEF Days
<1>2. \E x \in D : \A y \in D : x <= y
  BY <1>1, LeastNat
<1>3. \E x \in D : \A y \in D : x >= y
  <2> DEFINE T == {MaxDay - d : d \in D}
  <2>1. T \in SUBSET Nat /\ T # {}
    BY <1>1
  <2>2. PICK t \in T : \A k \in T : t <= k
    BY <2>1, LeastNat
  <2>3. PICK x \in D : t = MaxDay - x
    BY <2>2
  <2>4. \A y \in D : MaxDay - x <= MaxDay - y
    BY <2>2, <2>3
  <2> QED  BY <1>1, <2>4
<1>4. Min(D) \in D /\ \A y \in D : Min(D) <= y
  BY <1>2 DEF Min
<1>5. Max(D) \in D /\ \A y \in D : Max(D) >= y
  BY <1>3 DEF Max
<1> QED  BY <1>1, <1>4, <1>5

(* An entry is dated in a month just if it is dated between its first and its
   last day: the budget and the breakdown of a month have the same rows. *)
LEMMA BreakdownFromTypes ==
  ASSUME ReportsTypes
  PROVE  BreakdownMatchesBudget
<1> SUFFICES ASSUME NEW c \in Categories, NEW d0 \in Days
             PROVE  LET within == {d \in Days : Month[d] = Month[d0]}
                    IN  CategoryTotal(c, Min(within), Max(within)) = Spent(c, Month[d0])
  BY DEF BreakdownMatchesBudget
<1> DEFINE m == Month[d0]
           D == {d \in Days : Month[d] = m}
<1>1. D \in SUBSET Days /\ d0 \in D
  OBVIOUS
<1>2. /\ Min(D) \in D /\ \A d \in D : Min(D) <= d
      /\ Max(D) \in D /\ \A d \in D : d <= Max(D)
  BY <1>1, FirstAndLast
<1>3. \A d \in Days : Month[d] = m <=> Min(D) <= d /\ d <= Max(D)
  <2>1. ASSUME NEW d \in Days, Min(D) <= d, d <= Max(D)
        PROVE  Month[d] = m
    <3>1. /\ Month[Min(D)] = m /\ Month[Max(D)] = m
          /\ Min(D) \in Days /\ Max(D) \in Days
      BY <1>2
    <3> HIDE DEF D
    <3>2. Month[Min(D)] <= Month[d] /\ Month[d] <= Month[Max(D)]
      BY <2>1, <3>1, DaysAssumption, MonthAssumption DEF Days
    <3>3. Month[d] \in Int /\ m \in Int
      BY DaysAssumption, MonthAssumption DEF Days
    <3> QED  BY <3>1, <3>2, <3>3
  <2>2. \A d \in Days : Month[d] = m => d \in D
    OBVIOUS
  <2> HIDE DEF D, m
  <2> QED  BY <1>2, <2>1, <2>2
<1> HIDE DEF D, m
<1>4. {e \in Entries : /\ Category(e) = c /\ Poster(e) = User /\ Amount(e) > 0
                       /\ Min(D) <= Day(e) /\ Day(e) <= Max(D)}
        = {e \in Entries : /\ Category(e) = c /\ Poster(e) = User /\ Amount(e) > 0
                           /\ Month[Day(e)] = m}
  BY <1>3, EntryType
<1>5. CategoryTotal(c, Min(D), Max(D)) = Spent(c, m)
  BY <1>4 DEF CategoryTotal, Spent
<1> QED  BY <1>5 DEF D, m

(* Over a whole month, however many entries there are and however long the
   month, the breakdown shows of a category what its budget has spent
   (ReportRepo.GetCategoryBreakdown, BudgetRepo.ListWithProgress). *)
THEOREM BreakdownAndBudgetAgree == Spec => []BreakdownMatchesBudget
BY ReportsTypeCorrect, BreakdownFromTypes, PTL
-----------------------------------------------------------------------------
\* The amounts of the lines of a journal, as summands.
LineAmounts(ls) == [n \in 1 .. Len(ls) |-> ls[n].amount]

(* SumAmounts, which adds line by line, is the sum over the lines. *)
LEMMA SumAmountsIs ==
  ASSUME NEW ls \in Seq(Lines)
  PROVE  /\ IntOn(LineAmounts(ls), 1 .. Len(ls))
         /\ SumAmounts(ls) = SumOver(LineAmounts(ls), 1 .. Len(ls))
<1> DEFINE f == LineAmounts(ls)
           total == [i \in 0 .. Len(ls) |-> SumOver(f, 1 .. i)]
           P(g) == g = [i \in 0 .. Len(ls) |->
                          IF i = 0 THEN 0 ELSE g[i - 1] + ls[i].amount]
           c == CHOOSE g : P(g)
<1>0. PICK N \in Nat : N = Len(ls)
  OBVIOUS
<1>1. \A n \in 1 .. N : f[n] = ls[n].amount /\ ls[n].amount \in Int
  <2>1. \A n \in 1 .. N : ls[n] \in Lines
    BY <1>0
  <2> QED  BY <1>0, <2>1 DEF LineAmounts, Lines
<1>2. IsFiniteSet(1 .. N) /\ IntOn(f, 1 .. N)
  BY <1>1, UpToFinite DEF IntOn
<1> HIDE DEF f
<1>3. ASSUME NEW i \in 0 .. N
      PROVE  SumOver(f, 1 .. i) = IF i = 0 THEN 0 ELSE SumOver(f, 1 .. (i - 1)) + ls[i].amount
  <2>1. CASE i = 0
    <3>1. 1 .. i = {}
      BY <2>1
    <3> QED  BY <2>1, <3>1, SumEmpty
  <2>2. CASE i # 0
    <3> DEFINE r == 1 .. (i - 1)
    <3>1. r \in SUBSET (1 .. N) /\ i \in (1 .. N) \ r /\ 1 .. i = r \cup {i}
      BY <2>2
    <3> HIDE DEF r
    <3>2. SumOver(f, r \cup {i}) = f[i] + SumOver(f, r) /\ SumOver(f, r) \in Int
      BY <1>2, <3>1, SumAdd
    <3>3. f[i] = ls[i].amount /\ f[i] \in Int
      BY <1>1, <3>1
    <3>4. SumOver(f, 1 .. i) = SumOver(f, r \cup {i})
      BY <3>1, Zenon
    <3>5. SumOver(f, 1 .. i) = SumOver(f, r) + ls[i].amount
      BY <3>2, <3>3, <3>4
    <3> QED  BY <2>2, <3>5 DEF r
  <2> QED  BY <2>1, <2>2
<1>4. P(total)
  <2>1. \A i \in 0 .. N : total[i] = IF i = 0 THEN 0 ELSE total[i - 1] + ls[i].amount
    BY <1>0, <1>3
  <2>2. total = [i \in 0 .. N |-> total[i]]
    BY <1>0
  <2> HIDE DEF total
  <2> QED  BY <1>0, <2>1, <2>2
<1>5. P(c)
  BY <1>4, Zenon
<1>6. SumAmounts(ls) = c[Len(ls)]
  BY Zenon DEF SumAmounts
<1> HIDE DEF c
<1>7. \A i \in 0 .. N : c[i] = IF i = 0 THEN 0 ELSE c[i - 1] + ls[i].amount
  BY <1>0, <1>5
<1> DEFINE T == {i \in Nat : i <= N /\ c[i] # SumOver(f, 1 .. i)}
<1>8. T = {}
  <2> SUFFICES ASSUME T # {} PROVE FALSE
    OBVIOUS
  <2>1. PICK k \in T : \A j \in T : k <= j
    BY LeastNat
  <2>2. k \in 0 .. N /\ k # 0
    BY <1>0, <1>3, <1>7, <2>1
  <2>3. k - 1 \in Nat /\ k - 1 <= N /\ k - 1 \notin T
    BY <1>0, <2>1, <2>2
  <2>4. c[k - 1] = SumOver(f, 1 .. (k - 1))
    BY <2>3
  <2> QED  BY <1>3, <1>7, <2>1, <2>2, <2>4
<1> QED  BY <1>0, <1>2, <1>6, <1>8 DEF f

(* The sum over one element. *)
LEMMA SumSingle ==
  ASSUME NEW f, NEW x, f[x] \in Int
  PROVE  SumOver(f, {x}) = f[x]
<1> DEFINE D == {x}
           s == {}
<1>1. IsFiniteSet(D) /\ s \in SUBSET D /\ x \in D \ s /\ s \cup {x} = D
  BY FS_Singleton
<1>2. IntOn(f, D)
  BY DEF IntOn
<1>3. SumOver(f, s) = 0
  BY SumEmpty
<1> HIDE DEF D, s
<1>4. SumOver(f, s \cup {x}) = f[x] + SumOver(f, s)
  BY <1>1, <1>2, SumAdd
<1>5. SumOver(f, D) = f[x]
  BY <1>1, <1>3, <1>4
<1> QED  BY <1>5 DEF D
-----------------------------------------------------------------------------
\* Debits equal credits in every journal.
NetsZero == \A i \in 1 .. Len(journals) : SumAmounts(journals[i].lines) = 0

\* A reversal mirrors a journal of the same user that is none.
Mirrors ==
  \A k \in 1 .. Len(journals) :
    journals[k].of # NULL =>
      /\ journals[k].of \in 1 .. Len(journals)
      /\ journals[journals[k].of].of = NULL
      /\ journals[k].user = journals[journals[k].of].user
      /\ journals[k].lines = Negate(journals[journals[k].of].lines)

(* Inductive: a journal is only ever added, with lines that balance, and a
   reversal takes the lines of a journal already there. *)
BookInv == ReportsTypes /\ NetsZero /\ Mirrors

(* Flipping the signs of lines that add up to zero leaves zero. *)
LEMMA NegateZero ==
  ASSUME NEW ls \in Seq(Lines), SumAmounts(ls) = 0
  PROVE  SumAmounts(Negate(ls)) = 0
<1> DEFINE f == LineAmounts(ls)
           h == LineAmounts(Negate(ls))
           S == 1 .. Len(ls)
<1>1. /\ Negate(ls) \in Seq(Lines) /\ Len(Negate(ls)) = Len(ls)
      /\ \A n \in S : Negate(ls)[n].amount = -ls[n].amount
  BY NegateType
<1>2. IntOn(f, S) /\ SumOver(f, S) = 0
  BY SumAmountsIs
<1>3. SumAmounts(Negate(ls)) = SumOver(h, S)
  BY <1>1, SumAmountsIs
<1>4. PICK minus \in Int : minus = -1
  OBVIOUS
<1>5. Times(h, minus, f, S)
  <2>1. \A n \in S : h[n] = -f[n] /\ f[n] \in Int
    BY <1>1, <1>2 DEF LineAmounts, IntOn
  <2> HIDE DEF f, h, S
  <2> QED  BY <1>4, <2>1 DEF Times
<1>6. Len(ls) \in Nat
  OBVIOUS
<1>7. IsFiniteSet(S)
  BY <1>6, UpToFinite
<1> HIDE DEF f, h, S
<1>8. SumOver(h, S) = minus * SumOver(f, S)
  BY <1>2, <1>5, <1>7, SumTimes
<1> QED  BY <1>2, <1>3, <1>4, <1>8

(* A journal more: those before it stay. *)
LEMMA AppendKeeps ==
  ASSUME ReportsTypes, NEW j \in Journal, NEW i \in 1 .. Len(journals)
  PROVE  Append(journals, j)[i] = journals[i]
BY DEF ReportsTypes

(* A journal more: the last one. *)
LEMMA AppendLast ==
  ASSUME ReportsTypes, NEW j \in Journal
  PROVE  /\ Len(journals) \in Nat
         /\ Len(Append(journals, j)) = Len(journals) + 1
         /\ Append(journals, j)[Len(journals) + 1] = j
BY DEF ReportsTypes

(* Journals balance, and reversals mirror: posting checks the sum, reversing
   flips the signs of a journal that has none of its own. *)
THEOREM BookInvariant == Spec => []BookInv
<1>1. Init => NetsZero /\ Mirrors
  <2> SUFFICES ASSUME Init PROVE NetsZero /\ Mirrors
    OBVIOUS
  <2>1. Len(journals) = 0 /\ \A i : i \notin 1 .. 0
    BY DEF Init
  <2> QED  BY <2>1 DEF NetsZero, Mirrors
<1>2. ASSUME ReportsTypes, NetsZero, Mirrors, Next
      PROVE  NetsZero' /\ Mirrors'
  <2>1. CASE journals' = journals
    BY <1>2, <2>1 DEF NetsZero, Mirrors
  <2>2. CASE \E j \in Journal :
               /\ journals' = Append(journals, j)
               /\ \/ j.of = NULL /\ SumAmounts(j.lines) = 0
                  \/ /\ j.of \in 1 .. Len(journals)
                     /\ journals[j.of].of = NULL
                     /\ j.user = journals[j.of].user
                     /\ j.lines = Negate(journals[j.of].lines)
    <3>1. PICK j \in Journal :
               /\ journals' = Append(journals, j)
               /\ \/ j.of = NULL /\ SumAmounts(j.lines) = 0
                  \/ /\ j.of \in 1 .. Len(journals)
                     /\ journals[j.of].of = NULL
                     /\ j.user = journals[j.of].user
                     /\ j.lines = Negate(journals[j.of].lines)
      BY <2>2
    <3>2. PICK N \in Nat : N = Len(journals)
      BY <1>2, AppendLast
    <3>3. Len(journals') = N + 1 /\ journals'[N + 1] = j
      BY <1>2, <3>1, <3>2, AppendLast
    <3>4. \A i \in 1 .. N : journals'[i] = journals[i]
      BY <1>2, <3>1, <3>2, AppendKeeps
    <3>5. \A i \in 1 .. (N + 1) : i \in 1 .. N \/ i = N + 1
      OBVIOUS
    <3>6. SumAmounts(j.lines) = 0
      <4>1. CASE j.of = NULL
        BY <1>2, <3>1, <3>2, <4>1, NullAssumption
      <4>2. CASE j.of # NULL
        <5>1. j.of \in 1 .. Len(journals) /\ j.lines = Negate(journals[j.of].lines)
          BY <3>1, <4>2
        <5>2. journals[j.of].lines \in Seq(Lines) /\ SumAmounts(journals[j.of].lines) = 0
          BY <1>2, <5>1, JournalType DEF NetsZero
        <5> QED  BY <5>1, <5>2, NegateZero
      <4> QED  BY <4>1, <4>2
    <3>7. NetsZero'
      BY <1>2, <3>2, <3>3, <3>4, <3>5, <3>6 DEF NetsZero
    <3>8. Mirrors'
      <4> SUFFICES ASSUME NEW k \in 1 .. (N + 1), journals'[k].of # NULL
                   PROVE  /\ journals'[k].of \in 1 .. (N + 1)
                          /\ journals'[journals'[k].of].of = NULL
                          /\ journals'[k].user = journals'[journals'[k].of].user
                          /\ journals'[k].lines = Negate(journals'[journals'[k].of].lines)
        BY <3>3 DEF Mirrors
      <4>1. CASE k \in 1 .. N
        <5>1. journals'[k] = journals[k]
          BY <3>4, <4>1
        <5>2. /\ journals[k].of \in 1 .. N
              /\ journals[journals[k].of].of = NULL
              /\ journals[k].user = journals[journals[k].of].user
              /\ journals[k].lines = Negate(journals[journals[k].of].lines)
          BY <1>2, <3>2, <4>1, <5>1 DEF Mirrors
        <5>3. journals'[journals[k].of] = journals[journals[k].of]
          BY <3>4, <5>2
        <5>4. journals[k].of \in 1 .. (N + 1)
          BY <5>2
        <5> QED  BY <5>1, <5>2, <5>3, <5>4
      <4>2. CASE k = N + 1
        <5>1. journals'[k] = j
          BY <3>3, <4>2
        <5>2. /\ j.of \in 1 .. N
              /\ journals[j.of].of = NULL
              /\ j.user = journals[j.of].user
              /\ j.lines = Negate(journals[j.of].lines)
          BY <3>1, <3>2, <5>1
        <5>3. journals'[j.of] = journals[j.of]
          BY <3>4, <5>2
        <5>4. j.of \in 1 .. (N + 1)
          BY <5>2
        <5> QED  BY <5>1, <5>2, <5>3, <5>4
      <4> QED  BY <3>5, <4>1, <4>2
    <3> QED  BY <3>7, <3>8
  <2> QED  BY <1>2, <2>1, <2>2, StepCases
<1>3. NetsZero /\ Mirrors /\ UNCHANGED vars => NetsZero' /\ Mirrors'
  BY DEF vars, NetsZero, Mirrors
<1>4. ReportsTypes /\ NetsZero /\ Mirrors /\ [Next]_vars => NetsZero' /\ Mirrors'
  BY <1>2, <1>3
<1> QED  BY ReportsTypeCorrect, <1>1, <1>4, PTL DEF Spec, BookInv
-----------------------------------------------------------------------------
(* The journals as a book in the sense of Book, each under its place in the
   sequence. *)
Journaled(i) == IF i <= Len(journals)
                THEN [user |-> journals[i].user, of |-> journals[i].of,
                      lines |-> journals[i].lines]
                ELSE NULL

bookMap == [i \in 1 .. MaxJournals |-> Journaled(i)]

B == INSTANCE Book WITH Ids <- 1 .. MaxJournals,
                        book <- [i \in 1 .. MaxJournals |-> Journaled(i)]

(* Book's lines are those of Reports. *)
LEMMA SameLines ==
  /\ B!Lines = Lines
  /\ \A ls : B!Negate(ls) = Negate(ls)
  /\ \A ls : B!IsBalanced(ls) <=> IsBalanced(ls)
BY Zenon DEF B!Lines, Lines, B!Negate, Negate, B!IsBalanced, IsBalanced, B!SumAmounts, SumAmounts

(* A journal that is written is added to the book, under the next place. *)
LEMMA WriteAdds ==
  ASSUME ReportsTypes, NEW j \in Journal, j.of \in 1 .. MaxJournals \cup {NULL}, Write(j)
  PROVE  LET id == Len(journals) + 1
         IN  /\ id \in 1 .. MaxJournals
             /\ B!Add(id)
             /\ bookMap'[id] = [user |-> j.user, of |-> j.of, lines |-> j.lines]
             /\ \A i \in 1 .. Len(journals) :
                  /\ i \in 1 .. MaxJournals
                  /\ bookMap[i] = [user |-> journals[i].user, of |-> journals[i].of,
                                   lines |-> journals[i].lines]
                  /\ bookMap[i] # NULL
<1>1. PICK N \in Nat : N = Len(journals)
  BY AppendLast
<1>2. journals' = Append(journals, j) /\ N < MaxJournals
  BY <1>1 DEF Write
<1>3. Len(journals') = N + 1 /\ journals'[N + 1] = j
  BY <1>1, <1>2, AppendLast
<1>4. \A i \in 1 .. N : journals'[i] = journals[i]
  BY <1>1, <1>2, AppendKeeps
<1> DEFINE id == N + 1
           new == [user |-> j.user, of |-> j.of, lines |-> j.lines]
<1>5. id \in 1 .. MaxJournals /\ \A i \in 1 .. N : i \in 1 .. MaxJournals
  BY <1>2, JournalsAssumption
<1>6. Journaled(id) = NULL /\ Journaled(id)' = new
  BY <1>1, <1>3 DEF Journaled
<1>7. \A i \in 1 .. MaxJournals : i # id => Journaled(i)' = Journaled(i)
  <2> SUFFICES ASSUME NEW i \in 1 .. MaxJournals, i # id
               PROVE  Journaled(i)' = Journaled(i)
    OBVIOUS
  <2>1. CASE i <= N
    <3>1. i \in 1 .. N
      BY <2>1, JournalsAssumption
    <3> QED  BY <1>1, <1>3, <1>4, <3>1 DEF Journaled
  <2>2. CASE ~ (i <= N)
    <3>1. ~ (i <= N + 1)
      BY <2>2, JournalsAssumption
    <3> QED  BY <1>1, <1>3, <2>2, <3>1 DEF Journaled
  <2> QED  BY <2>1, <2>2
<1>8. new \in B!Journals
  <2>1. j.lines \in Seq(Lines) /\ j.user \in Users
    BY DEF Journal
  <2> QED  BY <2>1, SameLines DEF B!Journals
<1> HIDE DEF new
<1>9. bookMap[id] = NULL /\ bookMap'[id] = new
  BY <1>5, <1>6 DEF bookMap
<1>10. bookMap' = [bookMap EXCEPT ![id] = bookMap'[id]]
  BY <1>5, <1>6, <1>7, <1>9 DEF bookMap
<1>11. B!Add(id)
  BY <1>8, <1>9, <1>10 DEF B!Add, bookMap
<1>12. ASSUME NEW i \in 1 .. N
       PROVE  /\ bookMap[i] = [user |-> journals[i].user, of |-> journals[i].of,
                               lines |-> journals[i].lines]
              /\ bookMap[i] # NULL
  <2>1. bookMap[i] = [user |-> journals[i].user, of |-> journals[i].of,
                      lines |-> journals[i].lines]
    BY <1>1, <1>5, <1>12 DEF bookMap, Journaled
  <2>2. /\ journals[i].of \in Nat \cup {NULL} /\ journals[i].lines \in Seq(Lines)
        /\ journals[i].user \in Users
    BY <1>1, JournalType
  <2> QED  BY <2>1, <2>2, NoJournalAssumption
<1> QED  BY <1>1, <1>5, <1>9, <1>11, <1>12 DEF new

(* The journals behave as the book that Ledger implements: what Reports adds
   up are the books a ledger keeps (Book: journals are only added, balanced
   ones and mirrors of them). *)
THEOREM ReportsFollowBook == Spec => B!Spec
<1>1. Init => B!Init
  <2> SUFFICES ASSUME Init PROVE B!Init
    OBVIOUS
  <2>1. \A i \in 1 .. MaxJournals : ~ (i <= Len(journals))
    BY JournalsAssumption DEF Init
  <2> QED  BY <2>1 DEF B!Init, Journaled
<1>2. ASSUME ReportsTypes, [Next]_vars
      PROVE  [B!Next]_bookMap
  <2>1. CASE journals' = journals
    BY <2>1 DEF bookMap, Journaled
  <2>2. ASSUME NEW u \in Users, NEW ls \in EntryLists, NEW d \in Days,
               NEW c \in Categories \cup {NULL}, Post(u, ls, d, c)
        PROVE  B!Next
    <3> DEFINE j == [user |-> u, day |-> d, category |-> c, of |-> NULL, lines |-> ls]
               id == Len(journals) + 1
    <3>1. j \in Journal /\ j.of = NULL /\ j.lines = ls
      BY EntriesAssumption DEF Journal
    <3>2. Write(j) /\ IsBalanced(ls)
      BY <2>2 DEF Post
    <3> HIDE DEF j
    <3>3. /\ id \in 1 .. MaxJournals /\ B!Add(id)
          /\ bookMap'[id] = [user |-> j.user, of |-> NULL, lines |-> ls]
      BY <1>2, <3>1, <3>2, WriteAdds
    <3>4. B!Post(id)
      BY <3>2, <3>3, SameLines DEF B!Post, bookMap
    <3> QED  BY <3>3, <3>4 DEF B!Next
  <2>3. ASSUME NEW i \in 1 .. Len(journals), Void(i)
        PROVE  B!Next
    <3> DEFINE j == [journals[i] EXCEPT !.day = today, !.of = i, !.lines = Negate(@)]
               id == Len(journals) + 1
    <3>1. /\ j \in Journal /\ j.of = i /\ j.lines = Negate(journals[i].lines)
          /\ j.user = journals[i].user
      BY <1>2, ReverseWrites
    <3>2. Write(j) /\ journals[i].of = NULL
      BY <2>3 DEF Void
    <3> HIDE DEF j
    <3>3. i \in 1 .. MaxJournals
      <4>1. Len(journals) \in Nat /\ Len(journals) < MaxJournals
        BY <1>2, <3>2, JournalType DEF Write
      <4> QED  BY <4>1, JournalsAssumption
    <3>4. /\ id \in 1 .. MaxJournals /\ B!Add(id)
          /\ bookMap'[id] = [user |-> journals[i].user, of |-> i,
                             lines |-> Negate(journals[i].lines)]
          /\ bookMap[i] = [user |-> journals[i].user, of |-> NULL, lines |-> journals[i].lines]
          /\ bookMap[i] # NULL
      BY <1>2, <3>1, <3>2, <3>3, WriteAdds
    <3>5. B!Reverse(id, i)
      BY <3>4, SameLines DEF B!Reverse, bookMap
    <3> QED  BY <3>3, <3>4, <3>5 DEF B!Next
  <2>4. CASE Tick \/ UNCHANGED vars
    BY <2>1, <2>4 DEF Tick, vars
  <2> QED  BY <1>2, <2>2, <2>3, <2>4 DEF Next
<1> QED  BY <1>1, <1>2, ReportsTypeCorrect, PTL DEF Spec, B!Spec, bookMap
-----------------------------------------------------------------------------
(* The sum over lines of a journal is the sum over its entries. *)
LEMMA RowsOfJournal ==
  ASSUME ReportsTypes, NEW i \in 1 .. Len(journals),
         NEW ns \in SUBSET (1 .. Len(journals[i].lines))
  PROVE  SumOver(LineAmounts(journals[i].lines), ns) = SumOver(amounts, {<<i, n>> : n \in ns})
<1> DEFINE f == LineAmounts(journals[i].lines)
           rows == {<<i, n>> : n \in ns}
           line == [e \in Entries |-> e[2]]
<1>1. rows \in SUBSET Entries
  <2>1. ASSUME NEW n \in ns PROVE <<i, n>> \in Entries
    <3>1. <<i, n>> \in {<<i, k>> : k \in 1 .. Len(journals[i].lines)}
      OBVIOUS
    <3> QED  BY <3>1 DEF Entries
  <2> QED  BY <2>1
<1>2. \A n \in ns : /\ <<i, n>> \in rows /\ f[n] = amounts[<<i, n>>] /\ f[n] \in Int
                    /\ {e \in rows : line[e] = n} = {<<i, n>>}
  <2> SUFFICES ASSUME NEW n \in ns
               PROVE  /\ <<i, n>> \in rows /\ f[n] = amounts[<<i, n>>] /\ f[n] \in Int
                      /\ {e \in rows : line[e] = n} = {<<i, n>>}
    OBVIOUS
  <2>1. <<i, n>> \in rows /\ <<i, n>> \in Entries
    BY <1>1
  <2>2. f[n] = journals[i].lines[n].amount
    BY DEF LineAmounts
  <2>3. amounts[<<i, n>>] = journals[i].lines[n].amount /\ Amount(<<i, n>>) \in Int
    BY <2>1, EntryType DEF amounts, Amount
  <2>4. Amount(<<i, n>>) = journals[i].lines[n].amount
    BY DEF Amount
  <2>5. \A e \in rows : line[e] = e[2]
    BY <1>1
  <2>6. {e \in rows : line[e] = n} = {<<i, n>>}
    BY <2>1, <2>5
  <2> QED  BY <2>1, <2>2, <2>3, <2>4, <2>6
<1>3. IsFiniteSet(rows) /\ IntOn(amounts, rows)
  BY <1>1, AmountsType
<1>4. IsFiniteSet(ns)
  <2>1. IsFiniteSet(1 .. Len(journals[i].lines))
    BY JournalType, UpToFinite
  <2> QED  BY <2>1, FS_Subset
<1>5. \A e \in rows : line[e] \in ns
  <2>1. \A n \in ns : <<i, n>> \in Entries /\ line[<<i, n>>] = n
    BY <1>1
  <2> QED  BY <2>1
<1> HIDE DEF f, rows, line
<1>6. \A n \in ns : f[n] = SumOver(amounts, {e \in rows : line[e] = n})
  <2> SUFFICES ASSUME NEW n \in ns
               PROVE  f[n] = SumOver(amounts, {e \in rows : line[e] = n})
    OBVIOUS
  <2>1. SumOver(amounts, {<<i, n>>}) = amounts[<<i, n>>]
    BY <1>2, SumSingle
  <2> QED  BY <1>2, <2>1
<1>7. Groups(f, ns, amounts, rows, line)
  BY <1>5, <1>6 DEF Groups
<1>8. SumOver(f, ns) = SumOver(amounts, rows)
  BY <1>3, <1>4, <1>7, SumByGroup
<1> QED  BY <1>8 DEF f, rows

(* The sum over nothing but zeros. *)
LEMMA SumZero ==
  ASSUME NEW S, IsFiniteSet(S), NEW f, \A x \in S : f[x] = 0
  PROVE  SumOver(f, S) = 0
<1>1. SumOver(f, S) = Cardinality(S) * 0
  BY SumOfOne
<1>2. Cardinality(S) \in Nat
  BY FS_CardinalityType
<1> QED  BY <1>1, <1>2

(* The entries of a whole book add up to zero. *)
LEMMA EntriesNet ==
  ASSUME BookInv
  PROVE  SumOver(amounts, Entries) = 0
<1> USE DEF BookInv
<1> DEFINE K == 1 .. Len(journals)
           zero == [i \in K |-> 0]
           of == [e \in Entries |-> e[1]]
<1>1. ASSUME NEW i \in K
      PROVE  SumOver(amounts, {e \in Entries : of[e] = i}) = 0
  <2> DEFINE ls == journals[i].lines
             rows == {<<i, n>> : n \in 1 .. Len(ls)}
  <2>0. /\ rows \subseteq Entries
        /\ \A e \in Entries : e[1] = i => e \in rows
    <3>1. rows \subseteq Entries
      BY DEF Entries
    <3>2. \A e \in Entries : e[1] = i => e \in rows
      BY EntryType
    <3> QED  BY <3>1, <3>2
  <2>1. {e \in Entries : of[e] = i} = rows
    <3>1. \A e \in rows : e[1] = i
      OBVIOUS
    <3> HIDE DEF rows
    <3> QED  BY <2>0, <3>1
  <2>2. SumOver(LineAmounts(ls), 1 .. Len(ls)) = SumOver(amounts, rows)
    BY RowsOfJournal
  <2>3. ls \in Seq(Lines) /\ SumAmounts(ls) = 0
    BY JournalType DEF NetsZero
  <2>4. SumAmounts(ls) = SumOver(LineAmounts(ls), 1 .. Len(ls))
    BY <2>3, SumAmountsIs
  <2> QED  BY <2>1, <2>2, <2>3, <2>4
<1>2. \A e \in Entries : of[e] \in K
  BY EntryType
<1>3. Groups(zero, K, amounts, Entries, of)
  BY <1>1, <1>2 DEF Groups
<1>4. IsFiniteSet(K)
  BY JournalType, UpToFinite
<1>5. \A i \in K : zero[i] = 0
  OBVIOUS
<1>6. Entries \in SUBSET Entries
  OBVIOUS
<1>7. IsFiniteSet(Entries) /\ IntOn(amounts, Entries)
  BY <1>6, AmountsType
<1> HIDE DEF K, zero, of
<1>8. SumOver(zero, K) = SumOver(amounts, Entries)
  BY <1>3, <1>4, <1>7, SumByGroup
<1>9. SumOver(zero, K) = 0
  BY <1>4, <1>5, SumZero
<1> QED  BY <1>8, <1>9

(* Rows left out because they are zero do not count. *)
LEMMA WithoutZeros ==
  ASSUME ReportsTypes, NEW rows \in SUBSET Entries, NEW some \in SUBSET rows,
         \A e \in rows \ some : Amount(e) = 0
  PROVE  SumOver(amounts, rows) = SumOver(amounts, some)
<1> DEFINE rest == rows \ some
<1>1. rest \in SUBSET Entries /\ some \in SUBSET Entries /\ rest \cap some = {}
      /\ rows = some \cup rest
  OBVIOUS
<1>2. \A e \in rest : amounts[e] = 0
  BY DEF amounts
<1>3. Entries \in SUBSET Entries
  OBVIOUS
<1>4. IsFiniteSet(Entries) /\ IntOn(amounts, Entries)
  BY <1>3, AmountsType
<1> HIDE DEF rest
<1>5. IsFiniteSet(rest) /\ SumOver(amounts, some) \in Int
  BY <1>1, AmountsType
<1>6. SumOver(amounts, rest) = 0
  BY <1>2, <1>5, SumZero
<1>7. some \cap rest = {}
  BY <1>1
<1>8. SumOver(amounts, some \cup rest) = SumOver(amounts, some) + SumOver(amounts, rest)
  BY <1>1, <1>4, <1>7, SumUnion
<1>9. SumOver(amounts, rows) = SumOver(amounts, some \cup rest)
  BY <1>1, Zenon
<1> QED  BY <1>5, <1>6, <1>8, <1>9

\* What a balance sheet shows of a set of accounts.
SheetTotal(asOf, T) == MapThenSumSet(LAMBDA a : Sheet(asOf, a), T)

(* The balance sheet of a set of accounts is the sum over their entries,
   whichever date it is asked for. *)
LEMMA SheetsAre ==
  ASSUME ReportsTypes, NEW asOf, NEW T \in SUBSET Accounts
  PROVE  SheetTotal(asOf, T) = SumOver(amounts, {e \in Entries : Account(e) \in T})
<1> DEFINE sheets == [a \in T |-> Sheet(asOf, a)]
           rows == {e \in Entries : Account(e) \in T}
           account == [e \in Entries |-> Account(e)]
           P(g) == g = [s \in SUBSET T |->
                          IF s = {} THEN 0
                          ELSE Sheet(asOf, CHOOSE x \in s : TRUE)
                                 + g[s \ {CHOOSE x \in s : TRUE}]]
           c == CHOOSE g : P(g)
<1>1. IsFiniteSet(T)
  BY AccountsAssumption, FS_Subset
<1>2. \A s \in SUBSET T : s # {} =>
        /\ Pick(s) = CHOOSE x \in s : TRUE
        /\ sheets[Pick(s)] = Sheet(asOf, CHOOSE x \in s : TRUE)
  BY DEF Pick
<1>3. PICK g : Sums(sheets, T, g)
  BY <1>1, SumsExist
<1>4. P(g)
  BY <1>2, <1>3 DEF Sums
<1>5. P(c)
  BY <1>4, Zenon
<1>6. SheetTotal(asOf, T) = c[T]
  BY Zenon DEF SheetTotal, MapThenSumSet, MapThenFoldSet
<1> HIDE DEF c
<1>7. /\ c = [s \in SUBSET T |-> c[s]]
      /\ \A s \in SUBSET T : c[s] = IF s = {} THEN 0 ELSE sheets[Pick(s)] + c[s \ {Pick(s)}]
  BY <1>2, <1>5
<1>8. c[T] = SumOver(sheets, T)
  BY <1>1, <1>7, SumOfTable
<1>9. \A a \in T : sheets[a] = SumOver(amounts, {e \in rows : account[e] = a})
  <2> SUFFICES ASSUME NEW a \in T
               PROVE  Sheet(asOf, a) = SumOver(amounts, {e \in rows : account[e] = a})
    OBVIOUS
  <2> DEFINE joined == {e \in Entries : Account(e) = a}
  <2>1. {e \in rows : account[e] = a} = joined
    OBVIOUS
  <2>2. SumOf(joined) = SumOver(amounts, joined)
    BY SumOfIs
  <2> QED  BY <2>1, <2>2 DEF Sheet
<1>10. \A e \in rows : account[e] \in T
  OBVIOUS
<1>11. rows \in SUBSET Entries
  OBVIOUS
<1> HIDE DEF sheets, rows, account
<1>12. Groups(sheets, T, amounts, rows, account)
  BY <1>9, <1>10 DEF Groups
<1>13. IsFiniteSet(rows) /\ IntOn(amounts, rows)
  BY <1>11, AmountsType
<1>14. SumOver(sheets, T) = SumOver(amounts, rows)
  BY <1>1, <1>12, <1>13, SumByGroup
<1> QED  BY <1>6, <1>8, <1>14, Zenon DEF rows

(* Entries add up to zero, so what is left of the user's income and expenses
   is what the user's other accounts show, and the accounts of others. *)
LEMMA ProfitFromBook ==
  ASSUME BookInv
  PROVE  ProfitIsGain
<1> USE DEF BookInv
<1> SUFFICES ASSUME \A e \in Entries :
                      Account(e) \in Own => /\ TypeOf(e) = "income" => Amount(e) <= 0
                                            /\ TypeOf(e) = "expense" => Amount(e) >= 0,
                    NEW asOf \in Days
             PROVE  TotalNet(1, MaxDay)
                      = MapThenSumSet(LAMBDA a : Sheet(asOf, a),
                          OfType("asset") \cup OfType("liability") \cup OfType("equity"))
                          + SumOf({e \in Entries : Account(e) \notin Own})
  BY DEF ProfitIsGain
<1> DEFINE T == OfType("asset") \cup OfType("liability") \cup OfType("equity")
           gains == {e \in Entries : Account(e) \in T}
           others == {e \in Entries : Account(e) \notin Own}
           income == {e \in Entries : Account(e) \in Own /\ TypeOf(e) = "income"}
           spent == {e \in Entries : Account(e) \in Own /\ TypeOf(e) = "expense"}
           flows == income \cup spent
           rest == gains \cup others
<1>1. T \in SUBSET Accounts
  BY DEF OfType, Own
<1>2. /\ Entries = rest \cup flows /\ rest \cap flows = {} /\ income \cap spent = {}
      /\ gains \cap others = {}
      /\ gains \in SUBSET Entries /\ others \in SUBSET Entries
      /\ income \in SUBSET Entries /\ spent \in SUBSET Entries
  <2>1. \A e \in Entries : Account(e) \in Accounts
    BY EntryType
  <2>2. Own \subseteq Accounts
    BY DEF Own
  <2>3. \A a \in Own : \/ a \in T /\ Type[a] # "income" /\ Type[a] # "expense"
                       \/ a \notin T /\ Type[a] = "income"
                       \/ a \notin T /\ Type[a] = "expense"
    BY <2>2, TypeAssumption DEF OfType
  <2>4. T \subseteq Own
    BY DEF OfType
  <2> HIDE DEF T
  <2> QED  BY <2>1, <2>3, <2>4 DEF TypeOf
<1>a. rest \in SUBSET Entries /\ flows \in SUBSET Entries
  BY <1>2
<1>3. \A e \in Entries : Day(e) \in 1 .. MaxDay /\ MaxDay \in Nat /\ Amount(e) \in Int
  BY EntryType, DaysAssumption, MonthAssumption DEF Days
<1>4. /\ Earned(1, MaxDay) \in SUBSET income
      /\ \A e \in income \ Earned(1, MaxDay) : Amount(e) = 0
  BY <1>3 DEF Earned, Between
<1>5. /\ Paid(1, MaxDay) \in SUBSET spent
      /\ \A e \in spent \ Paid(1, MaxDay) : Amount(e) = 0
  BY <1>3 DEF Paid, Between
<1>6. Entries \in SUBSET Entries
  OBVIOUS
<1>7. IsFiniteSet(Entries) /\ IntOn(amounts, Entries)
  BY <1>6, AmountsType
<1> HIDE DEF gains, others, income, spent, flows, rest, T
<1>8. SumOver(amounts, income) = SumOver(amounts, Earned(1, MaxDay))
  BY <1>2, <1>4, WithoutZeros
<1>9. SumOver(amounts, spent) = SumOver(amounts, Paid(1, MaxDay))
  BY <1>2, <1>5, WithoutZeros
<1>10. SumOver(amounts, rest \cup flows) = SumOver(amounts, rest) + SumOver(amounts, flows)
  BY <1>2, <1>a, <1>7, SumUnion
<1>11. SumOver(amounts, flows) = SumOver(amounts, income) + SumOver(amounts, spent)
  <2>1. SumOver(amounts, income \cup spent) = SumOver(amounts, income) + SumOver(amounts, spent)
    BY <1>2, <1>7, SumUnion
  <2> QED  BY <2>1 DEF flows
<1>b. SumOver(amounts, rest) = SumOver(amounts, gains) + SumOver(amounts, others)
  <2>1. SumOver(amounts, gains \cup others) = SumOver(amounts, gains) + SumOver(amounts, others)
    BY <1>2, <1>7, SumUnion
  <2> QED  BY <2>1 DEF rest
<1>12. SumOver(amounts, rest \cup flows) = 0
  <2>1. SumOver(amounts, Entries) = 0
    BY EntriesNet
  <2> QED  BY <2>1, <1>2, Zenon
<1>13. /\ SumOver(amounts, rest) \in Int /\ SumOver(amounts, income) \in Int
       /\ SumOver(amounts, spent) \in Int
  BY <1>2, <1>a, AmountsType
<1>14. TotalNet(1, MaxDay) = -SumOver(amounts, income) - SumOver(amounts, spent)
  <2>1. TotalNet(1, MaxDay)
          = -SumOver(amounts, Earned(1, MaxDay)) - SumOver(amounts, Paid(1, MaxDay))
    BY TotalNetIs
  <2> QED  BY <2>1, <1>8, <1>9
<1>15. TotalNet(1, MaxDay) = SumOver(amounts, rest)
  <2>1. \A a, b, c \in Int : 0 = a + (b + c) => -b - c = a
    OBVIOUS
  <2>2. 0 = SumOver(amounts, rest) + (SumOver(amounts, income) + SumOver(amounts, spent))
    BY <1>10, <1>11, <1>12, Zenon
  <2> QED  BY <1>13, <1>14, <2>1, <2>2
<1>16. SheetTotal(asOf, T) = SumOver(amounts, gains)
  BY <1>1, SheetsAre DEF gains
<1>17. SumOf(others) = SumOver(amounts, others)
  BY <1>2, SumOfIs
<1>18. TotalNet(1, MaxDay) = SheetTotal(asOf, T) + SumOf(others)
  BY <1>b, <1>15, <1>16, <1>17
<1> QED  BY <1>18, Zenon DEF T, SheetTotal, others

(* However many users, accounts, journals and days there are, profit and loss
   over all of them is what the balance sheet shows of the user's other
   accounts, for whichever date it is asked, and what journals put on accounts
   of others (ReportRepo.GetBalanceSheet). *)
THEOREM ProfitExplainsSheet == Spec => []ProfitIsGain
BY BookInvariant, ProfitFromBook, PTL
-----------------------------------------------------------------------------
\* The lines of a journal that are of an account.
LinesOf(i, a) == {n \in 1 .. Len(journals[i].lines) : journals[i].lines[n].account = a}

(* What a journal does to an account. *)
LEMMA EffectIs ==
  ASSUME ReportsTypes, NEW i \in 1 .. Len(journals), NEW a
  PROVE  /\ Effect(i, a) = SumOver(LineAmounts(journals[i].lines), LinesOf(i, a))
         /\ Effect(i, a) = SumOver(amounts, {e \in Entries : e[1] = i /\ Account(e) = a})
         /\ Effect(i, a) \in Int
<1> DEFINE S == LinesOf(i, a)
           f == LineAmounts(journals[i].lines)
           rows == {e \in Entries : e[1] = i /\ Account(e) = a}
           P(g) == g = [s \in SUBSET S |->
                          IF s = {} THEN 0
                          ELSE journals[i].lines[CHOOSE x \in s : TRUE].amount
                                 + g[s \ {CHOOSE x \in s : TRUE}]]
           c == CHOOSE g : P(g)
<1>0. S \in SUBSET (1 .. Len(journals[i].lines))
  BY DEF LinesOf
<1>1. IsFiniteSet(S)
  <2>1. IsFiniteSet(1 .. Len(journals[i].lines))
    BY JournalType, UpToFinite
  <2> QED  BY <1>0, <2>1, FS_Subset
<1>2. \A s \in SUBSET S : s # {} =>
        /\ Pick(s) = CHOOSE x \in s : TRUE
        /\ f[Pick(s)] = journals[i].lines[CHOOSE x \in s : TRUE].amount
  BY <1>0 DEF Pick, LineAmounts
<1>3. PICK g : Sums(f, S, g)
  BY <1>1, SumsExist
<1>4. P(g)
  BY <1>2, <1>3 DEF Sums
<1>5. P(c)
  BY <1>4, Zenon
<1>6. Effect(i, a) = c[S]
  BY Zenon DEF Effect, LinesOf, MapThenSumSet, MapThenFoldSet
<1> HIDE DEF c
<1>7. /\ c = [s \in SUBSET S |-> c[s]]
      /\ \A s \in SUBSET S : c[s] = IF s = {} THEN 0 ELSE f[Pick(s)] + c[s \ {Pick(s)}]
  <2> SUFFICES ASSUME NEW s \in SUBSET S
               PROVE  c[s] = IF s = {} THEN 0 ELSE f[Pick(s)] + c[s \ {Pick(s)}]
    BY <1>5
  <2>1. CASE s = {}
    BY <1>5, <2>1
  <2>2. CASE s # {}
    <3>1. /\ Pick(s) = CHOOSE x \in s : TRUE
          /\ f[Pick(s)] = journals[i].lines[CHOOSE x \in s : TRUE].amount
      BY <1>2, <2>2
    <3>2. c[s] = journals[i].lines[CHOOSE x \in s : TRUE].amount + c[s \ {CHOOSE x \in s : TRUE}]
      BY <1>5, <2>2
    <3> HIDE DEF f
    <3> QED  BY <2>2, <3>1, <3>2, Zenon
  <2> QED  BY <2>1, <2>2
<1>8. c[S] = SumOver(f, S)
  BY <1>1, <1>7, SumOfTable
<1>9. SumOver(f, S) = SumOver(amounts, {<<i, n>> : n \in S})
  BY <1>0, RowsOfJournal
<1>10. {<<i, n>> : n \in S} = rows
  <2>1. ASSUME NEW n \in S PROVE <<i, n>> \in rows
    <3>1. <<i, n>> \in {<<i, k>> : k \in 1 .. Len(journals[i].lines)}
      BY <1>0
    <3>2. <<i, n>> \in Entries
      BY <3>1 DEF Entries
    <3>3. Account(<<i, n>>) = a
      BY DEF Account, LinesOf
    <3> QED  BY <3>2, <3>3
  <2>2. ASSUME NEW e \in rows PROVE \E n \in S : e = <<i, n>>
    <3>1. /\ e[1] = i /\ e = <<e[1], e[2]>> /\ e[2] \in 1 .. Len(journals[e[1]].lines)
          /\ Account(e) = a
      BY EntryType
    <3>2. e[2] \in S
      BY <3>1 DEF LinesOf, Account
    <3> QED  BY <3>1, <3>2
  <2> HIDE DEF rows, S
  <2> QED  BY <2>1, <2>2
<1>11. rows \in SUBSET Entries
  OBVIOUS
<1>12. SumOver(amounts, rows) \in Int
  BY <1>11, AmountsType
<1> HIDE DEF S, f, rows
<1>13. Effect(i, a) = SumOver(f, S) /\ SumOver(f, S) = SumOver(amounts, rows)
  BY <1>6, <1>8, <1>9, <1>10
<1> QED  BY <1>12, <1>13 DEF S, f, rows

(* A reversal undoes what its journal did to an account. *)
LEMMA EffectUndone ==
  ASSUME BookInv, NEW k \in 1 .. Len(journals), NEW i \in 1 .. Len(journals),
         journals[k].lines = Negate(journals[i].lines), NEW a
  PROVE  Effect(k, a) = -Effect(i, a)
<1> USE DEF BookInv
<1> DEFINE ls == journals[i].lines
           f == LineAmounts(ls)
           h == LineAmounts(Negate(ls))
           S == LinesOf(i, a)
<1>1. ls \in Seq(Lines)
  BY JournalType
<1>2. /\ Len(Negate(ls)) = Len(ls)
      /\ \A n \in 1 .. Len(ls) : /\ Negate(ls)[n].amount = -ls[n].amount
                                 /\ Negate(ls)[n].account = ls[n].account
  BY <1>1, NegateType
<1>3. LinesOf(k, a) = S
  BY <1>2 DEF LinesOf
<1>4. S \in SUBSET (1 .. Len(ls))
  BY DEF LinesOf
<1>5. IsFiniteSet(S)
  <2>1. IsFiniteSet(1 .. Len(ls))
    BY JournalType, UpToFinite
  <2> QED  BY <1>4, <2>1, FS_Subset
<1>6. IntOn(f, 1 .. Len(ls))
  BY <1>1, SumAmountsIs
<1>7. IntOn(f, S)
  BY <1>4, <1>6 DEF IntOn
<1>8. PICK minus \in Int : minus = -1
  OBVIOUS
<1>9. Times(h, minus, f, S)
  <2>1. \A n \in S : h[n] = -f[n] /\ f[n] \in Int
    BY <1>2, <1>4, <1>7 DEF LineAmounts, IntOn
  <2> HIDE DEF f, h, S
  <2> QED  BY <1>8, <2>1 DEF Times
<1>10. Effect(k, a) = SumOver(h, S) /\ Effect(i, a) = SumOver(f, S) /\ Effect(i, a) \in Int
  BY <1>3, EffectIs
<1> HIDE DEF f, h, S
<1>11. SumOver(h, S) = minus * SumOver(f, S)
  BY <1>5, <1>7, <1>9, SumTimes
<1> QED  BY <1>8, <1>10, <1>11

\* What journals that are no reversals leave of their effects on an account.
Kept(a, O) == MapThenSumSet(LAMBDA i : (1 - Cardinality(Reversals(i))) * Effect(i, a), O)

\* The journals of the user.
Mine == {i \in 1 .. Len(journals) : journals[i].user = User}

(* The balance of an account, journal by journal. *)
LEMMA BalanceIs ==
  ASSUME ReportsTypes, NEW a
  PROVE  Balance(a) = SumOver([i \in Mine |-> Effect(i, a)], Mine)
<1> DEFINE eff == [i \in Mine |-> Effect(i, a)]
           rows == {e \in Entries : Account(e) = a /\ Poster(e) = User}
           of == [e \in Entries |-> e[1]]
<1>1. rows \in SUBSET Entries /\ Mine \in SUBSET (1 .. Len(journals))
  BY DEF Mine
<1>2. IsFiniteSet(rows) /\ IntOn(amounts, rows) /\ IsFiniteSet(Mine)
  <2>1. IsFiniteSet(1 .. Len(journals))
    BY JournalType, UpToFinite
  <2> HIDE DEF rows
  <2> QED  BY <1>1, <2>1, AmountsType, FS_Subset
<1>3. \A e \in rows : of[e] \in Mine
  BY EntryType DEF Mine, Poster
<1>4. \A i \in Mine : eff[i] = SumOver(amounts, {e \in rows : of[e] = i})
  <2> SUFFICES ASSUME NEW i \in Mine
               PROVE  Effect(i, a) = SumOver(amounts, {e \in rows : of[e] = i})
    OBVIOUS
  <2>1. {e \in rows : of[e] = i} = {e \in Entries : e[1] = i /\ Account(e) = a}
    BY DEF Mine, Poster
  <2>2. Effect(i, a) = SumOver(amounts, {e \in Entries : e[1] = i /\ Account(e) = a})
    BY <1>1, EffectIs
  <2> HIDE DEF rows, of
  <2> QED  BY <2>1, <2>2, Zenon
<1>5. Balance(a) = SumOver(amounts, rows)
  BY <1>1, SumOfIs DEF Balance
<1> HIDE DEF eff, rows, of
<1>6. Groups(eff, Mine, amounts, rows, of)
  BY <1>3, <1>4 DEF Groups
<1>7. SumOver(eff, Mine) = SumOver(amounts, rows)
  BY <1>2, <1>6, SumByGroup
<1> QED  BY <1>5, <1>7 DEF eff

(* A sum over the journals that are no reversals. *)
LEMMA KeptIs ==
  ASSUME ReportsTypes, NEW a, NEW O \in SUBSET (1 .. Len(journals))
  PROVE  Kept(a, O)
           = SumOver([i \in O |-> (1 - Cardinality(Reversals(i))) * Effect(i, a)], O)
<1> DEFINE net == [i \in O |-> (1 - Cardinality(Reversals(i))) * Effect(i, a)]
           P(g) == g = [s \in SUBSET O |->
                          IF s = {} THEN 0
                          ELSE (1 - Cardinality(Reversals(CHOOSE x \in s : TRUE)))
                                   * Effect(CHOOSE x \in s : TRUE, a)
                                 + g[s \ {CHOOSE x \in s : TRUE}]]
           c == CHOOSE g : P(g)
<1>1. IsFiniteSet(O)
  <2>1. IsFiniteSet(1 .. Len(journals))
    BY JournalType, UpToFinite
  <2> QED  BY <2>1, FS_Subset
<1>2. \A s \in SUBSET O : s # {} =>
        /\ Pick(s) = CHOOSE x \in s : TRUE
        /\ net[Pick(s)] = (1 - Cardinality(Reversals(CHOOSE x \in s : TRUE)))
                            * Effect(CHOOSE x \in s : TRUE, a)
  BY DEF Pick
<1>3. PICK g : Sums(net, O, g)
  BY <1>1, SumsExist
<1>4. P(g)
  BY <1>2, <1>3 DEF Sums
<1>5. P(c)
  BY <1>4, Zenon
<1>6. Kept(a, O) = c[O]
  BY Zenon DEF Kept, MapThenSumSet, MapThenFoldSet
<1> HIDE DEF c
<1>7. /\ c = [s \in SUBSET O |-> c[s]]
      /\ \A s \in SUBSET O : c[s] = IF s = {} THEN 0 ELSE net[Pick(s)] + c[s \ {Pick(s)}]
  <2> SUFFICES ASSUME NEW s \in SUBSET O
               PROVE  c[s] = IF s = {} THEN 0 ELSE net[Pick(s)] + c[s \ {Pick(s)}]
    BY <1>5
  <2>1. CASE s = {}
    BY <1>5, <2>1
  <2>2. CASE s # {}
    <3>1. /\ Pick(s) = CHOOSE x \in s : TRUE
          /\ net[Pick(s)] = (1 - Cardinality(Reversals(CHOOSE x \in s : TRUE)))
                              * Effect(CHOOSE x \in s : TRUE, a)
      BY <1>2, <2>2
    <3>2. c[s] = (1 - Cardinality(Reversals(CHOOSE x \in s : TRUE)))
                     * Effect(CHOOSE x \in s : TRUE, a)
                   + c[s \ {CHOOSE x \in s : TRUE}]
      BY <1>5, <2>2
    <3> HIDE DEF net
    <3> QED  BY <2>2, <3>1, <3>2, Zenon
  <2> QED  BY <2>1, <2>2
<1>8. c[O] = SumOver(net, O)
  BY <1>1, <1>7, SumOfTable
<1> QED  BY <1>6, <1>8

(* The journals of a user fall into those that are no reversals and, one by
   one, their reversals, which are journals of the same user. *)
LEMMA BalancesFromBook ==
  ASSUME BookInv
  PROVE  BalancesNetVoids
<1> USE DEF BookInv
<1> DEFINE K == Mine
           All == 1 .. Len(journals)
           O == {i \in All : journals[i].user = User /\ journals[i].of = NULL}
           R == K \ O
           of == [k \in R |-> journals[k].of]
<1> SUFFICES ASSUME NEW a \in Own
             PROVE  Balance(a) = Kept(a, O)
  BY Zenon DEF BalancesNetVoids, Kept
<1> DEFINE eff == [i \in K |-> Effect(i, a)]
           back == [i \in O |-> SumOver(eff, {k \in R : of[k] = i})]
           net == [i \in O |-> (1 - Cardinality(Reversals(i))) * Effect(i, a)]
<1>1. /\ IsFiniteSet(K) /\ O \in SUBSET K /\ R \in SUBSET K /\ O \cap R = {} /\ K = O \cup R
      /\ K \in SUBSET All /\ IsFiniteSet(All)
  <2>1. K \in SUBSET All /\ IsFiniteSet(All)
    BY JournalType, UpToFinite DEF Mine
  <2>2. O \in SUBSET K
    BY DEF Mine
  <2> HIDE DEF K, All, O
  <2> QED  BY <2>1, <2>2, FS_Subset
<1>2. IsFiniteSet(O) /\ IsFiniteSet(R)
  <2> HIDE DEF K, O, R
  <2> QED  BY <1>1, FS_Subset
<1>3. IntOn(eff, K)
  BY <1>1, EffectIs DEF IntOn
<1>4. \A k \in R : of[k] \in O
  BY JournalType DEF Mirrors, Mine
<1>5. ASSUME NEW i \in O
      PROVE  /\ back[i] \in Int /\ eff[i] \in Int
             /\ net[i] = eff[i] + back[i]
  <2>1. i \in K /\ i \in All /\ i \in Nat /\ i # NULL /\ journals[i].user = User
    BY JournalType, NullAssumption DEF Mine
  <2>3. Reversals(i) \in SUBSET K /\ Reversals(i) \in SUBSET All
    BY <2>1 DEF Reversals, Mirrors, Mine
  <2>2. {k \in R : of[k] = i} = Reversals(i)
    BY <1>1, <2>1, <2>3 DEF Reversals
  <2>4. IsFiniteSet(Reversals(i)) /\ Cardinality(Reversals(i)) \in Nat
    <3> HIDE DEF K
    <3>1. IsFiniteSet(Reversals(i))
      BY <1>1, <2>3, FS_Subset
    <3> QED  BY <3>1, FS_CardinalityType
  <2>5. eff[i] = Effect(i, a) /\ Effect(i, a) \in Int
    BY <2>1, EffectIs
  <2>6. \A k \in Reversals(i) : eff[k] = -Effect(i, a)
    <3> SUFFICES ASSUME NEW k \in Reversals(i) PROVE eff[k] = -Effect(i, a)
      OBVIOUS
    <3>1. k \in K /\ k \in All /\ journals[k].of = i
      BY <2>3 DEF Reversals
    <3>2. journals[k].lines = Negate(journals[i].lines)
      BY <2>1, <3>1 DEF Mirrors
    <3>3. Effect(k, a) = -Effect(i, a)
      BY <2>1, <3>1, <3>2, EffectUndone
    <3> QED  BY <3>1, <3>3
  <2>7. back[i] = SumOver(eff, Reversals(i))
    BY <2>2
  <2>8. net[i] = (1 - Cardinality(Reversals(i))) * Effect(i, a)
    OBVIOUS
  <2> HIDE DEF eff, back, net
  <2>9. -Effect(i, a) \in Int
    BY <2>5
  <2>10. SumOver(eff, Reversals(i)) = Cardinality(Reversals(i)) * (-Effect(i, a))
    BY <2>4, <2>6, <2>9, SumOfOne
  <2>11. \A n \in Nat, x \in Int : n * (-x) \in Int /\ (1 - n) * x = x + n * (-x)
    OBVIOUS
  <2> QED  BY <2>4, <2>5, <2>7, <2>8, <2>10, <2>11
<1>6. Balance(a) = SumOver(eff, K)
  BY BalanceIs
<1>7. Kept(a, O) = SumOver(net, O)
  BY KeptIs
<1>8. Groups(back, O, eff, R, of)
  BY <1>4 DEF Groups
<1> HIDE DEF K, All, O, R, of, eff, back, net
<1>9. SumOver(eff, K) = SumOver(eff, O) + SumOver(eff, R)
  <2>1. SumOver(eff, O \cup R) = SumOver(eff, O) + SumOver(eff, R)
    BY <1>1, <1>3, SumUnion
  <2> QED  BY <2>1, <1>1, Zenon
<1>10. IntOn(eff, R)
  BY <1>1, <1>3 DEF IntOn
<1>11. SumOver(back, O) = SumOver(eff, R)
  BY <1>2, <1>8, <1>10, SumByGroup
<1>12. SumOver(net, O) = SumOver(eff, O) + SumOver(back, O)
  BY <1>2, <1>5, SumPlus
<1> QED  BY <1>6, <1>7, <1>9, <1>11, <1>12, Zenon

(* However many journals are written and reversed, by however many users, the
   balance of an account is what the user's journals come to, each less the number of its reversals
   (AccountRepo.GetBalance, LedgerService.VoidJournalEntry). *)
THEOREM BalancesComeFromEntries == Spec => []BalancesNetVoids
BY BookInvariant, BalancesFromBook, PTL
-----------------------------------------------------------------------------
(***************************************************************************)
(* Listings and balances read while journals commit.                       *)
(***************************************************************************)
\* The entry lists of journals that can be posted.
Postable == {ls \in EntryLists : IsBalanced(ls)}

\* A journal whose transaction has begun.
Posted == [user : Users, day : Days, created : Nat, lines : Postable]
Done   == {committed[n] : n \in 1 .. Len(committed)}

\* created_at tells journals apart, and only a journal that has begun commits.
BegunInv ==
  /\ posted \in [Ids -> Posted \cup {NULL}]
  /\ \A i \in Begun : posted[i].created <= Cardinality(Begun)
  /\ \A i, k \in Begun : posted[i].created = posted[k].created => i = k
  /\ committed \in Seq(Ids) /\ Done \subseteq Begun
-----------------------------------------------------------------------------
\* The rows of a listing of the journals ids in table p.
Rows(p, list, ids) ==
  {r \in ids \X Nat :
     IF list = NULL THEN r[2] = 0 /\ p[r[1]].user = User
     ELSE r[2] \in DOMAIN p[r[1]].lines /\ p[r[1]].lines[r[2]].account = list}

\* The rows of journal k come ahead of those of journal i.
Leads(p, list, k, i) ==
  IF list = NULL
  THEN p[k].day > p[i].day \/ (p[k].day = p[i].day /\ p[k].created > p[i].created)
  ELSE p[k].created > p[i].created

\* The rows ahead of those of journal i.
Leaders(p, list, ids, i) == {r \in Rows(p, list, ids) : Leads(p, list, r[1], i)}

\* How many of the slots b .. b + n - 1 are among the first m.
Passed(m, b, n) == IF m <= b THEN 0 ELSE IF m >= b + n THEN n ELSE m - b

\* Further on, no fewer slots have been passed; from the first slot, none.
LEMMA PassedFacts ==
  ASSUME NEW m \in Nat, NEW b \in Nat, NEW n \in Nat
  PROVE  /\ Passed(m, b, n) \in Nat /\ Passed(0, b, n) = 0
         /\ m >= b + n => Passed(m, b, n) = n
         /\ \A c \in Nat : c >= b => Passed(m, c, n) <= Passed(m, b, n)
BY DEF Passed

\* The slots of a page, m .. k - 1, are those passed by its end and not before.
LEMMA SlotsPassed ==
  ASSUME NEW m \in Nat, NEW k \in Nat, m <= k, NEW b \in Nat, NEW n \in Nat
  PROVE  Cardinality((m .. k - 1) \cap (b .. b + n - 1)) = Passed(k, b, n) - Passed(m, b, n)
<1> DEFINE lo == IF m <= b THEN b ELSE m
           hi == IF k <= b + n THEN k - 1 ELSE b + n - 1
<1>1. (m .. k - 1) \cap (b .. b + n - 1) = lo .. hi
  OBVIOUS
<1>2. lo \in Int /\ hi \in Int
  OBVIOUS
<1>3. (IF lo > hi THEN 0 ELSE hi - lo + 1) = Passed(k, b, n) - Passed(m, b, n)
  BY DEF Passed
<1> HIDE DEF lo, hi
<1>4. Cardinality(lo .. hi) = IF lo > hi THEN 0 ELSE hi - lo + 1
  BY <1>2, FS_Interval
<1> QED  BY <1>1, <1>3, <1>4

\* The tables p and q have the same journals ids.
Agree(p, q, ids) == \A i \in ids : p[i] = q[i]

\* Rows and their order depend on the journals listed and on no other.
LEMMA SameRows ==
  ASSUME NEW p, NEW q, NEW ids, Agree(p, q, ids), NEW list
  PROVE  Rows(p, list, ids) = Rows(q, list, ids)
BY DEF Rows, Agree

\* So do the rows ahead of a journal's.
LEMMA SameLeaders ==
  ASSUME NEW p, NEW q, NEW ids, Agree(p, q, ids), NEW list, NEW i \in ids
  PROVE  Leaders(p, list, ids, i) = Leaders(q, list, ids, i)
<1>1. Rows(p, list, ids) = Rows(q, list, ids)
  BY SameRows
<1>2. \A k \in ids : Leads(p, list, k, i) = Leads(q, list, k, i)
  BY DEF Leads, Agree
<1>3. \A r \in Rows(p, list, ids) : r[1] \in ids
  BY DEF Rows
<1> QED  BY <1>1, <1>2, <1>3 DEF Leaders

\* The rows of journals that have begun.
LEMMA RowsFinite ==
  ASSUME BegunInv, NEW list, NEW ids \in SUBSET Begun
  PROVE  /\ IsFiniteSet(Rows(posted, list, ids))
         /\ Cardinality(Rows(posted, list, ids)) \in Nat
         /\ Rows(posted, list, ids) \in SUBSET (Ids \X Nat)
<1>1. \A i \in ids : posted[i].lines \in Seq(Lines)
  BY EntriesAssumption DEF BegunInv, Begun, Posted, Postable
<1>2. IsFiniteSet(ids) /\ ids \subseteq Ids
  BY IdsAssumption, FS_Subset DEF Begun
<1> DEFINE box == [i \in ids |-> {i} \X (0 .. Len(posted[i].lines))]
           All == UNION {box[i] : i \in ids}
<1>3. \A i \in ids : IsFiniteSet(box[i])
  <2> SUFFICES ASSUME NEW i \in ids PROVE IsFiniteSet({i} \X (0 .. Len(posted[i].lines)))
    OBVIOUS
  <2>1. PICK n \in Nat : n = Len(posted[i].lines)
    BY <1>1
  <2>2. IsFiniteSet(0 .. n) /\ IsFiniteSet({i})
    <3>1. IsFiniteSet(0 .. n)
      BY FS_Interval
    <3> QED  BY <3>1, FS_Singleton
  <2> QED  BY <2>1, <2>2, FS_Product
<1>4. IsFiniteSet({box[i] : i \in ids})
  <2> HIDE DEF box
  <2> QED  BY <1>2, ImageFinite
<1>5. IsFiniteSet(All)
  <2> HIDE DEF box
  <2> QED  BY <1>3, <1>4, FS_UNION
<1>6. Rows(posted, list, ids) \subseteq All
  <2> SUFFICES ASSUME NEW r \in Rows(posted, list, ids)
               PROVE  r \in {r[1]} \X (0 .. Len(posted[r[1]].lines)) /\ r[1] \in ids
    OBVIOUS
  <2>1. r \in ids \X Nat /\ (r[2] = 0 \/ r[2] \in DOMAIN posted[r[1]].lines)
    BY DEF Rows
  <2>2. posted[r[1]].lines \in Seq(Lines) 
    BY <2>1, <1>1
  <2>3. r[2] \in 0 .. Len(posted[r[1]].lines)
    BY <2>1, <2>2
  <2> QED  BY <2>1, <2>3
<1>7. Rows(posted, list, ids) \in SUBSET (Ids \X Nat)
  BY <1>2 DEF Rows
<1> QED  BY <1>5, <1>6, <1>7, FS_Subset, FS_CardinalityType

\* The rows of Listing are these.
LEMMA RowsAre ==
  ASSUME BegunInv, NEW list, NEW ids \in SUBSET Begun
  PROVE  RowsOf(list, ids) = Rows(posted, list, ids)
<1>1. \A i \in ids : posted[i].lines \in Seq(Lines)
  BY EntriesAssumption DEF BegunInv, Begun, Posted, Postable
<1>2. \A i \in ids : \A n \in DOMAIN posted[i].lines : n \in Nat
  BY <1>1
<1>3. CASE list = NULL
  BY <1>3 DEF RowsOf, Rows
<1>4. CASE list # NULL
  BY <1>2, <1>4 DEF RowsOf, Rows
<1> QED  BY <1>3, <1>4

\* The committed journals of Listing, and the begun ones, are these.
LEMMA CommittedIs == committed \in Seq(Ids) => Committed = Done
BY DEF Committed, Range, Done

\* Of two journals, one leads.
LEMMA OneLeads ==
  ASSUME BegunInv, NEW list, NEW i \in Begun, NEW k \in Begun
  PROVE  /\ ~ Leads(posted, list, i, i)
         /\ i # k => (Leads(posted, list, i, k) \/ Leads(posted, list, k, i))
<1>1. /\ posted[i].day \in Int /\ posted[i].created \in Int
      /\ posted[k].day \in Int /\ posted[k].created \in Int
  BY DEF BegunInv, Begun, Posted, Days
<1>2. i # k => posted[i].created # posted[k].created
  BY DEF BegunInv
<1> QED  BY <1>1, <1>2 DEF Leads

\* The order of the rows is the order of their journals.
LEMMA AheadIs ==
  ASSUME NEW list, NEW r, NEW s
  PROVE  Ahead(list, r, s) <=> Leads(posted, list, r[1], s[1])
BY DEF Ahead, Leads

\* The rows that tie are those of one journal: created_at tells journals apart.
LEMMA TiedAre ==
  ASSUME BegunInv, NEW list, NEW ids \in SUBSET Begun, NEW r \in Rows(posted, list, ids)
  PROVE  /\ Tied(list, Rows(posted, list, ids), r) = Rows(posted, list, {r[1]})
         /\ r[1] \in ids
<1>1. \A s \in Rows(posted, list, ids) : s[1] \in ids
  BY DEF Rows
<1>2. \A s \in Rows(posted, list, ids) :
        (~ Leads(posted, list, r[1], s[1]) /\ ~ Leads(posted, list, s[1], r[1])) <=> s[1] = r[1]
  <2> SUFFICES ASSUME NEW s \in Rows(posted, list, ids)
               PROVE  (~ Leads(posted, list, r[1], s[1]) /\ ~ Leads(posted, list, s[1], r[1]))
                        <=> s[1] = r[1]
    OBVIOUS
  <2>1. r[1] \in Begun /\ s[1] \in Begun
    BY <1>1
  <2> QED  BY <2>1, OneLeads
<1>3. Tied(list, Rows(posted, list, ids), r) = {s \in Rows(posted, list, ids) : s[1] = r[1]}
  BY <1>2, AheadIs DEF Tied
<1>4. {s \in Rows(posted, list, ids) : s[1] = r[1]} = Rows(posted, list, {r[1]})
  BY <1>1 DEF Rows
<1> QED  BY <1>1, <1>3, <1>4

\* The rows ahead of a journal's, and its own, are among the rows listed, so
\* the slots of the journal's rows are below the total.
LEMMA LeadersFit ==
  ASSUME BegunInv, NEW list, NEW ids \in SUBSET Begun, NEW i \in ids
  PROVE  /\ Cardinality(Leaders(posted, list, ids, i)) \in Nat
         /\ Cardinality(Rows(posted, list, {i})) \in Nat
         /\ Cardinality(Leaders(posted, list, ids, i)) + Cardinality(Rows(posted, list, {i}))
              <= Cardinality(Rows(posted, list, ids))
<1> DEFINE all   == Rows(posted, list, ids)
           front == Leaders(posted, list, ids, i)
           group == Rows(posted, list, {i})
<1>1. IsFiniteSet(all) /\ Cardinality(all) \in Nat
  BY RowsFinite
<1>2. front \subseteq all /\ group \subseteq all
  BY DEF Leaders, Rows
<1>3. front \cap group = {}
  <2>1. \A r \in group : r[1] = i
    BY DEF Rows
  <2>2. \A r \in front : Leads(posted, list, r[1], i)
    BY DEF Leaders
  <2> QED  BY <2>1, <2>2, OneLeads
<1> HIDE DEF all, front, group
<1>4. /\ IsFiniteSet(front) /\ Cardinality(front) \in Nat
      /\ IsFiniteSet(group) /\ Cardinality(group) \in Nat
  BY <1>1, <1>2, FS_Subset, FS_CardinalityType
<1>5. Cardinality(front \cup group) = Cardinality(front) + Cardinality(group)
  <2>1. Cardinality(front \cap group) = 0
    BY <1>3, FS_EmptySet
  <2>2. Cardinality(front \cup group)
          = Cardinality(front) + Cardinality(group) - Cardinality(front \cap group)
    BY <1>4, FS_Union
  <2> QED  BY <1>4, <2>1, <2>2
<1>6. Cardinality(front \cup group) <= Cardinality(all)
  BY <1>1, <1>2, FS_Subset
<1> QED  BY <1>4, <1>5, <1>6 DEF all, front, group
-----------------------------------------------------------------------------
\* The pages a client may have been shown.
FinitePages == {s \in SUBSET (Ids \X Nat) : IsFiniteSet(s)}

\* How many of the rows T each page has, and all of them.
InPages(pages, T) == [n \in 1 .. Len(pages) |-> Cardinality(pages[n] \cap T)]

ShownOf(pages, T) == SumOver(InPages(pages, T), 1 .. Len(pages))

\* A sum depends on the values summed alone.
LEMMA SumSame ==
  ASSUME NEW S, IsFiniteSet(S), NEW f, NEW e, \A x \in S : f[x] = e[x]
  PROVE  SumOver(f, S) = SumOver(e, S)
<1>1. PICK g : Sums(f, S, g) /\ SumOver(f, S) = g[S]
  BY SumIsLast
<1>2. PICK h : Sums(e, S, h) /\ SumOver(e, S) = h[S]
  BY SumIsLast
<1>3. \A s \in SUBSET (S \cap S) : g[s] = h[s]
  BY <1>1, <1>2, SumsAgree
<1> QED  BY <1>1, <1>2, <1>3

\* How often rows were shown is a number, and zero before the first page.
LEMMA ShownType ==
  ASSUME NEW pages \in Seq(FinitePages), NEW T
  PROVE  /\ IsFiniteSet(1 .. Len(pages)) /\ IntOn(InPages(pages, T), 1 .. Len(pages))
         /\ ShownOf(pages, T) \in Int
         /\ pages = << >> => ShownOf(pages, T) = 0
<1>1. \A n \in 1 .. Len(pages) : Cardinality(pages[n] \cap T) \in Nat
  <2> SUFFICES ASSUME NEW n \in 1 .. Len(pages) PROVE Cardinality(pages[n] \cap T) \in Nat
    OBVIOUS
  <2>1. pages[n] \in FinitePages
    OBVIOUS
  <2>2. IsFiniteSet(pages[n])
    BY <2>1 DEF FinitePages
  <2> QED  BY <2>2, FS_Subset, FS_CardinalityType
<1>2. IntOn(InPages(pages, T), 1 .. Len(pages))
  BY <1>1 DEF IntOn, InPages
<1>3. PICK N \in Nat : N = Len(pages)
  OBVIOUS
<1>4. IsFiniteSet(1 .. Len(pages))
  BY <1>3, UpToFinite
<1>5. ASSUME pages = << >> PROVE ShownOf(pages, T) = 0
  <2>1. 1 .. Len(pages) = {}
    BY <1>5
  <2> QED  BY <2>1, SumEmpty DEF ShownOf
<1> QED  BY <1>2, <1>4, <1>5, SumType DEF ShownOf

\* One page more shows what is on it.
LEMMA ShownMore ==
  ASSUME NEW pages \in Seq(FinitePages), NEW page \in FinitePages, NEW T
  PROVE  ShownOf(Append(pages, page), T) = ShownOf(pages, T) + Cardinality(page \cap T)
<1> DEFINE more == Append(pages, page)
<1>1. PICK N \in Nat : N = Len(pages)
  OBVIOUS
<1>2. more \in Seq(FinitePages) /\ Len(more) = N + 1 /\ more[N + 1] = page
      /\ \A n \in 1 .. N : more[n] = pages[n]
  BY <1>1
<1> HIDE DEF more
<1> DEFINE f == InPages(pages, T)
           g == InPages(more, T)
<1>3. IsFiniteSet(1 .. (N + 1)) /\ IntOn(g, 1 .. (N + 1))
  BY <1>2, ShownType
<1>4. 1 .. N \in SUBSET (1 .. (N + 1)) /\ N + 1 \in (1 .. (N + 1)) \ (1 .. N)
      /\ 1 .. (N + 1) = (1 .. N) \cup {N + 1}
  OBVIOUS
<1>5. g[N + 1] = Cardinality(page \cap T)
  BY <1>2 DEF InPages
<1>6. \A n \in 1 .. N : f[n] = g[n]
  BY <1>1, <1>2 DEF InPages
<1>7. IsFiniteSet(1 .. N) /\ IntOn(f, 1 .. N) /\ ShownOf(pages, T) = SumOver(f, 1 .. N)
  BY <1>1, ShownType DEF ShownOf
<1>8. ShownOf(more, T) = SumOver(g, 1 .. (N + 1))
  BY <1>2 DEF ShownOf
<1> HIDE DEF f, g
<1>9. SumOver(g, (1 .. N) \cup {N + 1}) = g[N + 1] + SumOver(g, 1 .. N)
      /\ SumOver(g, 1 .. N) \in Int
  BY <1>3, <1>4, SumAdd
<1>10. SumOver(f, 1 .. N) = SumOver(g, 1 .. N)
  BY <1>6, <1>7, SumSame
<1>11. g[N + 1] \in Int
  BY <1>3, <1>4 DEF IntOn
<1>12. SumOver(g, 1 .. (N + 1)) = g[N + 1] + SumOver(g, 1 .. N)
  BY <1>4, <1>9
<1> QED  BY <1>5, <1>7, <1>8, <1>9, <1>10, <1>11, <1>12 DEF more
-----------------------------------------------------------------------------
\* The walks there are.
Walks == [list : Own \cup {NULL}, size : Nat, page : Nat \ {0}, counted : BOOLEAN,
          total : Nat, shown : Seq(FinitePages), ended : BOOLEAN,
          before : SUBSET Ids, still : BOOLEAN, split : BOOLEAN]

\* The rows of journal i, how often they were shown, and how often they
\* must have been: those whose slots the walk has passed.
GroupSize(p, w, i) == Cardinality(Rows(p, w.list, {i}))
Seen(p, w, i) == ShownOf(w.shown, Rows(p, w.list, {i}))
Due(p, done, w, i) ==
  IF w.ended THEN GroupSize(p, w, i)
  ELSE Passed((w.page - 1) * w.size, Cardinality(Leaders(p, w.list, done, i)), GroupSize(p, w, i))

\* Each journal committed at the start has been shown what is due.
Covered(p, done, w) ==
  \A i \in w.before :
    /\ ~w.ended \/ ~w.split => Seen(p, w, i) >= Due(p, done, w, i)
    /\ w.still => Seen(p, w, i) = Due(p, done, w, i)

\* What is true of a walk over table p in which the journals done have committed:
\* a total counted with no commit since is right, and what is due was shown.
WalkOf(p, done, w) ==
  /\ w \in Walks /\ w.before \subseteq done
  /\ w.still => ~w.split
  /\ ~w.ended /\ w.still => w.before = done
  /\ ~w.ended /\ w.counted /\ ~w.split => w.total = Cardinality(Rows(p, w.list, done))
  /\ Covered(p, done, w)

WalkInv == walk # NULL => WalkOf(posted, Done, walk)

\* A journal that begins.
LEMMA WalkBegin ==
  ASSUME NEW p, NEW q, NEW done, Agree(p, q, done), NEW w, WalkOf(p, done, w)
  PROVE  WalkOf(q, done, w)
<1>1. /\ Rows(p, w.list, done) = Rows(q, w.list, done)
      /\ \A i \in done : Leaders(p, w.list, done, i) = Leaders(q, w.list, done, i)
  BY SameRows, SameLeaders
<1>2. ASSUME NEW i \in done PROVE Rows(p, w.list, {i}) = Rows(q, w.list, {i})
  <2>1. Agree(p, q, {i})
    BY DEF Agree
  <2> QED  BY <2>1, SameRows
<1>3. w.before \subseteq done
  BY DEF WalkOf
<1>4. Covered(p, done, w)
  BY DEF WalkOf
<1>5. \A i \in w.before : Seen(q, w, i) = Seen(p, w, i) /\ Due(q, done, w, i) = Due(p, done, w, i)
  BY <1>1, <1>2, <1>3 DEF Seen, Due, GroupSize
<1>6. Covered(q, done, w)
  BY <1>4, <1>5 DEF Covered
<1> QED  BY <1>1, <1>6 DEF WalkOf

\* A journal that commits during a walk may only come ahead of the others.
LEMMA WalkCommit ==
  ASSUME BegunInv, NEW w, WalkOf(posted, Done, w), NEW id \in Begun,
         NEW v, v = IF w.ended THEN w
                    ELSE [w EXCEPT !.still = FALSE, !.split = @ \/ w.counted]
  PROVE  WalkOf(posted, Done \cup {id}, v)
<1>1. w \in Walks /\ w.before \subseteq Done /\ Covered(posted, Done, w)
  BY DEF WalkOf
<1>2. CASE w.ended
  <2>1. v = w
    BY <1>2
  <2>2. \A i \in w.before : Due(posted, Done \cup {id}, w, i) = Due(posted, Done, w, i)
    BY <1>2 DEF Due
  <2>3. Covered(posted, Done \cup {id}, w)
    BY <1>1, <2>2 DEF Covered
  <2> QED  BY <1>2, <2>1, <2>3 DEF WalkOf
<1>3. CASE ~w.ended
  <2>1. /\ v \in Walks /\ v.before = w.before /\ v.list = w.list /\ v.page = w.page
        /\ v.size = w.size /\ v.shown = w.shown /\ ~v.ended /\ ~v.still
        /\ v.counted = w.counted /\ (v.counted => v.split)
    BY <1>1, <1>3 DEF Walks
  <2>2. ASSUME NEW i \in w.before
        PROVE  Due(posted, Done \cup {id}, v, i) <= Seen(posted, v, i)
    <3> DEFINE fore == Leaders(posted, w.list, Done, i)
               more == Leaders(posted, w.list, Done \cup {id}, i)
    <3>1. Done \in SUBSET Begun /\ Done \cup {id} \in SUBSET Begun /\ i \in Done
      BY <1>1 DEF BegunInv
    <3>2. /\ Cardinality(fore) \in Nat
          /\ Cardinality(Rows(posted, w.list, {i})) \in Nat
      BY <3>1, LeadersFit
    <3>3. fore \subseteq more
      BY DEF Leaders, Rows
    <3>4. IsFiniteSet(more)
      <4>1. IsFiniteSet(Rows(posted, w.list, Done \cup {id}))
        BY <3>1, RowsFinite
      <4>2. more \subseteq Rows(posted, w.list, Done \cup {id})
        BY DEF Leaders
      <4> QED  BY <4>1, <4>2, FS_Subset
    <3> HIDE DEF fore, more
    <3>5. Cardinality(fore) <= Cardinality(more) /\ Cardinality(more) \in Nat
      BY <3>3, <3>4, FS_Subset, FS_CardinalityType
    <3>6. PICK m \in Nat : m = (w.page - 1) * w.size
      <4>1. w.page - 1 \in Nat /\ w.size \in Nat
        BY <1>1 DEF Walks
      <4> QED  BY <4>1
    <3>7. Passed(m, Cardinality(more), GroupSize(posted, w, i))
            <= Passed(m, Cardinality(fore), GroupSize(posted, w, i))
      BY <3>2, <3>5, PassedFacts DEF GroupSize
    <3>8. Passed(m, Cardinality(fore), GroupSize(posted, w, i)) <= Seen(posted, w, i)
      BY <1>1, <1>3, <3>6 DEF Covered, Due, fore
    <3>9. /\ Passed(m, Cardinality(fore), GroupSize(posted, w, i)) \in Nat
          /\ Passed(m, Cardinality(more), GroupSize(posted, w, i)) \in Nat
      BY <3>2, <3>5, PassedFacts DEF GroupSize
    <3>10. Seen(posted, v, i) = Seen(posted, w, i) /\ Seen(posted, w, i) \in Int
      BY <1>1, <2>1, ShownType DEF Seen, Walks
    <3>11. Due(posted, Done \cup {id}, v, i) = Passed(m, Cardinality(more), GroupSize(posted, w, i))
      BY <2>1, <3>6 DEF Due, GroupSize, more
    <3> QED  BY <3>7, <3>8, <3>9, <3>10, <3>11
  <2>4. Covered(posted, Done \cup {id}, v)
    BY <2>1, <2>2 DEF Covered
  <2> QED  BY <1>1, <2>1, <2>4 DEF WalkOf
<1> QED  BY <1>2, <1>3

\* A walk that starts: nothing has to be shown yet.
LEMMA WalkStarts ==
  ASSUME BegunInv, NEW w \in Walks, w.page = 1, ~w.counted, w.shown = << >>, ~w.ended,
         w.before = Done, ~w.split
  PROVE  WalkOf(posted, Done, w)
<1>1. << >> \in Seq(FinitePages)
  OBVIOUS
<1>4. ASSUME NEW i \in Done PROVE Seen(posted, w, i) = 0 /\ Due(posted, Done, w, i) = 0
  <2>1. Seen(posted, w, i) = 0
    BY <1>1, ShownType DEF Seen
  <2>2. Done \in SUBSET Begun
    BY DEF BegunInv
  <2>3. /\ Cardinality(Leaders(posted, w.list, Done, i)) \in Nat
        /\ GroupSize(posted, w, i) \in Nat
    BY <2>2, LeadersFit DEF GroupSize
  <2>4. (w.page - 1) * w.size = 0
    BY DEF Walks
  <2>5. Due(posted, Done, w, i)
          = Passed(0, Cardinality(Leaders(posted, w.list, Done, i)), GroupSize(posted, w, i))
    BY <2>4 DEF Due
  <2> QED  BY <2>1, <2>3, <2>5, PassedFacts
<1>5. Covered(posted, Done, w)
  <2> SUFFICES ASSUME NEW i \in Done
               PROVE  Seen(posted, w, i) = Due(posted, Done, w, i) /\ Seen(posted, w, i) = 0
    BY DEF Covered
  <2> QED  BY <1>4
<1> QED  BY <1>5 DEF WalkOf

\* The count, and a request that fails.
LEMMA WalkCounts ==
  ASSUME NEW p, NEW done, NEW w, WalkOf(p, done, w), ~w.ended,
         NEW total \in Nat, total = Cardinality(Rows(p, w.list, done))
  PROVE  /\ WalkOf(p, done, [w EXCEPT !.counted = TRUE, !.split = FALSE, !.total = total])
         /\ WalkOf(p, done, [w EXCEPT !.counted = FALSE])
<1>1. w \in Walks /\ Covered(p, done, w)
  BY DEF WalkOf
<1>2. ASSUME NEW v \in Walks, v.before = w.before, v.list = w.list, v.page = w.page,
             v.size = w.size, v.shown = w.shown, v.ended = FALSE, v.still = w.still,
             v.still => ~v.split,
             v.counted /\ ~v.split => v.total = total
      PROVE  WalkOf(p, done, v)
  <2>1. ASSUME NEW i \in w.before
        PROVE  Seen(p, v, i) = Seen(p, w, i) /\ Due(p, done, v, i) = Due(p, done, w, i)
    <3>1. Seen(p, v, i) = Seen(p, w, i)
      BY <1>2 DEF Seen
    <3> QED  BY <1>2, <3>1 DEF Due, GroupSize
  <2>2. Covered(p, done, v)
    BY <1>1, <1>2, <2>1 DEF Covered
  <2> QED  BY <1>2, <2>2 DEF WalkOf
<1>3. WalkOf(p, done, [w EXCEPT !.counted = TRUE, !.split = FALSE, !.total = total])
  <2> DEFINE v == [w EXCEPT !.counted = TRUE, !.split = FALSE, !.total = total]
  <2>1. v \in Walks /\ v.before = w.before /\ v.list = w.list /\ v.page = w.page
        /\ v.size = w.size /\ v.shown = w.shown /\ v.ended = FALSE /\ v.still = w.still
        /\ ~v.split /\ v.total = total
    BY <1>1 DEF Walks
  <2> HIDE DEF v
  <2>2. WalkOf(p, done, v)
    BY <1>2, <2>1
  <2> QED  BY <2>2 DEF v
<1>4. WalkOf(p, done, [w EXCEPT !.counted = FALSE])
  <2> DEFINE v == [w EXCEPT !.counted = FALSE]
  <2>1. v \in Walks /\ v.before = w.before /\ v.list = w.list /\ v.page = w.page
        /\ v.size = w.size /\ v.shown = w.shown /\ v.ended = FALSE /\ v.still = w.still
        /\ ~v.counted /\ v.split = w.split
    BY <1>1 DEF Walks
  <2> HIDE DEF v
  <2>2. w.still => ~w.split
    BY DEF WalkOf
  <2>3. WalkOf(p, done, v)
    BY <1>2, <2>1, <2>2
  <2> QED  BY <2>3 DEF v
<1> QED  BY <1>3, <1>4

\* Slots of a page and of the next.
LEMMA NextPage ==
  ASSUME NEW page \in Nat \ {0}, NEW size \in Nat
  PROVE  /\ (page - 1) * size \in Nat
         /\ page * size = (page - 1) * size + size
         /\ ((page + 1) - 1) * size = (page - 1) * size + size
<1>1. page - 1 \in Nat /\ (page + 1) - 1 = page
  OBVIOUS
<1>2. page * size = (page - 1) * size + size
  OBVIOUS
<1>3. (page - 1) * size \in Nat
  BY <1>1
<1> QED  BY <1>1, <1>2, <1>3

\* The rows shown are a page of what has committed.
ShowsPage(list, shown, page, size) == IsPage(list, Rows(posted, list, Done), shown, page, size)

\* Of the rows of a journal, a page shows those whose slots it has.
LEMMA PageShows ==
  ASSUME BegunInv, NEW list, NEW page \in Nat \ {0}, NEW size \in Nat,
         NEW shown \in SUBSET Rows(posted, list, Done),
         ShowsPage(list, shown, page, size), NEW i \in Done
  PROVE  Cardinality(shown \cap Rows(posted, list, {i}))
           = Passed((page - 1) * size + size, Cardinality(Leaders(posted, list, Done, i)),
                    Cardinality(Rows(posted, list, {i})))
             - Passed((page - 1) * size, Cardinality(Leaders(posted, list, Done, i)),
                      Cardinality(Rows(posted, list, {i})))
<1> DEFINE b == Cardinality(Leaders(posted, list, Done, i))
           group == Rows(posted, list, {i})
           n == Cardinality(group)
<1>0. Done \in SUBSET Begun
  BY DEF BegunInv
<1>1. b \in Nat /\ n \in Nat /\ IsFiniteSet(group)
  <2>1. b \in Nat /\ n \in Nat
    BY <1>0, LeadersFit
  <2>2. {i} \in SUBSET Begun
    BY <1>0
  <2> QED  BY <2>1, <2>2, RowsFinite
<1>2. PICK m \in Nat : m = (page - 1) * size
  <2>1. page - 1 \in Nat
    OBVIOUS
  <2> QED  BY <2>1
<1>3. PICK k \in Nat : k = page * size /\ k = m + size /\ m <= k
  <2>1. page * size = m + size /\ m + size \in Nat
    BY <1>2
  <2> QED  BY <1>2, <2>1
<1>4. CASE group = {}
  <2>1. n = 0 /\ Cardinality(shown \cap group) = 0
    BY <1>4, FS_EmptySet
  <2>2. Passed(k, b, 0) = 0 /\ Passed(m, b, 0) = 0
    BY <1>1, <1>2 DEF Passed
  <2> QED  BY <1>2, <1>3, <2>1, <2>2
<1>5. CASE group # {}
  <2>1. PICK r \in group : TRUE
    BY <1>5
  <2>2. r \in Rows(posted, list, Done) /\ r[1] = i
    BY DEF Rows
  <2>3. Tied(list, Rows(posted, list, Done), r) = group
    BY <1>0, <2>2, TiedAre
  <2>4. {s \in Rows(posted, list, Done) : Ahead(list, s, r)} = Leaders(posted, list, Done, i)
    BY <2>2, AheadIs DEF Leaders
  <2>5. Cardinality(shown \cap group) = Cardinality(Slots(page, size) \cap (b .. b + n - 1))
    BY <2>2, <2>3, <2>4 DEF IsPage, ShowsPage
  <2>6. Slots(page, size) = m .. k - 1
    <3>1. (page - 1) * size = m /\ page * size = k
      BY <1>2, <1>3
    <3> QED  BY <3>1, Zenon DEF Slots
  <2> HIDE DEF b, n, group
  <2>7. Cardinality((m .. k - 1) \cap (b .. b + n - 1)) = Passed(k, b, n) - Passed(m, b, n)
    <3>1. m \in Nat /\ k \in Nat /\ m <= k /\ b \in Nat /\ n \in Nat
      BY <1>1, <1>3
    <3> QED  BY <3>1, SlotsPassed
  <2> QED  BY <1>2, <1>3, <2>5, <2>6, <2>7, Zenon DEF b, n, group
<1> QED  BY <1>4, <1>5

\* A walk that has read one page more.
NextOf(w, shown, v) ==
  /\ v \in Walks /\ v.before = w.before /\ v.list = w.list /\ v.page = w.page + 1
  /\ v.size = w.size /\ v.shown = Append(w.shown, shown)
  /\ v.still = w.still /\ v.split = w.split /\ v.counted = FALSE
  /\ (v.ended <=> w.page * w.size >= w.total)

\* ReadPage does that to the walk.
LEMMA ReadFields ==
  ASSUME NEW w \in Walks, NEW shown \in FinitePages,
         NEW v, v = [w EXCEPT !.counted = FALSE, !.shown = Append(@, shown), !.page = @ + 1,
                              !.ended = w.page * w.size >= w.total]
  PROVE  NextOf(w, shown, v)
<1>1. w.page \in Nat \ {0} /\ w.shown \in Seq(FinitePages)
  BY DEF Walks
<1>5. v.ended <=> w.page * w.size >= w.total
  BY DEF Walks
<1>7. /\ v \in Walks /\ v.before = w.before /\ v.list = w.list /\ v.page = w.page + 1
      /\ v.size = w.size /\ v.shown = Append(w.shown, shown)
      /\ v.still = w.still /\ v.split = w.split /\ v.counted = FALSE
  <2>1. Append(w.shown, shown) \in Seq(FinitePages) /\ w.page + 1 \in Nat \ {0}
    BY <1>1
  <2>2. CASE w.page * w.size >= w.total
    <3>1. v = [w EXCEPT !.counted = FALSE, !.shown = Append(@, shown), !.page = @ + 1,
                        !.ended = TRUE]
      BY <2>2
    <3> QED  BY <2>1, <3>1 DEF Walks
  <2>3. CASE ~ (w.page * w.size >= w.total)
    <3>1. v = [w EXCEPT !.counted = FALSE, !.shown = Append(@, shown), !.page = @ + 1,
                        !.ended = FALSE]
      <4>1. (w.page * w.size >= w.total) = FALSE
        BY <2>3
      <4> QED  BY <4>1, Zenon
    <3> QED  BY <2>1, <3>1 DEF Walks
  <2> QED  BY <2>2, <2>3
<1> QED  BY <1>5, <1>7 DEF NextOf

\* A page read: the rows in its slots are shown once more, and the last page
\* of a total that is still right passes every slot.
LEMMA WalkReads ==
  ASSUME BegunInv, NEW w, WalkOf(posted, Done, w), ~w.ended, w.counted,
         NEW shown \in SUBSET Rows(posted, w.list, Done),
         IsPage(w.list, Rows(posted, w.list, Done), shown, w.page, w.size),
         NEW v, NextOf(w, shown, v)
  PROVE  WalkOf(posted, Done, v)
<1>1. w \in Walks /\ w.before \subseteq Done /\ Covered(posted, Done, w)
      /\ (w.still => ~w.split /\ w.before = Done)
      /\ (~w.split => w.total = Cardinality(Rows(posted, w.list, Done)))
  BY DEF WalkOf
<1>2. Done \in SUBSET Begun
  BY DEF BegunInv
<1>3. shown \in FinitePages
  <2>1. /\ IsFiniteSet(Rows(posted, w.list, Done))
        /\ Rows(posted, w.list, Done) \in SUBSET (Ids \X Nat)
    BY <1>2, RowsFinite
  <2> QED  BY <2>1, FS_Subset DEF FinitePages
<1>4. w.page \in Nat \ {0} /\ w.size \in Nat /\ w.shown \in Seq(FinitePages) /\ w.total \in Nat
  BY <1>1 DEF Walks
<1>7. /\ v \in Walks /\ v.before = w.before /\ v.list = w.list /\ v.page = w.page + 1
      /\ v.size = w.size /\ v.shown = Append(w.shown, shown)
      /\ v.still = w.still /\ v.split = w.split /\ v.counted = FALSE
      /\ (v.ended <=> w.page * w.size >= w.total)
  BY DEF NextOf
<1>8. ASSUME NEW i \in w.before
      PROVE  /\ ~v.ended \/ ~v.split => Seen(posted, v, i) >= Due(posted, Done, v, i)
             /\ v.still => Seen(posted, v, i) = Due(posted, Done, v, i)
  <2> DEFINE b == Cardinality(Leaders(posted, w.list, Done, i))
             n == Cardinality(Rows(posted, w.list, {i}))
  <2>1. i \in Done /\ b \in Nat /\ n \in Nat /\ b + n <= Cardinality(Rows(posted, w.list, Done))
    BY <1>1, <1>2, LeadersFit
  <2>2. PICK m \in Nat : m = (w.page - 1) * w.size
    BY <1>4, NextPage
  <2>3. PICK k \in Nat : k = m + w.size
    BY <1>4
  <2>4. w.page * w.size = k /\ ((w.page + 1) - 1) * w.size = k
    BY <1>4, <2>2, <2>3, NextPage
  <2>5. Seen(posted, v, i) = Seen(posted, w, i) + Cardinality(shown \cap Rows(posted, w.list, {i}))
    <3>1. ShownOf(Append(w.shown, shown), Rows(posted, w.list, {i}))
            = ShownOf(w.shown, Rows(posted, w.list, {i}))
                + Cardinality(shown \cap Rows(posted, w.list, {i}))
      BY <1>3, <1>4, ShownMore
    <3> QED  BY <1>7, <3>1 DEF Seen
  <2>6. Cardinality(shown \cap Rows(posted, w.list, {i})) = Passed(k, b, n) - Passed(m, b, n)
    <3>1. Cardinality(shown \cap Rows(posted, w.list, {i}))
            = Passed((w.page - 1) * w.size + w.size, b, n) - Passed((w.page - 1) * w.size, b, n)
      <4>1. i \in Done /\ w.page \in Nat \ {0} /\ w.size \in Nat
        BY <1>4, <2>1
      <4> HIDE DEF b, n
      <4>2. ShowsPage(w.list, shown, w.page, w.size)
        BY DEF ShowsPage
      <4> QED  BY <4>1, <4>2, PageShows DEF b, n
    <3> QED  BY <2>2, <2>3, <3>1, Zenon
  <2>7. Seen(posted, w, i) \in Int
    BY <1>4, ShownType DEF Seen
  <2>8. Due(posted, Done, w, i) = Passed(m, b, n)
    BY <2>2 DEF Due, GroupSize
  <2>9. /\ Seen(posted, w, i) >= Passed(m, b, n)
        /\ w.still => Seen(posted, w, i) = Passed(m, b, n)
    BY <1>1, <2>8 DEF Covered
  <2>10. Due(posted, Done, v, i) = IF v.ended THEN n ELSE Passed(k, b, n)
    <3>1. Due(posted, Done, v, i)
            = IF v.ended THEN n ELSE Passed(((w.page + 1) - 1) * w.size, b, n)
      BY <1>7 DEF Due, GroupSize
    <3> QED  BY <2>4, <3>1, Zenon
  <2>11. v.ended /\ ~w.split => Passed(k, b, n) = n
    <3>1. v.ended /\ ~w.split => k >= b + n
      BY <1>1, <1>4, <1>7, <2>1, <2>4
    <3> HIDE DEF b, n
    <3> QED  BY <2>1, <3>1, PassedFacts
  <2> HIDE DEF b, n
  <2>12. Passed(k, b, n) \in Nat /\ Passed(m, b, n) \in Nat
    BY <2>1, PassedFacts
  <2>13. /\ Seen(posted, v, i) >= Passed(k, b, n)
         /\ w.still => Seen(posted, v, i) = Passed(k, b, n)
    BY <2>5, <2>6, <2>7, <2>9, <2>12
  <2> QED  BY <1>1, <1>7, <2>10, <2>11, <2>13
<1>9. Covered(posted, Done, v)
  BY <1>7, <1>8 DEF Covered
<1> QED  BY <1>1, <1>7, <1>9 DEF WalkOf
-----------------------------------------------------------------------------
\* A journal that begins is the last created.
LEMMA BegunStep ==
  ASSUME BegunInv, NEW id \in Ids, NEW u \in Users, NEW day \in Days, NEW ls \in EntryLists,
         Begin(id, u, day, ls)
  PROVE  BegunInv' /\ Agree(posted, posted', Begun) /\ Done' = Done
<1> DEFINE j == [user |-> u, day |-> day, created |-> Cardinality(Begun) + 1, lines |-> ls]
<1>1. posted' = [posted EXCEPT ![id] = j] /\ id \notin Begun /\ committed' = committed
  BY DEF Begin, Begun
<1>2. IsFiniteSet(Begun) /\ Cardinality(Begun) \in Nat
  BY IdsAssumption, FS_Subset, FS_CardinalityType DEF Begun
<1>3. j \in Posted /\ j.created = Cardinality(Begun) + 1
  BY <1>2 DEF Begin, Posted, Postable
<1> HIDE DEF j
<1>4. Begun' = IF j = NULL THEN Begun ELSE Begun \cup {id}
  BY <1>1 DEF Begun, BegunInv
<1>5. Cardinality(Begun \cup {id}) = Cardinality(Begun) + 1
  BY <1>1, <1>2, FS_AddElement
<1>6. Done' = Done
  BY <1>1 DEF Done
<1>7. \A i \in Begun : posted'[i] = posted[i]
  BY <1>1 DEF Begun, BegunInv
<1>8. posted' \in [Ids -> Posted \cup {NULL}] /\ posted'[id] = j
  BY <1>1, <1>3 DEF BegunInv
<1>9. \A i \in Begun : posted[i].created \in Nat /\ posted[i].created <= Cardinality(Begun)
  BY DEF BegunInv, Begun, Posted
<1>10. CASE j = NULL
  <2>1. Begun' = Begun
    BY <1>4, <1>10
  <2> QED  BY <1>1, <1>6, <1>7, <1>8, <2>1 DEF BegunInv, Agree
<1>11. CASE j # NULL
  <2>1. Begun' = Begun \cup {id}
    BY <1>4, <1>11
  <2>2. \A i \in Begun' : posted'[i].created <= Cardinality(Begun')
    BY <1>2, <1>3, <1>5, <1>7, <1>8, <1>9, <2>1
  <2>3. \A i, k \in Begun' : posted'[i].created = posted'[k].created => i = k
    <3>1. \A i \in Begun : posted'[i].created # posted'[id].created
      BY <1>2, <1>3, <1>7, <1>8, <1>9
    <3>2. \A i, k \in Begun : posted'[i].created = posted'[k].created => i = k
      BY <1>7 DEF BegunInv
    <3> QED  BY <2>1, <3>1, <3>2
  <2> QED  BY <1>1, <1>6, <1>7, <1>8, <2>1, <2>2, <2>3 DEF BegunInv, Agree
<1> QED  BY <1>10, <1>11

\* A journal that commits had begun, and stays as it was.
LEMMA CommitStep ==
  ASSUME BegunInv, NEW id \in Ids, Commit(id)
  PROVE  BegunInv' /\ posted' = posted /\ id \in Begun /\ Done' = Done \cup {id}
<1>1. committed \in Seq(Ids) /\ Done \subseteq Begun
  BY DEF BegunInv
<1>2. posted' = posted /\ id \in Begun /\ committed' = Append(committed, id)
  BY <1>1, CommittedIs DEF Commit
<1>3. PICK N \in Nat : N = Len(committed)
  BY <1>1
<1>4. /\ committed' \in Seq(Ids) /\ Len(committed') = N + 1 /\ committed'[N + 1] = id
      /\ \A n \in 1 .. N : committed'[n] = committed[n]
  BY <1>1, <1>2, <1>3
<1>5. Done' = Done \cup {id}
  <2>1. Done = {committed[n] : n \in 1 .. N} /\ Done' = {committed'[n] : n \in 1 .. (N + 1)}
    BY <1>3, <1>4 DEF Done
  <2>2. 1 .. (N + 1) = (1 .. N) \cup {N + 1}
    OBVIOUS
  <2> QED  BY <1>4, <2>1, <2>2
<1>6. Begun' = Begun
  BY <1>2 DEF Begun
<1> QED  BY <1>1, <1>2, <1>4, <1>5, <1>6 DEF BegunInv

\* Every step keeps both invariants: a statement of a walk by its lemma above,
\* any other by leaving the walk alone or ending it.
LEMMA ListingStep ==
  ASSUME BegunInv, WalkInv, ListingNext
  PROVE  BegunInv' /\ WalkInv'
<1>0. committed \in Seq(Ids) /\ Done \subseteq Begun /\ Committed = Done
  BY CommittedIs DEF BegunInv
<1>1. ASSUME NEW id \in Ids, NEW u \in Users, NEW day \in Days, NEW ls \in EntryLists,
             Begin(id, u, day, ls)
      PROVE  BegunInv' /\ WalkInv'
  <2>1. BegunInv' /\ Agree(posted, posted', Begun) /\ Done' = Done
    BY <1>1, BegunStep
  <2>2. Agree(posted, posted', Done)
    BY <1>0, <2>1 DEF Agree
  <2>3. walk' = walk
    BY <1>1 DEF Begin
  <2> QED  BY <2>1, <2>2, <2>3, WalkBegin DEF WalkInv
<1>2. ASSUME NEW id \in Ids, Commit(id)
      PROVE  BegunInv' /\ WalkInv'
  <2>1. BegunInv' /\ posted' = posted /\ id \in Begun /\ Done' = Done \cup {id}
    BY <1>2, CommitStep
  <2>2. CASE walk = NULL
    BY <1>2, <2>1, <2>2 DEF Commit, WalkInv
  <2>3. CASE walk # NULL
    <3>1. walk' = IF walk.ended THEN walk
                  ELSE [walk EXCEPT !.still = FALSE, !.split = @ \/ walk.counted]
      BY <1>2, <2>3 DEF Commit
    <3>2. WalkOf(posted, Done \cup {id}, walk')
      BY <2>1, <2>3, <3>1, WalkCommit DEF WalkInv
    <3> QED  BY <2>1, <3>2 DEF WalkInv
  <2> QED  BY <2>2, <2>3
<1>3. ASSUME UNCHANGED <<posted, committed>>
      PROVE  BegunInv' /\ Done' = Done /\ posted' = posted
  BY <1>3 DEF BegunInv, Begun, Done
<1>4. ASSUME NEW list \in Lists, NEW size \in Sizes, StartWalk(list, size)
      PROVE  BegunInv' /\ WalkInv'
  <2>1. walk' \in Walks /\ walk'.page = 1 /\ ~walk'.counted /\ walk'.shown = << >>
        /\ ~walk'.ended /\ walk'.before = Done /\ ~walk'.split
    <3>1. list \in Own \cup {NULL} /\ PageSize(size) \in Nat /\ Done \in SUBSET Ids
          /\ << >> \in Seq(FinitePages)
      <4>1. PageSize(size) \in 1 .. 100
        BY PageSizeType, SizesAssumption
      <4>2. PageSize(size) \in Nat
        BY <4>1
      <4>3. list \in Own \cup {NULL} /\ Done \in SUBSET Ids
        BY <1>0 DEF Lists, Begun
      <4> QED  BY <4>2, <4>3
    <3>2. walk' = [list |-> list, size |-> PageSize(size), page |-> 1, counted |-> FALSE,
                   total |-> 0, shown |-> << >>, ended |-> FALSE,
                   before |-> Done, still |-> TRUE, split |-> FALSE]
      BY <1>0, <1>4 DEF StartWalk
    <3> QED  BY <3>1, <3>2 DEF Walks
  <2>2. WalkOf(posted, Done, walk')
    BY <2>1, WalkStarts
  <2>3. UNCHANGED <<posted, committed>>
    BY <1>4 DEF StartWalk
  <2> QED  BY <1>3, <2>2, <2>3 DEF WalkInv
<1>5. ASSUME Count PROVE BegunInv' /\ WalkInv'
  <2>1. walk # NULL /\ ~walk.ended /\ UNCHANGED <<posted, committed>>
    BY <1>5 DEF Count, Walking
  <2>2. Cardinality(RowsOf(walk.list, Committed)) = Cardinality(Rows(posted, walk.list, Done))
    BY <1>0, RowsAre
  <2>3. walk' = [walk EXCEPT !.counted = TRUE, !.split = FALSE,
                   !.total = Cardinality(Rows(posted, walk.list, Done))]
    BY <1>5, <2>2 DEF Count
  <2>4. Cardinality(Rows(posted, walk.list, Done)) \in Nat
    BY <1>0, RowsFinite
  <2>5. WalkOf(posted, Done, walk')
    BY <2>1, <2>3, <2>4, WalkCounts DEF WalkInv
  <2> QED  BY <1>3, <2>1, <2>5 DEF WalkInv
<1>6. ASSUME FailPage PROVE BegunInv' /\ WalkInv'
  <2>1. walk # NULL /\ ~walk.ended /\ UNCHANGED <<posted, committed>>
        /\ walk' = [walk EXCEPT !.counted = FALSE]
    BY <1>6 DEF FailPage, Walking
  <2>2. Cardinality(Rows(posted, walk.list, Done)) \in Nat
    BY <1>0, RowsFinite
  <2>3. WalkOf(posted, Done, walk')
    BY <2>1, <2>2, WalkCounts DEF WalkInv
  <2> QED  BY <1>3, <2>1, <2>3 DEF WalkInv
<1>7. ASSUME Walking, NEW shown \in SUBSET RowsOf(walk.list, Committed), ReadPage(shown)
      PROVE  BegunInv' /\ WalkInv'
  <2>1. walk # NULL /\ ~walk.ended /\ walk.counted /\ UNCHANGED <<posted, committed>>
    BY <1>7 DEF ReadPage, Walking
  <2>2. RowsOf(walk.list, Committed) = Rows(posted, walk.list, Done)
    BY <1>0, RowsAre
  <2>3. IsPage(walk.list, Rows(posted, walk.list, Done), shown, walk.page, walk.size)
        /\ shown \in SUBSET Rows(posted, walk.list, Done)
    BY <1>7, <2>2 DEF ReadPage
  <2>4. shown \in FinitePages
    <3>1. /\ IsFiniteSet(Rows(posted, walk.list, Done))
          /\ Rows(posted, walk.list, Done) \in SUBSET (Ids \X Nat)
      BY <1>0, RowsFinite
    <3> QED  BY <2>3, <3>1, FS_Subset DEF FinitePages
  <2>5. walk \in Walks /\ WalkOf(posted, Done, walk)
    BY <2>1 DEF WalkInv, WalkOf
  <2>6. walk' = [walk EXCEPT !.counted = FALSE, !.shown = Append(@, shown), !.page = @ + 1,
                             !.ended = walk.page * walk.size >= walk.total]
    BY <1>7 DEF ReadPage
  <2>7. NextOf(walk, shown, walk')
    BY <2>4, <2>5, <2>6, ReadFields
  <2>8. WalkOf(posted, Done, walk')
    BY <2>1, <2>3, <2>5, <2>7, WalkReads
  <2> QED  BY <1>3, <2>1, <2>8 DEF WalkInv
<1>8. ASSUME UNCHANGED <<posted, committed>>, walk' = walk \/ walk' = NULL
      PROVE  BegunInv' /\ WalkInv'
  BY <1>3, <1>8 DEF WalkInv
<1>9. ASSUME NEW dashboard \in BOOLEAN, StartOverview(dashboard)
      PROVE  BegunInv' /\ WalkInv'
  BY <1>8, <1>9 DEF StartOverview
<1>10. ASSUME ReadBalance \/ FailBalance PROVE BegunInv' /\ WalkInv'
  BY <1>8, <1>10 DEF ReadBalance, FailBalance
<1> QED  BY <1>1, <1>2, <1>4, <1>5, <1>6, <1>7, <1>9, <1>10 DEF ListingNext, Days

(* In every reachable state created_at tells the journals apart, and of the
   rows of every journal that had committed when the walk began the client has
   been shown at least as many as the walk has passed slots of, exactly as many
   when nothing was committed meanwhile (ListJournals, ListEntries and the
   queries behind them: COUNT, then ORDER BY with LIMIT and OFFSET). *)
THEOREM ListingInvariant == ListingSpec => [](BegunInv /\ WalkInv)
<1>1. ListingInit => BegunInv /\ WalkInv
  <2> SUFFICES ASSUME ListingInit PROVE BegunInv /\ WalkInv
    OBVIOUS
  <2>1. posted = [id \in Ids |-> NULL] /\ committed = << >> /\ walk = NULL
    BY DEF ListingInit
  <2>2. Begun = {} /\ Done = {} /\ committed \in Seq(Ids)
    BY <2>1 DEF Begun, Done
  <2> QED  BY <2>1, <2>2 DEF BegunInv, WalkInv
<1>2. BegunInv /\ WalkInv /\ UNCHANGED listingVars => BegunInv' /\ WalkInv'
  BY DEF listingVars, BegunInv, WalkInv, Begun, Done
<1> QED  BY <1>1, <1>2, ListingStep, PTL DEF ListingSpec
-----------------------------------------------------------------------------
\* The element a fold over a sequence ends with.
Top(s) == CHOOSE x \in s : \A y \in s : x >= y

\* c is the table of a fold that adds the numbers f.
Folded(c, f, N) ==
  c = [s \in SUBSET (1 .. N) |-> IF s = {} THEN 0 ELSE c[s \ {Top(s)}] + f[Top(s)]]

\* A set of naturals up to N has a greatest element.
LEMMA TopIn ==
  ASSUME NEW N \in Nat, NEW s \in SUBSET (1 .. N), s # {}
  PROVE  Top(s) \in s
<1> DEFINE T == {N - x : x \in s}
<1>0. \A x \in s : x \in Int /\ N - x \in Nat
  OBVIOUS
<1>1. T \in SUBSET Nat /\ T # {}
  BY <1>0
<1>2. PICK m \in T : \A k \in T : m <= k
  BY <1>1, LeastNat
<1>3. PICK x \in s : m = N - x
  BY <1>2
<1>4. \A y \in s : x >= y
  <2> SUFFICES ASSUME NEW y \in s PROVE x >= y
    OBVIOUS
  <2>1. N - y \in T
    OBVIOUS
  <2>2. N - x <= N - y
    BY <1>2, <1>3, <2>1
  <2> QED  BY <1>0, <1>3, <2>2
<1> QED  BY <1>4 DEF Top

\* There is such a table, and its last entry is the sum: FoldLeft of Listing,
\* which adds along a sequence, comes to SumOver.
LEMMA FoldIsSum ==
  ASSUME NEW N \in Nat, NEW f, IntOn(f, 1 .. N)
  PROVE  /\ \E c : Folded(c, f, N)
         /\ \A c : Folded(c, f, N) => c[1 .. N] = SumOver(f, 1 .. N)
<1> DEFINE D == 1 .. N
<1>1. IsFiniteSet(D)
  BY UpToFinite
<1>0. \A t \in SUBSET D : \A x \in t : SumOver(f, t) = f[x] + SumOver(f, t \ {x})
  <2> SUFFICES ASSUME NEW t \in SUBSET D, NEW x \in t
               PROVE  SumOver(f, t) = f[x] + SumOver(f, t \ {x})
    OBVIOUS
  <2>1. IntOn(f, D)
    OBVIOUS
  <2> HIDE DEF D
  <2> QED  BY <1>1, <2>1, SumRemove
<1>2. ASSUME NEW s \in SUBSET D, s # {}
      PROVE  /\ Top(s) \in s /\ f[Top(s)] \in Int
             /\ SumOver(f, s \ {Top(s)}) \in Int
             /\ SumOver(f, s) = SumOver(f, s \ {Top(s)}) + f[Top(s)]
  <2>1. Top(s) \in s
    BY <1>2, TopIn
  <2>2. SumOver(f, s) = f[Top(s)] + SumOver(f, s \ {Top(s)})
    BY <1>0, <2>1
  <2>3. f[Top(s)] \in Int
    BY <2>1 DEF IntOn
  <2>4. SumOver(f, s \ {Top(s)}) \in Int
    <3>1. IsFiniteSet(s \ {Top(s)}) /\ IntOn(f, s \ {Top(s)})
      BY <1>1, FS_Subset DEF IntOn
    <3> QED  BY <3>1, SumType
  <2> QED  BY <2>1, <2>2, <2>3, <2>4
<1>3. \E c : Folded(c, f, N)
  <2> DEFINE c == [s \in SUBSET D |-> SumOver(f, s)]
  <2>1. \A s \in SUBSET D : c[s] = IF s = {} THEN 0 ELSE c[s \ {Top(s)}] + f[Top(s)]
    BY <1>2, SumEmpty
  <2>2. c = [s \in SUBSET D |-> c[s]]
    OBVIOUS
  <2> HIDE DEF c
  <2>3. Folded(c, f, N)
    BY <2>1, <2>2 DEF Folded
  <2> QED  BY <2>3
<1>4. ASSUME NEW c, Folded(c, f, N) PROVE c[D] = SumOver(f, D)
  <2> DEFINE Q == {s \in SUBSET D : c[s] # SumOver(f, s)}
  <2> SUFFICES ASSUME Q # {} PROVE FALSE
    OBVIOUS
  <2>1. PICK s \in Q : \A r \in Q : ~ (Cardinality(r) < Cardinality(s))
    BY <1>1, SmallestSubset
  <2>2. c[s] = IF s = {} THEN 0 ELSE c[s \ {Top(s)}] + f[Top(s)]
    BY <1>4 DEF Folded
  <2>3. s # {}
    BY <2>1, <2>2, SumEmpty
  <2>4. IsFiniteSet(s) /\ Cardinality(s) \in Nat
    BY <1>1, FS_Subset, FS_CardinalityType
  <2>5. Top(s) \in s
    BY <1>2, <2>3
  <2>6. Cardinality(s \ {Top(s)}) = Cardinality(s) - 1
    BY <2>4, <2>5, FS_RemoveElement
  <2>7. c[s \ {Top(s)}] = SumOver(f, s \ {Top(s)})
    BY <2>1, <2>4, <2>6
  <2> QED  BY <1>2, <2>1, <2>2, <2>3, <2>7
<1> QED  BY <1>3, <1>4

\* What Listing adds up page by page.
LEMMA ShownIs ==
  ASSUME walk.shown \in Seq(FinitePages), NEW T
  PROVE  Shown(T) = ShownOf(walk.shown, T)
<1> DEFINE P(g) == g = [s \in SUBSET DOMAIN walk.shown |->
                          IF s = {} THEN 0
                          ELSE g[s \ {CHOOSE x \in s : \A y \in s : x >= y}]
                               + Cardinality(
                                   walk.shown[CHOOSE x \in s : \A y \in s : x >= y] \cap T)]
           c == CHOOSE g : P(g)
           f == InPages(walk.shown, T)
<1>1. PICK N \in Nat : N = Len(walk.shown) /\ DOMAIN walk.shown = 1 .. N
  OBVIOUS
<1>2. Shown(T) = c[DOMAIN walk.shown]
  BY Zenon DEF Shown, FoldLeft, MapThenFoldSet, Max
<1>3. \A s \in SUBSET (1 .. N) : s # {} =>
        Cardinality(walk.shown[Top(s)] \cap T) = f[Top(s)]
  BY <1>1, TopIn DEF InPages
<1>4. \A g : P(g) <=> Folded(g, f, N)
  <2> SUFFICES ASSUME NEW g PROVE P(g) <=> Folded(g, f, N)
    OBVIOUS
  <2> DEFINE A(s) == IF s = {} THEN 0
                     ELSE g[s \ {Top(s)}] + Cardinality(walk.shown[Top(s)] \cap T)
             C(s) == IF s = {} THEN 0 ELSE g[s \ {Top(s)}] + f[Top(s)]
  <2>1. \A s \in SUBSET (1 .. N) : A(s) = C(s)
    BY <1>3
  <2>2. P(g) <=> g = [s \in SUBSET DOMAIN walk.shown |-> A(s)]
    BY Zenon DEF Top
  <2>3. Folded(g, f, N) <=> g = [s \in SUBSET (1 .. N) |-> C(s)]
    BY Zenon DEF Folded
  <2> HIDE DEF A, C, P
  <2>4. [s \in SUBSET (1 .. N) |-> A(s)] = [s \in SUBSET (1 .. N) |-> C(s)]
    BY <2>1
  <2> QED  BY <1>1, <2>2, <2>3, <2>4
<1>5. IntOn(f, 1 .. N) /\ ShownOf(walk.shown, T) = SumOver(f, 1 .. N)
  BY <1>1, ShownType DEF ShownOf
<1> HIDE DEF f, P
<1>6. \E g : P(g)
  BY <1>4, <1>5, FoldIsSum
<1>7. P(c)
  BY <1>6, Zenon
<1>8. Folded(c, f, N)
  BY <1>4, <1>7
<1> HIDE DEF c
<1>9. c[1 .. N] = SumOver(f, 1 .. N)
  BY <1>5, <1>8, FoldIsSum
<1> QED  BY <1>1, <1>2, <1>5, <1>9

\* At the end of a walk every slot has been passed.
LEMMA WalkFromInv ==
  ASSUME BegunInv, WalkInv
  PROVE  WalkShowsAll /\ RepeatsExplained
<1> DEFINE rows == Rows(posted, walk.list, walk.before)
<1>1. ASSUME walk # NULL
      PROVE  /\ walk.before \in SUBSET Begun /\ walk.shown \in Seq(FinitePages)
             /\ RowsOf(walk.list, walk.before) = rows
  <2>1. walk.before \in SUBSET Begun /\ walk.shown \in Seq(FinitePages)
    BY <1>1 DEF WalkInv, WalkOf, Walks, BegunInv
  <2> QED  BY <2>1, RowsAre
<1>2. ASSUME walk # NULL, walk.ended, NEW r \in rows
      PROVE  LET tied == Tied(walk.list, rows, r)
             IN  /\ ~walk.split => Shown(tied) >= Cardinality(tied)
                 /\ walk.still => Shown(tied) = Cardinality(tied)
  <2> DEFINE i == r[1]
             group == Rows(posted, walk.list, {i})
  <2>1. Tied(walk.list, rows, r) = group /\ i \in walk.before
    BY <1>1, <1>2, TiedAre
  <2>2. Shown(group) = Seen(posted, walk, i) /\ Cardinality(group) = Due(posted, Done, walk, i)
    BY <1>1, <1>2, ShownIs DEF Seen, Due, GroupSize
  <2>3. Covered(posted, Done, walk)
    BY <1>2 DEF WalkInv, WalkOf
  <2> QED  BY <1>2, <2>1, <2>2, <2>3 DEF Covered
<1>3. WalkShowsAll
  <2> SUFFICES ASSUME walk # NULL, ~walk.split, walk.ended,
                      NEW r \in RowsOf(walk.list, walk.before)
               PROVE  LET tied == Tied(walk.list, RowsOf(walk.list, walk.before), r)
                      IN  Shown(tied) >= Cardinality(tied)
    BY Zenon DEF WalkShowsAll
  <2> HIDE DEF rows
  <2>1. RowsOf(walk.list, walk.before) = rows
    BY <1>1
  <2> QED  BY <1>2, <2>1
<1>4. RepeatsExplained
  <2> SUFFICES ASSUME walk # NULL, walk.still, walk.ended,
                      NEW r \in RowsOf(walk.list, walk.before),
                      Tied(walk.list, RowsOf(walk.list, walk.before), r) = {r}
               PROVE  Shown({r}) = 1
    BY Zenon DEF RepeatsExplained
  <2> HIDE DEF rows
  <2>1. RowsOf(walk.list, walk.before) = rows
    BY <1>1
  <2>2. Shown({r}) = Cardinality({r})
    BY <1>2, <2>1
  <2> QED  BY <2>2, FS_Singleton
<1> QED  BY <1>3, <1>4

(* Whatever journals begin and commit while a client goes through the pages of
   a listing, whatever their dates, the client that reaches the end has been
   shown every row that was there when it began, unless a journal was committed
   between the count and the page of its last request (ListJournals,
   ListEntries). *)
THEOREM WalksShowAll == ListingSpec => []WalkShowsAll
BY ListingInvariant, WalkFromInv, PTL

(* With no commit during the walk, a row that ties with no other is shown once:
   the pages overlap or leave a gap only among the entries of one journal, whose
   created_at is the same. *)
THEOREM WalksRepeatTiesOnly == ListingSpec => []RepeatsExplained
BY ListingInvariant, WalkFromInv, PTL
-----------------------------------------------------------------------------
\* What the journals ids of table p put on an account, and its balance: what
\* those of the user put there.
AmountsIn(p, a, ids) == [r \in Rows(p, a, ids) |-> p[r[1]].lines[r[2]].amount]
PutOn(p, a, ids)     == SumOver(AmountsIn(p, a, ids), Rows(p, a, ids))
MineIn(p, ids)       == {i \in ids : p[i].user = User}
BalanceIn(p, a, ids) == PutOn(p, a, MineIn(p, ids))

\* The rows of an account are entries of its, and come to a number.
LEMMA RowsOfAccount ==
  ASSUME BegunInv, NEW a \in Accounts, NEW ids \in SUBSET Begun
  PROVE  /\ \A r \in Rows(posted, a, ids) :
              /\ r \in ids \X Nat /\ r[2] \in 1 .. Len(posted[r[1]].lines)
              /\ posted[r[1]].lines[r[2]].account = a
              /\ posted[r[1]].lines[r[2]].amount \in Int
         /\ IntOn(AmountsIn(posted, a, ids), Rows(posted, a, ids))
         /\ PutOn(posted, a, ids) \in Int
<1>1. ASSUME NEW r \in Rows(posted, a, ids)
      PROVE  /\ r \in ids \X Nat /\ r[2] \in 1 .. Len(posted[r[1]].lines)
             /\ posted[r[1]].lines[r[2]].account = a
             /\ posted[r[1]].lines[r[2]].amount \in Int
  <2>1. r \in ids \X Nat /\ r[2] \in DOMAIN posted[r[1]].lines
        /\ posted[r[1]].lines[r[2]].account = a
    BY NullAssumption DEF Rows
  <2>2. posted[r[1]].lines \in Seq(Lines)
    BY <2>1, EntriesAssumption DEF BegunInv, Begun, Posted, Postable
  <2>3. r[2] \in 1 .. Len(posted[r[1]].lines) /\ posted[r[1]].lines[r[2]] \in Lines
    BY <2>1, <2>2
  <2> QED  BY <2>1, <2>3 DEF Lines
<1>2. IntOn(AmountsIn(posted, a, ids), Rows(posted, a, ids))
  BY <1>1 DEF IntOn, AmountsIn
<1>3. IsFiniteSet(Rows(posted, a, ids))
  BY RowsFinite
<1>4. PutOn(posted, a, ids) \in Int
  BY <1>2, <1>3, SumType DEF PutOn
<1> QED  BY <1>1, <1>2, <1>4

\* A balance is a number.
LEMMA BalanceType ==
  ASSUME BegunInv, NEW a \in Accounts, NEW ids \in SUBSET Begun
  PROVE  MineIn(posted, ids) \in SUBSET Begun /\ BalanceIn(posted, a, ids) \in Int
<1>1. MineIn(posted, ids) \in SUBSET Begun
  BY DEF MineIn
<1> QED  BY <1>1, RowsOfAccount DEF BalanceIn

\* A balance depends on the journals it is of, and on no other.
LEMMA SameBalance ==
  ASSUME NEW p, NEW q, NEW ids, Agree(p, q, ids), NEW a
  PROVE  BalanceIn(p, a, ids) = BalanceIn(q, a, ids)
<1>0. /\ MineIn(p, ids) = MineIn(q, ids) /\ MineIn(p, ids) \in SUBSET ids
      /\ Agree(p, q, MineIn(p, ids))
  BY DEF Agree, MineIn
<1>1. Rows(p, a, MineIn(p, ids)) = Rows(q, a, MineIn(p, ids))
  BY <1>0, SameRows
<1>2. \A r \in Rows(p, a, MineIn(p, ids)) : r[1] \in MineIn(p, ids)
  BY DEF Rows
<1>3. AmountsIn(p, a, MineIn(p, ids)) = AmountsIn(q, a, MineIn(p, ids))
  BY <1>0, <1>1, <1>2 DEF AmountsIn, Agree
<1> QED  BY <1>0, <1>1, <1>3 DEF BalanceIn, PutOn

\* The balance Listing computes is this one.
LEMMA BalanceOfIs ==
  ASSUME BegunInv, NEW a \in Accounts, NEW ids \in SUBSET Begun
  PROVE  BalanceOf(a, ids) = BalanceIn(posted, a, ids)
<1> DEFINE mine == MineIn(posted, ids)
           rows == Rows(posted, a, mine)
           amount(x) == posted[x[1]].lines[x[2]].amount
           f == AmountsIn(posted, a, mine)
           P(g) == g = [s \in SUBSET rows |->
                          IF s = {} THEN 0
                          ELSE amount(CHOOSE x \in s : TRUE) + g[s \ {CHOOSE x \in s : TRUE}]]
           c == CHOOSE g : P(g)
<1>a. mine \in SUBSET Begun /\ mine = {id \in ids : posted[id].user = User}
  BY DEF MineIn
<1>0. RowsOf(a, {id \in ids : posted[id].user = User}) = rows
  <2> HIDE DEF mine
  <2> QED  BY <1>a, RowsAre
<1>1. IsFiniteSet(rows)
  <2> HIDE DEF mine
  <2> QED  BY <1>a, RowsFinite
<1>2. \A s \in SUBSET rows : s # {} =>
        /\ Pick(s) = CHOOSE x \in s : TRUE
        /\ f[Pick(s)] = amount(CHOOSE x \in s : TRUE)
  BY DEF Pick, AmountsIn
<1> HIDE DEF f
<1>3. PICK g : Sums(f, rows, g)
  BY <1>1, SumsExist
<1>4. P(g)
  BY <1>2, <1>3 DEF Sums
<1>5. P(c)
  BY <1>4, Zenon
<1>6. BalanceOf(a, ids) = c[rows]
  BY <1>0, Zenon DEF BalanceOf, MapThenSumSet, MapThenFoldSet
<1> HIDE DEF c, amount
<1>7. /\ c = [s \in SUBSET rows |-> c[s]]
      /\ \A s \in SUBSET rows : c[s] = IF s = {} THEN 0 ELSE f[Pick(s)] + c[s \ {Pick(s)}]
  BY <1>2, <1>5
<1>8. c[rows] = SumOver(f, rows)
  BY <1>1, <1>7, SumOfTable
<1> QED  BY <1>6, <1>8 DEF BalanceIn, PutOn, f

\* e has of the pairs of i what f has.
Paired(e, i, f, ns) == \A n \in ns : e[<<i, n>>] = f[n]

\* The rows of one journal, by their lines.
LEMMA SumOfPairs ==
  ASSUME NEW ns, IsFiniteSet(ns), NEW f, IntOn(f, ns), NEW i, NEW e,
         Paired(e, i, f, ns)
  PROVE  SumOver(f, ns) = SumOver(e, {<<i, n>> : n \in ns})
<1> DEFINE rows == {<<i, n>> : n \in ns}
           line == [r \in rows |-> r[2]]
           pair == [n \in ns |-> <<i, n>>]
<1>1. \A n \in ns : /\ <<i, n>> \in rows /\ f[n] = e[<<i, n>>] /\ f[n] \in Int
                    /\ {r \in rows : line[r] = n} = {<<i, n>>}
  BY DEF IntOn, Paired
<1>2. \A r \in rows : line[r] \in ns /\ e[r] \in Int
  BY DEF IntOn, Paired
<1>3. IsFiniteSet(rows)
  <2>1. rows = {pair[n] : n \in ns}
    OBVIOUS
  <2> HIDE DEF pair, rows
  <2> QED  BY <2>1, ImageFinite
<1> HIDE DEF rows, line
<1>4. \A n \in ns : f[n] = SumOver(e, {r \in rows : line[r] = n})
  <2> SUFFICES ASSUME NEW n \in ns PROVE f[n] = SumOver(e, {r \in rows : line[r] = n})
    OBVIOUS
  <2>1. SumOver(e, {<<i, n>>}) = e[<<i, n>>]
    BY <1>1, SumSingle
  <2> QED  BY <1>1, <2>1
<1>5. Groups(f, ns, e, rows, line)
  BY <1>2, <1>4 DEF Groups
<1>6. IntOn(e, rows)
  BY <1>2 DEF IntOn
<1>7. SumOver(f, ns) = SumOver(e, rows)
  BY <1>3, <1>5, <1>6, SumByGroup
<1> QED  BY <1>7 DEF rows

\* What journals put on all accounts adds up to zero: every journal does.
LEMMA BalancesNet ==
  ASSUME BegunInv, NEW ids \in SUBSET Begun
  PROVE  SumOver([a \in Accounts |-> PutOn(posted, a, ids)], Accounts) = 0
<1> DEFINE bal  == [a \in Accounts |-> PutOn(posted, a, ids)]
           of   == [a \in Accounts |-> Rows(posted, a, ids)]
           rows == UNION {of[a] : a \in Accounts}
           acct == [r \in rows |-> posted[r[1]].lines[r[2]].account]
           amt  == [r \in rows |-> posted[r[1]].lines[r[2]].amount]
           id   == [r \in rows |-> r[1]]
           zero == [i \in ids |-> 0]
<1>1. \A r \in rows : /\ r \in ids \X Nat /\ r[2] \in 1 .. Len(posted[r[1]].lines)
                      /\ acct[r] \in Accounts /\ amt[r] \in Int
                      /\ r \in Rows(posted, acct[r], ids)
  <2> SUFFICES ASSUME NEW r \in rows
               PROVE  /\ r \in ids \X Nat /\ r[2] \in 1 .. Len(posted[r[1]].lines)
                      /\ acct[r] \in Accounts /\ amt[r] \in Int
                      /\ r \in Rows(posted, acct[r], ids)
    OBVIOUS
  <2>1. PICK a \in Accounts : r \in Rows(posted, a, ids)
    OBVIOUS
  <2>2. acct[r] = posted[r[1]].lines[r[2]].account /\ amt[r] = posted[r[1]].lines[r[2]].amount
    OBVIOUS
  <2> HIDE DEF rows, acct, amt
  <2> QED  BY <2>1, <2>2, RowsOfAccount
<1>2. IsFiniteSet(rows)
  <2>1. \A a \in Accounts : IsFiniteSet(of[a])
    BY RowsFinite
  <2>2. IsFiniteSet({of[a] : a \in Accounts})
    <3> HIDE DEF of
    <3> QED  BY AccountsAssumption, ImageFinite
  <2> HIDE DEF of
  <2> QED  BY <2>1, <2>2, FS_UNION
<1>3. IntOn(amt, rows)
  BY <1>1 DEF IntOn
<1>4. ASSUME NEW a \in Accounts
      PROVE  bal[a] = SumOver(amt, {r \in rows : acct[r] = a})
  <2>1. {r \in rows : acct[r] = a} = Rows(posted, a, ids)
    <3>1. \A r \in Rows(posted, a, ids) : r \in rows /\ acct[r] = a
      <4> SUFFICES ASSUME NEW r \in Rows(posted, a, ids) PROVE r \in rows /\ acct[r] = a
        OBVIOUS
      <4>1. r \in rows
        OBVIOUS
      <4>2. acct[r] = posted[r[1]].lines[r[2]].account
        BY <4>1
      <4> HIDE DEF rows, acct
      <4> QED  BY <4>1, <4>2, RowsOfAccount
    <3> HIDE DEF rows, acct
    <3> QED  BY <1>1, <3>1
  <2>2. \A r \in Rows(posted, a, ids) : amt[r] = AmountsIn(posted, a, ids)[r]
    BY DEF AmountsIn
  <2>3. IsFiniteSet(Rows(posted, a, ids))
    BY RowsFinite
  <2> HIDE DEF amt, rows, acct
  <2>4. SumOver(amt, Rows(posted, a, ids))
          = SumOver(AmountsIn(posted, a, ids), Rows(posted, a, ids))
    BY <2>2, <2>3, SumSame
  <2> QED  BY <2>1, <2>4 DEF PutOn
<1>5. ASSUME NEW i \in ids
      PROVE  SumOver(amt, {r \in rows : id[r] = i}) = 0
  <2> DEFINE ls == posted[i].lines
             pairs == {<<i, n>> : n \in 1 .. Len(ls)}
  <2>1. ls \in Seq(Lines) /\ SumAmounts(ls) = 0
    BY EntriesAssumption DEF BegunInv, Begun, Posted, Postable, IsBalanced
  <2>2. /\ IntOn(LineAmounts(ls), 1 .. Len(ls))
        /\ SumAmounts(ls) = SumOver(LineAmounts(ls), 1 .. Len(ls))
    BY <2>1, SumAmountsIs
  <2>3. IsFiniteSet(1 .. Len(ls))
    <3>1. PICK n \in Nat : n = Len(ls)
      BY <2>1
    <3> QED  BY <3>1, UpToFinite
  <2>4. ASSUME NEW n \in 1 .. Len(ls)
        PROVE  <<i, n>> \in rows /\ amt[<<i, n>>] = LineAmounts(ls)[n]
    <3>1. ls[n] \in Lines /\ n \in DOMAIN ls /\ n \in Nat
      BY <2>1
    <3>2. ls[n].account \in Accounts
      BY <3>1 DEF Lines
    <3>3. <<i, n>> \in Rows(posted, ls[n].account, ids)
      BY <3>1, <3>2, NullAssumption DEF Rows
    <3>4. <<i, n>> \in rows
      BY <3>2, <3>3
    <3>5. amt[<<i, n>>] = ls[n].amount
      BY <3>4
    <3> QED  BY <3>4, <3>5 DEF LineAmounts
  <2>5. {r \in rows : id[r] = i} = pairs
    <3>1. \A r \in rows : r \in ids \X Nat /\ r[2] \in 1 .. Len(posted[r[1]].lines) /\ id[r] = r[1]
      BY <1>1
    <3> HIDE DEF rows, id
    <3>2. \A r \in rows : id[r] = i => r \in pairs
      <4> SUFFICES ASSUME NEW r \in rows, id[r] = i PROVE r \in pairs
        OBVIOUS
      <4>1. r = <<i, r[2]>> /\ r[2] \in 1 .. Len(ls)
        BY <3>1
      <4> HIDE DEF ls
      <4> QED  BY <4>1
    <3>3. \A r \in pairs : r \in rows /\ r[1] = i
      <4> SUFFICES ASSUME NEW n \in 1 .. Len(ls)
                   PROVE  <<i, n>> \in rows /\ <<i, n>>[1] = i
        OBVIOUS
      <4> QED  BY <2>4
    <3> HIDE DEF pairs
    <3> QED  BY <3>1, <3>2, <3>3
  <2> HIDE DEF amt, rows, id, ls
  <2>6. SumOver(LineAmounts(ls), 1 .. Len(ls)) = SumOver(amt, pairs)
    <3>1. Paired(amt, i, LineAmounts(ls), 1 .. Len(ls))
      BY <2>4 DEF Paired
    <3> QED  BY <2>2, <2>3, <3>1, SumOfPairs
  <2> QED  BY <2>1, <2>2, <2>5, <2>6
<1>6. Groups(bal, Accounts, amt, rows, acct)
  <2> HIDE DEF bal, amt, rows, acct
  <2> QED  BY <1>1, <1>4 DEF Groups
<1>7. Groups(zero, ids, amt, rows, id)
  <2>1. \A r \in rows : id[r] \in ids
    BY <1>1
  <2>2. \A i \in ids : zero[i] = SumOver(amt, {r \in rows : id[r] = i})
    BY <1>5
  <2> HIDE DEF zero, amt, rows, id
  <2> QED  BY <2>1, <2>2 DEF Groups
<1>8. IsFiniteSet(ids)
  BY IdsAssumption, FS_Subset DEF Begun
<1>9. \A i \in ids : zero[i] = 0
  OBVIOUS
<1> HIDE DEF bal, amt, rows, acct, id, zero
<1>10. SumOver(bal, Accounts) = SumOver(amt, rows)
  BY <1>2, <1>3, <1>6, AccountsAssumption, SumByGroup
<1>11. SumOver(zero, ids) = SumOver(amt, rows)
  BY <1>2, <1>3, <1>7, <1>8, SumByGroup
<1>12. SumOver(zero, ids) = 0
  BY <1>8, <1>9, SumZero
<1>13. SumOver(bal, Accounts) = 0
  BY <1>10, <1>11, <1>12
<1> QED  BY <1>13 DEF bal
-----------------------------------------------------------------------------
\* The accounts of the user are accounts.
LEMMA OwnFinite == Own \subseteq Accounts /\ IsFiniteSet(Own)
BY AccountsAssumption, FS_Subset DEF Own

\* The answers and the requests there are.
Answers == [account : Own, balance : Int, failed : BOOLEAN]

Overviews == [dashboard : BOOLEAN, left : Seq(Own), read : Seq(Answers), from : Nat]

\* The orders in which the accounts of the user may be gone through.
Orders == {order \in [1 .. Cardinality(Own) -> Own] :
             \A i, k \in 1 .. Cardinality(Own) : i # k => order[i] # order[k]}

\* Request o goes through the accounts in this order.
Along(o, order) ==
  /\ Len(o.read) + Len(o.left) = Cardinality(Own)
  /\ \A i \in 1 .. Len(o.read) : o.read[i].account = order[i]
  /\ \A i \in 1 .. Len(o.left) : o.left[i] = order[Len(o.read) + i]

\* The journals that had committed at moment m.
First(com, m) == {com[n] : n \in 1 .. m}

\* An answer that shows a balance of moment m, or zero for a failure.
Shows(p, com, dashboard, r, m) ==
  (r.failed /\ dashboard) \/ r.balance = BalanceIn(p, r.account, First(com, m))

\* The answers so far are of these moments, one after the other.
Timed(p, com, o, moment) ==
  /\ moment \in [1 .. Len(o.read) -> o.from .. Len(com)]
  /\ \A i \in 1 .. Len(o.read) : /\ \A k \in 1 .. i : moment[k] <= moment[i]
                                 /\ Shows(p, com, o.dashboard, o.read[i], moment[i])

\* What is true of a request over table p whose commits are com.
OverviewOf(p, com, o) ==
  /\ o \in Overviews /\ o.from <= Len(com)
  /\ \E order \in Orders : Along(o, order)
  /\ \E moment : Timed(p, com, o, moment)

OverviewInv == overview # NULL => OverviewOf(posted, committed, overview)

\* A journal that begins changes no balance of those that have committed.
LEMMA OverviewBegin ==
  ASSUME NEW p, NEW q, NEW com \in Seq(Ids), Agree(p, q, First(com, Len(com))),
         NEW o, OverviewOf(p, com, o)
  PROVE  OverviewOf(q, com, o)
<1>1. PICK moment : Timed(p, com, o, moment)
  BY DEF OverviewOf
<1>2. Len(com) \in Nat /\ o.from \in Nat
  BY DEF OverviewOf, Overviews
<1>3. ASSUME NEW i \in 1 .. Len(o.read)
      PROVE  Shows(q, com, o.dashboard, o.read[i], moment[i])
  <2>1. moment[i] \in o.from .. Len(com) /\ Shows(p, com, o.dashboard, o.read[i], moment[i])
    BY <1>1 DEF Timed
  <2>2. Agree(p, q, First(com, moment[i]))
    BY <1>2, <2>1 DEF Agree, First
  <2>3. BalanceIn(p, o.read[i].account, First(com, moment[i]))
          = BalanceIn(q, o.read[i].account, First(com, moment[i]))
    BY <2>2, SameBalance
  <2> QED  BY <2>1, <2>3 DEF Shows
<1>4. Timed(q, com, o, moment)
  BY <1>1, <1>3 DEF Timed
<1> QED  BY <1>4 DEF OverviewOf

\* Nor does one that commits change a balance of an earlier moment.
LEMMA OverviewCommit ==
  ASSUME NEW p, NEW com \in Seq(Ids), NEW id \in Ids, NEW o, OverviewOf(p, com, o)
  PROVE  OverviewOf(p, Append(com, id), o)
<1> DEFINE more == Append(com, id)
<1>1. PICK moment : Timed(p, com, o, moment)
  BY DEF OverviewOf
<1>2. PICK N \in Nat : N = Len(com)
  OBVIOUS
<1>3. Len(more) = N + 1 /\ \A n \in 1 .. N : more[n] = com[n]
  BY <1>2
<1> HIDE DEF more
<1>4. o.from \in Nat /\ o.from <= N
  BY <1>2 DEF OverviewOf, Overviews
<1>5. ASSUME NEW i \in 1 .. Len(o.read)
      PROVE  Shows(p, more, o.dashboard, o.read[i], moment[i])
  <2>1. moment[i] \in o.from .. N /\ Shows(p, com, o.dashboard, o.read[i], moment[i])
    BY <1>1, <1>2 DEF Timed
  <2>2. First(com, moment[i]) = First(more, moment[i])
    BY <1>3, <1>4, <2>1 DEF First
  <2> QED  BY <2>1, <2>2 DEF Shows
<1>6. moment \in [1 .. Len(o.read) -> o.from .. Len(more)]
  <2>1. moment \in [1 .. Len(o.read) -> o.from .. N]
    BY <1>1, <1>2 DEF Timed
  <2>2. \A m \in o.from .. N : m \in o.from .. Len(more)
    BY <1>3, <1>4
  <2> QED  BY <2>1, <2>2
<1>7. Timed(p, more, o, moment)
  BY <1>1, <1>5, <1>6 DEF Timed
<1>8. OverviewOf(p, more, o)
  BY <1>2, <1>3, <1>4, <1>7 DEF OverviewOf
<1> QED  BY <1>8 DEF more

\* One answer more, of the moment it is read.
LEMMA OverviewAnswers ==
  ASSUME NEW p, NEW com \in Seq(Ids), NEW o, OverviewOf(p, com, o), o.left # << >>,
         NEW r \in Answers, r.account = Head(o.left), Shows(p, com, o.dashboard, r, Len(com)),
         NEW v \in Overviews, v.dashboard = o.dashboard, v.from = o.from,
         v.left = Tail(o.left), v.read = Append(o.read, r)
  PROVE  OverviewOf(p, com, v)
<1>1. PICK moment : Timed(p, com, o, moment)
  BY DEF OverviewOf
<1>2. PICK order \in Orders : Along(o, order)
  BY DEF OverviewOf
<1>3. o.left \in Seq(Own) /\ o.read \in Seq(Answers) /\ o.from \in Nat /\ o.from <= Len(com)
  BY DEF OverviewOf, Overviews
<1>4. PICK N \in Nat : N = Len(o.read)
  BY <1>3
<1>5. PICK M \in Nat : M = Len(o.left) /\ M > 0
  BY <1>3
<1>6. /\ Len(v.read) = N + 1 /\ v.read[N + 1] = r
      /\ \A i \in 1 .. N : v.read[i] = o.read[i]
  BY <1>3, <1>4
<1>7. /\ Len(v.left) = M - 1 /\ \A i \in 1 .. (M - 1) : v.left[i] = o.left[i + 1]
      /\ Head(o.left) = o.left[1]
  BY <1>3, <1>5
<1>8. Along(v, order)
  <2>1. /\ N + M = Cardinality(Own)
        /\ \A i \in 1 .. N : o.read[i].account = order[i]
        /\ \A i \in 1 .. M : o.left[i] = order[N + i]
    BY <1>2, <1>4, <1>5 DEF Along
  <2>2. (N + 1) + (M - 1) = Cardinality(Own)
    BY <2>1
  <2>3. \A i \in 1 .. (N + 1) : v.read[i].account = order[i]
    <3>1. v.read[N + 1].account = order[N + 1]
      BY <1>5, <1>6, <1>7, <2>1
    <3>2. \A i \in 1 .. N : v.read[i].account = order[i]
      BY <1>6, <2>1
    <3>3. \A i \in 1 .. (N + 1) : i \in 1 .. N \/ i = N + 1
      OBVIOUS
    <3> QED  BY <3>1, <3>2, <3>3
  <2>4. \A i \in 1 .. (M - 1) : v.left[i] = order[(N + 1) + i]
    <3> SUFFICES ASSUME NEW i \in 1 .. (M - 1) PROVE v.left[i] = order[(N + 1) + i]
      OBVIOUS
    <3>1. i + 1 \in 1 .. M /\ N + (i + 1) = (N + 1) + i
      OBVIOUS
    <3>2. o.left[i + 1] = order[N + (i + 1)]
      BY <2>1, <3>1
    <3> QED  BY <1>7, <3>1, <3>2
  <2> QED  BY <1>6, <1>7, <2>2, <2>3, <2>4 DEF Along
<1>9. \E time : Timed(p, com, v, time)
  <2> DEFINE time == [i \in 1 .. (N + 1) |-> IF i = N + 1 THEN Len(com) ELSE moment[i]]
  <2>1. Len(com) \in Nat
    OBVIOUS
  <2>2. \A i \in 1 .. N : /\ moment[i] \in o.from .. Len(com)
                          /\ \A k \in 1 .. i : moment[k] <= moment[i]
                          /\ Shows(p, com, o.dashboard, o.read[i], moment[i])
    BY <1>1, <1>4 DEF Timed
  <2>3. /\ time[N + 1] = Len(com) /\ \A i \in 1 .. N : time[i] = moment[i]
        /\ time \in [1 .. (N + 1) -> o.from .. Len(com)]
    <3>1. time[N + 1] = Len(com) /\ \A i \in 1 .. N : time[i] = moment[i]
      OBVIOUS
    <3>2. \A i \in 1 .. (N + 1) : time[i] \in o.from .. Len(com)
      BY <1>3, <2>1, <2>2
    <3> QED  BY <3>1, <3>2
  <2> HIDE DEF time
  <2>4. ASSUME NEW i \in 1 .. (N + 1)
        PROVE  /\ \A k \in 1 .. i : time[k] <= time[i]
               /\ Shows(p, com, v.dashboard, v.read[i], time[i])
    <3>1. CASE i = N + 1
      <4>1. \A k \in 1 .. (N + 1) : time[k] <= Len(com)
        <5> SUFFICES ASSUME NEW k \in 1 .. (N + 1) PROVE time[k] <= Len(com)
          OBVIOUS
        <5>1. time[k] \in o.from .. Len(com)
          BY <2>3
        <5> QED  BY <1>3, <2>1, <5>1
      <4> QED  BY <1>6, <2>3, <3>1, <4>1
    <3>2. CASE i # N + 1
      <4>1. i \in 1 .. N
        BY <3>2
      <4>2. \A k \in 1 .. i : time[k] = moment[k]
        BY <2>3, <4>1
      <4> QED  BY <1>6, <2>2, <2>3, <4>1, <4>2
    <3> QED  BY <3>1, <3>2
  <2>5. Timed(p, com, v, time)
    BY <1>6, <2>3, <2>4 DEF Timed
  <2> QED  BY <2>5
<1> QED  BY <1>3, <1>8, <1>9 DEF OverviewOf

\* A request that starts: the accounts in some order, and no answer yet.
LEMMA OverviewStarts ==
  ASSUME NEW p, NEW com \in Seq(Ids), NEW order \in SetToSeqs(Own),
         NEW o, o.left = order, o.read = << >>, o.from = Len(com), o.dashboard \in BOOLEAN,
         o = [dashboard |-> o.dashboard, left |-> o.left, read |-> o.read, from |-> o.from]
  PROVE  OverviewOf(p, com, o)
<1>1. PICK N \in Nat : N = Cardinality(Own)
  BY OwnFinite, FS_CardinalityType
<1>2. order \in Orders
  BY DEF SetToSeqs, Orders
<1>3. order \in Seq(Own) /\ Len(order) = N
  BY <1>1, <1>2 DEF Orders
<1>4. << >> \in Seq(Answers) /\ Len(o.read) = 0 /\ Len(com) \in Nat
  OBVIOUS
<1>5. o \in Overviews
  BY <1>3, <1>4 DEF Overviews
<1>6. Along(o, order)
  BY <1>1, <1>3, <1>4 DEF Along
<1>7. Timed(p, com, o, [i \in 1 .. 0 |-> 0])
  BY <1>4 DEF Timed
<1> QED  BY <1>2, <1>4, <1>5, <1>6, <1>7 DEF OverviewOf

\* Every step keeps the invariant: the next answer is of the present moment,
\* which no moment shown before is later than.
LEMMA OverviewStep ==
  ASSUME BegunInv, OverviewInv, ListingNext
  PROVE  OverviewInv'
<1>0. /\ committed \in Seq(Ids) /\ Done \in SUBSET Begun /\ Committed = Done
      /\ Done = First(committed, Len(committed))
  BY CommittedIs DEF BegunInv, Done, First
<1>1. ASSUME NEW id \in Ids, NEW u \in Users, NEW day \in Days, NEW ls \in EntryLists,
             Begin(id, u, day, ls)
      PROVE  OverviewInv'
  <2>1. Agree(posted, posted', Begun)
    BY <1>1, BegunStep
  <2>2. Agree(posted, posted', First(committed, Len(committed)))
    BY <1>0, <2>1 DEF Agree
  <2>3. overview' = overview /\ committed' = committed
    BY <1>1 DEF Begin
  <2> QED  BY <1>0, <2>2, <2>3, OverviewBegin DEF OverviewInv
<1>2. ASSUME NEW id \in Ids, Commit(id) PROVE OverviewInv'
  <2>1. overview' = overview /\ committed' = Append(committed, id) /\ posted' = posted
    BY <1>2 DEF Commit
  <2> QED  BY <1>0, <2>1, OverviewCommit DEF OverviewInv
<1>3. ASSUME NEW dashboard \in BOOLEAN, StartOverview(dashboard) PROVE OverviewInv'
  <2>1. PICK order \in SetToSeqs(Own) :
          overview' = [dashboard |-> dashboard, left |-> order, read |-> << >>,
                       from |-> Len(committed)]
    BY <1>3 DEF StartOverview
  <2>2. committed' = committed
    BY <1>3 DEF StartOverview
  <2>3. OverviewOf(posted', committed, overview')
    BY <1>0, <2>1, OverviewStarts
  <2> QED  BY <2>2, <2>3 DEF OverviewInv
<1>4. ASSUME UNCHANGED <<posted, committed>>, overview # NULL, overview.left # << >>,
             NEW r \in Answers, r.account = Head(overview.left),
             Shows(posted, committed, overview.dashboard, r, Len(committed)),
             overview' = [overview EXCEPT !.left = Tail(@), !.read = Append(@, r)]
      PROVE  OverviewInv'
  <2>1. OverviewOf(posted, committed, overview)
    BY <1>4 DEF OverviewInv
  <2>2. /\ overview' \in Overviews /\ overview'.dashboard = overview.dashboard
        /\ overview'.from = overview.from /\ overview'.left = Tail(overview.left)
        /\ overview'.read = Append(overview.read, r)
    <3>1. overview \in Overviews
      BY <2>1 DEF OverviewOf
    <3>2. Tail(overview.left) \in Seq(Own) /\ Append(overview.read, r) \in Seq(Answers)
      BY <1>4, <3>1 DEF Overviews
    <3> QED  BY <1>4, <3>1, <3>2 DEF Overviews
  <2>3. OverviewOf(posted, committed, overview')
    BY <1>0, <1>4, <2>1, <2>2, OverviewAnswers
  <2> QED  BY <1>4, <2>3 DEF OverviewInv
<1>5. ASSUME overview # NULL, overview.left # << >>
      PROVE  Head(overview.left) \in Own
  <2>1. overview.left \in Seq(Own)
    BY <1>5 DEF OverviewInv, OverviewOf, Overviews
  <2> QED  BY <1>5, <2>1
<1>6. ASSUME ReadBalance PROVE OverviewInv'
  <2> DEFINE a == Head(overview.left)
             r == Answered(a, BalanceNow(a))
  <2>1. /\ UNCHANGED <<posted, committed>> /\ overview # NULL /\ overview.left # << >>
        /\ overview' = [overview EXCEPT !.left = Tail(@), !.read = Append(@, r)]
    BY <1>6 DEF ReadBalance, Reading
  <2>2. a \in Own
    BY <1>5, <2>1
  <2> HIDE DEF a
  <2>3. BalanceNow(a) = BalanceIn(posted, a, Done) /\ BalanceIn(posted, a, Done) \in Int
    BY <1>0, <2>2, OwnFinite, BalanceOfIs, BalanceType DEF BalanceNow
  <2>4. r \in Answers /\ r.account = a /\ r.balance = BalanceIn(posted, a, Done)
    BY <2>2, <2>3 DEF Answered, Answers
  <2>5. Shows(posted, committed, overview.dashboard, r, Len(committed))
    BY <1>0, <2>4 DEF Shows
  <2> HIDE DEF r
  <2> QED  BY <1>4, <2>1, <2>4, <2>5 DEF a
<1>7. ASSUME FailBalance PROVE OverviewInv'
  <2> DEFINE a == Head(overview.left)
             r == [Answered(a, 0) EXCEPT !.failed = TRUE]
  <2>1. /\ UNCHANGED <<posted, committed>> /\ overview # NULL /\ overview.left # << >>
        /\ overview' = IF overview.dashboard
                       THEN [overview EXCEPT !.left = Tail(@), !.read = Append(@, r)]
                       ELSE NULL
    BY <1>7 DEF FailBalance, Reading
  <2>2. a \in Own
    BY <1>5, <2>1
  <2> HIDE DEF a
  <2>3. r \in Answers /\ r.account = a /\ r.failed
    <3> DEFINE base == Answered(a, 0)
    <3>1. base = [account |-> a, balance |-> 0, failed |-> FALSE]
      BY DEF Answered
    <3> HIDE DEF base
    <3>2. r = [base EXCEPT !.failed = TRUE]
      BY DEF base
    <3> HIDE DEF r
    <3>3. r = [account |-> a, balance |-> 0, failed |-> TRUE]
      BY <3>1, <3>2
    <3> QED  BY <2>2, <3>3 DEF Answers
  <2> HIDE DEF r
  <2>4. CASE overview.dashboard
    <3>1. Shows(posted, committed, overview.dashboard, r, Len(committed))
      BY <2>3, <2>4 DEF Shows
    <3> QED  BY <1>4, <2>1, <2>3, <2>4, <3>1 DEF a
  <2>5. CASE ~overview.dashboard
    BY <2>1, <2>5 DEF OverviewInv
  <2> QED  BY <2>4, <2>5
<1>8. ASSUME UNCHANGED <<posted, committed>>, overview' = overview \/ overview' = NULL
      PROVE  OverviewInv'
  BY <1>8 DEF OverviewInv
<1>9. ASSUME NEW list \in Lists, NEW size \in Sizes, StartWalk(list, size)
      PROVE  OverviewInv'
  BY <1>8, <1>9 DEF StartWalk
<1>10. ASSUME \/ Count \/ FailPage
              \/ \E shown \in SUBSET RowsOf(walk.list, Committed) : ReadPage(shown)
       PROVE  OverviewInv'
  BY <1>8, <1>10 DEF Count, FailPage, ReadPage
<1> QED  BY <1>1, <1>2, <1>3, <1>6, <1>7, <1>9, <1>10 DEF ListingNext, Days

(* In every reachable state the answers collected so far are of the accounts in
   some order, each of some moment since the request began and none of an
   earlier moment than the one before it (AccountService.ListAccounts and the
   dashboard, one GetBalance after the other outside a transaction). *)
THEOREM OverviewInvariant == ListingSpec => []OverviewInv
<1>1. ListingInit => OverviewInv
  BY DEF ListingInit, OverviewInv
<1>2. OverviewInv /\ UNCHANGED listingVars => OverviewInv'
  BY DEF listingVars, OverviewInv
<1>3. ListingSpec => []BegunInv
  BY ListingInvariant, PTL
<1> QED  BY <1>1, <1>2, <1>3, OverviewStep, PTL DEF ListingSpec

\* What the answers of a list add up to.
BalancesOf(answers) == [i \in 1 .. Len(answers) |-> answers[i].balance]

\* The sum over the answers that Listing states.
LEMMA AnswersSum ==
  ASSUME NEW answers \in Seq(Answers)
  PROVE  FoldLeft(LAMBDA n, r : n + r.balance, 0, answers)
           = SumOver(BalancesOf(answers), 1 .. Len(answers))
<1> DEFINE P(g) == g = [s \in SUBSET DOMAIN answers |->
                          IF s = {} THEN 0
                          ELSE g[s \ {CHOOSE x \in s : \A y \in s : x >= y}]
                               + answers[CHOOSE x \in s : \A y \in s : x >= y].balance]
           c == CHOOSE g : P(g)
           f == BalancesOf(answers)
<1>1. PICK N \in Nat : N = Len(answers) /\ DOMAIN answers = 1 .. N
  OBVIOUS
<1>2. FoldLeft(LAMBDA n, r : n + r.balance, 0, answers) = c[DOMAIN answers]
  BY Zenon DEF FoldLeft, MapThenFoldSet, Max
<1>3. \A s \in SUBSET (1 .. N) : s # {} => answers[Top(s)].balance = f[Top(s)]
  BY <1>1, TopIn DEF BalancesOf
<1>4. \A g : P(g) <=> Folded(g, f, N)
  <2> SUFFICES ASSUME NEW g PROVE P(g) <=> Folded(g, f, N)
    OBVIOUS
  <2> DEFINE A(s) == IF s = {} THEN 0 ELSE g[s \ {Top(s)}] + answers[Top(s)].balance
             C(s) == IF s = {} THEN 0 ELSE g[s \ {Top(s)}] + f[Top(s)]
  <2>1. \A s \in SUBSET (1 .. N) : A(s) = C(s)
    BY <1>3
  <2>2. P(g) <=> g = [s \in SUBSET DOMAIN answers |-> A(s)]
    BY Zenon DEF Top
  <2>3. Folded(g, f, N) <=> g = [s \in SUBSET (1 .. N) |-> C(s)]
    BY Zenon DEF Folded
  <2> HIDE DEF A, C, P
  <2>4. [s \in SUBSET (1 .. N) |-> A(s)] = [s \in SUBSET (1 .. N) |-> C(s)]
    BY <2>1
  <2> QED  BY <1>1, <2>2, <2>3, <2>4
<1>5. IntOn(f, 1 .. N)
  <2>1. \A n \in 1 .. N : answers[n] \in Answers
    BY <1>1
  <2> QED  BY <1>1, <2>1 DEF BalancesOf, Answers, IntOn
<1> HIDE DEF f, P
<1>6. \E g : P(g)
  BY <1>4, <1>5, FoldIsSum
<1>7. P(c)
  BY <1>6, Zenon
<1>8. Folded(c, f, N)
  BY <1>4, <1>7
<1> HIDE DEF c
<1>9. c[1 .. N] = SumOver(f, 1 .. N)
  BY <1>5, <1>8, FoldIsSum
<1> QED  BY <1>1, <1>2, <1>9 DEF f

\* An order of the user's accounts has each of them once.
LEMMA SumInOrder ==
  ASSUME NEW order \in Orders, NEW bal, IntOn(bal, Own), NEW f,
         \A i \in 1 .. Cardinality(Own) : f[i] = bal[order[i]]
  PROVE  SumOver(f, 1 .. Cardinality(Own)) = SumOver(bal, Own)
<1>1. PICK N \in Nat : N = Cardinality(Own)
  BY OwnFinite, FS_CardinalityType
<1> DEFINE S == 1 .. N
<1>2. order \in [S -> Own] /\ \A i, k \in S : i # k => order[i] # order[k]
  BY <1>1 DEF Orders
<1>3. order \in Injection(S, Own)
  BY <1>2 DEF Injection, IsInjective
<1>4. IsFiniteSet(S) /\ Cardinality(S) = N
  BY <1>1, UpToFinite, FS_Interval
<1> HIDE DEF S
<1>5. order \in Surjection(S, Own)
  BY <1>1, <1>3, <1>4, OwnFinite, FS_Injection
<1>6. ASSUME NEW a \in Own
      PROVE  bal[a] = SumOver(f, {i \in S : order[i] = a})
  <2>1. PICK i \in S : order[i] = a
    BY <1>5 DEF Surjection
  <2>2. {k \in S : order[k] = a} = {i}
    BY <1>2, <2>1
  <2>3. f[i] = bal[a] /\ f[i] \in Int
    BY <1>1, <2>1 DEF S, IntOn
  <2>4. SumOver(f, {i}) = f[i]
    BY <2>3, SumSingle
  <2> QED  BY <2>2, <2>3, <2>4
<1>7. \A i \in S : order[i] \in Own
  BY <1>2
<1>8. Groups(bal, Own, f, S, order)
  BY <1>6, <1>7 DEF Groups
<1>9. IntOn(f, S)
  BY <1>1, <1>7 DEF IntOn, S
<1>10. SumOver(bal, Own) = SumOver(f, S)
  BY <1>4, <1>8, <1>9, OwnFinite, SumByGroup
<1> QED  BY <1>1, <1>10 DEF S

\* What Listing adds up of the accounts of others.
LEMMA OthersAre ==
  ASSUME BegunInv, NEW bal, bal = [a \in Accounts |-> BalanceIn(posted, a, Done)]
  PROVE  MapThenSumSet(BalanceNow, Accounts \ Own) = SumOver(bal, Accounts \ Own)
<1> DEFINE T == Accounts \ Own
           P(g) == g = [s \in SUBSET T |->
                          IF s = {} THEN 0
                          ELSE BalanceNow(CHOOSE x \in s : TRUE) + g[s \ {CHOOSE x \in s : TRUE}]]
           c == CHOOSE g : P(g)
<1>0. IsFiniteSet(T)
  BY AccountsAssumption, FS_Subset
<1>1. \A a \in T : bal[a] = BalanceNow(a)
  <2> SUFFICES ASSUME NEW a \in Accounts PROVE BalanceIn(posted, a, Done) = BalanceNow(a)
    OBVIOUS
  <2>1. Done \in SUBSET Begun /\ Committed = Done
    BY CommittedIs DEF BegunInv
  <2> QED  BY <2>1, BalanceOfIs DEF BalanceNow
<1>2. \A s \in SUBSET T : s # {} =>
        /\ Pick(s) = CHOOSE x \in s : TRUE
        /\ bal[Pick(s)] = BalanceNow(CHOOSE x \in s : TRUE)
  BY <1>1 DEF Pick
<1>3. PICK g : Sums(bal, T, g)
  BY <1>0, SumsExist
<1>4. P(g)
  BY <1>2, <1>3 DEF Sums
<1>5. P(c)
  BY <1>4, Zenon
<1>6. MapThenSumSet(BalanceNow, T) = c[T]
  BY Zenon DEF MapThenSumSet, MapThenFoldSet
<1> HIDE DEF c
<1>7. /\ c = [s \in SUBSET T |-> c[s]]
      /\ \A s \in SUBSET T : c[s] = IF s = {} THEN 0 ELSE bal[Pick(s)] + c[s \ {Pick(s)}]
  BY <1>2, <1>5
<1>8. c[T] = SumOver(bal, T)
  BY <1>0, <1>7, SumOfTable
<1> QED  BY <1>6, <1>8

\* The journals committed up to a moment, in Listing's words.
LEMMA FirstIs ==
  ASSUME NEW com \in Seq(Ids), NEW m \in 0 .. Len(com)
  PROVE  Range(SubSeq(com, 1, m)) = First(com, m)
<1>1. SubSeq(com, 1, m) = [i \in 1 .. m |-> com[i]]
  OBVIOUS
<1> QED  BY <1>1 DEF Range, First

\* What every answer shows, once the invariants hold.
LEMMA BalancesFromInv ==
  ASSUME BegunInv, OverviewInv, overview # NULL
  PROVE  BalancesOfAMoment
<1> DEFINE read == overview.read
<1>1. /\ committed \in Seq(Ids) /\ Done \in SUBSET Begun
      /\ Len(committed) \in Nat
  BY DEF BegunInv
<1>2. PICK moment : Timed(posted, committed, overview, moment)
  BY DEF OverviewInv, OverviewOf
<1>3. PICK order \in Orders : Along(overview, order)
  BY DEF OverviewInv, OverviewOf
<1>4. read \in Seq(Answers) /\ overview.from \in Nat
  BY DEF OverviewInv, OverviewOf, Overviews
<1>5. PICK N \in Nat : N = Len(read) /\ DOMAIN read = 1 .. N
  BY <1>4
<1>6. \A i \in 1 .. N : /\ read[i] \in Answers /\ read[i].account \in Own
                        /\ read[i].account \in Accounts
  <2>1. \A i \in 1 .. N : read[i] \in Answers
    BY <1>4, <1>5
  <2> HIDE DEF read
  <2> QED  BY <2>1, OwnFinite DEF Answers
<1>7. \A i \in 1 .. N : /\ moment[i] \in overview.from .. Len(committed)
                        /\ \A k \in 1 .. i : moment[k] <= moment[i]
                        /\ Shows(posted, committed, overview.dashboard, read[i], moment[i])
  BY <1>2, <1>5 DEF Timed
<1>8. moment \in [DOMAIN read -> overview.from .. Len(committed)]
  BY <1>2, <1>5 DEF Timed
<1> HIDE DEF read
<1>9. ASSUME NEW i \in 1 .. N
      PROVE  \/ read[i].failed /\ overview.dashboard
             \/ read[i].balance
                  = BalanceOf(read[i].account, Range(SubSeq(committed, 1, moment[i])))
  <2>1. moment[i] \in 0 .. Len(committed)
    BY <1>1, <1>4, <1>7
  <2>2. First(committed, moment[i]) \in SUBSET Begun
    BY <1>1, <2>1 DEF First, Done
  <2>3. Range(SubSeq(committed, 1, moment[i])) = First(committed, moment[i])
    BY <1>1, <2>1, FirstIs
  <2>4. BalanceOf(read[i].account, First(committed, moment[i]))
          = BalanceIn(posted, read[i].account, First(committed, moment[i]))
    BY <1>6, <2>2, BalanceOfIs
  <2> QED  BY <1>7, <2>3, <2>4 DEF Shows
<1>10. ASSUME overview.left = << >>, overview.from = Len(committed),
              \A i \in 1 .. N : ~read[i].failed
       PROVE  FoldLeft(LAMBDA n, r : n + r.balance, 0, read)
                = -MapThenSumSet(BalanceNow, Accounts \ Own)
  <2> DEFINE bal == [a \in Accounts |-> BalanceIn(posted, a, Done)]
  <2>1. N = Cardinality(Own) /\ \A i \in 1 .. N : read[i].account = order[i]
    BY <1>3, <1>5, <1>10 DEF Along, read
  <2>2. First(committed, Len(committed)) = Done
    BY DEF First, Done
  <2>3. \A i \in 1 .. N : moment[i] = Len(committed)
    BY <1>1, <1>7, <1>10
  <2>4. ASSUME NEW i \in 1 .. N
        PROVE  BalancesOf(read)[i] = bal[order[i]]
    <3>1. Shows(posted, committed, overview.dashboard, read[i], Len(committed))
      BY <1>7, <2>3
    <3>2. read[i].balance = BalanceIn(posted, read[i].account, Done)
      BY <1>10, <2>2, <3>1 DEF Shows
    <3> QED  BY <1>5, <1>6, <2>1, <3>2 DEF BalancesOf
  <2>5. IntOn(bal, Accounts) /\ IntOn(bal, Own)
    BY <1>1, OwnFinite, BalanceType DEF IntOn
  <2>6. SumOver(bal, Accounts) = 0
    <3>1. MineIn(posted, Done) \in SUBSET Begun
      BY <1>1 DEF MineIn
    <3> QED  BY <3>1, BalancesNet DEF BalanceIn
  <2>a. MapThenSumSet(BalanceNow, Accounts \ Own) = SumOver(bal, Accounts \ Own)
    BY OthersAre
  <2> HIDE DEF bal
  <2>b. SumOver(bal, Accounts) = SumOver(bal, Own) + SumOver(bal, Accounts \ Own)
    <3>1. Own \in SUBSET Accounts /\ Accounts \ Own \in SUBSET Accounts
          /\ Own \cap (Accounts \ Own) = {} /\ Own \cup (Accounts \ Own) = Accounts
      BY OwnFinite
    <3>2. SumOver(bal, Own \cup (Accounts \ Own))
            = SumOver(bal, Own) + SumOver(bal, Accounts \ Own)
      BY <2>5, <3>1, AccountsAssumption, SumUnion
    <3> QED  BY <3>1, <3>2, Zenon
  <2>c. SumOver(bal, Own) \in Int /\ SumOver(bal, Accounts \ Own) \in Int
    <3>1. IsFiniteSet(Accounts \ Own) /\ IntOn(bal, Accounts \ Own)
      BY <2>5, AccountsAssumption, FS_Subset DEF IntOn
    <3> QED  BY <2>5, <3>1, OwnFinite, SumType
  <2>7. \A i \in 1 .. Cardinality(Own) : BalancesOf(read)[i] = bal[order[i]]
    BY <2>1, <2>4
  <2>8. SumOver(BalancesOf(read), 1 .. Cardinality(Own)) = SumOver(bal, Own)
    BY <2>5, <2>7, SumInOrder
  <2>9. FoldLeft(LAMBDA n, r : n + r.balance, 0, read)
          = SumOver(BalancesOf(read), 1 .. Len(read))
    BY <1>4, AnswersSum
  <2>10. SumOver(BalancesOf(read), 1 .. Len(read)) = SumOver(bal, Own)
    BY <1>5, <2>1, <2>8
  <2>11. SumOver(bal, Own) = -SumOver(bal, Accounts \ Own)
    BY <2>6, <2>b, <2>c
  <2> QED  BY <2>9, <2>10, <2>11, <2>a, Zenon
<1>11. \E time \in [DOMAIN read -> overview.from .. Len(committed)] :
         \A i \in DOMAIN read :
           /\ \A k \in 1 .. i : time[k] <= time[i]
           /\ \/ read[i].failed /\ overview.dashboard
              \/ read[i].balance
                   = BalanceOf(read[i].account, Range(SubSeq(committed, 1, time[i])))
  <2> WITNESS moment \in [DOMAIN read -> overview.from .. Len(committed)]
  <2> QED  BY <1>5, <1>7, <1>9
<1>12. overview.left = << >> /\ overview.from = Len(committed) =>
         \/ \E i \in DOMAIN read : read[i].failed
         \/ FoldLeft(LAMBDA n, r : n + r.balance, 0, read)
              = -MapThenSumSet(BalanceNow, Accounts \ Own)
  BY <1>5, <1>10
<1> QED  BY <1>11, <1>12, Zenon DEF BalancesOfAMoment, read

(* However the commits fall between the reads of one request, each balance shown
   is what the account came to at some moment of the request, with whole journals
   only; a failure shows as zero on the dashboard and nowhere else; and when
   nothing was committed meanwhile and nothing failed, the balances are short of
   zero by what the user's journals put on accounts of others
   (AccountService.ListAccounts, DashboardHandler). *)
THEOREM AnswersAreBalances == ListingSpec => []BalancesOfAMoment
<1>1. BegunInv /\ OverviewInv => BalancesOfAMoment
  BY BalancesFromInv DEF BalancesOfAMoment
<1> QED  BY <1>1, ListingInvariant, OverviewInvariant, PTL
=============================================================================
