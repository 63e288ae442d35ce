---------------------------- MODULE ImportProofs ----------------------------
(***************************************************************************)
(* Proofs about Import, for any number of concurrent confirmations, any    *)
(* files and any number of faults.                                         *)
(***************************************************************************)
EXTENDS Import, FiniteSetTheorems, TLAPS

Working == {"create", "record"}

\* The rows a process has passed whose hash is recorded, but for the row it
\* is importing: that one was not recorded when it was looked up.
Passed(p)  == {file[p][i] : i \in 1 .. pos[p] - 1} \cap dedup
Counted(p) == {h \in Passed(p) : pc[p] \in Working => h # Row(p)}

RowsPosted(p) ==
  /\ pc[p] = "record" => journals[Row(p)] >= 1
  /\ result[p].failed = 0 =>
       \A i \in 1 .. pos[p] - 1 : file[p][i] \in Hashes => journals[file[p][i]] >= 1

Answered(p) == p \in answered => pc[p] = "idle" /\ pos[p] = Len(file[p]) + 1

ImportedCounted(p) == result[p].imported <= Cardinality(Counted(p)) + faults

Good(p) == RowsPosted(p) /\ Answered(p) /\ ImportedCounted(p)

DedupPosted == \A h \in dedup : journals[h] >= 1

IInv == TypeOK /\ DedupPosted /\ \A p \in Procs : Good(p)
-----------------------------------------------------------------------------
(* Types. *)
LEMMA TypeNext ==
  ASSUME TypeOK, NEW p \in Procs,
         NEW count \in {"imported", "duplicates", "failed"}, NextRow(p, count),
         pos[p] <= Len(file[p])
  PROVE  /\ pc' \in [Procs -> {"idle", "check", "create", "record"}]
         /\ file' \in [Procs -> Seq(Hashes \cup {BadRow})]
         /\ pos' \in [Procs -> Nat \ {0}]
         /\ result' \in [Procs -> Results]
         /\ answered' \subseteq Procs
         /\ \A q \in Procs : /\ pos'[q] <= Len(file'[q]) + 1
                             /\ pc'[q] \in Working =>
                                  pos'[q] <= Len(file'[q]) /\ file'[q][pos'[q]] \in Hashes
<1>1. [result[p] EXCEPT ![count] = @ + 1] \in Results
  <2>1. result[p] \in Results
    BY DEF TypeOK
  <2>2. /\ result[p].imported \in Nat /\ result[p].duplicates \in Nat
        /\ result[p].failed \in Nat
    BY <2>1 DEF Results
  <2>3. CASE count = "imported"
    BY <2>1, <2>2, <2>3 DEF Results
  <2>4. CASE count = "duplicates"
    BY <2>1, <2>2, <2>4 DEF Results
  <2>5. CASE count = "failed"
    BY <2>1, <2>2, <2>5 DEF Results
  <2> QED  BY <2>3, <2>4, <2>5
<1>2. result' \in [Procs -> Results]
  <2>1. result' = [result EXCEPT ![p] = [result[p] EXCEPT ![count] = @ + 1]]
    BY DEF NextRow
  <2> QED  BY <1>1, <2>1 DEF TypeOK
<1>3. file[p] \in Seq(Hashes \cup {BadRow}) /\ Len(file[p]) \in Nat
  BY DEF TypeOK
<1> QED  BY <1>2, <1>3 DEF NextRow, TypeOK, Working

LEMMA TypeStep == TypeOK /\ [Next]_vars => TypeOK'
<1> SUFFICES ASSUME TypeOK, [Next]_vars PROVE TypeOK'
  OBVIOUS
<1>1. CASE UNCHANGED vars
  BY <1>1 DEF vars, tables, TypeOK
<1>2. ASSUME NEW p \in Procs, NEW f \in Files, Confirm(p, f) PROVE TypeOK'
  <2>1. f \in Seq(Hashes \cup {BadRow}) /\ Len(f) \in Nat
    BY FilesAssumption
  <2>2. NoResult \in Results
    BY DEF NoResult, Results
  <2> QED  BY <1>2, <2>1, <2>2 DEF Confirm, TypeOK, tables
<1>3. ASSUME NEW p \in Procs, PassOverBad(p) PROVE TypeOK'
  <2>1. file[p] \in Seq(Hashes \cup {BadRow}) /\ Len(file[p]) \in Nat
    BY DEF TypeOK
  <2>2. pc[p] \notin {"create", "record"} /\ pos[p] + 1 <= Len(file[p]) + 1
    BY <1>3, <2>1 DEF PassOverBad, TypeOK
  <2> QED  BY <1>3, <2>1, <2>2 DEF PassOverBad, TypeOK, tables
<1>4. ASSUME NEW p \in Procs,
             CheckNew(p) \/ CreateJournal(p) \/ Finish(p) \/ Crash(p)  PROVE TypeOK'
  <2>1. CASE CheckNew(p)
    BY <2>1 DEF CheckNew, At, Goto, Row, TypeOK, tables
  <2>2. CASE CreateJournal(p)
    <3>1. journals' \in [Hashes -> Nat]
      BY <2>2 DEF CreateJournal, At, TypeOK
    <3> QED  BY <2>2, <3>1 DEF CreateJournal, At, Goto, Row, TypeOK, tables
  <2>3. CASE Finish(p)
    BY <2>3 DEF Finish, TypeOK, tables
  <2>4. CASE Crash(p)
    <3>1. lost' \in [Hashes -> Nat]
      BY <2>4 DEF Crash, Row, TypeOK
    <3> QED  BY <2>4, <3>1 DEF Crash, Fault, TypeOK, tables
  <2> QED  BY <1>4, <2>1, <2>2, <2>3, <2>4
<1>5. ASSUME NEW p \in Procs,
             CheckDuplicate(p) \/ CheckFails(p) \/ Record(p) \/ RecordFails(p)
             \/ \E committed \in BOOLEAN : CreateFails(p, committed)
      PROVE  TypeOK'
  <2>1. pos[p] <= Len(file[p]) /\ Row(p) \in Hashes
    BY <1>5 DEF CheckDuplicate, CheckFails, Record, RecordFails, CreateFails, At
  <2>2. PICK count \in {"imported", "duplicates", "failed"} : NextRow(p, count)
    BY <1>5 DEF CheckDuplicate, CheckFails, Record, RecordFails, CreateFails
  <2>3. /\ dedup' \subseteq Hashes /\ faults' \in Nat
        /\ journals' \in [Hashes -> Nat] /\ lost' \in [Hashes -> Nat]
    <3>1. CASE CheckDuplicate(p) \/ CheckFails(p)
      BY <3>1 DEF CheckDuplicate, CheckFails, Fault, TypeOK, tables
    <3>2. CASE Record(p) \/ RecordFails(p)
      BY <2>1, <3>2 DEF Record, RecordFails, Fault, TypeOK, tables
    <3>3. ASSUME NEW committed \in BOOLEAN, CreateFails(p, committed)
          PROVE  /\ dedup' \subseteq Hashes /\ faults' \in Nat
                 /\ journals' \in [Hashes -> Nat] /\ lost' \in [Hashes -> Nat]
      <4>1. CASE committed
        <5>1. /\ journals' = [journals EXCEPT ![Row(p)] = @ + 1]
              /\ lost' = [lost EXCEPT ![Row(p)] = @ + 1]
              /\ dedup' = dedup /\ faults' = faults + 1
          BY <3>3, <4>1 DEF CreateFails, Fault
        <5> QED  BY <2>1, <5>1 DEF TypeOK
      <4>2. CASE ~ committed
        BY <2>1, <3>3, <4>2 DEF CreateFails, Fault, TypeOK, tables
      <4> QED  BY <4>1, <4>2
    <3> QED  BY <1>5, <3>1, <3>2, <3>3
  <2> QED  BY <2>1, <2>2, <2>3, TypeNext DEF TypeOK, Working
<1> QED  BY <1>1, <1>2, <1>3, <1>4, <1>5 DEF Next
-----------------------------------------------------------------------------
(* The tables only grow. *)
LEMMA Growth ==
  ASSUME TypeOK, [Next]_vars
  PROVE  /\ dedup \subseteq dedup' /\ faults <= faults'
         /\ \A h \in Hashes : journals[h] <= journals'[h] /\ lost[h] <= lost'[h]
<1>1. CASE UNCHANGED vars
  BY <1>1 DEF vars, tables, TypeOK
<1>2. ASSUME NEW p \in Procs,
             \/ \E f \in Files : Confirm(p, f)
             \/ PassOverBad(p) \/ CheckNew(p) \/ CheckDuplicate(p) \/ Finish(p)
             \/ CheckFails(p)
      PROVE  dedup' = dedup /\ faults <= faults' /\ journals' = journals /\ lost' = lost
  BY <1>2 DEF TypeOK, tables, Confirm, PassOverBad, CheckNew, CheckDuplicate, CheckFails,
     Finish, Fault
<1>3. ASSUME NEW p \in Procs, Crash(p) \/ RecordFails(p) \/ Record(p) \/ CreateJournal(p)
      PROVE  /\ dedup \subseteq dedup' /\ faults <= faults'
             /\ \A h \in Hashes : journals[h] <= journals'[h] /\ lost[h] <= lost'[h]
  <2>1. CASE Crash(p)
    <3>1. CASE pc[p] = "record"
      BY <2>1, <3>1 DEF TypeOK, tables, Crash, Fault
    <3>2. CASE pc[p] # "record"
      BY <2>1, <3>2 DEF TypeOK, tables, Crash, Fault
    <3> QED  BY <3>1, <3>2
  <2>2. CASE RecordFails(p)
    BY <2>2 DEF TypeOK, tables, RecordFails, Fault
  <2>3. CASE Record(p)
    BY <2>3 DEF TypeOK, Record
  <2>4. CASE CreateJournal(p)
    BY <2>4 DEF TypeOK, CreateJournal
  <2> QED  BY <1>3, <2>1, <2>2, <2>3, <2>4
<1>4. ASSUME NEW p \in Procs, NEW committed \in BOOLEAN, CreateFails(p, committed)
      PROVE  /\ dedup \subseteq dedup' /\ faults <= faults'
             /\ \A h \in Hashes : journals[h] <= journals'[h] /\ lost[h] <= lost'[h]
  <2>1. CASE committed
    <3>1. /\ journals' = [journals EXCEPT ![Row(p)] = @ + 1]
          /\ lost' = [lost EXCEPT ![Row(p)] = @ + 1]
          /\ dedup' = dedup /\ faults' = faults + 1
      BY <1>4, <2>1 DEF CreateFails, Fault
    <3> QED  BY <3>1 DEF TypeOK
  <2>2. CASE ~ committed
    BY <1>4, <2>2 DEF TypeOK, CreateFails, Fault
  <2> QED  BY <2>1, <2>2
<1>5. \A h \in Hashes : journals[h] <= journals[h] /\ lost[h] <= lost[h]
  BY DEF TypeOK
<1> QED  BY <1>1, <1>2, <1>3, <1>4, <1>5 DEF Next

(* A step of p leaves the part of the state that belongs to q alone. *)
LEMMA OthersKeep ==
  ASSUME TypeOK, NEW p \in Procs, NEW q \in Procs \ {p},
         \/ \E f \in Files : Confirm(p, f)
         \/ PassOverBad(p) \/ CheckNew(p) \/ CheckDuplicate(p) \/ CheckFails(p)
         \/ CreateJournal(p) \/ Record(p) \/ RecordFails(p)
         \/ \E committed \in BOOLEAN : CreateFails(p, committed)
         \/ Finish(p) \/ Crash(p)
  PROVE  /\ pc'[q] = pc[q] /\ file'[q] = file[q] /\ pos'[q] = pos[q]
         /\ result'[q] = result[q] /\ (q \in answered' <=> q \in answered)
  BY DEF TypeOK, tables, Confirm, PassOverBad, CheckNew, CheckDuplicate,
     CheckFails, CreateJournal, CreateFails, Record, RecordFails, Finish, Crash, Goto,
     NextRow

(* Finitely many rows have been passed. *)
LEMMA PrefixFinite ==
  ASSUME NEW f, NEW n \in Int
  PROVE  IsFiniteSet({f[i] : i \in 1 .. n})
<1> DEFINE T == {f[i] : i \in 1 .. n}
           g == [i \in 1 .. n |-> f[i]]
<1>1. g \in Surjection(1 .. n, T)
  BY DEF Surjection
<1>2. IsFiniteSet(1 .. n)
  BY FS_Interval
<1>3. IsFiniteSet(T)
  <2> HIDE DEF T, g
  <2> QED  BY <1>1, <1>2, FS_Surjection
<1> QED  BY <1>3

LEMMA PassedFinite ==
  ASSUME NEW f, NEW n \in Int, NEW S, S \subseteq {f[i] : i \in 1 .. n}
  PROVE  IsFiniteSet(S) /\ Cardinality(S) \in Nat
         /\ \A T \in SUBSET S : IsFiniteSet(T) /\ Cardinality(T) <= Cardinality(S)
                               /\ Cardinality(T) \in Nat
<1> DEFINE R == {f[i] : i \in 1 .. n}
<1>1. IsFiniteSet(R) /\ S \subseteq R
  BY PrefixFinite
<1> HIDE DEF R
<1>2. \A T \in SUBSET R : IsFiniteSet(T)
  BY <1>1, FS_Subset
<1>3. \A T \in SUBSET R : Cardinality(T) \in Nat
  BY <1>2, FS_CardinalityType
<1>4. IsFiniteSet(S)
  BY <1>1, <1>2
<1>5. \A T \in SUBSET S : Cardinality(T) <= Cardinality(S)
  BY <1>4, FS_Subset
<1> QED  BY <1>1, <1>2, <1>3, <1>5

(* The count of a process stays right if what it has counted does not shrink
   and it imports no more than there are new faults. *)
LEMMA CountGrows ==
  ASSUME TypeOK, TypeOK', NEW q \in Procs, ImportedCounted(q),
         Counted(q) \subseteq Counted(q)',
         (result[q].imported)' - result[q].imported <= faults' - faults
  PROVE  ImportedCounted(q)'
<1>1. PICK f, n, S, T : f = file'[q] /\ n = pos'[q] - 1 /\ T = Counted(q) /\ S = Counted(q)'
  OBVIOUS
<1>2. n \in Int /\ S \subseteq {f[i] : i \in 1 .. n} /\ T \in SUBSET S
  BY <1>1 DEF Counted, Passed, TypeOK
<1>3. Cardinality(T) <= Cardinality(S) /\ Cardinality(S) \in Nat /\ Cardinality(T) \in Nat
  BY <1>2, PassedFinite
<1>4. result[q].imported <= Cardinality(T) + faults
  BY <1>1 DEF ImportedCounted
<1>5. /\ result[q].imported \in Nat /\ (result[q].imported)' \in Nat
      /\ faults \in Nat /\ faults' \in Nat
  BY DEF TypeOK, Results
<1>6. (result[q].imported)' <= Cardinality(S) + faults'
  BY <1>3, <1>4, <1>5
<1> QED  BY <1>6, <1>1 DEF ImportedCounted

(* What holds of a process keeps holding while another one steps. *)
LEMMA GoodOthers ==
  ASSUME TypeOK, TypeOK', [Next]_vars, NEW q \in Procs, Good(q),
         pc'[q] = pc[q], file'[q] = file[q], pos'[q] = pos[q],
         result'[q] = result[q], q \in answered' <=> q \in answered
  PROVE  Good(q)'
<1>1. /\ dedup \subseteq dedup' /\ faults <= faults' /\ faults \in Nat /\ faults' \in Nat
      /\ journals \in [Hashes -> Nat] /\ journals' \in [Hashes -> Nat]
      /\ \A h \in Hashes : journals[h] <= journals'[h]
      /\ result[q].imported \in Nat
  BY Growth DEF TypeOK, Results
<1>2. pc[q] = "record" => Row(q) \in Hashes
  BY DEF TypeOK, Row
<1>3. RowsPosted(q)'
  BY <1>1, <1>2 DEF Good, RowsPosted, Row
<1>4. Answered(q)'
  BY DEF Good, Answered
<1>5. ImportedCounted(q)'
  <2>1. Counted(q) \subseteq Counted(q)'
    BY <1>1 DEF Counted, Passed, Row
  <2> QED  BY <1>1, <2>1, CountGrows DEF Good
<1> QED  BY <1>3, <1>4, <1>5 DEF Good

(* A step of p that leaves it at a row: pos, file and result stay. *)
LEMMA GoodStays ==
  ASSUME IInv, TypeOK', [Next]_vars, NEW p \in Procs,
         NEW step \in {"create", "record"}, Goto(p, step),
         IF step = "create" THEN Row(p) \notin dedup ELSE pc[p] = "create",
         dedup' = dedup, Row(p) \in Hashes,
         step = "record" => (journals[Row(p)])' >= 1,
         pc[p] # "idle"
  PROVE  Good(p)'
<1>0. /\ TypeOK /\ Good(p) /\ pc'[p] = step
      /\ file'[p] = file[p] /\ pos'[p] = pos[p] /\ result'[p] = result[p]
  BY DEF IInv, Goto, TypeOK
<1>1. /\ faults <= faults' /\ faults \in Nat /\ faults' \in Nat
      /\ journals \in [Hashes -> Nat] /\ journals' \in [Hashes -> Nat]
      /\ \A h \in Hashes : journals[h] <= journals'[h]
      /\ result[p].imported \in Nat
  BY <1>0, Growth DEF TypeOK, Results
<1>2. RowsPosted(p)'
  BY <1>0, <1>1 DEF Good, RowsPosted, Row, Goto
<1>3. Answered(p)'
  BY <1>0 DEF Good, Answered, Goto
<1>4. Counted(p) \subseteq Counted(p)'
  BY <1>0 DEF Counted, Passed, Row, Goto, Working
<1>5. ImportedCounted(p)'
  BY <1>0, <1>1, <1>4, CountGrows DEF Good
<1> QED  BY <1>2, <1>3, <1>5 DEF Good

(* A step of p to its next row: the row is posted or counted as failed, and
   it is imported only if it was recorded or that failed. *)
LEMMA GoodNext ==
  ASSUME IInv, TypeOK', [Next]_vars, NEW p \in Procs,
         NEW count \in {"imported", "duplicates", "failed"}, NextRow(p, count),
         Row(p) \in Hashes, pos[p] <= Len(file[p]), pc[p] # "idle",
         count # "failed" => journals[Row(p)] >= 1,
         count = "imported" => \/ faults' = faults + 1
                               \/ pc[p] = "record" /\ Row(p) \in dedup'
  PROVE  Good(p)'
<1>0. /\ TypeOK /\ Good(p) /\ pc'[p] = "check"
      /\ file'[p] = file[p] /\ pos'[p] = pos[p] + 1 /\ pos[p] \in Nat \ {0}
      /\ result'[p] = [result[p] EXCEPT ![count] = @ + 1]
  BY DEF IInv, NextRow, TypeOK
<1>1. /\ dedup \subseteq dedup'
      /\ faults <= faults' /\ faults \in Nat /\ faults' \in Nat
      /\ journals \in [Hashes -> Nat] /\ journals' \in [Hashes -> Nat]
      /\ \A h \in Hashes : journals[h] <= journals'[h]
      /\ result[p] \in Results
  BY <1>0, Growth DEF TypeOK
<1>2. /\ (result[p].imported)' = result[p].imported + (IF count = "imported" THEN 1 ELSE 0)
      /\ (result[p].failed)' = result[p].failed + (IF count = "failed" THEN 1 ELSE 0)
      /\ result[p].imported \in Nat /\ result[p].failed \in Nat
  BY <1>0, <1>1 DEF Results
<1>3. RowsPosted(p)'
  <2> SUFFICES ASSUME (result[p].failed)' = 0, NEW i \in 1 .. pos[p], file[p][i] \in Hashes
               PROVE  journals'[file[p][i]] >= 1
    BY <1>0 DEF RowsPosted
  <2>1. count # "failed" /\ result[p].failed = 0
    BY <1>2
  <2>2. CASE i = pos[p]
    BY <1>1, <2>1, <2>2 DEF Row
  <2>3. CASE i # pos[p]
    <3>1. i \in 1 .. pos[p] - 1
      BY <1>0, <2>3
    <3> QED  BY <1>0, <1>1, <2>1, <3>1 DEF Good, RowsPosted
  <2> QED  BY <2>2, <2>3
<1>4. Answered(p)'
  BY <1>0 DEF Good, Answered, NextRow
<1>5. Counted(p) \subseteq Counted(p)'
  BY <1>0, <1>1 DEF Counted, Passed, Working
<1>6. ImportedCounted(p)'
  <2>1. CASE count # "imported" \/ faults' = faults + 1
    <3>1. (result[p].imported)' - result[p].imported <= faults' - faults
      BY <1>1, <1>2, <2>1
    <3> QED  BY <1>0, <1>5, <3>1, CountGrows DEF Good
  <2>2. CASE count = "imported" /\ pc[p] = "record" /\ Row(p) \in dedup'
    <3>1. Row(p) \notin Counted(p)
      BY <2>2 DEF Counted, Working
    <3>2. Row(p) \in Counted(p)'
      BY <1>0, <2>2 DEF Counted, Passed, Working, Row
    <3>3. PICK f, n, S, T, h : /\ f = file'[p] /\ n = pos'[p] - 1
                               /\ T = Counted(p) /\ S = Counted(p)' /\ h = Row(p)
      OBVIOUS
    <3>4. n \in Int /\ S \subseteq {f[i] : i \in 1 .. n} /\ T \cup {h} \in SUBSET S /\ h \notin T
      <4>1. n \in Int
        BY <3>3, <1>0
      <4>2. S \subseteq {f[i] : i \in 1 .. n}
        BY <3>3 DEF Counted, Passed
      <4>3. T \cup {h} \in SUBSET S /\ h \notin T
        BY <1>5, <3>1, <3>2, <3>3
      <4> QED  BY <4>1, <4>2, <4>3
    <3>5. /\ Cardinality(T \cup {h}) <= Cardinality(S) /\ IsFiniteSet(T)
          /\ Cardinality(S) \in Nat /\ Cardinality(T) \in Nat
      BY <3>4, PassedFinite
    <3>6. Cardinality(T \cup {h}) = Cardinality(T) + 1
      BY <3>4, <3>5, FS_AddElement
    <3>7. result[p].imported <= Cardinality(T) + faults
      BY <1>0, <3>3 DEF Good, ImportedCounted
    <3>8. (result[p].imported)' <= Cardinality(S) + faults'
      BY <1>1, <1>2, <2>2, <3>5, <3>6, <3>7
    <3> QED  BY <3>8, <3>3 DEF ImportedCounted
  <2> QED  BY <2>1, <2>2
<1> QED  BY <1>3, <1>4, <1>6 DEF Good
-----------------------------------------------------------------------------
LEMMA InitInv == Init => IInv
<1> SUFFICES ASSUME Init PROVE IInv
  OBVIOUS
<1>1. TypeOK
  <2>1. << >> \in Seq(Hashes \cup {BadRow}) /\ Len(<< >>) = 0
    OBVIOUS
  <2>2. NoResult \in Results
    BY DEF NoResult, Results
  <2> QED  BY <2>1, <2>2 DEF Init, TypeOK
<1>2. ASSUME NEW p \in Procs PROVE Good(p)
  <2>1. Counted(p) = {} /\ Cardinality({}) = 0
    BY FS_EmptySet DEF Init, Counted, Passed
  <2> QED  BY <1>2, <2>1 DEF Init, Good, RowsPosted, Answered, ImportedCounted, NoResult
<1> QED  BY <1>1, <1>2 DEF Init, IInv, DedupPosted

(* Every step preserves the invariant. *)
LEMMA StepInv == IInv /\ [Next]_vars => IInv'
<1> SUFFICES ASSUME IInv, [Next]_vars PROVE IInv'
  OBVIOUS
<1>1. CASE UNCHANGED vars
  <2>1. TypeOK' /\ DedupPosted'
    BY <1>1, TypeStep DEF vars, tables, IInv, DedupPosted
  <2>2. ASSUME NEW p \in Procs PROVE Good(p)'
    BY <1>1, <2>1, <2>2, GoodOthers DEF vars, tables, IInv
  <2> QED  BY <2>1, <2>2 DEF IInv
<1>2. ASSUME NEW p \in Procs,
             \/ \E f \in Files : Confirm(p, f)
             \/ PassOverBad(p) \/ CheckNew(p) \/ CheckDuplicate(p) \/ CheckFails(p)
             \/ CreateJournal(p) \/ Record(p) \/ RecordFails(p)
             \/ \E committed \in BOOLEAN : CreateFails(p, committed)
             \/ Finish(p) \/ Crash(p)
      PROVE  IInv'
  <2>t. TypeOK /\ TypeOK' /\ DedupPosted /\ Good(p)
    BY TypeStep DEF IInv
  <2>o. ASSUME NEW q \in Procs \ {p} PROVE Good(q)'
    BY <1>2, <2>t, OthersKeep, GoodOthers DEF IInv
  <2>g. /\ dedup \subseteq dedup' /\ dedup \subseteq Hashes
        /\ journals \in [Hashes -> Nat] /\ journals' \in [Hashes -> Nat]
        /\ \A h \in Hashes : journals[h] <= journals'[h]
        /\ faults \in Nat /\ faults' \in Nat /\ faults <= faults'
        /\ result[p] \in Results
    BY <2>t, Growth DEF TypeOK
  <2>s. SUFFICES DedupPosted' /\ Good(p)'
    BY <2>t, <2>o DEF IInv
  <2>k. ASSUME dedup' = dedup PROVE DedupPosted'
    BY <2>k, <2>t, <2>g DEF DedupPosted
  <2>1. ASSUME NEW f \in Files, Confirm(p, f) PROVE DedupPosted' /\ Good(p)'
    <3>1. /\ pc'[p] = "check" /\ pos'[p] = 1 /\ result'[p] = NoResult /\ p \notin answered'
          /\ dedup' = dedup
      BY <2>1, <2>t DEF Confirm, TypeOK, tables
    <3>2. Counted(p)' = {}
      BY <3>1 DEF Counted, Passed
    <3>3. Cardinality({}) = 0
      BY FS_EmptySet
    <3>4. RowsPosted(p)' /\ Answered(p)'
      BY <3>1 DEF RowsPosted, Answered
    <3>5. ImportedCounted(p)'
      BY <3>1, <3>2, <3>3, <2>g DEF ImportedCounted, NoResult
    <3> QED  BY <3>1, <3>4, <3>5, <2>k DEF Good
  <2>2. CASE PassOverBad(p)
    <3>1. /\ pc'[p] = pc[p] /\ pc[p] = "check" /\ pos'[p] = pos[p] + 1 /\ file' = file
          /\ pos[p] \in Nat \ {0} /\ result' = result /\ answered' = answered
          /\ dedup' = dedup /\ journals' = journals /\ file[p][pos[p]] \notin Hashes
      BY <2>2, <2>t, BadRowAssumption DEF PassOverBad, TypeOK, tables, Row
    <3>2. RowsPosted(p)' /\ Answered(p)'
      BY <3>1, <2>t DEF Good, RowsPosted, Answered
    <3>3. Counted(p) \subseteq Counted(p)'
      BY <3>1 DEF Counted, Passed, Working
    <3>4. ImportedCounted(p)'
      BY <3>1, <3>3, <2>t, <2>g, CountGrows DEF Good, Results
    <3> QED  BY <3>1, <3>2, <3>4, <2>k DEF Good
  <2>3. CASE CheckNew(p)
    BY <2>3, <2>t, <2>k, GoodStays DEF CheckNew, At, tables
  <2>4. CASE CheckDuplicate(p)
    <3>1. journals[Row(p)] >= 1
      BY <2>4, <2>t DEF CheckDuplicate, DedupPosted
    <3> QED  BY <2>4, <2>t, <2>k, <3>1, GoodNext DEF CheckDuplicate, At, tables
  <2>5. CASE CheckFails(p)
    BY <2>5, <2>t, <2>k, GoodNext DEF CheckFails, At, tables
  <2>6. CASE CreateJournal(p)
    <3>1. journals'[Row(p)] >= 1 /\ Row(p)' = Row(p)
      BY <2>6, <2>g DEF CreateJournal, At, Goto, Row
    <3>2. Row(p) \notin dedup \/ "record" # "create"
      OBVIOUS
    <3>3. (journals[Row(p)])' >= 1
      BY <3>1
    <3> QED  BY <2>6, <2>t, <2>k, <3>1, GoodStays DEF CreateJournal, At
  <2>7. CASE Record(p)
    <3>1. /\ Row(p) \in Hashes /\ journals[Row(p)] >= 1 /\ pc[p] = "record"
          /\ pos[p] <= Len(file[p])
          /\ dedup' = dedup \cup {Row(p)} /\ journals' = journals
      BY <2>7, <2>t DEF Record, At, Good, RowsPosted
    <3>2. DedupPosted'
      BY <3>1, <2>t DEF DedupPosted
    <3> QED  BY <2>7, <2>t, <3>1, <3>2, GoodNext DEF Record
  <2>8. CASE RecordFails(p)
    <3>1. /\ Row(p) \in Hashes /\ journals[Row(p)] >= 1 /\ pc[p] = "record"
          /\ pos[p] <= Len(file[p]) /\ dedup' = dedup /\ faults' = faults + 1
      BY <2>8, <2>t DEF RecordFails, At, Good, RowsPosted, tables, Fault
    <3> QED  BY <2>8, <2>t, <2>k, <3>1, GoodNext DEF RecordFails
  <2>9. ASSUME NEW committed \in BOOLEAN, CreateFails(p, committed)
        PROVE  DedupPosted' /\ Good(p)'
    BY <2>9, <2>t, <2>k, GoodNext DEF CreateFails, At
  <2>10. CASE Finish(p)
    <3>1. /\ pc'[p] = "idle" /\ pos[p] = Len(file[p]) + 1 /\ pc[p] = "check"
          /\ UNCHANGED <<file, pos, result, dedup, journals>>
      BY <2>10, <2>t DEF Finish, TypeOK, tables
    <3>2. RowsPosted(p)' /\ Answered(p)'
      BY <3>1, <2>t DEF Good, RowsPosted, Answered
    <3>3. Counted(p) \subseteq Counted(p)'
      BY <3>1 DEF Counted, Passed, Working
    <3>4. ImportedCounted(p)'
      BY <3>1, <3>3, <2>t, <2>g, CountGrows DEF Good, Results
    <3> QED  BY <3>1, <3>2, <3>4, <2>k DEF Good
  <2>11. CASE Crash(p)
    <3>1. /\ pc'[p] = "idle" /\ pc[p] # "idle"
          /\ UNCHANGED <<file, pos, result, dedup, journals, answered>>
      BY <2>11, <2>t DEF Crash, TypeOK, tables
    <3>2. RowsPosted(p)' /\ Answered(p)'
      BY <3>1, <2>t DEF Good, RowsPosted, Answered
    <3>3. Counted(p) \subseteq Counted(p)'
      BY <3>1 DEF Counted, Passed, Working
    <3>4. ImportedCounted(p)'
      BY <3>1, <3>3, <2>t, <2>g, CountGrows DEF Good, Results
    <3> QED  BY <3>1, <3>2, <3>4, <2>k DEF Good
  <2> QED  BY <1>2, <2>1, <2>2, <2>3, <2>4, <2>5, <2>6, <2>7, <2>8, <2>9, <2>10, <2>11
<1> QED  BY <1>1, <1>2 DEF Next
-----------------------------------------------------------------------------
(* A confirmation answered without errors has left no row that parses out,
   whatever the other confirmations do and whoever fails. *)
THEOREM ImportLosesNoRow == Spec => []EveryRowPosted
<1>1. IInv => EveryRowPosted
  <2> SUFFICES ASSUME IInv, NEW p \in answered, result[p].failed = 0,
                      NEW i \in 1 .. Len(file[p]), file[p][i] \in Hashes
               PROVE  journals[file[p][i]] >= 1
    BY DEF EveryRowPosted
  <2>1. p \in Procs /\ Good(p) /\ Len(file[p]) \in Nat
    BY DEF IInv, TypeOK
  <2>2. i \in 1 .. pos[p] - 1
    BY <2>1 DEF Good, Answered
  <2> QED  BY <2>1, <2>2 DEF Good, RowsPosted
<1> QED  BY <1>1, InitInv, StepInv, PTL DEF Spec

(* A confirmation imports each distinct row of its file once, and once more
   at most for every fault. *)
THEOREM ImportRepeatsOnFaultOnly == Spec => []OwnRowsOnce
<1>1. IInv => OwnRowsOnce
  <2> SUFFICES ASSUME IInv, NEW p \in Procs
               PROVE  result[p].imported <=
                        Cardinality({file[p][i] : i \in 1 .. Len(file[p])}) + faults
    BY DEF OwnRowsOnce
  <2>1. /\ ImportedCounted(p) /\ Len(file[p]) \in Nat /\ pos[p] \in Nat \ {0}
        /\ pos[p] <= Len(file[p]) + 1 /\ faults \in Nat
        /\ result[p] \in Results
    BY DEF IInv, Good, TypeOK
  <2> DEFINE R == {file[p][i] : i \in 1 .. Len(file[p])}
  <2>2. Counted(p) \in SUBSET R
    BY <2>1 DEF Counted, Passed
  <2>3. Cardinality(Counted(p)) <= Cardinality(R) /\ Cardinality(R) \in Nat
        /\ Cardinality(Counted(p)) \in Nat
    <3>1. IsFiniteSet(R)
      <4>1. PICK f, n : f = file[p] /\ n = Len(file[p])
        OBVIOUS
      <4>2. n \in Int
        BY <2>1, <4>1
      <4>3. IsFiniteSet({f[i] : i \in 1 .. n})
        BY <4>2, PrefixFinite
      <4> QED  BY <4>1, <4>3
    <3> HIDE DEF R
    <3>2. IsFiniteSet(Counted(p))
      BY <3>1, <2>2, FS_Subset
    <3> QED  BY <3>1, <3>2, <2>2, FS_Subset, FS_CardinalityType
  <2> QED  BY <2>1, <2>3 DEF ImportedCounted, Results
<1> QED  BY <1>1, InitInv, StepInv, PTL DEF Spec

(* The variables keep their types. *)
THEOREM ImportTypes == Spec => []TypeOK
<1>1. IInv => TypeOK
  BY DEF IInv
<1> QED  BY <1>1, InitInv, StepInv, PTL DEF Spec
-----------------------------------------------------------------------------
(* Counting the journals of a hash.  Until a hash is recorded, each of its
   journals is one somebody is still to record or one whose record was lost.
   Once it is, no process starts to create another. *)
Creating(h)  == {p \in Procs : pc[p] = "create" /\ Row(p) = h}
Recording(h) == {p \in Procs : pc[p] = "record" /\ Row(p) = h}

Count(h) ==
  /\ h \notin dedup => journals[h] <= lost[h] + Cardinality(Recording(h))
  /\ journals[h] + Cardinality(Creating(h)) <= lost[h] + Cardinality(Procs)

CountInv == TypeOK /\ \A h \in Hashes : Count(h)

(* Disjoint sets of processes have together at most all of them. *)
LEMMA DisjointCount ==
  ASSUME NEW S \in SUBSET Procs, NEW T \in SUBSET Procs, S \cap T = {}
  PROVE  /\ IsFiniteSet(S) /\ Cardinality(S) \in Nat /\ Cardinality(Procs) \in Nat
         /\ Cardinality(S) + Cardinality(T) <= Cardinality(Procs)
<1>1. IsFiniteSet(S) /\ IsFiniteSet(T) /\ IsFiniteSet(S \cup T) /\ IsFiniteSet(Procs)
  BY ProcsAssumption, FS_Subset
<1>2. Cardinality(S \cup T) = Cardinality(S) + Cardinality(T) - Cardinality(S \cap T)
  BY <1>1, FS_Union
<1>3. Cardinality(S \cup T) <= Cardinality(Procs)
  BY <1>1, FS_Subset
<1>4. Cardinality(S \cap T) = 0
  BY FS_EmptySet
<1> QED  BY <1>1, <1>2, <1>3, <1>4, FS_CardinalityType

\* What a step of p does to the counts of h.
Changes(p, h) ==
  \/ /\ journals'[h] = journals[h] /\ lost'[h] = lost[h]
     /\ Recording(h) \subseteq Recording(h)'
     /\ Creating(h)' \subseteq Creating(h) \/ h \notin dedup'
  \/ /\ journals'[h] = journals[h] /\ lost'[h] = lost[h]
     /\ h \in dedup' /\ Creating(h)' = Creating(h)
  \/ /\ journals'[h] = journals[h] /\ lost'[h] = lost[h] + 1
     /\ Recording(h)' = Recording(h) \ {p} /\ Creating(h)' \subseteq Creating(h)
  \/ /\ journals'[h] = journals[h] + 1 /\ lost'[h] = lost[h]
     /\ p \in Creating(h) /\ Creating(h)' = Creating(h) \ {p}
     /\ Recording(h)' = Recording(h) \cup {p}
  \/ /\ journals'[h] = journals[h] + 1 /\ lost'[h] = lost[h] + 1
     /\ Recording(h)' = Recording(h) /\ Creating(h)' \subseteq Creating(h)

LEMMA ChangesKeepCount ==
  ASSUME CountInv, TypeOK', [Next]_vars, NEW p \in Procs, NEW h \in Hashes, Changes(p, h)
  PROVE  Count(h)'
<1>1. PICK D, D2, R, R2, C, C2, j, j2, l, l2 :
        /\ D = dedup /\ D2 = dedup' /\ j = journals[h] /\ j2 = journals'[h]
        /\ l = lost[h] /\ l2 = lost'[h] /\ R = Recording(h) /\ R2 = Recording(h)'
        /\ C = Creating(h) /\ C2 = Creating(h)'
  OBVIOUS
<1>2. /\ D \subseteq D2 /\ j \in Nat /\ j2 \in Nat /\ l \in Nat /\ l2 \in Nat
  BY <1>1, Growth DEF CountInv, TypeOK
<1>3. /\ R \in SUBSET Procs /\ R2 \in SUBSET Procs /\ C \in SUBSET Procs
      /\ C2 \in SUBSET Procs /\ R \cap C = {} /\ R2 \cap C2 = {}
  BY <1>1 DEF Recording, Creating
<1>4. /\ h \notin D => j <= l + Cardinality(R)
      /\ j + Cardinality(C) <= l + Cardinality(Procs)
  BY <1>1 DEF CountInv, Count
<1>5. \/ j2 = j /\ l2 = l /\ R \subseteq R2 /\ (C2 \subseteq C \/ h \notin D2)
      \/ j2 = j /\ l2 = l /\ h \in D2 /\ C2 = C
      \/ j2 = j /\ l2 = l + 1 /\ R2 = R \ {p} /\ C2 \subseteq C
      \/ j2 = j + 1 /\ l2 = l /\ p \in C /\ C2 = C \ {p} /\ R2 = R \cup {p}
      \/ j2 = j + 1 /\ l2 = l + 1 /\ R2 = R /\ C2 \subseteq C
  BY <1>1 DEF Changes
<1>6. /\ h \notin D2 => j2 <= l2 + Cardinality(R2)
      /\ j2 + Cardinality(C2) <= l2 + Cardinality(Procs)
  <2>1. /\ Cardinality(R) + Cardinality(C) <= Cardinality(Procs)
        /\ Cardinality(R2) + Cardinality(C2) <= Cardinality(Procs)
        /\ IsFiniteSet(R) /\ IsFiniteSet(R2) /\ IsFiniteSet(C) /\ IsFiniteSet(C2)
        /\ Cardinality(R) \in Nat /\ Cardinality(R2) \in Nat
        /\ Cardinality(C) \in Nat /\ Cardinality(C2) \in Nat /\ Cardinality(Procs) \in Nat
    BY <1>3, DisjointCount
  <2>2. ASSUME C2 \subseteq C PROVE Cardinality(C2) <= Cardinality(C)
    BY <2>1, <2>2, FS_Subset
  <2>3. CASE j2 = j /\ l2 = l /\ R \subseteq R2 /\ (C2 \subseteq C \/ h \notin D2)
    <3>1. Cardinality(R) <= Cardinality(R2)
      BY <2>1, <2>3, FS_Subset
    <3> QED  BY <1>2, <1>4, <2>1, <2>2, <2>3, <3>1
  <2>4. CASE j2 = j /\ l2 = l /\ h \in D2 /\ C2 = C
    BY <1>2, <1>4, <2>1, <2>4
  <2>5. CASE j2 = j /\ l2 = l + 1 /\ R2 = R \ {p} /\ C2 \subseteq C
    <3>1. Cardinality(R) <= Cardinality(R2) + 1
      BY <2>1, <2>5, FS_RemoveElement
    <3> QED  BY <1>2, <1>4, <2>1, <2>2, <2>5, <3>1
  <2>6. CASE j2 = j + 1 /\ l2 = l /\ p \in C /\ C2 = C \ {p} /\ R2 = R \cup {p}
    <3>1. Cardinality(R2) = Cardinality(R) + 1
      BY <1>3, <2>1, <2>6, FS_AddElement
    <3>2. Cardinality(C2) = Cardinality(C) - 1
      BY <2>1, <2>6, FS_RemoveElement
    <3> QED  BY <1>2, <1>4, <2>1, <2>6, <3>1, <3>2
  <2>7. CASE j2 = j + 1 /\ l2 = l + 1 /\ R2 = R /\ C2 \subseteq C
    BY <1>2, <1>4, <2>1, <2>2, <2>7
  <2> QED  BY <1>5, <2>3, <2>4, <2>5, <2>6, <2>7
<1> QED  BY <1>1, <1>6 DEF Count

(* Every step preserves the counts. *)
LEMMA CountInvStep == CountInv /\ [Next]_vars => CountInv'
<1> SUFFICES ASSUME CountInv, [Next]_vars PROVE CountInv'
  OBVIOUS
<1>t. TypeOK /\ TypeOK'
  BY TypeStep DEF CountInv
<1>1. CASE UNCHANGED vars
  BY <1>1, <1>t DEF vars, tables, CountInv, Count, Recording, Creating, Row
<1>2. ASSUME NEW p \in Procs, NEW h \in Hashes,
             \/ \E f \in Files : Confirm(p, f)
             \/ PassOverBad(p) \/ CheckNew(p) \/ CheckDuplicate(p) \/ CheckFails(p)
             \/ CreateJournal(p) \/ Record(p) \/ RecordFails(p)
             \/ \E committed \in BOOLEAN : CreateFails(p, committed)
             \/ Finish(p) \/ Crash(p)
      PROVE  Count(h)'
  <2> SUFFICES Changes(p, h)
    BY <1>2, <1>t, ChangesKeepCount
  <2>r. PICK R, R2, C, C2 : /\ R = Recording(h) /\ R2 = Recording(h)'
                            /\ C = Creating(h) /\ C2 = Creating(h)'
    OBVIOUS
  <2>c. /\ R \subseteq Procs /\ R2 \subseteq Procs /\ C \subseteq Procs /\ C2 \subseteq Procs
        /\ p \in R <=> pc[p] = "record" /\ Row(p) = h
        /\ p \in C <=> pc[p] = "create" /\ Row(p) = h
        /\ p \in R2 <=> pc'[p] = "record" /\ Row(p)' = h
        /\ p \in C2 <=> pc'[p] = "create" /\ Row(p)' = h
    BY <2>r DEF Recording, Creating
  <2>o. \A q \in Procs \ {p} : (q \in R2 <=> q \in R) /\ (q \in C2 <=> q \in C)
    BY <1>2, <1>t, <2>r, OthersKeep DEF Recording, Creating, Row
  <2>q. ASSUME UNCHANGED <<journals, lost>>, pc[p] # "record", pc'[p] # "create"
        PROVE  Changes(p, h)
    <3>1. R \subseteq R2 /\ C2 \subseteq C
      BY <2>o, <2>c, <2>q
    <3> QED  BY <2>q, <3>1, <2>r DEF Changes
  <2>1. ASSUME NEW f \in Files, Confirm(p, f) PROVE Changes(p, h)
    <3>1. UNCHANGED <<journals, lost>> /\ pc[p] # "record" /\ pc'[p] # "create"
      BY <2>1, <1>t DEF Confirm, tables, TypeOK
    <3> QED  BY <3>1, <2>q
  <2>2. CASE PassOverBad(p) \/ CheckDuplicate(p) \/ CheckFails(p) \/ Finish(p)
    <3>1. UNCHANGED <<journals, lost>> /\ pc[p] # "record" /\ pc'[p] # "create"
      BY <2>2, <1>t DEF PassOverBad, CheckDuplicate, CheckFails, Finish, At, NextRow,
         tables, TypeOK
    <3> QED  BY <3>1, <2>q
  <2>3. CASE CheckNew(p)
    <3>1. /\ UNCHANGED <<journals, lost, dedup>> /\ pc[p] = "check" /\ Row(p)' = Row(p)
          /\ Row(p) \notin dedup /\ pc'[p] = "create"
      BY <2>3, <1>t DEF CheckNew, At, Goto, Row, tables, TypeOK
    <3>2. R \subseteq R2
      BY <3>1, <2>o, <2>c
    <3>3. C2 \subseteq C \/ h \notin dedup'
      BY <3>1, <2>o, <2>c
    <3> QED  BY <3>1, <3>2, <3>3, <2>r DEF Changes
  <2>4. CASE CreateJournal(p)
    <3>1. /\ lost' = lost /\ pc[p] = "create" /\ pc'[p] = "record" /\ Row(p)' = Row(p)
          /\ Row(p) \in Hashes /\ journals' = [journals EXCEPT ![Row(p)] = @ + 1]
      BY <2>4, <1>t DEF CreateJournal, At, Goto, Row, TypeOK
    <3>2. CASE Row(p) = h
      <4>1. /\ p \in C /\ C2 = C \ {p}
            /\ R2 = R \cup {p}
        BY <3>1, <3>2, <2>o, <2>c
      <4> QED  BY <3>1, <3>2, <4>1, <1>t, <2>r DEF Changes, TypeOK
    <3>3. CASE Row(p) # h
      <4>1. C2 = C /\ R2 = R
        BY <3>1, <3>3, <2>o, <2>c
      <4> QED  BY <3>1, <3>3, <4>1, <1>t, <2>r DEF Changes, TypeOK
    <3> QED  BY <3>2, <3>3
  <2>5. CASE Record(p)
    <3>1. /\ UNCHANGED <<journals, lost>> /\ pc[p] = "record" /\ pc'[p] = "check"
          /\ dedup' = dedup \cup {Row(p)}
      BY <2>5, <1>t DEF Record, At, NextRow, TypeOK
    <3>2. C2 = C
      BY <3>1, <2>o, <2>c
    <3>3. CASE Row(p) = h
      BY <3>1, <3>2, <3>3, <2>r DEF Changes
    <3>4. CASE Row(p) # h
      <4>1. R2 = R
        BY <3>1, <3>4, <2>o, <2>c
      <4> QED  BY <3>1, <3>2, <4>1, <2>r DEF Changes
    <3> QED  BY <3>3, <3>4
  <2>6. ASSUME UNCHANGED journals, lost' = [lost EXCEPT ![Row(p)] = @ + 1],
               pc[p] = "record", pc'[p] \notin Working
        PROVE  Changes(p, h)
    <3>1. C2 = C
      BY <2>6, <2>o, <2>c DEF Working
    <3>2. CASE Row(p) = h
      <4>1. R2 = R \ {p}
        BY <3>2, <2>6, <2>o, <2>c DEF Working
      <4> QED  BY <3>1, <3>2, <4>1, <2>6, <1>t, <2>r DEF Changes, TypeOK
    <3>3. CASE Row(p) # h
      <4>1. R2 = R
        BY <3>3, <2>6, <2>o, <2>c DEF Working
      <4> QED  BY <3>1, <3>3, <4>1, <2>6, <1>t, <2>r DEF Changes, TypeOK
    <3> QED  BY <3>2, <3>3
  <2>7. CASE RecordFails(p)
    <3>1. /\ journals' = journals /\ pc[p] = "record" /\ pc'[p] = "check"
          /\ lost' = [lost EXCEPT ![Row(p)] = @ + 1]
      BY <2>7, <1>t DEF RecordFails, At, NextRow, tables, TypeOK
    <3> QED  BY <3>1, <2>6 DEF Working
  <2>8. CASE Crash(p)
    <3>1. journals' = journals /\ pc'[p] = "idle"
      BY <2>8, <1>t DEF Crash, tables, TypeOK
    <3>2. CASE pc[p] = "record"
      BY <2>8, <3>1, <3>2, <2>6 DEF Crash, Working
    <3>3. CASE pc[p] # "record"
      BY <2>8, <3>1, <3>3, <2>q DEF Crash
    <3> QED  BY <3>2, <3>3
  <2>9. ASSUME NEW committed \in BOOLEAN, CreateFails(p, committed) PROVE Changes(p, h)
    <3>1. pc[p] = "create" /\ pc'[p] = "check" /\ Row(p) \in Hashes
      BY <2>9, <1>t DEF CreateFails, At, NextRow, TypeOK
    <3>2. CASE ~ committed
      BY <2>9, <3>1, <3>2, <2>q DEF CreateFails
    <3>3. CASE committed
      <4>1. /\ journals' = [journals EXCEPT ![Row(p)] = @ + 1]
            /\ lost' = [lost EXCEPT ![Row(p)] = @ + 1]
        BY <2>9, <3>3 DEF CreateFails
      <4>2. R2 = R /\ C2 \subseteq C
        BY <3>1, <2>o, <2>c
      <4>3. CASE Row(p) = h
        BY <4>1, <4>2, <4>3, <1>t, <2>r DEF Changes, TypeOK
      <4>4. CASE Row(p) # h
        BY <4>1, <4>2, <4>4, <1>t, <2>r DEF Changes, TypeOK
      <4> QED  BY <4>3, <4>4
    <3> QED  BY <3>2, <3>3
  <2> QED  BY <1>2, <2>1, <2>2, <2>3, <2>4, <2>5, <2>7, <2>8, <2>9
<1> QED  BY <1>1, <1>2, <1>t DEF Next, CountInv

(* However the checks, inserts and records of concurrent confirmations
   interleave, a row has at most one journal for each confirmation that can
   run at once and one for each whose record was lost. *)
THEOREM ImportDuplicatesBounded == Spec => []DuplicatesBounded
<1>1. Init => CountInv
  <2> SUFFICES ASSUME Init, NEW h \in Hashes PROVE Count(h)
    BY InitInv DEF CountInv, IInv
  <2>1. Creating(h) = {} /\ Recording(h) = {}
    BY DEF Init, Creating, Recording
  <2>2. Cardinality({}) = 0 /\ Cardinality(Procs) \in Nat
    BY ProcsAssumption, FS_EmptySet, FS_CardinalityType
  <2> QED  BY <2>1, <2>2 DEF Init, Count
<1>2. CountInv => DuplicatesBounded
  <2> SUFFICES ASSUME CountInv, NEW h \in Hashes
               PROVE  journals[h] <= Cardinality(Procs) + lost[h]
    BY DEF DuplicatesBounded
  <2>1. Creating(h) \in SUBSET Procs
    BY DEF Creating
  <2>2. /\ Cardinality(Creating(h)) \in Nat /\ Cardinality(Procs) \in Nat
        /\ journals[h] \in Nat /\ lost[h] \in Nat
    BY <2>1, ProcsAssumption, FS_Subset, FS_CardinalityType DEF CountInv, TypeOK
  <2> QED  BY <2>2 DEF CountInv, Count
<1> QED  BY <1>1, <1>2, CountInvStep, PTL DEF Spec
=============================================================================
