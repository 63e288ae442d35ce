-------------------------- MODULE MigrationsProofs --------------------------
(***************************************************************************)
(* Proofs about Migrations, for any number of replicas, files and faults.  *)
(***************************************************************************)
EXTENDS Migrations, TLAPS

\* A replica has got past the files that are recorded, and serves after all.
Passed == \A r \in Replicas : /\ 1 .. pos[r] - 1 \subseteq recorded
                              /\ pc[r] = "serving" => pos[r] = N + 1

\* A file is executed by one transaction at a time, and never again.
Held ==
  \A r \in Replicas : pc[r] \in {"record", "commit"} =>
    /\ pos[r] \notin recorded
    /\ \A q \in Replicas \ {r} : ~ Holds(q, pos[r])

IInv == TypeOK /\ RecordedIsApplied /\ InOrder /\ Passed /\ Held

(* The initial state: nothing is recorded, every replica is at file 1. *)
LEMMA InitInv == Init => IInv
  BY NAssumption DEF Init, IInv, TypeOK, RecordedIsApplied, InOrder, Passed, Held, Holds,
     Migrations, Steps

(* A step of replica r outside the database: it goes to step, at the file it
   was at or the next one, and holds a file only if it held it before. *)
LEMMA QuietStep ==
  ASSUME IInv, UNCHANGED db, NEW r \in Replicas, NEW step \in Steps, Goto(r, step),
         faults' \in Nat,
         NEW k \in Nat, k = pos'[r], pos' = [pos EXCEPT ![r] = k],
         k \in 1 .. N + 1, 1 .. k - 1 \subseteq recorded,
         step = "serving" => k = N + 1,
         step \in {"apply", "record", "commit"} => k \in Migrations,
         step \in {"record", "commit"} =>
           k \notin recorded /\ \A q \in Replicas \ {r} : ~ Holds(q, k)
  PROVE  IInv'
<1> USE DEF IInv, db, Goto
<1>1. TypeOK'
  BY DEF TypeOK
<1>2. RecordedIsApplied' /\ InOrder'
  BY DEF RecordedIsApplied, InOrder
<1>3. Passed'
  BY DEF Passed, TypeOK
<1>4. Held'
  BY DEF Held, Holds, TypeOK
<1> QED  BY <1>1, <1>2, <1>3, <1>4

(* A commit: the file is recorded and applied once, by the one replica that
   holds it, which then holds nothing. *)
LEMMA CommitStep ==
  ASSUME IInv, NEW r \in Replicas, pc[r] = "commit", Effect(r), faults' \in Nat,
         NEW step \in {"check", "exited"}, Goto(r, step),
         NEW k \in {pos[r], pos[r] + 1}, pos' = [pos EXCEPT ![r] = k]
  PROVE  IInv'
<1> USE DEF IInv, Goto, Effect
<1>1. /\ pos[r] \in Migrations /\ pos[r] \in 1 .. N /\ pos[r] \notin recorded
      /\ k \in 1 .. N + 1 /\ k \in Int
      /\ recorded' = recorded \cup {pos[r]}
      /\ \A q \in Replicas : pos[q] \in 1 .. N + 1
  BY NAssumption DEF TypeOK, Held, Migrations
<1>2. TypeOK'
  BY <1>1 DEF TypeOK, Steps
<1>3. RecordedIsApplied'
  BY <1>1 DEF RecordedIsApplied, TypeOK, Migrations
<1>4. 1 .. pos[r] \subseteq recorded'
  BY <1>1 DEF Passed
<1>5. InOrder'
  BY <1>1, <1>4 DEF InOrder
<1>6. Passed'
  <2> SUFFICES ASSUME NEW q \in Replicas
               PROVE  (1 .. pos[q] - 1 \subseteq recorded /\ (pc[q] = "serving" => pos[q] = N + 1))'
    BY DEF Passed
  <2>1. CASE q = r
    BY <2>1, <1>1, <1>4 DEF TypeOK
  <2>2. CASE q # r
    BY <2>2, <1>1 DEF Passed, TypeOK
  <2> QED  BY <2>1, <2>2
<1>7. Held'
  <2> SUFFICES ASSUME NEW q \in Replicas, pc'[q] \in {"record", "commit"}
               PROVE  pos'[q] \notin recorded' /\ \A p \in Replicas \ {q} : ~ Holds(p, pos[q])'
    BY DEF Held
  <2>1. q # r /\ pos'[q] = pos[q] /\ pc'[q] = pc[q]
    BY DEF TypeOK
  <2>2. pos[q] # pos[r]
    BY <2>1 DEF Held, Holds
  <2> QED  BY <2>1, <2>2, <1>1 DEF Held, Holds, TypeOK
<1> QED  BY <1>2, <1>3, <1>5, <1>6, <1>7

(* Every step preserves the invariant. *)
LEMMA StepInv == IInv /\ [Next]_vars => IInv'
<1> SUFFICES ASSUME IInv, [Next]_vars PROVE IInv'
  OBVIOUS
<1>t. TypeOK /\ N \in Nat
  BY NAssumption DEF IInv
<1>1. CASE UNCHANGED vars
  BY <1>1 DEF IInv, vars, db, TypeOK, RecordedIsApplied, InOrder, Passed, Held, Holds
<1>2. ASSUME NEW r \in Replicas, Run(r) \/ Crash(r) \/ CommitUnknown(r)  PROVE IInv'
  <2>0. /\ pos[r] \in 1 .. N + 1 /\ pos[r] \in Nat /\ pos[r] + 1 \in Nat
        /\ faults \in Nat /\ pc[r] \in Steps
        /\ pos = [pos EXCEPT ![r] = pos[r]]
        /\ 1 .. pos[r] - 1 \subseteq recorded
        /\ {"check", "apply", "record", "commit", "serving", "exited"} = Steps
    BY <1>t DEF TypeOK, IInv, Passed, Steps
  <2>1. CASE CheckApplied(r)
    <3>1. pos[r] \in 1 .. N /\ 1 .. pos[r] \subseteq recorded
      BY <2>1, <1>t DEF CheckApplied, IInv, InOrder, TypeOK, Migrations
    <3>2. pos'[r] = pos[r] + 1 /\ pos' = [pos EXCEPT ![r] = pos[r] + 1]
      BY <2>1, <1>t DEF CheckApplied, Continue, TypeOK
    <3>3. pos[r] + 1 \in 1 .. N + 1 /\ 1 .. (pos[r] + 1) - 1 \subseteq recorded
      BY <3>1, <1>t
    <3>4. UNCHANGED db /\ Goto(r, "check") /\ faults' \in Nat /\ "check" \in Steps
      BY <2>1, <2>0 DEF CheckApplied, Continue, Steps
    <3> QED  BY <3>2, <3>3, <3>4, <2>0, QuietStep
  <2>2. CASE CheckMissing(r)
    BY <2>2, <2>0, <1>t, QuietStep DEF CheckMissing
  <2>3. CASE Apply(r)
    <3>1. pos[r] \in Migrations
      BY <2>3, <1>t DEF Apply, TypeOK
    <3>2. pos[r] \notin recorded
      BY <2>3, <3>1 DEF Apply, IInv, RecordedIsApplied
    <3> QED  BY <3>1, <3>2, <2>3, <2>0, <1>t, QuietStep DEF Apply
  <2>4. CASE ApplyConflict(r)
    BY <2>4, <2>0, <1>t, QuietStep DEF ApplyConflict, Exit
  <2>5. CASE Record(r)
    <3>1. /\ pos[r] \in Migrations /\ pos[r] \notin recorded
          /\ \A q \in Replicas \ {r} : ~ Holds(q, pos[r])
      BY <2>5, <1>t DEF Record, TypeOK, IInv, Held
    <3> QED  BY <3>1, <2>5, <2>0, <1>t, QuietStep DEF Record
  <2>6. CASE Commit(r)
    BY <2>6, <2>0, <1>t, CommitStep DEF Commit, Continue
  <2>7. CASE Serve(r)
    <3>1. pos[r] = N + 1
      BY <2>7, <2>0, <1>t DEF Serve
    <3> QED  BY <3>1, <2>7, <2>0, <1>t, QuietStep DEF Serve
  <2>8. CASE Restart(r)
    <3>1. pos'[r] = 1 /\ 1 \in 1 .. N + 1 /\ 1 .. 1 - 1 \subseteq recorded
      BY <2>8, <1>t DEF Restart, TypeOK
    <3> QED  BY <3>1, <2>8, <2>0, <1>t, QuietStep DEF Restart
  <2>9. CASE Crash(r)
    <3>1. faults' \in Nat
      BY <2>9, <2>0 DEF Crash, Fault
    <3> QED  BY <3>1, <2>9, <2>0, <1>t, QuietStep DEF Crash, Exit
  <2>10. CASE CommitUnknown(r)
    <3>1. faults' \in Nat
      BY <2>10, <2>0 DEF CommitUnknown, Fault
    <3> QED  BY <3>1, <2>10, <2>0, <1>t, CommitStep DEF CommitUnknown
  <2> QED  BY <1>2, <2>1, <2>2, <2>3, <2>4, <2>5, <2>6, <2>7, <2>8, <2>9, <2>10 DEF Run
<1> QED  BY <1>1, <1>2 DEF Next
-----------------------------------------------------------------------------
(* However replicas race, fail and restart in RunMigrations, a file is
   recorded exactly when its statements took effect, and that is once. *)
THEOREM MigrationsOnce == Spec => []RecordedIsApplied
<1>1. IInv => RecordedIsApplied
  BY DEF IInv
<1> QED  BY <1>1, InitInv, StepInv, PTL DEF Spec

(* No file takes effect before those with a smaller name (sort.Strings). *)
THEOREM MigrationsInOrder == Spec => []InOrder
<1>1. IInv => InOrder
  BY DEF IInv
<1> QED  BY <1>1, InitInv, StepInv, PTL DEF Spec

(* A replica that serves has the complete schema (main runs the migrations
   before it starts anything else). *)
THEOREM MigrationsBeforeServing == Spec => []ServesOnFullSchema
<1>1. IInv => ServesOnFullSchema
  <2> SUFFICES ASSUME IInv, NEW r \in Replicas, pc[r] = "serving"
               PROVE  recorded = Migrations
    BY DEF ServesOnFullSchema
  <2>1. pos[r] = N + 1 /\ 1 .. pos[r] - 1 \subseteq recorded
    BY DEF IInv, Passed
  <2>2. 1 .. N \subseteq recorded
    BY <2>1, NAssumption
  <2> QED  BY <2>2 DEF IInv, TypeOK, Migrations
<1> QED  BY <1>1, InitInv, StepInv, PTL DEF Spec

(* The variables keep their types. *)
THEOREM MigrationsTypes == Spec => []TypeOK
<1>1. IInv => TypeOK
  BY DEF IInv
<1> QED  BY <1>1, InitInv, StepInv, PTL DEF Spec
=============================================================================
