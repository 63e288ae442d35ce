----------------------------- MODULE Migrations -----------------------------
(***************************************************************************)
(* RunMigrations, run by every replica when it starts, against one         *)
(* database.  Whether a file was applied is asked outside the transaction  *)
(* that applies it, so two replicas that start together both try; what     *)
(* keeps them apart is that no migration can create its tables twice.      *)
(* Migrations are numbered in the order of their sorted names.             *)
(***************************************************************************)
EXTENDS Integers

CONSTANTS Replicas,   \* server processes
          N,          \* number of *.up.sql files
          MaxFaults   \* bound: failed statements and crashes

ASSUME NAssumption == N \in Nat

Migrations == 1 .. N

VARIABLES
  recorded,  \* rows of schema_migrations
  applied,   \* migration -> times its statements took effect
  pc,        \* replica -> where RunMigrations is
  pos,       \* replica -> the file the loop is at
  faults

db   == <<recorded, applied>>
vars == <<db, pc, pos, faults>>

Steps == {"check", "apply", "record", "commit", "serving", "exited"}

TypeOK ==
  /\ recorded \subseteq Migrations
  /\ applied \in [Migrations -> Nat]
  /\ pc \in [Replicas -> Steps]
  /\ pos \in [Replicas -> 1 .. N + 1]
  /\ faults \in Nat
  /\ \A r \in Replicas : pc[r] \in {"apply", "record", "commit"} => pos[r] \in Migrations

Init ==
  /\ recorded = {}
  /\ applied = [m \in Migrations |-> 0]
  /\ pc = [r \in Replicas |-> "check"]
  /\ pos = [r \in Replicas |-> 1]
  /\ faults = 0

\* A transaction that has executed the file and not ended holds its tables.
Holds(r, m) == pc[r] \in {"record", "commit"} /\ pos[r] = m

Goto(r, step) == pc' = [pc EXCEPT ![r] = step]
Continue(r) == Goto(r, "check") /\ pos' = [pos EXCEPT ![r] = @ + 1]

\* The error goes up to main, which exits; an open transaction rolls back.
Exit(r) == Goto(r, "exited") /\ UNCHANGED <<db, pos>>
-----------------------------------------------------------------------------
CheckApplied(r) ==
  /\ pc[r] = "check" /\ pos[r] \in recorded
  /\ Continue(r)
  /\ UNCHANGED <<db, faults>>

CheckMissing(r) ==
  /\ pc[r] = "check" /\ pos[r] \in Migrations \ recorded
  /\ Goto(r, "apply")
  /\ UNCHANGED <<db, pos, faults>>

\* Mutant: the statements can run next to themselves (IF NOT EXISTS).
ApplyAnyway(r) ==
  /\ pc[r] = "apply"
  /\ Goto(r, "record")
  /\ UNCHANGED <<db, pos, faults>>

(* CREATE TABLE waits for a transaction that creates the same table; it
   works when that one rolled back or there was none. *)
Apply(r) ==
  /\ pc[r] = "apply"
  /\ \A q \in Replicas : ~ Holds(q, pos[r])
  /\ applied[pos[r]] = 0
  /\ Goto(r, "record")
  /\ UNCHANGED <<db, pos, faults>>

\* The table exists by now: the replica that came second fails.
ApplyConflict(r) ==
  /\ pc[r] = "apply"
  /\ applied[pos[r]] > 0
  /\ Exit(r)
  /\ UNCHANGED faults

Record(r) ==
  /\ pc[r] = "record"
  /\ Goto(r, "commit")
  /\ UNCHANGED <<db, pos, faults>>

Effect(r) ==
  /\ applied' = [applied EXCEPT ![pos[r]] = @ + 1]
  /\ recorded' = recorded \cup {pos[r]}

\* Mutant: the row of schema_migrations is written after the commit.
CommitUnrecorded(r) ==
  /\ pc[r] = "commit"
  /\ applied' = [applied EXCEPT ![pos[r]] = @ + 1]
  /\ Continue(r)
  /\ UNCHANGED <<recorded, faults>>

Commit(r) ==
  /\ pc[r] = "commit"
  /\ Effect(r)
  /\ Continue(r)
  /\ UNCHANGED faults

\* The loop is over: the server and the scheduler are started.
Serve(r) ==
  /\ pc[r] = "check" /\ pos[r] > N
  /\ Goto(r, "serving")
  /\ UNCHANGED <<db, pos, faults>>

Fault == faults < MaxFaults /\ faults' = faults + 1

\* A statement fails or the process is killed, at any point.
Crash(r) == pc[r] # "exited" /\ Exit(r) /\ Fault

\* The commit takes effect and its acknowledgement is lost.
CommitUnknown(r) ==
  /\ pc[r] = "commit" /\ Fault
  /\ Effect(r)
  /\ Goto(r, "exited")
  /\ UNCHANGED pos

\* Mutant: a restarted replica trusts that it is done.
RestartServes(r) ==
  /\ pc[r] = "exited"
  /\ Goto(r, "serving")
  /\ UNCHANGED <<db, pos, faults>>

\* The Deployment starts the container again.
Restart(r) ==
  /\ pc[r] = "exited"
  /\ Goto(r, "check")
  /\ pos' = [pos EXCEPT ![r] = 1]
  /\ UNCHANGED <<db, faults>>
-----------------------------------------------------------------------------
Run(r) == \/ CheckApplied(r) \/ CheckMissing(r) \/ Apply(r) \/ ApplyConflict(r)
          \/ Record(r) \/ Commit(r) \/ Serve(r) \/ Restart(r)

Next == \E r \in Replicas : Run(r) \/ Crash(r) \/ CommitUnknown(r)

Spec == Init /\ [][Next]_vars

\* Every replica keeps running, and is started again when it exited.
FairSpec == Spec /\ \A r \in Replicas : WF_vars(Run(r))
-----------------------------------------------------------------------------
(* "It tracks applied migrations in a schema_migrations table" (db.go): a
   migration is recorded exactly when its statements took effect, and they
   take effect once, whichever replicas race and wherever they die. *)
RecordedIsApplied ==
  \A m \in Migrations : applied[m] = IF m \in recorded THEN 1 ELSE 0

(* "in lexicographic order" (db.go): no migration without the ones before. *)
InOrder == \A m \in recorded : 1 .. m \subseteq recorded

(* A replica serves requests and runs its scheduler only on the complete
   schema (main: migrations come before everything else). *)
ServesOnFullSchema == \A r \in Replicas : pc[r] = "serving" => recorded = Migrations

(* The replicas that lose a race exit, are started again, and all of them
   serve in the end. *)
AllServe == <>[](\A r \in Replicas : pc[r] = "serving")
=============================================================================
