------------------------------- MODULE Import -------------------------------
(***************************************************************************)
(* Confirming an import.  A confirmation walks through the rows of a file: *)
(* it looks the hash up in import_dedup, creates the journal, and records  *)
(* the hash, in three separate transactions.  Nothing keeps two            *)
(* confirmations of one user apart, in one replica or in two.              *)
(*                                                                         *)
(* One user is modelled: hashes are looked up and recorded per user.       *)
(***************************************************************************)
EXTENDS Integers, Sequences, FiniteSets

CONSTANTS Procs,       \* confirmations that can be under way at once
          Hashes,      \* row hashes; equal rows have equal hashes
          BadRow,      \* a row whose date or amount does not parse
          Files,       \* the row lists that are sent
          MaxFaults    \* bound: failed statements and crashes

ASSUME ProcsAssumption == IsFiniteSet(Procs)
ASSUME FilesAssumption == Files \subseteq Seq(Hashes \cup {BadRow})
ASSUME BadRowAssumption == BadRow \notin Hashes

VARIABLES
  dedup,     \* import_dedup: the hashes recorded
  journals,  \* hash -> journals committed for rows with that hash
  pc,        \* process -> the statement it executes next
  file,      \* process -> the rows of its request
  pos,       \* process -> position of the row it is at
  result,    \* process -> ImportResult; failed counts the rows not imported
  answered,  \* processes whose last request was answered
  faults,
  lost       \* history: hash -> journals whose hash was not recorded

tables == <<dedup, journals>>
vars   == <<tables, pc, file, pos, result, answered, faults, lost>>

Results == [imported : Nat, duplicates : Nat, failed : Nat]
NoResult == [imported |-> 0, duplicates |-> 0, failed |-> 0]

TypeOK ==
  /\ dedup \subseteq Hashes
  /\ journals \in [Hashes -> Nat] /\ lost \in [Hashes -> Nat]
  /\ pc \in [Procs -> {"idle", "check", "create", "record"}]
  /\ file \in [Procs -> Seq(Hashes \cup {BadRow})]
  /\ pos \in [Procs -> Nat \ {0}]
  /\ result \in [Procs -> Results]
  /\ answered \subseteq Procs
  /\ faults \in Nat
  /\ \A p \in Procs : /\ pos[p] <= Len(file[p]) + 1
                      /\ pc[p] \in {"create", "record"} =>
                           pos[p] <= Len(file[p]) /\ file[p][pos[p]] \in Hashes

Init ==
  /\ dedup = {}
  /\ journals = [h \in Hashes |-> 0] /\ lost = [h \in Hashes |-> 0]
  /\ pc = [p \in Procs |-> "idle"]
  /\ file = [p \in Procs |-> << >>]
  /\ pos = [p \in Procs |-> 1]
  /\ result = [p \in Procs |-> NoResult]
  /\ answered = {}
  /\ faults = 0

Confirm(p, f) ==
  /\ pc[p] = "idle"
  /\ pc' = [pc EXCEPT ![p] = "check"]
  /\ file' = [file EXCEPT ![p] = f]
  /\ pos' = [pos EXCEPT ![p] = 1]
  /\ result' = [result EXCEPT ![p] = NoResult]
  /\ answered' = answered \ {p}
  /\ UNCHANGED <<tables, faults, lost>>
-----------------------------------------------------------------------------
Row(p) == file[p][pos[p]]
At(p, step) == pc[p] = step /\ pos[p] <= Len(file[p]) /\ Row(p) \in Hashes

Goto(p, step) == /\ pc' = [pc EXCEPT ![p] = step]
                 /\ UNCHANGED <<file, pos, result, answered>>

\* The loop goes on with the next row and counts this one.
NextRow(p, count) ==
  /\ pos' = [pos EXCEPT ![p] = @ + 1]
  /\ result' = [result EXCEPT ![p][count] = @ + 1]
  /\ pc' = [pc EXCEPT ![p] = "check"]
  /\ UNCHANGED <<file, answered>>

Fault == faults < MaxFaults /\ faults' = faults + 1

(* A row that parseConfirmRow refuses is left out and counted nowhere.  The
   handler does so before the loop; it changes nothing else, so the loop may
   as well pass over the row when it gets there. *)
PassOverBad(p) ==
  /\ pc[p] = "check" /\ pos[p] <= Len(file[p]) /\ Row(p) = BadRow
  /\ pos' = [pos EXCEPT ![p] = @ + 1]
  /\ UNCHANGED <<tables, pc, file, result, answered, faults, lost>>

\* Mutant: the lookup is dropped.
CheckNothing(p) ==
  /\ At(p, "check")
  /\ Goto(p, "create")
  /\ UNCHANGED <<tables, faults, lost>>

CheckNew(p) ==
  /\ At(p, "check") /\ Row(p) \notin dedup
  /\ Goto(p, "create")
  /\ UNCHANGED <<tables, faults, lost>>

CheckDuplicate(p) ==
  /\ At(p, "check") /\ Row(p) \in dedup
  /\ NextRow(p, "duplicates")
  /\ UNCHANGED <<tables, faults, lost>>

\* Mutant: a lookup that fails is taken for a duplicate.
CheckFailsAsDuplicate(p) ==
  /\ At(p, "check") /\ Fault
  /\ NextRow(p, "duplicates")
  /\ UNCHANGED <<tables, lost>>

CheckFails(p) ==
  /\ At(p, "check") /\ Fault
  /\ NextRow(p, "failed")
  /\ UNCHANGED <<tables, lost>>

\* CreateJournalEntry commits a journal (module Ledger).
CreateJournal(p) ==
  /\ At(p, "create")
  /\ journals' = [journals EXCEPT ![Row(p)] = @ + 1]
  /\ Goto(p, "record")
  /\ UNCHANGED <<dedup, faults, lost>>

\* It returns an error, perhaps after its commit took effect.
CreateFails(p, committed) ==
  /\ At(p, "create") /\ Fault
  /\ IF committed
     THEN /\ journals' = [journals EXCEPT ![Row(p)] = @ + 1]
          /\ lost' = [lost EXCEPT ![Row(p)] = @ + 1]
     ELSE UNCHANGED <<journals, lost>>
  /\ NextRow(p, "failed")
  /\ UNCHANGED dedup

\* Mutant: the hash is not recorded.
RecordNothing(p) ==
  /\ At(p, "record")
  /\ NextRow(p, "imported")
  /\ UNCHANGED <<tables, faults, lost>>

\* INSERT ... ON CONFLICT DO NOTHING; the audit row may fail unnoticed.
Record(p) ==
  /\ At(p, "record")
  /\ dedup' = dedup \cup {Row(p)}
  /\ NextRow(p, "imported")
  /\ UNCHANGED <<journals, faults, lost>>

\* "Non-fatal: entry created but dedup record failed".
RecordFails(p) ==
  /\ At(p, "record") /\ Fault
  /\ lost' = [lost EXCEPT ![Row(p)] = @ + 1]
  /\ NextRow(p, "imported")
  /\ UNCHANGED tables

\* All rows are done: the result is answered.
Finish(p) ==
  /\ pc[p] = "check" /\ pos[p] > Len(file[p])
  /\ pc' = [pc EXCEPT ![p] = "idle"]
  /\ answered' = answered \cup {p}
  /\ UNCHANGED <<tables, file, pos, result, faults, lost>>

\* The replica dies: what is committed stays, the rest of the file is not done.
Crash(p) ==
  /\ pc[p] # "idle" /\ Fault
  /\ pc' = [pc EXCEPT ![p] = "idle"]
  /\ lost' = IF pc[p] = "record" THEN [lost EXCEPT ![Row(p)] = @ + 1] ELSE lost
  /\ UNCHANGED <<tables, file, pos, result, answered>>
-----------------------------------------------------------------------------
Next ==
  \E p \in Procs :
    \/ \E f \in Files : Confirm(p, f)
    \/ PassOverBad(p) \/ CheckNew(p) \/ CheckDuplicate(p) \/ CheckFails(p)
    \/ CreateJournal(p) \/ Record(p) \/ RecordFails(p)
    \/ \E committed \in BOOLEAN : CreateFails(p, committed)
    \/ Finish(p) \/ Crash(p)

Spec == Init /\ [][Next]_vars
-----------------------------------------------------------------------------
(* A confirmation that is answered without errors has left no row that
   parses out: each has a journal, its own or that of an equal row imported
   before, though other imports run and fail meanwhile (Confirm: "skipping
   duplicates", and nothing else). *)
EveryRowPosted ==
  \A p \in answered : result[p].failed = 0 =>
    \A i \in 1 .. Len(file[p]) : file[p][i] \in Hashes => journals[file[p][i]] >= 1

(* A row that a file repeats is imported once by its confirmation, and once
   more only for a failure: every row is looked up after the rows before it
   were recorded. *)
OwnRowsOnce ==
  \A p \in Procs :
    result[p].imported <=
      Cardinality({file[p][i] : i \in 1 .. Len(file[p])}) + faults

(* "Tracks imported rows to prevent duplicates" (migration 007).  However
   the checks and the inserts of concurrent confirmations interleave, a row
   has at most one journal for each confirmation that can run at once, and
   one for each whose record was lost: with one confirmation at a time and
   no failure, exactly one. *)
DuplicatesBounded ==
  \A h \in Hashes : journals[h] <= Cardinality(Procs) + lost[h]

(* The promise of migration 007 and of Confirm, "skipping duplicates": a row
   is imported once, and once more only for a record that was lost.  It is
   what DuplicatesBounded says of one process; the code does not keep it
   when two confirmations overlap. *)
ImportedOnce == \A h \in Hashes : journals[h] <= 1 + lost[h]
=============================================================================
