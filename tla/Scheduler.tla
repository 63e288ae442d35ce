----------------------------- MODULE Scheduler -----------------------------
(***************************************************************************)
(* Scheduled transactions: the ticker goroutine of every replica runs      *)
(* ProcessDue over the same table, while users create, edit and delete     *)
(* schedules.  Posting a journal and advancing next_run are two statements *)
(* in two transactions; the row written back is the copy that was read at  *)
(* the start of the pass.  Time is counted in days of Calendar.            *)
(***************************************************************************)
EXTENDS Calendar

CONSTANTS Replicas,     \* server processes, each with a scheduler goroutine
          Schedules,    \* ids of scheduled transactions
          Unpostable,   \* those whose template CreateJournalEntry refuses
          Frequencies,  \* the values of the enum frequency in use
          FirstTime,    \* when the model's clock begins
          MaxTime,      \* bound: the clock and the times users pick
          MaxEdits,     \* bound: edits and deletions by users
          MaxFaults,    \* bound: failed statements and crashes
          NULL          \* no value

ASSUME UnpostableAssumption == Unpostable \subseteq Schedules
ASSUME FrequenciesAssumption == Frequencies \subseteq {"daily", "weekly", "monthly"}
ASSUME MaxTimeAssumption == MaxTime \in Days /\ FirstTime \in 0 .. MaxTime

Times == FirstTime .. MaxTime
Runs  == {t \in Nat : t >= FirstTime}
Rows  == [next_run : Runs, frequency : Frequencies, is_active : BOOLEAN]

ASSUME NullAssumption == NULL \notin Rows /\ NULL \notin Schedules

VARIABLES
  clock,    \* time.Now()
  table,    \* scheduled_transactions: id -> row, or NULL
  pc,       \* replica -> where its scheduler goroutine is
  due,      \* replica -> the rows ListDue returned and it has not finished with
  cur,      \* replica -> the schedule it has posted and not advanced, or NULL
  edit,     \* the Update a user has in progress: [id, row] as read, or NULL
  edits, faults,
  posted,   \* history: id -> time -> journals posted for that run
  stale,    \* history: id -> the replicas whose copy is older than a user's write
  lost,     \* history: id -> the times next_run stood at when it was taken away
  deleted,  \* history: ids whose last change by a user was Delete
  held      \* history: those that a pass had read when they were deleted

history == <<posted, stale, lost, deleted, held>>
user    == <<edit, edits>>
replica == <<pc, due, cur>>
vars    == <<clock, table, replica, user, faults, history>>

Idle(r) == \A s \in Schedules : due[r][s] = NULL

TypeOK ==
  /\ clock \in Times
  /\ table \in [Schedules -> Rows \cup {NULL}]
  /\ pc \in [Replicas -> {"down", "sleeping", "pass", "advance"}]
  /\ due \in [Replicas -> [Schedules -> Rows \cup {NULL}]]
  /\ cur \in [Replicas -> Schedules \cup {NULL}]
  /\ edit \in [id : Schedules, row : Rows] \cup {NULL}
  /\ edit # NULL => table[edit.id] # NULL
  /\ edits \in Nat /\ faults \in Nat
  /\ posted \in [Schedules -> [Times -> Nat]]
  /\ stale \in [Schedules -> SUBSET Replicas]
  /\ lost \in [Schedules -> SUBSET Runs]
  /\ deleted \subseteq Schedules /\ held \subseteq Schedules
  /\ \A r \in Replicas :
       /\ \A s \in Schedules : due[r][s] # NULL =>
            table[s] # NULL /\ due[r][s].next_run \in Times
       /\ pc[r] \in {"down", "sleeping"} => Idle(r)
       /\ IF pc[r] = "advance" THEN cur[r] \in Schedules /\ due[r][cur[r]] # NULL
                               ELSE cur[r] = NULL

Init ==
  /\ clock = FirstTime
  /\ table = [s \in Schedules |-> NULL]
  /\ pc = [r \in Replicas |-> "sleeping"]
  /\ due = [r \in Replicas |-> [s \in Schedules |-> NULL]]
  /\ cur = [r \in Replicas |-> NULL]
  /\ edit = NULL /\ edits = 0 /\ faults = 0
  /\ posted = [s \in Schedules |-> [t \in Times |-> 0]]
  /\ stale = [s \in Schedules |-> {}] /\ lost = [s \in Schedules |-> {}]
  /\ deleted = {} /\ held = {}

Tick == /\ clock < MaxTime
        /\ clock' = clock + 1
        /\ UNCHANGED <<table, replica, user, faults, history>>
-----------------------------------------------------------------------------
\* Mutant: the query forgets is_active.
IsDueInactive(s) == table[s] # NULL /\ table[s].next_run <= clock

IsDue(s) == table[s] # NULL /\ table[s].is_active /\ table[s].next_run <= clock

\* The time at which an active row is waiting to run.
Stands(row) == {t \in {row.next_run} : row.is_active}

\* The copies of r are as new as the rows.
Fresh(r) == stale' = [s \in Schedules |-> stale[s] \ {r}]

(* Mutants: the query forgets next_run <= now; it has a LIMIT 1. *)
ListAnything(r) ==
  /\ pc[r] = "sleeping"
  /\ pc' = [pc EXCEPT ![r] = "pass"]
  /\ due' = [due EXCEPT ![r] = table]
  /\ Fresh(r)
  /\ UNCHANGED <<clock, table, cur, user, faults, posted, lost, deleted, held>>

ListFirst(r) ==
  /\ pc[r] = "sleeping"
  /\ pc' = [pc EXCEPT ![r] = "pass"]
  /\ due' = [due EXCEPT ![r] = [s \in Schedules |->
       IF IsDue(s) /\ \A x \in Schedules : IsDue(x) => table[s].next_run <= table[x].next_run
       THEN table[s] ELSE NULL]]
  /\ Fresh(r)
  /\ UNCHANGED <<clock, table, cur, user, faults, posted, lost, deleted, held>>

\* The ticker fires: ProcessDue reads every row that is due.
ListDue(r) ==
  /\ pc[r] = "sleeping"
  /\ pc' = [pc EXCEPT ![r] = "pass"]
  /\ due' = [due EXCEPT ![r] = [s \in Schedules |-> IF IsDue(s) THEN table[s] ELSE NULL]]
  /\ Fresh(r)
  /\ UNCHANGED <<clock, table, cur, user, faults, posted, lost, deleted, held>>

\* The rows come ORDER BY next_run; rows of the same time in any order.
First(r, s) ==
  /\ due[r][s] # NULL
  /\ \A x \in Schedules : due[r][x] # NULL => due[r][s].next_run <= due[r][x].next_run

Posted(s, t) == posted' = [posted EXCEPT ![s][t] = @ + 1]

\* processSingle as far as the journal: CreateJournalEntry commits.
Post(r, s) ==
  /\ pc[r] = "pass" /\ First(r, s)
  /\ s \notin Unpostable
  /\ Posted(s, due[r][s].next_run)
  /\ pc' = [pc EXCEPT ![r] = "advance"]
  /\ cur' = [cur EXCEPT ![r] = s]
  /\ UNCHANGED <<clock, table, due, user, faults, stale, lost, deleted, held>>

\* ProcessDue drops the row and goes on with the next one.
Skip(r, s) == /\ pc' = [pc EXCEPT ![r] = "pass"]
              /\ cur' = [cur EXCEPT ![r] = NULL]
              /\ due' = [due EXCEPT ![r][s] = NULL]

(* Mutants: the first error ends the pass; the row is advanced although the
   journal was refused. *)
RefusalEndsPass(r, s) ==
  /\ pc[r] = "pass" /\ First(r, s)
  /\ s \in Unpostable
  /\ pc' = [pc EXCEPT ![r] = "sleeping"]
  /\ due' = [due EXCEPT ![r] = [x \in Schedules |-> NULL]]
  /\ UNCHANGED <<clock, table, cur, user, faults, history>>

RefusedIsAdvanced(r, s) ==
  /\ pc[r] = "pass" /\ First(r, s)
  /\ s \in Unpostable
  /\ pc' = [pc EXCEPT ![r] = "advance"]
  /\ cur' = [cur EXCEPT ![r] = s]
  /\ UNCHANGED <<clock, table, due, user, faults, history>>

\* The template does not parse or does not balance: the error is logged.
Refuse(r, s) ==
  /\ pc[r] = "pass" /\ First(r, s)
  /\ s \in Unpostable
  /\ Skip(r, s)
  /\ UNCHANGED <<clock, table, user, faults, history>>

\* CreateJournalEntry returns an error, perhaps after its commit took effect.
PostFails(r, s, committed) ==
  /\ pc[r] = "pass" /\ First(r, s)
  /\ s \notin Unpostable
  /\ faults < MaxFaults /\ faults' = faults + 1
  /\ IF committed THEN Posted(s, due[r][s].next_run) ELSE UNCHANGED posted
  /\ Skip(r, s)
  /\ UNCHANGED <<clock, table, user, stale, lost, deleted, held>>

(* The row of s is taken from where it stood by a user, or by a copy older
   than what a user wrote: the copies that passes hold are older than that. *)
TakenAway(s, row, by) ==
  /\ stale' = [stale EXCEPT ![s] = {r \in Replicas : due[r][s] # NULL} \ by]
  /\ lost' = [lost EXCEPT ![s] = (@ \cup {table[s].next_run}) \ Stands(row)]

Advanced(row) == [row EXCEPT !.next_run = After(@, row.frequency)]

(* repo.Update writes frequency, next_run, is_active and the template of the
   copy, whatever the row holds by now; the audit row that follows may fail
   unnoticed. *)
Advance(r) ==
  LET s   == cur[r]
      row == Advanced(due[r][s])
  IN
  /\ pc[r] = "advance"
  /\ table' = [table EXCEPT ![s] = row]
  /\ Skip(r, s)
  /\ IF r \in stale[s]
     THEN TakenAway(s, row, {r})
     ELSE lost' = [lost EXCEPT ![s] = @ \ Stands(row)] /\ stale' = stale
  /\ UNCHANGED <<clock, user, faults, posted, deleted, held>>

AdvanceFails(r) ==
  /\ pc[r] = "advance"
  /\ faults < MaxFaults /\ faults' = faults + 1
  /\ Skip(r, cur[r])
  /\ UNCHANGED <<clock, table, user, history>>

EndPass(r) ==
  /\ pc[r] = "pass" /\ Idle(r)
  /\ pc' = [pc EXCEPT ![r] = "sleeping"]
  /\ UNCHANGED <<clock, table, due, cur, user, faults, history>>

\* The replica stops, or is shut down: main does not wait for the goroutine.
Crash(r) ==
  /\ pc[r] # "down"
  /\ faults < MaxFaults /\ faults' = faults + 1
  /\ pc' = [pc EXCEPT ![r] = "down"]
  /\ due' = [due EXCEPT ![r] = [s \in Schedules |-> NULL]]
  /\ cur' = [cur EXCEPT ![r] = NULL]
  /\ UNCHANGED <<clock, table, user, history>>

Restart(r) ==
  /\ pc[r] = "down"
  /\ pc' = [pc EXCEPT ![r] = "sleeping"]
  /\ UNCHANGED <<clock, table, due, cur, user, faults, history>>
-----------------------------------------------------------------------------
\* A user creates a schedule: any time, also one in the past, is accepted.
Create(s, f, t) ==
  /\ table[s] = NULL
  /\ table' = [table EXCEPT ![s] = [next_run |-> t, frequency |-> f, is_active |-> TRUE]]
  /\ UNCHANGED <<clock, replica, user, faults, history>>

\* ScheduledService.Update reads the rows of the user and picks this one.
UpdateRead(s) ==
  /\ edit = NULL /\ edits < MaxEdits
  /\ table[s] # NULL
  /\ edit' = [id |-> s, row |-> table[s]]
  /\ edits' = edits + 1
  /\ UNCHANGED <<clock, table, replica, faults, history>>

(* It changes the fields the request names (f and t, or NULL) and always
   is_active, and writes the copy back. *)
UpdateWrite(f, t, active) ==
  LET s   == edit.id
      row == [next_run  |-> IF t = NULL THEN edit.row.next_run ELSE t,
              frequency |-> IF f = NULL THEN edit.row.frequency ELSE f,
              is_active |-> active]
  IN
  /\ edit # NULL
  /\ table' = [table EXCEPT ![s] = row]
  /\ TakenAway(s, row, {})
  /\ deleted' = deleted \ {s}
  /\ edit' = NULL
  /\ UNCHANGED <<clock, replica, edits, faults, posted, held>>

\* The request ends between the two statements.
UpdateFails ==
  /\ edit # NULL
  /\ edit' = NULL
  /\ UNCHANGED <<clock, table, replica, edits, faults, history>>

Delete(s) ==
  /\ edits < MaxEdits /\ edits' = edits + 1
  /\ table[s] # NULL
  /\ table' = [table EXCEPT ![s].is_active = FALSE]
  /\ deleted' = deleted \cup {s}
  /\ held' = IF \E r \in Replicas : due[r][s] # NULL THEN held \cup {s} ELSE held \ {s}
  /\ lost' = [lost EXCEPT ![s] = @ \cup {table[s].next_run}]
  /\ UNCHANGED <<clock, replica, edit, faults, posted, stale>>
-----------------------------------------------------------------------------
Pass(r) ==
  \/ ListDue(r) \/ Advance(r) \/ EndPass(r) \/ Restart(r)
  \/ \E s \in Schedules : Post(r, s) \/ Refuse(r, s)

Fault(r) ==
  \/ Crash(r) \/ AdvanceFails(r)
  \/ \E s \in Schedules, committed \in BOOLEAN : PostFails(r, s, committed)

User ==
  \/ \E s \in Schedules :
       \/ \E f \in Frequencies, t \in Times : Create(s, f, t)
       \/ UpdateRead(s)
       \/ Delete(s)
  \/ \E f \in Frequencies \cup {NULL}, t \in Times \cup {NULL}, active \in BOOLEAN :
       UpdateWrite(f, t, active)
  \/ UpdateFails

Next == Tick \/ User \/ \E r \in Replicas : Pass(r) \/ Fault(r)

Spec == Init /\ [][Next]_vars

(* A goroutine that can take a step takes one, the ticker fires every minute
   and a replica that stopped is started again (Deployment of the chart). *)
Fairness == \A r \in Replicas : WF_vars(Pass(r))

FairSpec == Spec /\ Fairness
-----------------------------------------------------------------------------
(* No run is posted before its time, by any replica, whatever copy it works
   on and whatever users do meanwhile (ListDue: next_run <= now). *)
NeverEarly == \A s \in Schedules, t \in Times : posted[s][t] > 0 => t <= clock

(* processSingle creates the journal, then advances: next_run is moved past a
   run only when the journal of that run was posted, however the passes of
   several replicas, refused templates and failures interleave.  The two
   exceptions are a user's own write, and a pass that writes back a copy it
   read before a user's write (repo.Update has no condition): then the run
   the user asked for is passed over, and the edit is lost. *)
UserWrites(s) ==
  /\ edit # NULL /\ edit.id = s
  /\ \E f \in Frequencies \cup {NULL}, t \in Times \cup {NULL}, active \in BOOLEAN :
       UpdateWrite(f, t, active)

EditOverwritten(s) == \E r \in stale[s] : cur[r] = s /\ Advance(r)

NothingSkipped ==
  [][\A s \in Schedules :
       table[s] # NULL /\ table'[s].next_run > table[s].next_run =>
         \/ UserWrites(s)
         \/ EditOverwritten(s)
         \/ posted[s][table[s].next_run] > 0]_vars

(* A monthly schedule keeps pace with the months (advanceNextRun): the runs
   ahead of it fall into one month after the other, on the same day,
   or on one of the first days once a month was left out because it was too
   short.  No schedule falls behind by more than that month. *)
KeepsPace ==
  \A s \in Schedules :
    table[s] # NULL /\ table[s].frequency = "monthly" /\ table[s].next_run \in Days =>
      table[s].next_run \in OnPace

(* "Frequency defines how often a scheduled transaction runs"
   (domain/scheduled.go): a run is posted once, and once more for a failure
   at most.  Not true of the two replicas that the chart deploys. *)
PostedOnce == \A s \in Schedules, t \in Times : posted[s][t] <= 1 + faults

(* "Soft delete - set is_active = false" (schedule_repo.go): a schedule that
   no pass had read when its user deleted it is not posted again until the
   user changes it.  A pass that holds a copy posts it, and writes the copy
   back: from then on it is active as if nobody had deleted it. *)
DeletedStaysQuiet == [][\A s \in deleted \ held : posted'[s] = posted[s]]_vars

(* "don't let one failure block the rest" (scheduled_service.go): a run that
   is due is posted, though schedules that are due before it never can be
   posted, unless it is taken away: its user changes or deletes the schedule
   first, or a pass overwrites it with a copy older than the user's write. *)
DueAt(s, t) == IsDue(s) /\ table[s].next_run = t

DuePosted ==
  \A s \in Schedules \ Unpostable, t \in Times :
    DueAt(s, t) ~> (posted[s][t] > 0 \/ t \in lost[s])

(* Replicas that overwrite each other's next_run come to rest: when time
   stands still, the schedules that can be posted end up with no run due. *)
Settles == <>[](\A s \in Schedules \ Unpostable : ~ IsDue(s))
=============================================================================
