----------------------------- MODULE Scheduler -----------------------------
(***************************************************************************)
(* The in-process cron scheduler (pkg/scheduler/scheduler.go): a map from  *)
(* workflow to its entry, beside the jobs of the cron library.  Register   *)
(* and Deregister run under the scheduler's mutex, so each is a function   *)
(* from the scheduler's state to the next.                                 *)
(***************************************************************************)
EXTENDS Naturals, FiniteSets

CONSTANTS
  Workflows,       \* the keys of the map, namespace/name
  Schedules,       \* values of the cron-schedule annotation
  ValidSchedules,  \* the ones the cron library parses
  None             \* the empty string, no annotation

ASSUME SchedulesAssumption ==
  /\ ValidSchedules \subseteq Schedules
  /\ None \notin Schedules

Entries == [schedule : Schedules \cup {None}, cronID : Nat]

\* A workflow that is not in the map; job ids start at 1.
NoEntry == [schedule |-> None, cronID |-> 0]

\* jobs are the entries of the cron library, nextID its counter.
SchedulerStates ==
  [entries : [Workflows -> Entries],
   jobs    : SUBSET [id : Nat, workflow : Workflows, schedule : Schedules],
   nextID  : Nat]

New == [entries |-> [w \in Workflows |-> NoEntry], jobs |-> {}, nextID |-> 0]

\* cron.Remove, which knows jobs by id only and ignores an unknown one.
Remove(jobs, id) == {j \in jobs : j.id # id}

\* Mutant: the old job stays when the schedule changes.
RegisterBeside(s, w, schedule) ==
  IF s.entries[w].schedule = schedule \/ schedule \notin ValidSchedules THEN s
  ELSE [entries |-> [s.entries EXCEPT ![w] =
          [schedule |-> schedule, cronID |-> s.nextID + 1]],
        jobs |-> s.jobs \cup
          {[id |-> s.nextID + 1, workflow |-> w, schedule |-> schedule]},
        nextID |-> s.nextID + 1]

\* The existing job is removed before the new schedule is parsed; a schedule
\* that does not parse leaves the old entry in the map.
Register(s, w, schedule) ==
  LET existing == s.entries[w]
      others == Remove(s.jobs, existing.cronID) IN
  IF existing.schedule = schedule THEN s
  ELSE IF schedule \notin ValidSchedules THEN [s EXCEPT !.jobs = others]
  ELSE [entries |-> [s.entries EXCEPT ![w] =
          [schedule |-> schedule, cronID |-> s.nextID + 1]],
        jobs |-> others \cup
          {[id |-> s.nextID + 1, workflow |-> w, schedule |-> schedule]},
        nextID |-> s.nextID + 1]

Deregister(s, w) ==
  [entries |-> [s.entries EXCEPT ![w] = NoEntry],
   jobs    |-> Remove(s.jobs, s.entries[w].cronID),
   nextID  |-> s.nextID]

\* The schedules a workflow is really run on.
Live(s, w) == {j.schedule : j \in {k \in s.jobs : k.workflow = w}}
=============================================================================
