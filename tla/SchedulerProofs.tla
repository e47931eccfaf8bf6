-------------------------- MODULE SchedulerProofs --------------------------
(***************************************************************************)
(* Proofs about ScheduledWorkflows, for any number of workflows, calls,    *)
(* restarts and schedules: type correctness, that the scheduler's map and  *)
(* the jobs of the cron library never part, and that the scheduler and the *)
(* Deployments do so only if two actors get into each other's way.         *)
(***************************************************************************)
EXTENDS ScheduledWorkflows, TLAPS

\* A call that was started has a workflow; one that writes a Deployment has a
\* schedule to write.
CallsWellFormed ==
  \A h \in Handlers :
    /\ call[h].pc # "idle" => call[h].workflow \in Workflows
    /\ call[h].pc \in {"read", "write"} => call[h].schedule # NoDeployment

CallOK(c) ==
  /\ c \in Calls
  /\ c.pc # "idle" => c.workflow \in Workflows
  /\ c.pc \in {"read", "write"} => c.schedule # NoDeployment

\* The map names every job by an id that was handed out, and no job twice.
IDsUnique(s) ==
  /\ \A w \in Workflows : s.entries[w].cronID <= s.nextID
  /\ \A v, w \in Workflows :
       s.entries[v].cronID = s.entries[w].cronID => v = w \/ s.entries[v].cronID = 0

JobsOK(s) ==
  \A j \in s.jobs :
    /\ s.entries[j.workflow] = [schedule |-> j.schedule, cronID |-> j.id]
    /\ j.id # 0

SchedOK(s) == IDsUnique(s) /\ JobsOK(s)

TypeInv == TypeOK /\ CallsWellFormed

---------------------------------------------------------------------------
(* Register and Deregister *)

\* A scheduler that was just made is well formed.
LEMMA NewOK == New \in SchedulerStates /\ SchedOK(New)
  BY SchedulesAssumption
  DEF New, SchedulerStates, Entries, NoEntry, SchedOK, IDsUnique, JobsOK

\* Register keeps the scheduler's state well typed.
LEMMA RegisterType ==
  ASSUME NEW s \in SchedulerStates, NEW w \in Workflows, NEW x \in Schedules
  PROVE  Register(s, w, x) \in SchedulerStates
  BY SchedulesAssumption
  DEF Register, SchedulerStates, Entries, Remove

\* So does Deregister.
LEMMA DeregisterType ==
  ASSUME NEW s \in SchedulerStates, NEW w \in Workflows
  PROVE  Deregister(s, w) \in SchedulerStates
  BY SchedulesAssumption
  DEF Deregister, SchedulerStates, Entries, Remove, NoEntry

\* Register keeps the map and the jobs together, whether it does nothing,
\* replaces a job, adds one or fails to parse.
LEMMA RegisterOK ==
  ASSUME NEW s \in SchedulerStates, SchedOK(s),
         NEW w \in Workflows, NEW x \in Schedules
  PROVE  SchedOK(Register(s, w, x))
<1>1. CASE s.entries[w].schedule = x
  BY <1>1 DEF Register
<1>2. CASE s.entries[w].schedule # x /\ x \notin ValidSchedules
  BY <1>2 DEF Register, Remove, SchedOK, IDsUnique, JobsOK, SchedulerStates
<1>3. CASE s.entries[w].schedule # x /\ x \in ValidSchedules
  <2> DEFINE r == Register(s, w, x)
  <2>1. /\ r.entries = [s.entries EXCEPT ![w] =
                         [schedule |-> x, cronID |-> s.nextID + 1]]
        /\ r.jobs = {j \in s.jobs : j.id # s.entries[w].cronID}
             \cup {[id |-> s.nextID + 1, workflow |-> w, schedule |-> x]}
        /\ r.nextID = s.nextID + 1
    BY <1>3 DEF Register, Remove
  <2>2. IDsUnique(r)
    BY <2>1 DEF IDsUnique, SchedOK, SchedulerStates, Entries
  <2>3. JobsOK(r)
    <3> SUFFICES ASSUME NEW j \in r.jobs
                 PROVE  /\ r.entries[j.workflow]
                             = [schedule |-> j.schedule, cronID |-> j.id]
                        /\ j.id # 0
      BY DEF JobsOK
    <3>1. CASE j = [id |-> s.nextID + 1, workflow |-> w, schedule |-> x]
      BY <2>1, <3>1 DEF SchedulerStates
    <3>2. CASE j \in s.jobs /\ j.id # s.entries[w].cronID
      <4>1. /\ j.workflow \in Workflows
            /\ s.entries[j.workflow]
                 = [schedule |-> j.schedule, cronID |-> j.id]
            /\ j.id # 0
        BY <3>2 DEF SchedOK, JobsOK, SchedulerStates
      <4>2. j.workflow # w
        BY <3>2, <4>1
      <4>3. s.entries \in [Workflows -> Entries]
        BY DEF SchedulerStates
      <4>4. r.entries[j.workflow] = s.entries[j.workflow]
        BY <2>1, <4>1, <4>2, <4>3
      <4> QED BY <4>1, <4>4
    <3> HIDE DEF r
    <3> QED BY <2>1, <3>1, <3>2
  <2> QED BY <2>2, <2>3 DEF SchedOK
<1> QED BY <1>1, <1>2, <1>3

\* Deregister removes exactly the job of its workflow.
LEMMA DeregisterOK ==
  ASSUME NEW s \in SchedulerStates, SchedOK(s), NEW w \in Workflows
  PROVE  SchedOK(Deregister(s, w))
  BY DEF Deregister, Remove, NoEntry, SchedOK, IDsUnique, JobsOK, SchedulerStates,
         Entries

\* Registering or deregistering a workflow leaves the jobs of all others alone,
\* although the cron library removes jobs by number only.
THEOREM OthersUntouched ==
  ASSUME NEW s \in SchedulerStates, SchedOK(s),
         NEW v \in Workflows, NEW w \in Workflows, v # w, NEW x \in Schedules
  PROVE  /\ Live(Register(s, w, x), v) = Live(s, v)
         /\ Live(Deregister(s, w), v) = Live(s, v)
<1> DEFINE of(t) == {j \in t.jobs : j.workflow = v}
<1>1. ASSUME NEW j \in of(s)
      PROVE  j.id # s.entries[w].cronID
  <2>1. s.entries[v] = [schedule |-> j.schedule, cronID |-> j.id] /\ j.id # 0
    BY DEF SchedOK, JobsOK
  <2>2. s.entries[v].cronID = j.id
    BY <2>1
  <2> QED BY <2>1, <2>2 DEF SchedOK, IDsUnique
<1>2. of(Register(s, w, x)) = of(s)
  BY <1>1 DEF Register, Remove, SchedulerStates
<1>3. of(Deregister(s, w)) = of(s)
  BY <1>1 DEF Deregister, Remove, SchedulerStates
<1> QED BY <1>2, <1>3 DEF Live

---------------------------------------------------------------------------
(* Type correctness *)

\* The inductive invariant holds initially.
LEMMA TypeInit == Init => TypeInv
  BY SchedulesAssumption, NewOK
  DEF Init, TypeInv, TypeOK, CallsWellFormed, NoCall, NoScan, NoDeploy, Calls,
      Scans, DeployObjects

\* A handler's step changes its own call only.
LEMMA CallsKept ==
  ASSUME TypeInv, NEW h \in Handlers, NEW c, CallOK(c),
         call' = [call EXCEPT ![h] = c]
  PROVE  call' \in [Handlers -> Calls] /\ CallsWellFormed'
  BY DEF TypeInv, TypeOK, CallsWellFormed, CallOK

\* Every call in flight is well formed, and so is none.
LEMMA CallsOK ==
  ASSUME TypeInv, NEW h \in Handlers
  PROVE  CallOK(call[h]) /\ CallOK(NoCall)
  BY SchedulesAssumption
  DEF TypeInv, TypeOK, CallsWellFormed, CallOK, Calls, NoCall

\* Every step keeps the inductive invariant.
LEMMA TypeNext == TypeInv /\ [Next]_vars => TypeInv'
<1> SUFFICES ASSUME TypeInv, [Next]_vars PROVE TypeInv'
  OBVIOUS
<1> USE SchedulesAssumption, WorkflowsAssumption
<1>0. TypeOK /\ CallsWellFormed
  BY DEF TypeInv
<1>1. CASE Boot
  BY <1>0, <1>1, NewOK DEF Boot, TypeInv, TypeOK, CallsWellFormed, NoScan, Scans
<1>2. ASSUME Gone, restarts' \in Nat PROVE TypeInv'
  BY <1>0, <1>2, NewOK
  DEF Gone, TypeInv, TypeOK, CallsWellFormed, NoScan, NoCall, Calls, Scans
<1>3. CASE Crash \/ Exit
  BY <1>0, <1>2, <1>3 DEF Crash, Exit, TypeOK
<1>4. CASE Shutdown
  BY <1>0, <1>4 DEF Shutdown, TypeInv, TypeOK, CallsWellFormed
<1>5. ASSUME NEW w \in Workflows, Fire(w) \/ RunEnds(w) PROVE TypeInv'
  BY <1>0, <1>5 DEF Fire, RunEnds, TypeInv, TypeOK, CallsWellFormed
<1>6. CASE ScanStep
  <2>1. CASE ScanNamespaces \/ ScanEnd
    BY <1>0, <2>1
    DEF ScanNamespaces, ScanEnd, TypeInv, TypeOK, CallsWellFormed, Scans
  <2>2. ASSUME NEW n \in Namespaces, ScanList(n) PROVE TypeInv'
    <3>1. Found(n) \in [Workflows -> Schedules \cup {None}]
      BY <1>0 DEF TypeOK, DeployObjects, Found
    <3>2. \/ scan' = [scan EXCEPT !.todo = @ \ {n}, !.items = Found(n)]
          \/ scan' = [scan EXCEPT !.todo = @ \ {n}]
      BY <2>2 DEF ScanList
    <3>3. overlap' \subseteq Workflows
      BY <1>0, <2>2 DEF ScanList, TypeOK
    <3>4. scan' \in Scans
      <4>1. scan \in Scans /\ scan.todo \ {n} \in SUBSET Namespaces
        BY <1>0 DEF TypeOK, Scans
      <4> QED BY <3>1, <3>2, <4>1 DEF Scans
    <3> QED BY <1>0, <2>2, <3>3, <3>4
            DEF ScanList, TypeInv, TypeOK, CallsWellFormed
  <2>3. ASSUME NEW w \in Workflows, ScanRegister(w) PROVE TypeInv'
    <3>1. sched' \in SchedulerStates
      BY <1>0, <2>3, RegisterType DEF ScanRegister, TypeOK, Pending, Scans
    <3> QED BY <1>0, <2>3, <3>1
            DEF ScanRegister, TypeInv, TypeOK, CallsWellFormed, Scans
  <2> QED BY <1>6, <2>1, <2>2, <2>3 DEF ScanStep
<1>7. ASSUME NEW h \in Handlers, NEW w \in Workflows, NEW pc, NEW s, NEW m,
             CallStart(h, w, pc, s, m),
             CallOK([NoCall EXCEPT !.pc = pc, !.workflow = w, !.schedule = s,
                                   !.managed = m])
      PROVE  TypeInv'
  <2>1. call' \in [Handlers -> Calls] /\ CallsWellFormed'
    BY <1>7, CallsKept DEF CallStart
  <2> QED BY <1>0, <1>7, <2>1 DEF CallStart, TypeInv, TypeOK
<1>8. ASSUME NEW h \in Handlers, NEW w \in Workflows,
             \/ \E s \in Applied, m \in Labelled : Apply(h, w, s, m)
             \/ RemoveWorkflow(h, w)
      PROVE  TypeInv'
  BY <1>7, <1>8 DEF Apply, RemoveWorkflow, CallOK, NoCall, Calls
<1>9. ASSUME NEW h \in Handlers, CallStep(h) PROVE TypeInv'
  <2> DEFINE c == call[h]
  <2>0. CallOK(c) /\ CallOK(NoCall)
    BY CallsOK
  <2>1. CASE ApplyCheck(h)
    <3>1. \/ call' = [call EXCEPT ![h] = NoCall]
          \/ /\ c.schedule # NoDeployment
             /\ call' = [call EXCEPT ![h] = [c EXCEPT !.pc = "read"]]
          \/ call' = [call EXCEPT ![h] = [c EXCEPT !.pc = "gc"]]
      BY <1>0, <2>1 DEF ApplyCheck, Return, CallGoto, TypeOK
    <3>2. /\ CallOK([c EXCEPT !.pc = "gc"])
          /\ c.schedule # NoDeployment => CallOK([c EXCEPT !.pc = "read"])
      BY <2>0, <2>1 DEF ApplyCheck, CallOK, Calls
    <3>3. call' \in [Handlers -> Calls] /\ CallsWellFormed'
      BY <2>0, <3>1, <3>2, CallsKept
    <3> QED BY <1>0, <2>1, <3>3 DEF ApplyCheck, TypeInv, TypeOK
  <2>2. CASE ApplyRead(h)
    <3> DEFINE rv == IF deploy[Wf(h)].exists THEN deploy[Wf(h)].rv ELSE 0
    <3>1. rv \in Nat
      BY <1>0, <2>0, <2>2 DEF ApplyRead, TypeOK, CallOK, DeployObjects, Wf
    <3>2. CallOK([c EXCEPT !.rv = rv, !.pc = "write"])
      BY <2>0, <2>2, <3>1 DEF ApplyRead, CallOK, Calls
    <3>3. call' \in [Handlers -> Calls] /\ CallsWellFormed'
      <4> DEFINE d == [c EXCEPT !.rv = rv, !.pc = "write"]
      <4>1. call' = [call EXCEPT ![h] = d] /\ CallOK(d)
        BY <2>2, <3>2 DEF ApplyRead
      <4> HIDE DEF d
      <4> QED BY <4>1, CallsKept
    <3> QED BY <1>0, <2>2, <3>3 DEF ApplyRead, TypeInv, TypeOK
  <2>3. CASE ApplyWrite(h)
    <3>1. CallOK([c EXCEPT !.pc = "cronGet"])
      BY <2>0, <2>3 DEF ApplyWrite, CallOK, Calls
    <3>2. call' \in [Handlers -> Calls] /\ CallsWellFormed'
      BY <2>0, <2>3, <3>1, CallsKept DEF ApplyWrite, Return, CallGoto
    <3>3. deploy' \in [Workflows -> DeployObjects]
      <4> DEFINE d == [exists |-> TRUE, rv |-> deploy[Wf(h)].rv + 1,
                       schedule |-> c.schedule, managed |-> c.managed]
      <4>1. deploy \in [Workflows -> DeployObjects] /\ Wf(h) \in Workflows
        BY <1>0, <2>0, <2>3 DEF ApplyWrite, TypeOK, CallOK, Wf
      <4>2. d \in DeployObjects
        BY <2>0, <2>3, <4>1 DEF ApplyWrite, CallOK, Calls, DeployObjects
      <4>3. deploy' = deploy \/ deploy' = [deploy EXCEPT ![Wf(h)] = d]
        BY <2>3 DEF ApplyWrite
      <4> HIDE DEF d
      <4> QED BY <4>1, <4>2, <4>3
    <3> QED BY <1>0, <2>3, <3>2, <3>3 DEF ApplyWrite, TypeInv, TypeOK
  <2>4. CASE ApplyGC(h) \/ RemoveDelete(h)
    <3>1. ApplyGC(h) => CallOK([c EXCEPT !.pc = "cronGet"])
      BY <2>0 DEF ApplyGC, CallOK, Calls
    <3>2. call' \in [Handlers -> Calls] /\ CallsWellFormed'
      BY <2>0, <2>4, <3>1, CallsKept DEF ApplyGC, RemoveDelete, Return, CallGoto
    <3>3. deploy' \in [Workflows -> DeployObjects]
      <4>1. deploy \in [Workflows -> DeployObjects] /\ Wf(h) \in Workflows
        BY <1>0, <2>0, <2>4 DEF ApplyGC, RemoveDelete, TypeOK, CallOK, Wf
      <4>2. NoDeploy(deploy[Wf(h)].rv) \in DeployObjects
        BY <4>1 DEF NoDeploy, DeployObjects
      <4>3. \/ deploy' = [deploy EXCEPT ![Wf(h)] = NoDeploy(deploy[Wf(h)].rv)]
            \/ deploy' = deploy
        BY <2>4 DEF ApplyGC, RemoveDelete
      <4> QED BY <4>1, <4>2, <4>3
    <3> QED BY <1>0, <2>4, <3>2, <3>3 DEF ApplyGC, RemoveDelete, TypeInv, TypeOK
  <2>5. CASE SyncCronGet(h)
    <3> DEFINE d == [c EXCEPT !.seen = deploy[Wf(h)].schedule, !.pc = "register"]
    <3>1. deploy[Wf(h)].schedule \in Schedules \cup {None}
      BY <1>0, <2>0, <2>5 DEF SyncCronGet, TypeOK, CallOK, DeployObjects, Wf
    <3>2. CallOK(d)
      BY <2>0, <2>5, <3>1 DEF SyncCronGet, CallOK, Calls
    <3>3. call' = [call EXCEPT ![h] = NoCall] \/ call' = [call EXCEPT ![h] = d]
      BY <2>5 DEF SyncCronGet, Return
    <3> HIDE DEF d
    <3>4. call' \in [Handlers -> Calls] /\ CallsWellFormed'
      BY <2>0, <3>2, <3>3, CallsKept
    <3> QED BY <1>0, <2>5, <3>4 DEF SyncCronGet, TypeInv, TypeOK
  <2>6. CASE SyncCronRegister(h)
    <3>1. sched' \in SchedulerStates
      BY <1>0, <2>6, RegisterType, DeregisterType
      DEF SyncCronRegister, TypeOK, CallsWellFormed, Calls, Wf
    <3>2. call' \in [Handlers -> Calls] /\ CallsWellFormed'
      BY <2>0, <2>6, CallsKept DEF SyncCronRegister, Return
    <3> QED BY <1>0, <2>6, <3>1, <3>2 DEF SyncCronRegister, TypeInv, TypeOK
  <2>7. CASE RemoveDeregister(h)
    <3>1. sched' \in SchedulerStates
      BY <1>0, <2>7, DeregisterType
      DEF RemoveDeregister, TypeOK, CallsWellFormed, Wf
    <3>2. CallOK([c EXCEPT !.pc = "delete"])
      BY <2>0, <2>7 DEF RemoveDeregister, CallOK, Calls
    <3>3. call' \in [Handlers -> Calls] /\ CallsWellFormed'
      BY <2>7, <3>2, CallsKept DEF RemoveDeregister, CallGoto
    <3> QED BY <1>0, <2>7, <3>1, <3>3 DEF RemoveDeregister, TypeInv, TypeOK
  <2> QED BY <1>9, <2>1, <2>2, <2>3, <2>4, <2>5, <2>6, <2>7 DEF CallStep
<1>10. ASSUME NEW h \in Handlers, CallFail(h) PROVE TypeInv'
  <2>1. call' \in [Handlers -> Calls] /\ CallsWellFormed'
    BY <1>10, CallsOK, CallsKept DEF CallFail, Return
  <2> QED BY <1>0, <1>10, <2>1 DEF CallFail, TypeInv, TypeOK
<1>11. ASSUME NEW n \in Namespaces, SetFrozen(n) \/ Deprovision(n) PROVE TypeInv'
  <2>1. deploy' \in [Workflows -> DeployObjects]
    <3>1. deploy \in [Workflows -> DeployObjects]
      BY <1>0 DEF TypeOK
    <3>2. \A w \in Workflows : NoDeploy(deploy[w].rv) \in DeployObjects
      BY <3>1 DEF NoDeploy, DeployObjects
    <3>3. CASE SetFrozen(n)
      BY <3>1, <3>3 DEF SetFrozen
    <3>4. CASE Deprovision(n)
      BY <3>1, <3>2, <3>4 DEF Deprovision
    <3> QED BY <1>11, <3>3, <3>4
  <2>2. frozen' \subseteq Namespaces
    BY <1>0, <1>11 DEF SetFrozen, Deprovision, TypeOK
  <2> QED BY <1>0, <1>11, <2>1, <2>2
          DEF SetFrozen, Deprovision, TypeInv, TypeOK, CallsWellFormed
<1>12. CASE UNCHANGED vars
  BY <1>0, <1>12 DEF vars, TypeInv, TypeOK, CallsWellFormed
<1> QED
  BY <1>1, <1>3, <1>4, <1>5, <1>6, <1>8, <1>9, <1>10, <1>11, <1>12 DEF Next

\* The variables keep their types: in particular the annotation that
\* syncCronSchedule or the scan hands to Register is one, never a placeholder.
THEOREM TypeCorrect == Spec => []TypeOK
<1>1. TypeInv => TypeOK
  BY DEF TypeInv
<1> QED BY TypeInit, TypeNext, <1>1, PTL DEF Spec

---------------------------------------------------------------------------
(* The map and the jobs *)

\* What the scan or a call is about to register.
Read(x) ==
  \/ \E w \in Workflows : x = scan.items[w]
  \/ \E h \in Handlers : x = call[h].seen

\* Whatever a step does to the scheduler, it does by New, Register or Deregister.
LEMMA SchedStep ==
  ASSUME TypeInv, [Next]_vars
  PROVE  \/ sched' = sched
         \/ sched' = New
         \/ \E w \in Workflows, x \in Schedules :
              Read(x) /\ sched' = Register(sched, w, x)
         \/ \E w \in Workflows : sched' = Deregister(sched, w)
<1> USE SchedulesAssumption, WorkflowsAssumption
<1>1. CASE Boot \/ Crash \/ Exit
  BY <1>1 DEF Boot, Crash, Exit, Gone
<1>2. CASE Shutdown \/ \E w \in Workflows : Fire(w) \/ RunEnds(w)
  BY <1>2 DEF Shutdown, Fire, RunEnds
<1>3. CASE ScanStep
  BY <1>3
  DEF ScanStep, ScanNamespaces, ScanList, ScanRegister, ScanEnd, Pending, TypeInv,
      TypeOK, Scans, Read
<1>4. ASSUME NEW h \in Handlers, NEW w \in Workflows,
             \/ \E s \in Applied, m \in Labelled : Apply(h, w, s, m)
             \/ RemoveWorkflow(h, w)
      PROVE  sched' = sched
  BY <1>4 DEF Apply, RemoveWorkflow, CallStart
<1>5. ASSUME NEW h \in Handlers, CallStep(h)
      PROVE  \/ sched' = sched
             \/ \E w \in Workflows, x \in Schedules :
                  Read(x) /\ sched' = Register(sched, w, x)
             \/ \E w \in Workflows : sched' = Deregister(sched, w)
  <2>1. CASE SyncCronRegister(h) \/ RemoveDeregister(h)
    BY <2>1
    DEF SyncCronRegister, RemoveDeregister, TypeInv, TypeOK, CallsWellFormed, Calls,
        Wf, Read
  <2> QED BY <1>5, <2>1
          DEF CallStep, ApplyCheck, ApplyRead, ApplyWrite, ApplyGC, SyncCronGet,
              RemoveDelete
<1>6. ASSUME NEW h \in Handlers, CallFail(h) PROVE sched' = sched
  BY <1>6 DEF CallFail
<1>7. CASE \E n \in Namespaces : SetFrozen(n) \/ Deprovision(n)
  BY <1>7 DEF SetFrozen, Deprovision
<1>8. CASE UNCHANGED vars
  BY <1>8 DEF vars
<1> QED BY <1>1, <1>2, <1>3, <1>4, <1>5, <1>6, <1>7, <1>8 DEF Next

\* In every behaviour each job is the one the map has for its workflow, so that
\* a workflow has one job at most and Deregister can always find it.
THEOREM JobsAreAlwaysEntries == Spec => []JobsAreEntries
<1>1. Init => SchedOK(sched)
  BY NewOK DEF Init
<1>2. TypeInv /\ SchedOK(sched) /\ [Next]_vars => SchedOK(sched)'
  <2> SUFFICES ASSUME TypeInv, SchedOK(sched), [Next]_vars PROVE SchedOK(sched')
    BY DEF SchedOK, IDsUnique, JobsOK
  <2>1. sched \in SchedulerStates
    BY DEF TypeInv, TypeOK
  <2> QED BY <2>1, SchedStep, NewOK, RegisterOK, DeregisterOK
<1>3. SchedOK(sched) => JobsAreEntries
  BY DEF SchedOK, JobsOK, JobsAreEntries
<1> QED BY TypeInit, TypeNext, <1>1, <1>2, <1>3, PTL DEF Spec

---------------------------------------------------------------------------
(* The scheduler and the Deployments *)

\* No call and no scan fails, no enclave is deprovisioned, every submission has a
\* Deployment, named like its label, and a schedule that parses, if any.
Undisturbed ==
  /\ ~Faults
  /\ Deprovisioned = {}
  /\ Applied \subseteq ValidSchedules \cup {None}
  /\ \A w \in Workflows : LabelOf[w] = w

Deals(h, w) == call[h].pc # "idle" /\ call[h].workflow = w

\* What the map has for a workflow, and what its Deployment asks for.
Entry(w) == sched.entries[w].schedule
Plan(w) == IF deploy[w].exists THEN deploy[w].schedule ELSE None

\* The startup scan has done what it will do for the workflow.
Scanned(w) ==
  \/ scan.pc = "done"
  \/ scan.pc = "list" /\ NamespaceOf[w] \notin scan.todo /\ ~Pending(w)

\* The call has changed neither the Deployment nor the scheduler yet.
Fresh(h) == call[h].pc \in {"check", "read", "write", "deregister"}

\* What holds of a workflow that no two actors dealt with at once.
Together(w) ==
  /\ \A g, h \in Handlers : Deals(g, w) /\ Deals(h, w) => g = h
  /\ Pending(w) =>
       /\ deploy[w].exists /\ deploy[w].managed
       /\ scan.items[w] = deploy[w].schedule
       /\ \A h \in Handlers : ~Deals(h, w)
  /\ \A h \in Handlers : Deals(h, w) =>
       /\ call[h].pc \in {"cronGet", "register"} => deploy[w].exists
       /\ call[h].pc = "register" => call[h].seen = deploy[w].schedule
       /\ call[h].pc = "delete" => Entry(w) = None
  /\ (\A h \in Handlers : Deals(h, w) => Fresh(h)) =>
       /\ Entry(w) \in {None, Plan(w)}
       /\ Scanned(w) /\ deploy[w].managed => Entry(w) = Plan(w)

\* Every entry of the map has its job.
HasJobs(s) ==
  \A w \in Workflows :
    s.entries[w].schedule # None =>
      /\ s.entries[w].schedule \in ValidSchedules
      /\ [id |-> s.entries[w].cronID, workflow |-> w,
          schedule |-> s.entries[w].schedule] \in s.jobs

\* Only schedules that parse are about, and a process that is down has no memory.
Values ==
  /\ \A w \in Workflows :
       /\ deploy[w].schedule \in ValidSchedules \cup {None}
       /\ scan.items[w] \in ValidSchedules \cup {None}
  /\ \A h \in Handlers :
       /\ call[h].schedule \in ValidSchedules \cup {None}
       /\ call[h].seen \in ValidSchedules \cup {None}
       /\ call[h].pc # "gc"
  /\ phase = "down" =>
       sched = New /\ scan = NoScan /\ call = [h \in Handlers |-> NoCall]

StepInv ==
  /\ TypeInv
  /\ SchedOK(sched)
  /\ HasJobs(sched)
  /\ Values
  /\ \A w \in Workflows : w \notin overlap => Together(w)

\* Register sets the entry of its workflow, and no other.
LEMMA RegisterEntry ==
  ASSUME NEW s \in SchedulerStates, NEW w \in Workflows, NEW x \in ValidSchedules
  PROVE  /\ Register(s, w, x).entries[w].schedule = x
         /\ \A v \in Workflows \ {w} : Register(s, w, x).entries[v] = s.entries[v]
  BY DEF Register, SchedulerStates

\* Deregister clears it, and no other.
LEMMA DeregisterEntry ==
  ASSUME NEW s \in SchedulerStates, NEW w \in Workflows
  PROVE  /\ Deregister(s, w).entries[w] = NoEntry
         /\ \A v \in Workflows \ {w} : Deregister(s, w).entries[v] = s.entries[v]
  BY DEF Deregister, SchedulerStates

\* The job of one workflow does not have the number of another's.
LEMMA OtherJobs ==
  ASSUME NEW s \in SchedulerStates, SchedOK(s), HasJobs(s),
         NEW v \in Workflows, NEW w \in Workflows, v # w, s.entries[v].schedule # None
  PROVE  [id |-> s.entries[v].cronID, workflow |-> v, schedule |-> s.entries[v].schedule]
           \in Remove(s.jobs, s.entries[w].cronID)
<1> DEFINE j == [id |-> s.entries[v].cronID, workflow |-> v,
                 schedule |-> s.entries[v].schedule]
<1>1. j \in s.jobs
  BY DEF HasJobs
<1>2. j.id # 0
  BY <1>1 DEF SchedOK, JobsOK
<1>3. s.entries[v].cronID # s.entries[w].cronID
  BY <1>2 DEF SchedOK, IDsUnique
<1> QED BY <1>1, <1>3 DEF Remove

\* Registering a schedule that parses leaves every entry with its job.
LEMMA RegisterJobs ==
  ASSUME NEW s \in SchedulerStates, SchedOK(s), HasJobs(s),
         NEW w \in Workflows, NEW x \in ValidSchedules
  PROVE  HasJobs(Register(s, w, x))
<1> DEFINE r == Register(s, w, x)
<1>1. CASE s.entries[w].schedule = x
  BY <1>1 DEF Register
<1>2. CASE s.entries[w].schedule # x
  <2>1. /\ r.entries = [s.entries EXCEPT ![w] = [schedule |-> x, cronID |-> s.nextID + 1]]
        /\ r.jobs = Remove(s.jobs, s.entries[w].cronID) \cup
                      {[id |-> s.nextID + 1, workflow |-> w, schedule |-> x]}
    BY <1>2 DEF Register
  <2> HIDE DEF r
  <2> SUFFICES ASSUME NEW v \in Workflows, r.entries[v].schedule # None
               PROVE  /\ r.entries[v].schedule \in ValidSchedules
                      /\ [id |-> r.entries[v].cronID, workflow |-> v,
                          schedule |-> r.entries[v].schedule] \in r.jobs
    BY DEF HasJobs, r
  <2>2. s.entries \in [Workflows -> Entries]
    BY DEF SchedulerStates
  <2>3. CASE v = w
    <3>1. r.entries[v] = [schedule |-> x, cronID |-> s.nextID + 1]
      BY <2>1, <2>2, <2>3
    <3> QED BY <2>1, <2>3, <3>1
  <2>4. CASE v # w
    <3>1. r.entries[v] = s.entries[v]
      BY <2>1, <2>2, <2>4
    <3> QED BY <2>1, <2>4, <3>1, OtherJobs DEF HasJobs
  <2> QED BY <2>3, <2>4
<1> QED BY <1>1, <1>2

\* So does deregistering.
LEMMA DeregisterJobs ==
  ASSUME NEW s \in SchedulerStates, SchedOK(s), HasJobs(s), NEW w \in Workflows
  PROVE  HasJobs(Deregister(s, w))
<1> DEFINE r == Deregister(s, w)
<1> SUFFICES ASSUME NEW v \in Workflows, r.entries[v].schedule # None
             PROVE  /\ r.entries[v].schedule \in ValidSchedules
                    /\ [id |-> r.entries[v].cronID, workflow |-> v,
                        schedule |-> r.entries[v].schedule] \in r.jobs
  BY DEF HasJobs
<1>1. v # w
  BY DeregisterEntry DEF NoEntry
<1>2. r.entries[v] = s.entries[v] /\ r.jobs = Remove(s.jobs, s.entries[w].cronID)
  BY <1>1, DeregisterEntry DEF Deregister
<1> QED BY <1>1, <1>2, OtherJobs DEF HasJobs

\* With a job for every entry, the map is what is run.
LEMMA LiveIsEntry ==
  ASSUME NEW s \in SchedulerStates, SchedOK(s), HasJobs(s), NEW w \in Workflows
  PROVE  Live(s, w) = {s.entries[w].schedule} \cap ValidSchedules
<1>1. ASSUME NEW j \in s.jobs, j.workflow = w
      PROVE  j.schedule = s.entries[w].schedule /\ s.entries[w].schedule # None
  <2>1. s.entries[w] = [schedule |-> j.schedule, cronID |-> j.id]
    BY <1>1 DEF SchedOK, JobsOK
  <2>2. j.schedule \in Schedules
    BY DEF SchedulerStates
  <2> QED BY <2>1, <2>2, SchedulesAssumption
<1>2. \A x \in Live(s, w) : x = s.entries[w].schedule /\ x \in ValidSchedules
  BY <1>1 DEF Live, HasJobs
<1>3. ASSUME s.entries[w].schedule \in ValidSchedules
      PROVE  s.entries[w].schedule \in Live(s, w)
  <2>1. s.entries[w].schedule # None
    BY <1>3, SchedulesAssumption
  <2>2. [id |-> s.entries[w].cronID, workflow |-> w,
         schedule |-> s.entries[w].schedule] \in s.jobs
    BY <2>1 DEF HasJobs
  <2> QED BY <2>2 DEF Live
<1> QED BY <1>2, <1>3

\* A step that touches neither the workflow, its entry nor a call for it leaves
\* them together.
LEMMA TogetherFrame ==
  ASSUME NEW w \in Workflows, Together(w),
         sched'.entries[w] = sched.entries[w],
         deploy'[w] = deploy[w],
         scan'.items[w] = scan.items[w],
         Scanned(w)' => Scanned(w),
         \A h \in Handlers : Deals(h, w) \/ Deals(h, w)' => call'[h] = call[h]
  PROVE  Together(w)'
<1>1. \A h \in Handlers : /\ Deals(h, w)' <=> Deals(h, w)
                          /\ Deals(h, w) => call'[h] = call[h] /\ (Fresh(h)' <=> Fresh(h))
  BY DEF Deals, Fresh
<1>2. (Pending(w)' <=> Pending(w)) /\ Entry(w)' = Entry(w) /\ Plan(w)' = Plan(w)
  BY DEF Pending, Entry, Plan
<1>3. \A g, h \in Handlers : Deals(g, w)' /\ Deals(h, w)' => g = h
  BY <1>1 DEF Together
<1>4. Pending(w)' =>
        /\ deploy'[w].exists /\ deploy'[w].managed
        /\ scan'.items[w] = deploy'[w].schedule
        /\ \A h \in Handlers : ~Deals(h, w)'
  BY <1>1, <1>2 DEF Together
<1>5. \A h \in Handlers : Deals(h, w)' =>
        /\ call'[h].pc \in {"cronGet", "register"} => deploy'[w].exists
        /\ call'[h].pc = "register" => call'[h].seen = deploy'[w].schedule
        /\ call'[h].pc = "delete" => Entry(w)' = None
  BY <1>1, <1>2 DEF Together
<1>6. (\A h \in Handlers : Deals(h, w)' => Fresh(h)') =>
        /\ Entry(w)' \in {None, Plan(w)'}
        /\ Scanned(w)' /\ deploy'[w].managed => Entry(w)' = Plan(w)'
  BY <1>1, <1>2 DEF Together
<1> QED BY <1>3, <1>4, <1>5, <1>6 DEF Together

\* The step of the only call that deals with a workflow.
LEMMA TogetherOwn ==
  ASSUME NEW w \in Workflows, Together(w), NEW h \in Handlers, Deals(h, w),
         call \in [Handlers -> Calls], UNCHANGED scan,
         NEW c, call' = [call EXCEPT ![h] = c], c.pc = "idle" \/ c.workflow = w,
         c.pc \in {"cronGet", "register"} => deploy'[w].exists,
         c.pc = "register" => c.seen = deploy'[w].schedule,
         c.pc = "delete" => Entry(w)' = None,
         c.pc \in {"idle", "check", "read", "write", "deregister"} =>
           /\ Entry(w)' \in {None, Plan(w)'}
           /\ Scanned(w) /\ deploy'[w].managed => Entry(w)' = Plan(w)'
  PROVE  Together(w)'
<1>1. call'[h] = c /\ \A g \in Handlers \ {h} : call'[g] = call[g]
  OBVIOUS
<1>2. \A g \in Handlers : Deals(g, w)' => g = h
  BY <1>1 DEF Together, Deals
<1>3. ~Pending(w)' /\ (Scanned(w)' <=> Scanned(w))
  BY DEF Together, Pending, Scanned
<1>4. \A g \in Handlers : Deals(g, w)' =>
        /\ call'[g].pc \in {"cronGet", "register"} => deploy'[w].exists
        /\ call'[g].pc = "register" => call'[g].seen = deploy'[w].schedule
        /\ call'[g].pc = "delete" => Entry(w)' = None
  BY <1>1, <1>2
<1>5. ASSUME \A g \in Handlers : Deals(g, w)' => Fresh(g)'
      PROVE  /\ Entry(w)' \in {None, Plan(w)'}
             /\ Scanned(w)' /\ deploy'[w].managed => Entry(w)' = Plan(w)'
  <2>1. c.pc \in {"idle", "check", "read", "write", "deregister"}
    BY <1>1, <1>5 DEF Deals, Fresh
  <2> QED BY <1>3, <2>1
<1> QED BY <1>2, <1>3, <1>4, <1>5 DEF Together

\* The scan leaves the workflows together: it registers what it listed, and has
\* listed nothing that a call was dealing with.
LEMMA ScanTogether ==
  ASSUME Undisturbed, StepInv, ScanStep, NEW w \in Workflows, w \notin overlap'
  PROVE  Together(w)'
<1>0. /\ scan \in Scans /\ sched \in SchedulerStates
      /\ \A v \in Workflows : scan.items[v] \in ValidSchedules \cup {None}
      /\ NamespaceOf[w] \in Namespaces
  BY WorkflowsAssumption DEF StepInv, TypeInv, TypeOK, Values
<1>1. w \notin overlap /\ UNCHANGED <<call, deploy>>
  BY DEF ScanStep, ScanNamespaces, ScanList, ScanRegister, ScanEnd
<1>2. Together(w)
  BY <1>1 DEF StepInv
<1>3. ASSUME sched'.entries[w] = sched.entries[w], scan'.items[w] = scan.items[w],
             Scanned(w)' => Scanned(w)
      PROVE  Together(w)'
  BY <1>1, <1>2, <1>3, TogetherFrame
<1>4. CASE ScanNamespaces
  <2>1. /\ scan' = [scan EXCEPT !.pc = "list", !.todo = Namespaces]
        /\ sched' = sched
    BY <1>4 DEF ScanNamespaces, Undisturbed
  <2>2. scan'.items = scan.items /\ ~Scanned(w)'
    BY <1>0, <2>1 DEF Scanned, Scans
  <2> QED BY <1>3, <2>1, <2>2
<1>5. CASE ScanEnd
  BY <1>0, <1>3, <1>5 DEF ScanEnd, Scanned, Scans
<1>6. ASSUME NEW v \in Workflows, ScanRegister(v) PROVE Together(w)'
  <2>1. /\ scan' = [scan EXCEPT !.items[v] = None]
        /\ sched' = Register(sched, v, scan.items[v])
        /\ scan.items[v] \in ValidSchedules
        /\ scan.pc = "list"
    BY <1>0, <1>6 DEF ScanRegister, Undisturbed, Pending
  <2>2. CASE v # w
    <3>1. sched'.entries[w] = sched.entries[w]
      BY <1>0, <2>1, <2>2, RegisterEntry
    <3>2. /\ scan'.items[w] = scan.items[w]
          /\ scan'.pc = scan.pc /\ scan'.todo = scan.todo
      BY <1>0, <2>1, <2>2 DEF Scans
    <3> QED BY <1>3, <3>1, <3>2 DEF Scanned, Pending
  <2>3. CASE v = w
    <3>1. /\ deploy[w].exists
          /\ scan.items[w] = deploy[w].schedule
          /\ \A h \in Handlers : ~Deals(h, w)
      BY <1>2, <1>6, <2>3 DEF Together, ScanRegister
    <3>2. Entry(w)' = Plan(w)'
      BY <1>0, <1>1, <2>1, <2>3, <3>1, RegisterEntry DEF Entry, Plan
    <3>3. ~Pending(w)' /\ \A h \in Handlers : ~Deals(h, w)'
      BY <1>0, <1>1, <2>1, <2>3, <3>1 DEF Pending, Deals, Scans
    <3> QED BY <3>2, <3>3 DEF Together
  <2> QED BY <2>2, <2>3
<1>7. ASSUME NEW n \in Namespaces, ScanList(n) PROVE Together(w)'
  <2> DEFINE found == Found(n)
  <2>1. /\ scan.pc = "list" /\ ~Pending(w) /\ sched' = sched
        /\ scan' = [scan EXCEPT !.todo = @ \ {n}, !.items = found]
        /\ overlap' = overlap \cup {v \in Workflows : found[v] # None /\ Busy(v)}
    BY <1>7 DEF ScanList, Undisturbed
  <2>2. /\ scan'.pc = "list" /\ scan'.todo = scan.todo \ {n}
        /\ scan'.items[w] = found[w]
    BY <1>0, <2>1 DEF Scans
  <2>3. CASE found[w] = None /\ NamespaceOf[w] # n
    <3>1. scan.items[w] = None
      BY <2>1 DEF Pending
    <3>2. Scanned(w)' => Scanned(w)
      BY <2>1, <2>2, <2>3 DEF Scanned
    <3> QED BY <1>3, <2>1, <2>2, <2>3, <3>1, <3>2
  <2>4. CASE found[w] = None /\ NamespaceOf[w] = n
    <3>1. Plan(w) = None \/ ~deploy[w].managed
      BY <2>4 DEF Plan, Found
    <3>2. ~Pending(w)' /\ Entry(w)' = Entry(w) /\ Plan(w)' = Plan(w)
      BY <1>1, <2>1, <2>2, <2>4 DEF Pending, Entry, Plan
    <3>3. \A h \in Handlers : (Deals(h, w)' <=> Deals(h, w)) /\ (Fresh(h)' <=> Fresh(h))
      BY <1>1 DEF Deals, Fresh
    <3> HIDE DEF found
    <3> QED BY <1>1, <1>2, <3>1, <3>2, <3>3 DEF Together
  <2>5. CASE found[w] # None
    <3>1. ~Busy(w)
      BY <2>1, <2>5
    <3>2. \A h \in Handlers : ~Deals(h, w) /\ ~Deals(h, w)'
      BY <1>1, <3>1 DEF Busy, Deals
    <3>3. /\ deploy'[w].exists /\ deploy'[w].managed
          /\ scan'.items[w] = deploy'[w].schedule
      BY <1>1, <2>2, <2>5 DEF Found
    <3>4. Pending(w)' /\ ~Scanned(w)' /\ Entry(w)' = Entry(w) /\ Plan(w)' = Plan(w)
      BY <1>1, <2>1, <2>2, <2>5 DEF Pending, Scanned, Entry, Plan
    <3> HIDE DEF found
    <3> QED BY <1>2, <3>2, <3>3, <3>4 DEF Together
  <2> QED BY <2>3, <2>4, <2>5
<1> QED BY <1>4, <1>5, <1>6, <1>7 DEF ScanStep

\* A call leaves the workflows together: its own it sees through, the others it
\* does not touch.
LEMMA CallTogether ==
  ASSUME Undisturbed, StepInv, NEW h \in Handlers, CallStep(h),
         NEW w \in Workflows, w \notin overlap'
  PROVE  Together(w)'
<1> DEFINE c == call[h]
<1>0. /\ call \in [Handlers -> Calls] /\ sched \in SchedulerStates
      /\ deploy \in [Workflows -> DeployObjects]
      /\ c.seen \in ValidSchedules \cup {None} /\ c.schedule \in ValidSchedules \cup {None}
      /\ c.pc # "gc"
  BY DEF StepInv, TypeInv, TypeOK, Values
<1>1. w \notin overlap /\ UNCHANGED scan
  BY DEF CallStep, ApplyCheck, ApplyRead, ApplyWrite, ApplyGC, SyncCronGet,
         SyncCronRegister, RemoveDeregister, RemoveDelete
<1>2. Together(w) /\ (Scanned(w)' <=> Scanned(w))
  BY <1>1 DEF StepInv, Scanned, Pending
<1>3. c.pc # "idle" /\ c.workflow \in Workflows /\ c.workflow = Wf(h)
  BY DEF CallStep, ApplyCheck, ApplyRead, ApplyWrite, ApplyGC, SyncCronGet,
         SyncCronRegister, RemoveDeregister, RemoveDelete, StepInv, TypeInv,
         CallsWellFormed, Wf
<1>4. \E d : call' = [call EXCEPT ![h] = d] /\ (d.pc = "idle" \/ d.workflow = c.workflow)
  BY <1>0 DEF CallStep, ApplyCheck, ApplyRead, ApplyWrite, ApplyGC, SyncCronGet,
         SyncCronRegister, RemoveDeregister, RemoveDelete, Return, CallGoto, NoCall, Calls
<1>5. CASE c.workflow # w
  <2>1. \A g \in Handlers : Deals(g, w) \/ Deals(g, w)' => call'[g] = call[g]
    BY <1>0, <1>4, <1>5 DEF Deals
  <2>2. deploy'[w] = deploy[w]
    BY <1>0, <1>3, <1>5
    DEF CallStep, ApplyCheck, ApplyRead, ApplyWrite, ApplyGC, SyncCronGet,
        SyncCronRegister, RemoveDeregister, RemoveDelete
  <2>3. sched'.entries[w] = sched.entries[w]
    <3>1. CASE SyncCronRegister(h) \/ RemoveDeregister(h)
      BY <1>0, <1>3, <1>5, <3>1, RegisterEntry, DeregisterEntry
      DEF SyncCronRegister, RemoveDeregister
    <3> QED BY <3>1
            DEF CallStep, ApplyCheck, ApplyRead, ApplyWrite, ApplyGC, SyncCronGet,
                RemoveDelete
  <2> QED BY <1>1, <1>2, <2>1, <2>2, <2>3, TogetherFrame
<1>6. CASE c.workflow = w
  <2>0. /\ Deals(h, w)
        /\ \A g \in Handlers : Deals(g, w) => g = h
        /\ Wf(h) = w
    BY <1>2, <1>3, <1>6 DEF Deals, Together
  <2>1. Fresh(h) =>
          /\ Entry(w) \in {None, Plan(w)}
          /\ Scanned(w) /\ deploy[w].managed => Entry(w) = Plan(w)
    BY <1>2, <2>0 DEF Together
  <2>2. ASSUME NEW d, call' = [call EXCEPT ![h] = d], d.pc = "idle" \/ d.workflow = w,
               UNCHANGED <<sched, deploy>>, Fresh(h), d.pc \in {"idle", "read", "write"}
        PROVE  Together(w)'
    <3>1. Entry(w)' = Entry(w) /\ Plan(w)' = Plan(w)
      BY <2>2 DEF Entry, Plan
    <3> QED BY <1>0, <1>1, <1>2, <2>0, <2>1, <2>2, <3>1, TogetherOwn
  <2>3. CASE ApplyCheck(h)
    <3>1. c.schedule # NoDeployment
      BY <1>0, WorkflowsAssumption, SchedulesAssumption
    <3>2. \/ call' = [call EXCEPT ![h] = NoCall]
          \/ call' = [call EXCEPT ![h] = [c EXCEPT !.pc = "read"]]
      BY <1>0, <2>3, <3>1 DEF ApplyCheck, Return, CallGoto
    <3>3. /\ NoCall.pc = "idle"
          /\ [c EXCEPT !.pc = "read"].pc = "read"
          /\ [c EXCEPT !.pc = "read"].workflow = w
      BY <1>0, <1>6 DEF NoCall, Calls
    <3> QED BY <2>2, <2>3, <3>2, <3>3 DEF ApplyCheck, Fresh
  <2>4. CASE ApplyRead(h)
    <3> DEFINE d == [c EXCEPT !.rv = IF deploy[Wf(h)].exists THEN deploy[Wf(h)].rv ELSE 0,
                              !.pc = "write"]
    <3>1. call' = [call EXCEPT ![h] = d] /\ d.pc = "write" /\ d.workflow = w
      BY <1>0, <1>6, <2>4 DEF ApplyRead, Calls
    <3> HIDE DEF d
    <3> QED BY <2>2, <2>4, <3>1 DEF ApplyRead, Fresh
  <2>5. CASE ApplyWrite(h)
    <3>1. CASE Return(h) /\ UNCHANGED deploy
      BY <2>2, <2>5, <3>1 DEF ApplyWrite, Fresh, Return, NoCall
    <3>2. CASE /\ CallGoto(h, "cronGet")
               /\ deploy' = [deploy EXCEPT ![w] = [exists |-> TRUE,
                    rv |-> deploy[w].rv + 1, schedule |-> c.schedule,
                    managed |-> c.managed]]
      <4> DEFINE d == [c EXCEPT !.pc = "cronGet"]
      <4>1. call' = [call EXCEPT ![h] = d] /\ d.pc = "cronGet" /\ d.workflow = w
        BY <1>0, <1>6, <3>2 DEF CallGoto, Calls
      <4>2. deploy'[w].exists
        BY <1>0, <3>2
      <4> HIDE DEF d
      <4> QED BY <1>0, <1>1, <1>2, <2>0, <4>1, <4>2, TogetherOwn
    <3> QED BY <2>0, <2>5, <3>1, <3>2 DEF ApplyWrite
  <2>6. CASE SyncCronGet(h)
    <3> DEFINE d == [c EXCEPT !.seen = deploy[Wf(h)].schedule, !.pc = "register"]
    <3>1. deploy[w].exists
      BY <1>2, <2>0, <2>6 DEF Together, SyncCronGet
    <3>2. UNCHANGED deploy /\ call' = [call EXCEPT ![h] = d]
      BY <2>0, <2>6, <3>1 DEF SyncCronGet
    <3>3. d.pc = "register" /\ d.workflow = w /\ d.seen = deploy[w].schedule
      BY <1>0, <1>6, <2>0 DEF Calls
    <3> HIDE DEF d
    <3> QED BY <1>0, <1>1, <1>2, <2>0, <3>1, <3>2, <3>3, TogetherOwn
  <2>7. CASE SyncCronRegister(h)
    <3>1. deploy[w].exists /\ c.seen = deploy[w].schedule
      BY <1>2, <2>0, <2>7 DEF Together, SyncCronRegister
    <3>2. Entry(w)' = c.seen
      BY <1>0, <2>0, <2>7, RegisterEntry, DeregisterEntry
      DEF SyncCronRegister, Entry, NoEntry
    <3>3. Entry(w)' = Plan(w)' /\ call' = [call EXCEPT ![h] = NoCall]
      BY <2>7, <3>1, <3>2 DEF SyncCronRegister, Plan, Return
    <3>4. NoCall.pc = "idle"
      BY DEF NoCall
    <3> QED BY <1>0, <1>1, <1>2, <2>0, <3>3, <3>4, TogetherOwn
  <2>8. CASE RemoveDeregister(h)
    <3> DEFINE d == [c EXCEPT !.pc = "delete"]
    <3>1. Entry(w)' = None
      BY <1>0, <2>0, <2>8, DeregisterEntry DEF RemoveDeregister, Entry, NoEntry
    <3>2. call' = [call EXCEPT ![h] = d] /\ d.pc = "delete" /\ d.workflow = w
      BY <1>0, <1>6, <2>8 DEF RemoveDeregister, CallGoto, Calls
    <3> HIDE DEF d
    <3> QED BY <1>0, <1>1, <1>2, <2>0, <3>1, <3>2, TogetherOwn
  <2>9. CASE RemoveDelete(h)
    <3>1. Entry(w) = None
      BY <1>2, <2>0, <2>9 DEF Together, RemoveDelete
    <3>2. Entry(w)' = None /\ Plan(w)' = None
      BY <1>0, <2>0, <2>9, <3>1 DEF RemoveDelete, Entry, Plan, NoDeploy
    <3>3. call' = [call EXCEPT ![h] = NoCall] /\ NoCall.pc = "idle"
      BY <2>9 DEF RemoveDelete, Return, NoCall
    <3> QED BY <1>0, <1>1, <1>2, <2>0, <3>2, <3>3, TogetherOwn
  <2>10. ~ApplyGC(h)
    BY <1>0 DEF ApplyGC
  <2> QED BY <2>3, <2>4, <2>5, <2>6, <2>7, <2>8, <2>9, <2>10 DEF CallStep
<1> QED BY <1>5, <1>6

\* A call that begins does so alone, or the history says otherwise.
LEMMA StartTogether ==
  ASSUME StepInv, NEW h \in Handlers, NEW v \in Workflows, NEW pc, NEW s, NEW m,
         CallStart(h, v, pc, s, m), pc \in {"check", "deregister"},
         NEW w \in Workflows, w \notin overlap'
  PROVE  Together(w)'
<1> DEFINE c == [NoCall EXCEPT !.pc = pc, !.workflow = v, !.schedule = s,
                               !.managed = m]
<1>0. call \in [Handlers -> Calls]
  BY DEF StepInv, TypeInv, TypeOK
<1>1. /\ w \notin overlap /\ UNCHANGED <<scan, sched, deploy>>
      /\ call[h].pc = "idle" /\ call' = [call EXCEPT ![h] = c]
      /\ v = w => ~Busy(w) /\ ~Pending(w)
  BY DEF CallStart
<1>2. c.pc = pc /\ c.workflow = v
  BY DEF NoCall
<1> HIDE DEF c
<1>3. Together(w) /\ (Scanned(w)' <=> Scanned(w)) /\ (Pending(w)' <=> Pending(w))
  BY <1>1 DEF StepInv, Scanned, Pending
<1>4. CASE v # w
  <2>1. \A g \in Handlers : Deals(g, w) \/ Deals(g, w)' => call'[g] = call[g]
    BY <1>0, <1>1, <1>2, <1>4 DEF Deals
  <2> QED BY <1>1, <1>3, <2>1, TogetherFrame
<1>5. CASE v = w
  <2>1. \A g \in Handlers : ~Deals(g, w)
    BY <1>1, <1>5 DEF Busy, Deals
  <2>2. \A g \in Handlers : Deals(g, w)' => g = h
    BY <1>0, <1>1, <2>1 DEF Deals
  <2>3. call'[h].pc \in {"check", "deregister"}
    BY <1>0, <1>1, <1>2
  <2>4. ~Pending(w)' /\ Entry(w)' = Entry(w) /\ Plan(w)' = Plan(w)
    BY <1>1, <1>3, <1>5 DEF Entry, Plan
  <2>5. /\ Entry(w) \in {None, Plan(w)}
        /\ Scanned(w) /\ deploy[w].managed => Entry(w) = Plan(w)
    BY <1>3, <2>1 DEF Together
  <2> QED BY <1>1, <1>3, <2>2, <2>3, <2>4, <2>5 DEF Together
<1> QED BY <1>4, <1>5

\* A server that starts or has gone has no calls, no entries and no scan to go by.
LEMMA RestartTogether ==
  ASSUME StepInv, Boot \/ Crash \/ Exit, NEW w \in Workflows
  PROVE  Together(w)'
<1>1. call' = [h \in Handlers |-> NoCall] /\ sched' = New
  BY DEF Boot, Crash, Exit, Gone, StepInv, Values
<1>2. scan'.items[w] = None /\ scan'.pc \in {"off", "namespaces"}
  BY DEF Boot, Crash, Exit, Gone, NoScan
<1>3. \A h \in Handlers : ~Deals(h, w)'
  BY <1>1 DEF Deals, NoCall
<1>4. Entry(w)' = None /\ ~Pending(w)' /\ ~Scanned(w)'
  BY <1>1, <1>2 DEF Entry, New, NoEntry, Pending, Scanned
<1> QED BY <1>3, <1>4 DEF Together

\* Only what was applied is read, written back and registered.
LEMMA ValuesNext ==
  ASSUME Undisturbed, TypeInv, Values, [Next]_vars
  PROVE  Values'
<1> USE SchedulesAssumption, WorkflowsAssumption
<1> DEFINE Known == ValidSchedules \cup {None}
           CallKnown(c) == c.schedule \in Known /\ c.seen \in Known /\ c.pc # "gc"
<1>0. /\ call \in [Handlers -> Calls] /\ scan \in Scans
      /\ deploy \in [Workflows -> DeployObjects]
  BY DEF TypeInv, TypeOK
<1>1. /\ \A w \in Workflows : deploy[w].schedule \in Known /\ scan.items[w] \in Known
      /\ \A h \in Handlers : CallKnown(call[h])
  BY DEF Values
<1>2. CallKnown(NoCall)
  BY DEF NoCall
<1>3. CASE Boot \/ Crash \/ Exit
  <2>1. /\ call' = [h \in Handlers |-> NoCall] /\ UNCHANGED deploy
        /\ \A w \in Workflows : scan'.items[w] = None
        /\ phase' = "down" => sched' = New /\ scan' = NoScan
    BY <1>3 DEF Boot, Crash, Exit, Gone, NoScan, Values
  <2> QED BY <1>1, <1>2, <2>1 DEF Values
<1>4. CASE \/ Shutdown
           \/ \E w \in Workflows : Fire(w) \/ RunEnds(w)
           \/ \E n \in Namespaces : SetFrozen(n) \/ Deprovision(n)
           \/ UNCHANGED vars
  <2>1. /\ UNCHANGED <<sched, call, scan, deploy>>
        /\ phase' = "down" => phase = "down"
    BY <1>4 DEF Shutdown, Fire, RunEnds, SetFrozen, Deprovision, vars, Undisturbed
  <2> QED BY <2>1 DEF Values
<1>5. CASE ScanStep
  <2>1. UNCHANGED <<call, deploy, phase>>
    BY <1>5 DEF ScanStep, ScanNamespaces, ScanList, ScanRegister, ScanEnd
  <2>2. phase # "down"
    <3>1. scan.pc \in {"namespaces", "list"}
      BY <1>5 DEF ScanStep, ScanNamespaces, ScanList, ScanRegister, ScanEnd
    <3> QED BY <3>1 DEF Values, NoScan
  <2>3. ASSUME NEW w \in Workflows PROVE scan'.items[w] \in Known
    <3>1. CASE ScanNamespaces \/ ScanEnd
      BY <1>0, <1>1, <3>1 DEF ScanNamespaces, ScanEnd, Scans
    <3>2. ASSUME NEW n \in Namespaces, ScanList(n) PROVE scan'.items[w] \in Known
      <4> DEFINE found == Found(n)
      <4>1. found[w] \in Known
        BY <1>1 DEF Found
      <4>2. scan' = [scan EXCEPT !.todo = @ \ {n}, !.items = found]
        BY <3>2 DEF ScanList, Undisturbed
      <4> HIDE DEF found
      <4>3. scan'.items = found
        BY <1>0, <4>2 DEF Scans
      <4> QED BY <4>1, <4>3
    <3>3. ASSUME NEW v \in Workflows, ScanRegister(v) PROVE scan'.items[w] \in Known
      BY <1>0, <1>1, <3>3 DEF ScanRegister, Scans
    <3> QED BY <1>5, <3>1, <3>2, <3>3 DEF ScanStep
  <2> QED BY <1>1, <2>1, <2>2, <2>3 DEF Values
<1>6. ASSUME NEW h \in Handlers, phase # "down", UNCHANGED <<phase, scan>>,
             NEW c, call' = [call EXCEPT ![h] = c], CallKnown(c),
             \A w \in Workflows : deploy'[w].schedule \in Known
      PROVE  Values'
  <2>1. \A g \in Handlers : call'[g] \in {call[g], c}
    BY <1>0, <1>6
  <2>2. \A g \in Handlers : CallKnown(call'[g])
    BY <1>1, <1>6, <2>1
  <2> QED BY <1>1, <1>6, <2>2 DEF Values
<1>7. ASSUME NEW h \in Handlers, NEW w \in Workflows, NEW pc, NEW s \in Known, NEW m,
             pc \in {"check", "deregister"}, CallStart(h, w, pc, s, m)
      PROVE  Values'
  <2> DEFINE c == [NoCall EXCEPT !.pc = pc, !.workflow = w, !.schedule = s,
                                 !.managed = m]
  <2>1. CallKnown(c)
    BY <1>7 DEF NoCall
  <2> HIDE DEF c
  <2>2. /\ phase # "down" /\ UNCHANGED <<phase, scan, deploy>>
        /\ call' = [call EXCEPT ![h] = c]
    BY <1>7 DEF CallStart, c
  <2> QED BY <1>1, <1>6, <2>1, <2>2
<1>8. ASSUME NEW h \in Handlers, CallStep(h) PROVE Values'
  <2>1. phase # "down" /\ UNCHANGED <<phase, scan>>
    BY <1>8 DEF CallStep, ApplyCheck, ApplyRead, ApplyWrite, ApplyGC, SyncCronGet,
         SyncCronRegister, RemoveDeregister, RemoveDelete, Values, NoCall
  <2>2. call[h].workflow \in Workflows /\ call[h].workflow = Wf(h) /\ CallKnown(call[h])
    BY <1>1, <1>8 DEF CallStep, ApplyCheck, ApplyRead, ApplyWrite, ApplyGC, SyncCronGet,
         SyncCronRegister, RemoveDeregister, RemoveDelete, TypeInv, CallsWellFormed, Wf
  <2>3. ASSUME NEW w \in Workflows PROVE deploy'[w].schedule \in Known
    <3>1. \/ deploy' = deploy
          \/ \E d : d.schedule \in Known /\ deploy' = [deploy EXCEPT ![Wf(h)] = d]
      BY <1>8, <2>2 DEF CallStep, ApplyCheck, ApplyRead, ApplyWrite, ApplyGC, SyncCronGet,
           SyncCronRegister, RemoveDeregister, RemoveDelete, NoDeploy
    <3> QED BY <1>0, <1>1, <2>2, <3>1
  <2>4. \E c : CallKnown(c) /\ call' = [call EXCEPT ![h] = c]
    <3>1. deploy[Wf(h)].schedule \in Known /\ call[h] \in Calls
      BY <1>0, <1>1, <2>2
    <3>2. ASSUME NEW loc \in {"read", "cronGet", "delete"}, CallGoto(h, loc)
          PROVE  \E c : CallKnown(c) /\ call' = [call EXCEPT ![h] = c]
      <4>1. CallKnown([call[h] EXCEPT !.pc = loc])
        BY <2>2, <3>1 DEF Calls
      <4> QED BY <3>2, <4>1 DEF CallGoto
    <3>3. CASE Return(h)
      BY <1>2, <3>3 DEF Return
    <3>4. CASE ApplyRead(h)
      <4> DEFINE c == [call[h] EXCEPT
            !.rv = IF deploy[Wf(h)].exists THEN deploy[Wf(h)].rv ELSE 0, !.pc = "write"]
      <4>1. CallKnown(c)
        BY <2>2, <3>1 DEF Calls
      <4>2. call' = [call EXCEPT ![h] = c]
        BY <3>4 DEF ApplyRead
      <4> HIDE DEF c
      <4> QED BY <4>1, <4>2
    <3>5. CASE call' = [call EXCEPT ![h].seen = deploy[Wf(h)].schedule, ![h].pc = "register"]
      <4> DEFINE c == [call[h] EXCEPT !.seen = deploy[Wf(h)].schedule, !.pc = "register"]
      <4>1. CallKnown(c)
        BY <2>2, <3>1 DEF Calls
      <4> QED BY <3>5, <4>1
    <3>6. CASE ApplyCheck(h)
      <4>1. call[h].schedule # NoDeployment
        BY <2>2
      <4> QED BY <3>2, <3>3, <3>6, <4>1 DEF ApplyCheck
    <3> HIDE DEF CallKnown
    <3>7. CASE ApplyWrite(h) \/ ApplyGC(h) \/ SyncCronGet(h) \/ SyncCronRegister(h)
               \/ RemoveDeregister(h) \/ RemoveDelete(h)
      BY <3>2, <3>3, <3>5, <3>7 DEF ApplyWrite, ApplyGC, SyncCronGet, SyncCronRegister,
           RemoveDeregister, RemoveDelete
    <3> QED BY <1>8, <3>4, <3>6, <3>7 DEF CallStep
  <2> QED BY <1>6, <2>1, <2>3, <2>4
<1>9. ASSUME NEW h \in Handlers, NEW w \in Workflows,
             \/ \E s \in Applied, m \in Labelled : Apply(h, w, s, m)
             \/ RemoveWorkflow(h, w)
      PROVE  Values'
  <2>1. \E pc \in {"check", "deregister"}, s \in Known :
          \E m : CallStart(h, w, pc, s, m)
    BY <1>9 DEF Apply, RemoveWorkflow, Undisturbed
  <2> QED BY <1>7, <2>1
<1>10. ASSUME NEW h \in Handlers PROVE ~CallFail(h)
  BY DEF CallFail, Undisturbed
<1> QED BY <1>3, <1>4, <1>5, <1>8, <1>9, <1>10 DEF Next

\* Every step keeps the scheduler in step.
LEMMA StepNext ==
  ASSUME Undisturbed
  PROVE  StepInv /\ [Next]_vars => StepInv'
<1> SUFFICES ASSUME StepInv, [Next]_vars PROVE StepInv'
  OBVIOUS
<1>1. TypeInv' /\ Values' /\ sched \in SchedulerStates
  BY TypeNext, ValuesNext DEF StepInv, TypeInv, TypeOK
<1>2. SchedOK(sched')
  BY <1>1, SchedStep, NewOK, RegisterOK, DeregisterOK DEF StepInv
<1>3. HasJobs(sched')
  <2>1. HasJobs(New)
    BY DEF HasJobs, New, NoEntry
  <2>2. \A x \in Schedules : Read(x) => x \in ValidSchedules
    BY SchedulesAssumption DEF StepInv, Values, Read
  <2> QED BY <1>1, <2>1, <2>2, SchedStep, RegisterJobs, DeregisterJobs DEF StepInv
<1>4. ASSUME NEW w \in Workflows, w \notin overlap' PROVE Together(w)'
  <2>1. CASE Boot \/ Crash \/ Exit
    BY <2>1, RestartTogether
  <2>2. CASE \/ Shutdown
             \/ \E v \in Workflows : Fire(v) \/ RunEnds(v)
             \/ \E n \in Namespaces : SetFrozen(n) \/ Deprovision(n)
             \/ UNCHANGED vars
    <3>1. UNCHANGED <<sched, call, scan, deploy, overlap>>
      BY <2>2 DEF Shutdown, Fire, RunEnds, SetFrozen, Deprovision, vars, Undisturbed
    <3>2. Together(w) /\ (Scanned(w)' <=> Scanned(w))
      BY <1>4, <3>1 DEF StepInv, Scanned, Pending
    <3> QED BY <3>1, <3>2, TogetherFrame
  <2>3. CASE ScanStep
    BY <1>4, <2>3, ScanTogether
  <2>4. ASSUME NEW h \in Handlers, CallStep(h) PROVE Together(w)'
    BY <1>4, <2>4, CallTogether
  <2>5. ASSUME NEW h \in Handlers, NEW v \in Workflows,
               \/ \E s \in Applied, m \in Labelled : Apply(h, v, s, m)
               \/ RemoveWorkflow(h, v)
        PROVE  Together(w)'
    BY <1>4, <2>5, StartTogether DEF Apply, RemoveWorkflow
  <2>6. ASSUME NEW h \in Handlers PROVE ~CallFail(h)
    BY DEF CallFail, Undisturbed
  <2> QED BY <2>1, <2>2, <2>3, <2>4, <2>5, <2>6 DEF Next
<1>5. SchedOK(sched)' /\ HasJobs(sched)'
  BY <1>2, <1>3 DEF SchedOK, IDsUnique, JobsOK, HasJobs
<1> QED BY <1>1, <1>4, <1>5 DEF StepInv

\* Nothing is scheduled at the start.
LEMMA StepInit == Init => StepInv
<1> SUFFICES ASSUME Init PROVE StepInv
  OBVIOUS
<1>1. TypeInv /\ SchedOK(sched) /\ HasJobs(sched)
  BY TypeInit, NewOK DEF Init, HasJobs, New, NoEntry
<1>2. Values
  BY DEF Init, Values, NoDeploy, NoScan, NoCall
<1>3. ASSUME NEW w \in Workflows PROVE Together(w)
  BY DEF Init, Together, Deals, NoCall, Pending, NoScan, Entry, New, NoEntry, Scanned
<1> QED BY <1>1, <1>2, <1>3 DEF StepInv

\* When no API call fails, every schedule parses and every Deployment's label
\* app.kubernetes.io/name is its name, the schedules a server runs are those asked for
\* by its Deployments with the label managed-by=tentacular, whenever nothing deals with
\* the workflow and no two actors dealt with it at once: whatever crashes and shutdowns
\* came in between, and wherever the startup scan was when calls for other workflows
\* were served.  For a Deployment without that label nothing is run that it does not ask
\* for, but its schedule may be missing after a restart.
THEOREM AlwaysInSyncUnlessOverlapped ==
  ASSUME Undisturbed
  PROVE  Spec => []InSyncUnlessOverlapped
<1>1. StepInv => InSyncUnlessOverlapped
  <2> SUFFICES ASSUME StepInv, NEW w \in Workflows, AtRest(w), w \notin overlap
               PROVE  /\ Live(sched, w) \subseteq Wanted(w)
                      /\ deploy[w].managed => Live(sched, w) = Wanted(w)
    BY DEF InSyncUnlessOverlapped
  <2>1. Together(w) /\ sched \in SchedulerStates /\ Scanned(w)
    BY DEF StepInv, TypeInv, TypeOK, AtRest, Scanned
  <2>2. Entry(w) \in {None, Plan(w)} /\ (deploy[w].managed => Entry(w) = Plan(w))
    BY <2>1 DEF Together, AtRest, Busy, Deals
  <2>3. Live(sched, w) = {Entry(w)} \cap ValidSchedules
    BY <2>1, LiveIsEntry DEF StepInv, Entry
  <2> QED BY <2>2, <2>3, SchedulesAssumption DEF Wanted, Plan
<1> QED BY <1>1, StepInit, StepNext, PTL DEF Spec
=============================================================================
