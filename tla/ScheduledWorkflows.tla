------------------------ MODULE ScheduledWorkflows ------------------------
(***************************************************************************)
(* How the scheduler is kept in step with the Deployments: the startup     *)
(* scan (pkg/scheduler/discover.go), wf_apply and wf_remove                *)
(* (pkg/tools/deploy.go) as they deal with the schedule annotation, the    *)
(* jobs firing, and the life of the server process                         *)
(* (cmd/tentacular-mcp/main.go).  Every Kubernetes API call is a step of   *)
(* its own.                                                                *)
(***************************************************************************)
EXTENDS Scheduler

CONSTANTS
  Namespaces,
  NamespaceOf,    \* [Workflows -> Namespaces]
  LabelOf,        \* the app.kubernetes.io/name of each Deployment, if not its name
  Handlers,       \* wf_apply and wf_remove calls that may be in flight
  Applied,        \* what a wf_apply puts in the annotation, or NoDeployment
  NoDeployment,   \* the manifests hold no Deployment
  Labelled,       \* are Deployments submitted with managed-by=tentacular, or without?
  MaxCalls,       \* bound: wf_apply and wf_remove calls in a behaviour
  MaxRestarts,    \* bound: times the server goes down
  MaxRuns,        \* bound: runs of one workflow at a time
  Frozenable,     \* namespaces somebody may freeze
  Deprovisioned,  \* namespaces somebody may deprovision
  Faults          \* BOOLEAN: may API calls fail?

ASSUME WorkflowsAssumption ==
  /\ NamespaceOf \in [Workflows -> Namespaces]
  /\ LabelOf \in [Workflows -> Workflows]
  /\ NoDeployment \notin Schedules \cup {None}
  /\ Applied \subseteq Schedules \cup {None, NoDeployment}
  /\ Labelled \subseteq BOOLEAN
  /\ MaxCalls \in Nat /\ MaxRestarts \in Nat /\ MaxRuns \in Nat
  /\ Frozenable \subseteq Namespaces
  /\ Deprovisioned \subseteq Namespaces
  /\ Faults \in BOOLEAN

VARIABLES
  sched,      \* the scheduler's memory
  phase,      \* the server process: down, up or draining
  scan,       \* the goroutine of the startup scan
  call,       \* the calls of wf_apply and wf_remove in flight
  running,    \* runs of each workflow that a job started
  deploy,     \* the Deployments, their schedule annotations and managed-by labels
  frozen,     \* namespaces of frozen enclaves
  callCount,
  restarts,
  overlap     \* history: workflows two actors dealt with at the same time

vars == <<sched, phase, scan, call, running, deploy, frozen, callCount, restarts,
          overlap>>

DeployObjects ==
  [exists : BOOLEAN, rv : Nat, schedule : Schedules \cup {None}, managed : BOOLEAN]

NoDeploy(rv) ==
  [exists |-> FALSE, rv |-> rv, schedule |-> None, managed |-> FALSE]

NoCall ==
  [pc |-> "idle", workflow |-> None, schedule |-> None, managed |-> FALSE, rv |-> 0,
   seen |-> None]

\* todo: namespaces still to be listed; items: what the last list found.
NoScan == [pc |-> "off", todo |-> {}, items |-> [w \in Workflows |-> None]]

Init ==
  /\ sched = New
  /\ phase = "down"
  /\ scan = NoScan
  /\ call = [h \in Handlers |-> NoCall]
  /\ running = [w \in Workflows |-> 0]
  /\ deploy = [w \in Workflows |-> NoDeploy(0)]
  /\ frozen = {}
  /\ callCount = 0
  /\ restarts = 0
  /\ overlap = {}

---------------------------------------------------------------------------
(* The server process *)

\* main starts the scheduler and, in a goroutine, the scan.
Boot ==
  /\ phase = "down"
  /\ phase' = "up"
  /\ sched' = New
  /\ scan' = [NoScan EXCEPT !.pc = "namespaces"]
  /\ overlap' = {}
  /\ UNCHANGED <<call, running, deploy, frozen, callCount, restarts>>

\* The process is gone, and its memory with it.
Gone ==
  /\ phase' = "down"
  /\ sched' = New
  /\ scan' = NoScan
  /\ call' = [h \in Handlers |-> NoCall]
  /\ running' = [w \in Workflows |-> 0]
  /\ UNCHANGED <<deploy, frozen, callCount, overlap>>

Crash ==
  /\ phase # "down"
  /\ restarts < MaxRestarts
  /\ restarts' = restarts + 1
  /\ Gone

\* SIGTERM: the cron library stops firing; calls are still served.
Shutdown ==
  /\ phase = "up"
  /\ restarts < MaxRestarts
  /\ phase' = "draining"
  /\ restarts' = restarts + 1
  /\ UNCHANGED <<sched, scan, call, running, deploy, frozen, callCount, overlap>>

\* Scheduler.Stop waits for the running jobs, then the HTTP server shuts down.
Exit ==
  /\ phase = "draining"
  /\ \A w \in Workflows : running[w] = 0
  /\ Gone
  /\ UNCHANGED restarts

---------------------------------------------------------------------------
(* The jobs *)

\* Mutant: jobs go on firing while the server waits for the running ones.
FireOn(w) ==
  /\ phase # "down"
  /\ Live(sched, w) # {}
  /\ running[w] < MaxRuns
  /\ running' = [running EXCEPT ![w] = @ + 1]
  /\ UNCHANGED <<sched, phase, scan, call, deploy, frozen, callCount, restarts,
                 overlap>>

\* A job fires: trigger posts to the workflow, asking nobody.
Fire(w) ==
  /\ phase = "up"
  /\ Live(sched, w) # {}
  /\ running[w] < MaxRuns
  /\ running' = [running EXCEPT ![w] = @ + 1]
  /\ UNCHANGED <<sched, phase, scan, call, deploy, frozen, callCount, restarts,
                 overlap>>

\* The workflow answers, or 120 seconds pass.
RunEnds(w) ==
  /\ running[w] > 0
  /\ running' = [running EXCEPT ![w] = @ - 1]
  /\ UNCHANGED <<sched, phase, scan, call, deploy, frozen, callCount, restarts,
                 overlap>>

---------------------------------------------------------------------------
(* ScanWorkflows *)

Pending(w) == scan.items[w] # None
Busy(w) == \E h \in Handlers : call[h].pc # "idle" /\ call[h].workflow = w

ScanNamespaces ==
  /\ scan.pc = "namespaces"
  /\ \/ scan' = [scan EXCEPT !.pc = "list", !.todo = Namespaces]
     \/ /\ Faults
        /\ scan' = [scan EXCEPT !.pc = "done"]
  /\ UNCHANGED <<sched, phase, call, running, deploy, frozen, callCount, restarts,
                 overlap>>

\* What a list of the namespace's Deployments with the label managed-by=tentacular
\* finds.  Nothing but the author of a manifest sets that label.
Found(n) ==
  [w \in Workflows |->
     IF deploy[w].exists /\ deploy[w].managed /\ NamespaceOf[w] = n
     THEN deploy[w].schedule ELSE None]

\* The Deployments of a namespace are listed; a failed list skips the namespace.
ScanList(n) ==
  /\ scan.pc = "list"
  /\ \A w \in Workflows : ~Pending(w)
  /\ n \in scan.todo
  /\ \/ /\ scan' = [scan EXCEPT !.todo = @ \ {n}, !.items = Found(n)]
        /\ overlap' = overlap \cup {w \in Workflows : Found(n)[w] # None /\ Busy(w)}
     \/ /\ Faults
        /\ scan' = [scan EXCEPT !.todo = @ \ {n}]
        /\ UNCHANGED overlap
  /\ UNCHANGED <<sched, phase, call, running, deploy, frozen, callCount, restarts>>

\* One listed Deployment is registered, under its label.
ScanRegister(w) ==
  /\ scan.pc = "list"
  /\ Pending(w)
  /\ sched' = Register(sched, LabelOf[w], scan.items[w])
  /\ scan' = [scan EXCEPT !.items[w] = None]
  /\ UNCHANGED <<phase, call, running, deploy, frozen, callCount, restarts, overlap>>

\* Mutant: the scan gives up after the namespaces, as if all had failed.
ScanEndEarly ==
  /\ scan.pc = "list"
  /\ scan' = [NoScan EXCEPT !.pc = "done"]
  /\ UNCHANGED <<sched, phase, call, running, deploy, frozen, callCount, restarts,
                 overlap>>

ScanEnd ==
  /\ scan.pc = "list"
  /\ scan.todo = {}
  /\ \A w \in Workflows : ~Pending(w)
  /\ scan' = [scan EXCEPT !.pc = "done"]
  /\ UNCHANGED <<sched, phase, call, running, deploy, frozen, callCount, restarts,
                 overlap>>

---------------------------------------------------------------------------
(* wf_apply and wf_remove *)

Return(h) == call' = [call EXCEPT ![h] = NoCall]
CallGoto(h, loc) == call' = [call EXCEPT ![h].pc = loc]
Wf(h) == call[h].workflow

\* A call arrives; the history notes whom it overlaps.
CallStart(h, w, pc, schedule, managed) ==
  /\ phase # "down"
  /\ call[h].pc = "idle"
  /\ callCount < MaxCalls
  /\ call' = [call EXCEPT
       ![h] = [NoCall EXCEPT !.pc = pc, !.workflow = w, !.schedule = schedule,
                             !.managed = managed]]
  /\ callCount' = callCount + 1
  /\ overlap' = IF Busy(w) \/ Pending(w) THEN overlap \cup {w} ELSE overlap
  /\ UNCHANGED <<sched, phase, scan, running, deploy, frozen, restarts>>

Apply(h, w, schedule, managed) == CallStart(h, w, "check", schedule, managed)

\* Mutant: manifests without a Deployment are not told apart.
ApplyCheckAny(h) ==
  /\ call[h].pc = "check"
  /\ IF NamespaceOf[Wf(h)] \in frozen THEN Return(h) ELSE CallGoto(h, "read")
  /\ UNCHANGED <<sched, phase, scan, running, deploy, frozen, callCount, restarts,
                 overlap>>

\* wf_apply is refused in a frozen enclave.
ApplyCheck(h) ==
  /\ call[h].pc = "check"
  /\ IF NamespaceOf[Wf(h)] \in frozen THEN Return(h)
     ELSE CallGoto(h, IF call[h].schedule = NoDeployment THEN "gc" ELSE "read")
  /\ UNCHANGED <<sched, phase, scan, running, deploy, frozen, callCount, restarts,
                 overlap>>

\* handleWorkflowApply reads the Deployment ...
ApplyRead(h) ==
  /\ call[h].pc = "read"
  /\ call' = [call EXCEPT
       ![h].rv = IF deploy[Wf(h)].exists THEN deploy[Wf(h)].rv ELSE 0,
       ![h].pc = "write"]
  /\ UNCHANGED <<sched, phase, scan, running, deploy, frozen, callCount, restarts,
                 overlap>>

\* ... and creates or updates it; a Deployment that came, went or changed
\* meanwhile is an error.
ApplyWrite(h) ==
  LET d == deploy[Wf(h)] IN
  /\ call[h].pc = "write"
  /\ IF (IF d.exists THEN d.rv ELSE 0) = call[h].rv
     THEN /\ deploy' = [deploy EXCEPT ![Wf(h)] =
               [exists |-> TRUE, rv |-> d.rv + 1, schedule |-> call[h].schedule,
                managed |-> call[h].managed]]
          /\ CallGoto(h, "cronGet")
     ELSE /\ Return(h)
          /\ UNCHANGED deploy
  /\ UNCHANGED <<sched, phase, scan, running, frozen, callCount, restarts, overlap>>

\* A Deployment that is not in the manifests any more is garbage collected, or
\* left if that fails.
ApplyGC(h) ==
  /\ call[h].pc = "gc"
  /\ \/ deploy' = [deploy EXCEPT ![Wf(h)] = NoDeploy(@.rv)]
     \/ Faults /\ UNCHANGED deploy
  /\ CallGoto(h, "cronGet")
  /\ UNCHANGED <<sched, phase, scan, running, frozen, callCount, restarts, overlap>>

\* syncCronSchedule reads the Deployment back; without one it does nothing.
SyncCronGet(h) ==
  /\ call[h].pc = "cronGet"
  /\ IF deploy[Wf(h)].exists
     THEN call' = [call EXCEPT ![h].seen = deploy[Wf(h)].schedule,
                               ![h].pc = "register"]
     ELSE Return(h)
  /\ UNCHANGED <<sched, phase, scan, running, deploy, frozen, callCount, restarts,
                 overlap>>

\* Mutant: a schedule that was taken away is not deregistered.
SyncCronRegisterOnly(h) ==
  /\ call[h].pc = "register"
  /\ sched' = IF call[h].seen = None THEN sched
              ELSE Register(sched, Wf(h), call[h].seen)
  /\ Return(h)
  /\ UNCHANGED <<phase, scan, running, deploy, frozen, callCount, restarts, overlap>>

SyncCronRegister(h) ==
  /\ call[h].pc = "register"
  /\ sched' = IF call[h].seen = None THEN Deregister(sched, Wf(h))
              ELSE Register(sched, Wf(h), call[h].seen)
  /\ Return(h)
  /\ UNCHANGED <<phase, scan, running, deploy, frozen, callCount, restarts, overlap>>

RemoveWorkflow(h, w) == CallStart(h, w, "deregister", None, FALSE)

\* The schedule goes first ...
RemoveDeregister(h) ==
  /\ call[h].pc = "deregister"
  /\ sched' = Deregister(sched, Wf(h))
  /\ CallGoto(h, "delete")
  /\ UNCHANGED <<phase, scan, running, deploy, frozen, callCount, restarts, overlap>>

\* ... then the Deployment.
RemoveDelete(h) ==
  /\ call[h].pc = "delete"
  /\ deploy' = [deploy EXCEPT ![Wf(h)] = NoDeploy(@.rv)]
  /\ Return(h)
  /\ UNCHANGED <<sched, phase, scan, running, frozen, callCount, restarts, overlap>>

\* An API call fails: of wf_apply, also one for another manifest once the
\* Deployment is written.  wf_remove passes over objects it cannot delete.
CallFail(h) ==
  /\ Faults
  /\ call[h].pc \in {"check", "read", "write", "gc", "cronGet", "deregister",
                     "delete"}
  /\ Return(h)
  /\ UNCHANGED <<sched, phase, scan, running, deploy, frozen, callCount, restarts,
                 overlap>>

---------------------------------------------------------------------------
(* Other tools *)

\* enclave_sync freezes an enclave or makes it active again.
SetFrozen(n) ==
  /\ phase # "down"
  /\ n \in Frozenable
  /\ frozen' = IF n \in frozen THEN frozen \ {n} ELSE frozen \cup {n}
  /\ UNCHANGED <<sched, phase, scan, call, running, deploy, callCount, restarts,
                 overlap>>

\* enclave_deprovision deletes the Deployments of an enclave.
Deprovision(n) ==
  /\ phase # "down"
  /\ n \in Deprovisioned
  /\ deploy' = [w \in Workflows |->
       IF NamespaceOf[w] = n THEN NoDeploy(deploy[w].rv) ELSE deploy[w]]
  /\ UNCHANGED <<sched, phase, scan, call, running, frozen, callCount, restarts,
                 overlap>>

---------------------------------------------------------------------------

ScanStep ==
  \/ ScanNamespaces
  \/ \E n \in Namespaces : ScanList(n)
  \/ \E w \in Workflows : ScanRegister(w)
  \/ ScanEnd

CallStep(h) ==
  \/ ApplyCheck(h) \/ ApplyRead(h) \/ ApplyWrite(h) \/ ApplyGC(h)
  \/ SyncCronGet(h) \/ SyncCronRegister(h)
  \/ RemoveDeregister(h) \/ RemoveDelete(h)

Next ==
  \/ Boot \/ Crash \/ Shutdown \/ Exit
  \/ \E w \in Workflows : Fire(w) \/ RunEnds(w)
  \/ ScanStep
  \/ \E h \in Handlers :
       \/ \E w \in Workflows :
            \/ \E s \in Applied, m \in Labelled : Apply(h, w, s, m)
            \/ RemoveWorkflow(h, w)
       \/ CallStep(h)
       \/ CallFail(h)
  \/ \E n \in Namespaces : SetFrozen(n) \/ Deprovision(n)

Spec == Init /\ [][Next]_vars

\* The kubelet restarts the container, goroutines make progress, a run ends
\* (its context has a deadline) and a drained server exits.  No job need fire.
Fairness ==
  /\ WF_vars(Boot)
  /\ WF_vars(Exit)
  /\ WF_vars(ScanStep)
  /\ \A w \in Workflows : WF_vars(RunEnds(w))
  /\ \A h \in Handlers : WF_vars(CallStep(h))

FairSpec == Spec /\ Fairness

---------------------------------------------------------------------------
(* Properties *)

Calls ==
  [pc       : {"idle", "check", "read", "write", "gc", "cronGet", "register",
               "deregister", "delete"},
   workflow : Workflows \cup {None},
   schedule : Schedules \cup {None, NoDeployment},
   managed  : BOOLEAN,
   rv       : Nat,
   seen     : Schedules \cup {None}]

Scans ==
  [pc    : {"off", "namespaces", "list", "done"},
   todo  : SUBSET Namespaces,
   items : [Workflows -> Schedules \cup {None}]]

\* Every variable has the type its declaration says.
TypeOK ==
  /\ sched \in SchedulerStates
  /\ phase \in {"down", "up", "draining"}
  /\ scan \in Scans
  /\ call \in [Handlers -> Calls]
  /\ running \in [Workflows -> Nat]
  /\ deploy \in [Workflows -> DeployObjects]
  /\ frozen \subseteq Namespaces
  /\ callCount \in Nat /\ restarts \in Nat
  /\ overlap \subseteq Workflows

\* Every job of the cron library is the one its workflow's entry names, with the
\* same schedule: whatever registrations race, fail to parse or replace each
\* other, no workflow has two jobs and none that Deregister could not remove.
JobsAreEntries ==
  \A j \in sched.jobs :
    sched.entries[j.workflow] = [schedule |-> j.schedule, cronID |-> j.id]

\* The schedules a Deployment asks for that can be run.
Wanted(w) ==
  IF deploy[w].exists THEN {deploy[w].schedule} \cap ValidSchedules ELSE {}

\* Nobody is dealing with the workflow, and the scan is over.
AtRest(w) == phase = "up" /\ scan.pc = "done" /\ ~Busy(w)

\* Without invalid schedules and failures, only calls for the same workflow that
\* overlap each other, or the startup scan, get the scheduler out of step;
\* restarts at any point do not.  That is said of Deployments with the label
\* managed-by=tentacular.  wf_apply registers any other one too, but the scan passes
\* it by (discover.go:23-25): of it only that no schedule is run it does not ask for.
InSyncUnlessOverlapped ==
  \A w \in Workflows :
    AtRest(w) /\ w \notin overlap =>
      /\ Live(sched, w) \subseteq Wanted(w)
      /\ deploy[w].managed => Live(sched, w) = Wanted(w)

\* wf_apply of a schedule that parses makes it live, whatever was applied before:
\* "If the workflow already has a schedule, it is replaced."
ValidScheduleIsLive ==
  \A w \in Workflows : AtRest(w) => Wanted(w) \subseteq Live(sched, w)

\* After restarts, in the end, the schedules of the Deployments that nobody
\* disturbed and that carry the label managed-by=tentacular are live again.  One
\* without the label loses its schedule at the first restart.
SchedulesRestored ==
  \A w \in Workflows :
    <>[](phase = "up"
         /\ (w \in overlap \/ ~deploy[w].managed \/ Live(sched, w) = Wanted(w)))

\* A shutdown is not held up by jobs firing while it waits for the running ones.
ShutdownCompletes == phase = "draining" ~> phase = "down"
=============================================================================
