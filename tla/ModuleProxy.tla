---------------------------- MODULE ModuleProxy ----------------------------
(***************************************************************************)
(* The module proxy: the reconciler that every server process runs in the  *)
(* background (pkg/proxy/reconciler.go) and the requests by which wf_apply *)
(* warms the proxy up (pkg/k8s/prewarm.go).  While the server itself is    *)
(* being upgraded two processes reconcile, to different images; somebody   *)
(* else may edit or delete the objects, and API calls fail, a bounded      *)
(* number of times.                                                        *)
(***************************************************************************)
EXTENDS Naturals, FiniteSets

CONSTANTS
  Servers,            \* server processes
  Newest,             \* the one that stays
  Wanted,             \* the image each is configured with
  Images,
  Modules,            \* jsr and npm dependencies of a workflow
  PrewarmConcurrency, \* prewarmConcurrency
  MaxOverlap,         \* bound: further passes of the servers that are replaced
  MaxEdits,           \* bound: edits and deletions by others
  MaxFaults,          \* bound: failing API calls
  MaxRestarts,        \* bound: restarts of the newest server
  None

ASSUME ProxyAssumption ==
  /\ Newest \in Servers
  /\ Wanted \in [Servers -> Images]
  /\ PrewarmConcurrency \in Nat \ {0}
  /\ MaxOverlap \in Nat /\ MaxEdits \in Nat /\ MaxFaults \in Nat /\ MaxRestarts \in Nat
  /\ None \notin Images

VARIABLES
  deployment, \* None, or [image, rv]
  service,    \* does the Service exist?
  version,    \* the last resourceVersion given out
  server,     \* the reconciler of each process: [pc, seen]
  passes, edits, faults, restarts,
  module,     \* what has become of the request for each module
  expired     \* is the background context of the requests over?

vars == <<deployment, service, version, server, passes, edits, faults, restarts,
          module, expired>>

cluster == <<deployment, service, version>>
requests == <<module, expired>>
bounds == <<passes, edits, faults, restarts>>

\* Every reconciler starts with a pass at once.
Init ==
  /\ deployment \in {None} \cup [image : Images, rv : {0}]
  /\ service \in BOOLEAN
  /\ version = 0
  /\ server = [s \in Servers |-> [pc |-> "getDeployment", seen |-> None]]
  /\ passes = 0 /\ edits = 0 /\ faults = 0 /\ restarts = 0
  /\ module = [m \in Modules |-> "none"]
  /\ expired = FALSE

---------------------------------------------------------------------------
(* The reconciler *)

At(s, pc) == server[s].pc = pc

Goto(s, pc) == server' = [server EXCEPT ![s] = [pc |-> pc, seen |-> None]]

\* The ticker fires.
Tick(s) ==
  /\ At(s, "waiting")
  /\ s = Newest \/ passes < MaxOverlap
  /\ passes' = IF s = Newest THEN passes ELSE passes + 1
  /\ Goto(s, "getDeployment")
  /\ UNCHANGED <<cluster, edits, faults, restarts, requests>>

\* The Deployment is created when it is missing and replaced when its image is
\* not the one configured; nothing else about it is compared.
GetDeployment(s) ==
  /\ At(s, "getDeployment")
  /\ server' = [server EXCEPT ![s] =
       [seen |-> deployment,
        pc |-> IF deployment = None THEN "create"
               ELSE IF deployment.image # Wanted[s] THEN "update"
               ELSE "getService"]]
  /\ UNCHANGED <<cluster, bounds, requests>>

\* BuildDeployment's object, of which only the image varies: an update is never
\* refused for a field that is immutable, as the selector would be.
Put(image) ==
  /\ version' = version + 1
  /\ deployment' = [image |-> image, rv |-> version + 1]
  /\ UNCHANGED service

\* AlreadyExists is an error, and ends the pass.
CreateDeployment(s) ==
  /\ At(s, "create")
  /\ \/ /\ deployment = None
        /\ Put(Wanted[s])
        /\ Goto(s, "getService")
     \/ /\ deployment # None
        /\ Goto(s, "waiting")
        /\ UNCHANGED cluster
  /\ UNCHANGED <<bounds, requests>>

\* A Conflict, or a Deployment that is gone, ends the pass too.
UpdateDeployment(s) ==
  /\ At(s, "update")
  /\ \/ /\ deployment = server[s].seen
        /\ Put(Wanted[s])
        /\ Goto(s, "getService")
     \/ /\ deployment # server[s].seen
        /\ Goto(s, "waiting")
        /\ UNCHANGED cluster
  /\ UNCHANGED <<bounds, requests>>

GetService(s) ==
  /\ At(s, "getService")
  /\ Goto(s, IF service THEN "waiting" ELSE "createService")
  /\ UNCHANGED <<cluster, bounds, requests>>

CreateService(s) ==
  /\ At(s, "createService")
  /\ service' = TRUE
  /\ Goto(s, "waiting")
  /\ UNCHANGED <<deployment, version, bounds, requests>>

Calls ==
  {"getDeployment", "create", "update", "getService", "createService"}

\* Mutant: the loop returns at the first error.
ApiFailFatal(s) ==
  /\ server[s].pc \in Calls
  /\ faults < MaxFaults
  /\ faults' = faults + 1
  /\ Goto(s, "gone")
  /\ UNCHANGED <<cluster, passes, edits, restarts, requests>>

\* A call that fails, or whose answer is lost, ends the pass: an error of the
\* Deployment leaves the Service for the next one.
ApiFail(s) ==
  /\ server[s].pc \in Calls
  /\ faults < MaxFaults
  /\ faults' = faults + 1
  /\ Goto(s, "waiting")
  /\ \/ UNCHANGED cluster
     \/ /\ At(s, "create") /\ deployment = None
        /\ Put(Wanted[s])
     \/ /\ At(s, "update") /\ deployment = server[s].seen
        /\ Put(Wanted[s])
     \/ /\ At(s, "createService")
        /\ service' = TRUE
        /\ UNCHANGED <<deployment, version>>
  /\ UNCHANGED <<passes, edits, restarts, requests>>

\* The context of a process that is replaced is cancelled, whatever it was doing.
Stop(s) ==
  /\ s # Newest
  /\ ~At(s, "gone")
  /\ Goto(s, "gone")
  /\ UNCHANGED <<cluster, bounds, requests>>

\* A process that dies is started again.
Restart(s) ==
  /\ s = Newest
  /\ restarts < MaxRestarts
  /\ restarts' = restarts + 1
  /\ Goto(s, "getDeployment")
  /\ UNCHANGED <<cluster, passes, edits, faults, requests>>

\* Others delete or edit the objects.
Edit ==
  /\ edits < MaxEdits
  /\ edits' = edits + 1
  /\ \/ deployment' = None /\ UNCHANGED <<service, version>>
     \/ deployment # None /\ \E image \in Images : Put(image)
     \/ service' = FALSE /\ UNCHANGED <<deployment, version>>
  /\ UNCHANGED <<server, passes, faults, restarts, requests>>

ServerStep(s) ==
  \/ Tick(s) \/ GetDeployment(s) \/ CreateDeployment(s) \/ UpdateDeployment(s)
  \/ GetService(s) \/ CreateService(s)

---------------------------------------------------------------------------
(* Warming up *)

InFlight == {m \in Modules : module[m] = "running"}

\* wf_apply starts one goroutine for each dependency.
Prewarm ==
  /\ \A m \in Modules : module[m] = "none"
  /\ module' = [m \in Modules |-> "waiting"]
  /\ UNCHANGED <<cluster, server, bounds, expired>>

\* The goroutine waits for a slot, whether or not the context is over by then ...
Acquire(m) ==
  /\ module[m] = "waiting"
  /\ Cardinality(InFlight) < PrewarmConcurrency
  /\ module' = [module EXCEPT ![m] = "running"]
  /\ UNCHANGED <<cluster, server, bounds, expired>>

\* Mutant: a request that fails does not give its slot back.
AnswerLeaking(m) ==
  /\ module[m] = "running"
  /\ ~expired /\ deployment # None /\ service
  /\ module' = [module EXCEPT ![m] = "warm"]
  /\ UNCHANGED <<cluster, server, bounds, expired>>

\* ... and makes its request, which the proxy answers if it is there, unless one of
\* the deadlines is passed first; either way the slot is given back.
Answer(m) ==
  /\ module[m] = "running"
  /\ \/ /\ ~expired /\ deployment # None /\ service
        /\ module' = [module EXCEPT ![m] = "warm"]
     \/ module' = [module EXCEPT ![m] = "failed"]
  /\ UNCHANGED <<cluster, server, bounds, expired>>

\* The 60 seconds of the background context are over.
Expire ==
  /\ \E m \in Modules : module[m] # "none"
  /\ ~expired
  /\ expired' = TRUE
  /\ UNCHANGED <<cluster, server, bounds, module>>

Next ==
  \/ \E s \in Servers : ServerStep(s) \/ ApiFail(s) \/ Stop(s) \/ Restart(s)
  \/ Edit
  \/ Prewarm \/ Expire
  \/ \E m \in Modules : Acquire(m) \/ Answer(m)

Spec == Init /\ [][Next]_vars

\* The ticker goes on, a call returns, a process that is replaced does stop, and
\* every goroutine is scheduled.
FairSpec ==
  /\ Spec
  /\ \A s \in Servers : WF_vars(ServerStep(s)) /\ WF_vars(Stop(s))
  /\ \A m \in Modules : WF_vars(Acquire(m)) /\ WF_vars(Answer(m))

---------------------------------------------------------------------------
(* Properties *)

Installed == deployment # None /\ deployment.image = Wanted[Newest] /\ service

\* Once the others leave it alone the proxy is there for good, with the image of
\* the server that stays, although every pass stops at its first error and two
\* servers have been undoing each other's updates.
Converges == <>[]Installed

\* Every request ends, those that wait for a slot when the time is up included:
\* the goroutines of wf_apply do not pile up.
PrewarmEnds ==
  \A m \in Modules : module[m] = "waiting" ~> module[m] \in {"warm", "failed"}
=============================================================================
