----------------------------- MODULE Tentacles -----------------------------
(***************************************************************************)
(* wf_apply, wf_remove, wf_restart and wf_run (pkg/tools/deploy.go,        *)
(* workflow.go, run.go) beside enclave_sync, on the same namespaces and    *)
(* Deployments.  A handler reads the enclave's annotations and the         *)
(* Deployment's first, decides on them, and writes many API calls later;   *)
(* every API call is a step.                                               *)
(*                                                                         *)
(* A release is the set of objects that carry the release label of its     *)
(* name: Deployments, usually but not necessarily the one of that name,    *)
(* and objects of other kinds, one of a kind here.  What the exoskeleton   *)
(* does between the checks and the writes is modelled in Exoskeleton, what *)
(* becomes of the schedule in ScheduledWorkflows.                          *)
(***************************************************************************)
EXTENDS EnclaveSync, Authz

CONSTANTS
  Enabled,        \* Evaluator.Enabled
  Kinds,          \* kinds of objects besides Deployments
  Contents,       \* what a manifest may say
  Callers,        \* wf_* calls that may be in flight together
  ApplyRequests,
  OtherRequests,  \* requests to remove, restart or run a tentacle
  MaxCalls,       \* bound: wf_* calls in a behaviour
  Deprovisioned,  \* namespaces that may be deleted
  CallFaults,     \* BOOLEAN: may API calls of the wf_* tools fail?
  Initial         \* enclaves and tentacles at the start

\* A mode that ParseMode refuses.
Unreadable == <<"?">>

\* An object is a Deployment, which has the name of a tentacle, or of another kind.
Objects == Tentacles \cup Kinds

\* The objects one list request asks for: those of a kind.
Lists == {Tentacles} \cup {{k} : k \in Kinds}

\* The annotations of a Deployment that matter for access to it.  A manifest may
\* bring its own, and nothing checks them.
DeploymentAnnotations ==
  [owner : Emails \cup {Empty}, ownerSub : Emails \cup {Empty},
   mode : Modes \cup {Empty, Unreadable}]

ASSUME TentaclesAssumption ==
  /\ Tentacles \cap Kinds = {}
  /\ Empty \notin Tentacles
  /\ ApplyRequests \subseteq
       [op : {"apply"}, name : Namespaces, tentacle : Tentacles,
        deployer : Deployers, mode : Modes \cup {Empty, Unreadable},
        manifests : SUBSET Objects, own : DeploymentAnnotations,
        content : Contents]
  /\ OtherRequests \subseteq
       [op : {"remove", "restart", "run"}, name : Namespaces,
        tentacle : Tentacles, deployer : Deployers]
  /\ Contents # {} /\ Empty \notin Contents
  /\ MaxCalls \in Nat
  /\ CallFaults \in BOOLEAN /\ Enabled \in BOOLEAN
  /\ Initial \subseteq [enclaves : [Namespaces -> EnclaveInfo],
                        tentacles : [Tentacles -> DeploymentAnnotations \cup {Empty}]]

\* The modes the handlers write are valid ones, and no annotations are no object.
ASSUME ModesAssumption ==
  /\ {ModeString(m) : m \in {DefaultEnclaveMode, DefaultMode}} \subseteq Modes
  /\ \A m \in Modes : IsModeText(m)
  /\ Empty \notin DeploymentAnnotations

VARIABLES
  depMode,     \* the mode annotation of each Deployment in deps
  obj,         \* the release label and the rest of each object
  rvs,         \* the versions of the objects that are not Deployments
  call,        \* the wf_* calls in flight
  callCount,
  seen,        \* history: what was the case at some time during each call
  good         \* history: what each release should hold, Empty when unknown

objectVars == <<depMode, obj, rvs>>
tentacleVars == <<objectVars, call, callCount>>
historyVars == <<seen, good>>
vars == <<clusterVars, syncVars, tentacleVars, historyVars>>

\* release is Empty when there is no such object.
NoObject == [release |-> Empty, content |-> Empty]

\* info and existing are the annotations the call read (Empty: none), rv the
\* version of the object it is about to write, todo the objects it has still to deal
\* with, item the one it is writing, listed those it is to delete.  whole (history)
\* is FALSE once it passed over a failed list or deletion.
NoCall ==
  [pc |-> "idle", req |-> Empty, info |-> Empty, existing |-> Empty,
   todo |-> {}, item |-> Empty, rv |-> 0, listed |-> {}, whole |-> TRUE]

NotSeen == [active |-> FALSE, owners |-> {}, modes |-> {}, alone |-> TRUE]

Init ==
  \E i \in Initial :
    /\ ns = [n \in Namespaces |->
         [phase |-> "Active", rv |-> 1, uid |-> 1, ann |-> i.enclaves[n]]]
    /\ deps = [n \in Namespaces |-> [t \in Tentacles |->
         IF i.tentacles[t] = Empty
         THEN [exists |-> FALSE, rv |-> 0, owner |-> Empty, ownerSub |-> Empty]
         ELSE [exists |-> TRUE, rv |-> 1, owner |-> i.tentacles[t].owner,
               ownerSub |-> i.tentacles[t].ownerSub]]]
    /\ quota = [n \in Namespaces |->
         [exists |-> TRUE, rv |-> 1, kind |-> "requests",
          preset |-> i.enclaves[n].preset]]
    /\ res = [n \in Namespaces |-> Resources]
    /\ depMode = [n \in Namespaces |-> [t \in Tentacles |->
         IF i.tentacles[t] = Empty THEN Empty ELSE i.tentacles[t].mode]]
    /\ obj = [n \in Namespaces |-> [o \in Objects |->
         IF o \in Kinds THEN NoObject
         ELSE IF i.tentacles[o] = Empty THEN NoObject
         ELSE [release |-> o, content |-> CHOOSE x \in Contents : TRUE]]]
    /\ rvs = [n \in Namespaces |-> [k \in Kinds |-> 0]]
    /\ SyncInit
    /\ call = [h \in Callers |-> NoCall]
    /\ callCount = 0
    /\ seen = [h \in Callers |-> NotSeen]
    /\ good = [n \in Namespaces |-> [t \in Tentacles |-> Empty]]

---------------------------------------------------------------------------
(* Calls *)

Busy(h) == call[h].pc # "idle"
NsOf(h) == call[h].req.name
TentOf(h) == call[h].req.tentacle
DepOf(h) == deps[NsOf(h)][TentOf(h)]
By(h) == call[h].req.deployer

\* The annotations of a Deployment, as it is read.
Annotations(n, t) ==
  [owner |-> deps[n][t].owner, ownerSub |-> deps[n][t].ownerSub,
   mode |-> depMode[n][t]]

\* What a release holds: the content of each of its objects.
ReleaseOf(n, t) ==
  [o \in Objects |-> IF obj[n][o].release = t THEN obj[n][o].content ELSE Empty]

\* The objects a request describes.
Named(r) == IF r.op = "apply" THEN r.manifests ELSE {}

\* What the release holds after the request was carried out.
Asked(r) == [o \in Objects |-> IF o \in Named(r) THEN r.content ELSE Empty]

\* The handler returns, with an error or with nothing said of the release.
Return(h) == call' = [call EXCEPT ![h] = NoCall] /\ UNCHANGED good

\* wf_apply or wf_remove returns success: the release is then what was asked for,
\* unless another call came between; whole tells whether nothing was passed over.
Succeed(h) ==
  /\ call' = [call EXCEPT ![h] = NoCall]
  /\ good' = [good EXCEPT ![NsOf(h)][TentOf(h)] =
       IF seen[h].alone
       THEN [asked |-> Asked(call[h].req), whole |-> call[h].whole] ELSE Empty]

Goto(h, loc) == call' = [call EXCEPT ![h].pc = loc] /\ UNCHANGED good

\* A request arrives; guard and requireDeployer let it in.
Start(h, r) ==
  /\ ~Busy(h)
  /\ callCount < MaxCalls
  /\ requireDeployer(Enabled, r.deployer)
  /\ call' = [call EXCEPT ![h] =
       [NoCall EXCEPT !.pc = IF r.op = "apply" THEN "annotations" ELSE "lookup",
                      !.req = r]]
  /\ callCount' = callCount + 1
  /\ UNCHANGED <<good, clusterVars, objectVars>>

IsFrozen(info) == info # Empty /\ info.status = "frozen"

---------------------------------------------------------------------------
(* wf_apply: the checks *)

ReadableMode(r) == r.mode # Empty => IsModeText(r.mode)

\* The mode wf_apply stamps: the one asked for, or a default; it is never empty.
ResolvedMode(r, info) ==
  IF r.mode # Empty THEN r.mode
  ELSE ModeString(IF info # Empty THEN DefaultEnclaveMode ELSE DefaultMode)

\* Mutant: the mode is not looked at.
ApplyAnnotationsUnparsed(h) ==
  /\ call[h].pc = "annotations"
  /\ ~IsFrozen(ns[NsOf(h)].ann)
  /\ call' = [call EXCEPT ![h].info = ns[NsOf(h)].ann, ![h].pc = "deployment"]
  /\ UNCHANGED <<good, callCount, clusterVars, objectVars>>

\* Mutant: the frozen check is left to the caller.
ApplyAnnotationsAlways(h) ==
  /\ call[h].pc = "annotations"
  /\ ReadableMode(call[h].req)
  /\ call' = [call EXCEPT ![h].info = ns[NsOf(h)].ann, ![h].pc = "deployment"]
  /\ UNCHANGED <<good, callCount, clusterVars, objectVars>>

\* The namespace's annotations are read, none if it is not there; a frozen
\* enclave and an unreadable mode are refused.
ApplyAnnotations(h) ==
  LET info == ns[NsOf(h)].ann IN
  /\ call[h].pc = "annotations"
  /\ \/ /\ IsFrozen(info) \/ ~ReadableMode(call[h].req)
        /\ Return(h)
     \/ /\ ~IsFrozen(info) /\ ReadableMode(call[h].req)
        /\ call' = [call EXCEPT ![h].info = info, ![h].pc = "deployment"]
        /\ UNCHANGED good
  /\ UNCHANGED <<callCount, clusterVars, objectVars>>

\* The Deployment is read: an update needs write access to it.
ApplyDeployment(h) ==
  LET ann == Annotations(NsOf(h), TentOf(h)) IN
  /\ call[h].pc = "deployment"
  /\ \/ /\ ~DepOf(h).exists
        /\ Goto(h, "namespace")
     \/ /\ DepOf(h).exists
        /\ ~CheckTentacle(Enabled, By(h), call[h].info, ann, "write")
        /\ Return(h)
     \/ /\ DepOf(h).exists
        /\ CheckTentacle(Enabled, By(h), call[h].info, ann, "write")
        /\ call' = [call EXCEPT ![h].existing = ann, ![h].pc = "managed"]
        /\ UNCHANGED good
  /\ UNCHANGED <<callCount, clusterVars, objectVars>>

\* A new tentacle needs write access to the enclave, which is read again.
ApplyNamespace(h) ==
  /\ call[h].pc = "namespace"
  /\ IF checkNamespaceAuthz(Enabled, By(h), NsExists(NsOf(h)), ns[NsOf(h)].ann,
                            "write")
     THEN Goto(h, "managed") ELSE Return(h)
  /\ UNCHANGED <<callCount, clusterVars, objectVars>>

---------------------------------------------------------------------------
(* wf_remove, wf_restart and wf_run: the checks *)

\* The Deployment is read; without one nothing is checked.
Lookup(h) ==
  /\ call[h].pc = "lookup"
  /\ IF DepOf(h).exists
     THEN /\ call' = [call EXCEPT ![h].pc = "access",
                        ![h].existing = Annotations(NsOf(h), TentOf(h))]
          /\ UNCHANGED good
     ELSE Goto(h, "managed")
  /\ UNCHANGED <<callCount, clusterVars, objectVars>>

\* Then the annotations of the namespace; a restart or a run is refused in a
\* frozen enclave, a removal is not.
Access(h) ==
  LET info == ns[NsOf(h)].ann
      op == call[h].req.op IN
  /\ call[h].pc = "access"
  /\ IF /\ op = "remove" \/ ~IsFrozen(info)
        /\ CheckTentacle(Enabled, By(h), info, call[h].existing,
                         IF op = "remove" THEN "write" ELSE "execute")
     THEN Goto(h, "managed") ELSE Return(h)
  /\ UNCHANGED <<callCount, clusterVars, objectVars>>

---------------------------------------------------------------------------
(* The work *)

\* CheckManagedNamespace, and for wf_apply the pod security check; from now on the
\* release changes.
Managed(h) ==
  /\ call[h].pc = "managed"
  /\ \/ /\ ~NsExists(NsOf(h))
        /\ Return(h)
     \/ /\ NsExists(NsOf(h))
        /\ call' = [call EXCEPT
             ![h].todo = CASE call[h].req.op = "apply" -> call[h].req.manifests
                           [] call[h].req.op = "remove" -> Objects
                           [] OTHER -> {},
             ![h].pc = CASE call[h].req.op = "apply" -> "manifests"
                         [] call[h].req.op = "remove" -> "delete"
                         [] OTHER -> call[h].req.op]
        /\ good' = IF call[h].req.op \in {"apply", "remove"}
                   THEN [good EXCEPT ![NsOf(h)][TentOf(h)] = Empty] ELSE good
  /\ UNCHANGED <<callCount, clusterVars, objectVars>>

\* The version of an object, 0 when there is none.
VersionOf(n, o) ==
  IF obj[n][o].release = Empty THEN 0
  ELSE IF o \in Kinds THEN rvs[n][o] ELSE deps[n][o].rv

\* A manifest's object is read ...
ReadObject(h, o) ==
  /\ call[h].pc = "manifests"
  /\ o \in call[h].todo
  /\ call' = [call EXCEPT ![h].item = o, ![h].todo = @ \ {o}, ![h].pc = "write",
                          ![h].rv = VersionOf(NsOf(h), o)]
  /\ UNCHANGED <<good, callCount, clusterVars, objectVars>>

\* Mutant: everybody with write access sets the mode.
AnnotateDeployerFreely(d, mode, existing, own) ==
  IF existing = Empty
  THEN [owner |-> d.email, ownerSub |-> d.email, mode |-> mode]
  ELSE [owner |-> existing.owner, ownerSub |-> existing.ownerSub, mode |-> mode]

\* A value is carried over unless there is none.
Carried(old, new) == IF old # Empty THEN old ELSE new

\* AnnotateDeployer, from the annotations the manifest has of its own: a new
\* tentacle is its deployer's; an update keeps what the call read of the owner,
\* where it read anything, and sets the mode if the caller is that owner (compared
\* exactly), an operator, or there is no owner.
AnnotateDeployer(d, mode, existing, own) ==
  IF existing = Empty
  THEN [owner    |-> d.email,
        ownerSub |-> Carried(d.email, own.ownerSub),
        mode     |-> mode]
  ELSE [owner    |-> Carried(existing.owner, own.owner),
        ownerSub |-> Carried(existing.ownerSub, own.ownerSub),
        mode     |-> IF \/ d.provider \in {"bearer-token", "none"}
                        \/ existing.owner \in {Empty, d.email}
                     THEN mode ELSE Carried(existing.mode, own.mode)]

\* A Deployment, of the call's tentacle or another, becomes what the call made of
\* its manifest; existing is always what it read of its own tentacle.
WriteDeployment(h, t) ==
  LET n == NsOf(h)
      a == AnnotateDeployer(By(h), ResolvedMode(call[h].req, call[h].info),
                            call[h].existing, call[h].req.own) IN
  /\ deps' = [deps EXCEPT ![n][t] = [exists |-> TRUE, rv |-> @.rv + 1,
                                     owner |-> a.owner, ownerSub |-> a.ownerSub]]
  /\ depMode' = [depMode EXCEPT ![n][t] = a.mode]
  /\ UNCHANGED <<ns, quota, res, rvs>>

WriteOther(h, k) ==
  /\ rvs' = [rvs EXCEPT ![NsOf(h)][k] = @ + 1]
  /\ UNCHANGED <<clusterVars, depMode>>

\* An object gets the call's release label; what release it is taken from is not
\* looked at.
Label(h, o) ==
  LET n == NsOf(h) IN
  /\ obj' = [obj EXCEPT ![n][o] = [release |-> TentOf(h),
                                   content |-> call[h].req.content]]
  /\ good' = [good EXCEPT ![n] = [t \in Tentacles |->
       IF t # TentOf(h) /\ obj[n][o].release = t THEN Empty ELSE good[n][t]]]

\* Nothing can be created in a namespace that is going away.
Writable(h) ==
  /\ VersionOf(NsOf(h), call[h].item) = call[h].rv
  /\ call[h].rv = 0 => ns[NsOf(h)].phase = "Active"

\* ... and created or updated; if it came, went or changed meanwhile the handler
\* returns the error, and leaves what it wrote before.
WriteObject(h) ==
  /\ call[h].pc = "write"
  /\ \/ /\ ~Writable(h)
        /\ Return(h)
        /\ UNCHANGED <<clusterVars, objectVars>>
     \/ /\ Writable(h)
        /\ \/ call[h].item \in Tentacles /\ WriteDeployment(h, call[h].item)
           \/ call[h].item \in Kinds /\ WriteOther(h, call[h].item)
        /\ Label(h, call[h].item)
        /\ call' = [call EXCEPT ![h].pc = "manifests"]
  /\ UNCHANGED callCount

\* Mutant: the garbage is left for the next deployment.
WrittenNoCollection(h) ==
  /\ call[h].pc = "manifests"
  /\ call[h].todo = {}
  /\ Succeed(h)
  /\ UNCHANGED <<callCount, clusterVars, objectVars>>

\* All manifests are applied: what is left of earlier ones is to be deleted.
Written(h) ==
  /\ call[h].pc = "manifests"
  /\ call[h].todo = {}
  /\ call' = [call EXCEPT ![h].pc = "delete",
                          ![h].todo = Objects \ call[h].req.manifests]
  /\ UNCHANGED <<good, callCount, clusterVars, objectVars>>

\* Objects are listed kind by kind, by their release label ...
ListObjects(h, kind) ==
  LET found == {o \in kind \cap call[h].todo : obj[NsOf(h)][o].release = TentOf(h)} IN
  /\ call[h].pc = "delete"
  /\ call[h].listed = {} /\ kind \cap call[h].todo # {}
  /\ call' = [call EXCEPT ![h].todo = @ \ kind, ![h].listed = found]
  /\ UNCHANGED <<good, callCount, clusterVars, objectVars>>

\* ... and deleted one by one, by their name.
DeleteObject(h, o) ==
  LET n == NsOf(h) IN
  /\ call[h].pc = "delete"
  /\ o \in call[h].listed
  /\ obj' = [obj EXCEPT ![n][o] = NoObject]
  /\ \/ /\ o \in Tentacles
        /\ deps' = [deps EXCEPT ![n][o] = [exists |-> FALSE, rv |-> @.rv,
                                           owner |-> Empty, ownerSub |-> Empty]]
        /\ depMode' = [depMode EXCEPT ![n][o] = Empty]
     \/ o \in Kinds /\ UNCHANGED <<deps, depMode>>
  /\ call' = [call EXCEPT ![h].listed = @ \ {o}]
  /\ UNCHANGED <<good, callCount, ns, quota, res, rvs>>

\* wf_apply or wf_remove is done.
Done(h) ==
  /\ call[h].pc = "delete"
  /\ call[h].todo = {} /\ call[h].listed = {}
  /\ Succeed(h)
  /\ UNCHANGED <<callCount, clusterVars, objectVars>>

\* handleWfRestart reads the Deployment again, which must be there ...
RestartGet(h) ==
  /\ call[h].pc = "restart"
  /\ IF DepOf(h).exists THEN Goto(h, "patch") ELSE Return(h)
  /\ UNCHANGED <<callCount, clusterVars, objectVars>>

\* ... and patches it, whatever its version.
RestartPatch(h) ==
  /\ call[h].pc = "patch"
  /\ deps' = IF DepOf(h).exists
             THEN [deps EXCEPT ![NsOf(h)][TentOf(h)].rv = @ + 1] ELSE deps
  /\ Return(h)
  /\ UNCHANGED <<callCount, ns, quota, res, objectVars>>

\* handleWfRun posts to the workflow's service and waits for the answer.
RunPost(h) ==
  /\ call[h].pc = "run"
  /\ Return(h)
  /\ UNCHANGED <<callCount, clusterVars, objectVars>>

\* An API call fails.  A failed list or delete is passed over, any other failure
\* is returned.
CallFail(h) ==
  /\ CallFaults
  /\ \/ /\ call[h].pc \in {"annotations", "deployment", "namespace", "lookup",
                           "access", "managed", "restart", "patch", "run"}
        /\ Return(h)
     \/ /\ call[h].pc = "write" \/ (call[h].pc = "manifests" /\ call[h].todo # {})
        /\ Return(h)
     \/ \E kind \in Lists :
          /\ call[h].pc = "delete"
          /\ call[h].listed = {} /\ kind \cap call[h].todo # {}
          /\ call' = [call EXCEPT ![h].todo = @ \ kind, ![h].whole = FALSE]
          /\ UNCHANGED good
     \/ \E o \in call[h].listed :
          /\ call[h].pc = "delete"
          /\ call' = [call EXCEPT ![h].listed = @ \ {o}, ![h].whole = FALSE]
          /\ UNCHANGED good
  /\ UNCHANGED <<callCount, clusterVars, objectVars>>

---------------------------------------------------------------------------
(* The rest of the cluster *)

\* enclave_deprovision deletes the namespace of an enclave ...
Deprovision(n) ==
  /\ n \in Deprovisioned
  /\ ns[n].phase = "Active"
  /\ ns' = [ns EXCEPT ![n] = DeletedNs(@)]
  /\ UNCHANGED <<deps, quota, res, objectVars, good>>

\* ... and everything in it goes.
Finalize(n) ==
  /\ FinalizeNamespace(n)
  /\ depMode' = [depMode EXCEPT ![n] = [t \in Tentacles |-> Empty]]
  /\ obj' = [obj EXCEPT ![n] = [o \in Objects |-> NoObject]]
  /\ UNCHANGED rvs
  /\ good' = [good EXCEPT ![n] = [t \in Tentacles |-> Empty]]

---------------------------------------------------------------------------

CallStep(h) ==
  \/ ApplyAnnotations(h) \/ ApplyDeployment(h) \/ ApplyNamespace(h)
  \/ Lookup(h) \/ Access(h)
  \/ Managed(h)
  \/ \E o \in Objects : ReadObject(h, o)
  \/ WriteObject(h) \/ Written(h)
  \/ \E kind \in Lists : ListObjects(h, kind)
  \/ \E o \in Objects : DeleteObject(h, o)
  \/ Done(h)
  \/ RestartGet(h) \/ RestartPatch(h)
  \/ RunPost(h)

\* The call g may write or delete what the request r is about: it is about the same
\* tentacle, describes its Deployment or another object r describes, or is about to
\* delete one.
Meets(g, r) ==
  /\ g.pc # "idle"
  /\ g.req.op \in {"apply", "remove"}
  /\ g.req.name = r.name
  /\ \/ g.req.tentacle = r.tentacle
     \/ Named(g.req) \cap ({r.tentacle} \cup Named(r)) # {}
     \/ g.listed \cap Named(r) # {}

\* The history of each call goes on with every step of anybody.
Witness ==
  seen' = [h \in Callers |->
    IF call'[h].pc = "idle" THEN NotSeen
    ELSE LET n == call'[h].req.name
             t == call'[h].req.tentacle IN
      [active |-> seen[h].active \/ ~IsFrozen(ns'[n].ann),
       owners |-> seen[h].owners \cup
                    IF deps'[n][t].exists THEN {deps'[n][t].owner} ELSE {},
       modes  |-> seen[h].modes \cup
                    IF deps'[n][t].exists THEN {depMode'[n][t]} ELSE {},
       alone  |-> /\ seen[h].alone
                  /\ \A g \in Callers \ {h} : ~Meets(call'[g], call'[h].req)]]

Next ==
  /\ \/ /\ \E h \in Callers :
             \/ \E r \in ApplyRequests \cup OtherRequests : Start(h, r)
             \/ CallStep(h)
             \/ CallFail(h)
        /\ UNCHANGED syncVars
     \/ SyncNext /\ UNCHANGED <<tentacleVars, good>>
     \/ /\ \E n \in Namespaces : Deprovision(n) \/ Finalize(n)
        /\ UNCHANGED <<syncVars, call, callCount>>
  /\ Witness

Spec == Init /\ [][Next]_vars

---------------------------------------------------------------------------
(* Properties *)

Calls ==
  [pc       : {"idle", "annotations", "deployment", "namespace", "lookup",
               "access", "managed", "manifests", "write", "delete", "restart",
               "patch", "run"},
   req      : ApplyRequests \cup OtherRequests \cup {Empty},
   info     : EnclaveInfo \cup {Empty},
   existing : DeploymentAnnotations \cup {Empty},
   todo     : SUBSET Objects,
   item     : Objects \cup {Empty},
   rv       : Nat,
   listed   : SUBSET Objects,
   whole    : BOOLEAN]

Goods == [asked : [Objects -> Contents \cup {Empty}], whole : BOOLEAN]

\* Every variable has the type its declaration says, the two records of a Deployment
\* agree, and ParseMode has accepted the mode of a request that is being worked on.
TentaclesTypeOK ==
  /\ ClusterTypeOK
  /\ depMode \in [Namespaces -> [Tentacles -> Modes \cup {Empty, Unreadable}]]
  /\ obj \in [Namespaces -> [Objects ->
       [release : Tentacles \cup {Empty}, content : Contents \cup {Empty}]]]
  /\ rvs \in [Namespaces -> [Kinds -> Nat]]
  /\ call \in [Callers -> Calls]
  /\ callCount \in Nat
  /\ seen \in [Callers ->
       [active : BOOLEAN, owners : SUBSET (Emails \cup {Empty}),
        modes : SUBSET (Modes \cup {Empty, Unreadable}), alone : BOOLEAN]]
  /\ good \in [Namespaces -> [Tentacles -> Goods \cup {Empty}]]
  /\ \A n \in Namespaces, t \in Tentacles :
       deps[n][t].exists <=> obj[n][t].release # Empty
  /\ \A h \in Callers :
       call[h].pc \notin {"idle", "annotations"} /\ call[h].req.op = "apply" =>
         ReadableMode(call[h].req)

\* A step of h that changes a Deployment or another object, or runs the workflow.
Effect(h) ==
  /\ call'[h] # call[h]
  /\ \/ <<deps, objectVars>>' # <<deps, objectVars>>
     \/ call[h].pc = "run" /\ DepOf(h).exists

\* An enclave that is frozen during the whole of a wf_apply, wf_restart or wf_run
\* call sees nothing of it, although the status is read calls before the effect.
\* (A restart or run of a tentacle that another call is just creating is not
\* checked at all; wf_remove is not held up by a freeze.)
FrozenEnclavesRest ==
  [][\A h \in Callers :
       Effect(h) =>
         \/ call[h].req.op = "remove"
         \/ seen[h].active
         \/ call[h].req.op \in {"restart", "run"} /\ ~seen[h].alone]_vars

\* wf_apply writes over the Deployment of its tentacle.
Overwrites(h) ==
  /\ call[h].pc = "write"
  /\ call[h].item = TentOf(h)
  /\ DepOf(h).exists
  /\ call'[h].pc = "manifests"

\* "prevents group members with Write access from changing permissions": an update
\* leaves a tentacle that had an owner all through the call with one of those,
\* whatever transfers, removals and other deployments went on meanwhile, and a mode
\* it did not have during the call is given to it only by a caller who was its
\* owner then, by an operator, or if it had no owner or no mode.
\* (Not so: an owner or a mode the tentacle has not is taken from the annotations of
\* the manifest, whoever sends it and unchecked.  A Deployment manifest with another
\* name than the call's is written over the tentacle of that name, whose owner is
\* never asked.  An update can undo the owner's change of the mode: it puts back the
\* mode it read before.  Two calls that both create the tentacle are excepted.)
UpdatesKeepOwnership ==
  [][\A h \in Callers :
       (Overwrites(h) /\ (call[h].existing # Empty \/ seen[h].alone)) =>
         /\ \/ deps'[NsOf(h)][TentOf(h)].owner \in seen[h].owners
            \/ Empty \in seen[h].owners
         /\ depMode'[NsOf(h)][TentOf(h)] \notin seen[h].modes =>
              \/ By(h).provider \in {"bearer-token", "none"}
              \/ {Empty, By(h).email} \cap seen[h].owners # {}
              \/ Empty \in seen[h].modes]_vars

\* "Allow explicit mode params to override on update": without one the mode stays.
ModeChangesOnlyExplicitly ==
  [][\A h \in Callers :
       (Overwrites(h) /\ call[h].req.mode = Empty) =>
         depMode'[NsOf(h)][TentOf(h)] = depMode[NsOf(h)][TentOf(h)]]_vars

\* Once a wf_apply or wf_remove succeeded that no other call came between, every
\* object that was asked for is in the release as it was asked for, down to the ones
\* an earlier call wrote before it failed, until the next call for the tentacle or
\* until the call of another takes an object over.  If no list or deletion failed
\* in the collection (deploy.go:597, 604 and 633, 639 pass over those and the call
\* still succeeds) the release holds nothing else.
ReleasesConverge ==
  \A n \in Namespaces, t \in Tentacles :
    good[n][t] # Empty /\ ns[n].phase = "Active" =>
      \A o \in Objects :
        good[n][t].whole \/ good[n][t].asked[o] # Empty =>
          ReleaseOf(n, t)[o] = good[n][t].asked[o]
=============================================================================
