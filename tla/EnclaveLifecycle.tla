-------------------------- MODULE EnclaveLifecycle --------------------------
(***************************************************************************)
(* enclave_provision and enclave_deprovision (pkg/tools/enclave.go).       *)
(* Provisioning checks the owner's quota of enclaves, creates the          *)
(* namespace, annotates it and creates its objects one API call at a time; *)
(* a failure after the creation deletes the namespace, by name.            *)
(* Deprovisioning checks the owner, deletes the Deployments one by one,    *)
(* then the namespace.                                                     *)
(***************************************************************************)
EXTENDS Cluster

CONSTANTS
  Provisioners,         \* enclave_provision calls that may be in flight
  Deprovisioners,       \* enclave_deprovision calls that may be in flight
  ProvisionRequests,    \* EnclaveProvisionParams and the caller
  DeprovisionRequests,  \* [name, deployer]
  MaxEnclavesPerOwner,  \* MaxEnclavesPerOwner (10 unless configured)
  MaxProvisions,        \* bound: enclave_provision calls in a behaviour
  MaxDeprovisions,      \* bound: enclave_deprovision calls in a behaviour
  LifecycleFaults       \* which API calls may fail: a subset of Faults

Faults == {"api", "rollback"}

ASSUME LifecycleAssumption ==
  /\ ProvisionRequests \subseteq
       [name        : Namespaces,
        deployer    : Deployers,
        owner       : Emails,
        ownerSub    : Emails \cup {Empty},
        members     : Seq(Emails),
        channelName : Channels \cup {Empty},
        mode        : Modes \cup {Empty, Invalid},
        preset      : Presets \cup {Empty, Invalid}]
  /\ DeprovisionRequests \subseteq [name : Namespaces, deployer : Deployers]
  /\ MaxEnclavesPerOwner \in Nat
  /\ MaxProvisions \in Nat
  /\ MaxDeprovisions \in Nat
  /\ LifecycleFaults \subseteq Faults

VARIABLES
  prov,         \* the local state of each enclave_provision call
  deprov,       \* the local state of each enclave_deprovision call
  provCount,
  deprovCount

lifecycleVars == <<prov, deprov, provCount, deprovCount>>

\* uid (history) is the uid of the namespace the call created, rv the version
\* it read; step counts the objects created.
IdleProv == [pc |-> "idle", req |-> Empty, uid |-> 0, rv |-> 0, step |-> 0]

IdleDeprov == [pc |-> "idle", req |-> Empty, left |-> {}]

LifecycleInit ==
  /\ prov = [p \in Provisioners |-> IdleProv]
  /\ deprov = [d \in Deprovisioners |-> IdleDeprov]
  /\ provCount = 0
  /\ deprovCount = 0

ProvGoto(p, loc) == prov' = [prov EXCEPT ![p].pc = loc]
ProvReturn(p) == prov' = [prov EXCEPT ![p] = IdleProv]
Target(p) == prov[p].req.name

---------------------------------------------------------------------------
(* enclave_provision *)

\* Mutant: owners are compared as they are spelled.
countEnclavesOwnedExactlyBy(email) ==
  Cardinality({n \in Namespaces :
    NsExists(n) /\ IsEnclave(ns[n]) /\ ns[n].ann.owner = email})

\* countEnclavesOwnedBy, for a lowercased email.  Terminating namespaces count.
countEnclavesOwnedBy(email) ==
  Cardinality({n \in Namespaces :
    NsExists(n) /\ IsEnclave(ns[n]) /\ ToLower[ns[n].ann.owner] = email})

\* An OIDC caller always becomes the owner; others may name anyone.
ProvisionOwner(r) == IF r.deployer.provider = "oidc" THEN r.deployer.email
                                                     ELSE r.owner

\* The annotations a new enclave gets.
ProvisionedInfo(r) ==
  [owner |-> ProvisionOwner(r),
   ownerSub |-> IF r.deployer.provider = "oidc" THEN r.deployer.email
                                                ELSE r.ownerSub,
   members |-> r.members, channelName |-> r.channelName, status |-> "active",
   defaultMode |-> r.mode, mode |-> Empty,
   preset |-> IF r.preset = Empty THEN "medium" ELSE r.preset]

\* ValidateEnclaveInfo, its refusals represented by an invalid default mode.
ValidateEnclaveInfo(r) == r.mode # Invalid

\* A request of an OIDC caller without email or subject (which are one here), or
\* whose preset or member list is refused, ends before any API call.
ProvisionStart(p, r) ==
  /\ prov[p].pc = "idle"
  /\ provCount < MaxProvisions
  /\ r.deployer.provider = "oidc" => r.deployer.email # Empty
  /\ r.preset # Invalid
  /\ ValidateMembers(r.members)
  /\ prov' = [prov EXCEPT ![p] = [IdleProv EXCEPT !.pc = "count", !.req = r]]
  /\ provCount' = provCount + 1
  /\ UNCHANGED <<deprov, deprovCount, clusterVars>>

ProvisionCount(p) ==
  /\ prov[p].pc = "count"
  /\ IF countEnclavesOwnedBy(ToLower[ProvisionOwner(prov[p].req)])
          >= MaxEnclavesPerOwner
     THEN ProvReturn(p)
     ELSE ProvGoto(p, "create")
  /\ UNCHANGED <<deprov, provCount, deprovCount, clusterVars>>

\* CreateNamespace, then the validation that comes after it.  A namespace that
\* already exists ends the call before the rollback is armed.
ProvisionCreate(p) ==
  /\ prov[p].pc = "create"
  /\ \/ /\ NsExists(Target(p))
        /\ ProvReturn(p)
        /\ UNCHANGED ns
     \/ /\ ~NsExists(Target(p))
        /\ ns' = [ns EXCEPT ![Target(p)] =
             [phase |-> "Active", rv |-> @.rv + 1, uid |-> @.rv + 1,
              ann |-> Empty]]
        /\ prov' = [prov EXCEPT
             ![p].uid = ns[Target(p)].rv + 1,
             ![p].pc = IF ValidateEnclaveInfo(prov[p].req) THEN "get"
                       ELSE "rollback"]
  /\ UNCHANGED <<deprov, provCount, deprovCount, deps, quota, res>>

ProvisionGet(p) ==
  /\ prov[p].pc = "get"
  /\ IF NsExists(Target(p))
     THEN prov' = [prov EXCEPT ![p].rv = ns[Target(p)].rv, ![p].pc = "annotate"]
     ELSE ProvGoto(p, "rollback")
  /\ UNCHANGED <<deprov, provCount, deprovCount, clusterVars>>

\* The keys are merged into the annotations read.  The namespace this call made
\* has none; left out is that of another call that made it anew and an enclave_sync
\* that has set its mode, the one key a provision does not write, in between.
ProvisionAnnotate(p) ==
  /\ prov[p].pc = "annotate"
  /\ \/ /\ NsExists(Target(p))
        /\ ns[Target(p)].rv = prov[p].rv
        /\ ns' = [ns EXCEPT ![Target(p)] =
             Annotated(@, ProvisionedInfo(prov[p].req))]
        /\ ProvGoto(p, "resources")
     \/ /\ ~NsExists(Target(p)) \/ ns[Target(p)].rv # prov[p].rv
        /\ ProvGoto(p, "rollback")
        /\ UNCHANGED ns
  /\ UNCHANGED <<deprov, provCount, deprovCount, deps, quota, res>>

\* The objects of an enclave, in the order they are created.
ProvisionSteps ==
  <<"default-deny", "allow-dns", "resource-quota", "limit-range",
    "service-account", "role", "role-binding">>

\* Creating an object fails if it exists, or if the namespace is not active.
Creatable(n, object) ==
  /\ ns[n].phase = "Active"
  /\ IF object = "resource-quota" THEN ~quota[n].exists ELSE object \notin res[n]

\* Mutant: an object that cannot be created is tried again.
ProvisionResourceRetrying(p) ==
  /\ prov[p].pc = "resources"
  /\ Creatable(Target(p), "default-deny")
  /\ res' = [res EXCEPT ![Target(p)] = Resources]
  /\ quota' = [quota EXCEPT ![Target(p)].exists = TRUE]
  /\ ProvGoto(p, "services")
  /\ UNCHANGED <<deprov, provCount, deprovCount, ns, deps>>

ProvisionResource(p) ==
  LET n == Target(p)
      object == ProvisionSteps[prov[p].step + 1] IN
  /\ prov[p].pc = "resources"
  /\ \/ /\ ~Creatable(n, object)
        /\ ProvGoto(p, "rollback")
        /\ UNCHANGED <<quota, res>>
     \/ /\ Creatable(n, object)
        /\ IF object = "resource-quota"
           THEN /\ quota' = [quota EXCEPT ![n] =
                     [exists |-> TRUE, rv |-> @.rv + 1, kind |-> "requests",
                      preset |-> ProvisionedInfo(prov[p].req).preset]]
                /\ UNCHANGED res
           ELSE /\ res' = [res EXCEPT ![n] = @ \cup {object}]
                /\ UNCHANGED quota
        /\ prov' = [prov EXCEPT
             ![p].step = @ + 1,
             ![p].pc = IF prov[p].step + 1 = Len(ProvisionSteps) THEN "services"
                       ELSE "resources"]
  /\ UNCHANGED <<deprov, provCount, deprovCount, ns, deps>>

\* EnsureEnclaveServices succeeds and the call returns: rollback disarmed.
ProvisionServices(p) ==
  /\ prov[p].pc = "services"
  /\ ProvReturn(p)
  /\ UNCHANGED <<deprov, provCount, deprovCount, clusterVars>>

\* The deferred cleanup deletes the namespace by name and ignores the outcome.
ProvisionRollback(p) ==
  /\ prov[p].pc = "rollback"
  /\ ns' = [ns EXCEPT ![Target(p)] = DeletedNs(@)]
  /\ ProvReturn(p)
  /\ UNCHANGED <<deprov, provCount, deprovCount, deps, quota, res>>

\* Mutant: a failed call returns, whatever it has made.
ProvisionFailQuietly(p) ==
  /\ "api" \in LifecycleFaults
  /\ prov[p].pc \notin {"idle", "rollback"}
  /\ ProvReturn(p)
  /\ UNCHANGED <<deprov, provCount, deprovCount, clusterVars>>

\* An API call fails.  Before the namespace exists the call just ends.
ProvisionFail(p) ==
  /\ \/ /\ "api" \in LifecycleFaults
        /\ prov[p].pc \in {"count", "create"}
        /\ ProvReturn(p)
     \/ /\ "api" \in LifecycleFaults
        /\ prov[p].pc \in {"get", "annotate", "resources", "services"}
        /\ ProvGoto(p, "rollback")
     \/ /\ "rollback" \in LifecycleFaults
        /\ prov[p].pc = "rollback"
        /\ ProvReturn(p)
  /\ UNCHANGED <<deprov, provCount, deprovCount, clusterVars>>

---------------------------------------------------------------------------
(* enclave_deprovision *)

DeprovReturn(d) == deprov' = [deprov EXCEPT ![d] = IdleDeprov]
Doomed(d) == deprov[d].req.name

\* The check of the caller, exact like that of enclave_sync.
MayDeprovision(r) ==
  r.deployer.provider = "oidc" =>
    (r.deployer.email # Empty /\ r.deployer.email = ns[r.name].ann.owner)

DeprovisionStart(d, r) ==
  /\ deprov[d].pc = "idle"
  /\ deprovCount < MaxDeprovisions
  /\ deprov' = [deprov EXCEPT ![d] = [IdleDeprov EXCEPT !.pc = "get", !.req = r]]
  /\ deprovCount' = deprovCount + 1
  /\ UNCHANGED <<prov, provCount, clusterVars>>

DeprovisionGet(d) ==
  /\ deprov[d].pc = "get"
  /\ IF /\ NsExists(Doomed(d))
        /\ IsEnclave(ns[Doomed(d)])
        /\ MayDeprovision(deprov[d].req)
     THEN deprov' = [deprov EXCEPT ![d].pc = "list"]
     ELSE DeprovReturn(d)
  /\ UNCHANGED <<prov, provCount, deprovCount, clusterVars>>

DeprovisionList(d) ==
  LET found == {t \in Tentacles : deps[Doomed(d)][t].exists} IN
  /\ deprov[d].pc = "list"
  /\ deprov' = [deprov EXCEPT ![d].left = found,
                              ![d].pc = IF found = {} THEN "delete" ELSE "deps"]
  /\ UNCHANGED <<prov, provCount, deprovCount, clusterVars>>

\* One Deployment is deleted, or that fails and is logged.
DeprovisionDeployment(d, t) ==
  /\ deprov[d].pc = "deps"
  /\ t \in deprov[d].left
  /\ \/ deps' = [deps EXCEPT ![Doomed(d)][t] =
           [exists |-> FALSE, rv |-> @.rv, owner |-> Empty, ownerSub |-> Empty]]
     \/ /\ "api" \in LifecycleFaults
        /\ UNCHANGED deps
  /\ deprov' = [deprov EXCEPT
       ![d].left = @ \ {t},
       ![d].pc = IF deprov[d].left = {t} THEN "delete" ELSE "deps"]
  /\ UNCHANGED <<prov, provCount, deprovCount, ns, quota, res>>

DeprovisionNamespace(d) ==
  /\ deprov[d].pc = "delete"
  /\ ns' = [ns EXCEPT ![Doomed(d)] = DeletedNs(@)]
  /\ DeprovReturn(d)
  /\ UNCHANGED <<prov, provCount, deprovCount, deps, quota, res>>

\* A failed list is passed over; a failed read or deletion ends the call.
DeprovisionFail(d) ==
  /\ "api" \in LifecycleFaults
  /\ \/ /\ deprov[d].pc \in {"get", "delete"}
        /\ DeprovReturn(d)
     \/ /\ deprov[d].pc = "list"
        /\ deprov' = [deprov EXCEPT ![d].pc = "delete"]
  /\ UNCHANGED <<prov, provCount, deprovCount, clusterVars>>

ProvisionStep(p) ==
  \/ ProvisionCount(p)
  \/ ProvisionCreate(p)
  \/ ProvisionGet(p)
  \/ ProvisionAnnotate(p)
  \/ ProvisionResource(p)
  \/ ProvisionServices(p)
  \/ ProvisionRollback(p)

DeprovisionStep(d) ==
  \/ DeprovisionGet(d)
  \/ DeprovisionList(d)
  \/ \E t \in Tentacles : DeprovisionDeployment(d, t)
  \/ DeprovisionNamespace(d)

LifecycleNext ==
  \/ \E p \in Provisioners :
       \/ \E r \in ProvisionRequests : ProvisionStart(p, r)
       \/ ProvisionStep(p)
       \/ ProvisionFail(p)
  \/ \E d \in Deprovisioners :
       \/ \E r \in DeprovisionRequests : DeprovisionStart(d, r)
       \/ DeprovisionStep(d)
       \/ DeprovisionFail(d)
=============================================================================
