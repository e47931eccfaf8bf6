------------------------------ MODULE Enclaves ------------------------------
(***************************************************************************)
(* The enclave tools together: any number of enclave_sync,                 *)
(* enclave_provision and enclave_deprovision calls in flight, over the     *)
(* same Kubernetes objects, with the cluster's own controllers beside      *)
(* them.                                                                   *)
(***************************************************************************)
EXTENDS EnclaveSync, EnclaveLifecycle

CONSTANTS
  InitialEnclaves,   \* annotations of the enclaves there are at the start
  InitialOwners      \* owners of the tentacles there are at the start

ASSUME InitialAssumption ==
  /\ InitialEnclaves \subseteq [Namespaces -> EnclaveInfo \cup {Empty}]
  /\ InitialOwners \subseteq [Namespaces -> [Tentacles -> Emails \cup {Empty}]]

vars == <<clusterVars, syncVars, lifecycleVars>>

\* Fully provisioned enclaves and their tentacles; nothing in the others.
ClusterInit ==
  \E enclaves \in InitialEnclaves, owners \in InitialOwners :
    LET there(n) == enclaves[n] # Empty
        deployed(n, t) == there(n) /\ owners[n][t] # Empty
        one(b) == IF b THEN 1 ELSE 0 IN
    /\ ns = [n \in Namespaces |->
         [phase |-> IF there(n) THEN "Active" ELSE "Absent",
          rv |-> one(there(n)), uid |-> one(there(n)), ann |-> enclaves[n]]]
    /\ deps = [n \in Namespaces |-> [t \in Tentacles |->
         [exists |-> deployed(n, t), rv |-> one(deployed(n, t)),
          owner |-> IF deployed(n, t) THEN owners[n][t] ELSE Empty,
          ownerSub |-> IF deployed(n, t) THEN owners[n][t] ELSE Empty]]]
    /\ quota = [n \in Namespaces |->
         [exists |-> there(n), rv |-> one(there(n)), kind |-> "requests",
          preset |-> IF there(n) THEN enclaves[n].preset ELSE "medium"]]
    /\ res = [n \in Namespaces |-> IF there(n) THEN Resources ELSE {}]

Init ==
  /\ ClusterInit
  /\ SyncInit
  /\ LifecycleInit

ClusterNext ==
  \E n \in Namespaces :
    \/ \E t \in Tentacles : DeploymentStatusUpdate(n, t)
    \/ FinalizeNamespace(n)

Next ==
  \/ SyncNext /\ UNCHANGED lifecycleVars
  \/ LifecycleNext /\ UNCHANGED syncVars
  \/ ClusterNext /\ UNCHANGED <<syncVars, lifecycleVars>>

Spec == Init /\ [][Next]_vars

\* A handler that was started goes on: goroutines are scheduled fairly and every
\* API call returns (client timeouts).  Callers are under no obligation.
Fairness ==
  /\ \A c \in Syncers : WF_vars(SyncStep(c) /\ UNCHANGED lifecycleVars)
  /\ \A p \in Provisioners : WF_vars(ProvisionStep(p) /\ UNCHANGED syncVars)
  /\ \A d \in Deprovisioners : WF_vars(DeprovisionStep(d) /\ UNCHANGED syncVars)

FairSpec == Spec /\ Fairness

---------------------------------------------------------------------------
(* Properties *)

ProvCalls ==
  [pc   : {"idle", "count", "create", "get", "annotate", "resources", "services",
           "rollback"},
   req  : ProvisionRequests \cup {Empty},
   uid  : Nat,
   rv   : Nat,
   step : 0 .. Len(ProvisionSteps)]

DeprovCalls ==
  [pc   : {"idle", "get", "list", "deps", "delete"},
   req  : DeprovisionRequests \cup {Empty},
   left : SUBSET Tentacles]

\* Every variable has the type its declaration says: the Kubernetes objects and
\* the locals of the three handlers.
TypeOK ==
  /\ ClusterTypeOK
  /\ sync \in [Syncers -> SyncCalls]
  /\ prov \in [Provisioners -> ProvCalls]
  /\ deprov \in [Deprovisioners -> DeprovCalls]
  /\ syncCount \in Nat /\ provCount \in Nat /\ deprovCount \in Nat
  /\ dirtyQuota \in SUBSET Namespaces

\* Optimistic concurrency works: the handlers of enclave_sync, which check the
\* owner on what they read and write later, change an enclave's annotations only
\* as if the whole call had happened at the instant of its write: no lost update,
\* and nobody writes who is not the owner (or an operator) at that instant.
Abstract == INSTANCE AtomicEnclave WITH
  enclave <- [n \in Namespaces |-> ns[n].ann],
  NewEnclaves <- {ProvisionedInfo(r) : r \in ProvisionRequests}

SyncIsAtomic == Abstract!Spec

\* A call gives up with "conflict persisted" only when it was overtaken: each of
\* its lost attempts is paid for by a write of the namespace that succeeded since
\* its first read.
RetriesArePaidFor ==
  \A c \in Syncers :
    sync[c].attempt > 0 =>
      ns[sync[c].req.name].rv >= sync[c].startRv + sync[c].attempt

\* The amounts in the ResourceQuota are those of the preset that the annotation
\* names and enclave_info reports, whatever the interleaving of the calls that set
\* both, unless a call that had changed the ResourceQuota failed.  What the amounts
\* bound is another matter: enclave_provision bounds the requests, as "Quotas are
\* set on requests (not limits)" (quota.go:15) has it, and the first enclave_sync
\* with a preset replaces that by a bound on the limits (quota.go:87-91).
QuotaMatchesAnnotation ==
  \A n \in Namespaces :
    (/\ ns[n].phase = "Active" /\ IsEnclave(ns[n])
     /\ n \notin dirtyQuota
     /\ \A c \in Syncers : sync[c].pc # "idle" => Name(c) # n
     /\ \A p \in Provisioners : prov[p].pc # "idle" => Target(p) # n)
    => quota[n].exists /\ quota[n].preset = ns[n].ann.preset

\* Without mixed capitalisation: the owner is not also a member, nobody is listed
\* twice, and no sequence of additions, removals and ownership transfers exceeds
\* MaxEnclaveMembers.
MembersWellFormed ==
  \A n \in Namespaces :
    IsEnclave(ns[n]) =>
      LET m == ns[n].ann.members IN
      /\ ns[n].ann.owner \notin Range(m)
      /\ IsInjective(m)
      /\ ValidateMembers(m)

\* A namespace that nobody is provisioning any more is either a complete enclave
\* or is going away: the rollback leaves nothing half made, even when a
\* deprovision and a second provision of the same name get between the steps.
NothingHalfProvisioned ==
  \A n \in Namespaces :
    (/\ ns[n].phase = "Active"
     /\ \A p \in Provisioners : prov[p].pc # "idle" => Target(p) # n)
    => IsEnclave(ns[n]) /\ quota[n].exists /\ res[n] = Resources

\* The count of an owner's enclaves is made before the namespace is created, so
\* that provisions in flight together may all find room for one more.  They exceed
\* MaxEnclavesPerOwner by less than their number, and a provision that no other
\* overlaps not at all: however the email is capitalised, failed provisions and
\* namespaces that are still terminating included.  This is said of everybody whom
\* no enclave_sync makes an owner: a transfer counts nothing (enclave.go:671-690).
OwnerLimit ==
  \A e \in Emails :
    (\A r \in Requests :
       r.params.newOwner # Empty => ToLower[r.params.newOwner] # ToLower[e])
    => Cardinality({n \in Namespaces :
         /\ ns[n].phase # "Absent" /\ ns[n].ann # Empty
         /\ ToLower[ns[n].ann.owner] = ToLower[e]})
       < MaxEnclavesPerOwner + Cardinality(Provisioners)

\* Every call returns, whatever the others do.
CallsReturn ==
  /\ \A c \in Syncers : sync[c].pc # "idle" ~> sync[c].pc = "idle"
  /\ \A p \in Provisioners : prov[p].pc # "idle" ~> prov[p].pc = "idle"
  /\ \A d \in Deprovisioners : deprov[d].pc # "idle" ~> deprov[d].pc = "idle"
=============================================================================
