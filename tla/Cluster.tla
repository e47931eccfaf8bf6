------------------------------ MODULE Cluster ------------------------------
(***************************************************************************)
(* The Kubernetes objects the enclave tools read and write, and what the   *)
(* rest of the cluster does to them.  All of it is external: it is         *)
(* modelled from the calls pkg/tools and pkg/k8s make.  Each object has a  *)
(* resourceVersion, which every write increases and which survives a       *)
(* deletion (a re-created object never reuses one); an Update that carries *)
(* an older one is refused with a Conflict.                                *)
(***************************************************************************)
EXTENDS EnclaveAnnotations

CONSTANTS
  Namespaces,
  Tentacles,    \* names of the Deployments managed by tentacular
  MaxStatusRv   \* bound: the deployment controller writes below this version

VARIABLES
  ns,      \* Namespace objects, with their enclave annotations
  deps,    \* Deployments of each namespace, with their owner annotations
  quota,   \* the tentacular-quota ResourceQuota of each namespace
  res      \* the other objects enclave_provision puts in each namespace

clusterVars == <<ns, deps, quota, res>>

\* Network policies, limit range and RBAC objects.
Resources ==
  {"default-deny", "allow-dns", "limit-range",
   "service-account", "role", "role-binding"}

\* uid is the version a namespace was created with: no two have the same.
NsObjects ==
  [phase : {"Absent", "Active", "Terminating"},
   rv    : Nat,
   uid   : Nat,
   ann   : EnclaveInfo \cup {Empty}]     \* Empty: not an enclave (yet)

DepObjects ==
  [exists   : BOOLEAN,
   rv       : Nat,
   owner    : Emails \cup {Empty},
   ownerSub : Emails \cup {Empty}]

\* A preset bounds either the requests or the limits of the pods.
QuotaObjects ==
  [exists : BOOLEAN,
   rv     : Nat,
   kind   : {"requests", "limits"},
   preset : Presets]

ClusterTypeOK ==
  /\ ns \in [Namespaces -> NsObjects]
  /\ deps \in [Namespaces -> [Tentacles -> DepObjects]]
  /\ quota \in [Namespaces -> QuotaObjects]
  /\ res \in [Namespaces -> SUBSET Resources]

IsEnclave(o) == o.ann # Empty

NsExists(n) == ns[n].phase # "Absent"

\* A namespace object after an Update of its annotations.
Annotated(o, info) ==
  [phase |-> o.phase, rv |-> o.rv + 1, uid |-> o.uid, ann |-> info]

\* A delete request: the namespace starts terminating, unless it already is.
DeletedNs(o) ==
  IF o.phase = "Active"
  THEN [phase |-> "Terminating", rv |-> o.rv + 1, uid |-> o.uid, ann |-> o.ann]
  ELSE o

\* The deployment controller writes the status of a Deployment: nothing but its
\* version changes here.
DeploymentStatusUpdate(n, t) ==
  /\ deps[n][t].exists
  /\ deps[n][t].rv < MaxStatusRv
  /\ deps' = [deps EXCEPT ![n][t].rv = @ + 1]
  /\ UNCHANGED <<ns, quota, res>>

\* The namespace controller finishes a deletion: the content goes, then the
\* namespace.
FinalizeNamespace(n) ==
  /\ ns[n].phase = "Terminating"
  /\ ns' = [ns EXCEPT ![n] =
       [phase |-> "Absent", rv |-> @.rv, uid |-> @.uid, ann |-> Empty]]
  /\ deps' = [deps EXCEPT ![n] =
       [t \in Tentacles |->
         [exists |-> FALSE, rv |-> deps[n][t].rv, owner |-> Empty,
          ownerSub |-> Empty]]]
  /\ quota' = [quota EXCEPT ![n].exists = FALSE]
  /\ res' = [res EXCEPT ![n] = {}]
=============================================================================
