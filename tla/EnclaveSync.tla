---------------------------- MODULE EnclaveSync ----------------------------
(***************************************************************************)
(* enclave_sync (pkg/tools/enclave.go): calls that run concurrently, each  *)
(* a read-modify-write of the namespace with optimistic concurrency,       *)
(* retried from scratch on a Conflict.  Every Kubernetes API call is one   *)
(* step; the code between two calls belongs to the step of the first.      *)
(* Removing members also moves their tentacles to the owner, and a quota   *)
(* preset is written to the ResourceQuota, both before the namespace is    *)
(* updated.                                                                *)
(***************************************************************************)
EXTENDS Cluster

CONSTANTS
  Syncers,          \* handler invocations that may be in flight together
  Requests,         \* the requests callers make
  MaxSyncRetries,   \* maxSyncRetries (3)
  MaxSyncs,         \* bound: enclave_sync calls in a behaviour
  SyncFaults        \* BOOLEAN: may an API call fail, or a caller go away?

ASSUME SyncAssumption ==
  /\ Requests \subseteq
       [name : Namespaces, deployer : Deployers, params : SyncParams]
  /\ MaxSyncRetries \in Nat \ {0}
  /\ MaxSyncs \in Nat
  /\ SyncFaults \in BOOLEAN

VARIABLES
  sync,       \* the local state of each handler invocation
  syncCount,  \* calls started
  dirtyQuota  \* history: namespaces whose ResourceQuota a failed call changed

syncVars == <<sync, syncCount, dirtyQuota>>

\* snap is the Namespace object the attempt read; listed maps each Deployment
\* still to be transferred to the version it was listed with (0: none), quotaRv
\* is the version of the ResourceQuota that was read.  startRv (history) is the
\* namespace's version at the first read, wroteQuota (history) whether any
\* attempt changed the ResourceQuota.
Idle ==
  [pc |-> "idle", req |-> Empty, attempt |-> 0, snap |-> Empty,
   listed |-> [t \in Tentacles |-> 0], quotaRv |-> 0,
   startRv |-> 0, wroteQuota |-> FALSE]

SyncCalls ==
  [pc         : {"idle", "get", "list", "transfer", "quotaGet", "quotaUpdate",
                 "update", "error"},
   req        : Requests \cup {Empty},
   attempt    : 0 .. MaxSyncRetries - 1,
   snap       : NsObjects \cup {Empty},
   listed     : [Tentacles -> Nat],
   quotaRv    : Nat,
   startRv    : Nat,
   wroteQuota : BOOLEAN]

SyncInit ==
  /\ sync = [c \in Syncers |-> Idle]
  /\ syncCount = 0
  /\ dirtyQuota = {}

Info(c) == sync[c].snap.ann
Params(c) == sync[c].req.params
Name(c) == sync[c].req.name

---------------------------------------------------------------------------

\* The call returns, with an error or not.
ReturnError(c) ==
  /\ sync' = [sync EXCEPT ![c] = Idle]
  /\ dirtyQuota' = IF sync[c].wroteQuota THEN dirtyQuota \cup {Name(c)}
                                         ELSE dirtyQuota
  /\ UNCHANGED syncCount

\* Where the handler goes once the transfers are done: the remaining checks,
\* then the ResourceQuota or the namespace.
AfterTransfers(p, info) ==
  IF ~AcceptedLate(p, info) THEN "error"
  ELSE IF p.preset # Empty THEN "quotaGet"
  ELSE "update"

\* A request arrives and is dispatched to a handler.
SyncStart(c, r) ==
  /\ sync[c].pc = "idle"
  /\ syncCount < MaxSyncs
  /\ sync' = [sync EXCEPT ![c] = [Idle EXCEPT !.pc = "get", !.req = r]]
  /\ syncCount' = syncCount + 1
  /\ UNCHANGED <<dirtyQuota, clusterVars>>

\* Mutant: a retry trusts the checks of the first attempt.
SyncGetTrusting(c) ==
  LET o == ns[Name(c)] IN
  /\ sync[c].pc = "get"
  /\ IF /\ NsExists(Name(c))
        /\ IsEnclave(o)
        /\ \/ sync[c].attempt > 0
           \/ AcceptedEarly(sync[c].req.deployer, Params(c), o.ann)
     THEN /\ sync' = [sync EXCEPT
               ![c].snap = o,
               ![c].pc = IF Params(c).remove # {} THEN "list"
                         ELSE AfterTransfers(Params(c), o.ann)]
          /\ UNCHANGED <<syncCount, dirtyQuota>>
     ELSE ReturnError(c)
  /\ UNCHANGED clusterVars

\* attemptEnclaveSync reads the namespace and makes the early checks.
SyncGet(c) ==
  LET o == ns[Name(c)] IN
  /\ sync[c].pc = "get"
  /\ \/ /\ ~NsExists(Name(c)) \/ ~IsEnclave(o)
        /\ ReturnError(c)
     \/ /\ NsExists(Name(c))
        /\ IsEnclave(o)
        /\ ~AcceptedEarly(sync[c].req.deployer, Params(c), o.ann)
        /\ ReturnError(c)
     \/ /\ NsExists(Name(c))
        /\ IsEnclave(o)
        /\ AcceptedEarly(sync[c].req.deployer, Params(c), o.ann)
        /\ sync' = [sync EXCEPT
             ![c].snap = o,
             ![c].startRv = IF sync[c].attempt = 0 THEN o.rv ELSE @,
             ![c].pc = IF Params(c).remove # {} THEN "list"
                       ELSE AfterTransfers(Params(c), o.ann)]
        /\ UNCHANGED <<syncCount, dirtyQuota>>
  /\ UNCHANGED clusterVars

\* The tentacles of removed members, compared case-insensitively.
Orphaned(p, d) ==
  /\ d.exists
  /\ d.owner # Empty
  /\ ToLower[d.owner] \in {ToLower[m] : m \in p.remove}

\* transferOrphanedTentacles lists the Deployments.
TransferList(c) ==
  LET found == [t \in Tentacles |->
                 IF Orphaned(Params(c), deps[Name(c)][t])
                 THEN deps[Name(c)][t].rv ELSE 0] IN
  /\ sync[c].pc = "list"
  /\ sync' = [sync EXCEPT
       ![c].listed = found,
       ![c].pc = IF \E t \in Tentacles : found[t] # 0 THEN "transfer"
                 ELSE AfterTransfers(Params(c), Info(c))]
  /\ UNCHANGED <<syncCount, dirtyQuota, clusterVars>>

\* Mutant: a Deployment that cannot be updated is tried again.
TransferUpdateRetrying(c, t) ==
  /\ sync[c].pc = "transfer"
  /\ sync[c].listed[t] # 0
  /\ deps[Name(c)][t].exists
  /\ deps[Name(c)][t].rv = sync[c].listed[t]
  /\ deps' = [deps EXCEPT ![Name(c)][t].rv = @ + 1,
                          ![Name(c)][t].owner = Info(c).owner]
  /\ sync' = [sync EXCEPT ![c].listed[t] = 0,
                          ![c].pc = AfterTransfers(Params(c), Info(c))]
  /\ UNCHANGED <<syncCount, dirtyQuota, ns, quota, res>>

\* One listed Deployment is updated; whatever the outcome, the loop goes on.
TransferUpdate(c, t) ==
  LET left == [sync[c].listed EXCEPT ![t] = 0] IN
  /\ sync[c].pc = "transfer"
  /\ sync[c].listed[t] # 0
  /\ \/ /\ deps[Name(c)][t].exists
        /\ deps[Name(c)][t].rv = sync[c].listed[t]
        /\ deps' = [deps EXCEPT ![Name(c)][t] =
             [exists |-> TRUE, rv |-> @.rv + 1, owner |-> Info(c).owner,
              ownerSub |-> Empty]]
     \/ /\ \/ SyncFaults
           \/ ~deps[Name(c)][t].exists
           \/ deps[Name(c)][t].rv # sync[c].listed[t]
        /\ UNCHANGED deps
  /\ sync' = [sync EXCEPT
       ![c].listed = left,
       ![c].pc = IF \E u \in Tentacles : left[u] # 0 THEN "transfer"
                 ELSE AfterTransfers(Params(c), Info(c))]
  /\ UNCHANGED <<syncCount, dirtyQuota, ns, quota, res>>

\* UpdateResourceQuota reads the quota ...
QuotaGet(c) ==
  /\ sync[c].pc = "quotaGet"
  /\ \/ /\ ~quota[Name(c)].exists
        /\ ReturnError(c)
     \/ /\ quota[Name(c)].exists
        /\ sync' = [sync EXCEPT ![c].quotaRv = quota[Name(c)].rv,
                                ![c].pc = "quotaUpdate"]
        /\ UNCHANGED <<syncCount, dirtyQuota>>
  /\ UNCHANGED clusterVars

\* ... and replaces its hard limits; a Conflict here is not retried.
QuotaUpdate(c) ==
  /\ sync[c].pc = "quotaUpdate"
  /\ \/ /\ ~quota[Name(c)].exists \/ quota[Name(c)].rv # sync[c].quotaRv
        /\ ReturnError(c)
        /\ UNCHANGED quota
     \/ /\ quota[Name(c)].exists
        /\ quota[Name(c)].rv = sync[c].quotaRv
        /\ quota' = [quota EXCEPT ![Name(c)] =
             [exists |-> TRUE, rv |-> @.rv + 1, kind |-> "limits",
              preset |-> Params(c).preset]]
        /\ sync' = [sync EXCEPT ![c].pc = "update", ![c].wroteQuota = TRUE]
        /\ UNCHANGED <<syncCount, dirtyQuota>>
  /\ UNCHANGED <<ns, deps, res>>

\* A late check failed: the handler returns its error.
SyncRefuse(c) ==
  /\ sync[c].pc = "error"
  /\ ReturnError(c)
  /\ UNCHANGED clusterVars

\* Mutant: the update does not carry the version that was read.
SyncUpdateBlind(c) ==
  /\ sync[c].pc = "update"
  /\ NsExists(Name(c))
  /\ ns' = [ns EXCEPT ![Name(c)] = Annotated(@, SyncedInfo(Params(c), Info(c)))]
  /\ sync' = [sync EXCEPT ![c] = Idle]
  /\ UNCHANGED <<syncCount, dirtyQuota, deps, quota, res>>

\* The namespace is written if nobody wrote it since it was read.
SyncUpdate(c) ==
  /\ sync[c].pc = "update"
  /\ NsExists(Name(c))
  /\ ns[Name(c)].rv = sync[c].snap.rv
  /\ ns' = [ns EXCEPT ![Name(c)] = Annotated(@, SyncedInfo(Params(c), Info(c)))]
  /\ sync' = [sync EXCEPT ![c] = Idle]
  /\ UNCHANGED <<syncCount, dirtyQuota, deps, quota, res>>

\* Mutant: the update is repeated as it is.
SyncConflictHasty(c) ==
  /\ sync[c].pc = "update"
  /\ NsExists(Name(c))
  /\ ns[Name(c)].rv # sync[c].snap.rv
  /\ IF sync[c].attempt + 1 < MaxSyncRetries
     THEN /\ sync' = [sync EXCEPT ![c].attempt = @ + 1]
          /\ UNCHANGED <<syncCount, dirtyQuota>>
     ELSE ReturnError(c)
  /\ UNCHANGED clusterVars

\* Mutant: the retry of a new preset applies it to what is there now, but does
\* not write the quota again.
SyncConflictKeepsQuota(c) ==
  LET quotaOnly == Params(c).remove = {} /\ Params(c).newOwner = Empty IN
  /\ sync[c].pc = "update"
  /\ NsExists(Name(c))
  /\ ns[Name(c)].rv # sync[c].snap.rv
  /\ \/ /\ sync[c].attempt + 1 < MaxSyncRetries
        /\ sync' = [sync EXCEPT ![c].attempt = @ + 1,
             ![c].pc = IF quotaOnly THEN "update" ELSE "get",
             ![c].snap = IF quotaOnly THEN ns[Name(c)] ELSE Empty]
        /\ UNCHANGED <<syncCount, dirtyQuota>>
     \/ /\ sync[c].attempt + 1 >= MaxSyncRetries
        /\ ReturnError(c)
  /\ UNCHANGED clusterVars

\* A Conflict is retried from scratch, at most MaxSyncRetries times in all.
SyncConflict(c) ==
  /\ sync[c].pc = "update"
  /\ NsExists(Name(c))
  /\ ns[Name(c)].rv # sync[c].snap.rv
  /\ \/ /\ sync[c].attempt + 1 < MaxSyncRetries
        /\ sync' = [sync EXCEPT ![c].attempt = @ + 1, ![c].pc = "get",
                                ![c].snap = Empty, ![c].quotaRv = 0]
        /\ UNCHANGED <<syncCount, dirtyQuota>>
     \/ /\ sync[c].attempt + 1 >= MaxSyncRetries
        /\ ReturnError(c)
  /\ UNCHANGED clusterVars

\* The namespace was deleted meanwhile: the update fails with NotFound.
SyncGone(c) ==
  /\ sync[c].pc = "update"
  /\ ~NsExists(Name(c))
  /\ ReturnError(c)
  /\ UNCHANGED clusterVars

\* An API call fails, or the request's context is cancelled and with it the call.
\* A failed list is only logged; every other failure ends the handler.
SyncFail(c) ==
  /\ SyncFaults
  /\ \/ /\ sync[c].pc \in {"get", "quotaGet", "quotaUpdate", "update"}
        /\ ReturnError(c)
     \/ /\ sync[c].pc = "list"
        /\ sync' = [sync EXCEPT ![c].pc = AfterTransfers(Params(c), Info(c))]
        /\ UNCHANGED <<syncCount, dirtyQuota>>
  /\ UNCHANGED clusterVars

SyncStep(c) ==
  \/ SyncGet(c)
  \/ TransferList(c)
  \/ \E t \in Tentacles : TransferUpdate(c, t)
  \/ QuotaGet(c)
  \/ QuotaUpdate(c)
  \/ SyncRefuse(c)
  \/ SyncUpdate(c)
  \/ SyncConflict(c)
  \/ SyncGone(c)

SyncNext ==
  \E c \in Syncers :
    \/ \E r \in Requests : SyncStart(c, r)
    \/ SyncStep(c)
    \/ SyncFail(c)
=============================================================================
