# A TLA+ model of tentacular-mcp

tentacular-mcp is an MCP server that runs in a Kubernetes cluster. It lets AI agents
provision *enclaves* (namespaces with an owner, members and quotas), deploy *tentacles*
(workflows: a Deployment and what belongs to it) into them, run those, on demand or by
cron, and it registers the tentacles with shared services (Postgres, NATS, RustFS,
SPIRE: the *exoskeleton*). The server keeps almost nothing in memory: enclaves, owners,
permissions and schedules are annotations of Kubernetes objects, read and written one
API call at a time by handlers that run concurrently. What can go wrong is therefore
mostly *between* two API calls, and this is what the modules here are about.

Paths below are relative to `src/`.

## 1. Inventory

| Component | State it keeps | Operations | Hard behaviour | What makes it correct |
|---|---|---|---|---|
| Enclave administration, `pkg/tools/enclave.go`, `pkg/authz/enclave_annotations.go` | annotations of the namespace | `enclave_provision`, `enclave_sync`, `enclave_deprovision`, `enclave_info`, `enclave_list` | read-modify-write with retries; side effects (tentacle owners, ResourceQuota) beside the write; rollback by name; case-sensitive and case-insensitive comparisons of one email | a sync is atomic and made by the owner of that instant; limits hold; annotations and quota agree; nothing half made stays |
| Namespace objects, `pkg/k8s/{namespace,quota,netpol,rbac}.go` | Namespace, ResourceQuota, LimitRange, NetworkPolicies, RBAC | create, update, delete | each call may fail; deletion is asynchronous | see above |
| Cron scheduler, `pkg/scheduler` | a map of entries under a mutex, the jobs of robfig/cron | `Register`, `Deregister`, `trigger`, `ScanWorkflows`, `Start`, `Stop` | memory lost at a restart; scan concurrent with calls; invalid schedules | map and jobs agree; what runs is what is annotated; schedules come back; shutdown ends |
| Workflow tools, `pkg/tools/{deploy,workflow,run}.go` | Deployments and other objects, owner, mode and schedule annotations | `wf_apply`, `wf_remove`, `wf_restart`, `wf_run` | many objects written one by one, then garbage collected, then the schedule; no rollback; checks made calls before the effect | owner annotations survive concurrent transfers; frozen enclaves are left alone; a release converges; the schedule follows |
| Authorization, `pkg/authz`, `pkg/tools/{authz_helpers,discover}.go` | none (mode bits in annotations) | `Check`, `CheckEnclave`, `CheckTentacle`, mode parsing, who is listed | two tiers (enclave, tentacle), presets, bypasses; list, info and describe tools repeat the checks in their own way; capitalised emails | the separate checks decide alike |
| Exoskeleton, `pkg/exoskeleton/{controller,registrar_*}.go` | roles, users, policies, the NATS authorization ConfigMap, ClusterSPIFFEIDs, Secrets | `ProcessManifests`, `Register`/`Unregister` of four registrars, `CleanupWithReport` | credentials rotate at registration, the Secret is written later; sequential registrars without rollback; one ConfigMap for all; lost answers | the Secret holds credentials that work; no tentacle loses its entry; a removal leaves nothing |
| Manifest enrichment and pod security, `pkg/exoskeleton/{enrich,identity}.go`, `pkg/tools/deploy.go`, `pkg/k8s/psa.go` | none | the patches of `ProcessManifests`, `ensurePSACompliance`, `ValidatePSA`, `CompileIdentity` | a dozen edits that must agree on which object they mean; manifests read back and submitted again; names that collide | what is registered can be reached and nothing else; the pods can be created; names keep tentacles apart |
| Workflow execution, `pkg/k8s/run.go` | none | `RunWorkflow` | retry of dial errors against three deadlines | at most one run per call; the call ends |
| Module proxy, `pkg/proxy`, `pkg/k8s/prewarm.go` | a Deployment and a Service | reconcile loop, prewarm | errors stop a pass; objects disappear; two servers during an upgrade | it converges; warming up ends |
| Server, `cmd/tentacular-mcp/main.go`, `pkg/server`, `pkg/auth` | process lifetime | start, signal, shutdown; authentication | shutdown order | see scheduler |
| Audit, logs, health, cluster profile, `pkg/tools/*`, `pkg/k8s/{profile,preflight}.go` | none | read-only queries | none that a model reaches | - |

Components interact through the Kubernetes API only, with two exceptions: `wf_apply`
and `wf_remove` call the scheduler, and cron jobs call `RunWorkflow`. Handlers are
goroutines of one process; `enclave_sync` changes annotations of Deployments that
`wf_apply` also writes; `enclave_deprovision` deletes Deployments whose schedules the
scheduler holds. `PROJECT.json` lists the hazards with their lines.

## 2. Plan

1. *(done)* Enclave administration: `EnclaveAnnotations` (pure), `Cluster`,
   `EnclaveSync`, `EnclaveLifecycle`, composed in `Enclaves`; the abstract
   specification `AtomicEnclave`; proofs of all its safety properties.
2. *(done)* The scheduler: `Scheduler` (pure), composed with the scan, the deployment
   tools and the life of the process in `ScheduledWorkflows`; proofs that the map, the
   jobs and the Deployments agree.
3. *(done)* `Authz` (pure) and `AccessControl`: the separate access checks against each
   other.
4. *(done)* `Tentacles`: the workflow tools, object by object, composed with
   `EnclaveSync` on the same Deployments.
5. *(done)* `Exoskeleton`: registrars, credentials and the Secret, with lost answers and
   crashes; the abstract `AtomicRegistry`. `Identity` and `Manifests`: names and
   patches.
6. *(done)* `ModuleProxy`: the reconciler of two servers, and prewarming.
7. *(done)* Proofs of the safety properties of `Tentacles`, `Exoskeleton`,
   `AccessControl`, `Manifests` and `Identity`.
8. Left: `RunWorkflow`'s dial retries (these need a clock), and a fault kind for API
   calls of `enclave_provision` that took effect although the client saw an error.

## 3. Modules

| Module | Models |
|---|---|
| `EnclaveAnnotations` | what `attemptEnclaveSync` computes: owner check, member lists, early and late validation, the annotations written |
| `AtomicEnclave` | abstract: an enclave's annotations change by atomic syncs, provisions and disappearances |
| `Cluster` | Namespaces, Deployments, ResourceQuotas with resource versions; deletion in two phases; controllers (external) |
| `EnclaveSync` | `enclave_sync`, one action per API call |
| `EnclaveLifecycle` | `enclave_provision` with its deferred rollback, `enclave_deprovision` |
| `Enclaves` | the three tools and the controllers together; fairness; properties |
| `Authz` | modes and presets, `CheckEnclave`, `CheckTentacle`, `requireDeployer`, who is listed, described, informed, and which enclave is inserted |
| `AccessControl` | callers against annotations; properties that compare the checks |
| `Tentacles` | `wf_apply`, `wf_remove`, `wf_restart`, `wf_run` with `EnclaveSync` and deprovisions; properties |
| `Scheduler` | `Register`, `Deregister` as functions on the scheduler's state |
| `ScheduledWorkflows` | the scan, `wf_apply`/`wf_remove` as far as schedules go, jobs, crash and shutdown; properties |
| `AtomicRegistry` | abstract: a set of principals to which registrations add and from which removals take their own |
| `Exoskeleton` | `Register` and `Unregister` of the four registrars, request by request, the Secret; properties |
| `Identity` | `CompileIdentity`, `CompileEnclaveIdentity` |
| `Manifests` | the edits `wf_apply` makes to the manifests before it writes them, and again to what it made; properties |
| `ModuleProxy` | `Reconcile` for several servers, prewarming; properties |
| `MC*` | small instances for TLC |
| `EnclaveSyncProofs` | lemmas on `EnclaveAnnotations` and `EnclaveSync`, for the two modules that compose the latter |
| `EnclavesProofs`, `TentaclesProofs`, `SchedulerProofs`, `ExoskeletonProofs`, `AccessControlProofs`, `ManifestsProofs` | theorems |

**State and code.** A handler invocation is a record: `pc` is the API call it is about
to make, the other fields are the locals that survive it (`snap` is the `ns` that
`attemptEnclaveSync` holds, `listed` the Deployments with the versions they were listed
with; in `Tentacles`, `info` and `existing` are the annotations `wf_apply` decided on,
`todo` what it still has to write or to look for, `listed` what it found and is to
delete; in `Exoskeleton`, `creds` is what the
registrars returned so far and `seen` the ConfigMap that was read). The code between two
API calls belongs to the action of the first, since nothing else can observe it. An
`Update` compares the version it carries and increments it; a Namespace goes from Active
to Terminating to Absent, and versions are not reused. Refused requests end where the
code ends them, after the side effects the code has made by then. History variables and
fields, which no guard reads: `startRv`, `wroteQuota`, `dirtyQuota`, `uid`, `overlap`;
`seen`, `good` and `whole` in `Tentacles`; `settled` and `alone` in `Exoskeleton`;
`submitted`, `reached` and `known` in `Manifests` (`known` collects the tentacles that
were let through, `reached` the hosts DNS answered for).

`wf_apply` is long, and is cut along the state its parts share: `Tentacles` has its
checks, writes and garbage collection, `Manifests` the edits in between, `Exoskeleton`
the registrations and the Secret, `ScheduledWorkflows` what becomes of the schedule,
`ModuleProxy` the warming up it starts. Each has the interleavings that matter for its
state; a failure in one part appears in the others as a call that ends early.

**Abstraction.** Emails are model values with a lowercasing function; the member list is
a sequence (its length matters) in which order carries no meaning. A mode is a set of
pairs of class and permission, and its text a sequence of characters. Timestamps,
platform and channel ids are left out. Failing validation of a new enclave is represented
by an invalid default mode. In `Enclaves`, `Tentacles` and `ScheduledWorkflows` a failed
API call has no effect; in `Exoskeleton` and `ModuleProxy` it may also have had its
effect. The exoskeleton's part of `enclave_provision` is one step that succeeds or fails.
The objects of a release are Deployments, of its own name or others, and at most one
object of each other kind; the annotations a Deployment manifest brings of its own are
part of the request, and need not be readable. In `ScheduledWorkflows` a Deployment is
submitted with or without the label `managed-by=tentacular`, which `wf_apply` does not
add. A credential is a
number used once. In `Manifests` a manifest has the fields the patches and the pod
security check look at; a field of a security context is absent, null, good or bad, since
`setIfAbsent` tells absent from null. In `Identity` names are sequences of characters,
because which names collide is what matters, and the 32-bit hash stands for its argument.
The strings manifests are made of are a constant, `Text`; a pod has at least one
container, as Kubernetes demands.
Definitions marked "Mutant" are plausible mistakes: they are used by no specification and
exist to show that the properties notice them.

## 4. Runs

Passing runs:

| Run | Shows | Bounds |
|---|---|---|
| `sync` | `SyncIsAtomic` (refinement of `AtomicEnclave`), `RetriesArePaidFor`, `QuotaMatchesAnnotation`, `MembersWellFormed`, `CallsReturn`, types | two calls at once, four in all: two can conflict, a third can overtake a retry; one tentacle; eight requests of all kinds, refused ones too; member limit two; API calls fail; one status write by the deployment controller (225,473 states) |
| `lifecycle` | `NothingHalfProvisioned`, `SyncIsAtomic`, `CallsReturn` | two provisions of one name at once, a sync and a deprovision beside them, every API call but the rollback's may fail (160,116) |
| `owner_limit` | `OwnerLimit`: the limit is exceeded by less than the number of overlapping provisions | three names, two provisions at once, three in all, limit one, two capitalisations, an operator, a deprovision; API calls and rollbacks fail (1,675,015) |
| `authz` | `CaseBlind`, `ListedIffDescribed`, `ListAgreesWithInfo`, `ModesRoundTrip` | five emails in two capitalisations, callers without an address and without an identity; enclave modes that differ in what members and others may do, half of all tentacle modes, unreadable ones; a second enclave or none; a terminating one (586,560) |
| `tentacles` | `ReleasesConverge`, `FrozenEnclavesRest`, `UpdatesKeepOwnership`, types | two calls at once, by two members, an operator or nobody: deployments of a tentacle with annotations of the manifest's own or without, one of another tentacle whose manifests hold the first one's Deployment, an unreadable mode, removals, restarts and runs; beside them an `enclave_sync` that removes a member and freezes the enclave, and a deprovision; API calls fail; the tentacle at first not there, a member's, without an owner, or without a mode (1,522,740) |
| `cron_jobs` | `JobsAreEntries`, types | two workflows sharing a label, three schedules of which one does not parse, two calls at once, three in all, a deprovision, failures, one restart (4,455,179) |
| `cron_restart` | `InSyncUnlessOverlapped`, `SchedulesRestored`, `ShutdownCompletes` | one workflow, with and without the label the scan asks for, two calls at once, three in all, jobs running, freezing, one crash or shutdown anywhere (1,232,921) |
| `exoskeleton` | `SecretsWork`, `RemovalLeavesNothing`, `RegistrationsAreAtomic` (refinement of `AtomicRegistry`), types | two tentacles, two calls at once, three in all (one that fails, one that repairs, one that interferes), every request failing with or without its effect, one crash, two configurations (1,158,156) |
| `manifests` | `RegisteredIsReachable`, `CollectorReachable`, `NothingElseOpened`, `MountsWork`, `RefusedOnlyForOwnValues`, `NamesKeepApart` | submissions of many shapes (security contexts with up to two fields set, volumes and mounts of the user's own, flags in arguments or command, one or two NetworkPolicies, contracts), two applications: another submission, or what the first one made; three configurations (555,907); for the names, six namespaces and nine workflows, of which three are no DNS labels |
| `proxy` | `Converges`, `PrewarmEnds` | two servers that want different images, one further pass of the old one, one edit or deletion, one failing or lost call, one restart; two modules, one slot (315,765) |

The bounds count calls, not steps; each hazard needs two or three calls in flight (one
that is overtaken, one that overtakes, one to observe). `tentacles` and `exoskeleton` use
the symmetry of the callers, `owner_limit` that of the provisions and of the names: no
constant, request or property tells them apart, and none of these runs checks liveness. Deadlock is not checked: when all the
calls a bound allows have returned, the system rightly stops. In `Identity` the limit of
63 characters is 7 and the hash suffix 3, so that names of five characters are cut.

Runs that find a disagreement between the code and what is written about it (details
and quotations under "findings" in `PROJECT.json`):

| Run | What happens |
|---|---|
| `cron_invalid` | after an invalid schedule the previous one cannot be restored: `Register` compares with the entry whose job it has removed |
| `mode_reset` | an update by the owner without a mode parameter replaces the tentacle's mode by the default, since the test for an explicit mode is made after the default was filled in |

What the passing properties do *not* say. The modules also have the following behaviours,
which the bounds or the wording of a property exclude; each is a hazard with a note in
`PROJECT.json`:

* `MaxEnclavesPerOwner` is not a limit when provisions overlap: each counts before it
  annotates (`OwnerLimit` says by how much it is exceeded), and an ownership transfer does
  not count at all (`OwnerLimit` is about owners no enclave is transferred to);
* a transfer to another capitalisation of a member keeps him in the list and exceeds
  `MaxEnclaveMembers` by one (`MembersWellFormed` is checked over lowercase emails);
* a rollback whose deletion fails leaves a half provisioned namespace, and a rollback
  deletes by name, so that it may take the namespace a later call has made;
* an enclave is deleted by a caller who has handed it over between the check and the
  deletion;
* tentacles of removed members are moved before the call is known to succeed, to the
  owner of the first read, who may have been replaced meanwhile;
* a call that fails between quota and namespace leaves the two with different presets
  (`QuotaMatchesAnnotation` excepts it);
* `enclave_provision` bounds the sum of the *requests* in an enclave, as `pkg/k8s/quota.go:15`
  says ("Quotas are set on requests (not limits)"), but the first `enclave_sync` with a
  preset replaces that bound by one on the *limits* (`quota.go:87-91`).
  `QuotaMatchesAnnotation` compares the amounts, not what they bound (`kind` in `Cluster`);
* `enclave_list` shows every enclave to an OIDC caller whose token has no email claim: he
  is given the empty filter (`pkg/tools/enclave.go:229-231`), which `enclave.go:531` takes
  for none, though `enclave_info` refuses him and the comment at 227 says that the filter
  "prevents OIDC users from listing all enclaves". `ListAgreesWithInfo` says so;
* an update by somebody who may not change the mode puts back the mode it read at its
  start, over the one the owner has set meanwhile (`UpdatesKeepOwnership` asks only that
  it gives the tentacle no mode that it did not have during the call; the attempt to prove
  the stronger statement brought this up);
* an update of a tentacle that has no owner, or no mode, takes them from the manifest's own
  annotations, whoever sends it and without parsing the mode (`pkg/exoskeleton/enrich.go:802`,
  819-823); and nothing ties the name of a Deployment manifest to that of the tentacle
  (`pkg/tools/deploy.go:534-588`), so that a `wf_apply` of one tentacle overwrites the
  Deployment, owner and mode of another whose owner is not asked (`UpdatesKeepOwnership` is
  about the Deployment the call has checked, while it has owner and mode);
* two `wf_apply` calls that both create a tentacle: the second replaces owner and mode
  (`UpdatesKeepOwnership` excepts it); `wf_run` and `wf_restart` of a tentacle that is
  just being created are not checked at all (`FrozenEnclavesRest` excepts it);
* garbage collection deletes by name what another call may have applied again since
  (`ReleasesConverge` is about calls that met no other which could write or delete one of
  their objects);
* a list or a deletion that fails in the collection is passed over, and `wf_apply` or
  `wf_remove` still reports success (`deploy.go:597`, 604, 633, 639): garbage then outlives
  it. After such a success `ReleasesConverge` says only that what was asked for is there;
* for the same reason a `wf_apply` that no longer has dependencies may leave the Secret
  behind, with credentials an earlier call has rotated since (`SecretsWork` is about
  deployments with dependencies);
* `wf_remove` of a tentacle that never registered with Postgres always reports an error:
  the failed REVOKE aborts the transaction (`registrar_postgres.go:151-155`). The model
  lets it succeed or fail, and `RemovalLeavesNothing` asks nothing after an error;
* the startup scan asks for Deployments labelled `managed-by=tentacular`
  (`pkg/scheduler/discover.go:23-25`), `wf_apply` registers schedules of any and sets only
  the release label (`deploy.go:552-559`): the schedule of a Deployment submitted without
  that label is lost at the next restart (`SchedulesRestored` and `InSyncUnlessOverlapped`
  are about labelled ones; of the others the latter says that nothing else is run);
* `wf_apply` and `wf_remove` of one workflow in each other's way, or one that fails
  between the Deployment and the schedule, leave the two apart
  (`InSyncUnlessOverlapped` is about workflows no two calls dealt with at once, and is
  checked without failures and deprovisions); jobs survive a deprovision and fire in a
  frozen enclave;
* tentacles of different enclaves may be given one database role (`NamesKeepApart`
  compares roles within an enclave, `SecretsWork` is checked with a role for each
  tentacle). Nor does `guard.CheckName` ask the name of a workflow to be a DNS label:
  `a_b`, `a-b` and `A-B` of one enclave are given one role, and the NATS subjects of `a.b`
  are among those of `a`. `NamesKeepApart` is therefore about subjects of names without a
  dot, and roles of DNS labels;
* a collector rule and host are appended again with every resubmission
  (`CollectorReachable` asks for at least one).

**Fairness.** `Enclaves`: weak fairness of each handler's steps (goroutines are
scheduled, and every API call returns, by its timeout at the latest); nothing obliges
callers or controllers. `ScheduledWorkflows`: the same for calls and the scan; runs end
(each has a deadline of 120 seconds); a server that is down is started again (by its
Deployment) and a drained one exits. No job is obliged to fire. `ShutdownCompletes`
holds because a stopped scheduler starts no new run, not because jobs are assumed to
stop. `ModuleProxy`: the ticker goes on and a call returns (`ServerStep`), the server
that is replaced does stop (Kubernetes ends it after the grace period), a goroutine that
waits for a slot gets it while one is free, and a request ends (it has a deadline). Edits
by others, failures and restarts are finitely many, by their bounds: without that nothing
converges. Neither the start of the requests nor the end of their context is obliged to
happen. The other specifications state no fairness and are checked for safety only.

## 5. Proofs

All theorems hold for any number of calls, namespaces, tentacles, workflows, emails,
servers and requests, with or without failures and crashes where a theorem does not say
otherwise. They rest on the constants' `ASSUME`s, which TLC evaluates in every run: emails
are a finite set on which lowercasing is idempotent, `Empty` and `None` are none of the
values (nor, in `EnclaveAnnotations` and `Tentacles`, one of the records), requests and
initial states are well typed, the default modes are among the modes, and modes are texts
`ParseMode` accepts; in `Manifests`, that submissions are JSON of the shape described
there, namespaces have names Kubernetes accepts and workflows names `CheckName` accepts,
and a configured service has a host. A theorem that needs more states it as a hypothesis of its own, and
the hypothesis holds in the run that checks the same property:

| Hypothesis | Says | Without it |
|---|---|---|
| `"rollback" \notin LifecycleFaults` | the deletion in `enclave_provision`'s cleanup succeeds | the namespace stays half made |
| `PlainLists` | emails are lowercase, initial and provisioned lists are proper | a capitalised member escapes the exact comparison |
| `LimitedAtFirst` | namespaces and overlapping provisions are finitely many, and nobody has too many enclaves at the start | nothing takes the surplus away |
| `OwnRoles` | no two tentacles share a database role | one rotates the other's password |
| `Undisturbed` | no failures, deprovisions, invalid schedules, shared labels, submissions without Deployment | see section 4 and `cron_invalid` |
| `OwnMountsFit` | volumes and mounts of the author's own fit together, and the first container mounts nothing at `/run/spire/sockets` unless the SPIRE volume is there | the pod was invalid when submitted, or the SPIRE socket is mounted over it |

**`EnclavesProofs`** (lemmas on `enclave_sync` in `EnclaveSyncProofs`, which
`TentaclesProofs` shares):

* `TypeCorrect` (`Spec => []TypeOK`). `TypeOK` is not inductive: the annotations written
  are those of a request validated steps earlier. `TypeInv` adds what each call has
  established at each `pc`: its request is one of `Requests`, the snapshot is an
  enclave's, `AcceptedEarly` and later `AcceptedLate` hold of it, a provision that gets to
  annotate has passed its validation.
* `RetriesAlwaysPaidFor`. The invariant `Current` relates each call to the namespace: the
  version is at least the snapshot's, the snapshot's at least that of the first read plus
  the number of retries, and *while the version is the snapshot's, so are the
  annotations*. A retry needs a version other than the snapshot's, hence a greater one.
* `SyncIsAlwaysAtomic` (`Spec => SyncIsAtomic`). The same invariant is the refinement
  argument: at its write the handler's snapshot is the present state, so the checks it
  made earlier hold now. Every other step leaves the annotations alone, or is an abstract
  `Provision` or `Disappear`.
* `NeverHalfProvisioned`. `LifeInv`: an active namespace is complete, or some provision is
  its *maker*, the one that created the object with this uid and will finish or delete
  it; `Progress` says how much of it each call has made. Uids do not exceed versions, so
  that a namespace created later under the same name is another one. The rollback deletes
  by name, and what it deletes is then not active any more, whoever made it.
* `PresetAlwaysMatches`. `QuotaInv`: annotations and quota agree, or somebody is going to
  see to it: a sync that has written the quota and will write the namespace (`Writer`), a
  provision that creates the quota (`Maker`), or one that is bound to delete the namespace
  (`Failing`). The difficult case is two provisions filling one namespace: of the two only
  the one that creates the first object goes on, the other fails and takes it all back.
* `ListsAlwaysWellFormed`. What a sync adds and removes is followed through the cardinality
  of the list: the transfer that appends the old owner to a list whose length was checked
  earlier has removed the new one from it.
* `LimitAlwaysKept`. `LimitInv`: the enclaves an owner has and the provisions that have
  counted and not annotated yet (`Admitted`) are together fewer than the limit and the
  number of provisions that may overlap. A call is admitted only while the owner has fewer
  than the limit, and then at most all the others are admitted beside it; annotating turns
  an admitted call into an enclave; nothing else gives an enclave to somebody to whom none
  is transferred. With one provision at a time this is the limit itself.

**`TentaclesProofs`**:

* `TentaclesTypeCorrect`; `TentaclesInv` adds what a call knows at each `pc` (`CallOK`).
* `FrozenEnclavesAlwaysRest` and `OwnershipAlwaysKept`, two action properties, from
  `HistoryInv`: what the handler holds (`info`, `existing`) was the case at some time
  during the call, which is what the history `seen` collects; and a call that found no
  Deployment and that nobody overlapped still finds none when it writes.
* `ReleasesAlwaysConverge`. `ReleaseInv` has three parts. `Doing`: what a call that met no
  other has dealt with (`Settled`: written, or looked for without an error in order to
  delete it) is as it was asked for. `Unclaimed`: nothing is known of a release that is
  being written, and an object that is about to be deleted belongs to no release that
  should hold it. `Kept`: what is known of a release (`good`) is so. A call that takes an
  object over from another release, which nothing forbids, takes the knowledge of that
  release with it; a call that meets another takes its own.

**`SchedulerProofs`**:

* `TypeCorrect`.
* `JobsAreAlwaysEntries`. The strengthening `SchedOK`: ids in the map were handed out and
  belong to one workflow each, and no job has the id of "no entry"; otherwise replacing
  one workflow's job might remove another's.
* `OthersUntouched`: `Register` and `Deregister` change the live schedules of their own
  workflow only.
* `AlwaysInSyncUnlessOverlapped`. `StepInv` adds the converse of `JobsAreEntries` (every
  entry has its job, which an invalid schedule would break) and `Together`: for a workflow
  that was not overlapped one call deals with it at most; what the scan is about to
  register is still what the Deployment says; and before a call has changed anything, the
  entry is that of the Deployment, or missing while the scan has yet to come by, or missing
  because the Deployment lacks the label the scan asks for.

**`ExoskeletonProofs`**:

* `ExoskeletonTypeCorrect`; `TypeInv` adds which registrations may be outstanding at each
  `pc`.
* `RegistrationsAlwaysAtomic` (`AtomicRegistry` is implemented): while the ConfigMap has
  the version that was read, it has the content that was read (`ReadsCurrent`).
* `SecretsAlwaysWork` and `RemovalsAlwaysLeaveNothing`. `Progress`: the credentials a call
  that is alone has been given are in force (`Registered`), and a removal without an error
  so far has left nothing in the services it is done with (`Unregistered`); nothing is in a
  service that is not configured.

**`AccessControlProofs`**: `AlwaysCaseBlind`, `AlwaysListedIffDescribed`,
`ListAlwaysAgreesWithInfo`, `ModesAlwaysRoundTrip`, for all annotations, callers and modes.
These are facts about operators; the invariant `AccessInv` only says that the annotations
at hand are well typed.

**`ManifestsProofs`**: `RegisteredAlwaysReachable`, `CollectorAlwaysReachable`,
`NeverOpensMore`, `AlwaysRefusedForOwnValues`, `MountsAlwaysWork`, `NamesAlwaysKeepApart`,
for all manifests and configurations and any number of calls.

* A patch is an edit of one workload or policy chosen by position; a lemma for each says
  what it adds, and that it stays within three relations of the manifests before and
  after it: `Grows` (nothing closed, and nothing opened but given hosts and rules),
  `ContextsKept` and `VolumesKept`. They are transitive, so that `TelemetryDoes` and
  `ServicesDo` follow the order of `ProcessManifests`: what an early patch opened is still
  open after the later ones.
* `ManifestsInv` relates the manifests at each `pc` to those submitted (`Processed`), and
  a refusal to a value of the author's own: `EnsureDoes` says that every field
  `ensurePSACompliance` found absent is good afterwards. Since a submission may be any
  manifests at all, those read back (`ReadBackDoes`) are only a special case, and the
  invariant never looks further back than the present call.
* `MountsInv` for the volumes: `/tmp` is mounted where it is not mounted already, under a
  volume name that is taken over or added once, and the SPIRE mount comes with its volume;
  manifests that came out of one call meet this on the way into the next.
* `NamesKeepApart` is a fact about sequences: the first separator of two equal names is at
  one place, because the first part has none (`SamePart`); a name that ends in a separator
  its second part does not have is a prefix of no other (`PairNoPrefix`); what is cut
  carries the hash of the whole (`TruncatedInjective`); and `replacePg` is injective on
  DNS labels (`ReplacedInjective`), which have hyphens but no underscores.

Only model-checked is liveness (`CallsReturn`, `SchedulesRestored`, `ShutdownCompletes`,
`Converges`, `PrewarmEnds`), which is beyond the prover used. Every safety property of a
passing run is the subject of a theorem.

## 6. Not modelled

* Audit, logs, cluster profile and preflight checks: read-only passes over what the API
  returns, classified and formatted. They keep no state that other operations depend on,
  nothing interleaves with them, and their rules are tables.
* HTTP routing and token verification: I/O and a library. The identity a request carries
  is an input.
* `RunWorkflow`'s retry of dial errors against the deadlines of the client, the server
  and the run: three constants to compare, and the models have no clock.
* What is inside the services: the objects of a bucket, the rows of a schema. The
  services of an enclave (`EnsureEnclaveServices`, `CleanupEnclave`) only log in this
  version.
* `validateNodeDescriptions` (a check of texts), the content of policies and roles, and
  the result records of the read-only tools.
* Kubernetes admission and the SPIRE controller: external. The code's own pod security
  check lets a good value of the pod outweigh a bad one of the container
  (`pkg/k8s/psa.go:166`), which admission does not; the model follows the code.
