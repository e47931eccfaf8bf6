------------------------------ MODULE Manifests ------------------------------
(***************************************************************************)
(* What wf_apply makes of the manifests it is given, before it writes      *)
(* them: ProcessManifests (pkg/exoskeleton) opens the way to the telemetry *)
(* collector and to the services of the contract, in the flags of the      *)
(* runtime and in the NetworkPolicy, and adds volumes and credentials;     *)
(* ensurePSACompliance and ValidatePSA then see to the security contexts.  *)
(* A client may submit again what it reads back from the cluster.          *)
(***************************************************************************)
EXTENDS Identity, FiniteSets

CONSTANTS
  Submissions,        \* what clients submit: [tentacle, doc]
  Configs,            \* of the exoskeleton: [enabled, services, spire]
  Urls,               \* of the services: [scheme, host, port]
  Text,               \* the strings that manifests are made of
  Levels,             \* Pod Security levels of the namespaces
  MaxApplies,         \* bound: calls
  None

Services == {"postgres", "nats", "rustfs"}

ASSUME ManifestsAssumption ==
  /\ Configs \subseteq [enabled : BOOLEAN, services : SUBSET Services, spire : BOOLEAN]
  /\ Urls \in [Services -> [scheme : Text, host : Seq(Text), port : Nat]]
  /\ \A c \in Configs : \A s \in c.services : Urls[s].host # <<>>
  /\ Urls["postgres"].port # 0   \* envDefault
  /\ MaxApplies \in Nat

(***************************************************************************)
(* A doc is the list of manifests by kind: workloads, NetworkPolicies,     *)
(* own when it is the workflow's <name>-netpol, the tentacular-*           *)
(* dependencies of workflow.yaml, filled in or not, "odd" when the value   *)
(* is not a map, and what the credentials Secret is for.                   *)
(*                                                                         *)
(* A field of a security context is absent, null, good (what "restricted"  *)
(* asks for) or bad; a securityContext that is null itself behaves like    *)
(* one whose fields all are.  args and command hold the lists of the       *)
(* --allow-net and --allow-env flags, None without the flag.  An egress    *)
(* rule is json when its numbers were decoded from JSON: those are float64 *)
(* and never equal to the int64 of the code.                               *)
(***************************************************************************)
Values == {"absent", "null", "good", "bad"}
Fields == {"nonRoot", "ape", "drop", "seccomp", "roFS"}
Hosts == [host : Seq(Text), port : Nat]
Flags == [net : {None} \cup Seq(Hosts), env : {None} \cup Seq(Text)]
Mounts == [volume : Text, path : Text]

Containers ==
  [sc : [Fields -> Values], mounts : Seq(Mounts), args : Flags, command : Flags]
Pods ==
  [nonRoot : Values, seccomp : Values, volumes : Seq(Text),
   containers : Seq(Containers) \ {<<>>}, init : Seq(Containers)]
Workloads == [kind : Text, labelled : BOOLEAN, pod : Pods]

Rules == [to : Seq(Text), ports : SUBSET Nat, json : BOOLEAN]
Policies == [own : BOOLEAN, egress : Seq(Rules)]

Dependencies == Services \cup {"unknown"}
Contracts == UNION {[S -> {"plain", "filled", "odd"}] : S \in SUBSET Dependencies}

Docs ==
  [workloads : Seq(Workloads), policies : Seq(Policies), contract : Contracts,
   secret : SUBSET Services]

\* What clients send is JSON.
FromJson(d) == \A p \in Range(d.policies) : \A r \in Range(p.egress) : r.json

\* guard.CheckName lets label values through, which have no slash; the names of
\* namespaces are DNS labels.
LabelValues == {n \in Seq(Text) : Range(n) \cap {"/", "/tentacles/"} = {}}
Names == {n \in LabelValues : IsDnsLabel(n)}

ASSUME SubmissionsAssumption ==
  /\ None \notin Seq(Hosts)
  /\ {"otel-collector", "tentacular-observability", "svc", "cluster", "local",
      "OTEL_DENO", "OTEL_SERVICE_NAME", "spiffe-workload-api", "/run/spire/sockets",
      "tmp", "/tmp"} \subseteq Text
  /\ \A s \in Submissions :
       /\ s = [tentacle |-> s.tentacle, doc |-> s.doc]
       /\ s.tentacle \in [namespace : Names, workflow : LabelValues]
       /\ s.doc \in Docs /\ FromJson(s.doc)

VARIABLES
  pc,         \* "idle", "submitted", "processed", "applied", "refused", "failed"
  config,     \* configuration of the exoskeleton
  level,      \* the namespace's enforce label
  submitted,  \* the submission being applied
  doc,        \* its manifests, as far as they have been worked on
  reached,    \* the hosts that DNS resolved in this call
  known,      \* tentacles applied so far
  applies

vars == <<pc, config, level, submitted, doc, reached, known, applies>>

IsDeployment(w) == w.kind = "Deployment"
Deployments(d) == {i \in DOMAIN d.workloads : IsDeployment(d.workloads[i])}
First(S) == CHOOSE i \in S : \A j \in S : i <= j

---------------------------------------------------------------------------
(* Hosts and flags *)

DefaultPort ==
  [scheme \in {"http", "https", "nats", "nats+tls", "tls", "postgres", "postgresql"} |->
     CASE scheme = "http" -> 80
       [] scheme = "https" -> 443
       [] scheme \in {"nats", "nats+tls", "tls"} -> 4222
       [] scheme \in {"postgres", "postgresql"} -> 5432]

\* The port of a URL is that of its scheme by default; 0 is none.
parseHostPort(u) ==
  [host |-> u.host,
   port |-> IF u.port # 0 \/ u.scheme \notin DOMAIN DefaultPort
            THEN u.port ELSE DefaultPort[u.scheme]]

\* A host is the sequence of its labels: <svc>.<ns>.svc[.cluster[.local]].
isInClusterHost(host) ==
  /\ Len(host) \in 3..5
  /\ host[3] = "svc"
  /\ Len(host) > 3 => host[4] = "cluster"

Endpoint(service) == parseHostPort(Urls[service])

\* collectExoHosts and the endpoints of patchNetworkPolicyExoEgress; only the
\* latter asks whether Postgres, whose port is never empty, has one.
Endpoints(creds) == {e \in {Endpoint(s) : s \in creds} : e.host # <<>> /\ e.port # 0}

Collector ==
  [host |-> <<"otel-collector", "tentacular-observability", "svc", "cluster", "local">>,
   port |-> 4318]

OtelVars == {"OTEL_DENO", "OTEL_SERVICE_NAME"}

\* The hosts are appended to the flag, whatever it lists already.
AppendHosts(flags, hosts) == [flags EXCEPT !.net = @ \o SetToSeq(hosts)]

\* patchAllowNetInSlice on args, and on command if that has no flag in args.
patchAllowNet(c, hosts) ==
  IF c.args.net # None THEN [c EXCEPT !.args = AppendHosts(@, hosts)]
  ELSE IF c.command.net # None THEN [c EXCEPT !.command = AppendHosts(@, hosts)]
  ELSE c

\* patchAllowEnvInSlice: only what is missing is appended, and nothing done when
\* nothing is, so that the command's turn comes then too.
MissingVars(flags) == OtelVars \ Range(flags.env)
Patchable(flags) == flags.env # None /\ MissingVars(flags) # {}
AppendVars(flags) == [flags EXCEPT !.env = @ \o SetToSeq(MissingVars(flags))]

patchAllowEnv(c) ==
  IF Patchable(c.args) THEN [c EXCEPT !.args = AppendVars(@)]
  ELSE IF Patchable(c.command) THEN [c EXCEPT !.command = AppendVars(@)]
  ELSE c

HasNetFlag(c) == c.args.net # None \/ c.command.net # None

\* What the runtime lets a container connect to.
AllowedHosts(c) ==
  Range(IF c.args.net # None THEN c.args.net
        ELSE IF c.command.net # None THEN c.command.net ELSE <<>>)

---------------------------------------------------------------------------
(* ProcessManifests *)

Main(w) == w.pod.containers[1]

\* The collector's host and variables go to the first container of the first
\* Deployment, and of no other.
patchDeploymentOTelEnv(d) ==
  IF Deployments(d) = {} THEN d
  ELSE [d EXCEPT !.workloads[First(Deployments(d))].pod.containers[1] =
          patchAllowNet(patchAllowEnv(@), {Collector})]

patchDeploymentWorkflowLabel(d) ==
  IF Deployments(d) = {} THEN d
  ELSE [d EXCEPT !.workloads[First(Deployments(d))].labelled = TRUE]

\* Mutant: the first NetworkPolicy will do.
AnyPolicy(d) == {i \in DOMAIN d.policies : TRUE}

\* The workflow's own NetworkPolicy; there is no fall back to another.
OwnPolicies(d) == {i \in DOMAIN d.policies : d.policies[i].own}

CollectorPorts == {4317, 4318}

CollectorRule ==
  [to |-> <<"tentacular-observability">>, ports |-> CollectorPorts, json |-> FALSE]

\* Mutant: numbers decoded from JSON are recognised.
HasCollectorRuleAny(egress) ==
  \E r \in Range(egress) : r.ports \cap CollectorPorts # {}

\* The check for a rule on the collector's ports.
HasCollectorRule(egress) ==
  \E r \in Range(egress) : ~r.json /\ r.ports \cap CollectorPorts # {}

patchNetworkPolicyOTelEgress(d) ==
  IF OwnPolicies(d) = {} THEN d
  ELSE LET i == First(OwnPolicies(d)) IN
       IF HasCollectorRule(d.policies[i].egress) THEN d
       ELSE [d EXCEPT !.policies[i].egress = Append(@, CollectorRule)]

\* The dependencies of the contract; unknown ones are skipped.
detectExoDeps(d) == DOMAIN d.contract
Known(deps) == deps \cap Services

\* Mutant: only the first dependency is filled in.
EnrichFirst(d, creds) ==
  [d EXCEPT !.contract = [s \in DOMAIN @ |->
     IF s = CHOOSE r \in creds : TRUE THEN "filled" ELSE @[s]]]

\* Host, port and the name of the secret's key are filled in.
enrichContractDeps(d, creds) ==
  [d EXCEPT !.contract = [s \in DOMAIN @ |->
     IF s \in creds /\ @[s] # "odd" THEN "filled" ELSE @[s]]]

\* The first Deployment whose first container has the flag.
patchDeploymentAllowNet(d, creds) ==
  LET S == {i \in Deployments(d) : HasNetFlag(Main(d.workloads[i]))} IN
  IF S = {} THEN d
  ELSE [d EXCEPT !.workloads[First(S)].pod.containers[1] =
          patchAllowNet(@, Endpoints(creds))]

\* Services in the cluster are reached by their namespace, others by address; one
\* that DNS does not resolve gets no rule.
EgressRule(e) ==
  [to |-> IF isInClusterHost(e.host) THEN <<e.host[2]>> ELSE e.host,
   ports |-> {e.port}, json |-> FALSE]

patchNetworkPolicyExoEgress(d, creds, resolved) ==
  IF OwnPolicies(d) = {} THEN d
  ELSE [d EXCEPT !.policies[First(OwnPolicies(d))].egress = @ \o
          SetToSeq({EgressRule(e) : e \in
            {f \in Endpoints(creds) : isInClusterHost(f.host) \/ f.host \in resolved}})]

\* The Secret, and the credentials merged into the user's own.
InjectSecret(d, creds) == [d EXCEPT !.secret = @ \cup creds]

SpireVolume == "spiffe-workload-api"

AddSpireVolume(pod) ==
  [pod EXCEPT !.volumes = Append(@, SpireVolume),
              !.containers[1].mounts =
                Append(@, [volume |-> SpireVolume, path |-> "/run/spire/sockets"])]

\* Mutant: a volume that is there is added again.
patchDeploymentSpireVolumeAgain(d) ==
  IF Deployments(d) = {} THEN d
  ELSE [d EXCEPT !.workloads[First(Deployments(d))].pod = AddSpireVolume(@)]

patchDeploymentSpireVolume(d) ==
  IF Deployments(d) = {} THEN d
  ELSE LET i == First(Deployments(d)) IN
       IF SpireVolume \in Range(d.workloads[i].pod.volumes) THEN d
       ELSE [d EXCEPT !.workloads[i].pod = AddSpireVolume(@)]

WithTelemetry(d) ==
  patchNetworkPolicyOTelEgress(patchDeploymentWorkflowLabel(patchDeploymentOTelEnv(d)))

WithServices(d, creds, resolved) ==
  IF creds = {} THEN d
  ELSE patchNetworkPolicyExoEgress(
         patchDeploymentAllowNet(
           InjectSecret(enrichContractDeps(d, creds), creds), creds),
         creds, resolved)

ExternalHosts ==
  {h \in {Endpoint(s).host : s \in Services} : h # <<>> /\ ~isInClusterHost(h)}

---------------------------------------------------------------------------
(* ensurePSACompliance and ValidatePSA *)

setIfAbsent(value) == IF value = "absent" THEN "good" ELSE value

MountsTmp(c) == \E m \in Range(c.mounts) : m.path = "/tmp"

\* Mutant: a security context that is there is left as it is.
ensureContainerWhole(c) ==
  LET sc == IF \A f \in DOMAIN c.sc : c.sc[f] = "absent"
            THEN [f \in DOMAIN c.sc |-> "good"] ELSE c.sc IN
  [c EXCEPT !.sc = sc,
            !.mounts = IF sc.roFS = "good" /\ ~MountsTmp(c)
                       THEN Append(@, [volume |-> "tmp", path |-> "/tmp"]) ELSE @]

\* A container with a read-only root gets a /tmp to write to.
ensureContainer(c) ==
  LET sc == [f \in DOMAIN c.sc |-> setIfAbsent(c.sc[f])] IN
  [c EXCEPT !.sc = sc,
            !.mounts = IF sc.roFS = "good" /\ ~MountsTmp(c)
                       THEN Append(@, [volume |-> "tmp", path |-> "/tmp"]) ELSE @]

ensurePodSpecPSA(pod) ==
  LET containers == [i \in DOMAIN pod.containers |-> ensureContainer(pod.containers[i])]
      init == [i \in DOMAIN pod.init |-> ensureContainer(pod.init[i])]
      needsTmp == \E c \in Range(containers) \cup Range(init) : MountsTmp(c)
  IN  [pod EXCEPT !.nonRoot = setIfAbsent(@), !.seccomp = setIfAbsent(@),
                  !.containers = containers, !.init = init,
                  !.volumes = IF needsTmp /\ "tmp" \notin Range(@)
                              THEN Append(@, "tmp") ELSE @]

ensureWorkload(w) == [w EXCEPT !.pod = ensurePodSpecPSA(@)]

\* Deployments, Jobs and CronJobs alike.
ensurePSACompliance(d) ==
  [d EXCEPT !.workloads = [i \in DOMAIN @ |-> ensureWorkload(@[i])]]

\* validatePodSpec: the pod's value will do for runAsNonRoot and seccompProfile.
ValidContainer(pod, c) ==
  /\ pod.nonRoot = "good" \/ c.sc.nonRoot = "good"
  /\ c.sc.ape = "good"
  /\ c.sc.drop = "good"
  /\ pod.seccomp = "good" \/ c.sc.seccomp = "good"

AllContainers(pod) == Range(pod.containers) \cup Range(pod.init)

\* Every level but privileged is held to the rules of restricted.
ValidatePSA(d) ==
  level # "privileged" =>
    \A w \in Range(d.workloads) : \A c \in AllContainers(w.pod) : ValidContainer(w.pod, c)

---------------------------------------------------------------------------
(* wf_apply *)

Init ==
  /\ pc = "idle"
  /\ config \in Configs
  /\ level \in Levels
  /\ submitted = None /\ doc = None
  /\ reached = {} /\ known = {}
  /\ applies = 0

Receive(s) ==
  /\ applies < MaxApplies
  /\ applies' = applies + 1
  /\ submitted' = s
  /\ doc' = s.doc
  /\ reached' = {}
  /\ pc' = "submitted"
  /\ UNCHANGED <<config, level, known>>

Submit(s) ==
  /\ pc \in {"idle", "applied", "refused", "failed"}
  /\ Receive(s)

\* The manifests as a client reads them back: all numbers come from JSON.
ReadRule(rule) == [rule EXCEPT !.json = TRUE]
ReadPolicy(policy) == [policy EXCEPT !.egress = [r \in DOMAIN @ |-> ReadRule(@[r])]]
ReadBack(d) == [d EXCEPT !.policies = [i \in DOMAIN @ |-> ReadPolicy(@[i])]]

Resubmit ==
  /\ pc = "applied"
  /\ Receive([submitted EXCEPT !.doc = ReadBack(doc)])

Disabled ==
  /\ pc = "submitted"
  /\ ~config.enabled
  /\ pc' = "processed"
  /\ UNCHANGED <<config, level, submitted, doc, reached, known, applies>>

\* No dependencies: telemetry only.
ProcessPlain ==
  /\ pc = "submitted"
  /\ config.enabled
  /\ detectExoDeps(doc) = {}
  /\ doc' = WithTelemetry(doc)
  /\ pc' = "processed"
  /\ UNCHANGED <<config, level, submitted, reached, known, applies>>

\* The services are registered with; resolved is what DNS answers, and spireOk
\* whether the ClusterSPIFFEID could be written.
ProcessServices ==
  LET creds == Known(detectExoDeps(doc)) IN
  /\ pc = "submitted"
  /\ config.enabled
  /\ detectExoDeps(doc) # {}
  /\ ValidTentacle(submitted.tentacle)
  /\ creds \subseteq config.services
  /\ \E resolved \in SUBSET ExternalHosts, spireOk \in BOOLEAN :
       LET d == WithServices(WithTelemetry(doc), creds, resolved) IN
       /\ doc' = IF config.spire /\ spireOk THEN patchDeploymentSpireVolume(d) ELSE d
       /\ reached' = resolved
  /\ pc' = "processed"
  /\ UNCHANGED <<config, level, submitted, known, applies>>

\* A service is not configured or a registration fails.
ProcessFail ==
  /\ pc = "submitted"
  /\ config.enabled
  /\ detectExoDeps(doc) # {}
  /\ pc' = "failed"
  /\ UNCHANGED <<config, level, submitted, doc, reached, known, applies>>

\* handleWorkflowApply, up to the first write: the manifests are completed and
\* validated against the namespace's level.
Apply ==
  LET d == ensurePSACompliance(doc) IN
  /\ pc = "processed"
  /\ doc' = d
  /\ pc' = IF ValidatePSA(d) THEN "applied" ELSE "refused"
  /\ known' = IF ValidatePSA(d) THEN known \cup {submitted.tentacle} ELSE known
  /\ UNCHANGED <<config, level, submitted, reached, applies>>

Next ==
  \/ \E s \in Submissions : Submit(s)
  \/ Resubmit
  \/ Disabled \/ ProcessPlain \/ ProcessServices \/ ProcessFail
  \/ Apply

Spec == Init /\ [][Next]_vars

---------------------------------------------------------------------------
(* Properties *)

Settled == pc = "applied"
Before == submitted.doc

\* Every service a workflow was registered with can be used by it: the contract
\* names its address, the Secret has its credentials, the runtime of the first
\* Deployment that has the flag allows the connection, and so does the workflow's
\* own NetworkPolicy once DNS has answered.  Five functions have to agree.
RegisteredIsReachable ==
  Settled /\ config.enabled =>
    \A s \in Known(detectExoDeps(Before)) :
      LET flagged == {i \in Deployments(doc) : HasNetFlag(Main(doc.workloads[i]))}
          e == Endpoint(s) IN
      /\ s \in doc.secret
      /\ Before.contract[s] # "odd" => doc.contract[s] = "filled"
      /\ e.port # 0 /\ flagged # {} =>
           e \in AllowedHosts(Main(doc.workloads[First(flagged)]))
      /\ e.port # 0 /\ OwnPolicies(doc) # {}
           /\ (isInClusterHost(e.host) \/ e.host \in reached) =>
           EgressRule(e) \in Range(doc.policies[First(OwnPolicies(doc))].egress)

\* Telemetry reaches the collector whatever rules the user's NetworkPolicy has:
\* "unconditional - observability is a platform feature".
CollectorReachable ==
  Settled /\ config.enabled /\ Deployments(doc) # {} =>
    /\ HasNetFlag(Main(doc.workloads[First(Deployments(doc))])) =>
         Collector \in AllowedHosts(Main(doc.workloads[First(Deployments(doc))]))
    /\ OwnPolicies(doc) # {} =>
         \E r \in Range(doc.policies[First(OwnPolicies(doc))].egress) :
           r.to = CollectorRule.to /\ Collector.port \in r.ports

\* Nothing else is opened: other NetworkPolicies stay as they were, and rules and
\* hosts that are new are those of the collector and of the contract's services.
NothingElseOpened ==
  Settled =>
    LET granted == {Collector} \cup Endpoints(Known(detectExoDeps(Before))) IN
    /\ \A i \in DOMAIN doc.policies :
         LET new == Range(doc.policies[i].egress) \ Range(Before.policies[i].egress) IN
         IF Before.policies[i].own
         THEN new \subseteq {CollectorRule} \cup {EgressRule(e) : e \in granted}
         ELSE new = {}
    /\ \A i \in DOMAIN doc.workloads :
         AllowedHosts(Main(doc.workloads[i])) \ AllowedHosts(Main(Before.workloads[i]))
           \subseteq granted

\* A pod that is applied can be created: its volumes have different names, every
\* mount has its volume, and no container mounts two volumes at one path.
MountsWork ==
  Settled =>
    \A w \in Range(doc.workloads) :
      /\ \A i, j \in DOMAIN w.pod.volumes : w.pod.volumes[i] = w.pod.volumes[j] => i = j
      /\ \A c \in AllContainers(w.pod) :
           /\ \A m \in Range(c.mounts) : m.volume \in Range(w.pod.volumes)
           /\ \A i, j \in DOMAIN c.mounts : c.mounts[i].path = c.mounts[j].path => i = j
           /\ c.sc.roFS = "good" => MountsTmp(c)

\* wf_apply refuses manifests only for values the user has set himself, never for
\* what it should have filled in ("Required fields are added only when absent").
RefusedOnlyForOwnValues ==
  pc = "refused" =>
    \E w \in Range(Before.workloads) : \E c \in AllContainers(w.pod) :
      \E f \in DOMAIN c.sc : c.sc[f] \in {"null", "bad"}

\* The names given to tentacles keep them apart: S3 prefixes, NATS users and
\* principals in any case, NATS subjects unless the name of the workflow has a dot,
\* database roles and storage accounts within an enclave and for DNS labels.
NamesKeepApart ==
  \A s, t \in known :
    /\ s # t =>
         /\ Disjoint(s, t)
         /\ "." \notin Range(t.workflow) => SubjectsApart(s, t)
         /\ /\ s.namespace = t.namespace
            /\ IsDnsLabel(s.workflow) /\ IsDnsLabel(t.workflow)
            => DifferentAccounts(s, t)
    /\ s.namespace # t.namespace => DifferentEnclaves(s.namespace, t.namespace)
=============================================================================
