---------------------------- MODULE MCManifests ----------------------------
EXTENDS Manifests

MCUrls ==
  [postgres |-> [scheme |-> "", port |-> 5432,
                 host |-> <<"pg", "exoskeleton", "svc", "cluster", "local">>],
   nats |-> [scheme |-> "nats", port |-> 0, host |-> <<"nats", "exoskeleton", "svc">>],
   rustfs |-> [scheme |-> "https", port |-> 0, host |-> <<"s3", "example", "com">>]]

MCText == STRING

MCConfigs ==
  {[enabled |-> FALSE, services |-> {}, spire |-> FALSE],
   [enabled |-> TRUE, services |-> Services, spire |-> TRUE],
   [enabled |-> TRUE, services |-> {"nats"}, spire |-> FALSE]}

Unset == [f \in Fields |-> "absent"]
NoFlags == [net |-> None, env |-> None]
NetFlag == [net |-> <<>>, env |-> <<"HOME">>]
OwnHost == [host |-> <<"api", "example", "com">>, port |-> 443]

Container(sc, mounts) ==
  [sc |-> sc, mounts |-> mounts, args |-> NetFlag, command |-> NoFlags]

Workload(kind, nonRoot, seccomp, volumes, containers, init) ==
  [kind |-> kind, labelled |-> FALSE,
   pod |-> [nonRoot |-> nonRoot, seccomp |-> seccomp, volumes |-> volumes,
            containers |-> containers, init |-> init]]

Doc(workloads, policies, contract) ==
  [workloads |-> workloads, policies |-> policies, contract |-> contract, secret |-> {}]

Plain == Container(Unset, <<>>)
Basic == Workload("Deployment", "absent", "absent", <<>>, <<Plain>>, <<>>)
Empty == [s \in {} |-> "plain"]
On(S) == [s \in S |-> "plain"]

\* Security contexts with up to two fields set, of a container or an init container.
Contexts ==
  {[Unset EXCEPT ![f] = v, ![g] = w] :
     f \in Fields, g \in Fields, v \in {"absent", "null", "good", "bad"},
     w \in {"good", "bad"}}
Secured ==
  {Doc(<<Workload("Deployment", p[1], p[2], <<>>, <<Plain>>, <<Container(sc, <<>>)>>)>>,
       <<>>, Empty) : sc \in Contexts, p \in {<<"absent", "absent">>, <<"bad", "null">>}}
  \cup
  {Doc(<<Workload("Job", "absent", "bad", <<>>, <<Container(sc, <<>>)>>, <<>>)>>,
       <<>>, Empty) : sc \in Contexts}

\* Volumes and mounts of the user's own.
Volumes ==
  {Doc(<<Workload("Deployment", "absent", "absent", v[1],
                  <<Container([Unset EXCEPT !.roFS = r], v[2])>>, <<Plain>>)>>,
       <<>>, On({"nats"})) :
     r \in {"absent", "bad"},
     v \in {<< <<"tmp">>, <<[volume |-> "tmp", path |-> "/tmp"]>> >>,
            << <<"tmp">>, <<[volume |-> "tmp", path |-> "/data"]>> >>,
            << <<"scratch">>, <<[volume |-> "scratch", path |-> "/tmp"]>> >>,
            << <<"tmp", "scratch">>, <<[volume |-> "scratch", path |-> "/tmp"]>> >>,
            << <<SpireVolume>>, <<>> >>}}

\* Flags, NetworkPolicies and contracts.
Flagged ==
  {<<NetFlag, NoFlags>>, <<NoFlags, NetFlag>>, <<NoFlags, NoFlags>>,
   <<[net |-> <<OwnHost>>, env |-> <<"OTEL_DENO">>], [net |-> <<>>, env |-> <<>>]>>}
OwnRule == [to |-> <<"my-collector">>, ports |-> {4318}, json |-> TRUE]
Policy(own, egress) == [own |-> own, egress |-> egress]
Networks ==
  {Doc(ws, ps, ct) :
     ws \in {<<[Basic EXCEPT !.pod.containers[1] =
                  [Plain EXCEPT !.args = fl[1], !.command = fl[2]]], Basic>> : fl \in Flagged}
            \cup {<<Workload("Job", "absent", "absent", <<>>, <<Plain>>, <<>>), Basic>>},
     ps \in {<<>>, <<Policy(TRUE, <<>>)>>, <<Policy(TRUE, <<OwnRule>>)>>,
             <<Policy(FALSE, <<>>)>>, <<Policy(FALSE, <<OwnRule>>), Policy(TRUE, <<>>)>>},
     ct \in {Empty, On({"postgres", "nats"}), On({"rustfs"}), On({"unknown"}),
             [postgres |-> "odd", rustfs |-> "plain"]}}

Labels == {<<"a">>, <<"b">>, <<"a", "-", "b">>, <<"b", "-", "a">>,
           <<"a", "a", "a", "a", "b">>, <<"a", "a", "a", "a", "a">>}
Workflows == Labels \cup {<<"A">>, <<"a", "_", "b">>, <<"a", ".", "b">>}
Home == [namespace |-> <<"a">>, workflow |-> <<"b">>]

MCSubmissions ==
  {[tentacle |-> Home, doc |-> d] : d \in Secured \cup Volumes \cup Networks}
  \cup
  {[tentacle |-> [namespace |-> n, workflow |-> w], doc |-> Doc(<<Basic>>, <<>>, Empty)] :
     n \in Labels, w \in Workflows}
=============================================================================
