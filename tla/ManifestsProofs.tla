-------------------------- MODULE ManifestsProofs --------------------------
(***************************************************************************)
(* Proofs about Manifests and Identity, for any manifests, configuration,  *)
(* policy level and number of calls: what wf_apply opens in them, whether  *)
(* the services it registered are reachable, that the pods it applies can  *)
(* be created, what it refuses, and that no two tentacles share a name.    *)
(*                                                                         *)
(* The argument: every patch is an edit that only adds (Grows) and leaves  *)
(* the security contexts or the volumes alone (ContextsKept, VolumesKept); *)
(* these relations compose, and each patch adds to them what it is for.    *)
(* Because the patches start from a submission of any shape, also one read *)
(* back from an earlier call, the invariant is about a single call.        *)
(***************************************************************************)
EXTENDS Manifests, FiniteSetTheorems, TLAPS

---------------------------------------------------------------------------
(* Sequences and sets *)

\* SetToSeq lists the elements of a finite set.
LEMMA SetToSeqRange ==
  ASSUME NEW S, IsFiniteSet(S)
  PROVE  SetToSeq(S) \in Seq(S) /\ Range(SetToSeq(S)) = S
<1> DEFINE n == Cardinality(S)
           f == SetToSeq(S)
<1>1. n \in Nat /\ ExistsBijection(1 .. n, S)
  BY FS_CardinalityType
<1>2. \E g \in [1 .. n -> S] : IsInjective(g)
  BY <1>1 DEF ExistsBijection, Bijection, Injection
<1>3. f \in [1 .. n -> S] /\ IsInjective(f)
  BY <1>2 DEF SetToSeq
<1>4. f \in Injection(1 .. n, S)
  BY <1>3 DEF Injection
<1>5. Cardinality(1 .. n) = n
  BY <1>1, FS_Interval
<1>6. f \in Surjection(1 .. n, S)
  BY <1>4, <1>5, FS_Injection
<1>7. f \in Seq(S)
  BY <1>1, <1>3
<1>8. Range(f) = S
  BY <1>3, <1>6 DEF Range, Surjection
<1> QED BY <1>7, <1>8

\* A set of positions that is not empty has a first one.
LEMMA FirstOf ==
  ASSUME NEW S \in SUBSET Nat, S # {}
  PROVE  First(S) \in S
<1> DEFINE R == OpToRel(<, Nat)
<1>1. PICK x \in S : \A y \in S : ~(<<y, x>> \in R)
  <2>1. IsWellFoundedOn(R, Nat)
    BY NatLessThanWellFounded, Zenon
  <2> HIDE DEF R
  <2> QED BY <2>1, WFMin
<1>2. \A y \in S : ~(y < x)
  <2> TAKE y \in S
  <2>1. <<y, x>> \in R <=> y < x
    BY DEF OpToRel
  <2> QED BY <1>1, <2>1
<1>3. \A y \in S : x <= y
  BY <1>2
<1> QED BY <1>3 DEF First

LEMMA AppendRange ==
  ASSUME NEW T, NEW s \in Seq(T), NEW e \in T
  PROVE  /\ Append(s, e) \in Seq(T)
         /\ Range(Append(s, e)) = Range(s) \cup {e}
<1>1. Append(s, e) \in Seq(T) /\ Len(Append(s, e)) = Len(s) + 1
  OBVIOUS
<1>2. ASSUME NEW x \in Range(Append(s, e)) PROVE x \in Range(s) \cup {e}
  <2>1. PICK i \in 1 .. Len(s) + 1 : x = Append(s, e)[i]
    BY <1>1, <1>2 DEF Range
  <2> QED BY <2>1 DEF Range
<1>3. ASSUME NEW x \in Range(s) PROVE x \in Range(Append(s, e))
  <2>1. PICK i \in 1 .. Len(s) : x = s[i]
    BY <1>3 DEF Range
  <2>2. Append(s, e)[i] = x /\ i \in DOMAIN Append(s, e)
    BY <2>1
  <2> QED BY <2>2 DEF Range
<1>4. e \in Range(Append(s, e))
  <2>1. Append(s, e)[Len(s) + 1] = e /\ Len(s) + 1 \in DOMAIN Append(s, e)
    OBVIOUS
  <2> QED BY <2>1 DEF Range
<1> QED BY <1>1, <1>2, <1>3, <1>4

LEMMA ConcatRange ==
  ASSUME NEW T, NEW s \in Seq(T), NEW t \in Seq(T)
  PROVE  /\ s \o t \in Seq(T)
         /\ Range(s \o t) = Range(s) \cup Range(t)
<1>1. s \o t \in Seq(T) /\ Len(s \o t) = Len(s) + Len(t)
  OBVIOUS
<1>2. ASSUME NEW x \in Range(s \o t) PROVE x \in Range(s) \cup Range(t)
  <2>1. PICK i \in 1 .. Len(s) + Len(t) : x = (s \o t)[i]
    BY <1>1, <1>2 DEF Range
  <2>2. CASE i <= Len(s)
    BY <2>1, <2>2 DEF Range
  <2>3. CASE i > Len(s)
    <3>1. i - Len(s) \in DOMAIN t /\ x = t[i - Len(s)]
      BY <2>1, <2>3
    <3> QED BY <3>1 DEF Range
  <2> QED BY <2>1, <2>2, <2>3
<1>3. ASSUME NEW x \in Range(s) PROVE x \in Range(s \o t)
  <2>1. PICK i \in 1 .. Len(s) : x = s[i]
    BY <1>3 DEF Range
  <2>2. (s \o t)[i] = x /\ i \in DOMAIN (s \o t)
    BY <2>1
  <2> QED BY <2>2 DEF Range
<1>4. ASSUME NEW x \in Range(t) PROVE x \in Range(s \o t)
  <2>1. PICK i \in 1 .. Len(t) : x = t[i]
    BY <1>4 DEF Range
  <2>2. (s \o t)[i + Len(s)] = x /\ i + Len(s) \in DOMAIN (s \o t)
    BY <2>1
  <2> QED BY <2>2 DEF Range
<1> QED BY <1>1, <1>2, <1>3, <1>4

\* Adding the elements of a set to a list.
LEMMA AddRange ==
  ASSUME NEW T, NEW s \in Seq(T), NEW S \in SUBSET T, IsFiniteSet(S)
  PROVE  /\ s \o SetToSeq(S) \in Seq(T)
         /\ Range(s \o SetToSeq(S)) = Range(s) \cup S
<1>1. SetToSeq(S) \in Seq(S) /\ Range(SetToSeq(S)) = S
  BY SetToSeqRange
<1>2. SetToSeq(S) \in Seq(T)
  BY <1>1
<1> QED BY <1>1, <1>2, ConcatRange

\* Three values make a finite set.
LEMMA ThreeFinite ==
  ASSUME NEW a, NEW b, NEW c, NEW S \in SUBSET {a, b, c}
  PROVE  IsFiniteSet(S)
<1>1. IsFiniteSet({} \cup {a})
  BY FS_EmptySet, FS_AddElement
<1>2. IsFiniteSet({} \cup {a} \cup {b})
  BY <1>1, FS_AddElement
<1>3. IsFiniteSet({} \cup {a} \cup {b} \cup {c})
  BY <1>2, FS_AddElement
<1>4. {} \cup {a} \cup {b} \cup {c} = {a, b, c}
  OBVIOUS
<1> QED BY <1>3, <1>4, FS_Subset

---------------------------------------------------------------------------
(* Containers *)

\* What the patches of the flags leave alone.
SameButHosts(b, c) ==
  /\ c.sc = b.sc /\ c.mounts = b.mounts
  /\ HasNetFlag(c) = HasNetFlag(b)

\* patchAllowNet opens the hosts it is given, where the flag is, and no others.
LEMMA AllowNetOpens ==
  ASSUME NEW c \in Containers, NEW hosts \in SUBSET Hosts, IsFiniteSet(hosts)
  PROVE  /\ patchAllowNet(c, hosts) \in Containers
         /\ SameButHosts(c, patchAllowNet(c, hosts))
         /\ AllowedHosts(patchAllowNet(c, hosts)) =
              AllowedHosts(c) \cup (IF HasNetFlag(c) THEN hosts ELSE {})
<1>1. /\ c.args \in Flags /\ c.command \in Flags
      /\ c.sc \in [Fields -> Values] /\ c.mounts \in Seq(Mounts)
  BY DEF Containers
<1>2. None \notin Seq(Hosts)
  BY SubmissionsAssumption
<1>3. ASSUME NEW f \in Flags, f.net # None
      PROVE  /\ AppendHosts(f, hosts) \in Flags
             /\ AppendHosts(f, hosts).net # None
             /\ Range(AppendHosts(f, hosts).net) = Range(f.net) \cup hosts
  <2>1. f.net \in Seq(Hosts)
    BY <1>3 DEF Flags
  <2>2. /\ f.net \o SetToSeq(hosts) \in Seq(Hosts)
        /\ Range(f.net \o SetToSeq(hosts)) = Range(f.net) \cup hosts
    BY <2>1, AddRange
  <2>3. AppendHosts(f, hosts).net = f.net \o SetToSeq(hosts)
    BY DEF AppendHosts, Flags
  <2>4. AppendHosts(f, hosts) \in Flags
    BY <2>2 DEF AppendHosts, Flags
  <2> QED BY <1>2, <2>2, <2>3, <2>4
<1>4. CASE c.args.net # None
  <2> DEFINE e == [c EXCEPT !.args = AppendHosts(c.args, hosts)]
  <2>1. patchAllowNet(c, hosts) = e
    BY <1>4 DEF patchAllowNet
  <2>2. /\ e \in Containers /\ e.args = AppendHosts(c.args, hosts)
        /\ e.sc = c.sc /\ e.mounts = c.mounts /\ e.command = c.command
    BY <1>1, <1>3, <1>4 DEF Containers
  <2> QED BY <1>1, <1>3, <1>4, <2>1, <2>2 DEF SameButHosts, HasNetFlag, AllowedHosts
<1>5. CASE c.args.net = None /\ c.command.net # None
  <2> DEFINE e == [c EXCEPT !.command = AppendHosts(c.command, hosts)]
  <2>1. patchAllowNet(c, hosts) = e
    BY <1>5 DEF patchAllowNet
  <2>2. /\ e \in Containers /\ e.command = AppendHosts(c.command, hosts)
        /\ e.sc = c.sc /\ e.mounts = c.mounts /\ e.args = c.args
    BY <1>1, <1>3, <1>5 DEF Containers
  <2> QED BY <1>1, <1>3, <1>5, <2>1, <2>2 DEF SameButHosts, HasNetFlag, AllowedHosts
<1>6. CASE c.args.net = None /\ c.command.net = None
  BY <1>6 DEF patchAllowNet, SameButHosts, HasNetFlag
<1> QED BY <1>4, <1>5, <1>6

\* patchAllowEnv opens nothing.
LEMMA AllowEnvOpens ==
  ASSUME NEW c \in Containers
  PROVE  /\ patchAllowEnv(c) \in Containers
         /\ SameButHosts(c, patchAllowEnv(c))
         /\ AllowedHosts(patchAllowEnv(c)) = AllowedHosts(c)
<1>1. /\ c.args \in Flags /\ c.command \in Flags
      /\ c.sc \in [Fields -> Values] /\ c.mounts \in Seq(Mounts)
  BY DEF Containers
<1>2. ASSUME NEW f \in Flags, Patchable(f)
      PROVE  AppendVars(f) \in Flags /\ AppendVars(f).net = f.net
  <2>1. f.env \in Seq(Text)
    BY <1>2 DEF Flags, Patchable
  <2>2. OtelVars \in SUBSET Text
    BY SubmissionsAssumption DEF OtelVars
  <2>3. IsFiniteSet(MissingVars(f))
    BY ThreeFinite DEF MissingVars, OtelVars
  <2>4. f.env \o SetToSeq(MissingVars(f)) \in Seq(Text)
    BY <2>1, <2>2, <2>3, AddRange DEF MissingVars
  <2> QED BY <2>4 DEF AppendVars, Flags
<1>3. CASE Patchable(c.args)
  <2> DEFINE e == [c EXCEPT !.args = AppendVars(c.args)]
  <2>1. patchAllowEnv(c) = e
    BY <1>3 DEF patchAllowEnv
  <2>2. /\ e \in Containers /\ e.args = AppendVars(c.args)
        /\ e.sc = c.sc /\ e.mounts = c.mounts /\ e.command = c.command
    BY <1>1, <1>2, <1>3 DEF Containers
  <2> QED BY <1>1, <1>2, <1>3, <2>1, <2>2 DEF SameButHosts, HasNetFlag, AllowedHosts
<1>4. CASE ~Patchable(c.args) /\ Patchable(c.command)
  <2> DEFINE e == [c EXCEPT !.command = AppendVars(c.command)]
  <2>1. patchAllowEnv(c) = e
    BY <1>4 DEF patchAllowEnv
  <2>2. /\ e \in Containers /\ e.command = AppendVars(c.command)
        /\ e.sc = c.sc /\ e.mounts = c.mounts /\ e.args = c.args
    BY <1>1, <1>2, <1>4 DEF Containers
  <2> QED BY <1>1, <1>2, <1>4, <2>1, <2>2 DEF SameButHosts, HasNetFlag, AllowedHosts
<1>5. CASE ~Patchable(c.args) /\ ~Patchable(c.command)
  BY <1>5 DEF patchAllowEnv, SameButHosts
<1> QED BY <1>3, <1>4, <1>5

---------------------------------------------------------------------------
(* Edits of the manifests *)

\* The parts of the manifests.
LEMMA DocParts ==
  ASSUME NEW d \in Docs
  PROVE  /\ d.workloads \in Seq(Workloads) /\ d.policies \in Seq(Policies)
         /\ d.contract \in Contracts /\ d.secret \in SUBSET Services
         /\ \A i \in DOMAIN d.workloads :
              d.workloads[i] \in Workloads /\ d.workloads[i].pod \in Pods
         /\ \A i \in DOMAIN d.policies :
              d.policies[i] \in Policies /\ d.policies[i].egress \in Seq(Rules)
         /\ Deployments(d) \in SUBSET (DOMAIN d.workloads)
         /\ OwnPolicies(d) \in SUBSET (DOMAIN d.policies)
         /\ DOMAIN d.workloads \in SUBSET Nat /\ DOMAIN d.policies \in SUBSET Nat
<1>1. /\ d.workloads \in Seq(Workloads) /\ d.policies \in Seq(Policies)
      /\ d.contract \in Contracts /\ d.secret \in SUBSET Services
  BY DEF Docs
<1>2. \A i \in DOMAIN d.workloads : d.workloads[i] \in Workloads
  BY <1>1
<1>3. \A i \in DOMAIN d.policies : d.policies[i] \in Policies
  BY <1>1
<1>4. DOMAIN d.workloads \in SUBSET Nat /\ DOMAIN d.policies \in SUBSET Nat
  BY <1>1
<1> QED BY <1>1, <1>2, <1>3, <1>4 DEF Workloads, Policies, Deployments, OwnPolicies

LEMMA PodParts ==
  ASSUME NEW p \in Pods
  PROVE  /\ p.containers \in Seq(Containers) /\ p.init \in Seq(Containers)
         /\ p.containers # <<>> /\ 1 \in DOMAIN p.containers
         /\ \A k \in DOMAIN p.containers : p.containers[k] \in Containers
         /\ \A k \in DOMAIN p.init : p.init[k] \in Containers
         /\ p.volumes \in Seq(Text) /\ p.nonRoot \in Values /\ p.seccomp \in Values
<1>1. /\ p.containers \in Seq(Containers) /\ p.init \in Seq(Containers)
      /\ p.containers # <<>>
      /\ p.volumes \in Seq(Text) /\ p.nonRoot \in Values /\ p.seccomp \in Values
  BY DEF Pods
<1>2. 1 \in DOMAIN p.containers
  BY <1>1
<1>3. \A k \in DOMAIN p.containers : p.containers[k] \in Containers
  BY <1>1
<1>4. \A k \in DOMAIN p.init : p.init[k] \in Containers
  BY <1>1
<1> QED BY <1>1, <1>2, <1>3, <1>4

\* A workload is replaced.
LEMMA SetWorkload ==
  ASSUME NEW d \in Docs, NEW i \in DOMAIN d.workloads, NEW w \in Workloads
  PROVE  LET e == [d EXCEPT !.workloads = [d.workloads EXCEPT ![i] = w]] IN
         /\ e \in Docs
         /\ e.policies = d.policies /\ e.contract = d.contract /\ e.secret = d.secret
         /\ DOMAIN e.workloads = DOMAIN d.workloads
         /\ e.workloads[i] = w
         /\ \A j \in DOMAIN d.workloads \ {i} : e.workloads[j] = d.workloads[j]
<1>1. d.workloads \in Seq(Workloads)
  BY DocParts
<1>2. [d.workloads EXCEPT ![i] = w] \in Seq(Workloads)
  BY <1>1
<1> QED BY <1>1, <1>2 DEF Docs

\* The first container of a pod is replaced.
LEMMA SetFirst ==
  ASSUME NEW p \in Pods, NEW c \in Containers
  PROVE  LET q == [p EXCEPT !.containers = [p.containers EXCEPT ![1] = c]] IN
         /\ q \in Pods
         /\ q.nonRoot = p.nonRoot /\ q.seccomp = p.seccomp
         /\ q.volumes = p.volumes /\ q.init = p.init
         /\ DOMAIN q.containers = DOMAIN p.containers
         /\ q.containers[1] = c
         /\ \A k \in DOMAIN p.containers \ {1} : q.containers[k] = p.containers[k]
<1>1. p.containers \in Seq(Containers) /\ 1 \in DOMAIN p.containers
  BY PodParts
<1>2. /\ [p.containers EXCEPT ![1] = c] \in Seq(Containers)
      /\ 1 \in DOMAIN [p.containers EXCEPT ![1] = c]
  BY <1>1
<1>3. [p.containers EXCEPT ![1] = c] # <<>>
  BY <1>2
<1> QED BY <1>1, <1>2, <1>3 DEF Pods

\* The rules of a NetworkPolicy are replaced.
EgressSet(d, e, i, s) ==
  /\ e \in Docs
  /\ e.workloads = d.workloads /\ e.contract = d.contract /\ e.secret = d.secret
  /\ DOMAIN e.policies = DOMAIN d.policies
  /\ e.policies[i].own = d.policies[i].own /\ e.policies[i].egress = s
  /\ \A j \in DOMAIN d.policies \ {i} : e.policies[j] = d.policies[j]

LEMMA SetEgress ==
  ASSUME NEW d \in Docs, NEW i \in DOMAIN d.policies, NEW s \in Seq(Rules)
  PROVE  EgressSet(d, [d EXCEPT !.policies[i].egress = s], i, s)
<1> DEFINE p == [d.policies[i] EXCEPT !.egress = s]
           ps == [d.policies EXCEPT ![i] = p]
<1>1. d.policies \in Seq(Policies) /\ d.policies[i] \in Policies
  BY DocParts
<1>2. p \in Policies /\ p.own = d.policies[i].own /\ p.egress = s
  BY <1>1 DEF Policies
<1> HIDE DEF p
<1>3. /\ ps \in Seq(Policies) /\ DOMAIN ps = DOMAIN d.policies /\ ps[i] = p
      /\ \A j \in DOMAIN d.policies \ {i} : ps[j] = d.policies[j]
  BY <1>1, <1>2
<1>4. [d EXCEPT !.policies[i].egress = s] = [d EXCEPT !.policies = ps]
  BY DEF p
<1> HIDE DEF ps
<1>5. LET e == [d EXCEPT !.policies = ps] IN
      /\ e \in Docs /\ e.policies = ps
      /\ e.workloads = d.workloads /\ e.contract = d.contract /\ e.secret = d.secret
  BY <1>3 DEF Docs
<1> QED BY <1>2, <1>3, <1>4, <1>5 DEF EgressSet

---------------------------------------------------------------------------
(* What an edit may change *)

\* No more is opened than hosts in H and, in the workflow's own policies, rules
\* in R, and nothing is closed.
Grows(b, d, H, R) ==
  /\ DOMAIN d.workloads = DOMAIN b.workloads
  /\ \A i \in DOMAIN b.workloads :
       /\ IsDeployment(d.workloads[i]) <=> IsDeployment(b.workloads[i])
       /\ HasNetFlag(Main(d.workloads[i])) <=> HasNetFlag(Main(b.workloads[i]))
       /\ AllowedHosts(Main(b.workloads[i])) \subseteq AllowedHosts(Main(d.workloads[i]))
       /\ AllowedHosts(Main(d.workloads[i])) \subseteq
            AllowedHosts(Main(b.workloads[i])) \cup H
  /\ DOMAIN d.policies = DOMAIN b.policies
  /\ \A i \in DOMAIN b.policies :
       /\ d.policies[i].own = b.policies[i].own
       /\ Range(b.policies[i].egress) \subseteq Range(d.policies[i].egress)
       /\ Range(d.policies[i].egress) \subseteq
            Range(b.policies[i].egress) \cup (IF b.policies[i].own THEN R ELSE {})

SamePlaces(p, q) ==
  DOMAIN q.containers = DOMAIN p.containers /\ DOMAIN q.init = DOMAIN p.init

\* The security contexts stay as they are.
ContextsKept(b, d) ==
  /\ DOMAIN d.workloads = DOMAIN b.workloads
  /\ \A i \in DOMAIN b.workloads :
       LET p == b.workloads[i].pod  q == d.workloads[i].pod IN
       /\ SamePlaces(p, q)
       /\ q.nonRoot = p.nonRoot /\ q.seccomp = p.seccomp
       /\ \A k \in DOMAIN p.containers : q.containers[k].sc = p.containers[k].sc
       /\ \A k \in DOMAIN p.init : q.init[k].sc = p.init[k].sc

\* Volumes and mounts stay as they are.
VolumesKept(b, d) ==
  /\ DOMAIN d.workloads = DOMAIN b.workloads
  /\ \A i \in DOMAIN b.workloads :
       LET p == b.workloads[i].pod  q == d.workloads[i].pod IN
       /\ SamePlaces(p, q)
       /\ q.volumes = p.volumes
       /\ \A k \in DOMAIN p.containers : q.containers[k].mounts = p.containers[k].mounts
       /\ \A k \in DOMAIN p.init : q.init[k].mounts = p.init[k].mounts

LEMMA GrowsThen ==
  ASSUME NEW b, NEW c, NEW d, NEW H, NEW R, NEW G, NEW Q,
         G \subseteq H, Q \subseteq R, Grows(b, c, H, R), Grows(c, d, G, Q)
  PROVE  Grows(b, d, H, R)
<1>1. ASSUME NEW i \in DOMAIN b.workloads
      PROVE  /\ IsDeployment(d.workloads[i]) <=> IsDeployment(b.workloads[i])
             /\ HasNetFlag(Main(d.workloads[i])) <=> HasNetFlag(Main(b.workloads[i]))
             /\ AllowedHosts(Main(b.workloads[i])) \subseteq
                  AllowedHosts(Main(d.workloads[i]))
             /\ AllowedHosts(Main(d.workloads[i])) \subseteq
                  AllowedHosts(Main(b.workloads[i])) \cup H
  BY <1>1 DEF Grows
<1>2. ASSUME NEW i \in DOMAIN b.policies
      PROVE  /\ d.policies[i].own = b.policies[i].own
             /\ Range(b.policies[i].egress) \subseteq Range(d.policies[i].egress)
             /\ Range(d.policies[i].egress) \subseteq
                  Range(b.policies[i].egress) \cup (IF b.policies[i].own THEN R ELSE {})
  BY <1>2 DEF Grows
<1>3. DOMAIN d.workloads = DOMAIN b.workloads /\ DOMAIN d.policies = DOMAIN b.policies
  BY DEF Grows
<1> QED BY <1>1, <1>2, <1>3 DEF Grows

LEMMA GrowsNot ==
  ASSUME NEW d, NEW e, NEW H, NEW R, e.workloads = d.workloads, e.policies = d.policies
  PROVE  Grows(d, e, H, R)
  BY DEF Grows

LEMMA KeptThen ==
  ASSUME NEW b, NEW c, NEW d
  PROVE  /\ ContextsKept(b, c) /\ ContextsKept(c, d) => ContextsKept(b, d)
         /\ VolumesKept(b, c) /\ VolumesKept(c, d) => VolumesKept(b, d)
  BY DEF ContextsKept, VolumesKept, SamePlaces

LEMMA KeptAll ==
  ASSUME NEW d, NEW e, e.workloads = d.workloads
  PROVE  ContextsKept(d, e) /\ VolumesKept(d, e)
  BY DEF ContextsKept, VolumesKept, SamePlaces

\* The flags of a first container are patched.
LEMMA MainPatched ==
  ASSUME NEW d \in Docs, NEW i \in DOMAIN d.workloads, NEW c \in Containers, NEW H,
         SameButHosts(Main(d.workloads[i]), c),
         AllowedHosts(Main(d.workloads[i])) \subseteq AllowedHosts(c),
         AllowedHosts(c) \subseteq AllowedHosts(Main(d.workloads[i])) \cup H
  PROVE  LET e == [d EXCEPT !.workloads[i].pod.containers[1] = c] IN
         /\ e \in Docs
         /\ e.policies = d.policies /\ e.contract = d.contract /\ e.secret = d.secret
         /\ Main(e.workloads[i]) = c
         /\ Grows(d, e, H, {})
         /\ ContextsKept(d, e) /\ VolumesKept(d, e)
<1> DEFINE p == d.workloads[i].pod
           q == [p EXCEPT !.containers = [p.containers EXCEPT ![1] = c]]
           w == [d.workloads[i] EXCEPT !.pod = q]
           e == [d EXCEPT !.workloads = [d.workloads EXCEPT ![i] = w]]
<1>1. e = [d EXCEPT !.workloads[i].pod.containers[1] = c]
  OBVIOUS
<1>2. d.workloads[i] \in Workloads /\ p \in Pods
  BY DocParts
<1>3. /\ q \in Pods
      /\ q.nonRoot = p.nonRoot /\ q.seccomp = p.seccomp
      /\ q.volumes = p.volumes /\ q.init = p.init
      /\ DOMAIN q.containers = DOMAIN p.containers
      /\ q.containers[1] = c
      /\ \A k \in DOMAIN p.containers \ {1} : q.containers[k] = p.containers[k]
  <2> HIDE DEF p
  <2> QED BY <1>2, SetFirst
<1> HIDE DEF q
<1>4. w \in Workloads /\ w.pod = q /\ w.kind = d.workloads[i].kind
  BY <1>2, <1>3 DEF Workloads
<1> HIDE DEF w
<1>5. /\ e \in Docs
      /\ e.policies = d.policies /\ e.contract = d.contract /\ e.secret = d.secret
      /\ DOMAIN e.workloads = DOMAIN d.workloads
      /\ e.workloads[i] = w
      /\ \A j \in DOMAIN d.workloads \ {i} : e.workloads[j] = d.workloads[j]
  BY <1>4, SetWorkload
<1> HIDE DEF e
<1>6. Main(e.workloads[i]) = c
  BY <1>3, <1>4, <1>5 DEF Main
<1>7. Grows(d, e, H, {})
  <2>1. ASSUME NEW j \in DOMAIN d.workloads
        PROVE  /\ IsDeployment(e.workloads[j]) <=> IsDeployment(d.workloads[j])
               /\ HasNetFlag(Main(e.workloads[j])) <=> HasNetFlag(Main(d.workloads[j]))
               /\ AllowedHosts(Main(d.workloads[j])) \subseteq
                    AllowedHosts(Main(e.workloads[j]))
               /\ AllowedHosts(Main(e.workloads[j])) \subseteq
                    AllowedHosts(Main(d.workloads[j])) \cup H
    <3>1. CASE j = i
      BY <1>4, <1>5, <1>6, <3>1 DEF IsDeployment, SameButHosts
    <3>2. CASE j # i
      BY <1>5, <3>2
    <3> QED BY <3>1, <3>2
  <2> QED BY <1>5, <2>1 DEF Grows
<1>8. 1 \in DOMAIN p.containers
  BY <1>2, PodParts
<1>9. c.sc = p.containers[1].sc /\ c.mounts = p.containers[1].mounts
  BY DEF SameButHosts, Main
<1>10. ContextsKept(d, e)
  <2>1. ASSUME NEW j \in DOMAIN d.workloads
        PROVE  LET r == d.workloads[j].pod  s == e.workloads[j].pod IN
               /\ SamePlaces(r, s)
               /\ s.nonRoot = r.nonRoot /\ s.seccomp = r.seccomp
               /\ \A k \in DOMAIN r.containers : s.containers[k].sc = r.containers[k].sc
               /\ \A k \in DOMAIN r.init : s.init[k].sc = r.init[k].sc
    <3>1. CASE j = i
      BY <1>3, <1>4, <1>5, <1>9, <3>1 DEF SamePlaces
    <3>2. CASE j # i
      BY <1>5, <3>2 DEF SamePlaces
    <3> QED BY <3>1, <3>2
  <2> QED BY <1>5, <2>1 DEF ContextsKept
<1>11. VolumesKept(d, e)
  <2>1. ASSUME NEW j \in DOMAIN d.workloads
        PROVE  LET r == d.workloads[j].pod  s == e.workloads[j].pod IN
               /\ SamePlaces(r, s)
               /\ s.volumes = r.volumes
               /\ \A k \in DOMAIN r.containers :
                    s.containers[k].mounts = r.containers[k].mounts
               /\ \A k \in DOMAIN r.init : s.init[k].mounts = r.init[k].mounts
    <3>1. CASE j = i
      BY <1>3, <1>4, <1>5, <1>9, <3>1 DEF SamePlaces
    <3>2. CASE j # i
      BY <1>5, <3>2 DEF SamePlaces
    <3> QED BY <3>1, <3>2
  <2> QED BY <1>5, <2>1 DEF VolumesKept
<1> QED BY <1>1, <1>5, <1>6, <1>7, <1>10, <1>11

\* Rules are added to a policy of the workflow's own.
LEMMA EgressPatched ==
  ASSUME NEW d \in Docs, NEW i \in OwnPolicies(d), NEW R, NEW s \in Seq(Rules),
         Range(d.policies[i].egress) \subseteq Range(s),
         Range(s) \subseteq Range(d.policies[i].egress) \cup R
  PROVE  LET e == [d EXCEPT !.policies[i].egress = s] IN
         /\ e \in Docs
         /\ e.workloads = d.workloads /\ e.contract = d.contract /\ e.secret = d.secret
         /\ e.policies[i].egress = s
         /\ Grows(d, e, {}, R)
<1> DEFINE e == [d EXCEPT !.policies[i].egress = s]
<1>1. i \in DOMAIN d.policies /\ d.policies[i].own
  BY DEF OwnPolicies
<1>2. EgressSet(d, e, i, s)
  BY <1>1, SetEgress
<1>3. /\ e \in Docs
      /\ e.workloads = d.workloads /\ e.contract = d.contract /\ e.secret = d.secret
      /\ DOMAIN e.policies = DOMAIN d.policies
      /\ e.policies[i].own = d.policies[i].own /\ e.policies[i].egress = s
      /\ \A j \in DOMAIN d.policies \ {i} : e.policies[j] = d.policies[j]
  <2> HIDE DEF e
  <2> QED BY <1>2 DEF EgressSet
<1> HIDE DEF e
<1>4. ASSUME NEW j \in DOMAIN d.policies
      PROVE  /\ e.policies[j].own = d.policies[j].own
             /\ Range(d.policies[j].egress) \subseteq Range(e.policies[j].egress)
             /\ Range(e.policies[j].egress) \subseteq
                  Range(d.policies[j].egress) \cup (IF d.policies[j].own THEN R ELSE {})
  <2>1. CASE j = i
    BY <1>1, <1>3, <2>1
  <2>2. CASE j # i
    BY <1>3, <2>2
  <2> QED BY <2>1, <2>2
<1>5. Grows(d, e, {}, R)
  BY <1>3, <1>4 DEF Grows
<1> QED BY <1>3, <1>5 DEF e

---------------------------------------------------------------------------
(* The patches of ProcessManifests *)

\* What all of them but that of the SPIRE volume are.
Edit(d, e, H, R) ==
  e \in Docs /\ Grows(d, e, H, R) /\ ContextsKept(d, e) /\ VolumesKept(d, e)

LEMMA EditThen ==
  ASSUME NEW b, NEW c, NEW d, NEW H, NEW R, NEW G, NEW Q,
         G \subseteq H, Q \subseteq R, Edit(b, c, H, R), Edit(c, d, G, Q)
  PROVE  Edit(b, d, H, R)
  BY GrowsThen, KeptThen DEF Edit

LEMMA EditNot ==
  ASSUME NEW d \in Docs, NEW H, NEW R
  PROVE  Edit(d, d, H, R)
  BY GrowsNot, KeptAll DEF Edit

LEMMA CollectorIs ==
  /\ Collector \in Hosts /\ CollectorRule \in Rules
  /\ Collector.port \in CollectorRule.ports
<1>1. <<"otel-collector", "tentacular-observability", "svc", "cluster", "local">>
        \in Seq(Text)
  BY SubmissionsAssumption
<1>2. <<"tentacular-observability">> \in Seq(Text)
  BY SubmissionsAssumption
<1> QED BY <1>1, <1>2 DEF Collector, CollectorRule, CollectorPorts, Hosts, Rules

LEMMA OTelEnvDoes ==
  ASSUME NEW d \in Docs
  PROVE  LET e == patchDeploymentOTelEnv(d) IN
         /\ Edit(d, e, {Collector}, {})
         /\ e.policies = d.policies /\ e.contract = d.contract /\ e.secret = d.secret
         /\ Deployments(d) # {} /\ HasNetFlag(Main(d.workloads[First(Deployments(d))])) =>
              Collector \in AllowedHosts(Main(e.workloads[First(Deployments(d))]))
<1>1. CASE Deployments(d) = {}
  BY <1>1, EditNot DEF patchDeploymentOTelEnv
<1>2. CASE Deployments(d) # {}
  <2> DEFINE i == First(Deployments(d))
             m == Main(d.workloads[i])
             n == patchAllowEnv(m)
             c == patchAllowNet(n, {Collector})
             e == [d EXCEPT !.workloads[i].pod.containers[1] = c]
  <2>1. i \in DOMAIN d.workloads
    BY <1>2, FirstOf, DocParts
  <2>2. patchDeploymentOTelEnv(d) = e
    BY <1>2 DEF patchDeploymentOTelEnv, Main
  <2>3. m \in Containers
    BY <2>1, DocParts, PodParts DEF Main
  <2> HIDE DEF i, m
  <2>4. n \in Containers /\ SameButHosts(m, n) /\ AllowedHosts(n) = AllowedHosts(m)
    BY <2>3, AllowEnvOpens
  <2> HIDE DEF n
  <2>5. IsFiniteSet({Collector}) /\ {Collector} \in SUBSET Hosts
    BY FS_Singleton, CollectorIs
  <2>6. /\ c \in Containers /\ SameButHosts(n, c)
        /\ AllowedHosts(c) =
             AllowedHosts(n) \cup (IF HasNetFlag(n) THEN {Collector} ELSE {})
    BY <2>4, <2>5, AllowNetOpens
  <2> HIDE DEF c
  <2>7. /\ SameButHosts(m, c)
        /\ AllowedHosts(m) \subseteq AllowedHosts(c)
        /\ AllowedHosts(c) \subseteq AllowedHosts(m) \cup {Collector}
        /\ HasNetFlag(m) => Collector \in AllowedHosts(c)
    BY <2>4, <2>6 DEF SameButHosts
  <2>8. /\ e \in Docs
        /\ e.policies = d.policies /\ e.contract = d.contract /\ e.secret = d.secret
        /\ Main(e.workloads[i]) = c
        /\ Grows(d, e, {Collector}, {})
        /\ ContextsKept(d, e) /\ VolumesKept(d, e)
    BY <2>1, <2>6, <2>7, MainPatched DEF m
  <2> QED BY <2>2, <2>7, <2>8 DEF Edit, i, m
<1> QED BY <1>1, <1>2

LEMMA LabelDoes ==
  ASSUME NEW d \in Docs
  PROVE  LET e == patchDeploymentWorkflowLabel(d) IN
         /\ Edit(d, e, {}, {})
         /\ e.policies = d.policies /\ e.contract = d.contract /\ e.secret = d.secret
<1>1. CASE Deployments(d) = {}
  BY <1>1, EditNot DEF patchDeploymentWorkflowLabel
<1>2. CASE Deployments(d) # {}
  <2> DEFINE i == First(Deployments(d))
             w == [d.workloads[i] EXCEPT !.labelled = TRUE]
             e == [d EXCEPT !.workloads = [d.workloads EXCEPT ![i] = w]]
  <2>1. i \in DOMAIN d.workloads
    BY <1>2, FirstOf, DocParts
  <2>2. patchDeploymentWorkflowLabel(d) = e
    BY <1>2 DEF patchDeploymentWorkflowLabel
  <2> HIDE DEF i
  <2>3. /\ w \in Workloads /\ w.kind = d.workloads[i].kind
        /\ w.pod = d.workloads[i].pod
    BY <2>1, DocParts DEF Workloads
  <2> HIDE DEF w
  <2>4. /\ e \in Docs
        /\ e.policies = d.policies /\ e.contract = d.contract /\ e.secret = d.secret
        /\ DOMAIN e.workloads = DOMAIN d.workloads
        /\ e.workloads[i] = w
        /\ \A j \in DOMAIN d.workloads \ {i} : e.workloads[j] = d.workloads[j]
    BY <2>1, <2>3, SetWorkload
  <2> HIDE DEF e
  <2>5. \A j \in DOMAIN d.workloads : /\ e.workloads[j].kind = d.workloads[j].kind
                                      /\ e.workloads[j].pod = d.workloads[j].pod
    BY <2>3, <2>4
  <2>6. Grows(d, e, {}, {})
    BY <2>4, <2>5 DEF Grows, IsDeployment, Main
  <2>7. ContextsKept(d, e) /\ VolumesKept(d, e)
    BY <2>4, <2>5 DEF ContextsKept, VolumesKept, SamePlaces
  <2> QED BY <2>2, <2>4, <2>6, <2>7 DEF Edit
<1> QED BY <1>1, <1>2

LEMMA OTelEgressDoes ==
  ASSUME NEW d \in Docs
  PROVE  LET e == patchNetworkPolicyOTelEgress(d) IN
         /\ Edit(d, e, {}, {CollectorRule})
         /\ e.contract = d.contract /\ e.secret = d.secret
         /\ e.workloads = d.workloads
         /\ FromJson(d) /\ OwnPolicies(d) # {} =>
              CollectorRule \in Range(e.policies[First(OwnPolicies(d))].egress)
<1> DEFINE i == First(OwnPolicies(d))
<1>1. CASE OwnPolicies(d) = {}
  BY <1>1, EditNot DEF patchNetworkPolicyOTelEgress
<1>2. ASSUME OwnPolicies(d) # {} PROVE i \in OwnPolicies(d) /\ i \in DOMAIN d.policies
  BY <1>2, FirstOf, DocParts
<1>3. CASE OwnPolicies(d) # {} /\ HasCollectorRule(d.policies[i].egress)
  <2>1. patchNetworkPolicyOTelEgress(d) = d
    BY <1>3 DEF patchNetworkPolicyOTelEgress
  <2>2. d.policies[i] \in Range(d.policies)
    BY <1>2, <1>3 DEF Range
  <2>3. ~FromJson(d)
    BY <1>3, <2>2 DEF FromJson, HasCollectorRule
  <2> QED BY <2>1, <2>3, EditNot
<1>4. CASE OwnPolicies(d) # {} /\ ~HasCollectorRule(d.policies[i].egress)
  <2> DEFINE s == Append(d.policies[i].egress, CollectorRule)
             e == [d EXCEPT !.policies[i].egress = s]
  <2>1. patchNetworkPolicyOTelEgress(d) = e
    BY <1>4 DEF patchNetworkPolicyOTelEgress
  <2>2. i \in OwnPolicies(d) /\ d.policies[i].egress \in Seq(Rules)
    BY <1>2, <1>4, DocParts
  <2> HIDE DEF i
  <2>3. s \in Seq(Rules) /\ Range(s) = Range(d.policies[i].egress) \cup {CollectorRule}
    BY <2>2, CollectorIs, AppendRange
  <2> HIDE DEF s
  <2>4. /\ e \in Docs
        /\ e.workloads = d.workloads /\ e.contract = d.contract /\ e.secret = d.secret
        /\ e.policies[i].egress = s
        /\ Grows(d, e, {}, {CollectorRule})
    BY <2>2, <2>3, EgressPatched
  <2>5. ContextsKept(d, e) /\ VolumesKept(d, e)
    BY <2>4, KeptAll
  <2> QED BY <2>1, <2>3, <2>4, <2>5 DEF Edit, i
<1> QED BY <1>1, <1>3, <1>4

\* The endpoints of services are hosts, and as few as the services.
LEMMA EndpointType ==
  ASSUME NEW s \in Services
  PROVE  Endpoint(s) \in Hosts
<1>1. /\ Urls[s].host \in Seq(Text) /\ Urls[s].port \in Nat
  BY ManifestsAssumption
<1>2. \A x \in DOMAIN DefaultPort : DefaultPort[x] \in Nat
  BY DEF DefaultPort
<1>3. Endpoint(s).host = Urls[s].host
  BY DEF Endpoint, parseHostPort
<1>4. Endpoint(s).port \in Nat
  <2> HIDE DEF DefaultPort
  <2> QED BY <1>1, <1>2 DEF Endpoint, parseHostPort
<1> QED BY <1>1, <1>3, <1>4 DEF Endpoint, parseHostPort, Hosts

LEMMA EndpointsFinite ==
  ASSUME NEW creds \in SUBSET Services
  PROVE  Endpoints(creds) \in SUBSET Hosts /\ IsFiniteSet(Endpoints(creds))
<1>1. Endpoints(creds) \in
        SUBSET {Endpoint("postgres"), Endpoint("nats"), Endpoint("rustfs")}
  BY DEF Endpoints, Services
<1>2. Endpoints(creds) \in SUBSET Hosts
  BY EndpointType DEF Endpoints
<1> QED BY <1>1, <1>2, ThreeFinite

LEMMA EgressRuleType ==
  ASSUME NEW e \in Hosts
  PROVE  EgressRule(e) \in Rules
<1>1. e.host \in Seq(Text) /\ e.port \in Nat
  BY DEF Hosts
<1>2. isInClusterHost(e.host) => e.host[2] \in Text
  BY <1>1 DEF isInClusterHost
<1>3. isInClusterHost(e.host) => <<e.host[2]>> \in Seq(Text)
  BY <1>2
<1> QED BY <1>1, <1>3 DEF EgressRule, Rules

LEMMA EnrichDoes ==
  ASSUME NEW d \in Docs, NEW creds \in SUBSET Services
  PROVE  LET e == enrichContractDeps(d, creds) IN
         /\ Edit(d, e, {}, {})
         /\ e.workloads = d.workloads /\ e.policies = d.policies /\ e.secret = d.secret
         /\ DOMAIN e.contract = DOMAIN d.contract
         /\ \A s \in creds \cap DOMAIN d.contract :
              d.contract[s] # "odd" => e.contract[s] = "filled"
<1> DEFINE c == [s \in DOMAIN d.contract |->
                   IF s \in creds /\ d.contract[s] # "odd" THEN "filled" ELSE d.contract[s]]
           e == [d EXCEPT !.contract = c]
<1>1. PICK S \in SUBSET Dependencies : d.contract \in [S -> {"plain", "filled", "odd"}]
  BY DocParts DEF Contracts
<1>2. c \in [S -> {"plain", "filled", "odd"}]
  BY <1>1
<1>3. c \in Contracts
  BY <1>2 DEF Contracts
<1>4. /\ DOMAIN c = DOMAIN d.contract
      /\ \A s \in creds \cap DOMAIN d.contract : d.contract[s] # "odd" => c[s] = "filled"
  OBVIOUS
<1>5. enrichContractDeps(d, creds) = e
  BY DEF enrichContractDeps
<1> HIDE DEF c
<1>6. /\ e \in Docs /\ e.workloads = d.workloads /\ e.policies = d.policies
      /\ e.secret = d.secret /\ e.contract = c
  BY <1>3 DEF Docs
<1>7. Edit(d, e, {}, {})
  BY <1>6, GrowsNot, KeptAll DEF Edit
<1> QED BY <1>4, <1>5, <1>6, <1>7

LEMMA InjectDoes ==
  ASSUME NEW d \in Docs, NEW creds \in SUBSET Services
  PROVE  LET e == InjectSecret(d, creds) IN
         /\ Edit(d, e, {}, {})
         /\ e.workloads = d.workloads /\ e.policies = d.policies
         /\ e.contract = d.contract /\ creds \subseteq e.secret
<1> DEFINE e == InjectSecret(d, creds)
<1>1. /\ e \in Docs /\ e.workloads = d.workloads /\ e.policies = d.policies
      /\ e.contract = d.contract /\ creds \subseteq e.secret
  BY DEF Docs, InjectSecret
<1>2. Edit(d, e, {}, {})
  BY <1>1, GrowsNot, KeptAll DEF Edit
<1> QED BY <1>1, <1>2

\* The Deployments whose first container has the flag.
WithFlag(d) == {i \in Deployments(d) : HasNetFlag(Main(d.workloads[i]))}

LEMMA AllowNetDoes ==
  ASSUME NEW d \in Docs, NEW creds \in SUBSET Services
  PROVE  LET e == patchDeploymentAllowNet(d, creds) IN
         /\ Edit(d, e, Endpoints(creds), {})
         /\ e.policies = d.policies /\ e.contract = d.contract /\ e.secret = d.secret
         /\ WithFlag(d) # {} =>
              Endpoints(creds) \subseteq AllowedHosts(Main(e.workloads[First(WithFlag(d))]))
<1>1. CASE WithFlag(d) = {}
  BY <1>1, EditNot DEF patchDeploymentAllowNet, WithFlag
<1>2. CASE WithFlag(d) # {}
  <2> DEFINE i == First(WithFlag(d))
             H == Endpoints(creds)
             m == Main(d.workloads[i])
             c == patchAllowNet(m, H)
             e == [d EXCEPT !.workloads[i].pod.containers[1] = c]
  <2>1. WithFlag(d) \in SUBSET Nat
    BY DocParts DEF WithFlag
  <2>2. i \in WithFlag(d)
    BY <1>2, <2>1, FirstOf
  <2>3. i \in DOMAIN d.workloads /\ HasNetFlag(m)
    BY <2>2, DocParts DEF WithFlag
  <2>4. patchDeploymentAllowNet(d, creds) = e
    BY <1>2 DEF patchDeploymentAllowNet, Main, WithFlag
  <2>5. m \in Containers
    BY <2>3, DocParts, PodParts DEF Main
  <2>6. H \in SUBSET Hosts /\ IsFiniteSet(H)
    BY EndpointsFinite
  <2> HIDE DEF i, m, H
  <2>7. c \in Containers /\ SameButHosts(m, c) /\ AllowedHosts(c) = AllowedHosts(m) \cup H
    BY <2>3, <2>5, <2>6, AllowNetOpens
  <2> HIDE DEF c
  <2>8. /\ e \in Docs
        /\ e.policies = d.policies /\ e.contract = d.contract /\ e.secret = d.secret
        /\ Main(e.workloads[i]) = c
        /\ Grows(d, e, H, {})
        /\ ContextsKept(d, e) /\ VolumesKept(d, e)
    BY <2>3, <2>7, MainPatched DEF m
  <2> QED BY <2>4, <2>7, <2>8 DEF Edit, i, m, H
<1> QED BY <1>1, <1>2

LEMMA ExoEgressDoes ==
  ASSUME NEW d \in Docs, NEW creds \in SUBSET Services, NEW resolved
  PROVE  LET e == patchNetworkPolicyExoEgress(d, creds, resolved) IN
         /\ Edit(d, e, {}, {EgressRule(f) : f \in Endpoints(creds)})
         /\ e.workloads = d.workloads /\ e.contract = d.contract /\ e.secret = d.secret
         /\ OwnPolicies(d) # {} =>
              \A f \in Endpoints(creds) : isInClusterHost(f.host) \/ f.host \in resolved =>
                EgressRule(f) \in Range(e.policies[First(OwnPolicies(d))].egress)
<1> DEFINE i == First(OwnPolicies(d))
           R == {EgressRule(f) : f \in Endpoints(creds)}
           Q == {EgressRule(f) : f \in
                  {f \in Endpoints(creds) : isInClusterHost(f.host) \/ f.host \in resolved}}
<1>1. CASE OwnPolicies(d) = {}
  BY <1>1, EditNot DEF patchNetworkPolicyExoEgress
<1>2. CASE OwnPolicies(d) # {}
  <2> DEFINE s == d.policies[i].egress \o SetToSeq(Q)
             e == [d EXCEPT !.policies[i].egress = s]
  <2>1. patchNetworkPolicyExoEgress(d, creds, resolved) = e
    BY <1>2 DEF patchNetworkPolicyExoEgress
  <2>2. i \in OwnPolicies(d) /\ d.policies[i].egress \in Seq(Rules)
    BY <1>2, FirstOf, DocParts
  <2>3. Q \in SUBSET R /\ Q \in SUBSET Rules
    BY EndpointsFinite, EgressRuleType
  <2>4. Q \in SUBSET {EgressRule(Endpoint("postgres")), EgressRule(Endpoint("nats")),
                      EgressRule(Endpoint("rustfs"))}
    BY DEF Endpoints, Services
  <2>5. IsFiniteSet(Q)
    <3> HIDE DEF Q
    <3> QED BY <2>4, ThreeFinite
  <2>6. ASSUME NEW f \in Endpoints(creds), isInClusterHost(f.host) \/ f.host \in resolved
        PROVE  EgressRule(f) \in Q
    BY <2>6
  <2> HIDE DEF i, Q, R
  <2>7. s \in Seq(Rules) /\ Range(s) = Range(d.policies[i].egress) \cup Q
    BY <2>2, <2>3, <2>5, AddRange
  <2> HIDE DEF s
  <2>8. /\ e \in Docs
        /\ e.workloads = d.workloads /\ e.contract = d.contract /\ e.secret = d.secret
        /\ e.policies[i].egress = s
        /\ Grows(d, e, {}, R)
    BY <2>2, <2>3, <2>7, EgressPatched
  <2>9. ContextsKept(d, e) /\ VolumesKept(d, e)
    BY <2>8, KeptAll
  <2>10. Edit(d, e, {}, R)
    BY <2>8, <2>9 DEF Edit
  <2>11. ASSUME NEW f \in Endpoints(creds), isInClusterHost(f.host) \/ f.host \in resolved
         PROVE  EgressRule(f) \in Range(e.policies[i].egress)
    BY <2>6, <2>7, <2>8, <2>11
  <2> HIDE DEF e
  <2> QED BY <2>1, <2>8, <2>10, <2>11 DEF i, R, e
<1> QED BY <1>1, <1>2

---------------------------------------------------------------------------
(* Volumes and mounts *)

DistinctVolumes(s) == \A i, j \in DOMAIN s : s[i] = s[j] => i = j
DistinctPaths(s) == \A i, j \in DOMAIN s : s[i].path = s[j].path => i = j

ContainerFits(c, volumes) ==
  /\ \A m \in Range(c.mounts) : m.volume \in Range(volumes)
  /\ DistinctPaths(c.mounts)

SpireMount == [volume |-> SpireVolume, path |-> "/run/spire/sockets"]
TmpMount == [volume |-> "tmp", path |-> "/tmp"]

\* A pod that can be created, and whose first container has its place for the
\* SPIRE socket free unless the volume is there.
PodFits(p) ==
  /\ DistinctVolumes(p.volumes)
  /\ \A c \in AllContainers(p) : ContainerFits(c, p.volumes)
  /\ SpireVolume \notin Range(p.volumes) =>
       \A m \in Range(p.containers[1].mounts) : m.path # SpireMount.path

MountsFit(d) == \A i \in DOMAIN d.workloads : PodFits(d.workloads[i].pod)

LEMMA AppendDistinct ==
  ASSUME NEW T, NEW s \in Seq(T), NEW e \in T
  PROVE  /\ DistinctVolumes(s) /\ e \notin Range(s) => DistinctVolumes(Append(s, e))
         /\ DistinctPaths(s) /\ (\A m \in Range(s) : m.path # e.path) =>
              DistinctPaths(Append(s, e))
<1> DEFINE t == Append(s, e)
<1>1. /\ DOMAIN t = 1 .. Len(s) + 1 /\ DOMAIN s = 1 .. Len(s) /\ Len(s) \in Nat
      /\ t[Len(s) + 1] = e /\ \A i \in DOMAIN s : t[i] = s[i] /\ s[i] \in Range(s)
  BY DEF Range
<1> HIDE DEF t
<1>2. ASSUME NEW i \in DOMAIN t PROVE i \in DOMAIN s \/ i = Len(s) + 1
  BY <1>1, <1>2
<1>3. ASSUME DistinctVolumes(s), e \notin Range(s) PROVE DistinctVolumes(t)
  BY <1>1, <1>2, <1>3 DEF DistinctVolumes
<1>4. ASSUME DistinctPaths(s), \A m \in Range(s) : m.path # e.path
      PROVE  DistinctPaths(t)
  BY <1>1, <1>2, <1>4 DEF DistinctPaths
<1> QED BY <1>3, <1>4 DEF t

LEMMA MountTypes ==
  /\ SpireMount \in Mounts /\ TmpMount \in Mounts
  /\ SpireVolume \in Text /\ "tmp" \in Text
  /\ SpireMount.path = "/run/spire/sockets" /\ SpireMount.volume = SpireVolume
  /\ TmpMount.path = "/tmp" /\ TmpMount.volume = "tmp"
  BY SubmissionsAssumption DEF SpireMount, TmpMount, SpireVolume, Mounts

\* A container is given a mount at a path it does not use.
LEMMA AddMount ==
  ASSUME NEW c \in Containers, NEW m \in Mounts
  PROVE  LET e == [c EXCEPT !.mounts = Append(c.mounts, m)] IN
         /\ e \in Containers
         /\ e.sc = c.sc /\ e.args = c.args /\ e.command = c.command
         /\ Range(e.mounts) = Range(c.mounts) \cup {m}
         /\ DistinctPaths(c.mounts) /\ (\A n \in Range(c.mounts) : n.path # m.path) =>
              DistinctPaths(e.mounts)
<1>1. c.mounts \in Seq(Mounts)
  BY DEF Containers
<1>2. /\ Append(c.mounts, m) \in Seq(Mounts)
      /\ Range(Append(c.mounts, m)) = Range(c.mounts) \cup {m}
  BY <1>1, AppendRange
<1>3. DistinctPaths(c.mounts) /\ (\A n \in Range(c.mounts) : n.path # m.path) =>
        DistinctPaths(Append(c.mounts, m))
  BY <1>1, AppendDistinct
<1> DEFINE s == Append(c.mounts, m)
           e == [c EXCEPT !.mounts = s]
<1> HIDE DEF s
<1>4. /\ e \in Containers /\ e.mounts = s
      /\ e.sc = c.sc /\ e.args = c.args /\ e.command = c.command
  BY <1>2 DEF Containers, s
<1> QED BY <1>2, <1>3, <1>4 DEF s

\* Patches that keep volumes and mounts keep them fitting.
LEMMA FitKept ==
  ASSUME NEW d \in Docs, NEW e \in Docs, VolumesKept(d, e), MountsFit(d)
  PROVE  MountsFit(e)
<1> SUFFICES ASSUME NEW i \in DOMAIN e.workloads
             PROVE  PodFits(e.workloads[i].pod)
  BY DEF MountsFit
<1> DEFINE p == d.workloads[i].pod
           q == e.workloads[i].pod
<1>1. /\ i \in DOMAIN d.workloads /\ SamePlaces(p, q)
      /\ q.volumes = p.volumes
      /\ \A k \in DOMAIN p.containers : q.containers[k].mounts = p.containers[k].mounts
      /\ \A k \in DOMAIN p.init : q.init[k].mounts = p.init[k].mounts
  BY DEF VolumesKept
<1>2. PodFits(p) /\ p \in Pods
  BY <1>1, DocParts DEF MountsFit
<1> HIDE DEF p, q
<1>3. 1 \in DOMAIN p.containers
  BY <1>2, PodParts
<1>4. \A c \in AllContainers(q) : \E b \in AllContainers(p) : c.mounts = b.mounts
  BY <1>1 DEF AllContainers, Range, SamePlaces
<1>5. \A c \in AllContainers(q) : ContainerFits(c, q.volumes)
  BY <1>1, <1>2, <1>4 DEF PodFits, ContainerFits
<1>6. PodFits(q)
  BY <1>1, <1>2, <1>3, <1>5 DEF PodFits
<1> QED BY <1>6 DEF q

\* The SPIRE volume and its mount are added where they fit.
LEMMA SpireDoes ==
  ASSUME NEW d \in Docs
  PROVE  LET e == patchDeploymentSpireVolume(d) IN
         /\ e \in Docs /\ Grows(d, e, {}, {}) /\ ContextsKept(d, e)
         /\ e.policies = d.policies /\ e.contract = d.contract /\ e.secret = d.secret
         /\ MountsFit(d) => MountsFit(e)
<1> DEFINE i == First(Deployments(d))
<1>1. CASE Deployments(d) = {} \/ SpireVolume \in Range(d.workloads[i].pod.volumes)
  <2>1. patchDeploymentSpireVolume(d) = d
    BY <1>1 DEF patchDeploymentSpireVolume
  <2> QED BY <2>1, EditNot DEF Edit
<1>2. CASE Deployments(d) # {} /\ SpireVolume \notin Range(d.workloads[i].pod.volumes)
  <2> DEFINE p == d.workloads[i].pod
             b == p.containers[1]
             c == [b EXCEPT !.mounts = Append(b.mounts, SpireMount)]
             v == Append(p.volumes, SpireVolume)
             r == [p EXCEPT !.containers = [p.containers EXCEPT ![1] = c]]
             q == [r EXCEPT !.volumes = v]
             w == [d.workloads[i] EXCEPT !.pod = q]
             e == [d EXCEPT !.workloads = [d.workloads EXCEPT ![i] = w]]
  <2>1. i \in DOMAIN d.workloads
    BY <1>2, FirstOf, DocParts
  <2>2. p \in Pods /\ d.workloads[i] \in Workloads
    BY <2>1, DocParts
  <2>3. patchDeploymentSpireVolume(d) = e
    <3>1. q = AddSpireVolume(p)
      BY <2>2 DEF Pods, AddSpireVolume, SpireMount
    <3> QED BY <1>2, <3>1 DEF patchDeploymentSpireVolume
  <2>4. b \in Containers /\ 1 \in DOMAIN p.containers
    BY <2>2, PodParts
  <2>5. /\ c \in Containers
        /\ c.sc = b.sc /\ c.args = b.args /\ c.command = b.command
        /\ Range(c.mounts) = Range(b.mounts) \cup {SpireMount}
        /\ DistinctPaths(b.mounts) /\ (\A n \in Range(b.mounts) : n.path # SpireMount.path) =>
             DistinctPaths(c.mounts)
    <3> HIDE DEF b
    <3> QED BY <2>4, AddMount, MountTypes
  <2>6. /\ v \in Seq(Text) /\ Range(v) = Range(p.volumes) \cup {SpireVolume}
        /\ DistinctVolumes(p.volumes) => DistinctVolumes(v)
    BY <1>2, <2>2, PodParts, AppendRange, AppendDistinct, MountTypes
  <2> HIDE DEF p, c, v
  <2>7. /\ r \in Pods
        /\ r.nonRoot = p.nonRoot /\ r.seccomp = p.seccomp
        /\ r.volumes = p.volumes /\ r.init = p.init
        /\ DOMAIN r.containers = DOMAIN p.containers
        /\ r.containers[1] = c
        /\ \A k \in DOMAIN p.containers \ {1} : r.containers[k] = p.containers[k]
    BY <2>2, <2>5, SetFirst
  <2> HIDE DEF r
  <2>8. /\ q \in Pods /\ q.volumes = v
        /\ q.nonRoot = p.nonRoot /\ q.seccomp = p.seccomp
        /\ q.init = p.init /\ q.containers = r.containers
    BY <2>6, <2>7 DEF Pods
  <2> HIDE DEF q
  <2>9. w \in Workloads /\ w.pod = q /\ w.kind = d.workloads[i].kind
    BY <2>2, <2>8 DEF Workloads
  <2> HIDE DEF w, i
  <2>10. /\ e \in Docs
         /\ e.policies = d.policies /\ e.contract = d.contract /\ e.secret = d.secret
         /\ DOMAIN e.workloads = DOMAIN d.workloads
         /\ e.workloads[i] = w
         /\ \A j \in DOMAIN d.workloads \ {i} : e.workloads[j] = d.workloads[j]
    BY <2>1, <2>9, SetWorkload
  <2> HIDE DEF e
  <2>11. Main(e.workloads[i]) = c /\ Main(d.workloads[i]) = b
    BY <2>7, <2>8, <2>9, <2>10 DEF Main, p
  <2>12. /\ HasNetFlag(c) <=> HasNetFlag(b)
         /\ AllowedHosts(c) = AllowedHosts(b)
    <3> HIDE DEF b
    <3> QED BY <2>5 DEF HasNetFlag, AllowedHosts
  <2>13. Grows(d, e, {}, {})
    <3> HIDE DEF b
    <3>1. \A j \in DOMAIN d.workloads :
            /\ IsDeployment(e.workloads[j]) <=> IsDeployment(d.workloads[j])
            /\ HasNetFlag(Main(e.workloads[j])) <=> HasNetFlag(Main(d.workloads[j]))
            /\ AllowedHosts(Main(e.workloads[j])) = AllowedHosts(Main(d.workloads[j]))
      BY <2>9, <2>10, <2>11, <2>12 DEF IsDeployment
    <3> QED BY <2>10, <3>1 DEF Grows
  <2>14. ContextsKept(d, e)
    <3>1. ASSUME NEW j \in DOMAIN d.workloads
          PROVE  LET f == d.workloads[j].pod  g == e.workloads[j].pod IN
                 /\ SamePlaces(f, g)
                 /\ g.nonRoot = f.nonRoot /\ g.seccomp = f.seccomp
                 /\ \A k \in DOMAIN f.containers : g.containers[k].sc = f.containers[k].sc
                 /\ \A k \in DOMAIN f.init : g.init[k].sc = f.init[k].sc
      <4>1. CASE j = i
        BY <2>5, <2>7, <2>8, <2>9, <2>10, <4>1 DEF SamePlaces, p
      <4>2. CASE j # i
        BY <2>10, <4>2 DEF SamePlaces
      <4> QED BY <4>1, <4>2
    <3> QED BY <2>10, <3>1 DEF ContextsKept
  <2>15. ASSUME MountsFit(d) PROVE MountsFit(e)
    <3>1. PodFits(p) /\ SpireVolume \notin Range(p.volumes)
      BY <1>2, <2>1, <2>15 DEF MountsFit, p, i
    <3>2. b \in AllContainers(p)
      BY <2>4 DEF AllContainers, Range
    <3> HIDE DEF b
    <3>3. ContainerFits(c, v)
      BY <2>5, <2>6, <3>1, <3>2, MountTypes DEF PodFits, ContainerFits, b
    <3>4. ASSUME NEW a \in AllContainers(q) PROVE a = c \/ a \in AllContainers(p)
      BY <2>7, <2>8, <3>4 DEF AllContainers, Range
    <3>5. \A a \in AllContainers(p) : ContainerFits(a, v)
      BY <2>6, <3>1 DEF PodFits, ContainerFits
    <3>6. PodFits(q)
      BY <2>6, <2>8, <3>1, <3>3, <3>4, <3>5 DEF PodFits
    <3> QED BY <2>9, <2>10, <2>15, <3>6 DEF MountsFit
  <2> QED BY <2>3, <2>10, <2>13, <2>14, <2>15
<1> QED BY <1>1, <1>2

---------------------------------------------------------------------------
(* ensurePSACompliance *)

\* The security context after the fields that are absent have been filled in.
Filled(sc) == [f \in Fields |-> setIfAbsent(sc[f])]

LEMMA SetIfAbsentType ==
  ASSUME NEW v \in Values
  PROVE  /\ setIfAbsent(v) \in Values
         /\ setIfAbsent(v) # "good" => v \in {"null", "bad"}
  BY DEF setIfAbsent, Values

LEMMA FilledType ==
  ASSUME NEW sc \in [Fields -> Values]
  PROVE  Filled(sc) \in [Fields -> Values]
  BY SetIfAbsentType DEF Filled

LEMMA EnsureContainerDoes ==
  ASSUME NEW c \in Containers
  PROVE  LET e == ensureContainer(c) IN
         /\ e \in Containers
         /\ e.args = c.args /\ e.command = c.command
         /\ e.sc = Filled(c.sc)
         /\ Range(e.mounts) \subseteq Range(c.mounts) \cup {TmpMount}
         /\ \A m \in Range(e.mounts) :
              m.path \in {n.path : n \in Range(c.mounts)} \cup {"/tmp"}
         /\ DistinctPaths(c.mounts) => DistinctPaths(e.mounts)
         /\ e.sc.roFS = "good" => MountsTmp(e)
         /\ TmpMount \in Range(e.mounts) => MountsTmp(e)
<1> DEFINE e == ensureContainer(c)
           a == [c EXCEPT !.sc = Filled(c.sc)]
<1>1. c.sc \in [Fields -> Values] /\ c.mounts \in Seq(Mounts)
  BY DEF Containers
<1>2. [f \in DOMAIN c.sc |-> setIfAbsent(c.sc[f])] = Filled(c.sc)
  BY <1>1 DEF Filled
<1>3. /\ a \in Containers /\ a.sc = Filled(c.sc) /\ a.mounts = c.mounts
      /\ a.args = c.args /\ a.command = c.command
  BY <1>1, FilledType DEF Containers
<1>4. CASE Filled(c.sc).roFS = "good" /\ ~MountsTmp(c)
  <2>1. e = [a EXCEPT !.mounts = Append(a.mounts, TmpMount)]
    BY <1>2, <1>3, <1>4 DEF ensureContainer, TmpMount, Containers
  <2>2. \A n \in Range(c.mounts) : n.path # TmpMount.path
    BY <1>4, MountTypes DEF MountsTmp
  <2> HIDE DEF a, e
  <2>3. /\ e \in Containers
        /\ e.sc = a.sc /\ e.args = a.args /\ e.command = a.command
        /\ Range(e.mounts) = Range(a.mounts) \cup {TmpMount}
        /\ DistinctPaths(a.mounts) /\ (\A n \in Range(a.mounts) : n.path # TmpMount.path) =>
             DistinctPaths(e.mounts)
    BY <1>3, <2>1, AddMount, MountTypes
  <2>4. MountsTmp(e)
    BY <2>3, MountTypes DEF MountsTmp
  <2> QED BY <1>3, <2>2, <2>3, <2>4, MountTypes DEF e
<1>5. CASE ~(Filled(c.sc).roFS = "good" /\ ~MountsTmp(c))
  <2>1. e = a
    BY <1>2, <1>3, <1>5 DEF ensureContainer, TmpMount, Containers
  <2> HIDE DEF a, e
  <2>2. TmpMount \in Range(e.mounts) => MountsTmp(e)
    BY MountTypes DEF MountsTmp
  <2>3. MountsTmp(e) <=> MountsTmp(c)
    BY <1>3, <2>1 DEF MountsTmp
  <2> QED BY <1>3, <1>5, <2>1, <2>2, <2>3 DEF e
<1> QED BY <1>4, <1>5

LEMMA EnsurePodDoes ==
  ASSUME NEW p \in Pods
  PROVE  LET q == ensurePodSpecPSA(p) IN
         /\ q \in Pods /\ SamePlaces(p, q)
         /\ \A k \in DOMAIN p.containers :
              q.containers[k] = ensureContainer(p.containers[k])
         /\ \A k \in DOMAIN p.init : q.init[k] = ensureContainer(p.init[k])
         /\ \A c \in AllContainers(q) :
              \E b \in AllContainers(p) : b \in Containers /\ c = ensureContainer(b)
         /\ PodFits(p) => PodFits(q)
<1> DEFINE cs == [i \in DOMAIN p.containers |-> ensureContainer(p.containers[i])]
           ini == [i \in DOMAIN p.init |-> ensureContainer(p.init[i])]
           needsTmp == \E c \in Range(cs) \cup Range(ini) : MountsTmp(c)
           adds == needsTmp /\ "tmp" \notin Range(p.volumes)
           v == IF adds THEN Append(p.volumes, "tmp") ELSE p.volumes
           q == [p EXCEPT !.nonRoot = setIfAbsent(p.nonRoot),
                          !.seccomp = setIfAbsent(p.seccomp),
                          !.containers = cs, !.init = ini, !.volumes = v]
<1>1. q = ensurePodSpecPSA(p)
  BY DEF ensurePodSpecPSA
<1>2. /\ p.containers \in Seq(Containers) /\ p.init \in Seq(Containers)
      /\ p.containers # <<>> /\ 1 \in DOMAIN p.containers
      /\ \A k \in DOMAIN p.containers : p.containers[k] \in Containers
      /\ \A k \in DOMAIN p.init : p.init[k] \in Containers
      /\ p.volumes \in Seq(Text) /\ p.nonRoot \in Values /\ p.seccomp \in Values
  BY PodParts
<1>3. cs \in Seq(Containers) /\ DOMAIN cs = DOMAIN p.containers /\ cs # <<>>
  <2>1. \A k \in DOMAIN p.containers : cs[k] \in Containers
    BY <1>2, EnsureContainerDoes
  <2>2. DOMAIN cs = DOMAIN p.containers /\ 1 \in DOMAIN cs
    BY <1>2
  <2> HIDE DEF cs
  <2>3. DOMAIN p.containers = 1 .. Len(p.containers) /\ Len(p.containers) \in Nat
    BY <1>2
  <2>4. cs = [k \in 1 .. Len(p.containers) |-> cs[k]]
    BY <2>2, <2>3 DEF cs
  <2>5. cs \in Seq(Containers)
    BY <2>1, <2>3, <2>4
  <2> QED BY <2>2, <2>5
<1>4. ini \in Seq(Containers) /\ DOMAIN ini = DOMAIN p.init
  <2>1. \A k \in DOMAIN p.init : ini[k] \in Containers
    BY <1>2, EnsureContainerDoes
  <2>2. DOMAIN ini = DOMAIN p.init
    OBVIOUS
  <2> HIDE DEF ini
  <2>3. DOMAIN p.init = 1 .. Len(p.init) /\ Len(p.init) \in Nat
    BY <1>2
  <2>4. ini = [k \in 1 .. Len(p.init) |-> ini[k]]
    BY <2>2, <2>3 DEF ini
  <2>5. ini \in Seq(Containers)
    BY <2>1, <2>3, <2>4
  <2> QED BY <2>2, <2>5
<1>5. /\ v \in Seq(Text) /\ Range(p.volumes) \subseteq Range(v)
      /\ Range(v) \subseteq Range(p.volumes) \cup {"tmp"}
      /\ needsTmp => "tmp" \in Range(v)
      /\ DistinctVolumes(p.volumes) => DistinctVolumes(v)
  <2> HIDE DEF needsTmp
  <2>1. CASE adds
    BY <1>2, <2>1, AppendRange, AppendDistinct, MountTypes
  <2>2. CASE ~adds
    BY <1>2, <2>2
  <2> QED BY <2>1, <2>2
<1>6. /\ \A k \in DOMAIN p.containers : cs[k] = ensureContainer(p.containers[k])
      /\ \A k \in DOMAIN p.init : ini[k] = ensureContainer(p.init[k])
  OBVIOUS
<1> HIDE DEF cs, ini, v
<1>7. /\ q \in Pods /\ q.containers = cs /\ q.init = ini /\ q.volumes = v
  BY <1>2, <1>3, <1>4, <1>5, SetIfAbsentType DEF Pods
<1> HIDE DEF q
<1>8. ASSUME NEW c \in AllContainers(q)
      PROVE  \E b \in AllContainers(p) : b \in Containers /\ c = ensureContainer(b)
  <2>1. CASE c \in Range(cs)
    <3>1. PICK k \in DOMAIN p.containers : c = cs[k]
      BY <1>3, <2>1 DEF Range
    <3>2. p.containers[k] \in AllContainers(p)
      BY DEF AllContainers, Range
    <3> QED BY <1>2, <1>6, <3>1, <3>2
  <2>2. CASE c \in Range(ini)
    <3>1. PICK k \in DOMAIN p.init : c = ini[k]
      BY <1>4, <2>2 DEF Range
    <3>2. p.init[k] \in AllContainers(p)
      BY DEF AllContainers, Range
    <3> QED BY <1>2, <1>6, <3>1, <3>2
  <2> QED BY <1>7, <1>8, <2>1, <2>2 DEF AllContainers
<1>9. ASSUME PodFits(p) PROVE PodFits(q)
  <2>1. ASSUME NEW c \in AllContainers(q) PROVE ContainerFits(c, v)
    <3>1. PICK b \in AllContainers(p) : b \in Containers /\ c = ensureContainer(b)
      BY <1>8, <2>1
    <3>2. ContainerFits(b, p.volumes)
      BY <1>9 DEF PodFits
    <3>3. /\ Range(c.mounts) \subseteq Range(b.mounts) \cup {TmpMount}
          /\ DistinctPaths(b.mounts) => DistinctPaths(c.mounts)
          /\ TmpMount \in Range(c.mounts) => MountsTmp(c)
      BY <3>1, EnsureContainerDoes
    <3>4. MountsTmp(c) => needsTmp
      BY <1>7, <2>1 DEF AllContainers
    <3> HIDE DEF needsTmp
    <3>5. ASSUME NEW m \in Range(c.mounts) PROVE m.volume \in Range(v)
      <4>1. CASE m \in Range(b.mounts)
        BY <1>5, <3>2, <4>1 DEF ContainerFits
      <4>2. CASE m = TmpMount
        BY <1>5, <3>3, <3>4, <3>5, <4>2, MountTypes
      <4> QED BY <3>3, <3>5, <4>1, <4>2
    <3> QED BY <3>2, <3>3, <3>5 DEF ContainerFits
  <2>2. ASSUME SpireVolume \notin Range(v), NEW m \in Range(cs[1].mounts)
        PROVE  m.path # SpireMount.path
    <3>1. SpireVolume \notin Range(p.volumes)
      BY <1>5, <2>2
    <3>2. \A n \in Range(p.containers[1].mounts) : n.path # SpireMount.path
      BY <1>9, <3>1 DEF PodFits
    <3>3. m.path \in {n.path : n \in Range(p.containers[1].mounts)} \cup {"/tmp"}
      BY <1>2, <1>6, <2>2, EnsureContainerDoes
    <3> QED BY <3>2, <3>3, MountTypes
  <2> QED BY <1>5, <1>7, <1>9, <2>1, <2>2 DEF PodFits
<1> QED BY <1>1, <1>3, <1>4, <1>6, <1>7, <1>8, <1>9 DEF SamePlaces

LEMMA EnsureDoes ==
  ASSUME NEW d \in Docs
  PROVE  LET e == ensurePSACompliance(d) IN
         /\ e \in Docs /\ Grows(d, e, {}, {})
         /\ e.policies = d.policies /\ e.contract = d.contract /\ e.secret = d.secret
         /\ DOMAIN e.workloads = DOMAIN d.workloads
         /\ \A i \in DOMAIN d.workloads :
              e.workloads[i].pod = ensurePodSpecPSA(d.workloads[i].pod)
         /\ MountsFit(d) => MountsFit(e)
<1> DEFINE ws == [i \in DOMAIN d.workloads |-> ensureWorkload(d.workloads[i])]
           e == [d EXCEPT !.workloads = ws]
<1>1. e = ensurePSACompliance(d)
  BY DEF ensurePSACompliance
<1>2. /\ d.workloads \in Seq(Workloads)
      /\ \A i \in DOMAIN d.workloads :
           d.workloads[i] \in Workloads /\ d.workloads[i].pod \in Pods
  BY DocParts
<1>3. ASSUME NEW i \in DOMAIN d.workloads
      PROVE  /\ ws[i] \in Workloads /\ ws[i].kind = d.workloads[i].kind
             /\ ws[i].pod = ensurePodSpecPSA(d.workloads[i].pod)
  <2> DEFINE w == d.workloads[i]
  <2>1. ensurePodSpecPSA(w.pod) \in Pods /\ w \in Workloads
    BY <1>2, EnsurePodDoes
  <2>2. ws[i] = [w EXCEPT !.pod = ensurePodSpecPSA(w.pod)]
    BY DEF ensureWorkload
  <2> HIDE DEF w, ws
  <2>3. /\ ws[i] \in Workloads /\ ws[i].kind = w.kind
        /\ ws[i].pod = ensurePodSpecPSA(w.pod)
    BY <2>1, <2>2 DEF Workloads
  <2> QED BY <2>3 DEF w
<1>4. DOMAIN ws = DOMAIN d.workloads
  OBVIOUS
<1>5. ws \in Seq(Workloads)
  <2>1. DOMAIN d.workloads = 1 .. Len(d.workloads) /\ Len(d.workloads) \in Nat
    BY <1>2
  <2>2. ws = [i \in 1 .. Len(d.workloads) |-> ws[i]]
    BY <2>1
  <2> HIDE DEF ws
  <2> QED BY <1>3, <2>1, <2>2
<1> HIDE DEF ws
<1>6. /\ e \in Docs /\ e.workloads = ws
      /\ e.policies = d.policies /\ e.contract = d.contract /\ e.secret = d.secret
  BY <1>5 DEF Docs
<1> HIDE DEF e
<1>7. ASSUME NEW i \in DOMAIN d.workloads
      PROVE  /\ HasNetFlag(Main(ws[i])) <=> HasNetFlag(Main(d.workloads[i]))
             /\ AllowedHosts(Main(ws[i])) = AllowedHosts(Main(d.workloads[i]))
  <2> DEFINE p == d.workloads[i].pod
  <2>1. p.containers[1] \in Containers /\ 1 \in DOMAIN p.containers /\ p \in Pods
    BY <1>2, PodParts
  <2>2. Main(ws[i]) = ensureContainer(p.containers[1])
    BY <1>3, <2>1, EnsurePodDoes DEF Main
  <2>3. /\ Main(ws[i]).args = Main(d.workloads[i]).args
        /\ Main(ws[i]).command = Main(d.workloads[i]).command
    BY <2>1, <2>2, EnsureContainerDoes DEF Main
  <2> QED BY <2>3 DEF HasNetFlag, AllowedHosts
<1>8. Grows(d, e, {}, {})
  BY <1>3, <1>4, <1>6, <1>7 DEF Grows, IsDeployment
<1>9. ASSUME MountsFit(d) PROVE MountsFit(e)
  BY <1>2, <1>3, <1>4, <1>6, <1>9, EnsurePodDoes DEF MountsFit
<1> QED BY <1>1, <1>3, <1>4, <1>6, <1>8, <1>9

---------------------------------------------------------------------------
(* What ProcessManifests achieves *)

\* Telemetry reaches the collector.
Telemetry(d) ==
  Deployments(d) # {} =>
    /\ HasNetFlag(Main(d.workloads[First(Deployments(d))])) =>
         Collector \in AllowedHosts(Main(d.workloads[First(Deployments(d))]))
    /\ OwnPolicies(d) # {} =>
         CollectorRule \in Range(d.policies[First(OwnPolicies(d))].egress)

\* The services in creds can be used; contract is what there was to fill in.
Usable(contract, d, creds, resolved) ==
  \A s \in creds :
    LET e == Endpoint(s) IN
    /\ s \in d.secret
    /\ contract[s] # "odd" => d.contract[s] = "filled"
    /\ e.port # 0 /\ WithFlag(d) # {} =>
         e \in AllowedHosts(Main(d.workloads[First(WithFlag(d))]))
    /\ e.port # 0 /\ OwnPolicies(d) # {}
         /\ (isInClusterHost(e.host) \/ e.host \in resolved) =>
         EgressRule(e) \in Range(d.policies[First(OwnPolicies(d))].egress)

\* The manifests that the patches look for stay where they are.
LEMMA GrowsPlaces ==
  ASSUME NEW b \in Docs, NEW d, NEW H, NEW R, Grows(b, d, H, R)
  PROVE  /\ Deployments(d) = Deployments(b) /\ WithFlag(d) = WithFlag(b)
         /\ OwnPolicies(d) = OwnPolicies(b)
         /\ Deployments(b) # {} => First(Deployments(b)) \in DOMAIN b.workloads
         /\ WithFlag(b) # {} => First(WithFlag(b)) \in DOMAIN b.workloads
         /\ OwnPolicies(b) # {} => First(OwnPolicies(b)) \in DOMAIN b.policies
<1>1. Deployments(d) = Deployments(b)
  BY DEF Grows, Deployments
<1>2. WithFlag(d) = WithFlag(b)
  BY DEF Grows, Deployments, WithFlag
<1>3. OwnPolicies(d) = OwnPolicies(b)
  BY DEF Grows, OwnPolicies
<1>4. WithFlag(b) \in SUBSET Deployments(b)
  BY DEF WithFlag
<1> QED BY <1>1, <1>2, <1>3, <1>4, DocParts, FirstOf

LEMMA TelemetryKept ==
  ASSUME NEW b \in Docs, NEW d, NEW H, NEW R, Grows(b, d, H, R), Telemetry(b)
  PROVE  Telemetry(d)
<1>1. ASSUME Deployments(b) # {}, HasNetFlag(Main(d.workloads[First(Deployments(b))]))
      PROVE  Collector \in AllowedHosts(Main(d.workloads[First(Deployments(b))]))
  BY <1>1, GrowsPlaces DEF Telemetry, Grows
<1>2. ASSUME Deployments(b) # {}, OwnPolicies(b) # {}
      PROVE  CollectorRule \in Range(d.policies[First(OwnPolicies(b))].egress)
  BY <1>2, GrowsPlaces DEF Telemetry, Grows
<1>3. Deployments(d) = Deployments(b) /\ OwnPolicies(d) = OwnPolicies(b)
  BY GrowsPlaces
<1> QED BY <1>1, <1>2, <1>3 DEF Telemetry

LEMMA UsableKept ==
  ASSUME NEW b \in Docs, NEW d, NEW H, NEW R, NEW contract, NEW creds, NEW resolved,
         Grows(b, d, H, R), d.contract = b.contract, d.secret = b.secret,
         Usable(contract, b, creds, resolved)
  PROVE  Usable(contract, d, creds, resolved)
<1> SUFFICES ASSUME NEW s \in creds
             PROVE  LET e == Endpoint(s) IN
                    /\ s \in d.secret
                    /\ contract[s] # "odd" => d.contract[s] = "filled"
                    /\ e.port # 0 /\ WithFlag(d) # {} =>
                         e \in AllowedHosts(Main(d.workloads[First(WithFlag(d))]))
                    /\ e.port # 0 /\ OwnPolicies(d) # {}
                         /\ (isInClusterHost(e.host) \/ e.host \in resolved) =>
                         EgressRule(e) \in Range(d.policies[First(OwnPolicies(d))].egress)
  BY DEF Usable
<1> DEFINE e == Endpoint(s)
<1>1. /\ s \in b.secret
      /\ contract[s] # "odd" => b.contract[s] = "filled"
      /\ e.port # 0 /\ WithFlag(b) # {} =>
           e \in AllowedHosts(Main(b.workloads[First(WithFlag(b))]))
      /\ e.port # 0 /\ OwnPolicies(b) # {}
           /\ (isInClusterHost(e.host) \/ e.host \in resolved) =>
           EgressRule(e) \in Range(b.policies[First(OwnPolicies(b))].egress)
  BY DEF Usable
<1> HIDE DEF e
<1>2. WithFlag(d) = WithFlag(b) /\ OwnPolicies(d) = OwnPolicies(b)
  BY GrowsPlaces
<1>3. ASSUME WithFlag(b) # {}
      PROVE  AllowedHosts(Main(b.workloads[First(WithFlag(b))])) \subseteq
               AllowedHosts(Main(d.workloads[First(WithFlag(b))]))
  BY <1>3, GrowsPlaces DEF Grows
<1>4. ASSUME OwnPolicies(b) # {}
      PROVE  Range(b.policies[First(OwnPolicies(b))].egress) \subseteq
               Range(d.policies[First(OwnPolicies(b))].egress)
  BY <1>4, GrowsPlaces DEF Grows
<1> QED BY <1>1, <1>2, <1>3, <1>4 DEF e

LEMMA TelemetryDoes ==
  ASSUME NEW d \in Docs, FromJson(d)
  PROVE  LET e == WithTelemetry(d) IN
         /\ Edit(d, e, {Collector}, {CollectorRule})
         /\ e.contract = d.contract /\ e.secret = d.secret
         /\ Telemetry(e)
<1> DEFINE a == patchDeploymentOTelEnv(d)
           l == patchDeploymentWorkflowLabel(a)
           e == patchNetworkPolicyOTelEgress(l)
<1>1. WithTelemetry(d) = e
  BY DEF WithTelemetry
<1>2. /\ Edit(d, a, {Collector}, {})
      /\ a.policies = d.policies /\ a.contract = d.contract /\ a.secret = d.secret
      /\ Deployments(d) # {} /\ HasNetFlag(Main(d.workloads[First(Deployments(d))])) =>
           Collector \in AllowedHosts(Main(a.workloads[First(Deployments(d))]))
  BY OTelEnvDoes
<1>3. a \in Docs
  BY <1>2 DEF Edit
<1> HIDE DEF a
<1>4. /\ Edit(a, l, {}, {})
      /\ l.policies = a.policies /\ l.contract = a.contract /\ l.secret = a.secret
  BY <1>3, LabelDoes
<1>5. l \in Docs
  BY <1>4 DEF Edit
<1> HIDE DEF l
<1>6. FromJson(l)
  BY <1>2, <1>4 DEF FromJson
<1>7. /\ Edit(l, e, {}, {CollectorRule})
      /\ e.contract = l.contract /\ e.secret = l.secret
      /\ e.workloads = l.workloads
      /\ OwnPolicies(l) # {} =>
           CollectorRule \in Range(e.policies[First(OwnPolicies(l))].egress)
  BY <1>5, <1>6, OTelEgressDoes
<1> HIDE DEF e
<1>8. Edit(d, l, {Collector}, {})
  BY <1>2, <1>4, EditThen
<1>9. Edit(d, l, {Collector}, {CollectorRule})
  BY <1>8, EditNot, EditThen DEF Edit, Grows
<1>10. Edit(d, e, {Collector}, {CollectorRule})
  BY <1>7, <1>9, EditThen
<1>11. /\ Deployments(e) = Deployments(d) /\ OwnPolicies(e) = OwnPolicies(d)
       /\ OwnPolicies(l) = OwnPolicies(d)
  BY <1>8, <1>10, GrowsPlaces DEF Edit
<1>12. ASSUME Deployments(d) # {}, HasNetFlag(Main(e.workloads[First(Deployments(d))]))
       PROVE  Collector \in AllowedHosts(Main(e.workloads[First(Deployments(d))]))
  <2> DEFINE i == First(Deployments(d))
  <2>1. i \in DOMAIN d.workloads
    BY <1>12, <1>10, GrowsPlaces DEF Edit
  <2>2. HasNetFlag(Main(d.workloads[i]))
    BY <1>10, <1>12, <2>1 DEF Edit, Grows
  <2>3. Collector \in AllowedHosts(Main(a.workloads[i])) /\ i \in DOMAIN a.workloads
    BY <1>2, <1>12, <2>1, <2>2 DEF Edit, Grows
  <2>4. Collector \in AllowedHosts(Main(l.workloads[i]))
    <3> HIDE DEF i
    <3> QED BY <1>4, <2>3 DEF Edit, Grows
  <2> QED BY <1>7, <2>4
<1>13. Telemetry(e)
  BY <1>7, <1>11, <1>12 DEF Telemetry
<1> QED BY <1>1, <1>2, <1>4, <1>7, <1>10, <1>13

LEMMA ServicesDo ==
  ASSUME NEW d \in Docs, NEW creds \in SUBSET Services, NEW resolved,
         creds \subseteq DOMAIN d.contract,
         \A s \in creds : Urls[s].host # <<>>
  PROVE  LET e == WithServices(d, creds, resolved) IN
         /\ Edit(d, e, Endpoints(creds), {EgressRule(f) : f \in Endpoints(creds)})
         /\ Usable(d.contract, e, creds, resolved)
<1> DEFINE H == Endpoints(creds)
           R == {EgressRule(f) : f \in Endpoints(creds)}
<1>1. CASE creds = {}
  <2>1. WithServices(d, creds, resolved) = d
    BY <1>1 DEF WithServices
  <2>2. Usable(d.contract, d, creds, resolved)
    BY <1>1 DEF Usable
  <2> HIDE DEF R
  <2>3. Edit(d, d, H, R)
    BY EditNot
  <2> QED BY <2>1, <2>2, <2>3 DEF R
<1>2. CASE creds # {}
  <2> DEFINE a == enrichContractDeps(d, creds)
             b == InjectSecret(a, creds)
             c == patchDeploymentAllowNet(b, creds)
             e == patchNetworkPolicyExoEgress(c, creds, resolved)
  <2>1. WithServices(d, creds, resolved) = e
    BY <1>2 DEF WithServices
  <2>2. /\ Edit(d, a, {}, {})
        /\ \A s \in creds \cap DOMAIN d.contract :
             d.contract[s] # "odd" => a.contract[s] = "filled"
    BY EnrichDoes
  <2>3. a \in Docs
    BY <2>2 DEF Edit
  <2> HIDE DEF a
  <2>4. Edit(a, b, {}, {}) /\ b.contract = a.contract /\ creds \subseteq b.secret
    BY <2>3, InjectDoes
  <2>5. b \in Docs
    BY <2>4 DEF Edit
  <2> HIDE DEF b
  <2>6. /\ Edit(b, c, H, {})
        /\ c.contract = b.contract /\ c.secret = b.secret
        /\ WithFlag(b) # {} =>
             H \subseteq AllowedHosts(Main(c.workloads[First(WithFlag(b))]))
    BY <2>5, AllowNetDoes
  <2>7. c \in Docs
    BY <2>6 DEF Edit
  <2> HIDE DEF c
  <2>8. /\ Edit(c, e, {}, R)
        /\ e.workloads = c.workloads /\ e.contract = c.contract /\ e.secret = c.secret
        /\ OwnPolicies(c) # {} =>
             \A f \in H : isInClusterHost(f.host) \/ f.host \in resolved =>
               EgressRule(f) \in Range(e.policies[First(OwnPolicies(c))].egress)
    BY <2>7, ExoEgressDoes
  <2> HIDE DEF e, R
  <2>9. Edit(d, e, H, R)
    <3>1. Edit(d, d, H, R)
      BY EditNot
    <3>2. Edit(d, a, H, R)
      BY <2>2, <3>1, EditThen
    <3>3. Edit(d, b, H, R)
      BY <2>4, <3>2, EditThen
    <3>4. Edit(d, c, H, R)
      BY <2>6, <3>3, EditThen
    <3> QED BY <2>8, <3>4, EditThen
  <2>10. WithFlag(e) = WithFlag(b) /\ OwnPolicies(e) = OwnPolicies(c)
    BY <2>5, <2>6, <2>7, <2>8, GrowsPlaces DEF Edit
  <2>11. ASSUME NEW s \in creds, Endpoint(s).port # 0
         PROVE  Endpoint(s) \in H
    BY <2>11 DEF Endpoints, Endpoint, parseHostPort
  <2> HIDE DEF H
  <2>12. ASSUME NEW s \in creds
         PROVE  LET f == Endpoint(s) IN
                /\ s \in e.secret
                /\ d.contract[s] # "odd" => e.contract[s] = "filled"
                /\ f.port # 0 /\ WithFlag(e) # {} =>
                     f \in AllowedHosts(Main(e.workloads[First(WithFlag(e))]))
                /\ f.port # 0 /\ OwnPolicies(e) # {}
                     /\ (isInClusterHost(f.host) \/ f.host \in resolved) =>
                     EgressRule(f) \in Range(e.policies[First(OwnPolicies(e))].egress)
    <3> DEFINE f == Endpoint(s)
    <3>1. f.port # 0 => f \in H
      BY <2>11
    <3> HIDE DEF f
    <3>2. s \in e.secret /\ (d.contract[s] # "odd" => e.contract[s] = "filled")
      BY <2>2, <2>4, <2>6, <2>8
    <3>3. f.port # 0 /\ WithFlag(e) # {} =>
            f \in AllowedHosts(Main(e.workloads[First(WithFlag(e))]))
      BY <2>6, <2>8, <2>10, <3>1
    <3>4. f.port # 0 /\ OwnPolicies(e) # {}
            /\ (isInClusterHost(f.host) \/ f.host \in resolved) =>
            EgressRule(f) \in Range(e.policies[First(OwnPolicies(e))].egress)
      BY <2>8, <2>10, <3>1
    <3> QED BY <3>2, <3>3, <3>4 DEF f
  <2>13. Usable(d.contract, e, creds, resolved)
    BY <2>12 DEF Usable
  <2> QED BY <2>1, <2>9, <2>13 DEF H, R
<1> QED BY <1>1, <1>2

\* Reading the manifests back changes only what JSON does to the numbers.
LEMMA ReadBackDoes ==
  ASSUME NEW d \in Docs
  PROVE  LET e == ReadBack(d) IN
         e \in Docs /\ FromJson(e) /\ e.workloads = d.workloads
<1> DEFINE ps == [i \in DOMAIN d.policies |-> ReadPolicy(d.policies[i])]
           e == [d EXCEPT !.policies = ps]
<1>1. ReadBack(d) = e
  BY DEF ReadBack
<1>2. /\ d.policies \in Seq(Policies)
      /\ \A i \in DOMAIN d.policies :
           d.policies[i] \in Policies /\ d.policies[i].egress \in Seq(Rules)
  BY DocParts
<1>3. ASSUME NEW p \in Policies, p.egress \in Seq(Rules)
      PROVE  /\ ReadPolicy(p) \in Policies
             /\ \A r \in Range(ReadPolicy(p).egress) : r.json = TRUE
  <2> DEFINE s == [k \in DOMAIN p.egress |-> ReadRule(p.egress[k])]
  <2>1. \A k \in DOMAIN p.egress : s[k] \in Rules /\ s[k].json = TRUE
    <3>1. ASSUME NEW r \in Rules PROVE ReadRule(r) \in Rules
      BY DEF ReadRule, Rules
    <3>2. ASSUME NEW r \in Rules PROVE ReadRule(r).json = TRUE
      BY DEF ReadRule, Rules
    <3>3. \A k \in DOMAIN p.egress : p.egress[k] \in Rules
      BY <1>3
    <3> QED BY <3>1, <3>2, <3>3
  <2>2. DOMAIN p.egress = 1 .. Len(p.egress) /\ Len(p.egress) \in Nat
    BY <1>3
  <2>3. s = [k \in 1 .. Len(p.egress) |-> s[k]]
    BY <2>2
  <2>4. ReadPolicy(p) = [p EXCEPT !.egress = s]
    BY DEF ReadPolicy
  <2> HIDE DEF s
  <2>5. s \in Seq(Rules) /\ DOMAIN s = DOMAIN p.egress
    BY <2>1, <2>2, <2>3
  <2>6. ReadPolicy(p) \in Policies /\ ReadPolicy(p).egress = s
    BY <1>3, <2>4, <2>5 DEF Policies
  <2> QED BY <2>1, <2>5, <2>6 DEF Range
<1>4. \A i \in DOMAIN d.policies :
        /\ ps[i] \in Policies
        /\ \A r \in Range(ps[i].egress) : r.json = TRUE
  BY <1>2, <1>3
<1>5. DOMAIN d.policies = 1 .. Len(d.policies) /\ Len(d.policies) \in Nat
  BY <1>2
<1>6. ps = [i \in 1 .. Len(d.policies) |-> ps[i]] /\ DOMAIN ps = DOMAIN d.policies
  BY <1>5
<1> HIDE DEF ps
<1>7. ps \in Seq(Policies)
  BY <1>4, <1>5, <1>6
<1>8. e \in Docs /\ e.workloads = d.workloads /\ e.policies = ps
  BY <1>7 DEF Docs
<1>9. FromJson(e)
  <2>1. ASSUME NEW p \in Range(e.policies), NEW r \in Range(p.egress) PROVE r.json = TRUE
    <3>1. PICK i \in DOMAIN d.policies : p = ps[i]
      BY <1>6, <1>8 DEF Range
    <3> QED BY <1>4, <2>1, <3>1
  <2> QED BY <2>1, Zenon DEF FromJson
<1> QED BY <1>1, <1>8, <1>9

\* What ensurePSACompliance has completed is refused for a value of the author's.
LEMMA RefusedFor ==
  ASSUME NEW b \in Docs, NEW d \in Docs, ContextsKept(b, d),
         ~ValidatePSA(ensurePSACompliance(d))
  PROVE  \E w \in Range(b.workloads) : \E c \in AllContainers(w.pod) :
           \E f \in DOMAIN c.sc : c.sc[f] \in {"null", "bad"}
<1> DEFINE e == ensurePSACompliance(d)
<1>1. /\ DOMAIN e.workloads = DOMAIN d.workloads
      /\ \A i \in DOMAIN d.workloads :
           e.workloads[i].pod = ensurePodSpecPSA(d.workloads[i].pod)
  BY EnsureDoes
<1>2. PICK w \in Range(e.workloads) :
        \E c \in AllContainers(w.pod) : ~ValidContainer(w.pod, c)
  BY DEF ValidatePSA
<1> HIDE DEF e
<1>3. PICK i \in DOMAIN d.workloads : w = e.workloads[i]
  BY <1>1 DEF Range
<1> DEFINE p == d.workloads[i].pod
           q == w.pod
<1>4. p \in Pods /\ q = ensurePodSpecPSA(p)
  BY <1>1, <1>3, DocParts
<1>5. PICK c \in AllContainers(q) : ~ValidContainer(q, c)
  BY <1>2
<1> HIDE DEF p, q
<1>6. PICK a \in AllContainers(p) : a \in Containers /\ c = ensureContainer(a)
  BY <1>4, <1>5, EnsurePodDoes
<1>7. c.sc = Filled(a.sc) /\ a.sc \in [Fields -> Values]
  BY <1>6, EnsureContainerDoes DEF Containers
<1>8. \E f \in Fields : c.sc[f] # "good"
  BY <1>5 DEF ValidContainer, Fields
<1>9. PICK f \in Fields : c.sc[f] # "good"
  BY <1>8
<1>10. a.sc[f] \in {"null", "bad"} /\ DOMAIN a.sc = Fields
  BY <1>7, <1>9, SetIfAbsentType DEF Filled
<1> DEFINE o == b.workloads[i].pod
<1>11. /\ i \in DOMAIN b.workloads /\ SamePlaces(o, p)
       /\ \A k \in DOMAIN o.containers : p.containers[k].sc = o.containers[k].sc
       /\ \A k \in DOMAIN o.init : p.init[k].sc = o.init[k].sc
  BY DEF ContextsKept, p
<1>12. o = b.workloads[i].pod /\ b.workloads[i] \in Range(b.workloads)
  BY <1>11 DEF Range
<1> HIDE DEF o
<1>13. PICK h \in AllContainers(o) : h.sc = a.sc
  BY <1>6, <1>11 DEF AllContainers, Range, SamePlaces
<1> QED BY <1>9, <1>10, <1>12, <1>13

---------------------------------------------------------------------------
(* wf_apply *)

TentacleNames == [namespace : Names, workflow : LabelValues]
Creds(b) == Known(detectExoDeps(b))
GrantedHosts(b) == {Collector} \cup Endpoints(Creds(b))
GrantedRules(b) == {CollectorRule} \cup {EgressRule(e) : e \in GrantedHosts(b)}

OwnValues(b) ==
  \E w \in Range(b.workloads) : \E c \in AllContainers(w.pod) :
    \E f \in DOMAIN c.sc : c.sc[f] \in {"null", "bad"}

\* What ProcessManifests has made of the manifests b.
Processed(b, d, resolved) ==
  /\ Grows(b, d, GrantedHosts(b), GrantedRules(b))
  /\ config.enabled => Telemetry(d) /\ Usable(b.contract, d, Creds(b), resolved)

ManifestsInv ==
  /\ config \in Configs
  /\ known \in SUBSET TentacleNames
  /\ pc # "idle" =>
       /\ submitted = [tentacle |-> submitted.tentacle, doc |-> submitted.doc]
       /\ submitted.tentacle \in TentacleNames
       /\ submitted.doc \in Docs /\ doc \in Docs
  /\ pc = "submitted" => doc = submitted.doc /\ FromJson(doc)
  /\ pc \in {"processed", "applied"} => Processed(submitted.doc, doc, reached)
  /\ pc = "processed" => ContextsKept(submitted.doc, doc)
  /\ pc = "refused" => OwnValues(submitted.doc)

LEMMA ReceiveOK ==
  ASSUME ManifestsInv, NEW s, Receive(s), s = [tentacle |-> s.tentacle, doc |-> s.doc],
         s.tentacle \in TentacleNames, s.doc \in Docs, FromJson(s.doc)
  PROVE  ManifestsInv'
  BY DEF ManifestsInv, Receive

LEMMA CredsType ==
  ASSUME NEW b
  PROVE  Creds(b) \in SUBSET Services /\ Creds(b) \subseteq DOMAIN b.contract
  BY DEF Creds, Known, detectExoDeps

\* Telemetry only.
LEMMA PlainOK ==
  ASSUME ManifestsInv, ProcessPlain
  PROVE  ManifestsInv'
<1> DEFINE b == submitted.doc
<1>1. /\ doc = b /\ b \in Docs /\ FromJson(b) /\ doc' = WithTelemetry(b)
      /\ detectExoDeps(b) = {} /\ pc = "submitted" /\ pc' = "processed"
      /\ UNCHANGED <<config, submitted, reached, known>>
  BY DEF ManifestsInv, ProcessPlain
<1> HIDE DEF b
<1>2. Edit(b, doc', {Collector}, {CollectorRule}) /\ Telemetry(doc')
  BY <1>1, TelemetryDoes
<1>3. Edit(b, doc', GrantedHosts(b), GrantedRules(b))
  BY <1>1, <1>2, EditNot, EditThen DEF GrantedHosts, GrantedRules
<1>4. Creds(b) = {}
  BY <1>1 DEF Creds, Known
<1>5. Usable(b.contract, doc', Creds(b), reached)
  BY <1>4 DEF Usable
<1>6. Processed(submitted.doc, doc, reached)'
  BY <1>1, <1>2, <1>3, <1>5 DEF Processed, Edit, b
<1> QED BY <1>1, <1>3, <1>6 DEF ManifestsInv, Edit, b

\* Telemetry and the services.
LEMMA ServicesOK ==
  ASSUME ManifestsInv, ProcessServices
  PROVE  ManifestsInv'
<1> DEFINE b == submitted.doc
           a == WithTelemetry(b)
<1>1. /\ doc = b /\ b \in Docs /\ FromJson(b) /\ config \in Configs
      /\ Creds(b) \subseteq config.services
      /\ pc = "submitted" /\ pc' = "processed"
      /\ UNCHANGED <<config, submitted, known>>
  BY DEF ManifestsInv, ProcessServices, Creds
<1>2. PICK resolved \in SUBSET ExternalHosts, spireOk \in BOOLEAN :
        /\ doc' = IF config.spire /\ spireOk
                  THEN patchDeploymentSpireVolume(WithServices(a, Creds(b), resolved))
                  ELSE WithServices(a, Creds(b), resolved)
        /\ reached' = resolved
  BY <1>1 DEF ProcessServices, Creds
<1> HIDE DEF b
<1>3. /\ Edit(b, a, {Collector}, {CollectorRule}) /\ Telemetry(a)
      /\ a.contract = b.contract
  BY <1>1, TelemetryDoes
<1>4. a \in Docs
  BY <1>3 DEF Edit
<1> HIDE DEF a
<1>5. \A s \in Creds(b) : Urls[s].host # <<>>
  BY <1>1, ManifestsAssumption
<1> DEFINE e == WithServices(a, Creds(b), resolved)
           H == Endpoints(Creds(b))
           R == {EgressRule(f) : f \in Endpoints(Creds(b))}
<1>6. Edit(a, e, H, R) /\ Usable(b.contract, e, Creds(b), resolved)
  BY <1>3, <1>4, <1>5, CredsType, ServicesDo
<1>7. e \in Docs
  BY <1>6 DEF Edit
<1>8. /\ {Collector} \subseteq GrantedHosts(b) /\ {CollectorRule} \subseteq GrantedRules(b)
      /\ H \subseteq GrantedHosts(b) /\ R \subseteq GrantedRules(b)
  BY DEF GrantedHosts, GrantedRules
<1> HIDE DEF e, H, R
<1>9. Edit(b, a, GrantedHosts(b), GrantedRules(b))
  BY <1>1, <1>3, <1>8, EditNot, EditThen
<1>10. Edit(b, e, GrantedHosts(b), GrantedRules(b))
  BY <1>6, <1>8, <1>9, EditThen
<1>11. Telemetry(e)
  BY <1>3, <1>4, <1>6, TelemetryKept DEF Edit
<1>12. /\ doc' \in Docs /\ Grows(e, doc', {}, {}) /\ ContextsKept(e, doc')
       /\ doc'.contract = e.contract /\ doc'.secret = e.secret
  <2>1. CASE doc' = e
    BY <1>7, <2>1, EditNot DEF Edit
  <2>2. CASE doc' = patchDeploymentSpireVolume(e)
    BY <1>7, <2>2, SpireDoes
  <2> QED BY <1>2, <2>1, <2>2 DEF e
<1>13. /\ Grows(b, doc', GrantedHosts(b), GrantedRules(b))
       /\ ContextsKept(b, doc')
  BY <1>10, <1>12, GrowsThen, KeptThen DEF Edit
<1>14. Telemetry(doc') /\ Usable(b.contract, doc', Creds(b), resolved)
  BY <1>6, <1>7, <1>11, <1>12, TelemetryKept, UsableKept
<1>15. Processed(submitted.doc, doc, reached)'
  BY <1>1, <1>2, <1>13, <1>14 DEF Processed, b
<1> QED BY <1>1, <1>2, <1>12, <1>13, <1>15 DEF ManifestsInv, b

\* The manifests are completed, and applied or refused.
LEMMA ApplyOK ==
  ASSUME ManifestsInv, Apply
  PROVE  ManifestsInv'
<1> DEFINE b == submitted.doc
           d == ensurePSACompliance(doc)
<1>1. /\ b \in Docs /\ doc \in Docs /\ doc' = d
      /\ Processed(b, doc, reached) /\ ContextsKept(b, doc)
      /\ pc' = IF ValidatePSA(d) THEN "applied" ELSE "refused"
      /\ known' \subseteq known \cup {submitted.tentacle}
      /\ UNCHANGED <<config, submitted, reached>>
  BY DEF ManifestsInv, Apply
<1>2. /\ d \in Docs /\ Grows(doc, d, {}, {})
      /\ d.contract = doc.contract /\ d.secret = doc.secret
  BY <1>1, EnsureDoes
<1> HIDE DEF b
<1>3. ASSUME ~ValidatePSA(d) PROVE OwnValues(b)
  BY <1>1, <1>3, RefusedFor DEF OwnValues
<1> HIDE DEF d
<1>4. Grows(b, d, GrantedHosts(b), GrantedRules(b))
  BY <1>1, <1>2, GrowsThen DEF Processed
<1>5. config.enabled => Telemetry(d) /\ Usable(b.contract, d, Creds(b), reached)
  BY <1>1, <1>2, TelemetryKept, UsableKept DEF Processed
<1>6. Processed(submitted.doc, doc, reached)'
  BY <1>1, <1>4, <1>5 DEF Processed, b
<1>7. known' \in SUBSET TentacleNames
  BY <1>1 DEF ManifestsInv, Apply
<1>8. pc' \in {"applied", "refused"} /\ (pc' = "refused" => OwnValues(b))
  BY <1>1, <1>3
<1> QED BY <1>1, <1>2, <1>6, <1>7, <1>8 DEF ManifestsInv, Apply, b

LEMMA ManifestsInvInductive ==
  ASSUME ManifestsInv, [Next]_vars
  PROVE  ManifestsInv'
<1>1. ASSUME NEW s \in Submissions, Submit(s) PROVE ManifestsInv'
  BY <1>1, ReceiveOK, SubmissionsAssumption DEF Submit, TentacleNames
<1>2. CASE Resubmit
  <2> DEFINE s == [submitted EXCEPT !.doc = ReadBack(doc)]
  <2>1. /\ submitted = [tentacle |-> submitted.tentacle, doc |-> submitted.doc]
        /\ submitted.tentacle \in TentacleNames /\ doc \in Docs /\ Receive(s)
    BY <1>2 DEF ManifestsInv, Resubmit
  <2>2. ReadBack(doc) \in Docs /\ FromJson(ReadBack(doc))
    BY <2>1, ReadBackDoes
  <2>3. /\ s = [tentacle |-> s.tentacle, doc |-> s.doc]
        /\ s.tentacle = submitted.tentacle /\ s.doc = ReadBack(doc)
    BY <2>1
  <2> HIDE DEF s
  <2> QED BY <2>1, <2>2, <2>3, ReceiveOK
<1>3. CASE Disabled
  <2>1. /\ ~config.enabled /\ doc = submitted.doc /\ submitted.doc \in Docs
        /\ UNCHANGED <<config, level, submitted, doc, reached, known, applies>>
        /\ pc = "submitted" /\ pc' = "processed"
    BY <1>3 DEF Disabled, ManifestsInv
  <2>2. Processed(submitted.doc, doc, reached) /\ ContextsKept(submitted.doc, doc)
    BY <2>1, GrowsNot, KeptAll DEF Processed
  <2>3. Processed(submitted.doc, doc, reached)'
    BY <2>1, <2>2 DEF Processed
  <2> QED BY <2>1, <2>2, <2>3 DEF ManifestsInv
<1>4. CASE ProcessPlain
  BY <1>4, PlainOK
<1>5. CASE ProcessServices
  BY <1>5, ServicesOK
<1>6. CASE ProcessFail
  BY <1>6 DEF ProcessFail, ManifestsInv
<1>7. CASE Apply
  BY <1>7, ApplyOK
<1>8. CASE UNCHANGED vars
  BY <1>8 DEF vars, ManifestsInv, Processed
<1> QED BY <1>1, <1>2, <1>3, <1>4, <1>5, <1>6, <1>7, <1>8 DEF Next

LEMMA ManifestsInvAlways == Spec => []ManifestsInv
<1>1. Init => ManifestsInv
  BY DEF Init, ManifestsInv
<1>2. ManifestsInv /\ [Next]_vars => ManifestsInv'
  BY ManifestsInvInductive
<1> QED BY <1>1, <1>2, PTL DEF Spec

\* Every service a workflow was registered with can be used by it, whatever the
\* manifests looked like, the hosts of the services and the answers of DNS: the
\* patches of contract, Secret, flags and NetworkPolicy agree.
THEOREM RegisteredAlwaysReachable == Spec => []RegisteredIsReachable
<1>1. ManifestsInv => RegisteredIsReachable
  <2> SUFFICES ASSUME ManifestsInv, pc = "applied", config.enabled
               PROVE  RegisteredIsReachable
    BY DEF RegisteredIsReachable, Settled
  <2>1. Usable(submitted.doc.contract, doc, Creds(submitted.doc), reached)
    BY DEF ManifestsInv, Processed
  <2> QED BY <2>1 DEF RegisteredIsReachable, Usable, Creds, Before, WithFlag
<1> QED BY <1>1, ManifestsInvAlways, PTL

\* Telemetry reaches the collector, whatever rules the author's NetworkPolicy has,
\* also when manifests are applied again as they were read back.
THEOREM CollectorAlwaysReachable == Spec => []CollectorReachable
<1>1. ManifestsInv => CollectorReachable
  <2> SUFFICES ASSUME ManifestsInv, pc = "applied", config.enabled
               PROVE  CollectorReachable
    BY DEF CollectorReachable, Settled
  <2>1. Telemetry(doc)
    BY DEF ManifestsInv, Processed
  <2> QED BY <2>1, CollectorIs DEF CollectorReachable, Telemetry
<1> QED BY <1>1, ManifestsInvAlways, PTL

\* ProcessManifests opens the collector and the services of the contract, in the
\* workflow's own NetworkPolicies and the first containers, and nothing else.
THEOREM NeverOpensMore == Spec => []NothingElseOpened
<1>1. ManifestsInv => NothingElseOpened
  <2> SUFFICES ASSUME ManifestsInv, pc = "applied"
               PROVE  NothingElseOpened
    BY DEF NothingElseOpened, Settled
  <2>1. Grows(Before, doc, GrantedHosts(Before), GrantedRules(Before))
    BY DEF ManifestsInv, Processed, Before
  <2>2. ASSUME NEW i \in DOMAIN doc.policies
        PROVE  LET new == Range(doc.policies[i].egress) \ Range(Before.policies[i].egress) IN
               IF Before.policies[i].own THEN new \subseteq GrantedRules(Before)
               ELSE new = {}
    BY <2>1, <2>2 DEF Grows
  <2>3. ASSUME NEW i \in DOMAIN doc.workloads
        PROVE  AllowedHosts(Main(doc.workloads[i])) \
                 AllowedHosts(Main(Before.workloads[i]))
                 \subseteq GrantedHosts(Before)
    BY <2>1, <2>3 DEF Grows
  <2> QED BY <2>2, <2>3 DEF NothingElseOpened, GrantedHosts, GrantedRules, Creds
<1> QED BY <1>1, ManifestsInvAlways, PTL

\* wf_apply refuses manifests only for values their author has set, at any level
\* of the namespace and whatever the patches before did to the pods.
THEOREM AlwaysRefusedForOwnValues == Spec => []RefusedOnlyForOwnValues
<1>1. ManifestsInv => RefusedOnlyForOwnValues
  BY DEF ManifestsInv, RefusedOnlyForOwnValues, OwnValues, Before
<1> QED BY <1>1, ManifestsInvAlways, PTL

---------------------------------------------------------------------------
(* Volumes and mounts of what is applied *)

\* The author's own volumes and mounts fit together, and the path of the SPIRE
\* socket is left to wf_apply.
OwnMountsFit == \A s \in Submissions : MountsFit(s.doc)

TmpMounted(d) ==
  \A w \in Range(d.workloads) : \A c \in AllContainers(w.pod) :
    c.sc.roFS = "good" => MountsTmp(c)

MountsInv ==
  /\ pc # "idle" => MountsFit(doc)
  /\ pc = "applied" => TmpMounted(doc)

LEMMA EnsureTmp ==
  ASSUME NEW d \in Docs
  PROVE  TmpMounted(ensurePSACompliance(d))
<1> DEFINE e == ensurePSACompliance(d)
<1>1. /\ DOMAIN e.workloads = DOMAIN d.workloads
      /\ \A i \in DOMAIN d.workloads :
           e.workloads[i].pod = ensurePodSpecPSA(d.workloads[i].pod)
  BY EnsureDoes
<1> HIDE DEF e
<1> SUFFICES ASSUME NEW w \in Range(e.workloads), NEW c \in AllContainers(w.pod)
             PROVE  c.sc.roFS = "good" => MountsTmp(c)
  BY DEF TmpMounted, e
<1>2. PICK i \in DOMAIN d.workloads : w = e.workloads[i]
  BY <1>1 DEF Range
<1>3. /\ d.workloads[i].pod \in Pods
      /\ c \in AllContainers(ensurePodSpecPSA(d.workloads[i].pod))
  BY <1>1, <1>2, DocParts
<1>4. PICK b \in Containers : c = ensureContainer(b)
  BY <1>3, EnsurePodDoes
<1> QED BY <1>4, EnsureContainerDoes

LEMMA MountsInvInductive ==
  ASSUME OwnMountsFit, ManifestsInv, MountsInv, [Next]_vars
  PROVE  MountsInv'
<1>1. ASSUME NEW s \in Submissions, Submit(s) PROVE MountsInv'
  BY <1>1 DEF Submit, Receive, MountsInv, OwnMountsFit
<1>2. CASE Resubmit
  <2>1. /\ doc \in Docs /\ MountsFit(doc) /\ pc' = "submitted"
        /\ doc' = [submitted EXCEPT !.doc = ReadBack(doc)].doc
    BY <1>2 DEF ManifestsInv, MountsInv, Resubmit, Receive
  <2>2. submitted = [tentacle |-> submitted.tentacle, doc |-> submitted.doc]
    BY <1>2 DEF ManifestsInv, Resubmit
  <2>3. doc' = ReadBack(doc)
    BY <2>1, <2>2
  <2>4. MountsFit(doc')
    BY <2>1, <2>3, ReadBackDoes DEF MountsFit
  <2> QED BY <2>1, <2>4 DEF MountsInv
<1>3. CASE Disabled
  BY <1>3 DEF Disabled, MountsInv
<1>4. CASE ProcessPlain
  <2>1. /\ doc \in Docs /\ FromJson(doc) /\ MountsFit(doc)
        /\ doc' = WithTelemetry(doc) /\ pc' = "processed"
    BY <1>4 DEF ProcessPlain, ManifestsInv, MountsInv
  <2>2. MountsFit(doc')
    BY <2>1, TelemetryDoes, FitKept DEF Edit
  <2> QED BY <2>1, <2>2 DEF MountsInv
<1>5. CASE ProcessServices
  <2> DEFINE a == WithTelemetry(doc)
  <2>1. /\ doc \in Docs /\ FromJson(doc) /\ MountsFit(doc) /\ config \in Configs
        /\ Creds(doc) \subseteq config.services /\ pc' = "processed"
    BY <1>5 DEF ProcessServices, ManifestsInv, MountsInv, Creds
  <2>2. PICK resolved \in SUBSET ExternalHosts, spireOk \in BOOLEAN :
          doc' = IF config.spire /\ spireOk
                 THEN patchDeploymentSpireVolume(WithServices(a, Creds(doc), resolved))
                 ELSE WithServices(a, Creds(doc), resolved)
    BY <1>5 DEF ProcessServices, Creds
  <2>3. a \in Docs /\ MountsFit(a) /\ a.contract = doc.contract
    BY <2>1, TelemetryDoes, FitKept DEF Edit
  <2> HIDE DEF a
  <2> DEFINE e == WithServices(a, Creds(doc), resolved)
  <2>4. \A s \in Creds(doc) : Urls[s].host # <<>>
    BY <2>1, ManifestsAssumption
  <2>5. e \in Docs /\ VolumesKept(a, e)
    BY <2>3, <2>4, CredsType, ServicesDo DEF Edit
  <2> HIDE DEF e
  <2>6. MountsFit(e)
    BY <2>3, <2>5, FitKept
  <2>7. doc' \in {e, patchDeploymentSpireVolume(e)}
    BY <2>2 DEF e
  <2>8. MountsFit(doc')
    BY <2>5, <2>6, <2>7, SpireDoes
  <2> QED BY <2>1, <2>8 DEF MountsInv
<1>6. CASE ProcessFail
  BY <1>6 DEF ProcessFail, MountsInv
<1>7. CASE Apply
  <2>1. doc \in Docs /\ MountsFit(doc) /\ doc' = ensurePSACompliance(doc)
    BY <1>7 DEF Apply, ManifestsInv, MountsInv
  <2>2. MountsFit(doc') /\ TmpMounted(doc')
    BY <2>1, EnsureDoes, EnsureTmp
  <2> QED BY <2>2 DEF MountsInv
<1>8. CASE UNCHANGED vars
  BY <1>8 DEF vars, MountsInv
<1> QED BY <1>1, <1>2, <1>3, <1>4, <1>5, <1>6, <1>7, <1>8 DEF Next

\* A pod that is applied can be created, if the author's own volumes and mounts
\* fit together: the patches that add the SPIRE volume and /tmp neither repeat a
\* volume or a path nor forget one, however often manifests are read and applied.
THEOREM MountsAlwaysWork ==
  ASSUME OwnMountsFit
  PROVE  Spec => []MountsWork
<1>1. Init => MountsInv
  BY DEF Init, MountsInv
<1>2. ManifestsInv /\ MountsInv /\ [Next]_vars => MountsInv'
  BY MountsInvInductive
<1>3. ManifestsInv /\ MountsInv => MountsWork
  <2> SUFFICES ASSUME ManifestsInv, MountsInv, pc = "applied",
                      NEW w \in Range(doc.workloads)
               PROVE  /\ DistinctVolumes(w.pod.volumes)
                      /\ \A c \in AllContainers(w.pod) :
                           /\ ContainerFits(c, w.pod.volumes)
                           /\ c.sc.roFS = "good" => MountsTmp(c)
    BY DEF MountsWork, Settled, DistinctVolumes, DistinctPaths, ContainerFits
  <2>1. PodFits(w.pod) /\ TmpMounted(doc)
    BY DEF MountsInv, MountsFit, Range
  <2> QED BY <2>1 DEF PodFits, TmpMounted
<1> QED BY <1>1, <1>2, <1>3, ManifestsInvAlways, PTL DEF Spec

---------------------------------------------------------------------------
(* The names of tentacles *)

Chars ==
  Text \cup {"tn_", "_", "_policy", "tentacular-", "tentacular.", "tentacle.", ".",
             "spiffe://tentacular/ns/", "/tentacles/", "ns/", "/"}

\* What is where in the two parts of a name and what is between them.
LEMMA Pair ==
  ASSUME NEW n \in Seq(Chars), NEW m \in Seq(Chars), NEW x \in Chars, NEW y \in Chars
  PROVE  LET u == <<x>> \o n \o <<y>> \o m IN
         /\ u \in Seq(Chars)
         /\ Len(u) = Len(n) + Len(m) + 2
         /\ \A i \in 1 .. Len(n) : u[i + 1] = n[i]
         /\ u[Len(n) + 2] = y
         /\ \A i \in 1 .. Len(m) : u[i + Len(n) + 2] = m[i]
<1> DEFINE a == <<x>> \o n
           b == a \o <<y>>
           u == b \o m
<1>1. <<x>> \in Seq(Chars) /\ <<y>> \in Seq(Chars)
  OBVIOUS
<1>2. /\ a \in Seq(Chars) /\ Len(a) = Len(n) + 1
      /\ \A i \in 1 .. Len(n) : a[i + 1] = n[i]
  BY <1>1
<1> HIDE DEF a
<1>3. /\ b \in Seq(Chars) /\ Len(b) = Len(n) + 2
      /\ \A i \in 1 .. Len(n) : b[i + 1] = n[i]
      /\ b[Len(n) + 2] = y
  BY <1>1, <1>2
<1> HIDE DEF b
<1>4. /\ u \in Seq(Chars) /\ Len(u) = Len(n) + Len(m) + 2
      /\ Len(n) \in Nat /\ Len(m) \in Nat
      /\ \A i \in 1 .. Len(b) : u[i] = b[i]
  <2>1. b \in Seq(Chars)
    BY <1>3
  <2>2. b \o m \in Seq(Chars)
    BY <2>1
  <2>3. Len(b \o m) = Len(b) + Len(m)
    BY <2>1
  <2>4. Len(n) \in Nat /\ Len(m) \in Nat
    OBVIOUS
  <2>5. ASSUME NEW i \in 1 .. Len(b) PROVE (b \o m)[i] = b[i]
    BY <2>1
  <2> QED BY <1>3, <2>2, <2>3, <2>4, <2>5
<1>5. /\ \A i \in 1 .. Len(n) : u[i + 1] = n[i]
      /\ u[Len(n) + 2] = y
  BY <1>3, <1>4
<1>6. ASSUME NEW i \in 1 .. Len(m) PROVE u[i + Len(n) + 2] = m[i]
  <2>1. i + Len(n) + 2 \in 1 .. Len(b) + Len(m) /\ ~(i + Len(n) + 2 <= Len(b))
    BY <1>3, <1>4
  <2>2. (i + Len(n) + 2) - Len(b) = i
    BY <1>3, <1>4
  <2> QED BY <1>3, <2>1, <2>2
<1> QED BY <1>4, <1>5, <1>6 DEF b, a

\* u has n as its first part, up to the separator y.
FirstPart(u, n, y) == (\A i \in 1 .. Len(n) : u[i + 1] = n[i]) /\ u[Len(n) + 2] = y
Agree(u, v, len) == \A i \in 1 .. len : u[i] = v[i]

\* The first part of a name ends where its separator is.
LEMMA SamePart ==
  ASSUME NEW n \in Seq(Chars), NEW k \in Seq(Chars), NEW u, NEW v, NEW y,
         y \notin Range(n), y \notin Range(k),
         FirstPart(u, n, y), FirstPart(v, k, y), Agree(u, v, Len(n) + 2)
  PROVE  n = k
<1> USE DEF FirstPart, Agree
<1>1. /\ Len(n) \in Nat /\ Len(k) \in Nat
      /\ \A i \in 1 .. Len(n) : n[i] \in Range(n)
      /\ \A i \in 1 .. Len(k) : k[i] \in Range(k)
  BY DEF Range
<1>2. ~(Len(n) < Len(k))
  <2> SUFFICES ASSUME Len(n) < Len(k) PROVE FALSE
    OBVIOUS
  <2>1. v[Len(n) + 2] = k[Len(n) + 1] /\ k[Len(n) + 1] \in Range(k)
    BY <1>1
  <2> QED BY <1>1, <2>1
<1>3. ~(Len(k) < Len(n))
  <2> SUFFICES ASSUME Len(k) < Len(n) PROVE FALSE
    OBVIOUS
  <2>1. u[Len(k) + 2] = n[Len(k) + 1] /\ n[Len(k) + 1] \in Range(n)
    BY <1>1
  <2>2. u[Len(k) + 2] = v[Len(k) + 2]
    BY <1>1
  <2> QED BY <2>1, <2>2
<1>4. Len(n) = Len(k)
  BY <1>1, <1>2, <1>3
<1>5. \A i \in 1 .. Len(n) : n[i] = k[i]
  <2> TAKE i \in 1 .. Len(n)
  <2>1. i + 1 \in 1 .. Len(n) + 2
    BY <1>1
  <2> QED BY <1>4, <2>1
<1> QED BY <1>4, <1>5

\* A name of two parts stands for one pair.
LEMMA PairInjective ==
  ASSUME NEW n \in Seq(Chars), NEW m \in Seq(Chars), NEW k \in Seq(Chars),
         NEW l \in Seq(Chars), NEW x \in Chars, NEW y \in Chars,
         y \notin Range(n), y \notin Range(k),
         <<x>> \o n \o <<y>> \o m = <<x>> \o k \o <<y>> \o l
  PROVE  n = k /\ m = l
<1> DEFINE u == <<x>> \o n \o <<y>> \o m
           v == <<x>> \o k \o <<y>> \o l
<1>1. /\ u \in Seq(Chars) /\ Len(u) = Len(n) + Len(m) + 2
      /\ \A i \in 1 .. Len(n) : u[i + 1] = n[i]
      /\ u[Len(n) + 2] = y
      /\ \A i \in 1 .. Len(m) : u[i + Len(n) + 2] = m[i]
  BY Pair
<1>2. /\ v \in Seq(Chars) /\ Len(v) = Len(k) + Len(l) + 2
      /\ \A i \in 1 .. Len(k) : v[i + 1] = k[i]
      /\ v[Len(k) + 2] = y
      /\ \A i \in 1 .. Len(l) : v[i + Len(k) + 2] = l[i]
  BY Pair
<1>3. u = v
  OBVIOUS
<1> HIDE DEF u, v
<1>4. n = k
  <2>1. FirstPart(u, n, y) /\ FirstPart(v, k, y) /\ Agree(u, v, Len(n) + 2)
    BY <1>1, <1>2, <1>3 DEF FirstPart, Agree
  <2> QED BY <2>1, SamePart
<1>5. Len(m) = Len(l) /\ \A i \in 1 .. Len(m) : m[i] = l[i]
  BY <1>1, <1>2, <1>3, <1>4
<1> QED BY <1>4, <1>5

\* A name of two parts and an end is the prefix of no other.
LEMMA PairNoPrefix ==
  ASSUME NEW n \in Seq(Chars), NEW m \in Seq(Chars), NEW k \in Seq(Chars),
         NEW l \in Seq(Chars), NEW x \in Chars, NEW y \in Chars, NEW z \in Chars,
         y \notin Range(n), y \notin Range(k), z \notin Range(l),
         IsPrefix(<<x>> \o n \o <<y>> \o m \o <<z>>, <<x>> \o k \o <<y>> \o l \o <<z>>)
  PROVE  n = k /\ m = l
<1> DEFINE u == <<x>> \o n \o <<y>> \o m
           v == <<x>> \o k \o <<y>> \o l
           a == u \o <<z>>
           b == v \o <<z>>
<1>1. /\ u \in Seq(Chars) /\ Len(u) = Len(n) + Len(m) + 2
      /\ \A i \in 1 .. Len(n) : u[i + 1] = n[i]
      /\ u[Len(n) + 2] = y
      /\ \A i \in 1 .. Len(m) : u[i + Len(n) + 2] = m[i]
  BY Pair
<1>2. /\ v \in Seq(Chars) /\ Len(v) = Len(k) + Len(l) + 2
      /\ \A i \in 1 .. Len(k) : v[i + 1] = k[i]
      /\ v[Len(k) + 2] = y
      /\ \A i \in 1 .. Len(l) : v[i + Len(k) + 2] = l[i]
  BY Pair
<1>3. IsPrefix(a, b)
  OBVIOUS
<1> HIDE DEF u, v
<1>4. /\ a \in Seq(Chars) /\ Len(a) = Len(u) + 1 /\ a[Len(u) + 1] = z
      /\ \A i \in 1 .. Len(u) : a[i] = u[i]
  BY <1>1
<1>5. /\ b \in Seq(Chars) /\ Len(b) = Len(v) + 1 /\ b[Len(v) + 1] = z
      /\ \A i \in 1 .. Len(v) : b[i] = v[i]
  BY <1>2
<1> HIDE DEF a, b
<1>6. Len(a) <= Len(b) /\ \A i \in 1 .. Len(a) : a[i] = b[i]
  <2>1. Len(a) <= Len(b) /\ SubSeq(a, 1, Len(a)) = SubSeq(b, 1, Len(a))
    BY <1>3 DEF IsPrefix
  <2>2. ASSUME NEW i \in 1 .. Len(a)
        PROVE  SubSeq(a, 1, Len(a))[i] = a[i] /\ SubSeq(b, 1, Len(a))[i] = b[i]
    BY <1>4, <1>5, <2>1, <2>2
  <2> QED BY <2>1, <2>2
<1>7. Len(u) <= Len(v) /\ \A i \in 1 .. Len(u) : u[i] = v[i]
  BY <1>1, <1>2, <1>4, <1>5, <1>6
<1>8. n = k
  <2>1. FirstPart(u, n, y) /\ FirstPart(v, k, y)
    BY <1>1, <1>2 DEF FirstPart
  <2>2. Agree(u, v, Len(n) + 2)
    BY <1>1, <1>7 DEF Agree
  <2> QED BY <2>1, <2>2, SamePart
<1>9. Len(m) <= Len(l) /\ \A i \in 1 .. Len(m) : m[i] = l[i]
  <2>1. Len(m) <= Len(l)
    BY <1>1, <1>2, <1>7, <1>8
  <2>2. ASSUME NEW i \in 1 .. Len(m) PROVE m[i] = l[i]
    <3>1. i + Len(n) + 2 \in 1 .. Len(u) /\ i \in 1 .. Len(l)
      BY <1>1, <2>1, <2>2
    <3> QED BY <1>1, <1>2, <1>7, <1>8, <2>2, <3>1
  <2> QED BY <2>1, <2>2
<1>10. ~(Len(m) < Len(l))
  <2> SUFFICES ASSUME Len(m) < Len(l) PROVE FALSE
    OBVIOUS
  <2>1. Len(u) + 1 \in 1 .. Len(v) /\ b[Len(u) + 1] = z
    BY <1>1, <1>2, <1>4, <1>5, <1>6, <1>8
  <2>2. v[Len(u) + 1] = z
    BY <1>5, <2>1
  <2>3. Len(m) + 1 \in 1 .. Len(l) /\ Len(u) + 1 = (Len(m) + 1) + Len(k) + 2
    BY <1>1, <1>8
  <2>4. l[Len(m) + 1] = z
    BY <1>2, <2>2, <2>3
  <2> QED BY <2>3, <2>4 DEF Range
<1> QED BY <1>8, <1>9, <1>10

\* truncatePg and truncateS3Bucket keep names apart, since the hash does.
LEMMA TruncatedInjective ==
  ASSUME NEW a \in Seq(Chars), NEW b \in Seq(Chars), a # <<>>, b # <<>>,
         Truncated(a) = Truncated(b)
  PROVE  a = b
<1>1. CASE Len(a) <= MaxIdentLen /\ Len(b) <= MaxIdentLen
  <2>1. Truncated(a).text = a /\ Truncated(b).text = b
    BY <1>1 DEF Truncated
  <2> QED BY <2>1
<1>2. CASE Len(a) <= MaxIdentLen /\ ~(Len(b) <= MaxIdentLen)
  <2>1. Truncated(a).hash = <<>> /\ Truncated(b).hash = b
    BY <1>2 DEF Truncated
  <2> QED BY <2>1
<1>3. CASE ~(Len(a) <= MaxIdentLen) /\ Len(b) <= MaxIdentLen
  <2>1. Truncated(a).hash = a /\ Truncated(b).hash = <<>>
    BY <1>3 DEF Truncated
  <2> QED BY <2>1
<1>4. CASE ~(Len(a) <= MaxIdentLen) /\ ~(Len(b) <= MaxIdentLen)
  <2>1. Truncated(a).hash = a /\ Truncated(b).hash = b
    BY <1>4 DEF Truncated
  <2> QED BY <2>1
<1> QED BY <1>1, <1>2, <1>3, <1>4

LEMMA WorkflowParts ==
  ASSUME NEW n \in LabelValues
  PROVE  n \in Seq(Chars) /\ "/" \notin Range(n) /\ "/tentacles/" \notin Range(n)
<1>1. n \in Seq(Text) /\ Range(n) \cap {"/", "/tentacles/"} = {}
  BY DEF LabelValues
<1>2. n \in Seq(Chars)
  <2>1. Text \subseteq Chars
    BY DEF Chars
  <2> QED BY <1>1, <2>1
<1> QED BY <1>1, <1>2

LEMMA NameParts ==
  ASSUME NEW n \in Names
  PROVE  /\ n \in LabelValues /\ n \in Seq(Chars) /\ IsDnsLabel(n)
         /\ "." \notin Range(n) /\ "/tentacles/" \notin Range(n)
<1>1. n \in LabelValues /\ IsDnsLabel(n)
  BY DEF Names
<1>2. "." \notin Range(n)
  BY <1>1 DEF IsDnsLabel
<1> QED BY <1>1, <1>2, WorkflowParts

\* What replacePg makes of a character of a DNS label: hyphens are the only ones
\* that become underscores, and nothing becomes a dot.
LEMMA LabelChars ==
  ASSUME NEW n \in LabelValues, IsDnsLabel(n), NEW i \in DOMAIN n
  PROVE  /\ n[i] # "_" /\ n[i] # "."
         /\ pgChar(n[i]) = IF n[i] = "-" THEN "_" ELSE n[i]
         /\ pgChar(n[i]) # "."
<1>1. n[i] \in Range(n)
  BY DEF Range
<1>2. n[i] # "_" /\ n[i] # "." /\ n[i] \notin DOMAIN Lower
  BY <1>1 DEF IsDnsLabel
<1>3. pgChar(n[i]) = IF n[i] = "-" THEN "_" ELSE n[i]
  BY <1>2 DEF pgChar
<1> QED BY <1>2, <1>3

\* DNS labels can be told apart after replacePg.
LEMMA LabelReplaced ==
  ASSUME NEW n \in LabelValues, IsDnsLabel(n)
  PROVE  /\ DOMAIN replacePg(n) = 1 .. Len(n)
         /\ \A i \in 1 .. Len(n) : replacePg(n)[i] = IF n[i] = "-" THEN "_" ELSE n[i]
         /\ replacePg(n) \in Seq(Chars)
<1>1. n \in Seq(Chars)
  BY WorkflowParts
<1>2. Len(n) \in Nat /\ DOMAIN n = 1 .. Len(n) /\ \A i \in 1 .. Len(n) : n[i] \in Chars
  BY <1>1
<1> DEFINE r == [i \in DOMAIN n |-> pgChar(n[i])]
<1>3. "." \notin Range(r)
  <2>1. \A i \in DOMAIN n : r[i] # "."
    BY LabelChars
  <2>2. DOMAIN r = DOMAIN n
    OBVIOUS
  <2> HIDE DEF r
  <2> QED BY <2>1, <2>2 DEF Range
<1>4. replacePg(n) = r
  BY <1>3 DEF replacePg
<1>5. \A i \in DOMAIN n : r[i] = IF n[i] = "-" THEN "_" ELSE n[i]
  BY LabelChars
<1>6. \A i \in 1 .. Len(n) : r[i] \in Chars
  <2>1. "_" \in Chars
    BY DEF Chars
  <2> HIDE DEF r
  <2> QED BY <1>2, <1>5, <2>1
<1>7. r \in [1 .. Len(n) -> Chars]
  <2>1. r \in [DOMAIN n -> Chars]
    BY <1>2, <1>6
  <2> HIDE DEF r
  <2> QED BY <1>2, <2>1
<1>8. r \in Seq(Chars)
  <2>1. Len(n) \in Nat
    BY <1>2
  <2> HIDE DEF r
  <2> QED BY <1>7, <2>1
<1>9. DOMAIN r = 1 .. Len(n)
  BY <1>2
<1> HIDE DEF r
<1> QED BY <1>2, <1>4, <1>5, <1>8, <1>9

LEMMA ReplacedInjective ==
  ASSUME NEW n \in LabelValues, NEW k \in LabelValues, IsDnsLabel(n), IsDnsLabel(k)
  PROVE  /\ replacePg(n) \in Seq(Chars)
         /\ replacePg(n) = replacePg(k) => n = k
<1>1. /\ n \in Seq(Chars) /\ DOMAIN n = 1 .. Len(n) /\ Len(n) \in Nat
      /\ k \in Seq(Chars) /\ DOMAIN k = 1 .. Len(k) /\ Len(k) \in Nat
  <2>1. n \in Seq(Chars) /\ k \in Seq(Chars)
    BY WorkflowParts
  <2> QED BY <2>1
<1>2. replacePg(n) \in Seq(Chars)
  BY LabelReplaced
<1>3. ASSUME replacePg(n) = replacePg(k) PROVE n = k
  <2>1. DOMAIN replacePg(n) = 1 .. Len(n) /\ DOMAIN replacePg(k) = 1 .. Len(k)
    BY LabelReplaced
  <2>2. Len(n) = Len(k)
    <3>1. 1 .. Len(n) = 1 .. Len(k) /\ Len(n) \in Nat /\ Len(k) \in Nat
      BY <1>1, <1>3, <2>1
    <3> QED BY <3>1
  <2>3. ASSUME NEW i \in 1 .. Len(n) PROVE n[i] = k[i]
    <3>1. i \in DOMAIN n /\ i \in DOMAIN k /\ i \in 1 .. Len(k)
      BY <1>1, <2>2
    <3>2. /\ replacePg(n)[i] = IF n[i] = "-" THEN "_" ELSE n[i]
          /\ replacePg(k)[i] = IF k[i] = "-" THEN "_" ELSE k[i]
      BY <3>1, LabelReplaced
    <3>3. n[i] # "_" /\ k[i] # "_"
      BY <3>1, LabelChars
    <3> QED BY <1>3, <3>2, <3>3
  <2>4. n \in Seq(Chars) /\ k \in Seq(Chars)
    BY <1>1
  <2> QED BY <2>2, <2>3, <2>4
<1> QED BY <1>2, <1>3

LEMMA FixedChars ==
  {"tn_", "_", "_policy", "tentacular-", "tentacular.", "tentacle.", ".",
   "spiffe://tentacular/ns/", "/tentacles/", "ns/", "/"} \subseteq Chars
  BY DEF Chars

\* Adding the same at the front or at the end keeps sequences apart.
LEMMA Cancel ==
  ASSUME NEW a \in Seq(Chars), NEW b \in Seq(Chars), NEW c \in Seq(Chars)
  PROVE  /\ c \o a = c \o b => a = b
         /\ a \o c = b \o c => a = b
<1>1. /\ Len(c \o a) = Len(c) + Len(a) /\ Len(c \o b) = Len(c) + Len(b)
      /\ Len(a \o c) = Len(a) + Len(c) /\ Len(b \o c) = Len(b) + Len(c)
      /\ Len(a) \in Nat /\ Len(b) \in Nat /\ Len(c) \in Nat
  OBVIOUS
<1>2. ASSUME c \o a = c \o b PROVE a = b
  <2>1. Len(a) = Len(b)
    BY <1>1, <1>2
  <2>2. ASSUME NEW i \in 1 .. Len(a) PROVE a[i] = b[i]
    <3>1. (c \o a)[i + Len(c)] = a[i]
      OBVIOUS
    <3>2. (c \o b)[i + Len(c)] = b[i]
      BY <2>1
    <3> QED BY <1>2, <3>1, <3>2
  <2> QED BY <2>1, <2>2
<1>3. ASSUME a \o c = b \o c PROVE a = b
  <2>1. Len(a) = Len(b)
    BY <1>1, <1>3
  <2>2. ASSUME NEW i \in 1 .. Len(a) PROVE a[i] = b[i]
    <3>1. (a \o c)[i] = a[i]
      OBVIOUS
    <3>2. (b \o c)[i] = b[i]
      BY <2>1
    <3> QED BY <1>3, <3>1, <3>2
  <2> QED BY <2>1, <2>2
<1> QED BY <1>2, <1>3

LEMMA TentaclesDisjoint ==
  ASSUME NEW s \in TentacleNames, NEW t \in TentacleNames, s # t
  PROVE  /\ Disjoint(s, t)
         /\ "." \notin Range(t.workflow) => SubjectsApart(s, t)
<1> DEFINE n == s.namespace
           m == s.workflow
           k == t.namespace
           l == t.workflow
<1>1. n \in Names /\ m \in LabelValues /\ k \in Names /\ l \in LabelValues
  BY DEF TentacleNames
<1>2. ~(n = k /\ m = l)
  BY DEF TentacleNames
<1>3. /\ n \in Seq(Chars) /\ m \in Seq(Chars) /\ k \in Seq(Chars) /\ l \in Seq(Chars)
      /\ "." \notin Range(n) /\ "." \notin Range(k) /\ "/" \notin Range(l)
      /\ "/tentacles/" \notin Range(n) /\ "/tentacles/" \notin Range(k)
  <2> HIDE DEF n, m, k, l
  <2> QED BY <1>1, NameParts, WorkflowParts
<1>4. /\ "tentacular." \in Chars /\ "." \in Chars /\ "ns/" \in Chars
      /\ "/tentacles/" \in Chars /\ "/" \in Chars /\ "tentacle." \in Chars
      /\ "spiffe://tentacular/ns/" \in Chars
  BY FixedChars
<1> HIDE DEF n, m, k, l
<1>5. ASSUME "." \notin Range(l)
      PROVE  ~IsPrefix(<<"tentacular.">> \o n \o <<".">> \o m \o <<".">>,
                       <<"tentacular.">> \o k \o <<".">> \o l \o <<".">>)
  BY <1>2, <1>3, <1>4, <1>5, PairNoPrefix
<1>6. ~IsPrefix(<<"ns/">> \o n \o <<"/tentacles/">> \o m \o <<"/">>,
                <<"ns/">> \o k \o <<"/tentacles/">> \o l \o <<"/">>)
  BY <1>2, <1>3, <1>4, PairNoPrefix
<1>7. <<"tentacle.">> \o n \o <<".">> \o m # <<"tentacle.">> \o k \o <<".">> \o l
  BY <1>2, <1>3, <1>4, PairInjective
<1>8. <<"spiffe://tentacular/ns/">> \o n \o <<"/tentacles/">> \o m #
      <<"spiffe://tentacular/ns/">> \o k \o <<"/tentacles/">> \o l
  BY <1>2, <1>3, <1>4, PairInjective
<1>9. Disjoint(s, t)
  BY <1>6, <1>7, <1>8 DEF Disjoint, CompileIdentity, n, m, k, l
<1>10. "." \notin Range(t.workflow) => SubjectsApart(s, t)
  BY <1>5 DEF SubjectsApart, CompileIdentity, n, m, k, l
<1> QED BY <1>9, <1>10

\* Cut or not, a name tells the rest apart when its start is the same.
LEMMA CutStart ==
  ASSUME NEW a \in Seq(Chars), NEW b \in Seq(Chars), NEW c \in Seq(Chars),
         c # <<>>, Truncated(c \o a) = Truncated(c \o b)
  PROVE  a = b
<1>1. c \o a \in Seq(Chars) /\ c \o b \in Seq(Chars) /\ c \o a # <<>> /\ c \o b # <<>>
  OBVIOUS
<1>2. c \o a = c \o b
  BY <1>1, TruncatedInjective
<1> QED BY <1>2, Cancel

\* The same with a fixed end.
LEMMA CutBoth ==
  ASSUME NEW a \in Seq(Chars), NEW b \in Seq(Chars), NEW c \in Seq(Chars),
         NEW e \in Seq(Chars), c # <<>>, Truncated(c \o a \o e) = Truncated(c \o b \o e)
  PROVE  a = b
<1>1. /\ c \o a \in Seq(Chars) /\ c \o b \in Seq(Chars)
      /\ c \o a \o e \in Seq(Chars) /\ c \o b \o e \in Seq(Chars)
      /\ c \o a \o e # <<>> /\ c \o b \o e # <<>>
  OBVIOUS
<1>2. c \o a \o e = c \o b \o e
  BY <1>1, TruncatedInjective
<1>3. c \o a = c \o b
  <2> DEFINE u == c \o a
             v == c \o b
  <2>1. u \in Seq(Chars) /\ v \in Seq(Chars) /\ u \o e = v \o e
    BY <1>1, <1>2
  <2> HIDE DEF u, v
  <2>2. u = v
    BY <2>1, Cancel
  <2> QED BY <2>2 DEF u, v
<1> QED BY <1>3, Cancel

LEMMA AccountsDiffer ==
  ASSUME NEW s \in TentacleNames, NEW t \in TentacleNames, s # t,
         s.namespace = t.namespace, IsDnsLabel(s.workflow), IsDnsLabel(t.workflow)
  PROVE  DifferentAccounts(s, t)
<1> DEFINE n == s.namespace
           m == s.workflow
           l == t.workflow
<1>1. /\ n \in Names /\ m \in LabelValues /\ l \in LabelValues
      /\ IsDnsLabel(m) /\ IsDnsLabel(l) /\ m # l /\ t.namespace = n
  BY DEF TentacleNames
<1>2. "tn_" \in Chars /\ "_" \in Chars /\ "_policy" \in Chars
  BY FixedChars
<1> DEFINE a == replacePg(m)
           b == replacePg(l)
           c == <<"tn_">> \o replacePg(n) \o <<"_">>
           e == <<"_policy">>
<1> HIDE DEF n, m, l
<1>3. a \in Seq(Chars) /\ b \in Seq(Chars) /\ a # b
  BY <1>1, ReplacedInjective
<1>4. c \in Seq(Chars) /\ c # <<>> /\ e \in Seq(Chars)
  <2>1. ASSUME NEW r \in Seq(Chars), NEW x \in Chars, NEW y \in Chars
        PROVE  <<x>> \o r \o <<y>> \in Seq(Chars) /\ <<x>> \o r \o <<y>> # <<>>
    OBVIOUS
  <2>2. replacePg(n) \in Seq(Chars)
    BY <1>1, NameParts, LabelReplaced
  <2>3. c \in Seq(Chars) /\ c # <<>>
    BY <1>2, <2>1, <2>2
  <2>4. ASSUME NEW x \in Chars PROVE <<x>> \in Seq(Chars)
    OBVIOUS
  <2>5. e \in Seq(Chars)
    BY <1>2, <2>4
  <2> QED BY <2>3, <2>5
<1> HIDE DEF a, b, c, e
<1>5. Truncated(c \o a) # Truncated(c \o b)
  BY <1>3, <1>4, CutStart
<1>6. Truncated(c \o a \o e) # Truncated(c \o b \o e)
  BY <1>3, <1>4, CutBoth
<1>7. /\ sanitizePg(s.namespace, s.workflow) = Truncated(c \o a)
      /\ sanitizePg(t.namespace, t.workflow) = Truncated(c \o b)
  BY <1>1 DEF sanitizePg, a, b, c, n, m, l
<1>8. /\ CompileIdentity(s).PgRole = Truncated(c \o a)
      /\ CompileIdentity(s).S3User = Truncated(c \o a)
      /\ CompileIdentity(s).S3Policy = Truncated(c \o a \o e)
  BY <1>7 DEF CompileIdentity, a, c, e, n, m
<1>9. /\ CompileIdentity(t).PgRole = Truncated(c \o b)
      /\ CompileIdentity(t).S3User = Truncated(c \o b)
      /\ CompileIdentity(t).S3Policy = Truncated(c \o b \o e)
  BY <1>1, <1>7 DEF CompileIdentity, b, c, e, n, l
<1> QED BY <1>5, <1>6, <1>8, <1>9 DEF DifferentAccounts

LEMMA EnclavesDiffer ==
  ASSUME NEW n \in Names, NEW k \in Names, n # k
  PROVE  DifferentEnclaves(n, k)
<1>1. /\ n \in Seq(Chars) /\ n \in LabelValues /\ IsDnsLabel(n)
      /\ k \in Seq(Chars) /\ k \in LabelValues /\ IsDnsLabel(k)
  BY NameParts
<1> DEFINE a == replacePg(n)
           b == replacePg(k)
<1>2. a \in Seq(Chars) /\ b \in Seq(Chars) /\ a # b
  BY <1>1, ReplacedInjective
<1>3. "tn_" \in Chars /\ "tentacular-" \in Chars /\ "tentacular." \in Chars
  BY FixedChars
<1>4. ASSUME NEW x \in Chars PROVE <<x>> \in Seq(Chars) /\ <<x>> # <<>>
  OBVIOUS
<1> HIDE DEF a, b
<1>5. Truncated(<<"tn_">> \o a) # Truncated(<<"tn_">> \o b)
  BY <1>2, <1>3, <1>4, CutStart
<1>6. Truncated(<<"tentacular-">> \o n) # Truncated(<<"tentacular-">> \o k)
  BY <1>1, <1>3, <1>4, CutStart
<1>7. <<"tentacular.">> \o n # <<"tentacular.">> \o k
  BY <1>1, <1>3, <1>4, Cancel
<1> QED BY <1>5, <1>6, <1>7 DEF DifferentEnclaves, CompileEnclaveIdentity, a, b

\* The identity compiler gives no two tentacles S3 prefixes, NATS users or
\* principals that overlap, and no other tentacle the subjects of one whose name has
\* no dot; no two DNS labels of an enclave share a database role or a storage
\* account, and no two enclaves a database, a bucket or a NATS account.
THEOREM NamesAlwaysKeepApart == Spec => []NamesKeepApart
<1>1. ManifestsInv => NamesKeepApart
  <2> SUFFICES ASSUME ManifestsInv, NEW s \in known, NEW t \in known
               PROVE  /\ s # t =>
                           /\ Disjoint(s, t)
                           /\ "." \notin Range(t.workflow) => SubjectsApart(s, t)
                           /\ /\ s.namespace = t.namespace
                              /\ IsDnsLabel(s.workflow) /\ IsDnsLabel(t.workflow)
                              => DifferentAccounts(s, t)
                      /\ s.namespace # t.namespace =>
                           DifferentEnclaves(s.namespace, t.namespace)
    BY DEF NamesKeepApart
  <2>1. s \in TentacleNames /\ t \in TentacleNames
    BY DEF ManifestsInv
  <2>2. s.namespace \in Names /\ t.namespace \in Names
    BY <2>1 DEF TentacleNames
  <2> QED BY <2>1, <2>2, TentaclesDisjoint, AccountsDiffer, EnclavesDiffer
<1> QED BY <1>1, ManifestsInvAlways, PTL
=============================================================================
