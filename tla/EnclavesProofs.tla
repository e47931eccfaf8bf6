--------------------------- MODULE EnclavesProofs ---------------------------
(***************************************************************************)
(* Proofs about Enclaves, for any number of calls, namespaces, emails and  *)
(* requests: type correctness, the price of a retry, that enclave_sync is  *)
(* atomic, that nothing stays half provisioned, that annotations and quota *)
(* agree, that member lists are well formed, and the limit per owner.      *)
(*                                                                         *)
(* The argument for the first three: a call that has read the namespace    *)
(* carries a snapshot the request was checked against; versions only grow, *)
(* and as long as the version is the snapshot's so are the annotations.    *)
(* The others rest on what each call has made of the namespace so far.     *)
(***************************************************************************)
EXTENDS Enclaves, EnclaveSyncProofs

\* What enclave_provision has validated when it annotates the namespace.
ProvOK(x) ==
  /\ x \in ProvCalls
  /\ x.pc # "idle" =>
       /\ x.req \in ProvisionRequests
       /\ x.req.deployer.provider = "oidc" => x.req.deployer.email # Empty
       /\ x.req.preset # Invalid
       /\ ValidateMembers(x.req.members)
  /\ x.pc \in {"get", "annotate", "resources", "services"} => x.req.mode # Invalid
  /\ x.pc # "services" /\ x.pc # "rollback" => x.step < Len(ProvisionSteps)

DeprovOK(x) ==
  /\ x \in DeprovCalls
  /\ x.pc # "idle" => x.req \in DeprovisionRequests

TypeInv ==
  /\ TypeOK
  /\ \A c \in Syncers : SyncOK(sync[c])
  /\ \A p \in Provisioners : ProvOK(prov[p])
  /\ \A d \in Deprovisioners : DeprovOK(deprov[d])

\* What a call knows of the namespace o it is about.
CallCurrent(x, o) ==
  /\ x.pc = "get" /\ x.attempt > 0 => o.rv >= x.startRv + x.attempt
  /\ x.pc \notin {"idle", "get"} =>
       /\ o.rv >= x.snap.rv
       /\ x.snap.rv >= x.startRv + x.attempt
       /\ o.phase # "Absent" /\ o.rv = x.snap.rv => o.ann = x.snap.ann

Current ==
  \A c \in Syncers : sync[c].pc # "idle" => CallCurrent(sync[c], ns[Name(c)])

\* What EnclaveSyncProofs needs.
LEMMA SyncTypes == TypeInv => SyncTypeInv
  BY DEF TypeInv, TypeOK, SyncTypeInv

\* A call that is not in flight is well formed.
LEMMA IdleOK == ProvOK(IdleProv) /\ DeprovOK(IdleDeprov)
<1>1. 0 \in 0 .. Len(ProvisionSteps) /\ 0 < Len(ProvisionSteps)
  BY DEF ProvisionSteps
<1> QED BY <1>1 DEF ProvOK, IdleProv, ProvCalls, DeprovOK, IdleDeprov, DeprovCalls

---------------------------------------------------------------------------
(* The calls of enclave_provision and enclave_deprovision *)

\* ProvisionSteps names seven objects.
LEMMA StepsType ==
  /\ Len(ProvisionSteps) = 7
  /\ \A i \in 1 .. 7 : ProvisionSteps[i] \in Resources \cup {"resource-quota"}
  BY DEF ProvisionSteps, Resources

\* What enclave_provision writes are the annotations of an enclave.
LEMMA ProvisionedInfoType ==
  ASSUME NEW r \in ProvisionRequests,
         r.deployer.provider = "oidc" => r.deployer.email # Empty,
         r.preset # Invalid, r.mode # Invalid
  PROVE  ProvisionedInfo(r) \in EnclaveInfo
<1>1. /\ r.owner \in Emails /\ r.ownerSub \in Emails \cup {Empty}
      /\ r.members \in Seq(Emails) /\ r.channelName \in Channels \cup {Empty}
      /\ r.mode \in Modes \cup {Empty} /\ r.preset \in Presets \cup {Empty}
      /\ r.deployer.email \in Emails \cup {Empty}
  BY LifecycleAssumption DEF Deployers
<1>2. ProvisionOwner(r) \in Emails
  BY <1>1 DEF ProvisionOwner
<1>3. (IF r.preset = Empty THEN "medium" ELSE r.preset) \in Presets
  BY <1>1 DEF Presets
<1>4. (IF r.deployer.provider = "oidc" THEN r.deployer.email ELSE r.ownerSub)
        \in Emails \cup {Empty}
  BY <1>1
<1> QED BY <1>1, <1>2, <1>3, <1>4 DEF ProvisionedInfo, EnclaveInfo, Statuses

\* Every step of enclave_provision changes its own call, and leaves it and the
\* cluster's objects well formed.
LEMMA ProvisionType ==
  ASSUME TypeInv, NEW p \in Provisioners, ProvisionStep(p) \/ ProvisionFail(p)
  PROVE  /\ \E y : prov' = [prov EXCEPT ![p] = y] /\ ProvOK(y)
         /\ ClusterTypeOK'
<1> DEFINE x == prov[p]
           n == Target(p)
           at(loc) == [x EXCEPT !.pc = loc]
           Goal == /\ \E y : prov' = [prov EXCEPT ![p] = y] /\ ProvOK(y)
                   /\ ClusterTypeOK'
<1> SUFFICES Goal
  OBVIOUS
<1>0. ProvOK(x) /\ ClusterTypeOK /\ prov \in [Provisioners -> ProvCalls]
  BY DEF TypeInv, TypeOK
<1>1. ASSUME x.pc # "idle"
      PROVE  n \in Namespaces /\ ns[n] \in NsObjects
  BY <1>0, <1>1, LifecycleAssumption DEF ProvOK, Target, ClusterTypeOK
<1>2. ASSUME UNCHANGED clusterVars PROVE ClusterTypeOK'
  BY <1>0, <1>2 DEF clusterVars, ClusterTypeOK
<1>3. ASSUME ProvReturn(p), ClusterTypeOK' PROVE Goal
  BY <1>3, IdleOK DEF ProvReturn
<1>4. ASSUME x.pc # "idle", ProvGoto(p, "rollback"), ClusterTypeOK' PROVE Goal
  <2>1. prov' = [prov EXCEPT ![p] = at("rollback")]
    BY <1>4 DEF ProvGoto
  <2>2. ProvOK(at("rollback"))
    BY <1>0, <1>4 DEF ProvOK, ProvCalls
  <2> QED BY <1>4, <2>1, <2>2
<1>5. CASE ProvisionCount(p)
  <2>1. x.pc = "count" /\ ClusterTypeOK'
    BY <1>2, <1>5 DEF ProvisionCount
  <2>2. CASE ProvReturn(p)
    BY <1>3, <2>1, <2>2
  <2>3. CASE ProvGoto(p, "create")
    <3>1. ProvOK(at("create"))
      BY <1>0, <2>1 DEF ProvOK, ProvCalls
    <3> QED BY <2>1, <2>3, <3>1 DEF ProvGoto
  <2> QED BY <1>5, <2>2, <2>3 DEF ProvisionCount
<1>6. CASE ProvisionCreate(p)
  <2>1. x.pc = "create"
    BY <1>6 DEF ProvisionCreate
  <2>2. CASE ProvReturn(p) /\ UNCHANGED ns
    BY <1>0, <1>3, <1>6, <2>2 DEF ProvisionCreate, ClusterTypeOK
  <2>3. CASE ~(ProvReturn(p) /\ UNCHANGED ns)
    <3> DEFINE o == [phase |-> "Active", rv |-> ns[n].rv + 1, uid |-> ns[n].rv + 1,
                     ann |-> Empty]
               loc == IF ValidateEnclaveInfo(x.req) THEN "get" ELSE "rollback"
               y == [x EXCEPT !.uid = ns[n].rv + 1, !.pc = loc]
    <3>1. ns' = [ns EXCEPT ![n] = o] /\ prov' = [prov EXCEPT ![p] = y]
      BY <1>6, <2>3 DEF ProvisionCreate
    <3>2. o \in NsObjects /\ ns[n].rv + 1 \in Nat
      BY <1>1, <2>1 DEF NsObjects
    <3> HIDE DEF o
    <3>3. ClusterTypeOK'
      BY <1>0, <1>6, <3>1, <3>2 DEF ProvisionCreate, ClusterTypeOK
    <3>4. loc \in {"get", "rollback"} /\ (loc = "get" => x.req.mode # Invalid)
      BY DEF ValidateEnclaveInfo
    <3> HIDE DEF loc
    <3>5. ProvOK(y)
      BY <1>0, <2>1, <3>2, <3>4 DEF ProvOK, ProvCalls
    <3> QED BY <3>1, <3>3, <3>5
  <2> QED BY <2>2, <2>3
<1>7. CASE ProvisionGet(p)
  <2> DEFINE y == [x EXCEPT !.rv = ns[n].rv, !.pc = "annotate"]
  <2>1. x.pc = "get" /\ ClusterTypeOK'
    BY <1>2, <1>7 DEF ProvisionGet
  <2>2. ns[n].rv \in Nat
    BY <1>1, <2>1 DEF NsObjects
  <2>3. ProvOK(y)
    BY <1>0, <2>1, <2>2 DEF ProvOK, ProvCalls
  <2>4. ProvGoto(p, "rollback") \/ prov' = [prov EXCEPT ![p] = y]
    BY <1>7 DEF ProvisionGet
  <2> QED BY <1>4, <2>1, <2>3, <2>4
<1>8. CASE ProvisionAnnotate(p)
  <2>1. x.pc = "annotate"
    BY <1>8 DEF ProvisionAnnotate
  <2>2. CASE ProvGoto(p, "rollback") /\ UNCHANGED ns
    BY <1>0, <1>4, <1>8, <2>1, <2>2 DEF ProvisionAnnotate, ClusterTypeOK
  <2>3. CASE ~(ProvGoto(p, "rollback") /\ UNCHANGED ns)
    <3> DEFINE o == Annotated(ns[n], ProvisionedInfo(x.req))
    <3>1. /\ ns' = [ns EXCEPT ![n] = o]
          /\ prov' = [prov EXCEPT ![p] = at("resources")]
      BY <1>8, <2>3 DEF ProvisionAnnotate, ProvGoto
    <3>2. ProvisionedInfo(x.req) \in EnclaveInfo
      BY <1>0, <2>1, ProvisionedInfoType DEF ProvOK
    <3>3. o \in NsObjects
      BY <1>1, <2>1, <3>2, NsWritten
    <3> HIDE DEF o
    <3>4. ClusterTypeOK'
      BY <1>0, <1>8, <3>1, <3>3 DEF ProvisionAnnotate, ClusterTypeOK
    <3>5. x.step < Len(ProvisionSteps)
      BY <1>0, <2>1 DEF ProvOK
    <3>6. ProvOK(at("resources"))
      BY <1>0, <2>1, <3>5 DEF ProvOK, ProvCalls
    <3> QED BY <3>1, <3>4, <3>6
  <2> QED BY <2>2, <2>3
<1>9. CASE ProvisionResource(p)
  <2> DEFINE object == ProvisionSteps[x.step + 1]
             next == IF x.step + 1 = Len(ProvisionSteps) THEN "services"
                     ELSE "resources"
             y == [x EXCEPT !.step = @ + 1, !.pc = next]
             q == [exists |-> TRUE, rv |-> quota[n].rv + 1, kind |-> "requests",
                   preset |-> ProvisionedInfo(x.req).preset]
  <2>1. x.pc = "resources" /\ n \in Namespaces
    BY <1>1, <1>9 DEF ProvisionResource
  <2>2. CASE ProvGoto(p, "rollback") /\ UNCHANGED <<quota, res>>
    BY <1>0, <1>4, <1>9, <2>1, <2>2 DEF ProvisionResource, ClusterTypeOK
  <2>3. CASE ~(ProvGoto(p, "rollback") /\ UNCHANGED <<quota, res>>)
    <3>1. /\ prov' = [prov EXCEPT ![p] = y]
          /\ \/ quota' = [quota EXCEPT ![n] = q] /\ UNCHANGED res
             \/ /\ object # "resource-quota"
                /\ res' = [res EXCEPT ![n] = @ \cup {object}] /\ UNCHANGED quota
      BY <1>9, <2>3 DEF ProvisionResource
    <3>2. x.step \in 0 .. 7 /\ x.step < 7
      BY <1>0, <2>1, StepsType DEF ProvOK, ProvCalls
    <3>3. object \in Resources \cup {"resource-quota"}
      BY <3>2, StepsType
    <3>4. ProvisionedInfo(x.req).preset \in Presets
      <4>1. ProvisionedInfo(x.req) \in EnclaveInfo
        BY <1>0, <2>1, ProvisionedInfoType DEF ProvOK
      <4> QED BY <4>1 DEF EnclaveInfo
    <3>5. q \in QuotaObjects
      BY <1>0, <2>1, <3>4 DEF ClusterTypeOK, QuotaObjects
    <3>6. /\ next \in {"services", "resources"}
          /\ next = "resources" => x.step + 1 < Len(ProvisionSteps)
          /\ x.step + 1 \in 0 .. Len(ProvisionSteps)
      BY <3>2, StepsType
    <3> HIDE DEF q, object, next
    <3>7. ClusterTypeOK'
      <4>1. quota' \in [Namespaces -> QuotaObjects]
        BY <1>0, <3>1, <3>5 DEF ClusterTypeOK
      <4>2. res[n] \in SUBSET Resources
        BY <1>0, <2>1 DEF ClusterTypeOK
      <4>3. object # "resource-quota" => res[n] \cup {object} \in SUBSET Resources
        BY <3>3, <4>2
      <4>4. res' \in [Namespaces -> SUBSET Resources]
        BY <1>0, <3>1, <4>3 DEF ClusterTypeOK
      <4> QED BY <1>0, <1>9, <4>1, <4>4 DEF ProvisionResource, ClusterTypeOK
    <3>8. ProvOK(y)
      BY <1>0, <2>1, <3>6 DEF ProvOK, ProvCalls
    <3> QED BY <3>1, <3>7, <3>8
  <2> QED BY <2>2, <2>3
<1>10. CASE ProvisionServices(p)
  BY <1>2, <1>3, <1>10 DEF ProvisionServices
<1>11. CASE ProvisionRollback(p)
  <2>1. x.pc = "rollback"
    BY <1>11 DEF ProvisionRollback
  <2>2. DeletedNs(ns[n]) \in NsObjects
    BY <1>1, <2>1, NsWritten
  <2>3. ClusterTypeOK'
    BY <1>0, <1>11, <2>2 DEF ProvisionRollback, ClusterTypeOK
  <2> QED BY <1>3, <1>11, <2>3 DEF ProvisionRollback
<1>12. CASE ProvisionFail(p)
  <2>1. ClusterTypeOK'
    BY <1>2, <1>12 DEF ProvisionFail
  <2> QED BY <1>3, <1>4, <1>12, <2>1 DEF ProvisionFail
<1> HIDE DEF Goal
<1> QED BY <1>5, <1>6, <1>7, <1>8, <1>9, <1>10, <1>11, <1>12 DEF ProvisionStep

\* The same of enclave_deprovision.
LEMMA DeprovisionType ==
  ASSUME TypeInv, NEW d \in Deprovisioners, DeprovisionStep(d) \/ DeprovisionFail(d)
  PROVE  /\ \E y : deprov' = [deprov EXCEPT ![d] = y] /\ DeprovOK(y)
         /\ ClusterTypeOK'
<1> DEFINE x == deprov[d]
           n == Doomed(d)
           Goal == /\ \E y : deprov' = [deprov EXCEPT ![d] = y] /\ DeprovOK(y)
                   /\ ClusterTypeOK'
<1> SUFFICES Goal
  OBVIOUS
<1>0. DeprovOK(x) /\ ClusterTypeOK /\ deprov \in [Deprovisioners -> DeprovCalls]
  BY DEF TypeInv, TypeOK
<1>1. ASSUME x.pc # "idle" PROVE n \in Namespaces
  BY <1>0, <1>1, LifecycleAssumption DEF DeprovOK, Doomed
<1>2. ASSUME UNCHANGED clusterVars PROVE ClusterTypeOK'
  BY <1>0, <1>2 DEF clusterVars, ClusterTypeOK
<1>3. ASSUME DeprovReturn(d), ClusterTypeOK' PROVE Goal
  BY <1>3, IdleOK DEF DeprovReturn
<1>4. ASSUME x.pc # "idle", NEW loc \in {"list", "deps", "delete"},
             NEW left \in SUBSET Tentacles, ClusterTypeOK',
             deprov' = [deprov EXCEPT ![d] = [x EXCEPT !.left = left, !.pc = loc]]
      PROVE  Goal
  <2>1. DeprovOK([x EXCEPT !.left = left, !.pc = loc])
    BY <1>0, <1>4 DEF DeprovOK, DeprovCalls
  <2> QED BY <1>4, <2>1
<1>5. ASSUME x.pc # "idle", NEW loc \in {"list", "deps", "delete"}, ClusterTypeOK',
             deprov' = [deprov EXCEPT ![d].pc = loc]
      PROVE  Goal
  <2>1. x.left \in SUBSET Tentacles
    BY <1>0 DEF DeprovOK, DeprovCalls
  <2>2. [x EXCEPT !.left = x.left, !.pc = loc] = [x EXCEPT !.pc = loc]
    BY <1>0 DEF DeprovOK, DeprovCalls
  <2> QED BY <1>4, <1>5, <2>1, <2>2
<1>6. CASE DeprovisionGet(d)
  BY <1>2, <1>3, <1>5, <1>6 DEF DeprovisionGet
<1>7. CASE DeprovisionList(d)
  <2> DEFINE found == {t \in Tentacles : deps[n][t].exists}
             loc == IF found = {} THEN "delete" ELSE "deps"
  <2>1. /\ x.pc = "list" /\ ClusterTypeOK'
        /\ deprov' = [deprov EXCEPT ![d] = [x EXCEPT !.left = found, !.pc = loc]]
    BY <1>2, <1>7 DEF DeprovisionList
  <2>2. found \in SUBSET Tentacles /\ loc \in {"list", "deps", "delete"}
    OBVIOUS
  <2> HIDE DEF found, loc
  <2> QED BY <1>4, <2>1, <2>2
<1>8. ASSUME NEW t \in Tentacles, DeprovisionDeployment(d, t) PROVE Goal
  <2> DEFINE left == x.left \ {t}
             loc == IF x.left = {t} THEN "delete" ELSE "deps"
             o == [exists |-> FALSE, rv |-> deps[n][t].rv, owner |-> Empty,
                   ownerSub |-> Empty]
  <2>1. /\ x.pc = "deps"
        /\ deprov' = [deprov EXCEPT ![d] = [x EXCEPT !.left = left, !.pc = loc]]
        /\ \/ deps' = deps
           \/ deps' = [deps EXCEPT ![n] = [deps[n] EXCEPT ![t] = o]]
    BY <1>8 DEF DeprovisionDeployment
  <2>2. left \in SUBSET Tentacles /\ loc \in {"list", "deps", "delete"}
    BY <1>0 DEF DeprovOK, DeprovCalls
  <2>3. n \in Namespaces /\ deps[n] \in [Tentacles -> DepObjects]
    BY <1>0, <1>1, <2>1 DEF ClusterTypeOK
  <2>4. o \in DepObjects
    BY <2>3 DEF DepObjects
  <2> HIDE DEF o, left, loc
  <2>5. ClusterTypeOK'
    <3>1. [deps[n] EXCEPT ![t] = o] \in [Tentacles -> DepObjects]
      BY <2>3, <2>4
    <3>2. deps' \in [Namespaces -> [Tentacles -> DepObjects]]
      BY <1>0, <2>1, <2>3, <3>1 DEF ClusterTypeOK
    <3> QED BY <1>0, <1>8, <3>2 DEF DeprovisionDeployment, ClusterTypeOK
  <2> QED BY <1>4, <2>1, <2>2, <2>5
<1>9. CASE DeprovisionNamespace(d)
  <2>1. n \in Namespaces
    BY <1>1, <1>9 DEF DeprovisionNamespace
  <2>2. DeletedNs(ns[n]) \in NsObjects
    BY <1>0, <2>1, NsWritten DEF ClusterTypeOK
  <2>3. ClusterTypeOK'
    BY <1>0, <1>9, <2>2 DEF DeprovisionNamespace, ClusterTypeOK
  <2> QED BY <1>3, <1>9, <2>3 DEF DeprovisionNamespace
<1>10. CASE DeprovisionFail(d)
  BY <1>2, <1>3, <1>5, <1>10 DEF DeprovisionFail
<1> HIDE DEF Goal
<1> QED BY <1>6, <1>7, <1>8, <1>9, <1>10 DEF DeprovisionStep

\* The cluster's own controllers keep the objects well typed.
LEMMA ClusterType ==
  ASSUME ClusterTypeOK, ClusterNext
  PROVE  ClusterTypeOK'
<1>1. ASSUME NEW n \in Namespaces, NEW t \in Tentacles, DeploymentStatusUpdate(n, t)
      PROVE  ClusterTypeOK'
  <2> DEFINE o == [deps[n][t] EXCEPT !.rv = @ + 1]
  <2>1. deps[n] \in [Tentacles -> DepObjects] /\ deps[n][t] \in DepObjects
    BY DEF ClusterTypeOK
  <2>2. o \in DepObjects
    BY <2>1 DEF DepObjects
  <2>3. deps' = [deps EXCEPT ![n] = [deps[n] EXCEPT ![t] = o]]
    BY <1>1 DEF DeploymentStatusUpdate
  <2> HIDE DEF o
  <2>4. [deps[n] EXCEPT ![t] = o] \in [Tentacles -> DepObjects]
    BY <2>1, <2>2
  <2>5. deps' \in [Namespaces -> [Tentacles -> DepObjects]]
    BY <2>3, <2>4 DEF ClusterTypeOK
  <2> QED BY <1>1, <2>5 DEF DeploymentStatusUpdate, ClusterTypeOK
<1>2. ASSUME NEW n \in Namespaces, FinalizeNamespace(n) PROVE ClusterTypeOK'
  <2> DEFINE o == [phase |-> "Absent", rv |-> ns[n].rv, uid |-> ns[n].uid,
                   ann |-> Empty]
             gone == [t \in Tentacles |->
                       [exists |-> FALSE, rv |-> deps[n][t].rv, owner |-> Empty,
                        ownerSub |-> Empty]]
             q == [quota[n] EXCEPT !.exists = FALSE]
  <2>1. /\ ns[n] \in NsObjects /\ quota[n] \in QuotaObjects
        /\ deps[n] \in [Tentacles -> DepObjects]
    BY DEF ClusterTypeOK
  <2>2. o \in NsObjects
    BY <2>1 DEF NsObjects
  <2>3. gone \in [Tentacles -> DepObjects]
    BY <2>1 DEF DepObjects
  <2>4. q \in QuotaObjects
    BY <2>1 DEF QuotaObjects
  <2>5. /\ ns' = [ns EXCEPT ![n] = o]
        /\ deps' = [deps EXCEPT ![n] = gone]
        /\ quota' = [quota EXCEPT ![n] = q]
        /\ res' = [res EXCEPT ![n] = {}]
    BY <1>2 DEF FinalizeNamespace
  <2> HIDE DEF o, gone, q
  <2> QED BY <2>2, <2>3, <2>4, <2>5 DEF ClusterTypeOK
<1> QED BY <1>1, <1>2 DEF ClusterNext

---------------------------------------------------------------------------
(* Type correctness *)

\* The inductive invariant holds initially.
LEMMA TypeInit == Init => TypeInv
<1> SUFFICES ASSUME Init PROVE TypeInv
  OBVIOUS
<1>1. ClusterTypeOK
  <2>1. PICK enclaves \in InitialEnclaves, owners \in InitialOwners :
          LET there(n) == enclaves[n] # Empty
              deployed(n, t) == there(n) /\ owners[n][t] # Empty
              one(b) == IF b THEN 1 ELSE 0 IN
          /\ ns = [n \in Namespaces |->
               [phase |-> IF there(n) THEN "Active" ELSE "Absent",
                rv |-> one(there(n)), uid |-> one(there(n)), ann |-> enclaves[n]]]
          /\ deps = [n \in Namespaces |-> [t \in Tentacles |->
               [exists |-> deployed(n, t), rv |-> one(deployed(n, t)),
                owner |-> IF deployed(n, t) THEN owners[n][t] ELSE Empty,
                ownerSub |-> IF deployed(n, t) THEN owners[n][t] ELSE Empty]]]
          /\ quota = [n \in Namespaces |->
               [exists |-> there(n), rv |-> one(there(n)), kind |-> "requests",
                preset |-> IF there(n) THEN enclaves[n].preset ELSE "medium"]]
          /\ res = [n \in Namespaces |-> IF there(n) THEN Resources ELSE {}]
    BY DEF Init, ClusterInit
  <2>2. /\ enclaves \in [Namespaces -> EnclaveInfo \cup {Empty}]
        /\ owners \in [Namespaces -> [Tentacles -> Emails \cup {Empty}]]
    BY InitialAssumption
  <2>3. ns \in [Namespaces -> NsObjects]
    BY <2>1, <2>2 DEF NsObjects
  <2>4. deps \in [Namespaces -> [Tentacles -> DepObjects]]
    BY <2>1, <2>2 DEF DepObjects
  <2>5. \A n \in Namespaces : enclaves[n] # Empty => enclaves[n].preset \in Presets
    BY <2>2 DEF EnclaveInfo
  <2>6. quota \in [Namespaces -> QuotaObjects]
    BY <2>1, <2>5 DEF QuotaObjects, Presets
  <2>7. res \in [Namespaces -> SUBSET Resources]
    BY <2>1
  <2> QED BY <2>3, <2>4, <2>6, <2>7 DEF ClusterTypeOK
<1>2. /\ sync \in [Syncers -> SyncCalls] /\ \A c \in Syncers : SyncOK(sync[c])
      /\ syncCount \in Nat /\ dirtyQuota \in SUBSET Namespaces
  BY IdleSyncOK DEF Init, SyncInit, SyncOK
<1>3. /\ prov \in [Provisioners -> ProvCalls]
      /\ \A p \in Provisioners : ProvOK(prov[p])
      /\ deprov \in [Deprovisioners -> DeprovCalls]
      /\ \A d \in Deprovisioners : DeprovOK(deprov[d])
      /\ provCount \in Nat /\ deprovCount \in Nat
  BY IdleOK DEF Init, LifecycleInit, ProvOK, DeprovOK
<1> QED BY <1>1, <1>2, <1>3 DEF TypeInv, TypeOK

\* Every step keeps the inductive invariant.
LEMMA TypeNext == TypeInv /\ [Next]_vars => TypeInv'
<1> SUFFICES ASSUME TypeInv, [Next]_vars PROVE TypeInv'
  OBVIOUS
<1>0. TypeOK /\ ClusterTypeOK
  BY DEF TypeInv, TypeOK
<1>2. CASE SyncNext /\ UNCHANGED lifecycleVars
  <2>1. SyncTypeInv'
    BY <1>2, SyncTypes, SyncTypeNext
  <2> QED BY <1>0, <1>2, <2>1 DEF TypeInv, TypeOK, SyncTypeInv, lifecycleVars
<1>3. CASE LifecycleNext /\ UNCHANGED syncVars
  <2>0. /\ sync' = sync /\ syncCount' \in Nat /\ dirtyQuota' \in SUBSET Namespaces
        /\ sync' \in [Syncers -> SyncCalls] /\ \A c \in Syncers : SyncOK(sync'[c])
    BY <1>0, <1>3 DEF TypeInv, TypeOK, syncVars
  <2>1. ASSUME NEW p \in Provisioners, NEW y, ProvOK(y), ClusterTypeOK',
               prov' = [prov EXCEPT ![p] = y], provCount' \in Nat,
               UNCHANGED <<deprov, deprovCount>>
        PROVE  TypeInv'
    <3>1. /\ prov' \in [Provisioners -> ProvCalls]
          /\ \A q \in Provisioners : ProvOK(prov'[q])
      BY <1>0, <2>1 DEF TypeInv, TypeOK, ProvOK
    <3> QED BY <1>0, <2>0, <2>1, <3>1 DEF TypeInv, TypeOK
  <2>2. ASSUME NEW d \in Deprovisioners, NEW y, DeprovOK(y), ClusterTypeOK',
               deprov' = [deprov EXCEPT ![d] = y], deprovCount' \in Nat,
               UNCHANGED <<prov, provCount>>
        PROVE  TypeInv'
    <3>1. /\ deprov' \in [Deprovisioners -> DeprovCalls]
          /\ \A q \in Deprovisioners : DeprovOK(deprov'[q])
      BY <1>0, <2>2 DEF TypeInv, TypeOK, DeprovOK
    <3> QED BY <1>0, <2>0, <2>2, <3>1 DEF TypeInv, TypeOK
  <2>3. ASSUME NEW p \in Provisioners, NEW r \in ProvisionRequests,
               ProvisionStart(p, r)
        PROVE  TypeInv'
    <3> DEFINE y == [IdleProv EXCEPT !.pc = "count", !.req = r]
    <3>1. ProvOK(y)
      BY <2>3, IdleOK DEF ProvisionStart, ProvOK, IdleProv, ProvCalls
    <3>2. /\ ClusterTypeOK' /\ provCount' \in Nat
          /\ prov' = [prov EXCEPT ![p] = y] /\ UNCHANGED <<deprov, deprovCount>>
      BY <1>0, <2>3 DEF ProvisionStart, TypeOK, ClusterTypeOK, clusterVars
    <3> QED BY <2>1, <3>1, <3>2
  <2>4. ASSUME NEW p \in Provisioners, ProvisionStep(p) \/ ProvisionFail(p)
        PROVE  TypeInv'
    <3>1. UNCHANGED <<deprov, deprovCount, provCount>>
      BY <2>4
      DEF ProvisionStep, ProvisionFail, ProvisionCount, ProvisionCreate, ProvisionGet,
          ProvisionAnnotate, ProvisionResource, ProvisionServices, ProvisionRollback
    <3> QED BY <1>0, <2>1, <2>4, <3>1, ProvisionType DEF TypeOK
  <2>5. ASSUME NEW d \in Deprovisioners, NEW r \in DeprovisionRequests,
               DeprovisionStart(d, r)
        PROVE  TypeInv'
    <3> DEFINE y == [IdleDeprov EXCEPT !.pc = "get", !.req = r]
    <3>1. DeprovOK(y)
      BY DEF DeprovOK, IdleDeprov, DeprovCalls
    <3>2. /\ ClusterTypeOK' /\ deprovCount' \in Nat
          /\ deprov' = [deprov EXCEPT ![d] = y] /\ UNCHANGED <<prov, provCount>>
      BY <1>0, <2>5 DEF DeprovisionStart, TypeOK, ClusterTypeOK, clusterVars
    <3> QED BY <2>2, <3>1, <3>2
  <2>6. ASSUME NEW d \in Deprovisioners, DeprovisionStep(d) \/ DeprovisionFail(d)
        PROVE  TypeInv'
    <3>1. UNCHANGED <<prov, deprovCount, provCount>>
      BY <2>6
      DEF DeprovisionStep, DeprovisionFail, DeprovisionGet, DeprovisionList,
          DeprovisionDeployment, DeprovisionNamespace
    <3> QED BY <1>0, <2>2, <2>6, <3>1, DeprovisionType DEF TypeOK
  <2> QED BY <1>3, <2>3, <2>4, <2>5, <2>6 DEF LifecycleNext
<1>4. CASE ClusterNext /\ UNCHANGED <<syncVars, lifecycleVars>>
  BY <1>0, <1>4, ClusterType DEF TypeInv, TypeOK, syncVars, lifecycleVars
<1>5. CASE UNCHANGED vars
  <2>1. ClusterTypeOK'
    BY <1>0, <1>5 DEF vars, clusterVars, ClusterTypeOK
  <2> QED BY <1>0, <1>5, <2>1 DEF vars, syncVars, lifecycleVars, TypeInv, TypeOK
<1> QED BY <1>2, <1>3, <1>4, <1>5 DEF Next

\* The variables keep their types.  What it takes: nothing is written to a
\* namespace or a ResourceQuota that the handlers have not validated before, in
\* the same attempt.
THEOREM TypeCorrect == Spec => []TypeOK
<1>1. TypeInv => TypeOK
  BY DEF TypeInv
<1> QED BY TypeInit, TypeNext, <1>1, PTL DEF Spec

---------------------------------------------------------------------------
(* Snapshots and versions *)

\* What a step may do to a namespace, from o to q: nothing, write a new version,
\* or let it disappear.
NsStep(o, q) ==
  \/ q = o
  \/ q.rv > o.rv
  \/ q.rv = o.rv /\ q.phase = "Absent"

\* Versions never decrease, and a namespace that is still there has new content
\* only under a new version.
LEMMA NsSteps ==
  ASSUME TypeInv, [Next]_vars, NEW n \in Namespaces
  PROVE  NsStep(ns[n], ns'[n])
<1>0. ns \in [Namespaces -> NsObjects]
  BY DEF TypeInv, TypeOK, ClusterTypeOK
<1>1. ASSUME UNCHANGED ns PROVE NsStep(ns[n], ns'[n])
  BY <1>1 DEF NsStep
<1>3. ASSUME NEW m, ns' = [ns EXCEPT ![m] = DeletedNs(@)]
      PROVE  NsStep(ns[n], ns'[n])
  <2>1. ns[n].rv \in Nat
    BY <1>0 DEF NsObjects
  <2>2. ns'[n] = ns[n] \/ ns'[n].rv = ns[n].rv + 1
    BY <1>0, <1>3 DEF DeletedNs
  <2> QED BY <2>1, <2>2 DEF NsStep
<1>4. ASSUME NEW c \in Syncers, (\E r \in Requests : SyncStart(c, r)) \/ SyncStep(c)
               \/ SyncFail(c)
      PROVE  NsStep(ns[n], ns'[n])
  <2>1. CASE SyncUpdate(c)
    <3> DEFINE i == SyncedInfo(Params(c), Info(c))
    <3>1. ns' = [ns EXCEPT ![Name(c)] = Annotated(@, i)]
      BY <2>1 DEF SyncUpdate
    <3> HIDE DEF i
    <3>2. ns[n].rv \in Nat
      BY <1>0 DEF NsObjects
    <3>3. ns'[n] = ns[n] \/ ns'[n].rv = ns[n].rv + 1
      BY <1>0, <3>1 DEF Annotated
    <3> QED BY <3>2, <3>3 DEF NsStep
  <2>2. CASE ~SyncUpdate(c)
    BY <1>1, <1>4, <2>2
    DEF SyncStart, SyncStep, SyncFail, SyncGet, TransferList, TransferUpdate, QuotaGet,
        QuotaUpdate, SyncRefuse, SyncConflict, SyncGone, clusterVars
  <2> QED BY <2>1, <2>2
<1>5. ASSUME NEW p \in Provisioners, ProvisionStep(p) \/ ProvisionFail(p)
      PROVE  NsStep(ns[n], ns'[n])
  <2>1. CASE ProvisionCreate(p)
    <3>1. ns[n].rv \in Nat
      BY <1>0 DEF NsObjects
    <3>2. ns'[n] = ns[n] \/ ns'[n].rv = ns[n].rv + 1
      BY <1>0, <2>1 DEF ProvisionCreate
    <3> QED BY <3>1, <3>2 DEF NsStep
  <2>2. CASE ProvisionAnnotate(p)
    <3>1. ns[n].rv \in Nat
      BY <1>0 DEF NsObjects
    <3>2. ns'[n] = ns[n] \/ ns'[n].rv = ns[n].rv + 1
      BY <1>0, <2>2 DEF ProvisionAnnotate, Annotated
    <3> QED BY <3>1, <3>2 DEF NsStep
  <2>3. CASE ProvisionRollback(p)
    BY <1>3, <2>3 DEF ProvisionRollback
  <2>4. CASE ~(ProvisionCreate(p) \/ ProvisionAnnotate(p) \/ ProvisionRollback(p))
    BY <1>1, <1>5, <2>4
    DEF ProvisionStep, ProvisionFail, ProvisionCount, ProvisionGet, ProvisionResource,
        ProvisionServices, clusterVars
  <2> QED BY <2>1, <2>2, <2>3, <2>4
<1>6. ASSUME NEW d \in Deprovisioners, DeprovisionStep(d) \/ DeprovisionFail(d)
      PROVE  NsStep(ns[n], ns'[n])
  <2>1. CASE DeprovisionNamespace(d)
    BY <1>3, <2>1 DEF DeprovisionNamespace
  <2>2. CASE ~DeprovisionNamespace(d)
    BY <1>1, <1>6, <2>2
    DEF DeprovisionStep, DeprovisionFail, DeprovisionGet, DeprovisionList,
        DeprovisionDeployment, clusterVars
  <2> QED BY <2>1, <2>2
<1>7. CASE ClusterNext
  <2>1. ASSUME NEW m \in Namespaces, FinalizeNamespace(m)
        PROVE  NsStep(ns[n], ns'[n])
    BY <1>0, <2>1 DEF FinalizeNamespace, NsStep
  <2> QED BY <1>1, <1>7, <2>1 DEF ClusterNext, DeploymentStatusUpdate
<1>8. ASSUME NEW p \in Provisioners, NEW r, ProvisionStart(p, r) PROVE UNCHANGED ns
  BY <1>8 DEF ProvisionStart, clusterVars
<1>9. ASSUME NEW d \in Deprovisioners, NEW r, DeprovisionStart(d, r)
      PROVE  UNCHANGED ns
  BY <1>9 DEF DeprovisionStart, clusterVars
<1>10. CASE UNCHANGED vars
  BY <1>1, <1>10 DEF vars, clusterVars
<1>11. CASE LifecycleNext
  BY <1>1, <1>5, <1>6, <1>8, <1>9, <1>11 DEF LifecycleNext
<1>12. CASE SyncNext
  BY <1>4, <1>12 DEF SyncNext
<1> QED BY <1>7, <1>10, <1>11, <1>12 DEF Next

\* What a call knows stays true while others write.
LEMMA CurrentStays ==
  ASSUME NEW x \in SyncCalls, NEW o \in NsObjects, NEW q \in NsObjects,
         SyncOK(x), x.pc # "idle", CallCurrent(x, o), NsStep(o, q)
  PROVE  CallCurrent(x, q)
<1>1. o.rv \in Nat /\ q.rv \in Nat /\ q.rv >= o.rv
  BY DEF NsObjects, NsStep
<1>2. x.attempt \in Nat /\ x.startRv \in Nat
  BY SyncAssumption DEF SyncCalls
<1>3. ASSUME x.pc = "get", x.attempt > 0 PROVE q.rv >= x.startRv + x.attempt
  BY <1>1, <1>2, <1>3 DEF CallCurrent
<1>4. ASSUME x.pc \notin {"idle", "get"}
      PROVE  /\ q.rv >= x.snap.rv
             /\ x.snap.rv >= x.startRv + x.attempt
             /\ q.phase # "Absent" /\ q.rv = x.snap.rv => q.ann = x.snap.ann
  <2>1. x.snap.rv \in Nat
    BY <1>4 DEF SyncOK, NsObjects
  <2>2. /\ o.rv >= x.snap.rv
        /\ x.snap.rv >= x.startRv + x.attempt
        /\ o.phase # "Absent" /\ o.rv = x.snap.rv => o.ann = x.snap.ann
    BY <1>4 DEF CallCurrent
  <2>3. q.rv >= x.snap.rv
    BY <1>1, <2>1, <2>2
  <2>4. ASSUME q.phase # "Absent", q.rv = x.snap.rv PROVE q.ann = x.snap.ann
    <3>1. q = o
      BY <1>1, <2>1, <2>2, <2>4 DEF NsStep
    <3> QED BY <2>2, <2>4, <3>1
  <2> QED BY <2>2, <2>3, <2>4
<1> QED BY <1>3, <1>4 DEF CallCurrent

\* What a handler's own step does to what its call knows, before the others'
\* writes are accounted for.
LEMMA CurrentMoves ==
  ASSUME NEW x, NEW y, NEW o \in NsObjects,
         SyncOK(x), x.pc # "idle", CallCurrent(x, o), SyncOK(y), y.pc # "idle",
         Moves(x, y) \/ Reads(x, y, o) \/ Retries(x, y, o)
  PROVE  CallCurrent(y, o) /\ y.req = x.req
<1>1. x.attempt \in Nat /\ x.startRv \in Nat /\ o.rv \in Nat
  BY SyncAssumption DEF SyncOK, SyncCalls, NsObjects
<1>2. CASE Moves(x, y)
  BY <1>2 DEF Moves, CallCurrent
<1>3. CASE Reads(x, y, o)
  <2>1. x.attempt > 0 => o.rv >= x.startRv + x.attempt
    BY <1>3 DEF Reads, CallCurrent
  <2>2. o.rv >= y.startRv + y.attempt
    BY <1>1, <1>3, <2>1 DEF Reads
  <2> QED BY <1>1, <1>3, <2>2 DEF Reads, CallCurrent
<1>4. CASE Retries(x, y, o)
  <2>1. x.snap.rv \in Nat
    BY <1>4 DEF Retries, SyncOK, NsObjects
  <2>2. o.rv >= x.snap.rv /\ x.snap.rv >= x.startRv + x.attempt
    BY <1>4 DEF Retries, CallCurrent
  <2>3. o.rv >= y.startRv + y.attempt
    BY <1>1, <1>4, <2>1, <2>2 DEF Retries
  <2> QED BY <1>4, <2>3 DEF Retries, CallCurrent
<1> QED BY <1>2, <1>3, <1>4

\* Every step keeps the snapshots current: a namespace that changes gets a new
\* version, so no call can still hold the old one as the present one.
LEMMA CurrentNext == TypeInv /\ Current /\ [Next]_vars => Current'
<1> SUFFICES ASSUME TypeInv, Current, [Next]_vars,
                    NEW c \in Syncers, sync'[c].pc # "idle"
             PROVE  CallCurrent(sync'[c], ns'[sync'[c].req.name])
  BY DEF Current, Name
<1> DEFINE x == sync[c]
           y == sync'[c]
           m == y.req.name
<1>1. TypeInv'
  BY TypeNext
<1>2. /\ SyncOK(x) /\ SyncOK(y) /\ x \in SyncCalls /\ y \in SyncCalls
      /\ sync \in [Syncers -> SyncCalls]
      /\ ns \in [Namespaces -> NsObjects] /\ ns' \in [Namespaces -> NsObjects]
  BY <1>1 DEF TypeInv, TypeOK, ClusterTypeOK
<1>3. m \in Namespaces
  BY <1>2, RequestType DEF SyncOK
<1>4. NsStep(ns[m], ns'[m])
  BY <1>3, NsSteps
<1>5. CallCurrent(y, ns[m])
  <2>1. CASE y = x
    BY <2>1 DEF Current, Name
  <2>2. CASE y # x
    <3>1. PICK e \in Syncers : \/ \E r \in Requests : SyncStart(e, r)
                               \/ SyncStep(e) \/ SyncFail(e)
      BY <2>2 DEF Next, SyncNext, syncVars, vars
    <3>2. CASE \E r \in Requests : SyncStart(e, r)
      <4>1. PICK r \in Requests : SyncStart(e, r)
        BY <3>2
      <4>2. sync' = [sync EXCEPT ![e] = [Idle EXCEPT !.pc = "get", !.req = r]]
        BY <4>1 DEF SyncStart
      <4>3. y = [Idle EXCEPT !.pc = "get", !.req = r]
        BY <1>2, <2>2, <4>2
      <4>4. y.pc = "get" /\ y.attempt = 0
        BY <4>3 DEF Idle
      <4> QED BY <4>4 DEF CallCurrent
    <3>3. CASE SyncStep(e) \/ SyncFail(e)
      <4>1. PICK z : /\ sync' = [sync EXCEPT ![e] = z]
                     /\ SyncOK(z)
                     /\ sync[e].pc # "idle"
                     /\ \/ z = Idle
                        \/ Moves(sync[e], z)
                        \/ Reads(sync[e], z, ns[Name(e)])
                        \/ Retries(sync[e], z, ns[Name(e)])
        BY <3>3, SyncTypes, SyncShape
      <4>2. e = c /\ y = z
        BY <1>2, <2>2, <4>1
      <4>3. z # Idle /\ x.pc # "idle"
        BY <4>1, <4>2 DEF Idle
      <4>4. Name(c) \in Namespaces /\ CallCurrent(x, ns[Name(c)])
        BY <1>2, <4>3, RequestType DEF SyncOK, Name, Current
      <4>5. CallCurrent(y, ns[Name(c)]) /\ y.req = x.req
        BY <1>2, <4>1, <4>2, <4>3, <4>4, CurrentMoves
      <4> QED BY <4>5 DEF Name
    <3> QED BY <3>1, <3>2, <3>3
  <2> QED BY <2>1, <2>2
<1> QED BY <1>2, <1>3, <1>4, <1>5, CurrentStays

\* There is no snapshot at the start.
LEMMA CurrentInit == Init => Current
  BY DEF Init, SyncInit, Current, Idle

\* A call that is in its k-th retry was overtaken by k successful writes at
\* least: conflicts are never its own doing.
THEOREM RetriesAlwaysPaidFor == Spec => []RetriesArePaidFor
<1>1. TypeInv /\ Current => RetriesArePaidFor
  <2> SUFFICES ASSUME TypeInv, Current, NEW c \in Syncers, sync[c].attempt > 0
               PROVE  ns[Name(c)].rv >= sync[c].startRv + sync[c].attempt
    BY DEF RetriesArePaidFor, Name
  <2> DEFINE x == sync[c]
             o == ns[Name(c)]
  <2>1. SyncOK(x) /\ x.pc # "idle"
    BY SyncAssumption DEF TypeInv, SyncOK
  <2>2. CallCurrent(x, o)
    BY <2>1 DEF Current
  <2>3. x.attempt \in Nat /\ x.startRv \in Nat /\ o.rv \in Nat
    BY <2>1, SyncAssumption, RequestType
    DEF SyncOK, SyncCalls, TypeInv, TypeOK, ClusterTypeOK, NsObjects, Name
  <2>4. CASE x.pc = "get"
    BY <2>2, <2>4 DEF CallCurrent
  <2>5. CASE x.pc # "get"
    <3>1. x.snap.rv \in Nat
      BY <2>1, <2>5 DEF SyncOK, NsObjects
    <3>2. o.rv >= x.snap.rv /\ x.snap.rv >= x.startRv + x.attempt
      BY <2>1, <2>2, <2>5 DEF CallCurrent
    <3> QED BY <2>3, <3>1, <3>2
  <2> QED BY <2>4, <2>5
<1> QED BY TypeInit, TypeNext, CurrentInit, CurrentNext, <1>1, PTL DEF Spec

---------------------------------------------------------------------------
(* enclave_sync is atomic *)

\* The operators of the abstract specification are those of the handlers.
LEMMA SameSetToSeq ==
  ASSUME NEW S PROVE Abstract!SetToSeq(S) = SetToSeq(S)
  BY DEF Abstract!SetToSeq, SetToSeq, Abstract!IsInjective, IsInjective,
         Abstract!Cardinality, Cardinality

\* The operators of the abstract specification, instantiated with the constants
\* of this one, are the operators of this one: Without,
LEMMA SameWithout ==
  ASSUME NEW list, NEW out PROVE Abstract!Without(list, out) = Without(list, out)
<1> DEFINE I == {i \in DOMAIN list : list[i] \notin out}
<1>1. Abstract!SetToSeq(I) = SetToSeq(I)
  BY SameSetToSeq
<1> QED BY <1>1, Zenon DEF Abstract!Without, Without

\* ... AddMembers,
LEMMA SameAddMembers ==
  ASSUME NEW list, NEW owner, NEW add
  PROVE  Abstract!AddMembers(list, owner, add) = AddMembers(list, owner, add)
<1>1. Abstract!Range(list) = Range(list)
  BY DEF Abstract!Range, Range
<1> QED BY <1>1, SameSetToSeq DEF Abstract!AddMembers, AddMembers

\* ... the member lists after additions and removals,
LEMMA SameMembers ==
  ASSUME NEW info, NEW p
  PROVE  /\ Abstract!addedMembers(info, p) = addedMembers(info, p)
         /\ Abstract!remainingMembers(info, p) = remainingMembers(info, p)
<1>1. Abstract!ParseMembers(info.members) = ParseMembers(info.members)
  BY DEF Abstract!ParseMembers, ParseMembers
<1>2. Abstract!addedMembers(info, p) = addedMembers(info, p)
  BY <1>1, SameAddMembers DEF Abstract!addedMembers, addedMembers
<1>3. Abstract!remainingMembers(info, p) = remainingMembers(info, p)
  BY <1>2, SameWithout DEF Abstract!remainingMembers, remainingMembers
<1> QED BY <1>2, <1>3

\* ... the checks of a request,
LEMMA SameChecks ==
  ASSUME NEW d, NEW p, NEW info
  PROVE  /\ Abstract!AcceptedEarly(d, p, info) <=> AcceptedEarly(d, p, info)
         /\ Abstract!AcceptedLate(p, info) <=> AcceptedLate(p, info)
<1>1. Abstract!isOwnerOp(p) <=> isOwnerOp(p)
  BY DEF Abstract!isOwnerOp, isOwnerOp
<1>2. Abstract!ownerCheck(d, info) <=> ownerCheck(d, info)
  BY DEF Abstract!ownerCheck, ownerCheck
<1>3. \A l : Abstract!ValidateMembers(l) <=> ValidateMembers(l)
  BY DEF Abstract!ValidateMembers, ValidateMembers
<1>4. \A o, l, e : Abstract!isEnclaveParticipant(o, l, e)
                    <=> isEnclaveParticipant(o, l, e)
  BY DEF Abstract!isEnclaveParticipant, isEnclaveParticipant, Abstract!Range, Range
<1>5. Abstract!AcceptedEarly(d, p, info) <=> AcceptedEarly(d, p, info)
  BY <1>1, <1>2, <1>3, SameMembers DEF Abstract!AcceptedEarly, AcceptedEarly
<1>6. Abstract!AcceptedLate(p, info) <=> AcceptedLate(p, info)
  BY <1>1, <1>4, SameMembers DEF Abstract!AcceptedLate, AcceptedLate
<1> QED BY <1>5, <1>6

\* ... and the annotations it writes.
LEMMA SameSyncedInfo ==
  ASSUME NEW p, NEW info PROVE Abstract!SyncedInfo(p, info) = SyncedInfo(p, info)
<1>1. \A a, b : Abstract!OrElse(a, b) = OrElse(a, b)
  BY DEF Abstract!OrElse, OrElse
<1> QED BY <1>1, SameMembers, SameWithout DEF Abstract!SyncedInfo, SyncedInfo

\* The annotations of all namespaces: the refinement mapping.
Annotations == [n \in Namespaces |-> ns[n].ann]

\* A namespace that loses its annotations disappears from the abstract state.
LEMMA ClearedIsDisappear ==
  ASSUME NEW n \in Namespaces, Annotations' = [Annotations EXCEPT ![n] = Empty]
  PROVE  Annotations' = Annotations \/ Abstract!Disappear(n)
<1>1. CASE Annotations[n] = Empty
  BY <1>1 DEF Annotations
<1>2. CASE Annotations[n] # Empty
  BY <1>2 DEF Abstract!Disappear, Annotations
<1> QED BY <1>1, <1>2

\* A write of what an accepted request asks for is an atomic enclave_sync.
LEMMA SyncedIsSync ==
  ASSUME NEW r \in Requests, NEW info,
         Annotations[r.name] = info, info # Empty,
         AcceptedEarly(r.deployer, r.params, info), AcceptedLate(r.params, info),
         Annotations' = [Annotations EXCEPT ![r.name] = SyncedInfo(r.params, info)]
  PROVE  Abstract!Next
<1>1. Abstract!Sync(r)
  BY SameChecks, SameSyncedInfo DEF Abstract!Sync, Annotations
<1> QED BY <1>1 DEF Abstract!Next

\* A write of a new enclave's annotations is an atomic enclave_provision.
LEMMA ProvisionedIsProvision ==
  ASSUME NEW n \in Namespaces,
         NEW info \in {ProvisionedInfo(q) : q \in ProvisionRequests},
         Annotations' = [Annotations EXCEPT ![n] = info]
  PROVE  Abstract!Next
<1>1. Abstract!Provision(n)
  BY DEF Abstract!Provision, Annotations
<1> QED BY <1>1 DEF Abstract!Next

\* Every step changes the annotations as one atomic enclave_sync, one provision or
\* one deletion does, or not at all.
LEMMA AtomicStep ==
  ASSUME TypeInv, Current, [Next]_vars
  PROVE  Annotations' = Annotations \/ Abstract!Next
<1> DEFINE Goal == Annotations' = Annotations \/ Abstract!Next
<1> SUFFICES Goal
  OBVIOUS
<1>0. ns \in [Namespaces -> NsObjects]
  BY DEF TypeInv, TypeOK, ClusterTypeOK
<1>1. ASSUME UNCHANGED ns PROVE Goal
  BY <1>1 DEF Annotations
<1>2. ASSUME NEW m \in Namespaces, NEW o, ns' = [ns EXCEPT ![m] = o]
      PROVE  Annotations' = [Annotations EXCEPT ![m] = o.ann]
  BY <1>0, <1>2 DEF Annotations
<1>3. ASSUME NEW m \in Namespaces, ns' = [ns EXCEPT ![m] = DeletedNs(@)] PROVE Goal
  <2>1. DeletedNs(ns[m]).ann = ns[m].ann
    BY DEF DeletedNs
  <2>2. Annotations' = [Annotations EXCEPT ![m] = ns[m].ann]
    BY <1>2, <1>3, <2>1
  <2>3. Annotations' = Annotations
    BY <2>2 DEF Annotations
  <2> QED BY <2>3
<1>4. ASSUME NEW c \in Syncers, SyncUpdate(c) PROVE Goal
  <2> DEFINE x == sync[c]
             r == x.req
             i == SyncedInfo(r.params, x.snap.ann)
  <2>1. /\ x.pc = "update" /\ ns[r.name].phase # "Absent"
        /\ ns[r.name].rv = x.snap.rv
        /\ ns' = [ns EXCEPT ![r.name] = Annotated(@, i)]
    BY <1>4 DEF SyncUpdate, Name, NsExists, Params, Info
  <2>2. /\ r \in Requests /\ r.name \in Namespaces
        /\ x.snap.ann \in EnclaveInfo
        /\ AcceptedEarly(r.deployer, r.params, x.snap.ann)
        /\ AcceptedLate(r.params, x.snap.ann)
    BY <2>1, RequestType DEF TypeInv, SyncOK
  <2>3. Annotations[r.name] = x.snap.ann
    <3>1. CallCurrent(x, ns[r.name])
      BY <2>1 DEF Current, Name
    <3> QED BY <2>1, <2>2, <3>1 DEF CallCurrent, Annotations
  <2>4. x.snap.ann # Empty
    BY <2>1 DEF TypeInv, SyncOK, IsEnclave
  <2>5. Annotations' = [Annotations EXCEPT ![r.name] = i]
    BY <1>2, <2>1, <2>2 DEF Annotated
  <2> HIDE DEF r
  <2>6. Abstract!Next
    BY <2>2, <2>3, <2>4, <2>5, SyncedIsSync
  <2> QED BY <2>6
<1>5. ASSUME NEW p \in Provisioners, ProvisionStep(p) \/ ProvisionFail(p) PROVE Goal
  <2> DEFINE r == prov[p].req
  <2>1. ASSUME prov[p].pc # "idle"
        PROVE  r \in ProvisionRequests /\ r.name \in Namespaces
    BY <2>1, LifecycleAssumption DEF TypeInv, ProvOK
  <2>2. CASE ProvisionCreate(p)
    <3>1. r.name \in Namespaces
      BY <2>1, <2>2 DEF ProvisionCreate
    <3>2. UNCHANGED ns \/ Annotations' = [Annotations EXCEPT ![r.name] = Empty]
      BY <1>2, <2>2, <3>1 DEF ProvisionCreate, Target
    <3> QED BY <1>1, <3>1, <3>2, ClearedIsDisappear DEF Abstract!Next
  <2>3. CASE ProvisionAnnotate(p)
    <3> DEFINE i == ProvisionedInfo(r)
    <3>1. r \in ProvisionRequests /\ r.name \in Namespaces
      BY <2>1, <2>3 DEF ProvisionAnnotate
    <3>2. UNCHANGED ns \/ ns' = [ns EXCEPT ![r.name] = Annotated(@, i)]
      BY <2>3 DEF ProvisionAnnotate, Target
    <3>3. CASE UNCHANGED ns
      BY <1>1, <3>3
    <3>4. CASE ns' = [ns EXCEPT ![r.name] = Annotated(@, i)]
      <4>1. Annotations' = [Annotations EXCEPT ![r.name] = i]
        BY <1>2, <3>1, <3>4 DEF Annotated
      <4>2. i \in {ProvisionedInfo(q) : q \in ProvisionRequests}
        BY <3>1
      <4> HIDE DEF i
      <4>3. Abstract!Next
        BY <3>1, <4>1, <4>2, ProvisionedIsProvision
      <4> QED BY <4>3
    <3> QED BY <3>2, <3>3, <3>4
  <2>4. CASE ProvisionRollback(p)
    BY <1>3, <2>1, <2>4 DEF ProvisionRollback, Target
  <2>5. CASE ~(ProvisionCreate(p) \/ ProvisionAnnotate(p) \/ ProvisionRollback(p))
    BY <1>1, <1>5, <2>5
    DEF ProvisionStep, ProvisionFail, ProvisionCount, ProvisionGet, ProvisionResource,
        ProvisionServices, clusterVars
  <2> QED BY <2>2, <2>3, <2>4, <2>5
<1>6. ASSUME NEW d \in Deprovisioners, DeprovisionStep(d) \/ DeprovisionFail(d)
      PROVE  Goal
  <2>1. CASE DeprovisionNamespace(d)
    <3>1. Doomed(d) \in Namespaces
      BY <2>1, LifecycleAssumption DEF DeprovisionNamespace, TypeInv, DeprovOK, Doomed
    <3> QED BY <1>3, <2>1, <3>1 DEF DeprovisionNamespace
  <2>2. CASE ~DeprovisionNamespace(d)
    BY <1>1, <1>6, <2>2
    DEF DeprovisionStep, DeprovisionFail, DeprovisionGet, DeprovisionList,
        DeprovisionDeployment, clusterVars
  <2> QED BY <2>1, <2>2
<1>7. ASSUME NEW n \in Namespaces, FinalizeNamespace(n) PROVE Goal
  <2> DEFINE o == [phase |-> "Absent", rv |-> ns[n].rv, uid |-> ns[n].uid,
                   ann |-> Empty]
  <2>0. ns' = [ns EXCEPT ![n] = o] /\ o.ann = Empty
    BY <1>7 DEF FinalizeNamespace
  <2> HIDE DEF o
  <2>1. Annotations' = [Annotations EXCEPT ![n] = Empty]
    BY <1>2, <2>0
  <2> QED BY <2>1, ClearedIsDisappear DEF Abstract!Next
<1>8. ASSUME NEW c \in Syncers, ~SyncUpdate(c),
             (\E r \in Requests : SyncStart(c, r)) \/ SyncStep(c) \/ SyncFail(c)
      PROVE  UNCHANGED ns
  BY <1>8
  DEF SyncStart, SyncStep, SyncFail, SyncGet, TransferList, TransferUpdate, QuotaGet,
      QuotaUpdate, SyncRefuse, SyncConflict, SyncGone, clusterVars
<1>9. ASSUME NEW p \in Provisioners, NEW r, ProvisionStart(p, r) PROVE UNCHANGED ns
  BY <1>9 DEF ProvisionStart, clusterVars
<1>10. ASSUME NEW d \in Deprovisioners, NEW r, DeprovisionStart(d, r)
       PROVE  UNCHANGED ns
  BY <1>10 DEF DeprovisionStart, clusterVars
<1> HIDE DEF Goal
<1>11. CASE SyncNext
  BY <1>1, <1>4, <1>8, <1>11 DEF SyncNext
<1>12. CASE LifecycleNext
  BY <1>1, <1>5, <1>6, <1>9, <1>10, <1>12 DEF LifecycleNext
<1>13. CASE ClusterNext
  BY <1>1, <1>7, <1>13 DEF ClusterNext, DeploymentStatusUpdate
<1>14. CASE UNCHANGED vars
  BY <1>1, <1>14 DEF vars, clusterVars
<1> QED BY <1>11, <1>12, <1>13, <1>14 DEF Next

\* enclave_sync, which checks the owner and builds the new annotations from a
\* namespace it read several API calls earlier, has the effect of an atomic check
\* and write, for any number of concurrent calls of the three tools.
THEOREM SyncIsAlwaysAtomic == Spec => SyncIsAtomic
<1>1. Init => Abstract!Init
  <2>1. TypeInv => Annotations \in [Namespaces -> EnclaveInfo \cup {Empty}]
    BY DEF TypeInv, TypeOK, ClusterTypeOK, NsObjects, Annotations
  <2>2. Abstract!EnclaveInfo = EnclaveInfo
    BY DEF Abstract!EnclaveInfo, EnclaveInfo, Abstract!Statuses, Statuses,
           Abstract!Presets, Presets
  <2> QED BY <2>1, <2>2, TypeInit DEF Abstract!Init, Annotations
<1>2. TypeInv /\ Current /\ [Next]_vars => [Abstract!Next]_Annotations
  BY AtomicStep
<1>3. QED
  BY TypeInit, TypeNext, CurrentInit, CurrentNext, <1>1, <1>2, PTL
  DEF Spec, SyncIsAtomic, Abstract!Spec, Annotations

---------------------------------------------------------------------------
(* Nothing is left half made *)

\* What a step may do to namespace n and its objects: create it, with a uid that
\* none before had, let it go, or add to what it holds.
Develops(n) ==
  \/ /\ ns[n].phase = "Absent"
     /\ ns'[n].uid = ns[n].rv + 1 /\ ns'[n].rv = ns[n].rv + 1
     /\ \E p \in Provisioners : ProvisionCreate(p) /\ Target(p) = n
  \/ /\ ns'[n].uid = ns[n].uid
     /\ ns'[n].rv >= ns[n].rv
     /\ ns'[n].phase = "Active" =>
          /\ ns[n].phase = "Active"
          /\ IsEnclave(ns[n]) => IsEnclave(ns'[n])
          /\ quota[n].exists => quota'[n].exists
          /\ res[n] \subseteq res'[n]

\* The objects of the first k steps of a provision are there.
Made(n, k) ==
  \A i \in 1 .. k :
    IF ProvisionSteps[i] = "resource-quota" THEN quota[n].exists
    ELSE ProvisionSteps[i] \in res[n]

\* Call p has created a namespace and has not returned.
Working(p) ==
  prov[p].pc \in {"get", "annotate", "resources", "services", "rollback"}

\* Namespace n is the one that call p created, and not a later one of the name.
Maker(p, n) == Working(p) /\ Target(p) = n /\ prov[p].uid = ns[n].uid

\* As long as its namespace is not deleted, what a call has made is there.
Progress(p) ==
  /\ Working(p) => prov[p].uid <= ns[Target(p)].rv
  /\ prov[p].pc \in {"count", "create", "get", "annotate"} => prov[p].step = 0
  /\ prov[p].pc = "services" => prov[p].step = Len(ProvisionSteps)
  /\ (/\ prov[p].pc \in {"resources", "services"}
      /\ Maker(p, Target(p))
      /\ ns[Target(p)].phase = "Active")
     => IsEnclave(ns[Target(p)]) /\ Made(Target(p), prov[p].step)

Complete(n) == IsEnclave(ns[n]) /\ quota[n].exists /\ res[n] = Resources

LifeInv ==
  /\ \A n \in Namespaces : ns[n].uid <= ns[n].rv
  /\ \A p \in Provisioners : Progress(p)
  /\ \A n \in Namespaces :
       ns[n].phase = "Active" => Complete(n) \/ \E p \in Provisioners : Maker(p, n)

\* An enclave_sync touches no object of a namespace but its annotations and its
\* quota, and removes neither.
LEMMA SyncDevelops ==
  ASSUME TypeInv, SyncNext, NEW n \in Namespaces
  PROVE  Develops(n)
<1>0. /\ ns \in [Namespaces -> NsObjects] /\ quota \in [Namespaces -> QuotaObjects]
      /\ ns[n].rv \in Nat
  BY DEF TypeInv, TypeOK, ClusterTypeOK, NsObjects
<1>1. PICK c \in Syncers : \/ \E r \in Requests : SyncStart(c, r)
                           \/ SyncStep(c) \/ SyncFail(c)
  BY DEF SyncNext
<1>2. CASE SyncUpdate(c)
  <2> DEFINE i == SyncedInfo(Params(c), Info(c))
  <2>1. ns' = [ns EXCEPT ![Name(c)] = Annotated(@, i)] /\ UNCHANGED <<quota, res>>
    BY <1>2 DEF SyncUpdate
  <2>2. i # Empty
    <3>1. /\ SyncOK(sync[c]) /\ sync[c].pc = "update"
      BY <1>2 DEF SyncUpdate, TypeInv
    <3>2. /\ Info(c) \in EnclaveInfo /\ Params(c) \in SyncParams
          /\ AcceptedLate(Params(c), Info(c))
      BY <3>1, RequestType DEF SyncOK, Info, Params
    <3>3. i \in EnclaveInfo
      BY <3>2, SyncedInfoType
    <3> QED BY <3>3, NoInfoAssumption
  <2> HIDE DEF i
  <2>3. \/ ns'[n] = ns[n]
        \/ /\ ns'[n].rv = ns[n].rv + 1 /\ ns'[n].uid = ns[n].uid
           /\ ns'[n].phase = ns[n].phase /\ ns'[n].ann = i
    BY <1>0, <2>1 DEF Annotated
  <2> QED BY <1>0, <2>1, <2>2, <2>3 DEF Develops, IsEnclave
<1>3. CASE QuotaUpdate(c)
  <2>1. UNCHANGED <<ns, res>>
    BY <1>3 DEF QuotaUpdate
  <2>2. quota[n].exists => quota'[n].exists
    BY <1>0, <1>3 DEF QuotaUpdate
  <2> QED BY <1>0, <2>1, <2>2 DEF Develops
<1>4. CASE ~SyncUpdate(c) /\ ~QuotaUpdate(c)
  <2>1. UNCHANGED <<ns, quota, res>>
    BY <1>1, <1>4
    DEF SyncStart, SyncStep, SyncFail, SyncGet, TransferList, TransferUpdate, QuotaGet,
        SyncRefuse, SyncConflict, SyncGone, clusterVars
  <2> QED BY <1>0, <2>1 DEF Develops
<1> QED BY <1>2, <1>3, <1>4

\* The same of the two other tools: an object is only added, unless the whole
\* namespace is deleted.
LEMMA LifecycleDevelops ==
  ASSUME TypeInv, LifecycleNext, NEW n \in Namespaces
  PROVE  Develops(n)
<1>0. /\ ns \in [Namespaces -> NsObjects] /\ quota \in [Namespaces -> QuotaObjects]
      /\ res \in [Namespaces -> SUBSET Resources]
      /\ ns[n].rv \in Nat
  BY DEF TypeInv, TypeOK, ClusterTypeOK, NsObjects
<1>1. ASSUME UNCHANGED <<ns, quota, res>> PROVE Develops(n)
  BY <1>0, <1>1 DEF Develops
<1>2. ASSUME NEW m, ns' = [ns EXCEPT ![m] = DeletedNs(@)], UNCHANGED <<quota, res>>
      PROVE  Develops(n)
  <2>1. \/ ns'[n] = ns[n]
        \/ /\ ns'[n].rv = ns[n].rv + 1 /\ ns'[n].uid = ns[n].uid
           /\ ns'[n].phase = "Terminating"
    BY <1>0, <1>2 DEF DeletedNs
  <2> QED BY <1>0, <1>2, <2>1 DEF Develops
<1>3. ASSUME NEW p \in Provisioners, ProvisionStep(p) \/ ProvisionFail(p)
      PROVE  Develops(n)
  <2>1. CASE ProvisionCreate(p)
    <3>1. UNCHANGED <<quota, res>>
      BY <2>1 DEF ProvisionCreate
    <3>2. \/ ns'[n] = ns[n]
          \/ /\ Target(p) = n /\ ns[n].phase = "Absent"
             /\ ns'[n].uid = ns[n].rv + 1 /\ ns'[n].rv = ns[n].rv + 1
      BY <1>0, <2>1 DEF ProvisionCreate, NsExists
    <3>3. CASE ns'[n] = ns[n]
      BY <1>0, <3>1, <3>3 DEF Develops
    <3>4. CASE ns'[n] # ns[n]
      BY <2>1, <3>2, <3>4 DEF Develops
    <3> QED BY <3>3, <3>4
  <2>2. CASE ProvisionAnnotate(p)
    <3> DEFINE i == ProvisionedInfo(prov[p].req)
    <3>1. \/ UNCHANGED ns
          \/ ns' = [ns EXCEPT ![Target(p)] = Annotated(@, i)]
      BY <2>2 DEF ProvisionAnnotate
    <3>2. UNCHANGED <<quota, res>>
      BY <2>2 DEF ProvisionAnnotate
    <3>3. i # Empty
      <4>1. i \in EnclaveInfo
        BY <2>2, ProvisionedInfoType DEF ProvisionAnnotate, TypeInv, ProvOK
      <4> QED BY <4>1, NoInfoAssumption
    <3> HIDE DEF i
    <3>4. \/ ns'[n] = ns[n]
          \/ /\ ns'[n].rv = ns[n].rv + 1 /\ ns'[n].uid = ns[n].uid
             /\ ns'[n].phase = ns[n].phase /\ ns'[n].ann = i
      BY <1>0, <3>1 DEF Annotated
    <3> QED BY <1>0, <3>2, <3>3, <3>4 DEF Develops, IsEnclave
  <2>3. CASE ProvisionResource(p)
    <3> DEFINE object == ProvisionSteps[prov[p].step + 1]
    <3>1. UNCHANGED ns
      BY <2>3 DEF ProvisionResource
    <3>2. \/ UNCHANGED <<quota, res>>
          \/ /\ quota' = [quota EXCEPT ![Target(p)] =
                  [exists |-> TRUE, rv |-> @.rv + 1, kind |-> "requests",
                   preset |-> ProvisionedInfo(prov[p].req).preset]]
             /\ UNCHANGED res
          \/ res' = [res EXCEPT ![Target(p)] = @ \cup {object}] /\ UNCHANGED quota
      BY <2>3 DEF ProvisionResource
    <3> HIDE DEF object
    <3>3. quota[n].exists => quota'[n].exists
      BY <1>0, <3>2
    <3>4. res[n] \subseteq res'[n]
      BY <1>0, <3>2
    <3> QED BY <1>0, <3>1, <3>3, <3>4 DEF Develops
  <2>4. CASE ProvisionRollback(p)
    BY <1>2, <2>4 DEF ProvisionRollback
  <2>5. CASE ~(\/ ProvisionCreate(p) \/ ProvisionAnnotate(p)
               \/ ProvisionResource(p) \/ ProvisionRollback(p))
    BY <1>1, <1>3, <2>5
    DEF ProvisionStep, ProvisionFail, ProvisionCount, ProvisionGet, ProvisionServices,
        clusterVars
  <2> QED BY <2>1, <2>2, <2>3, <2>4, <2>5
<1>4. ASSUME NEW d \in Deprovisioners, DeprovisionStep(d) \/ DeprovisionFail(d)
      PROVE  Develops(n)
  <2>1. CASE DeprovisionNamespace(d)
    BY <1>2, <2>1 DEF DeprovisionNamespace
  <2>2. CASE ~DeprovisionNamespace(d)
    BY <1>1, <1>4, <2>2
    DEF DeprovisionStep, DeprovisionFail, DeprovisionGet, DeprovisionList,
        DeprovisionDeployment, clusterVars
  <2> QED BY <2>1, <2>2
<1>5. ASSUME NEW p, NEW r, ProvisionStart(p, r) PROVE Develops(n)
  BY <1>1, <1>5 DEF ProvisionStart, clusterVars
<1>6. ASSUME NEW d, NEW r, DeprovisionStart(d, r) PROVE Develops(n)
  BY <1>1, <1>6 DEF DeprovisionStart, clusterVars
<1> QED BY <1>3, <1>4, <1>5, <1>6 DEF LifecycleNext

\* Every step creates a namespace, lets it go, or adds to it.
LEMMA NamespacesDevelop ==
  ASSUME TypeInv, [Next]_vars, NEW n \in Namespaces
  PROVE  Develops(n)
<1>0. /\ ns \in [Namespaces -> NsObjects] /\ ns[n].rv \in Nat
  BY DEF TypeInv, TypeOK, ClusterTypeOK, NsObjects
<1>1. ASSUME UNCHANGED <<ns, quota, res>> PROVE Develops(n)
  BY <1>0, <1>1 DEF Develops
<1>2. CASE ClusterNext
  <2>1. ASSUME NEW m \in Namespaces, FinalizeNamespace(m) PROVE Develops(n)
    <3>1. CASE n = m
      <4>1. /\ ns'[n].phase = "Absent" /\ ns'[n].rv = ns[n].rv
            /\ ns'[n].uid = ns[n].uid
        BY <1>0, <2>1, <3>1 DEF FinalizeNamespace
      <4> QED BY <1>0, <4>1 DEF Develops
    <3>2. CASE n # m
      <4>1. ns'[n] = ns[n] /\ quota'[n] = quota[n] /\ res'[n] = res[n]
        BY <1>0, <2>1, <3>2 DEF FinalizeNamespace, TypeInv, TypeOK, ClusterTypeOK
      <4> QED BY <1>0, <4>1 DEF Develops
    <3> QED BY <3>1, <3>2
  <2> QED BY <1>1, <1>2, <2>1 DEF ClusterNext, DeploymentStatusUpdate
<1>3. CASE UNCHANGED vars
  BY <1>1, <1>3 DEF vars, clusterVars
<1> QED BY <1>2, <1>3, SyncDevelops, LifecycleDevelops DEF Next

\* There are complete enclaves at the start, and no call.
LEMMA LifeInit == Init => LifeInv
<1> SUFFICES ASSUME Init PROVE LifeInv
  OBVIOUS
<1>1. PICK enclaves \in InitialEnclaves :
        LET there(n) == enclaves[n] # Empty
            one(b) == IF b THEN 1 ELSE 0 IN
        /\ ns = [n \in Namespaces |->
             [phase |-> IF there(n) THEN "Active" ELSE "Absent",
              rv |-> one(there(n)), uid |-> one(there(n)), ann |-> enclaves[n]]]
        /\ quota = [n \in Namespaces |->
             [exists |-> there(n), rv |-> one(there(n)), kind |-> "requests",
              preset |-> IF there(n) THEN enclaves[n].preset ELSE "medium"]]
        /\ res = [n \in Namespaces |-> IF there(n) THEN Resources ELSE {}]
  BY DEF Init, ClusterInit
<1>2. \A n \in Namespaces : ns[n].uid <= ns[n].rv
  BY <1>1
<1>3. \A n \in Namespaces : ns[n].phase = "Active" => Complete(n)
  BY <1>1 DEF Complete, IsEnclave
<1>4. \A p \in Provisioners : Progress(p)
  BY DEF Init, LifecycleInit, IdleProv, Progress, Working
<1> QED BY <1>2, <1>3, <1>4 DEF LifeInv

\* What a call knows of its progress stays true while others act.
LEMMA ProgressStays ==
  ASSUME TypeInv, LifeInv, [Next]_vars, NEW p \in Provisioners, prov'[p] = prov[p]
  PROVE  Progress(p)'
<1>0. PICK n, k : n = Target(p) /\ k = prov[p].step
  OBVIOUS
<1>1. CASE prov[p].pc = "idle"
  BY <1>1 DEF Progress, Working
<1>2. CASE prov[p].pc # "idle"
  <2>1. /\ n \in Namespaces /\ Develops(n) /\ Progress(p)
        /\ Target(p)' = n
    BY <1>0, <1>2, LifecycleAssumption, NamespacesDevelop
    DEF TypeInv, ProvOK, Target, LifeInv
  <2>2. /\ ns[n].rv \in Nat /\ ns[n].uid \in Nat /\ prov[p].uid \in Nat
        /\ ns'[n].rv \in Nat
    BY <2>1, TypeNext
    DEF TypeInv, TypeOK, ClusterTypeOK, NsObjects, ProvOK, ProvCalls
  <2>3. Working(p)' <=> Working(p)
    BY DEF Working
  <2>4. Working(p) => prov[p].uid <= ns'[n].rv
    BY <1>0, <2>1, <2>2 DEF Develops, Progress
  <2>5. ASSUME prov[p].pc \in {"resources", "services"}, prov[p].uid = ns'[n].uid,
               ns'[n].phase = "Active"
        PROVE  IsEnclave(ns'[n]) /\ Made(n, k)'
    <3>1. Working(p)
      BY <2>5 DEF Working
    <3>2. ns'[n].uid = ns[n].uid
      BY <1>0, <2>1, <2>2, <2>5, <3>1 DEF Develops, Progress
    <3>3. /\ ns[n].phase = "Active"
          /\ IsEnclave(ns[n]) => IsEnclave(ns'[n])
          /\ quota[n].exists => quota'[n].exists
          /\ res[n] \subseteq res'[n]
      BY <1>0, <2>1, <2>2, <2>5, <3>1, <3>2 DEF Develops, Progress
    <3>4. IsEnclave(ns[n]) /\ Made(n, k)
      BY <1>0, <2>1, <2>5, <3>1, <3>2, <3>3 DEF Progress, Maker
    <3> QED BY <3>3, <3>4 DEF Made
  <2> QED BY <1>0, <2>1, <2>3, <2>4, <2>5 DEF Progress, Maker
<1> QED BY <1>1, <1>2

\* The step of a call itself.
LEMMA ProgressMoves ==
  ASSUME TypeInv, LifeInv, [Next]_vars, NEW p \in Provisioners,
         (\E r \in ProvisionRequests : ProvisionStart(p, r))
           \/ ProvisionStep(p) \/ ProvisionFail(p)
  PROVE  Progress(p)'
<1>n. PICK n, x : n = Target(p) /\ x = prov[p]
  OBVIOUS
<1>0. /\ n = Target(p) /\ x = prov[p] /\ TypeInv' /\ Progress(p) /\ ProvOK(x)
      /\ prov \in [Provisioners -> ProvCalls] /\ x \in ProvCalls
  BY <1>n, TypeNext DEF LifeInv, TypeInv, TypeOK
<1>1. ASSUME prov'[p] = IdleProv PROVE Progress(p)'
  BY <1>1 DEF Progress, Working, IdleProv
<1>2. ASSUME ProvReturn(p) PROVE Progress(p)'
  BY <1>0, <1>1, <1>2 DEF ProvReturn
<1>3. ASSUME x.pc # "idle"
      PROVE  /\ n \in Namespaces /\ Develops(n)
             /\ ns[n].rv \in Nat /\ ns[n].uid \in Nat
             /\ ns'[n].rv \in Nat /\ ns'[n].uid \in Nat
  <2>1. n \in Namespaces
    BY <1>0, <1>3, LifecycleAssumption DEF ProvOK, Target
  <2> QED BY <1>0, <2>1, NamespacesDevelop DEF TypeInv, TypeOK, ClusterTypeOK, NsObjects
<1>4. ASSUME Working(p), prov'[p].pc \in {"rollback", "annotate"},
             prov'[p].uid = x.uid, Target(p)' = n, prov'[p].step = x.step,
             prov'[p].pc = "annotate" => x.pc = "get"
      PROVE  Progress(p)'
  <2>1. x.pc # "idle" /\ x.uid <= ns[n].rv /\ x.uid \in Nat
    BY <1>0, <1>4 DEF Working, Progress, ProvCalls
  <2>2. x.uid <= ns'[n].rv
    BY <1>3, <2>1 DEF Develops
  <2>3. prov'[p].pc = "annotate" => prov'[p].step = 0
    BY <1>0, <1>4 DEF Progress
  <2> QED BY <1>4, <2>2, <2>3 DEF Progress, Working, Maker
<1>5. ASSUME Working(p), ProvGoto(p, "rollback") PROVE Progress(p)'
  <2>1. prov'[p] = [x EXCEPT !.pc = "rollback"]
    BY <1>0, <1>5 DEF ProvGoto
  <2> QED BY <1>0, <1>4, <1>5, <2>1 DEF Target, ProvCalls
<1>6. ASSUME NEW r \in ProvisionRequests, ProvisionStart(p, r) PROVE Progress(p)'
  <2>1. prov'[p] = [IdleProv EXCEPT !.pc = "count", !.req = r]
    BY <1>0, <1>6 DEF ProvisionStart
  <2> QED BY <2>1 DEF IdleProv, Progress, Working
<1>7. CASE ProvisionCount(p)
  <2>1. CASE ProvGoto(p, "create")
    <3>1. x.pc = "count" /\ prov'[p] = [x EXCEPT !.pc = "create"]
      BY <1>0, <1>7, <2>1 DEF ProvGoto, ProvisionCount
    <3>2. prov'[p].pc = "create" /\ prov'[p].step = 0
      BY <1>0, <3>1 DEF Progress, ProvCalls
    <3> QED BY <3>2 DEF Progress, Working
  <2> QED BY <1>2, <1>7, <2>1 DEF ProvisionCount
<1>8. CASE ProvisionCreate(p)
  <2>1. CASE ~ProvReturn(p)
    <3>1. /\ x.pc = "create" /\ ns'[n].rv = ns[n].rv + 1
          /\ prov'[p] = [x EXCEPT !.uid = ns[n].rv + 1,
               !.pc = IF ValidateEnclaveInfo(x.req) THEN "get" ELSE "rollback"]
      <4>1. x.pc = "create"
        BY <1>0, <1>8 DEF ProvisionCreate
      <4>2. n \in Namespaces /\ ns \in [Namespaces -> NsObjects]
        BY <1>3, <4>1 DEF TypeInv, TypeOK, ClusterTypeOK
      <4>3. /\ ns' = [ns EXCEPT ![n] = [phase |-> "Active", rv |-> ns[n].rv + 1,
                                       uid |-> ns[n].rv + 1, ann |-> Empty]]
            /\ prov' = [prov EXCEPT ![p] = [x EXCEPT !.uid = ns[n].rv + 1,
                 !.pc = IF ValidateEnclaveInfo(x.req) THEN "get" ELSE "rollback"]]
        BY <1>0, <1>8, <2>1 DEF ProvisionCreate
      <4> QED BY <1>0, <4>1, <4>2, <4>3
    <3>2. /\ prov'[p].uid = ns[n].rv + 1 /\ prov'[p].pc \in {"get", "rollback"}
          /\ prov'[p].step = 0 /\ Target(p)' = n
      BY <1>0, <3>1 DEF Progress, ProvCalls, Target
    <3>3. prov'[p].uid <= ns'[n].rv
      BY <1>3, <3>1, <3>2
    <3> QED BY <3>2, <3>3 DEF Progress, Working
  <2> QED BY <1>2, <2>1
<1>9. CASE ProvisionGet(p)
  <2>1. x.pc = "get" /\ Working(p)
    BY <1>0, <1>9 DEF ProvisionGet, Working
  <2>2. CASE ~ProvGoto(p, "rollback")
    <3>1. prov'[p] = [x EXCEPT !.rv = ns[n].rv, !.pc = "annotate"]
      BY <1>0, <1>9, <2>2 DEF ProvisionGet
    <3> QED BY <1>0, <1>4, <2>1, <3>1 DEF Target, ProvCalls
  <2> QED BY <1>5, <2>1, <2>2
<1>10. CASE ProvisionAnnotate(p)
  <2>1. x.pc = "annotate" /\ Working(p)
    BY <1>0, <1>10 DEF ProvisionAnnotate, Working
  <2>2. CASE ~ProvGoto(p, "rollback")
    <3> DEFINE i == ProvisionedInfo(x.req)
    <3>1. /\ prov'[p] = [x EXCEPT !.pc = "resources"]
          /\ ns' = [ns EXCEPT ![n] = Annotated(@, i)]
      BY <1>0, <1>10, <2>2 DEF ProvisionAnnotate, ProvGoto
    <3>2. i # Empty
      <4>1. i \in EnclaveInfo
        BY <1>0, <2>1, ProvisionedInfoType DEF ProvOK
      <4> QED BY <4>1, NoInfoAssumption
    <3> HIDE DEF i
    <3>3. n \in Namespaces /\ ns \in [Namespaces -> NsObjects]
      BY <1>3, <2>1 DEF TypeInv, TypeOK, ClusterTypeOK
    <3>4. IsEnclave(ns'[n])
      BY <3>1, <3>2, <3>3 DEF Annotated, IsEnclave
    <3>5. /\ prov'[p].pc = "resources" /\ prov'[p].step = 0 /\ prov'[p].uid = x.uid
          /\ Target(p)' = n
      BY <1>0, <2>1, <3>1 DEF Progress, ProvCalls, Target
    <3>6. x.uid <= ns'[n].rv
      <4>1. x.uid <= ns[n].rv /\ x.uid \in Nat
        BY <1>0, <2>1 DEF Progress, ProvCalls
      <4> QED BY <1>3, <2>1, <4>1 DEF Develops
    <3>7. Made(n, 0)'
      BY DEF Made
    <3> QED BY <3>4, <3>5, <3>6, <3>7 DEF Progress, Maker, Working
  <2> QED BY <1>5, <2>1, <2>2
<1>11. CASE ProvisionResource(p)
  <2>1. x.pc = "resources" /\ Working(p) /\ UNCHANGED ns
    BY <1>0, <1>11 DEF ProvisionResource, Working
  <2>2. CASE ~ProvGoto(p, "rollback")
    <3> DEFINE object == ProvisionSteps[x.step + 1]
               next == IF x.step + 1 = Len(ProvisionSteps) THEN "services"
                       ELSE "resources"
    <3>1. /\ prov'[p] = [x EXCEPT !.step = @ + 1, !.pc = next]
          /\ \/ /\ object = "resource-quota"
                /\ quota' = [quota EXCEPT ![n] =
                     [exists |-> TRUE, rv |-> @.rv + 1, kind |-> "requests",
                      preset |-> ProvisionedInfo(x.req).preset]]
                /\ UNCHANGED res
             \/ /\ object # "resource-quota"
                /\ res' = [res EXCEPT ![n] = @ \cup {object}] /\ UNCHANGED quota
      BY <1>0, <1>11, <2>2 DEF ProvisionResource
    <3>2. /\ n \in Namespaces /\ quota \in [Namespaces -> QuotaObjects]
          /\ res \in [Namespaces -> SUBSET Resources] /\ x.step \in Nat
      BY <1>0, <1>3, <2>1 DEF TypeInv, TypeOK, ClusterTypeOK, ProvCalls
    <3>3. /\ IF object = "resource-quota" THEN quota'[n].exists ELSE object \in res'[n]
          /\ quota[n].exists => quota'[n].exists
          /\ res[n] \subseteq res'[n]
      BY <3>1, <3>2
    <3>4. ASSUME Made(n, x.step) PROVE Made(n, x.step + 1)'
      <4> SUFFICES ASSUME NEW i \in 1 .. x.step + 1
                   PROVE  IF ProvisionSteps[i] = "resource-quota" THEN quota'[n].exists
                          ELSE ProvisionSteps[i] \in res'[n]
        BY <3>2 DEF Made
      <4>1. i = x.step + 1 \/ i \in 1 .. x.step
        BY <3>2
      <4> QED BY <3>3, <3>4, <4>1 DEF Made
    <3> HIDE DEF object
    <3>5. /\ next \in {"resources", "services"}
          /\ next = "services" => x.step + 1 = Len(ProvisionSteps)
      OBVIOUS
    <3> HIDE DEF next
    <3>6. /\ prov'[p].pc \in {"resources", "services"} /\ prov'[p].step = x.step + 1
          /\ prov'[p].pc = "services" => prov'[p].step = Len(ProvisionSteps)
          /\ prov'[p].uid = x.uid /\ Target(p)' = n
      BY <1>0, <3>1, <3>5 DEF ProvCalls, Target
    <3>7. x.uid <= ns'[n].rv
      BY <1>0, <2>1 DEF Progress
    <3>8. (x.uid = ns[n].uid /\ ns[n].phase = "Active") =>
            IsEnclave(ns[n]) /\ Made(n, x.step)
      BY <1>0, <2>1 DEF Progress, Maker
    <3> QED BY <2>1, <3>4, <3>6, <3>7, <3>8 DEF Progress, Maker, Working
  <2> QED BY <1>5, <2>1, <2>2
<1>12. CASE ProvisionServices(p) \/ ProvisionRollback(p)
  BY <1>2, <1>12 DEF ProvisionServices, ProvisionRollback
<1>13. CASE ProvisionFail(p)
  BY <1>2, <1>5, <1>13 DEF ProvisionFail, Working
<1> QED BY <1>6, <1>7, <1>8, <1>9, <1>10, <1>11, <1>12, <1>13 DEF ProvisionStep

\* When all objects of a provision were made, the enclave is complete.
LEMMA MadeAll ==
  ASSUME TypeInv, NEW n \in Namespaces, Made(n, Len(ProvisionSteps))
  PROVE  quota[n].exists /\ res[n] = Resources
<1>1. res[n] \subseteq Resources
  BY DEF TypeInv, TypeOK, ClusterTypeOK
<1>2. \A i \in 1 .. 7 : IF ProvisionSteps[i] = "resource-quota" THEN quota[n].exists
                        ELSE ProvisionSteps[i] \in res[n]
  BY StepsType DEF Made
<1>3. quota[n].exists
  BY <1>2 DEF ProvisionSteps
<1>4. Resources \subseteq res[n]
  <2>1. ProvisionSteps[1] = "default-deny" /\ ProvisionSteps[2] = "allow-dns"
        /\ ProvisionSteps[4] = "limit-range" /\ ProvisionSteps[5] = "service-account"
        /\ ProvisionSteps[6] = "role" /\ ProvisionSteps[7] = "role-binding"
    BY DEF ProvisionSteps
  <2>2. 1 \in 1 .. 7 /\ 2 \in 1 .. 7 /\ 4 \in 1 .. 7 /\ 5 \in 1 .. 7 /\ 6 \in 1 .. 7
        /\ 7 \in 1 .. 7
    OBVIOUS
  <2> QED BY <1>2, <2>1, <2>2 DEF Resources
<1> QED BY <1>1, <1>3, <1>4

\* The step of the call that made an enclave: it goes on, or returns when the
\* enclave is complete, or deletes the namespace.
LEMMA MakersLeave ==
  ASSUME TypeInv, LifeInv, NEW p \in Provisioners, NEW n \in Namespaces, Maker(p, n),
         "rollback" \notin LifecycleFaults,
         ProvisionStep(p) \/ ProvisionFail(p), ns[n].phase = "Active"
  PROVE  \/ /\ Working(p)' /\ Target(p)' = n /\ prov'[p].uid = prov[p].uid
         \/ Complete(n) /\ UNCHANGED <<ns, quota, res>>
         \/ ns'[n].phase # "Active"
<1> DEFINE x == prov[p]
           Goes == /\ Working(p)' /\ Target(p)' = n /\ prov'[p].uid = prov[p].uid
<1>0. /\ Progress(p) /\ x \in ProvCalls /\ prov \in [Provisioners -> ProvCalls]
      /\ Working(p) /\ Target(p) = n
      /\ ns \in [Namespaces -> NsObjects]
  BY DEF LifeInv, TypeInv, TypeOK, ClusterTypeOK, Maker
<1>1. ASSUME NEW loc \in {"get", "annotate", "resources", "services", "rollback"},
             ProvGoto(p, loc)
      PROVE  Goes
  <2>1. prov'[p] = [x EXCEPT !.pc = loc]
    BY <1>0, <1>1 DEF ProvGoto
  <2> QED BY <1>0, <2>1 DEF Working, Target, ProvCalls
<1>2. CASE ProvisionCount(p) \/ ProvisionCreate(p)
  BY <1>0, <1>2 DEF ProvisionCount, ProvisionCreate, Working
<1>3. CASE ProvisionGet(p)
  <2>1. CASE prov' = [prov EXCEPT ![p].rv = ns[Target(p)].rv, ![p].pc = "annotate"]
    <3>1. prov'[p] = [x EXCEPT !.rv = ns[n].rv, !.pc = "annotate"]
      BY <1>0, <2>1
    <3> QED BY <1>0, <3>1 DEF Working, Target, ProvCalls
  <2> QED BY <1>1, <1>3, <2>1 DEF ProvisionGet
<1>4. CASE ProvisionAnnotate(p)
  BY <1>1, <1>4 DEF ProvisionAnnotate
<1>5. CASE ProvisionResource(p)
  <2>1. CASE ~ProvGoto(p, "rollback")
    <3> DEFINE next == IF x.step + 1 = Len(ProvisionSteps) THEN "services"
                       ELSE "resources"
    <3>1. prov'[p] = [x EXCEPT !.step = @ + 1, !.pc = next]
      BY <1>0, <1>5, <2>1 DEF ProvisionResource
    <3>2. next \in {"resources", "services"}
      OBVIOUS
    <3> HIDE DEF next
    <3> QED BY <1>0, <3>1, <3>2 DEF Working, Target, ProvCalls
  <2> QED BY <1>1, <2>1
<1>6. CASE ProvisionServices(p)
  <2>1. x.pc = "services" /\ UNCHANGED <<ns, quota, res>>
    BY <1>6 DEF ProvisionServices, clusterVars
  <2>2. IsEnclave(ns[n]) /\ Made(n, Len(ProvisionSteps))
    BY <1>0, <2>1 DEF Progress, Maker
  <2>3. Complete(n)
    BY <2>2, MadeAll DEF Complete
  <2> QED BY <2>1, <2>3
<1>7. CASE ProvisionRollback(p)
  <2>1. ns'[n] = DeletedNs(ns[n])
    BY <1>0, <1>7 DEF ProvisionRollback
  <2> QED BY <2>1 DEF DeletedNs
<1>8. CASE ProvisionFail(p)
  <2>1. ProvGoto(p, "rollback")
    BY <1>0, <1>8 DEF ProvisionFail, Working
  <2> QED BY <1>1, <2>1
<1> QED BY <1>2, <1>3, <1>4, <1>5, <1>6, <1>7, <1>8 DEF ProvisionStep

\* A call of enclave_provision is changed by its own steps only.
LEMMA ProvSteps ==
  ASSUME TypeInv, [Next]_vars, NEW p \in Provisioners, prov'[p] # prov[p]
  PROVE  \/ \E r \in ProvisionRequests : ProvisionStart(p, r)
         \/ ProvisionStep(p) \/ ProvisionFail(p)
<1>0. prov \in [Provisioners -> ProvCalls]
  BY DEF TypeInv, TypeOK
<1>1. PICK q \in Provisioners : \/ \E r \in ProvisionRequests : ProvisionStart(q, r)
                                \/ ProvisionStep(q) \/ ProvisionFail(q)
  <2>1. ASSUME NEW d \in Deprovisioners, DeprovisionStep(d) \/ DeprovisionFail(d)
        PROVE  UNCHANGED prov
    BY <2>1
    DEF DeprovisionStep, DeprovisionFail, DeprovisionGet, DeprovisionList,
        DeprovisionDeployment, DeprovisionNamespace
  <2>2. ASSUME NEW d, NEW r, DeprovisionStart(d, r) PROVE UNCHANGED prov
    BY <2>2 DEF DeprovisionStart
  <2> QED BY <2>1, <2>2 DEF Next, LifecycleNext, lifecycleVars, vars
<1>2. q = p
  <2>1. ASSUME NEW r, ProvisionStart(q, r) PROVE q = p
    BY <1>0, <2>1 DEF ProvisionStart
  <2>2. ASSUME ProvisionStep(q) \/ ProvisionFail(q) PROVE q = p
    <3>1. \E y : prov' = [prov EXCEPT ![q] = y]
      BY <2>2, ProvisionType
    <3> QED BY <1>0, <3>1
  <2> QED BY <1>1, <2>1, <2>2
<1> QED BY <1>1, <1>2

\* Every step keeps the invariant, if rollbacks succeed.
LEMMA LifeNext ==
  ASSUME TypeInv, LifeInv, [Next]_vars, "rollback" \notin LifecycleFaults
  PROVE  LifeInv'
<1>1. \A p \in Provisioners : Progress(p)'
  BY ProgressStays, ProgressMoves, ProvSteps
<1>2. ASSUME NEW n \in Namespaces PROVE ns'[n].uid <= ns'[n].rv
  <2>1. /\ ns[n].uid \in Nat /\ ns[n].rv \in Nat /\ ns'[n].rv \in Nat
        /\ ns[n].uid <= ns[n].rv
    BY TypeNext DEF TypeInv, TypeOK, ClusterTypeOK, NsObjects, LifeInv
  <2> QED BY <2>1, NamespacesDevelop DEF Develops
<1>3. ASSUME NEW n \in Namespaces, ns'[n].phase = "Active"
      PROVE  Complete(n)' \/ \E p \in Provisioners : Maker(p, n)'
  <2>0. Develops(n) /\ TypeInv'
    BY NamespacesDevelop, TypeNext
  <2>1. CASE ns'[n].uid # ns[n].uid
    <3>1. PICK p \in Provisioners : ProvisionCreate(p) /\ Target(p) = n
      BY <2>0, <2>1 DEF Develops
    <3>2. /\ ns'[n].uid = ns[n].rv + 1
          /\ ~ProvReturn(p) \/ ns' # ns
      BY <2>0, <2>1 DEF Develops
    <3>3. prov \in [Provisioners -> ProvCalls]
      BY DEF TypeInv, TypeOK
    <3>4. prov'[p] = [prov[p] EXCEPT !.uid = ns[n].rv + 1,
                !.pc = IF ValidateEnclaveInfo(prov[p].req) THEN "get" ELSE "rollback"]
      BY <2>1, <3>1, <3>3 DEF ProvisionCreate
    <3>5. Maker(p, n)'
      BY <3>1, <3>2, <3>3, <3>4 DEF Maker, Working, Target, ProvCalls
    <3> QED BY <3>5
  <2>2. CASE ns'[n].uid = ns[n].uid
    <3>1. /\ ns[n].phase = "Active"
          /\ IsEnclave(ns[n]) => IsEnclave(ns'[n])
          /\ quota[n].exists => quota'[n].exists
          /\ res[n] \subseteq res'[n]
      <4>1. ns[n].uid \in Nat /\ ns[n].rv \in Nat /\ ns[n].uid <= ns[n].rv
        BY DEF TypeInv, TypeOK, ClusterTypeOK, NsObjects, LifeInv
      <4> QED BY <1>3, <2>0, <2>2, <4>1 DEF Develops
    <3>2. Complete(n) => Complete(n)'
      <4>1. res'[n] \subseteq Resources
        BY <2>0 DEF TypeInv, TypeOK, ClusterTypeOK
      <4> QED BY <3>1, <4>1 DEF Complete
    <3>3. ASSUME NEW p \in Provisioners, Maker(p, n)
          PROVE  Complete(n)' \/ Maker(p, n)'
      <4>1. CASE prov'[p] = prov[p]
        BY <2>2, <3>3, <4>1 DEF Maker, Working, Target
      <4>2. CASE prov'[p] # prov[p]
        <5>1. ProvisionStep(p) \/ ProvisionFail(p)
          BY <3>3, <4>2, ProvSteps DEF Maker, Working, ProvisionStart
        <5>2. \/ /\ Working(p)' /\ Target(p)' = n /\ prov'[p].uid = prov[p].uid
              \/ Complete(n)
          BY <1>3, <3>1, <3>3, <5>1, MakersLeave
        <5> QED BY <2>2, <3>2, <3>3, <5>2 DEF Maker
      <4> QED BY <4>1, <4>2
    <3>4. Complete(n) \/ \E p \in Provisioners : Maker(p, n)
      BY <3>1 DEF LifeInv
    <3> QED BY <3>2, <3>3, <3>4
  <2> QED BY <2>1, <2>2
<1> QED BY <1>1, <1>2, <1>3 DEF LifeInv

\* If the deletion in the deferred cleanup of enclave_provision succeeds, an
\* active namespace that nobody is provisioning is a complete enclave: whatever
\* fails, however deletions and other provisions of the name get in between,
\* although the cleanup deletes by name what may be another call's namespace.
THEOREM NeverHalfProvisioned ==
  ASSUME "rollback" \notin LifecycleFaults
  PROVE  Spec => []NothingHalfProvisioned
<1>1. LifeInv => NothingHalfProvisioned
  <2> SUFFICES ASSUME LifeInv, NEW n \in Namespaces, ns[n].phase = "Active",
                      \A p \in Provisioners : prov[p].pc # "idle" => Target(p) # n
               PROVE  Complete(n)
    BY DEF NothingHalfProvisioned, Complete
  <2>1. ~\E p \in Provisioners : Maker(p, n)
    BY DEF Maker, Working
  <2> QED BY <2>1 DEF LifeInv
<1>2. TypeInv /\ LifeInv /\ [Next]_vars => LifeInv'
  BY LifeNext
<1> QED BY TypeInit, TypeNext, LifeInit, <1>1, <1>2, PTL DEF Spec

---------------------------------------------------------------------------
(* The preset in the annotations is the one in force *)

\* A call of enclave_sync that has changed the ResourceQuota of n, in this or an
\* earlier attempt, and has still to write the annotations.
Writer(c, n) == sync[c].pc # "idle" /\ Name(c) = n /\ sync[c].wroteQuota

\* Its write of a new preset would succeed now.
Pending(c, n) ==
  /\ sync[c].pc = "update" /\ Name(c) = n
  /\ Params(c).preset # Empty
  /\ sync[c].snap.rv = ns[n].rv

\* A call of enclave_provision that is going to delete n, unless it is the first
\* to create an object there; one that is going to in any case.
Contender(p, n) ==
  /\ prov[p].pc \in {"resources", "rollback"} /\ Target(p) = n
  /\ prov[p].pc = "resources" => prov[p].step = 0

Failing(p, n) ==
  Contender(p, n) /\ (prov[p].pc = "resources" => "default-deny" \in res[n])

Agree(n) == quota[n].exists /\ quota[n].preset = ns[n].ann.preset

Unsettled(n) ==
  \/ \E c \in Syncers : Writer(c, n)
  \/ \E p \in Provisioners : Failing(p, n)

GivenPreset(p) == ProvisionedInfo(prov[p].req).preset

\* The quota that call p creates, or has created, is that of the annotations;
\* or its creation fails; or another call is to blame.
Ready(p, n) ==
  /\ prov[p].step = 0 =>
       \/ "default-deny" \in res[n] \/ quota[n].exists
       \/ ns[n].ann.preset = GivenPreset(p)
       \/ \E q \in Provisioners \ {p} : Contender(q, n)
  /\ prov[p].step \in {1, 2} =>
       quota[n].exists \/ ns[n].ann.preset = GivenPreset(p) \/ Unsettled(n)
  /\ prov[p].step >= 3 => Agree(n) \/ Unsettled(n)

Settled(n) ==
  /\ IsEnclave(ns[n]) =>
       Agree(n) \/ Unsettled(n) \/ \E p \in Provisioners : Maker(p, n)
  /\ \A c \in Syncers : Pending(c, n) =>
       /\ quota[n].exists
       /\ \/ quota[n].preset = Params(c).preset
          \/ \E e \in Syncers \ {c} : Writer(e, n)
  /\ \A p \in Provisioners :
       Maker(p, n) /\ prov[p].pc \in {"resources", "services"} => Ready(p, n)

QuotaInv ==
  /\ \A c \in Syncers :
       sync[c].pc # "idle" /\ sync[c].wroteQuota => Params(c).preset # Empty
  /\ \A n \in Namespaces :
       ns[n].phase = "Active" /\ n \notin dirtyQuota => Settled(n)

\* Enclaves have the quota of their preset at the start.
LEMMA QuotaInit == Init => QuotaInv
<1> SUFFICES ASSUME Init PROVE QuotaInv
  OBVIOUS
<1>1. PICK enclaves \in InitialEnclaves :
        LET there(n) == enclaves[n] # Empty
            one(b) == IF b THEN 1 ELSE 0 IN
        /\ ns = [n \in Namespaces |->
             [phase |-> IF there(n) THEN "Active" ELSE "Absent",
              rv |-> one(there(n)), uid |-> one(there(n)), ann |-> enclaves[n]]]
        /\ quota = [n \in Namespaces |->
             [exists |-> there(n), rv |-> one(there(n)), kind |-> "requests",
              preset |-> IF there(n) THEN enclaves[n].preset ELSE "medium"]]
  BY DEF Init, ClusterInit
<1>2. \A n \in Namespaces : ns[n].phase = "Active" => Agree(n)
  BY <1>1 DEF Agree
<1>3. \A c \in Syncers : sync[c].pc = "idle"
  BY DEF Init, SyncInit, Idle
<1>4. \A p \in Provisioners : prov[p].pc = "idle"
  BY DEF Init, LifecycleInit, IdleProv
<1> QED BY <1>2, <1>3, <1>4 DEF QuotaInv, Settled, Pending, Maker, Working

\* A step that leaves the objects of n alone keeps it settled, if the calls that
\* are to blame remain and no call comes nearer to its write.
LEMMA SettledStays ==
  ASSUME NEW n \in Namespaces, Settled(n),
         ns'[n] = ns[n], quota'[n] = quota[n], res'[n] = res[n],
         \A c \in Syncers : Writer(c, n) => Writer(c, n)',
         \A c \in Syncers : Pending(c, n)' => Pending(c, n) /\ sync'[c] = sync[c],
         \A p \in Provisioners : Maker(p, n) => Maker(p, n)' \/ Agree(n) \/ Unsettled(n),
         \A p \in Provisioners : Contender(p, n) => Contender(p, n)',
         \A p \in Provisioners : Failing(p, n) => Failing(p, n)',
         \A p \in Provisioners :
           Maker(p, n)' /\ prov'[p].pc \in {"resources", "services"} =>
             Maker(p, n) /\ prov'[p] = prov[p]
  PROVE  Settled(n)'
<1>1. Agree(n) => Agree(n)'
  BY DEF Agree
<1>2. Unsettled(n) => Unsettled(n)'
  BY DEF Unsettled
<1>3. IsEnclave(ns'[n]) =>
        Agree(n)' \/ Unsettled(n)' \/ \E p \in Provisioners : Maker(p, n)'
  BY <1>1, <1>2 DEF Settled
<1>4. ASSUME NEW c \in Syncers, Pending(c, n)'
      PROVE  /\ quota'[n].exists
             /\ \/ quota'[n].preset = Params(c)'.preset
                \/ \E e \in Syncers \ {c} : Writer(e, n)'
  <2>1. Pending(c, n) /\ Params(c)' = Params(c)
    BY <1>4 DEF Params
  <2> QED BY <2>1 DEF Settled
<1>5. ASSUME NEW p \in Provisioners, Maker(p, n)',
             prov'[p].pc \in {"resources", "services"}
      PROVE  Ready(p, n)'
  <2>1. Ready(p, n) /\ prov'[p] = prov[p]
    BY <1>5 DEF Settled
  <2>2. GivenPreset(p)' = GivenPreset(p)
    BY <2>1 DEF GivenPreset
  <2> QED BY <1>1, <1>2, <2>1, <2>2 DEF Ready
<1> QED BY <1>3, <1>4, <1>5 DEF Settled

\* enclave_sync: a step that writes neither the quota nor the annotations keeps
\* the call, what it has written, and its distance to the write; or it returns and
\* leaves a mark if it has written.
LEMMA SyncQuotaShape ==
  ASSUME TypeInv, NEW c \in Syncers, SyncStep(c) \/ SyncFail(c),
         ~SyncUpdate(c), UNCHANGED quota
  PROVE  /\ UNCHANGED <<ns, res>>
         /\ \E y :
              /\ sync' = [sync EXCEPT ![c] = y]
              /\ \/ /\ y = Idle
                    /\ sync[c].wroteQuota => Name(c) \in dirtyQuota'
                    /\ dirtyQuota \subseteq dirtyQuota'
                 \/ /\ y.req = sync[c].req /\ y.wroteQuota = sync[c].wroteQuota
                    /\ y.pc # "idle" /\ sync[c].pc # "idle"
                    /\ y.pc = "update" => y.req.params.preset = Empty
                    /\ dirtyQuota' = dirtyQuota
<1> DEFINE x == sync[c]
           Goal == \E y :
              /\ sync' = [sync EXCEPT ![c] = y]
              /\ \/ /\ y = Idle
                    /\ x.wroteQuota => Name(c) \in dirtyQuota'
                    /\ dirtyQuota \subseteq dirtyQuota'
                 \/ /\ y.req = x.req /\ y.wroteQuota = x.wroteQuota
                    /\ y.pc # "idle" /\ x.pc # "idle"
                    /\ y.pc = "update" => y.req.params.preset = Empty
                    /\ dirtyQuota' = dirtyQuota
<1>0. x \in SyncCalls /\ sync \in [Syncers -> SyncCalls] /\ SyncOK(x)
      /\ quota \in [Namespaces -> QuotaObjects]
  BY DEF TypeInv, TypeOK, ClusterTypeOK
<1>a. UNCHANGED <<ns, res>>
  BY DEF SyncStep, SyncFail, SyncGet, TransferList, TransferUpdate, QuotaGet,
         QuotaUpdate, SyncRefuse, SyncConflict, SyncGone, clusterVars
<1> SUFFICES Goal
  BY <1>a
<1>1. ASSUME ReturnError(c) PROVE Goal
  <2>1. sync' = [sync EXCEPT ![c] = Idle]
    BY <1>1 DEF ReturnError
  <2>2. x.wroteQuota => Name(c) \in dirtyQuota'
    BY <1>1 DEF ReturnError
  <2>3. dirtyQuota \subseteq dirtyQuota'
    BY <1>1 DEF ReturnError
  <2> QED BY <2>1, <2>2, <2>3
<1>2. ASSUME NEW y, sync' = [sync EXCEPT ![c] = y], y.req = x.req,
             y.wroteQuota = x.wroteQuota, y.pc # "idle", x.pc # "idle",
             y.pc = "update" => Params(c).preset = Empty, dirtyQuota' = dirtyQuota
      PROVE  Goal
  BY <1>2 DEF Params
<1> HIDE DEF Goal
<1>3. \A p, i : AfterTransfers(p, i) = "update" => p.preset = Empty
  BY DEF AfterTransfers
<1>4. \A p, i : AfterTransfers(p, i) # "idle"
  BY DEF AfterTransfers
<1>5. CASE SyncGet(c)
  <2>1. CASE ~ReturnError(c)
    <3> DEFINE loc == IF Params(c).remove # {} THEN "list"
                      ELSE AfterTransfers(Params(c), ns[Name(c)].ann)
               rv == IF x.attempt = 0 THEN ns[Name(c)].rv ELSE x.startRv
               y == [x EXCEPT !.snap = ns[Name(c)], !.startRv = rv, !.pc = loc]
    <3>1. sync' = [sync EXCEPT ![c] = y] /\ dirtyQuota' = dirtyQuota /\ x.pc = "get"
      BY <1>5, <2>1 DEF SyncGet
    <3>2. loc # "idle" /\ (loc = "update" => Params(c).preset = Empty)
      BY <1>3, <1>4
    <3> HIDE DEF loc, rv
    <3>3. y.req = x.req /\ y.wroteQuota = x.wroteQuota /\ y.pc = loc
      BY <1>0 DEF SyncCalls
    <3> QED BY <1>2, <3>1, <3>2, <3>3
  <2> QED BY <1>1, <2>1
<1>6. ASSUME NEW loc, NEW left, loc # "idle", loc = "update" => Params(c).preset = Empty,
             sync' = [sync EXCEPT ![c] = [x EXCEPT !.listed = left, !.pc = loc]],
             x.pc # "idle", dirtyQuota' = dirtyQuota
      PROVE  Goal
  <2> DEFINE y == [x EXCEPT !.listed = left, !.pc = loc]
  <2>1. y.req = x.req /\ y.wroteQuota = x.wroteQuota /\ y.pc = loc
    BY <1>0 DEF SyncCalls
  <2> QED BY <1>2, <1>6, <2>1
<1>7. CASE TransferList(c)
  <2> DEFINE found == [t \in Tentacles |->
                 IF Orphaned(Params(c), deps[Name(c)][t])
                 THEN deps[Name(c)][t].rv ELSE 0]
             loc == IF \E t \in Tentacles : found[t] # 0 THEN "transfer"
                    ELSE AfterTransfers(Params(c), Info(c))
  <2>1. /\ sync' = [sync EXCEPT ![c] = [x EXCEPT !.listed = found, !.pc = loc]]
        /\ x.pc # "idle" /\ dirtyQuota' = dirtyQuota
    BY <1>7 DEF TransferList
  <2>2. loc # "idle" /\ (loc = "update" => Params(c).preset = Empty)
    BY <1>3, <1>4
  <2> HIDE DEF loc, found
  <2> QED BY <1>6, <2>1, <2>2
<1>8. ASSUME NEW t \in Tentacles, TransferUpdate(c, t) PROVE Goal
  <2> DEFINE left == [x.listed EXCEPT ![t] = 0]
             loc == IF \E u \in Tentacles : left[u] # 0 THEN "transfer"
                    ELSE AfterTransfers(Params(c), Info(c))
  <2>1. /\ sync' = [sync EXCEPT ![c] = [x EXCEPT !.listed = left, !.pc = loc]]
        /\ x.pc # "idle" /\ dirtyQuota' = dirtyQuota
    BY <1>8 DEF TransferUpdate
  <2>2. loc # "idle" /\ (loc = "update" => Params(c).preset = Empty)
    BY <1>3, <1>4
  <2> HIDE DEF loc, left
  <2> QED BY <1>6, <2>1, <2>2
<1>9. CASE QuotaGet(c)
  <2>1. CASE ~ReturnError(c)
    <3> DEFINE y == [x EXCEPT !.quotaRv = quota[Name(c)].rv, !.pc = "quotaUpdate"]
    <3>1. sync' = [sync EXCEPT ![c] = y] /\ dirtyQuota' = dirtyQuota /\ x.pc = "quotaGet"
      BY <1>9, <2>1 DEF QuotaGet
    <3>2. y.req = x.req /\ y.wroteQuota = x.wroteQuota /\ y.pc = "quotaUpdate"
      BY <1>0 DEF SyncCalls
    <3> QED BY <1>2, <3>1, <3>2
  <2> QED BY <1>1, <2>1
<1>10. CASE QuotaUpdate(c)
  <2>1. CASE ~ReturnError(c)
    <3>1. /\ quota' = [quota EXCEPT ![Name(c)] =
             [exists |-> TRUE, rv |-> @.rv + 1, kind |-> "limits",
              preset |-> Params(c).preset]]
          /\ x.pc = "quotaUpdate"
      BY <1>10, <2>1 DEF QuotaUpdate
    <3>2. Name(c) \in Namespaces
      BY <1>0, <3>1, RequestType DEF SyncOK, Name
    <3>3. quota'[Name(c)].rv = quota[Name(c)].rv + 1 /\ quota[Name(c)].rv \in Nat
      BY <1>0, <3>1, <3>2 DEF QuotaObjects
    <3> QED BY <3>3
  <2> QED BY <1>1, <2>1
<1>11. CASE SyncRefuse(c) \/ SyncGone(c)
  BY <1>1, <1>11 DEF SyncRefuse, SyncGone
<1>12. CASE SyncConflict(c)
  <2>1. CASE ~ReturnError(c)
    <3> DEFINE y == [x EXCEPT !.attempt = @ + 1, !.pc = "get", !.snap = Empty,
                              !.quotaRv = 0]
    <3>1. sync' = [sync EXCEPT ![c] = y] /\ dirtyQuota' = dirtyQuota /\ x.pc = "update"
      BY <1>12, <2>1 DEF SyncConflict
    <3>2. y.req = x.req /\ y.wroteQuota = x.wroteQuota /\ y.pc = "get"
      BY <1>0 DEF SyncCalls
    <3> QED BY <1>2, <3>1, <3>2
  <2> QED BY <1>1, <2>1
<1>13. CASE SyncFail(c)
  <2>1. CASE ~ReturnError(c)
    <3> DEFINE loc == AfterTransfers(Params(c), Info(c))
               y == [x EXCEPT !.pc = loc]
    <3>1. sync' = [sync EXCEPT ![c] = y] /\ dirtyQuota' = dirtyQuota /\ x.pc = "list"
      BY <1>13, <2>1 DEF SyncFail
    <3>2. loc # "idle" /\ (loc = "update" => Params(c).preset = Empty)
      BY <1>3, <1>4
    <3> HIDE DEF loc
    <3>3. y.req = x.req /\ y.wroteQuota = x.wroteQuota /\ y.pc = loc
      BY <1>0 DEF SyncCalls
    <3> QED BY <1>2, <3>1, <3>2, <3>3
  <2> QED BY <1>1, <2>1
<1> QED BY <1>5, <1>7, <1>8, <1>9, <1>10, <1>11, <1>12, <1>13 DEF SyncStep

\* If the quota of n exists and n agrees or some call is to blame, all is settled
\* but the calls that are about to write.
LEMMA SettledAgain ==
  ASSUME NEW n \in Namespaces, quota'[n].exists, Agree(n)' \/ Unsettled(n)',
         \A c \in Syncers : Pending(c, n)' =>
           \/ quota'[n].preset = Params(c)'.preset
           \/ \E e \in Syncers \ {c} : Writer(e, n)'
  PROVE  Settled(n)'
<1>1. \A p \in Provisioners : Ready(p, n)'
  BY DEF Ready
<1> QED BY <1>1 DEF Settled

\* The steps of enclave_sync.
LEMMA QuotaSync ==
  ASSUME TypeInv, Current, QuotaInv, SyncNext, UNCHANGED lifecycleVars,
         NEW n \in Namespaces, ns'[n].phase = "Active", n \notin dirtyQuota'
  PROVE  Settled(n)'
<1>0. /\ sync \in [Syncers -> SyncCalls] /\ ns \in [Namespaces -> NsObjects]
      /\ quota \in [Namespaces -> QuotaObjects] /\ prov' = prov
  BY DEF TypeInv, TypeOK, ClusterTypeOK, lifecycleVars
<1>1. PICK c \in Syncers : \/ \E r \in Requests : SyncStart(c, r)
                           \/ SyncStep(c) \/ SyncFail(c)
  BY DEF SyncNext
<1>2. ASSUME ns[n].phase = "Active", n \notin dirtyQuota,
             ns'[n] = ns[n], quota'[n] = quota[n], res' = res,
             NEW y, sync' = [sync EXCEPT ![c] = y],
             Writer(c, n) => Writer(c, n)', ~Pending(c, n)'
      PROVE  Settled(n)'
  <2>1. Settled(n)
    BY <1>2 DEF QuotaInv
  <2>2. \A e \in Syncers \ {c} : sync'[e] = sync[e]
    BY <1>0, <1>2
  <2>3. \A e \in Syncers : Writer(e, n) => Writer(e, n)'
    BY <1>2, <2>2 DEF Writer, Name
  <2>4. \A e \in Syncers : Pending(e, n)' => Pending(e, n) /\ sync'[e] = sync[e]
    BY <1>2, <2>2 DEF Pending, Name, Params
  <2>5. \A p \in Provisioners : /\ Maker(p, n)' <=> Maker(p, n)
                                /\ Contender(p, n)' <=> Contender(p, n)
                                /\ Failing(p, n)' <=> Failing(p, n)
    BY <1>0, <1>2 DEF Maker, Working, Contender, Failing, Target
  <2> QED BY <1>0, <1>2, <2>1, <2>3, <2>4, <2>5, SettledStays
<1>3. ASSUME NEW r \in Requests, SyncStart(c, r) PROVE Settled(n)'
  <2>1. /\ UNCHANGED <<ns, quota, res, dirtyQuota>>
        /\ sync' = [sync EXCEPT ![c] = [Idle EXCEPT !.pc = "get", !.req = r]]
        /\ sync[c].pc = "idle"
    BY <1>3 DEF SyncStart, clusterVars
  <2>2. sync'[c] = [Idle EXCEPT !.pc = "get", !.req = r]
    BY <1>0, <2>1
  <2>3. ~Writer(c, n) /\ ~Pending(c, n)'
    BY <2>1, <2>2 DEF Writer, Pending, Idle
  <2> QED BY <1>2, <2>1, <2>3
<1>4. CASE (SyncStep(c) \/ SyncFail(c)) /\ ~SyncUpdate(c) /\ UNCHANGED quota
  <2>1. UNCHANGED <<ns, res>>
    BY <1>4, SyncQuotaShape
  <2>2. PICK y :
              /\ sync' = [sync EXCEPT ![c] = y]
              /\ \/ /\ y = Idle
                    /\ sync[c].wroteQuota => Name(c) \in dirtyQuota'
                    /\ dirtyQuota \subseteq dirtyQuota'
                 \/ /\ y.req = sync[c].req /\ y.wroteQuota = sync[c].wroteQuota
                    /\ y.pc # "idle" /\ sync[c].pc # "idle"
                    /\ y.pc = "update" => y.req.params.preset = Empty
                    /\ dirtyQuota' = dirtyQuota
    BY <1>4, SyncQuotaShape
  <2>3. n \notin dirtyQuota /\ sync'[c] = y
    BY <1>0, <2>2
  <2>4. CASE y = Idle
    <3>1. ~Pending(c, n)' /\ ~Writer(c, n)
      BY <2>2, <2>3, <2>4 DEF Pending, Writer, Idle
    <3> QED BY <1>2, <1>4, <2>1, <2>2, <2>3, <3>1
  <2>5. CASE y # Idle
    <3>1. Writer(c, n) => Writer(c, n)'
      BY <2>2, <2>3, <2>5 DEF Writer, Name
    <3>2. ~Pending(c, n)'
      BY <2>2, <2>3, <2>5 DEF Pending, Params
    <3> QED BY <1>2, <1>4, <2>1, <2>2, <2>3, <3>1, <3>2
  <2> QED BY <2>4, <2>5
<1>5. CASE QuotaUpdate(c) /\ ~UNCHANGED quota
  <2> DEFINE y == [sync[c] EXCEPT !.pc = "update", !.wroteQuota = TRUE]
             q == [exists |-> TRUE, rv |-> quota[Name(c)].rv + 1, kind |-> "limits",
                   preset |-> Params(c).preset]
  <2>1. /\ sync' = [sync EXCEPT ![c] = y] /\ quota' = [quota EXCEPT ![Name(c)] = q]
        /\ UNCHANGED <<ns, res, dirtyQuota>> /\ sync[c].pc = "quotaUpdate"
    BY <1>5 DEF QuotaUpdate
  <2>2. sync'[c] = y /\ Name(c) \in Namespaces
    BY <1>0, <2>1, RequestType DEF TypeInv, SyncOK, Name
  <2>3. y.pc = "update" /\ y.wroteQuota = TRUE /\ y.req = sync[c].req
    BY <1>0 DEF SyncCalls
  <2> HIDE DEF y
  <2>4. CASE Name(c) # n
    <3>1. quota'[n] = quota[n]
      BY <1>0, <2>1, <2>4
    <3>2. ~Writer(c, n) /\ ~Pending(c, n)'
      BY <2>2, <2>3, <2>4 DEF Writer, Pending, Name
    <3> QED BY <1>2, <2>1, <3>1, <3>2
  <2>5. CASE Name(c) = n
    <3>1. quota'[n] = q
      BY <1>0, <2>1, <2>2, <2>5
    <3>2. Writer(c, n)' /\ Params(c)' = Params(c)
      BY <2>2, <2>3, <2>5 DEF Writer, Name, Params
    <3>3. Unsettled(n)' /\ quota'[n].exists /\ quota'[n].preset = Params(c)'.preset
      BY <3>1, <3>2 DEF Unsettled
    <3> QED BY <3>2, <3>3, SettledAgain
  <2> QED BY <2>4, <2>5
<1>6. CASE SyncUpdate(c)
  <2> DEFINE i == SyncedInfo(Params(c), Info(c))
  <2>1. /\ sync' = [sync EXCEPT ![c] = Idle] /\ UNCHANGED <<quota, res, dirtyQuota>>
        /\ ns' = [ns EXCEPT ![Name(c)] = Annotated(@, i)]
        /\ sync[c].pc = "update" /\ NsExists(Name(c))
        /\ ns[Name(c)].rv = sync[c].snap.rv
    BY <1>6 DEF SyncUpdate
  <2>2. sync'[c] = Idle /\ Name(c) \in Namespaces
    BY <1>0, <2>1, RequestType DEF TypeInv, SyncOK, Name
  <2>3. ~Pending(c, n)' /\ ~Writer(c, n)'
    BY <2>2 DEF Idle, Pending, Writer
  <2>4. CASE Name(c) # n
    <3>1. ns'[n] = ns[n]
      BY <1>0, <2>1, <2>4
    <3>2. ~Writer(c, n)
      BY <2>4 DEF Writer
    <3> QED BY <1>2, <2>1, <2>3, <3>1, <3>2
  <2>5. CASE Name(c) = n
    <3>1. /\ ns'[n].phase = ns[n].phase /\ ns'[n].rv = ns[n].rv + 1
          /\ ns'[n].ann = i /\ ns'[n].uid = ns[n].uid
      BY <1>0, <2>1, <2>5 DEF Annotated
    <3>2. i.preset = OrElse(Params(c).preset, ns[n].ann.preset) /\ IsEnclave(ns[n])
      <4>1. ns[n].ann = Info(c)
        BY <2>1, <2>5 DEF Current, CallCurrent, NsExists, Info
      <4>2. IsEnclave(ns[n])
        BY <2>1, <4>1 DEF TypeInv, SyncOK, IsEnclave, Info
      <4>3. i.preset = OrElse(Params(c).preset, Info(c).preset)
        BY DEF SyncedInfo
      <4> QED BY <4>1, <4>2, <4>3
    <3> HIDE DEF i
    <3>3. Settled(n)
      BY <2>1, <3>1 DEF QuotaInv
    <3>4. \A e \in Syncers : ~Pending(e, n)'
      <4> SUFFICES ASSUME NEW e \in Syncers, e # c, Pending(e, n)' PROVE FALSE
        BY <2>3
      <4>1. sync'[e] = sync[e]
        BY <1>0, <2>1
      <4>2. sync[e].pc = "update" /\ Name(e) = n /\ sync[e].snap.rv = ns[n].rv + 1
        BY <3>1, <4>1 DEF Pending, Name
      <4>3. ns[n].rv >= sync[e].snap.rv /\ ns[n].rv \in Nat
        BY <1>0, <4>2 DEF Current, CallCurrent, NsObjects
      <4> QED BY <4>2, <4>3
    <3>5. \A e \in Syncers \ {c} : Writer(e, n) => Writer(e, n)'
      BY <1>0, <2>1 DEF Writer, Name
    <3>6. \A p \in Provisioners : /\ Maker(p, n)' <=> Maker(p, n)
                                  /\ Contender(p, n)' <=> Contender(p, n)
                                  /\ Failing(p, n)' <=> Failing(p, n)
                                  /\ GivenPreset(p)' = GivenPreset(p)
      BY <1>0, <2>1, <3>1
      DEF Maker, Working, Contender, Failing, Target, GivenPreset
    <3>7. CASE Params(c).preset = Empty
      <4>1. ns'[n].ann.preset = ns[n].ann.preset
        BY <3>1, <3>2, <3>7 DEF OrElse
      <4>2. ~Writer(c, n)
        BY <3>7 DEF Writer, QuotaInv
      <4>3. Agree(n) => Agree(n)'
        BY <2>1, <4>1 DEF Agree
      <4>4. Unsettled(n) => Unsettled(n)'
        BY <3>5, <3>6, <4>2 DEF Unsettled
      <4>5. ASSUME NEW p \in Provisioners, Ready(p, n) PROVE Ready(p, n)'
        BY <1>0, <2>1, <3>6, <4>1, <4>3, <4>4, <4>5 DEF Ready
      <4> QED BY <1>0, <3>2, <3>3, <3>4, <3>6, <4>3, <4>4, <4>5 DEF Settled
    <3>8. CASE Params(c).preset # Empty
      <4>1. Pending(c, n)
        BY <2>1, <2>5, <3>8 DEF Pending
      <4>2. /\ quota[n].exists
            /\ \/ quota[n].preset = Params(c).preset
               \/ \E e \in Syncers \ {c} : Writer(e, n)
        BY <3>3, <4>1 DEF Settled
      <4>3. ns'[n].ann.preset = Params(c).preset
        BY <3>1, <3>2, <3>8 DEF OrElse
      <4>4. Agree(n)' \/ Unsettled(n)'
        BY <2>1, <3>5, <4>2, <4>3 DEF Agree, Unsettled
      <4> QED BY <2>1, <3>4, <4>2, <4>4, SettledAgain
    <3> QED BY <3>7, <3>8
  <2> QED BY <2>4, <2>5
<1>7. ASSUME SyncStep(c) \/ SyncFail(c), ~SyncUpdate(c), ~QuotaUpdate(c)
      PROVE  UNCHANGED quota
  BY <1>7
  DEF SyncStep, SyncFail, SyncGet, TransferList, TransferUpdate, QuotaGet, SyncRefuse,
      SyncConflict, SyncGone, clusterVars
<1> QED BY <1>1, <1>3, <1>4, <1>5, <1>6, <1>7

\* The network policy comes first, the quota third.
LEMMA StepOrder ==
  \A i \in 1 .. 7 : /\ ProvisionSteps[i] = "default-deny" <=> i = 1
                    /\ ProvisionSteps[i] = "resource-quota" <=> i = 3
  BY DEF ProvisionSteps

\* What a call has made once it has created an object.
LEMMA MadeFirst ==
  ASSUME NEW n, NEW k \in Nat, Made(n, k)
  PROVE  /\ k >= 1 => "default-deny" \in res[n]
         /\ k >= 3 => quota[n].exists
<1>1. ProvisionSteps[1] = "default-deny" /\ ProvisionSteps[3] = "resource-quota"
  BY DEF ProvisionSteps
<1>2. k >= 1 => 1 \in 1 .. k
  OBVIOUS
<1>3. k >= 3 => 3 \in 1 .. k
  OBVIOUS
<1> QED BY <1>1, <1>2, <1>3 DEF Made

\* No write is pending under a version that is only now given.
LEMMA NothingPending ==
  ASSUME TypeInv, Current, NEW n \in Namespaces, sync' = sync,
         ns'[n].rv = ns[n].rv + 1
  PROVE  \A c \in Syncers : ~Pending(c, n)'
<1> SUFFICES ASSUME NEW c \in Syncers, Pending(c, n)' PROVE FALSE
  OBVIOUS
<1>1. sync[c].pc = "update" /\ Name(c) = n /\ sync[c].snap.rv = ns[n].rv + 1
  BY DEF Pending, Name
<1>2. ns[n].rv >= sync[c].snap.rv /\ ns[n].rv \in Nat
  BY <1>1 DEF Current, CallCurrent, NsObjects, TypeInv, TypeOK, ClusterTypeOK
<1> QED BY <1>1, <1>2

\* enclave_provision creates the namespace.
LEMMA QuotaCreate ==
  ASSUME TypeInv, Current, LifeInv, NEW p \in Provisioners, sync' = sync,
         ProvisionCreate(p), ~UNCHANGED ns, NEW n \in Namespaces, n = Target(p)
  PROVE  Settled(n)'
<1>0. /\ prov \in [Provisioners -> ProvCalls] /\ ns \in [Namespaces -> NsObjects]
  BY DEF TypeInv, TypeOK, ClusterTypeOK
<1>1. /\ ns' = [ns EXCEPT ![n] = [phase |-> "Active", rv |-> ns[n].rv + 1,
                                uid |-> ns[n].rv + 1, ann |-> Empty]]
      /\ prov' = [prov EXCEPT ![p] = [prov[p] EXCEPT !.uid = ns[n].rv + 1,
           !.pc = IF ValidateEnclaveInfo(prov[p].req) THEN "get" ELSE "rollback"]]
  BY DEF ProvisionCreate
<1>2. /\ ns'[n].rv = ns[n].rv + 1 /\ ns'[n].uid = ns[n].rv + 1 /\ ns'[n].ann = Empty
      /\ ns[n].rv \in Nat
  BY <1>0, <1>1 DEF NsObjects
<1>3. \A c \in Syncers : ~Pending(c, n)'
  BY <1>2, NothingPending
<1>4. ASSUME NEW q \in Provisioners, Maker(q, n)',
             prov'[q].pc \in {"resources", "services"}
      PROVE  FALSE
  <2>1. q # p
    BY <1>0, <1>1, <1>4 DEF ProvCalls
  <2>2. prov'[q] = prov[q]
    BY <1>0, <1>1, <2>1
  <2>3. Working(q) /\ Target(q) = n /\ prov[q].uid = ns[n].rv + 1
    BY <1>2, <1>4, <2>2 DEF Maker, Working, Target
  <2>4. prov[q].uid <= ns[n].rv
    BY <2>3 DEF LifeInv, Progress
  <2> QED BY <1>2, <2>3, <2>4
<1> QED BY <1>2, <1>3, <1>4 DEF Settled, IsEnclave

\* It annotates the namespace.
LEMMA QuotaAnnotate ==
  ASSUME TypeInv, Current, LifeInv, NEW p \in Provisioners, sync' = sync,
         ProvisionAnnotate(p), ~UNCHANGED ns, NEW n \in Namespaces, n = Target(p),
         ns[n].phase = "Active", Settled(n)
  PROVE  Settled(n)'
<1>0. /\ prov \in [Provisioners -> ProvCalls] /\ ns \in [Namespaces -> NsObjects]
  BY DEF TypeInv, TypeOK, ClusterTypeOK
<1>1. /\ ns' = [ns EXCEPT ![n] = Annotated(@, ProvisionedInfo(prov[p].req))]
      /\ prov' = [prov EXCEPT ![p] = [prov[p] EXCEPT !.pc = "resources"]]
      /\ prov[p].pc = "annotate" /\ UNCHANGED <<quota, res>>
  BY DEF ProvisionAnnotate, ProvGoto
<1>2. /\ ns'[n].rv = ns[n].rv + 1 /\ ns'[n].uid = ns[n].uid
      /\ ns'[n].ann = ProvisionedInfo(prov[p].req)
  BY <1>0, <1>1 DEF Annotated
<1>3. /\ prov'[p].pc = "resources" /\ prov'[p].step = 0 /\ prov'[p].uid = prov[p].uid
      /\ prov'[p].req = prov[p].req
  BY <1>0, <1>1 DEF ProvCalls, LifeInv, Progress
<1>4. \A q \in Provisioners \ {p} : prov'[q] = prov[q]
  BY <1>0, <1>1
<1>5. \A c \in Syncers : ~Pending(c, n)'
  BY <1>2, NothingPending
<1>6. Contender(p, n)' /\ ("default-deny" \in res[n] => Failing(p, n)')
  BY <1>1, <1>3 DEF Contender, Failing, Target
<1>7. \A q \in Provisioners : Maker(q, n)' <=> Maker(q, n)
  BY <1>1, <1>2, <1>3, <1>4 DEF Maker, Working, Target
<1>8. ASSUME ~\E q \in Provisioners : Maker(q, n)' PROVE Unsettled(n)'
  <2>1. Complete(n)
    BY <1>7, <1>8 DEF LifeInv
  <2>2. "default-deny" \in res[n]
    BY <2>1 DEF Complete, Resources
  <2> QED BY <1>6, <2>2 DEF Unsettled
<1>9. ASSUME NEW q \in Provisioners, Maker(q, n)',
             prov'[q].pc \in {"resources", "services"}
      PROVE  Ready(q, n)'
  <2>1. CASE q = p
    <3>1. ns'[n].ann.preset = GivenPreset(p)'
      BY <1>2, <1>3 DEF GivenPreset
    <3> QED BY <1>3, <2>1, <3>1 DEF Ready
  <2>2. CASE q # p
    <3>1. prov'[q] = prov[q] /\ Maker(q, n) /\ prov[q].step \in Nat
      BY <1>0, <1>4, <1>7, <1>9, <2>2 DEF ProvCalls
    <3>2. Made(n, prov[q].step)
      BY <1>9, <3>1 DEF LifeInv, Progress, Maker
    <3>3. prov[q].step >= 1 => Unsettled(n)'
      BY <1>6, <3>1, <3>2, MadeFirst DEF Unsettled
    <3>4. prov[q].step = 0 => \E z \in Provisioners \ {q} : Contender(z, n)'
      BY <1>6, <2>2
    <3> QED BY <3>1, <3>3, <3>4 DEF Ready
  <2> QED BY <2>1, <2>2
<1> QED BY <1>5, <1>8, <1>9 DEF Settled

\* It creates an object.
LEMMA QuotaResource ==
  ASSUME TypeInv, LifeInv, NEW p \in Provisioners, sync' = sync,
         ProvisionResource(p), ~ProvGoto(p, "rollback"),
         NEW n \in Namespaces, n = Target(p), Settled(n)
  PROVE  Settled(n)'
<1>n. PICK k : k = prov[p].step
  OBVIOUS
<1> DEFINE object == ProvisionSteps[k + 1]
<1>0. /\ prov \in [Provisioners -> ProvCalls] /\ quota \in [Namespaces -> QuotaObjects]
      /\ res \in [Namespaces -> SUBSET Resources]
      /\ k \in 0 .. 6 /\ k + 1 \in 1 .. 7 /\ prov[p].pc = "resources"
  <2>1. prov[p].pc = "resources" /\ ProvOK(prov[p])
    BY DEF ProvisionResource, TypeInv
  <2>2. k \in 0 .. 6
    BY <1>n, <2>1, StepsType DEF ProvOK, ProvCalls
  <2> QED BY <2>1, <2>2 DEF TypeInv, TypeOK, ClusterTypeOK
<1>1. /\ UNCHANGED ns /\ ns[n].phase = "Active"
      /\ IF object = "resource-quota" THEN ~quota[n].exists ELSE object \notin res[n]
      /\ IF object = "resource-quota"
         THEN /\ quota' = [quota EXCEPT ![n] =
                   [exists |-> TRUE, rv |-> @.rv + 1, kind |-> "requests",
                    preset |-> GivenPreset(p)]]
              /\ UNCHANGED res
         ELSE /\ res' = [res EXCEPT ![n] = @ \cup {object}]
              /\ UNCHANGED quota
  BY <1>n DEF ProvisionResource, Creatable, GivenPreset
<1>2. /\ prov'[p].pc \in {"resources", "services"} /\ prov'[p].step = k + 1
      /\ prov'[p].uid = prov[p].uid /\ prov'[p].req = prov[p].req
      /\ \A q \in Provisioners \ {p} : prov'[q] = prov[q]
  <2> DEFINE next == IF k + 1 = Len(ProvisionSteps) THEN "services"
                     ELSE "resources"
             y == [prov[p] EXCEPT !.step = prov[p].step + 1, !.pc = next]
  <2>1. prov' = [prov EXCEPT ![p] = y]
    BY <1>n DEF ProvisionResource
  <2>2. next \in {"resources", "services"}
    OBVIOUS
  <2> HIDE DEF next
  <2> QED BY <1>n, <1>0, <2>1, <2>2 DEF ProvCalls
<1>3. \A q \in Provisioners : /\ Maker(q, n)' <=> Maker(q, n)
                              /\ GivenPreset(q)' = GivenPreset(q)
  <2>1. ASSUME NEW q \in Provisioners
        PROVE  (Maker(q, n)' <=> Maker(q, n)) /\ GivenPreset(q)' = GivenPreset(q)
    <3>1. CASE q = p
      BY <1>0, <1>1, <1>2, <3>1 DEF Maker, Working, Target, GivenPreset
    <3>2. CASE q # p
      BY <1>1, <1>2, <3>2 DEF Maker, Working, Target, GivenPreset
    <3> QED BY <3>1, <3>2
  <2> QED BY <2>1
<1>4. \A c \in Syncers : /\ Writer(c, n)' <=> Writer(c, n)
                         /\ Pending(c, n)' <=> Pending(c, n)
                         /\ Params(c)' = Params(c)
  BY <1>1 DEF Writer, Pending, Name, Params
<1>5. ASSUME NEW q \in Provisioners, Maker(q, n), prov[q].pc \in {"resources", "services"}
      PROVE  /\ Ready(q, n) /\ prov[q].step \in Nat
             /\ prov[q].step >= 1 => "default-deny" \in res[n]
             /\ prov[q].step >= 3 => quota[n].exists
  <2>1. prov[q].step \in Nat
    BY <1>0 DEF ProvCalls
  <2>2. Made(n, prov[q].step)
    BY <1>1, <1>5 DEF LifeInv, Progress, Maker
  <2> QED BY <1>5, <2>1, <2>2, MadeFirst DEF Settled
<1>6. \A q \in Provisioners \ {p} : Contender(q, n)' <=> Contender(q, n)
  BY <1>2 DEF Contender, Target
<1>7. CASE object = "resource-quota"
  <2>1. /\ k = 2 /\ ~quota[n].exists /\ res' = res
        /\ quota'[n].exists /\ quota'[n].preset = GivenPreset(p)
    BY <1>0, <1>1, <1>7, StepOrder
  <2>2. ~Contender(p, n)
    BY <1>n, <1>0, <2>1 DEF Contender
  <2>3. \A q \in Provisioners : Failing(q, n) => Failing(q, n)'
    BY <1>2, <1>6, <2>1, <2>2 DEF Failing
  <2>4. Unsettled(n) => Unsettled(n)'
    BY <1>4, <2>3 DEF Unsettled
  <2>5. \A c \in Syncers : ~Pending(c, n)'
    BY <1>4, <2>1 DEF Settled
  <2>6. CASE Maker(p, n)
    <3>1. ns[n].ann.preset = GivenPreset(p) \/ Unsettled(n)
      BY <1>n, <1>0, <1>5, <2>1, <2>6 DEF Ready
    <3>2. Agree(n)' \/ Unsettled(n)'
      BY <1>1, <2>1, <2>4, <3>1 DEF Agree
    <3> QED BY <2>1, <2>5, <3>2, SettledAgain
  <2>7. CASE ~Maker(p, n)
    <3>1. \E q \in Provisioners : Maker(q, n)'
      BY <1>1, <1>3, <2>1 DEF LifeInv, Complete
    <3>2. ASSUME NEW q \in Provisioners, Maker(q, n)',
                 prov'[q].pc \in {"resources", "services"}
          PROVE  Ready(q, n)'
      <4>1. q # p /\ Maker(q, n) /\ prov'[q] = prov[q]
        BY <1>2, <1>3, <2>7, <3>2
      <4>2. prov[q].step \in Nat /\ ~(prov[q].step >= 3)
        BY <1>5, <2>1, <3>2, <4>1
      <4> QED BY <2>1, <4>1, <4>2 DEF Ready
    <3> QED BY <2>5, <3>1, <3>2 DEF Settled
  <2> QED BY <2>6, <2>7
<1>8. CASE object # "resource-quota"
  <2>1. /\ k # 2 /\ object \notin res[n] /\ quota' = quota
        /\ res'[n] = res[n] \cup {object}
    BY <1>0, <1>1, <1>8, StepOrder
  <2>2. k = 0 <=> object = "default-deny"
    BY <1>0, StepOrder
  <2> HIDE DEF object
  <2>3. ~Failing(p, n)
    BY <1>n, <1>0, <2>1, <2>2 DEF Failing, Contender
  <2>4. \A q \in Provisioners : Failing(q, n) => Failing(q, n)'
    BY <1>2, <1>6, <2>1, <2>3 DEF Failing
  <2>5. Unsettled(n) => Unsettled(n)'
    BY <1>4, <2>4 DEF Unsettled
  <2>6. Agree(n)' <=> Agree(n)
    BY <1>1, <2>1 DEF Agree
  <2>7. \A c \in Syncers : Pending(c, n)' =>
          /\ quota'[n].exists
          /\ \/ quota'[n].preset = Params(c)'.preset
             \/ \E e \in Syncers \ {c} : Writer(e, n)'
    BY <1>4, <2>1 DEF Settled
  <2>8. ASSUME NEW q \in Provisioners, q # p, Maker(q, n)',
               prov'[q].pc \in {"resources", "services"}
        PROVE  Ready(q, n)'
    <3>1. Maker(q, n) /\ prov'[q] = prov[q]
      BY <1>2, <1>3, <2>8
    <3>2. /\ Ready(q, n) /\ prov[q].step \in Nat
          /\ prov[q].step >= 1 => "default-deny" \in res[n]
      BY <1>5, <2>8, <3>1
    <3>3. CASE k = 0
      BY <2>1, <2>2, <3>1, <3>2, <3>3 DEF Ready
    <3>4. CASE k # 0
      <4>1. ~Contender(p, n)
        BY <1>n, <1>0, <3>4 DEF Contender
      <4>2. (\E z \in Provisioners \ {q} : Contender(z, n)) =>
               \E z \in Provisioners \ {q} : Contender(z, n)'
        BY <1>6, <4>1
      <4> QED BY <1>1, <1>3, <2>1, <2>5, <2>6, <3>1, <3>2, <4>2 DEF Ready
    <3> QED BY <3>3, <3>4
  <2>9. ASSUME Maker(p, n) PROVE Ready(p, n)'
    <3>1. Ready(p, n)
      BY <1>0, <1>5, <2>9
    <3>2. CASE k = 0
      <4>1. ASSUME NEW q \in Provisioners \ {p}, Contender(q, n) PROVE Unsettled(n)'
        <5>1. Failing(q, n)'
          BY <1>2, <1>6, <2>1, <2>2, <3>2, <4>1 DEF Failing
        <5> QED BY <5>1 DEF Unsettled
      <4>2. quota[n].exists \/ ns[n].ann.preset = GivenPreset(p) \/ Unsettled(n)'
        BY <1>n, <2>1, <2>2, <3>1, <3>2, <4>1 DEF Ready
      <4>3. prov'[p].step = 1
        BY <1>2, <3>2
      <4> QED BY <1>1, <1>3, <2>1, <4>2, <4>3 DEF Ready
    <3>3. CASE k = 1
      <4>1. quota[n].exists \/ ns[n].ann.preset = GivenPreset(p) \/ Unsettled(n)'
        BY <1>n, <2>5, <3>1, <3>3 DEF Ready
      <4>2. prov'[p].step = 2
        BY <1>2, <3>3
      <4> QED BY <1>1, <1>3, <2>1, <4>1, <4>2 DEF Ready
    <3>4. CASE k >= 3
      <4>1. Agree(n)' \/ Unsettled(n)'
        BY <1>n, <2>5, <2>6, <3>1, <3>4 DEF Ready
      <4>2. prov'[p].step \in Nat /\ prov'[p].step > 3
        BY <1>0, <1>2, <3>4
      <4> QED BY <4>1, <4>2 DEF Ready
    <3> QED BY <1>0, <2>1, <3>2, <3>3, <3>4
  <2>10. IsEnclave(ns'[n]) =>
          Agree(n)' \/ Unsettled(n)' \/ \E q \in Provisioners : Maker(q, n)'
    BY <1>1, <1>3, <2>5, <2>6 DEF Settled
  <2> QED BY <1>3, <2>7, <2>8, <2>9, <2>10 DEF Settled
<1> QED BY <1>7, <1>8

\* A step of call p that leaves the objects of n alone keeps n settled, if the
\* call remains to blame and comes no nearer to creating anything there.
LEMMA ProvFrame ==
  ASSUME NEW p \in Provisioners, NEW n \in Namespaces, Settled(n), sync' = sync,
         ns'[n] = ns[n], quota'[n] = quota[n], res'[n] = res[n],
         \A q \in Provisioners \ {p} : prov'[q] = prov[q],
         Maker(p, n) => Maker(p, n)' \/ Agree(n) \/ Unsettled(n),
         Contender(p, n) => Contender(p, n)',
         Failing(p, n) => Failing(p, n)',
         ~(Maker(p, n)' /\ prov'[p].pc \in {"resources", "services"})
  PROVE  Settled(n)'
<1>1. \A q \in Provisioners \ {p} : /\ Maker(q, n)' <=> Maker(q, n)
                                    /\ Contender(q, n)' <=> Contender(q, n)
                                    /\ Failing(q, n)' <=> Failing(q, n)
  BY DEF Maker, Working, Contender, Failing, Target
<1>2. \A c \in Syncers : /\ Writer(c, n)' <=> Writer(c, n)
                         /\ Pending(c, n)' <=> Pending(c, n)
  BY DEF Writer, Pending, Name, Params
<1>3. \A q \in Provisioners : Maker(q, n) => Maker(q, n)' \/ Agree(n) \/ Unsettled(n)
  BY <1>1
<1>4. \A q \in Provisioners : Contender(q, n) => Contender(q, n)'
  BY <1>1
<1>5. \A q \in Provisioners : Failing(q, n) => Failing(q, n)'
  BY <1>1
<1>6. \A q \in Provisioners :
        Maker(q, n)' /\ prov'[q].pc \in {"resources", "services"} =>
          Maker(q, n) /\ prov'[q] = prov[q]
  BY <1>1
<1> QED BY <1>2, <1>3, <1>4, <1>5, <1>6, SettledStays

\* A step of call p does nothing to the objects of other namespaces, and a call
\* that has created a namespace keeps its request.
LEMMA ProvTouches ==
  ASSUME TypeInv, NEW p \in Provisioners,
         (\E r \in ProvisionRequests : ProvisionStart(p, r))
           \/ ProvisionStep(p) \/ ProvisionFail(p)
  PROVE  /\ \A n \in Namespaces \ {Target(p)} :
              ns'[n] = ns[n] /\ quota'[n] = quota[n] /\ res'[n] = res[n]
         /\ \A q \in Provisioners \ {p} : prov'[q] = prov[q]
         /\ Working(p)' => prov'[p].req = prov[p].req
<1>0. /\ prov \in [Provisioners -> ProvCalls] /\ ns \in [Namespaces -> NsObjects]
      /\ quota \in [Namespaces -> QuotaObjects]
      /\ res \in [Namespaces -> SUBSET Resources] /\ prov[p] \in ProvCalls
  BY DEF TypeInv, TypeOK, ClusterTypeOK
<1>1. \A n \in Namespaces \ {Target(p)} : ns'[n] = ns[n]
  <2>1. \/ UNCHANGED ns
        \/ \E o : ns' = [ns EXCEPT ![Target(p)] = o]
    <3>1. CASE ProvisionCreate(p) \/ ProvisionAnnotate(p) \/ ProvisionRollback(p)
      BY <3>1, Zenon DEF ProvisionCreate, ProvisionAnnotate, ProvisionRollback
    <3>2. CASE ~(ProvisionCreate(p) \/ ProvisionAnnotate(p) \/ ProvisionRollback(p))
      BY <3>2
      DEF ProvisionStart, ProvisionStep, ProvisionFail, ProvisionCount, ProvisionGet,
          ProvisionResource, ProvisionServices, clusterVars
    <3> QED BY <3>1, <3>2
  <2> QED BY <1>0, <2>1
<1>2. \A n \in Namespaces \ {Target(p)} : quota'[n] = quota[n] /\ res'[n] = res[n]
  <2>1. CASE ProvisionResource(p)
    <3> DEFINE object == ProvisionSteps[prov[p].step + 1]
    <3>1. \/ UNCHANGED <<quota, res>>
          \/ /\ quota' = [quota EXCEPT ![Target(p)] =
                  [exists |-> TRUE, rv |-> @.rv + 1, kind |-> "requests",
                   preset |-> ProvisionedInfo(prov[p].req).preset]]
             /\ UNCHANGED res
          \/ res' = [res EXCEPT ![Target(p)] = @ \cup {object}] /\ UNCHANGED quota
      BY <2>1 DEF ProvisionResource
    <3> HIDE DEF object
    <3> QED BY <1>0, <3>1
  <2>2. CASE ~ProvisionResource(p)
    <3>1. UNCHANGED <<quota, res>>
      BY <2>2
      DEF ProvisionStart, ProvisionStep, ProvisionFail, ProvisionCount, ProvisionCreate,
          ProvisionGet, ProvisionAnnotate, ProvisionServices, ProvisionRollback, clusterVars
    <3> QED BY <3>1
  <2> QED BY <2>1, <2>2
<1>3. ASSUME NEW loc, ProvGoto(p, loc)
      PROVE  /\ \A q \in Provisioners \ {p} : prov'[q] = prov[q]
             /\ prov'[p].req = prov[p].req
  BY <1>0, <1>3 DEF ProvGoto, ProvCalls
<1>4. ASSUME NEW y, prov' = [prov EXCEPT ![p] = y], y.pc \in {"idle", "count"}
      PROVE  /\ \A q \in Provisioners \ {p} : prov'[q] = prov[q]
             /\ ~Working(p)'
  BY <1>0, <1>4 DEF Working
<1>5. ProvReturn(p) =>
        /\ \A q \in Provisioners \ {p} : prov'[q] = prov[q]
        /\ ~Working(p)'
  <2>1. IdleProv.pc \in {"idle", "count"}
    BY DEF IdleProv
  <2> QED BY <1>4, <2>1 DEF ProvReturn
<1>6. ASSUME NEW r \in ProvisionRequests, ProvisionStart(p, r)
      PROVE  /\ \A q \in Provisioners \ {p} : prov'[q] = prov[q]
             /\ ~Working(p)'
  <2>1. prov' = [prov EXCEPT ![p] = [IdleProv EXCEPT !.pc = "count", !.req = r]]
    BY <1>6 DEF ProvisionStart
  <2>2. [IdleProv EXCEPT !.pc = "count", !.req = r].pc = "count"
    BY DEF IdleProv
  <2> QED BY <1>4, <2>1, <2>2
<1>7. ASSUME ProvisionCreate(p), ~ProvReturn(p)
      PROVE  /\ \A q \in Provisioners \ {p} : prov'[q] = prov[q]
             /\ prov'[p].req = prov[p].req
  <2> DEFINE next == IF ValidateEnclaveInfo(prov[p].req) THEN "get" ELSE "rollback"
             u == ns[Target(p)].rv + 1
  <2>1. prov' = [prov EXCEPT ![p] = [prov[p] EXCEPT !.uid = u, !.pc = next]]
    BY <1>7 DEF ProvisionCreate
  <2> HIDE DEF next, u
  <2> QED BY <1>0, <2>1 DEF ProvCalls
<1>8. ASSUME ProvisionGet(p)
      PROVE  /\ \A q \in Provisioners \ {p} : prov'[q] = prov[q]
             /\ prov'[p].req = prov[p].req
  <2> DEFINE v == ns[Target(p)].rv
  <2>1. \/ ProvGoto(p, "rollback")
        \/ prov' = [prov EXCEPT ![p] = [prov[p] EXCEPT !.rv = v, !.pc = "annotate"]]
    BY <1>8 DEF ProvisionGet
  <2> HIDE DEF v
  <2> QED BY <1>0, <1>3, <2>1 DEF ProvCalls
<1>9. ASSUME ProvisionResource(p), ~ProvGoto(p, "rollback")
      PROVE  /\ \A q \in Provisioners \ {p} : prov'[q] = prov[q]
             /\ prov'[p].req = prov[p].req
  <2> DEFINE next == IF prov[p].step + 1 = Len(ProvisionSteps) THEN "services"
                     ELSE "resources"
  <2>1. prov' = [prov EXCEPT ![p] = [prov[p] EXCEPT !.step = prov[p].step + 1, !.pc = next]]
    BY <1>9 DEF ProvisionResource
  <2> HIDE DEF next
  <2> QED BY <1>0, <2>1 DEF ProvCalls
<1>10. /\ \A q \in Provisioners \ {p} : prov'[q] = prov[q]
       /\ Working(p)' => prov'[p].req = prov[p].req
  BY <1>3, <1>5, <1>6, <1>7, <1>8, <1>9
  DEF ProvisionStep, ProvisionFail, ProvisionCount, ProvisionAnnotate, ProvisionServices,
      ProvisionRollback
<1> QED BY <1>1, <1>2, <1>10

\* The steps of enclave_provision.
LEMMA QuotaProvision ==
  ASSUME TypeInv, Current, LifeInv, QuotaInv, "rollback" \notin LifecycleFaults,
         NEW p \in Provisioners, UNCHANGED syncVars,
         (\E r \in ProvisionRequests : ProvisionStart(p, r))
           \/ ProvisionStep(p) \/ ProvisionFail(p),
         NEW n \in Namespaces, ns'[n].phase = "Active", n \notin dirtyQuota
  PROVE  Settled(n)'
<1>0. /\ prov \in [Provisioners -> ProvCalls] /\ prov[p] \in ProvCalls
      /\ ns \in [Namespaces -> NsObjects] /\ sync' = sync
  BY DEF TypeInv, TypeOK, ClusterTypeOK, syncVars
<1>1. /\ \A m \in Namespaces \ {Target(p)} :
           ns'[m] = ns[m] /\ quota'[m] = quota[m] /\ res'[m] = res[m]
      /\ \A q \in Provisioners \ {p} : prov'[q] = prov[q]
      /\ Working(p)' => prov'[p].req = prov[p].req
  BY ProvTouches
<1>2. ns[n].phase = "Active" => Settled(n)
  BY DEF QuotaInv
<1>3. CASE n # Target(p)
  <2>1. ns'[n] = ns[n] /\ quota'[n] = quota[n] /\ res'[n] = res[n] /\ Settled(n)
    BY <1>1, <1>2, <1>3
  <2>2. ~Maker(p, n) /\ ~Contender(p, n) /\ ~Failing(p, n)
    BY <1>3 DEF Maker, Contender, Failing
  <2>3. ~Maker(p, n)'
    BY <1>1, <1>3 DEF Maker, Target
  <2> QED BY <1>0, <1>1, <2>1, <2>2, <2>3, ProvFrame
<1>4. ASSUME n = Target(p), UNCHANGED clusterVars, ~Working(p), ~Working(p)'
      PROVE  Settled(n)'
  <2>1. ~Maker(p, n) /\ ~Contender(p, n) /\ ~Failing(p, n) /\ ~Maker(p, n)'
    BY <1>4 DEF Maker, Contender, Failing, Working
  <2>2. ns'[n] = ns[n] /\ quota'[n] = quota[n] /\ res'[n] = res[n] /\ Settled(n)
    BY <1>2, <1>4 DEF clusterVars
  <2> QED BY <1>0, <1>1, <2>1, <2>2, ProvFrame
<1>5. ASSUME n = Target(p), UNCHANGED clusterVars, Working(p), ProvGoto(p, "rollback")
      PROVE  Settled(n)'
  <2>1. /\ prov'[p].pc = "rollback" /\ prov'[p].req = prov[p].req
        /\ prov'[p].uid = prov[p].uid
    BY <1>0, <1>5 DEF ProvGoto, ProvCalls
  <2>2. ns'[n] = ns[n] /\ quota'[n] = quota[n] /\ res'[n] = res[n] /\ Settled(n)
    BY <1>2, <1>5 DEF clusterVars
  <2>3. Maker(p, n) => Maker(p, n)'
    BY <2>1, <2>2 DEF Maker, Working, Target
  <2>4. Contender(p, n)' /\ Failing(p, n)'
    BY <1>5, <2>1 DEF Contender, Failing, Target
  <2> QED BY <1>0, <1>1, <2>1, <2>2, <2>3, <2>4, ProvFrame
<1>6. ASSUME n = Target(p), NEW r, ProvisionStart(p, r) PROVE Settled(n)'
  <2>1. prov' = [prov EXCEPT ![p] = [IdleProv EXCEPT !.pc = "count", !.req = r]]
    BY <1>6 DEF ProvisionStart
  <2>2. prov'[p].pc = "count"
    BY <1>0, <2>1 DEF IdleProv
  <2>3. UNCHANGED clusterVars /\ ~Working(p) /\ ~Working(p)'
    BY <1>6, <2>2 DEF Working, ProvisionStart
  <2> QED BY <1>4, <1>6, <2>3
<1>7. ASSUME ProvReturn(p) PROVE prov'[p].pc = "idle" /\ ~Working(p)'
  BY <1>0, <1>7 DEF ProvReturn, IdleProv, Working
<1>8. ASSUME n = Target(p), ProvisionCount(p) PROVE Settled(n)'
  <2>1. ~Working(p)'
    BY <1>0, <1>7, <1>8 DEF ProvisionCount, ProvGoto, ProvCalls, Working
  <2>2. UNCHANGED clusterVars /\ ~Working(p)
    BY <1>8 DEF Working, ProvisionCount
  <2> QED BY <1>4, <1>8, <2>1, <2>2
<1>9. ASSUME n = Target(p), ProvisionCreate(p) PROVE Settled(n)'
  <2>1. CASE UNCHANGED ns
    <3>1. ProvReturn(p)
      <4>1. ASSUME ns' = [ns EXCEPT ![n] = [phase |-> "Active", rv |-> @.rv + 1,
                                            uid |-> @.rv + 1, ann |-> Empty]]
            PROVE  FALSE
        <5>1. ns'[n].rv = ns[n].rv + 1 /\ ns[n].rv \in Nat
          BY <1>0, <4>1 DEF NsObjects
        <5> QED BY <2>1, <5>1
      <4> QED BY <1>9, <4>1 DEF ProvisionCreate
    <3>2. UNCHANGED clusterVars /\ ~Working(p)
      BY <1>9, <2>1 DEF Working, ProvisionCreate, clusterVars
    <3> QED BY <1>4, <1>7, <1>9, <3>1, <3>2
  <2>2. CASE ~UNCHANGED ns
    BY <1>0, <1>9, <2>2, QuotaCreate
  <2> QED BY <2>1, <2>2
<1>10. ASSUME n = Target(p), ProvisionGet(p) PROVE Settled(n)'
  <2>0. UNCHANGED clusterVars /\ prov[p].pc = "get" /\ Working(p)
    BY <1>10 DEF ProvisionGet, Working
  <2>1. CASE ~ProvGoto(p, "rollback")
    <3>1. /\ prov'[p].pc = "annotate" /\ prov'[p].req = prov[p].req
          /\ prov'[p].uid = prov[p].uid
      BY <1>0, <1>10, <2>1 DEF ProvisionGet, ProvCalls
    <3>2. ns'[n] = ns[n] /\ quota'[n] = quota[n] /\ res'[n] = res[n] /\ Settled(n)
      BY <1>2, <2>0 DEF clusterVars
    <3>3. Maker(p, n) => Maker(p, n)'
      BY <3>1, <3>2 DEF Maker, Working, Target
    <3>4. ~Contender(p, n) /\ ~Failing(p, n)
      BY <2>0 DEF Contender, Failing
    <3> QED BY <1>0, <1>1, <3>1, <3>2, <3>3, <3>4, ProvFrame
  <2> QED BY <1>5, <1>10, <2>0, <2>1
<1>11. ASSUME n = Target(p), ProvisionAnnotate(p) PROVE Settled(n)'
  <2>0. prov[p].pc = "annotate" /\ Working(p)
    BY <1>11 DEF ProvisionAnnotate, Working
  <2> DEFINE i == ProvisionedInfo(prov[p].req)
  <2>1. CASE ns' = [ns EXCEPT ![n] = Annotated(@, i)]
    <3> HIDE DEF i
    <3>1. ns'[n].phase = ns[n].phase /\ ns'[n].rv = ns[n].rv + 1 /\ ns[n].rv \in Nat
      BY <1>0, <2>1 DEF Annotated, NsObjects
    <3>2. ns' # ns /\ Settled(n) /\ ns[n].phase = "Active"
      BY <1>2, <3>1
    <3> QED BY <1>0, <1>11, <3>2, QuotaAnnotate
  <2>2. CASE ~(ns' = [ns EXCEPT ![n] = Annotated(@, i)])
    <3>1. ProvGoto(p, "rollback") /\ UNCHANGED clusterVars
      BY <1>11, <2>2 DEF ProvisionAnnotate, clusterVars
    <3> QED BY <1>5, <1>11, <2>0, <3>1
  <2> QED BY <2>1, <2>2
<1>12. ASSUME n = Target(p), ProvisionResource(p) PROVE Settled(n)'
  <2>0. Working(p) /\ ns' = ns /\ Settled(n)
    BY <1>2, <1>12 DEF ProvisionResource, Working
  <2>1. CASE ~ProvGoto(p, "rollback")
    BY <1>0, <1>12, <2>0, <2>1, QuotaResource
  <2>2. CASE ProvGoto(p, "rollback")
    <3>1. prov'[p].pc = "rollback"
      BY <1>0, <2>2 DEF ProvGoto, ProvCalls
    <3>2. UNCHANGED clusterVars
      <4> DEFINE next == IF prov[p].step + 1 = Len(ProvisionSteps) THEN "services"
                         ELSE "resources"
      <4>1. ASSUME prov' = [prov EXCEPT ![p] =
                               [prov[p] EXCEPT !.step = prov[p].step + 1, !.pc = next]]
            PROVE  FALSE
        <5>1. next # "rollback"
          OBVIOUS
        <5> HIDE DEF next
        <5>2. prov'[p].pc = next
          BY <1>0, <4>1 DEF ProvCalls
        <5> QED BY <3>1, <5>1, <5>2
      <4> QED BY <1>12, <4>1 DEF ProvisionResource, clusterVars
    <3> QED BY <1>5, <1>12, <2>0, <2>2, <3>2
  <2> QED BY <2>1, <2>2
<1>13. ASSUME n = Target(p), ProvisionServices(p) PROVE Settled(n)'
  <2>0. UNCHANGED clusterVars /\ prov[p].pc = "services" /\ prov'[p].pc = "idle"
    BY <1>7, <1>13 DEF ProvisionServices
  <2>1. ns'[n] = ns[n] /\ quota'[n] = quota[n] /\ res'[n] = res[n] /\ Settled(n)
    BY <1>2, <2>0 DEF clusterVars
  <2>2. ASSUME Maker(p, n) PROVE Agree(n) \/ Unsettled(n)
    <3>1. prov[p].step = 7
      BY <2>0, StepsType DEF LifeInv, Progress
    <3>2. Ready(p, n)
      BY <2>0, <2>1, <2>2 DEF Settled
    <3> QED BY <3>1, <3>2 DEF Ready
  <2>3. ~Contender(p, n) /\ ~Failing(p, n)
    BY <2>0 DEF Contender, Failing
  <2> QED BY <1>0, <1>1, <2>0, <2>1, <2>2, <2>3, ProvFrame
<1>14. ASSUME n = Target(p), ProvisionRollback(p) PROVE Settled(n)'
  <2>1. ns'[n] = DeletedNs(ns[n])
    BY <1>0, <1>14 DEF ProvisionRollback
  <2> QED BY <2>1 DEF DeletedNs
<1>15. ASSUME n = Target(p), ProvisionFail(p) PROVE Settled(n)'
  <2>0. UNCHANGED clusterVars
    BY <1>15 DEF ProvisionFail
  <2>1. \/ prov[p].pc \in {"count", "create"} /\ ProvReturn(p)
        \/ /\ prov[p].pc \in {"get", "annotate", "resources", "services"}
           /\ ProvGoto(p, "rollback")
    BY <1>15 DEF ProvisionFail
  <2> QED BY <1>4, <1>5, <1>7, <1>15, <2>0, <2>1 DEF Working
<1> QED BY <1>3, <1>6, <1>8, <1>9, <1>10, <1>11, <1>12, <1>13, <1>14, <1>15
        DEF ProvisionStep

\* The steps of enclave_deprovision and of the cluster: a namespace that is still
\* active afterwards, they have left alone.
LEMMA QuotaOthers ==
  ASSUME TypeInv, QuotaInv, UNCHANGED <<syncVars, prov>>,
         \/ \E d \in Deprovisioners :
              \/ \E r \in DeprovisionRequests : DeprovisionStart(d, r)
              \/ DeprovisionStep(d) \/ DeprovisionFail(d)
         \/ ClusterNext
         \/ UNCHANGED clusterVars,
         NEW n \in Namespaces, ns'[n].phase = "Active", n \notin dirtyQuota
  PROVE  Settled(n)'
<1>0. /\ ns \in [Namespaces -> NsObjects] /\ quota \in [Namespaces -> QuotaObjects]
      /\ res \in [Namespaces -> SUBSET Resources] /\ sync' = sync /\ prov' = prov
  BY DEF TypeInv, TypeOK, ClusterTypeOK, syncVars
<1>1. ns'[n] = ns[n] /\ quota'[n] = quota[n] /\ res'[n] = res[n]
  <2>1. ASSUME UNCHANGED <<ns, quota, res>>
        PROVE  ns'[n] = ns[n] /\ quota'[n] = quota[n] /\ res'[n] = res[n]
    BY <2>1
  <2>2. ASSUME NEW d, DeprovisionNamespace(d)
        PROVE  ns'[n] = ns[n] /\ quota'[n] = quota[n] /\ res'[n] = res[n]
    <3>1. ns' = [ns EXCEPT ![Doomed(d)] = DeletedNs(@)] /\ UNCHANGED <<quota, res>>
      BY <2>2 DEF DeprovisionNamespace
    <3> QED BY <1>0, <3>1 DEF DeletedNs
  <2>3. ASSUME NEW m \in Namespaces, FinalizeNamespace(m)
        PROVE  ns'[n] = ns[n] /\ quota'[n] = quota[n] /\ res'[n] = res[n]
    <3>1. n # m
      BY <1>0, <2>3 DEF FinalizeNamespace
    <3> QED BY <1>0, <2>3, <3>1 DEF FinalizeNamespace
  <2>4. ASSUME NEW d, DeprovisionStep(d) \/ DeprovisionFail(d), ~DeprovisionNamespace(d)
        PROVE  UNCHANGED <<ns, quota, res>>
    BY <2>4
    DEF DeprovisionStep, DeprovisionFail, DeprovisionGet, DeprovisionList,
        DeprovisionDeployment, clusterVars
  <2>5. ASSUME NEW d, NEW r, DeprovisionStart(d, r)
        PROVE  UNCHANGED <<ns, quota, res>>
    BY <2>5 DEF DeprovisionStart, clusterVars
  <2>6. ASSUME NEW m, NEW t, DeploymentStatusUpdate(m, t)
        PROVE  UNCHANGED <<ns, quota, res>>
    BY <2>6 DEF DeploymentStatusUpdate
  <2> QED BY <2>1, <2>2, <2>3, <2>4, <2>5, <2>6 DEF ClusterNext, clusterVars
<1>2. Settled(n)
  BY <1>1 DEF QuotaInv
<1>3. \A c \in Syncers : /\ Writer(c, n)' <=> Writer(c, n)
                         /\ Pending(c, n)' <=> Pending(c, n)
  BY <1>0, <1>1 DEF Writer, Pending, Name, Params
<1>4. \A p \in Provisioners : /\ Maker(p, n)' <=> Maker(p, n)
                              /\ Contender(p, n)' <=> Contender(p, n)
                              /\ Failing(p, n)' <=> Failing(p, n)
  BY <1>0, <1>1 DEF Maker, Working, Contender, Failing, Target
<1> QED BY <1>0, <1>1, <1>2, <1>3, <1>4, SettledStays

\* Only a call that asks for a preset writes the quota.
LEMMA WritersHavePreset ==
  ASSUME TypeInv, QuotaInv, [Next]_vars, NEW c \in Syncers,
         sync'[c].pc # "idle", sync'[c].wroteQuota
  PROVE  Params(c)'.preset # Empty
<1>0. sync \in [Syncers -> SyncCalls] /\ sync[c] \in SyncCalls /\ SyncOK(sync[c])
  BY DEF TypeInv, TypeOK
<1>1. CASE sync'[c] = sync[c]
  BY <1>1 DEF QuotaInv, Params
<1>2. CASE sync'[c] # sync[c]
  <2>1. PICK e \in Syncers : \/ \E r \in Requests : SyncStart(e, r)
                             \/ SyncStep(e) \/ SyncFail(e)
    BY <1>2 DEF Next, SyncNext, syncVars, vars
  <2>2. ASSUME NEW r, SyncStart(e, r) PROVE FALSE
    <3>1. sync' = [sync EXCEPT ![e] = [Idle EXCEPT !.pc = "get", !.req = r]]
      BY <2>2 DEF SyncStart
    <3>2. sync'[c] = [Idle EXCEPT !.pc = "get", !.req = r]
      BY <1>0, <1>2, <3>1
    <3> QED BY <3>2 DEF Idle
  <2>3. CASE SyncUpdate(e)
    BY <1>0, <1>2, <2>3 DEF SyncUpdate, Idle
  <2>4. CASE (SyncStep(e) \/ SyncFail(e)) /\ ~SyncUpdate(e) /\ UNCHANGED quota
    <3>1. PICK y :
              /\ sync' = [sync EXCEPT ![e] = y]
              /\ \/ y = Idle
                 \/ /\ y.req = sync[e].req /\ y.wroteQuota = sync[e].wroteQuota
                    /\ sync[e].pc # "idle"
      BY <2>4, SyncQuotaShape
    <3>2. e = c /\ sync'[c] = y
      BY <1>0, <1>2, <3>1
    <3> QED BY <3>1, <3>2 DEF QuotaInv, Params, Idle
  <2>5. CASE (SyncStep(e) \/ SyncFail(e)) /\ ~UNCHANGED quota
    <3>1. QuotaUpdate(e) /\ ~UNCHANGED quota
      BY <2>5
      DEF SyncStep, SyncFail, SyncGet, TransferList, TransferUpdate, QuotaGet,
          SyncRefuse, SyncUpdate, SyncConflict, SyncGone, clusterVars
    <3>2. /\ sync' = [sync EXCEPT ![e].pc = "update", ![e].wroteQuota = TRUE]
          /\ sync[e].pc = "quotaUpdate"
      BY <3>1 DEF QuotaUpdate
    <3>3. e = c /\ sync'[c].req = sync[c].req
      BY <1>0, <1>2, <3>2 DEF SyncCalls
    <3> QED BY <1>0, <3>2, <3>3 DEF SyncOK, Params
  <2> QED BY <2>1, <2>2, <2>3, <2>4, <2>5
<1> QED BY <1>1, <1>2

\* Every step keeps the invariant, if rollbacks succeed.
LEMMA QuotaNext ==
  ASSUME TypeInv, Current, LifeInv, QuotaInv, [Next]_vars,
         "rollback" \notin LifecycleFaults
  PROVE  QuotaInv'
<1>1. ASSUME NEW n \in Namespaces, ns'[n].phase = "Active", n \notin dirtyQuota'
      PROVE  Settled(n)'
  <2>1. CASE SyncNext /\ UNCHANGED lifecycleVars
    BY <1>1, <2>1, QuotaSync
  <2>2. ASSUME NEW p \in Provisioners, UNCHANGED syncVars,
               (\E r \in ProvisionRequests : ProvisionStart(p, r))
                 \/ ProvisionStep(p) \/ ProvisionFail(p)
        PROVE  Settled(n)'
    BY <1>1, <2>2, QuotaProvision DEF syncVars
  <2>3. ASSUME NEW d \in Deprovisioners, UNCHANGED syncVars,
               (\E r \in DeprovisionRequests : DeprovisionStart(d, r))
                 \/ DeprovisionStep(d) \/ DeprovisionFail(d)
        PROVE  Settled(n)'
    <3>1. UNCHANGED prov
      BY <2>3
      DEF DeprovisionStart, DeprovisionStep, DeprovisionFail, DeprovisionGet,
          DeprovisionList, DeprovisionDeployment, DeprovisionNamespace
    <3> QED BY <1>1, <2>3, <3>1, QuotaOthers DEF syncVars
  <2>4. CASE ClusterNext /\ UNCHANGED <<syncVars, lifecycleVars>>
    BY <1>1, <2>4, QuotaOthers DEF syncVars, lifecycleVars
  <2>5. CASE UNCHANGED vars
    BY <1>1, <2>5, QuotaOthers DEF vars, syncVars, lifecycleVars, clusterVars
  <2> QED BY <2>1, <2>2, <2>3, <2>4, <2>5 DEF Next, LifecycleNext
<1> QED BY <1>1, WritersHavePreset DEF QuotaInv

\* If the cleanup of enclave_provision succeeds, the preset in the annotations of
\* an enclave that no call is changing is the one its ResourceQuota holds, unless
\* an enclave_sync that had written the ResourceQuota failed afterwards: although
\* the two objects are written by separate calls and the namespace by any number
\* of enclave_sync and enclave_provision calls at once.
THEOREM PresetAlwaysMatches ==
  ASSUME "rollback" \notin LifecycleFaults
  PROVE  Spec => []QuotaMatchesAnnotation
<1>1. QuotaInv => QuotaMatchesAnnotation
  <2> SUFFICES ASSUME QuotaInv, NEW n \in Namespaces, ns[n].phase = "Active",
                      IsEnclave(ns[n]), n \notin dirtyQuota,
                      \A c \in Syncers : sync[c].pc # "idle" => Name(c) # n,
                      \A p \in Provisioners : prov[p].pc # "idle" => Target(p) # n
               PROVE  Agree(n)
    BY DEF QuotaMatchesAnnotation, Agree
  <2>1. ~Unsettled(n)
    BY DEF Unsettled, Writer, Failing, Contender
  <2>2. ~\E p \in Provisioners : Maker(p, n)
    BY DEF Maker, Working
  <2> QED BY <2>1, <2>2 DEF QuotaInv, Settled
<1>2. TypeInv /\ LifeInv /\ [Next]_vars => LifeInv'
  BY LifeNext
<1>3. TypeInv /\ Current /\ LifeInv /\ QuotaInv /\ [Next]_vars => QuotaInv'
  BY QuotaNext
<1> QED BY TypeInit, TypeNext, CurrentInit, CurrentNext, LifeInit, QuotaInit,
           <1>1, <1>2, <1>3, PTL DEF Spec

---------------------------------------------------------------------------
(* The member lists *)

\* What a step may do to the annotations of n: nothing, remove them, replace them
\* by what an accepted enclave_sync makes of them, or by those of a new enclave.
LEMMA AnnotationSteps ==
  ASSUME TypeInv, Current, [Next]_vars, NEW n \in Namespaces
  PROVE  \/ ns'[n].ann \in {ns[n].ann, Empty}
         \/ \E r \in Requests :
              /\ ns[n].ann \in EnclaveInfo
              /\ AcceptedEarly(r.deployer, r.params, ns[n].ann)
              /\ AcceptedLate(r.params, ns[n].ann)
              /\ ns'[n].ann = SyncedInfo(r.params, ns[n].ann)
         \/ \E p \in Provisioners :
              /\ ProvisionAnnotate(p) /\ Target(p) = n
              /\ ns'[n].ann = ProvisionedInfo(prov[p].req)
<1> DEFINE Goal ==
         \/ ns'[n].ann \in {ns[n].ann, Empty}
         \/ \E r \in Requests :
              /\ ns[n].ann \in EnclaveInfo
              /\ AcceptedEarly(r.deployer, r.params, ns[n].ann)
              /\ AcceptedLate(r.params, ns[n].ann)
              /\ ns'[n].ann = SyncedInfo(r.params, ns[n].ann)
         \/ \E p \in Provisioners :
              /\ ProvisionAnnotate(p) /\ Target(p) = n
              /\ ns'[n].ann = ProvisionedInfo(prov[p].req)
<1> SUFFICES Goal
  OBVIOUS
<1>0. ns \in [Namespaces -> NsObjects]
  BY DEF TypeInv, TypeOK, ClusterTypeOK
<1>1. ASSUME ns'[n].ann \in {ns[n].ann, Empty} PROVE Goal
  BY <1>1
<1>2. ASSUME NEW m, ns' = [ns EXCEPT ![m] = DeletedNs(@)] PROVE Goal
  <2>1. DeletedNs(ns[n]).ann = ns[n].ann
    BY DEF DeletedNs
  <2>2. ns'[n] \in {ns[n], DeletedNs(ns[n])}
    BY <1>0, <1>2
  <2> QED BY <2>1, <2>2
<1>3. ASSUME NEW c \in Syncers, SyncUpdate(c) PROVE Goal
  <2>1. CASE Name(c) = n
    <3>0. PICK r, i : r = sync[c].req /\ i = SyncedInfo(r.params, sync[c].snap.ann)
      OBVIOUS
    <3>1. /\ sync[c].pc = "update" /\ ns[n].phase # "Absent"
          /\ ns[n].rv = sync[c].snap.rv
          /\ ns' = [ns EXCEPT ![n] = Annotated(@, i)]
      BY <1>3, <2>1, <3>0 DEF SyncUpdate, NsExists, Params, Info
    <3>2. /\ r \in Requests /\ sync[c].snap.ann \in EnclaveInfo
          /\ AcceptedEarly(r.deployer, r.params, sync[c].snap.ann)
          /\ AcceptedLate(r.params, sync[c].snap.ann)
      BY <3>0, <3>1 DEF TypeInv, SyncOK
    <3>3. ns[n].ann = sync[c].snap.ann
      BY <2>1, <3>1 DEF Current, CallCurrent
    <3>4. ns'[n].ann = i
      BY <1>0, <3>1 DEF Annotated
    <3> QED BY <3>0, <3>2, <3>3, <3>4
  <2>2. CASE Name(c) # n
    <3>1. ns'[n] = ns[n]
      BY <1>0, <1>3, <2>2 DEF SyncUpdate
    <3> QED BY <3>1
  <2> QED BY <2>1, <2>2
<1>4. ASSUME NEW p \in Provisioners, ProvisionAnnotate(p) PROVE Goal
  <2>1. CASE ns'[n] = ns[n]
    BY <2>1
  <2>2. CASE ns'[n] # ns[n]
    <3>0. PICK i : i = ProvisionedInfo(prov[p].req)
      OBVIOUS
    <3>1. ns' = [ns EXCEPT ![Target(p)] = Annotated(@, i)]
      BY <1>4, <2>2, <3>0 DEF ProvisionAnnotate
    <3>2. Target(p) = n /\ ns'[n].ann = i
      BY <1>0, <2>2, <3>1 DEF Annotated
    <3> QED BY <1>4, <3>0, <3>2
  <2> QED BY <2>1, <2>2
<1>5. ASSUME NEW p, ProvisionCreate(p) PROVE Goal
  <2>1. ns'[n] = ns[n] \/ ns'[n].ann = Empty
    BY <1>0, <1>5 DEF ProvisionCreate
  <2> QED BY <2>1
<1>6. ASSUME NEW m \in Namespaces, FinalizeNamespace(m) PROVE Goal
  <2>1. ns'[n] = ns[n] \/ ns'[n].ann = Empty
    BY <1>0, <1>6 DEF FinalizeNamespace
  <2> QED BY <2>1
<1>7. ASSUME UNCHANGED ns PROVE Goal
  BY <1>7
<1> HIDE DEF Goal
<1>8. CASE SyncNext
  <2>1. PICK c \in Syncers : \/ \E r \in Requests : SyncStart(c, r)
                             \/ SyncStep(c) \/ SyncFail(c)
    BY <1>8 DEF SyncNext
  <2>2. SyncUpdate(c) \/ UNCHANGED ns
    BY <2>1
    DEF SyncStart, SyncStep, SyncFail, SyncGet, TransferList, TransferUpdate, QuotaGet,
        QuotaUpdate, SyncRefuse, SyncConflict, SyncGone, clusterVars
  <2> QED BY <1>3, <1>7, <2>2
<1>9. ASSUME NEW p \in Provisioners,
             (\E r \in ProvisionRequests : ProvisionStart(p, r))
               \/ ProvisionStep(p) \/ ProvisionFail(p)
      PROVE  Goal
  <2>1. \/ ProvisionCreate(p) \/ ProvisionAnnotate(p) \/ ProvisionRollback(p)
        \/ UNCHANGED ns
    BY <1>9
    DEF ProvisionStart, ProvisionStep, ProvisionFail, ProvisionCount, ProvisionGet,
        ProvisionResource, ProvisionServices, clusterVars
  <2> QED BY <1>2, <1>4, <1>5, <1>7, <2>1 DEF ProvisionRollback
<1>10. ASSUME NEW d \in Deprovisioners,
              (\E r \in DeprovisionRequests : DeprovisionStart(d, r))
                \/ DeprovisionStep(d) \/ DeprovisionFail(d)
       PROVE  Goal
  <2>1. DeprovisionNamespace(d) \/ UNCHANGED ns
    BY <1>10
    DEF DeprovisionStart, DeprovisionStep, DeprovisionFail, DeprovisionGet,
        DeprovisionList, DeprovisionDeployment, clusterVars
  <2> QED BY <1>2, <1>7, <2>1 DEF DeprovisionNamespace
<1>11. CASE ClusterNext
  BY <1>6, <1>7, <1>11 DEF ClusterNext, DeploymentStatusUpdate
<1>12. CASE UNCHANGED vars
  BY <1>7, <1>12 DEF vars, clusterVars
<1> QED BY <1>8, <1>9, <1>10, <1>11, <1>12 DEF Next, LifecycleNext

\* No email has a capital letter, and the callers of enclave_provision, whose
\* lists are only checked for their length, name nobody twice and not the owner.
PlainLists ==
  /\ \A e \in Emails : ToLower[e] = e
  /\ \A enclaves \in InitialEnclaves : \A n \in Namespaces :
       enclaves[n] # Empty => WellFormed(enclaves[n])
  /\ \A r \in ProvisionRequests :
       ProvisionOwner(r) \notin Range(r.members) /\ IsInjective(r.members)

\* Then the member lists stay well formed, whatever additions, removals and
\* ownership transfers enclave_sync makes, in whatever order its concurrent calls
\* check and write: the transfer that adds the old owner to a full list without
\* validating it again has always removed the new one.
THEOREM ListsAlwaysWellFormed ==
  ASSUME PlainLists
  PROVE  Spec => []MembersWellFormed
<1> DEFINE Inv == \A n \in Namespaces : ns[n].ann # Empty => WellFormed(ns[n].ann)
<1>1. Inv => MembersWellFormed
  BY DEF MembersWellFormed, WellFormed, IsEnclave
<1>2. Init => Inv
  <2> SUFFICES ASSUME Init PROVE Inv
    OBVIOUS
  <2>1. PICK enclaves \in InitialEnclaves :
          ns = [n \in Namespaces |->
                 [phase |-> IF enclaves[n] # Empty THEN "Active" ELSE "Absent",
                  rv |-> IF enclaves[n] # Empty THEN 1 ELSE 0,
                  uid |-> IF enclaves[n] # Empty THEN 1 ELSE 0, ann |-> enclaves[n]]]
    BY DEF Init, ClusterInit
  <2>2. \A n \in Namespaces : ns[n].ann = enclaves[n]
    BY <2>1
  <2> QED BY <2>2 DEF PlainLists
<1>3. ASSUME TypeInv, Current, [Next]_vars, Inv PROVE Inv'
  <2> SUFFICES ASSUME NEW n \in Namespaces, ns'[n].ann # Empty
               PROVE  WellFormed(ns'[n].ann)
    OBVIOUS
  <2>1. CASE ns'[n].ann \in {ns[n].ann, Empty}
    BY <1>3, <2>1
  <2>2. ASSUME NEW r \in Requests, ns[n].ann \in EnclaveInfo,
               AcceptedEarly(r.deployer, r.params, ns[n].ann),
               AcceptedLate(r.params, ns[n].ann),
               ns'[n].ann = SyncedInfo(r.params, ns[n].ann)
        PROVE  WellFormed(ns'[n].ann)
    <3>1. WellFormed(ns[n].ann) /\ r.params \in SyncParams
      BY <1>3, <2>2, NoInfoAssumption, RequestType
    <3>2. \A e \in Emails : ToLower[e] = e
      BY DEF PlainLists
    <3> QED BY <2>2, <3>1, <3>2, SyncedWellFormed
  <2>3. ASSUME NEW p \in Provisioners, ProvisionAnnotate(p),
               ns'[n].ann = ProvisionedInfo(prov[p].req)
        PROVE  WellFormed(ns'[n].ann)
    <3>1. prov[p].req \in ProvisionRequests /\ ValidateMembers(prov[p].req.members)
      BY <1>3, <2>3 DEF ProvisionAnnotate, TypeInv, ProvOK
    <3> QED BY <2>3, <3>1 DEF PlainLists, WellFormed, ProvisionedInfo
  <2> QED BY <1>3, <2>1, <2>2, <2>3, AnnotationSteps
<1> HIDE DEF Inv
<1>4. TypeInv /\ Current /\ [Next]_vars /\ Inv => Inv'
  BY <1>3
<1> QED BY TypeInit, TypeNext, CurrentInit, CurrentNext, <1>1, <1>2, <1>4, PTL DEF Spec

---------------------------------------------------------------------------
(* The limit on the enclaves of an owner *)

\* There are finitely many names and calls, at least one that provisions, and nobody
\* owns too many enclaves at the start.
LimitedAtFirst ==
  /\ IsFiniteSet(Namespaces)
  /\ IsFiniteSet(Provisioners) /\ Provisioners # {}
  /\ \A enclaves \in InitialEnclaves, e \in Emails :
       Cardinality({n \in Namespaces :
         enclaves[n] # Empty /\ ToLower[enclaves[n].owner] = ToLower[e]})
       <= MaxEnclavesPerOwner

\* No enclave_sync makes this person an owner.
NoHeir(e) ==
  \A r \in Requests :
    r.params.newOwner # Empty => ToLower[r.params.newOwner] # ToLower[e]

Owned(e) ==
  {n \in Namespaces : ns[n].ann # Empty /\ ToLower[ns[n].ann.owner] = ToLower[e]}

\* The calls that have found room for an enclave and not annotated it yet.
Admitted(e) ==
  {p \in Provisioners :
     /\ prov[p].pc \in {"create", "get", "annotate"}
     /\ ToLower[ProvisionOwner(prov[p].req)] = ToLower[e]}

\* Each call that was admitted may still add one enclave.
LimitInv ==
  /\ \A n \in Namespaces : ns[n].phase = "Absent" => ns[n].ann = Empty
  /\ \A e \in Emails : NoHeir(e) =>
       Cardinality(Owned(e)) + Cardinality(Admitted(e))
         < MaxEnclavesPerOwner + Cardinality(Provisioners)

\* A namespace that is gone has no annotations.
LEMMA GoneStep ==
  ASSUME TypeInv, [Next]_vars, NEW n \in Namespaces, ns'[n].phase = "Absent"
  PROVE  ns'[n] = ns[n] \/ ns'[n].ann = Empty
<1> DEFINE Goal == ns'[n] = ns[n] \/ ns'[n].ann = Empty
<1> SUFFICES Goal
  OBVIOUS
<1>0. ns \in [Namespaces -> NsObjects]
  BY DEF TypeInv, TypeOK, ClusterTypeOK
<1>1. ASSUME NEW m, NEW i, ns[m].phase # "Absent",
             ns' = [ns EXCEPT ![m] = Annotated(@, i)]
      PROVE  Goal
  BY <1>0, <1>1 DEF Annotated
<1>2. ASSUME NEW m, ns' = [ns EXCEPT ![m] = DeletedNs(@)] PROVE Goal
  BY <1>0, <1>2 DEF DeletedNs
<1>3. ASSUME NEW c \in Syncers, SyncUpdate(c) PROVE Goal
  BY <1>1, <1>3, Zenon DEF SyncUpdate, NsExists
<1>4. ASSUME NEW p \in Provisioners, ProvisionAnnotate(p) PROVE Goal
  <2>1. \/ UNCHANGED ns
        \/ /\ ns[Target(p)].phase # "Absent"
           /\ ns' = [ns EXCEPT ![Target(p)] =
                Annotated(@, ProvisionedInfo(prov[p].req))]
    BY <1>4, Zenon DEF ProvisionAnnotate, NsExists
  <2>2. CASE UNCHANGED ns
    BY <2>2
  <2> QED BY <1>1, <2>1, <2>2, Zenon
<1>5. ASSUME NEW p, ProvisionCreate(p) PROVE Goal
  BY <1>0, <1>5 DEF ProvisionCreate
<1>6. ASSUME NEW m \in Namespaces, FinalizeNamespace(m) PROVE Goal
  BY <1>0, <1>6 DEF FinalizeNamespace
<1>7. ASSUME UNCHANGED ns PROVE Goal
  BY <1>7
<1> HIDE DEF Goal
<1>8. CASE SyncNext
  <2>1. PICK c \in Syncers : \/ \E r \in Requests : SyncStart(c, r)
                             \/ SyncStep(c) \/ SyncFail(c)
    BY <1>8 DEF SyncNext
  <2>2. SyncUpdate(c) \/ UNCHANGED ns
    BY <2>1
    DEF SyncStart, SyncStep, SyncFail, SyncGet, TransferList, TransferUpdate, QuotaGet,
        QuotaUpdate, SyncRefuse, SyncConflict, SyncGone, clusterVars
  <2> QED BY <1>3, <1>7, <2>2
<1>9. ASSUME NEW p \in Provisioners,
             (\E r \in ProvisionRequests : ProvisionStart(p, r))
               \/ ProvisionStep(p) \/ ProvisionFail(p)
      PROVE  Goal
  <2>1. \/ ProvisionCreate(p) \/ ProvisionAnnotate(p) \/ ProvisionRollback(p)
        \/ UNCHANGED ns
    BY <1>9
    DEF ProvisionStart, ProvisionStep, ProvisionFail, ProvisionCount, ProvisionGet,
        ProvisionResource, ProvisionServices, clusterVars
  <2> QED BY <1>2, <1>4, <1>5, <1>7, <2>1 DEF ProvisionRollback
<1>10. ASSUME NEW d \in Deprovisioners,
              (\E r \in DeprovisionRequests : DeprovisionStart(d, r))
                \/ DeprovisionStep(d) \/ DeprovisionFail(d)
       PROVE  Goal
  <2>1. DeprovisionNamespace(d) \/ UNCHANGED ns
    BY <1>10
    DEF DeprovisionStart, DeprovisionStep, DeprovisionFail, DeprovisionGet,
        DeprovisionList, DeprovisionDeployment, clusterVars
  <2> QED BY <1>2, <1>7, <2>1 DEF DeprovisionNamespace
<1>11. CASE ClusterNext
  BY <1>6, <1>7, <1>11 DEF ClusterNext, DeploymentStatusUpdate
<1>12. CASE UNCHANGED vars
  BY <1>7, <1>12 DEF vars, clusterVars
<1> QED BY <1>8, <1>9, <1>10, <1>11, <1>12 DEF Next, LifecycleNext

\* The enclaves of a person do not become more, but by the annotation of a new one.
LEMMA OwnedSteps ==
  ASSUME TypeInv, Current, [Next]_vars, NEW e \in Emails, NoHeir(e)
  PROVE  \/ Owned(e)' \subseteq Owned(e)
         \/ \E p \in Provisioners :
              /\ ProvisionAnnotate(p)
              /\ Owned(e)' \subseteq Owned(e) \cup {Target(p)}
              /\ ToLower[ProvisionOwner(prov[p].req)] = ToLower[e]
<1>1. ASSUME NEW n \in Owned(e)', n \notin Owned(e)
      PROVE  \E p \in Provisioners :
               /\ ProvisionAnnotate(p) /\ Target(p) = n
               /\ ToLower[ProvisionOwner(prov[p].req)] = ToLower[e]
  <2>1. n \in Namespaces /\ ns'[n].ann # Empty
        /\ ToLower[ns'[n].ann.owner] = ToLower[e]
    BY <1>1 DEF Owned
  <2>2. ns'[n].ann \notin {ns[n].ann, Empty}
    BY <1>1, <2>1 DEF Owned
  <2>3. ASSUME NEW r \in Requests, ns[n].ann \in EnclaveInfo,
               ns'[n].ann = SyncedInfo(r.params, ns[n].ann)
        PROVE  FALSE
    <3>1. ns'[n].ann.owner = ns[n].ann.owner
      BY <2>1, <2>3 DEF NoHeir, SyncedInfo, OrElse
    <3> QED BY <1>1, <2>1, <2>3, <3>1, NoInfoAssumption DEF Owned
  <2>4. PICK p \in Provisioners :
              /\ ProvisionAnnotate(p) /\ Target(p) = n
              /\ ns'[n].ann = ProvisionedInfo(prov[p].req)
    BY <2>1, <2>2, <2>3, AnnotationSteps
  <2> QED BY <2>1, <2>4 DEF ProvisionedInfo
<1>2. CASE Owned(e)' \subseteq Owned(e)
  BY <1>2
<1>3. ASSUME NEW n \in Owned(e)', n \notin Owned(e)
      PROVE  \E p \in Provisioners :
              /\ ProvisionAnnotate(p)
              /\ Owned(e)' \subseteq Owned(e) \cup {Target(p)}
              /\ ToLower[ProvisionOwner(prov[p].req)] = ToLower[e]
  <2>1. PICK p \in Provisioners :
               /\ ProvisionAnnotate(p) /\ Target(p) = n
               /\ ToLower[ProvisionOwner(prov[p].req)] = ToLower[e]
    BY <1>1, <1>3
  <2>2. ASSUME NEW m \in Owned(e)', m \notin Owned(e) PROVE m = Target(p)
    <3>1. m \in Namespaces /\ ns'[m] # ns[m]
      BY <2>2 DEF Owned
    <3> QED BY <2>1, <3>1, ProvTouches DEF ProvisionStep
  <2> QED BY <2>1, <2>2
<1> QED BY <1>2, <1>3

\* The owner enclave_provision gives an enclave is an email.
LEMMA ProvisionOwnerType ==
  ASSUME NEW x, ProvOK(x), x.pc # "idle"
  PROVE  ProvisionOwner(x.req) \in Emails
<1>1. /\ x.req \in ProvisionRequests
      /\ x.req.deployer.provider = "oidc" => x.req.deployer.email # Empty
  BY DEF ProvOK
<1>2. x.req.owner \in Emails /\ x.req.deployer.email \in Emails \cup {Empty}
  BY <1>1, LifecycleAssumption DEF Deployers
<1> QED BY <1>1, <1>2 DEF ProvisionOwner

\* A call is admitted by its count only, which found the owner below the limit.
LEMMA AdmittedSteps ==
  ASSUME TypeInv, [Next]_vars, NEW e \in Emails,
         \A n \in Namespaces : ns[n].phase = "Absent" => ns[n].ann = Empty,
         IsFiniteSet(Namespaces), NEW p \in Admitted(e)', p \notin Admitted(e)
  PROVE  UNCHANGED ns /\ Cardinality(Owned(e)) < MaxEnclavesPerOwner
<1>a. prov \in [Provisioners -> ProvCalls] /\ p \in Provisioners
  BY DEF TypeInv, TypeOK, Admitted
<1>b. /\ prov'[p].pc \in {"create", "get", "annotate"}
      /\ ToLower[ProvisionOwner(prov'[p].req)] = ToLower[e]
  BY DEF Admitted
<1>c. prov'[p] # prov[p]
  BY <1>a, <1>b DEF Admitted
<1>d. ~ProvisionAnnotate(p)
  <2>1. ASSUME ProvisionAnnotate(p) PROVE prov'[p].pc \in {"resources", "rollback"}
    BY <1>a, <2>1 DEF ProvisionAnnotate, ProvGoto, ProvCalls
  <2> QED BY <1>b, <2>1
<1>1. \/ \E r \in ProvisionRequests : ProvisionStart(p, r)
      \/ ProvisionStep(p) \/ ProvisionFail(p)
  BY <1>a, <1>c, ProvSteps
<1>2. ASSUME NEW loc, loc \in {"idle", "count", "resources", "services", "rollback"},
             prov'[p].pc = loc
      PROVE  FALSE
  BY <1>b, <1>2
<1>3. ~ProvReturn(p)
  BY <1>a, <1>2 DEF ProvReturn, IdleProv
<1>4. ASSUME NEW r, ProvisionStart(p, r) PROVE FALSE
  <2>1. prov' = [prov EXCEPT ![p] = [IdleProv EXCEPT !.pc = "count", !.req = r]]
    BY <1>4 DEF ProvisionStart
  <2>2. prov'[p].pc = "count"
    BY <1>a, <2>1 DEF IdleProv
  <2> QED BY <1>2, <2>2
<1>5. ~ProvGoto(p, "rollback") /\ ~ProvisionResource(p)
  <2>1. ASSUME NEW loc, ProvGoto(p, loc) PROVE prov'[p].pc = loc
    BY <1>a, <2>1 DEF ProvGoto, ProvCalls
  <2>2. ASSUME ProvisionResource(p), ~ProvGoto(p, "rollback") PROVE FALSE
    <3> DEFINE next == IF prov[p].step + 1 = Len(ProvisionSteps) THEN "services"
                       ELSE "resources"
    <3>1. prov' = [prov EXCEPT ![p] =
                    [prov[p] EXCEPT !.step = prov[p].step + 1, !.pc = next]]
      BY <2>2 DEF ProvisionResource
    <3>2. next \in {"services", "resources"}
      OBVIOUS
    <3> HIDE DEF next
    <3>3. prov'[p].pc = next
      BY <1>a, <3>1 DEF ProvCalls
    <3> QED BY <1>2, <3>2, <3>3
  <2> QED BY <1>2, <2>1, <2>2
<1>6. ProvisionCount(p) \/ ProvisionCreate(p) \/ ProvisionGet(p)
  BY <1>d, <1>1, <1>3, <1>4, <1>5
  DEF ProvisionStep, ProvisionFail, ProvisionServices, ProvisionRollback
<1>7. CASE ProvisionCount(p)
  <2>1. /\ ~(countEnclavesOwnedBy(ToLower[ProvisionOwner(prov[p].req)])
               >= MaxEnclavesPerOwner)
        /\ prov' = [prov EXCEPT ![p].pc = "create"]
    BY <1>3, <1>7 DEF ProvisionCount, ProvGoto
  <2>2. prov'[p].req = prov[p].req
    BY <1>a, <2>1 DEF ProvCalls
  <2>3. countEnclavesOwnedBy(ToLower[e]) = Cardinality(Owned(e))
    <3>1. {n \in Namespaces : NsExists(n) /\ IsEnclave(ns[n])
                                /\ ToLower[ns[n].ann.owner] = ToLower[e]} = Owned(e)
      BY DEF NsExists, IsEnclave, Owned
    <3> QED BY <3>1 DEF countEnclavesOwnedBy
  <2>4. ToLower[ProvisionOwner(prov[p].req)] = ToLower[e]
    BY <1>b, <2>2
  <2>5. Cardinality(Owned(e)) \in Nat
    BY FS_Subset, FS_CardinalityType DEF Owned
  <2> QED BY <1>7, <2>1, <2>3, <2>4, <2>5, LifecycleAssumption
          DEF ProvisionCount, clusterVars
<1>8. CASE ProvisionCreate(p) \/ ProvisionGet(p)
  <2>0. Working(p)'
    <3>1. ASSUME NEW y, prov' = [prov EXCEPT ![p] = y],
                 y.pc \in {"get", "annotate", "rollback"}
          PROVE  Working(p)'
      BY <1>a, <3>1 DEF Working
    <3>2. CASE ProvisionCreate(p)
      <4> DEFINE next == IF ValidateEnclaveInfo(prov[p].req) THEN "get"
                         ELSE "rollback"
                 u == ns[Target(p)].rv + 1
                 y == [prov[p] EXCEPT !.uid = u, !.pc = next]
      <4>1. prov' = [prov EXCEPT ![p] = y]
        BY <1>3, <3>2 DEF ProvisionCreate
      <4>2. next \in {"get", "rollback"}
        OBVIOUS
      <4> HIDE DEF next, u
      <4>3. y.pc = next
        BY <1>a DEF ProvCalls
      <4> QED BY <3>1, <4>1, <4>2, <4>3
    <3>3. CASE ProvisionGet(p)
      <4> DEFINE v == ns[Target(p)].rv
                 y == [prov[p] EXCEPT !.rv = v, !.pc = "annotate"]
      <4>1. prov' = [prov EXCEPT ![p] = y]
        BY <1>5, <3>3 DEF ProvisionGet
      <4> HIDE DEF v
      <4>2. y.pc = "annotate"
        BY <1>a DEF ProvCalls
      <4> QED BY <3>1, <4>1, <4>2
    <3> QED BY <1>8, <3>2, <3>3
  <2>1. prov'[p].req = prov[p].req
    BY <1>a, <1>1, <2>0, ProvTouches
  <2>2. prov[p].pc \in {"create", "get"}
    BY <1>8 DEF ProvisionCreate, ProvisionGet
  <2> QED BY <1>b, <2>1, <2>2 DEF Admitted
<1> QED BY <1>6, <1>7, <1>8

\* A call that annotates its namespace is admitted no more.
LEMMA AnnotatedLeaves ==
  ASSUME TypeInv, NEW p \in Provisioners, ProvisionAnnotate(p), NEW e \in Emails
  PROVE  p \notin Admitted(e)'
<1>1. prov'[p].pc \in {"resources", "rollback"}
  BY DEF ProvisionAnnotate, ProvGoto, ProvCalls, TypeInv, TypeOK
<1> QED BY <1>1 DEF Admitted

\* Every step keeps the invariant: a call is admitted below the limit, where all
\* calls together fit, and leaves the admitted when it adds its enclave.
LEMMA LimitNext ==
  ASSUME TypeInv, Current, LimitInv, [Next]_vars, LimitedAtFirst
  PROVE  LimitInv'
<1>1. \A n \in Namespaces : ns'[n].phase = "Absent" => ns'[n].ann = Empty
  BY GoneStep DEF LimitInv
<1>2. ASSUME NEW e \in Emails, NoHeir(e)
      PROVE  Cardinality(Owned(e)') + Cardinality(Admitted(e)')
               < MaxEnclavesPerOwner + Cardinality(Provisioners)
  <2> DEFINE own == Owned(e)
             ownN == Owned(e)'
             adm == Admitted(e)
             admN == Admitted(e)'
             all == Cardinality(Provisioners)
  <2>1. /\ own \in SUBSET Namespaces /\ ownN \in SUBSET Namespaces
        /\ adm \in SUBSET Provisioners /\ admN \in SUBSET Provisioners
    BY DEF Owned, Admitted
  <2>2. Cardinality(own) + Cardinality(adm) < MaxEnclavesPerOwner + all
    BY <1>2 DEF LimitInv
  <2>3. CASE \E p \in admN : p \notin adm
    <3>1. UNCHANGED ns /\ Cardinality(own) < MaxEnclavesPerOwner
      BY <1>2, <2>3, AdmittedSteps DEF LimitInv, LimitedAtFirst
    <3>2. ownN = own
      BY <3>1 DEF Owned
    <3> HIDE DEF own, ownN, adm, admN
    <3>3. Cardinality(admN) <= all
      BY <2>1, FS_Subset DEF LimitedAtFirst
    <3>4. /\ Cardinality(own) \in Nat /\ Cardinality(admN) \in Nat
          /\ all \in Nat /\ MaxEnclavesPerOwner \in Nat
      BY <2>1, FS_Subset, FS_CardinalityType, LifecycleAssumption DEF LimitedAtFirst
    <3> HIDE DEF all
    <3>5. Cardinality(ownN) + Cardinality(admN) < MaxEnclavesPerOwner + all
      BY <3>1, <3>2, <3>3, <3>4
    <3> QED BY <3>5 DEF own, ownN, adm, admN, all
  <2>4. CASE admN \subseteq adm
    <3>0. \/ ownN \subseteq own
          \/ \E p \in adm : \E n : ownN \subseteq own \cup {n} /\ admN \subseteq adm \ {p}
      <4>1. CASE ownN \subseteq own
        BY <4>1
      <4>2. ASSUME NEW p \in Provisioners, ProvisionAnnotate(p),
                   ownN \subseteq own \cup {Target(p)},
                   ToLower[ProvisionOwner(prov[p].req)] = ToLower[e]
            PROVE  \E q \in adm : \E n : ownN \subseteq own \cup {n} /\ admN \subseteq adm \ {q}
        <5>1. p \in adm
          BY <4>2 DEF Admitted, ProvisionAnnotate
        <5>2. p \notin admN
          BY <1>2, <4>2, AnnotatedLeaves
        <5> HIDE DEF own, ownN, adm, admN
        <5> QED BY <2>4, <4>2, <5>1, <5>2
      <4> QED BY <1>2, <4>1, <4>2, OwnedSteps
    <3> HIDE DEF own, ownN, adm, admN
    <3>1. IsFiniteSet(own) /\ IsFiniteSet(ownN) /\ IsFiniteSet(adm) /\ IsFiniteSet(admN)
      BY <2>1, FS_Subset DEF LimitedAtFirst
    <3>2. /\ Cardinality(own) \in Nat /\ Cardinality(ownN) \in Nat
          /\ Cardinality(adm) \in Nat /\ Cardinality(admN) \in Nat
          /\ all \in Nat /\ MaxEnclavesPerOwner \in Nat
      BY <3>1, FS_CardinalityType, LifecycleAssumption DEF LimitedAtFirst
    <3> HIDE DEF all
    <3>3. CASE ownN \subseteq own
      <4>1. Cardinality(ownN) <= Cardinality(own) /\ Cardinality(admN) <= Cardinality(adm)
        BY <2>4, <3>1, <3>3, FS_Subset
      <4>2. Cardinality(ownN) + Cardinality(admN) < MaxEnclavesPerOwner + all
        BY <2>2, <3>2, <4>1
      <4> QED BY <4>2 DEF own, ownN, adm, admN, all
    <3>4. ASSUME NEW p \in adm, NEW n, ownN \subseteq own \cup {n}, admN \subseteq adm \ {p}
          PROVE  Cardinality(ownN) + Cardinality(admN) < MaxEnclavesPerOwner + all
      <4>1. /\ IsFiniteSet(own \cup {n})
            /\ Cardinality(own \cup {n}) = IF n \in own THEN Cardinality(own)
                                            ELSE Cardinality(own) + 1
        BY <3>1, FS_AddElement
      <4>2. IsFiniteSet(adm \ {p}) /\ Cardinality(adm \ {p}) = Cardinality(adm) - 1
        BY <3>1, FS_RemoveElement
      <4>3. Cardinality(ownN) <= Cardinality(own \cup {n})
        BY <3>4, <4>1, FS_Subset
      <4>4. Cardinality(admN) <= Cardinality(adm \ {p})
        BY <3>4, <4>2, FS_Subset
      <4> QED BY <2>2, <3>2, <4>1, <4>2, <4>3, <4>4
    <3> QED BY <3>0, <3>3, <3>4 DEF own, ownN, adm, admN, all
  <2> HIDE DEF own, ownN
  <2> QED BY <2>3, <2>4
<1> QED BY <1>1, <1>2 DEF LimitInv, NoHeir

\* However many calls of enclave_provision overlap, and whatever deprovisions, syncs,
\* failures and rollbacks come between their count and their annotation, an owner to
\* whom no enclave is transferred, however capitalised, exceeds MaxEnclavesPerOwner by
\* less than the number of calls that may overlap: not at all, if none do.
THEOREM LimitAlwaysKept ==
  ASSUME LimitedAtFirst
  PROVE  Spec => []OwnerLimit
<1> DEFINE all == Cardinality(Provisioners)
<1>0. all \in Nat /\ all > 0 /\ MaxEnclavesPerOwner \in Nat
  <2>1. all \in Nat
    BY FS_CardinalityType DEF LimitedAtFirst
  <2>2. all # 0
    BY FS_EmptySet DEF LimitedAtFirst
  <2> QED BY <2>1, <2>2, LifecycleAssumption
<1>1. LimitInv => OwnerLimit
  <2> SUFFICES ASSUME LimitInv, NEW e \in Emails, NoHeir(e)
               PROVE  Cardinality({n \in Namespaces :
                        /\ ns[n].phase # "Absent" /\ ns[n].ann # Empty
                        /\ ToLower[ns[n].ann.owner] = ToLower[e]})
                      < MaxEnclavesPerOwner + all
    BY DEF OwnerLimit, NoHeir
  <2>1. Owned(e) = {n \in Namespaces :
                        /\ ns[n].phase # "Absent" /\ ns[n].ann # Empty
                        /\ ToLower[ns[n].ann.owner] = ToLower[e]}
    BY DEF Owned, LimitInv
  <2>2. Cardinality(Owned(e)) \in Nat /\ Cardinality(Admitted(e)) \in Nat
    <3>1. Owned(e) \in SUBSET Namespaces /\ Admitted(e) \in SUBSET Provisioners
      BY DEF Owned, Admitted
    <3> QED BY <3>1, FS_Subset, FS_CardinalityType DEF LimitedAtFirst
  <2>3. Cardinality(Owned(e)) + Cardinality(Admitted(e)) < MaxEnclavesPerOwner + all
    BY DEF LimitInv
  <2> HIDE DEF all
  <2>4. Cardinality(Owned(e)) < MaxEnclavesPerOwner + all
    BY <1>0, <2>2, <2>3
  <2> QED BY <2>1, <2>4
<1>2. Init => LimitInv
  <2> SUFFICES ASSUME Init PROVE LimitInv
    OBVIOUS
  <2>1. PICK enclaves \in InitialEnclaves :
          ns = [n \in Namespaces |->
                 [phase |-> IF enclaves[n] # Empty THEN "Active" ELSE "Absent",
                  rv |-> IF enclaves[n] # Empty THEN 1 ELSE 0,
                  uid |-> IF enclaves[n] # Empty THEN 1 ELSE 0, ann |-> enclaves[n]]]
    BY DEF Init, ClusterInit
  <2>2. \A n \in Namespaces : /\ ns[n].ann = enclaves[n]
                              /\ ns[n].phase = "Absent" => ns[n].ann = Empty
    BY <2>1
  <2>3. ASSUME NEW e \in Emails
        PROVE  Cardinality(Owned(e)) + Cardinality(Admitted(e)) < MaxEnclavesPerOwner + all
    <3>1. Owned(e) = {n \in Namespaces :
            enclaves[n] # Empty /\ ToLower[enclaves[n].owner] = ToLower[e]}
      BY <2>2 DEF Owned
    <3>2. Admitted(e) = {}
      BY DEF Init, LifecycleInit, IdleProv, Admitted
    <3>3. Cardinality(Owned(e)) <= MaxEnclavesPerOwner
      BY <3>1 DEF LimitedAtFirst
    <3>4. Cardinality(Admitted(e)) = 0
      BY <3>2, FS_EmptySet
    <3>5. Cardinality(Owned(e)) \in Nat
      BY FS_Subset, FS_CardinalityType DEF LimitedAtFirst, Owned
    <3> HIDE DEF all
    <3> QED BY <1>0, <3>3, <3>4, <3>5
  <2> QED BY <2>2, <2>3 DEF LimitInv
<1>3. TypeInv /\ Current /\ LimitInv /\ [Next]_vars => LimitInv'
  BY LimitNext
<1> QED BY TypeInit, TypeNext, CurrentInit, CurrentNext, <1>1, <1>2, <1>3, PTL DEF Spec
=============================================================================
